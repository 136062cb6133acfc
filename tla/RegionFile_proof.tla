------------------------- MODULE RegionFile_proof -------------------------
(***************************************************************************)
(* Proofs about RegionFile, for any columns, chunk sizes and file size.    *)
(* Whatever fails or ends before its time, also in the middle of a journal *)
(* entry: the saved columns of the index lie within the file, and unless   *)
(* an entry was appended to a torn one, the journal says what the index    *)
(* says.  In one session no two chunks share space, and every column is    *)
(* stored as last saved; it is also read as that until the data file       *)
(* fails.                                                                  *)
(***************************************************************************)
EXTENDS RegionFile, SequenceTheorems, FiniteSetTheorems, WellFoundedInduction, TLAPS

\* Nothing happens that lets index, free list and journal part.
Peaceful == events \intersect {"reopen", "crash", "toc_fails", "compact_crash"} = {}

\* Entry e lies where spans lie; and if it was not misread, the file d was
\* written to e's last cell, which no save undoes.
IsWritten(d, e) == SpanOf(e) \in Span /\ (e.real => d[e.off + e.size - 1] # None)

\* So do all entries of journal j, and those of ix, each its own column's.
AreWritten(d, j, ix) ==
    /\ \A i \in 1..Len(j) : IsWritten(d, j[i])
    /\ \A k \in Keys : ix[k] # None => ix[k].key = k /\ IsWritten(d, ix[k])

EntriesAreWritten == AreWritten(dat, toc, index)

\* No entry of journal j or of ix that was not misread is later than now.
AreStamped(now, j, ix) ==
    /\ \A i \in 1..Len(j) : j[i].real => j[i].stamp <= now
    /\ \A k \in Keys : ix[k] # None /\ ix[k].real => ix[k].stamp <= now

StampsAreKept == TimeIsRight => AreStamped(clock, toc, index)

\* The inductive invariant of every behaviour.
IInv == TypeOK /\ EntriesAreWritten /\ StampsAreKept /\ JournalMatchesIndex

Apart(s, t) == s.off + s.size <= t.off \/ t.off + t.size <= s.off

\* The spans of the columns in ix and those listed in f share no cell, and all
\* end before end.
Divides(ix, f, end) ==
    /\ \A k, j \in Keys : k # j /\ ix[k] # None /\ ix[j] # None => Apart(ix[k], ix[j])
    /\ \A s, t \in Span : s # t /\ f[s] > 0 /\ f[t] > 0 => Apart(s, t)
    /\ \A k \in Keys, s \in Span : ix[k] # None /\ f[s] > 0 => Apart(ix[k], s)
    /\ \A k \in Keys : ix[k] # None => ix[k].off + ix[k].size <= end
    /\ \A s \in Span : f[s] <= 1 /\ (f[s] > 0 => s.off + s.size <= end)

\* Each cell before end belongs to one of them.
Covers(ix, f, end) ==
    \A c \in 0..(end - 1) :
        \/ \E k \in Keys : ix[k] # None /\ c \in CellsOf(ix[k])
        \/ \E s \in Span : f[s] > 0 /\ c \in CellsOf(s)

\* The cells of column k, in the file d, hold the chunk of version v.
Holds(d, ix, k, v) ==
    IF ix[k] = None THEN v = 0
    ELSE \A c \in CellsOf(ix[k]) :
            d[c] = [key |-> k, ver |-> v, size |-> ix[k].size, at |-> c - ix[k].off]

\* The inductive invariant of a session.
SessionInv ==
    /\ isOpen /\ ~tocBad
    /\ Divides(index, free, dataEnd)
    /\ ~datBad => Covers(index, free, dataEnd)
    /\ \A k \in Keys : Holds(dat, index, k, saved[k])

SInv == IInv /\ (Peaceful => SessionInv)
-----------------------------------------------------------------------------
(* Numbers.                                                                *)

\* A set of natural numbers has a least one.
LEMMA LeastNatural ==
    ASSUME NEW S, S \subseteq Nat, S # {}
    PROVE  \E m \in S : \A x \in S : m <= x
<1> DEFINE R == {ss \in Nat \X Nat : ss[1] < ss[2]}
<1>1. IsWellFoundedOn(R, Nat)
  BY NatLessThanWellFounded DEF OpToRel
<1> HIDE DEF R
<1>2. PICK m \in S : \A x \in S : ~(<<x, m>> \in R)
  BY <1>1, WFMin
<1>3. \A x \in S : ~(x < m)
  BY <1>2 DEF R
<1> QED BY <1>3

\* A set of integers with an upper bound has a greatest one, which Max() finds.
LEMMA MaxOfBounded ==
    ASSUME NEW S, S \subseteq Int, S # {}, NEW b \in Int, \A x \in S : x <= b
    PROVE  Max(S) \in S /\ \A x \in S : Max(S) >= x
<1> DEFINE D == {b - x : x \in S}
<1>1. D \subseteq Nat /\ D # {}
  <2>1. \A x \in S : b - x \in Nat
    OBVIOUS
  <2> QED BY <2>1
<1> HIDE DEF D
<1>2. PICK d \in D : \A y \in D : d <= y
  BY <1>1, LeastNatural
<1>3. PICK m \in S : d = b - m
  BY DEF D
<1>4. \A x \in S : b - x \in D
  BY DEF D
<1>5. \A x \in S : m >= x
  BY <1>2, <1>3, <1>4
<1> QED BY <1>5 DEF Max

\* A stamp is a number, the clock's until it has gone round.
LEMMA StampLemma ==
    ASSUME NEW time \in Nat
    PROVE  StampAt(time) \in Nat /\ (time < StampRange => StampAt(time) = time)
<1>1. PICK r \in Nat \ {0} : r = StampRange
  BY WidthsAssumption
<1>2. time % r \in 0..(r - 1) /\ (time < r => time % r = time)
  BY <1>1
<1> QED BY <1>1, <1>2 DEF StampAt

\* The data file ends after its last cell that was written.
LEMMA DatSizeLemma ==
    /\ DatSize \in 0..MaxEnd
    /\ \A c \in Cells : dat[c] # None => c + 1 <= DatSize
<1> DEFINE S == {c + 1 : c \in {d \in Cells : dat[d] # None}} \union {0}
<1>1. MaxEnd \in Nat
  BY RegionBounds
<1>2. \A c \in Cells : c \in Int /\ 0 <= c /\ c + 1 <= MaxEnd
  BY <1>1 DEF Cells
<1>3. \A x \in S : x \in Int /\ 0 <= x /\ x <= MaxEnd
  BY <1>1, <1>2
<1>4. \A c \in Cells : dat[c] # None => c + 1 \in S
  OBVIOUS
<1>5. S # {} /\ S \subseteq Int
  BY <1>3
<1>6. DatSize = Max(S)
  BY DEF DatSize
<1> HIDE DEF S
<1>7. Max(S) \in S /\ \A x \in S : Max(S) >= x
  <2>1. MaxEnd \in Int /\ \A x \in S : x <= MaxEnd
    BY <1>1, <1>3
  <2> QED BY <1>5, <2>1, MaxOfBounded
<1> QED BY <1>1, <1>2, <1>3, <1>4, <1>6, <1>7

-----------------------------------------------------------------------------
(* Spans.                                                                  *)

\* A span lies in the file.
LEMMA SpanIs ==
    /\ \A s \in Span : s.off \in Nat /\ s.size \in Nat /\ s.size >= 1 /\ s.off + s.size <= MaxEnd
                       /\ s = [off |-> s.off, size |-> s.size]
    /\ \A o, n \in Nat : n >= 1 /\ o + n <= MaxEnd => [off |-> o, size |-> n] \in Span
BY RegionBounds DEF Span

\* findFreeSpan() returns a span of the list that is large enough.
LEMMA BestFitFits ==
    ASSUME NEW size \in Nat, Fitting(size) # {}
    PROVE  BestFit(size) \in Fitting(size)
<1> DEFINE F == Fitting(size)
           Z == {s.size : s \in F}
<1>1. \A s \in F : s \in Span /\ s.off \in Nat /\ s.size \in Nat
  BY SpanIs DEF Fitting
<1>2. F # {}
  OBVIOUS
<1> HIDE DEF F
<1>3. Z \subseteq Nat /\ Z # {}
  BY <1>1, <1>2
<1>4. PICK z \in Z : \A x \in Z : z <= x
  BY <1>3, LeastNatural
<1> DEFINE O == {s.off : s \in {t \in F : t.size = z}}
<1>5. O \subseteq Nat /\ O # {}
  BY <1>1, <1>4
<1>6. PICK o \in O : \A x \in O : o <= x
  BY <1>5, LeastNatural
<1>7. PICK s \in F : s.size = z /\ s.off = o
  BY <1>6
<1>8. \A t \in F : t.size \in Z /\ (t.size = z => t.off \in O)
  OBVIOUS
<1> HIDE DEF Z, O
<1>9. ASSUME NEW t \in F PROVE s.size < t.size \/ (s.size = t.size /\ s.off <= t.off)
  <2>1. z <= t.size /\ t.size \in Nat /\ z \in Nat
    BY <1>1, <1>3, <1>4, <1>8
  <2>2. t.size = z => o <= t.off
    BY <1>6, <1>8
  <2> QED BY <1>7, <2>1, <2>2
<1> QED BY <1>9 DEF BestFit, F

\* How a place n is found: at the start of a listed span, the rest of which is
\* listed instead, or at the end of the file.
Takes(f, g, end, endAfter, n) ==
    \/ \E s \in Span :
          /\ f[s] > 0 /\ n.off = s.off /\ n.size <= s.size /\ endAfter = end
          /\ n.size = s.size => \A t \in Span : g[t] = IF t = s THEN f[t] - 1 ELSE f[t]
          /\ n.size # s.size =>
               \E r \in Span :
                  /\ r.off = s.off + n.size /\ r.size = s.size - n.size
                  /\ \A t \in Span : g[t] = IF t = s THEN f[t] - 1 ELSE IF t = r THEN f[t] + 1 ELSE f[t]
    \/ n.off = end /\ g = f /\ endAfter = end + n.size

\* saveColumnRaw() finds its place that way, and within the bounds.
LEMMA PlaceTakes ==
    ASSUME TypeOK, NEW size \in Sizes, Place(size).end <= MaxEnd,
           NEW p, p = Place(size), NEW n, n = [off |-> p.off, size |-> size]
    PROVE  /\ n \in Span /\ p.free \in [Span -> Nat] /\ p.end \in 0..MaxEnd
           /\ Takes(free, p.free, dataEnd, p.end, n)
<1>1. size \in Nat /\ size >= 1 /\ MaxEnd \in Nat /\ dataEnd \in Nat /\ free \in [Span -> Nat]
  BY SizesAssumption, RegionBounds DEF TypeOK
<1>2. CASE Fitting(size) # {}
  <2>1. PICK s : s = BestFit(size)
    OBVIOUS
  <2>2. s \in Span /\ free[s] > 0 /\ s.size >= size
    BY <1>1, <1>2, <2>1, BestFitFits DEF Fitting, Listed
  <2>3. p.off = s.off /\ p.end = dataEnd /\ p.free = Carve(s, size)
    BY <1>2, <2>1 DEF Place
  <2>4. s.off \in Nat /\ s.size \in Nat /\ s.off + s.size <= MaxEnd
    BY <2>2, SpanIs
  <2>5. n \in Span /\ n.off = s.off /\ n.size = size
    BY <1>1, <2>2, <2>3, <2>4, SpanIs
  <2>6. free[s] - 1 \in Nat
    BY <1>1, <2>2
  <2>7. CASE s.size = size
    <3>1. p.free = [free EXCEPT ![s] = @ - 1]
      BY <2>3, <2>4, <2>7 DEF Carve
    <3>2. p.free \in [Span -> Nat] /\ \A t \in Span : p.free[t] = IF t = s THEN free[t] - 1 ELSE free[t]
      BY <1>1, <2>2, <2>6, <3>1
    <3>3. p.end \in 0..MaxEnd
      BY <2>3 DEF TypeOK
    <3>4. Takes(free, p.free, dataEnd, p.end, n)
      BY <2>2, <2>3, <2>5, <2>7, <3>2 DEF Takes
    <3> QED BY <2>5, <3>2, <3>3, <3>4
  <2>8. CASE s.size # size
    <3>1. PICK r : r = [off |-> s.off + size, size |-> s.size - size]
      OBVIOUS
    <3>2. s.size > size
      BY <1>1, <2>2, <2>4, <2>8
    <3>3. s.size - size \in Nat /\ s.size - size >= 1 /\ s.off + size \in Nat
          /\ (s.off + size) + (s.size - size) <= MaxEnd
      BY <1>1, <2>4, <3>2
    <3>4. r \in Span /\ r.off = s.off + size /\ r.size = s.size - size
      BY <3>1, <3>3, SpanIs
    <3>5. r # s
      <4>1. r.off # s.off
        BY <1>1, <2>4, <3>4
      <4> QED BY <4>1
    <3>6. p.free = [[free EXCEPT ![s] = @ - 1] EXCEPT ![r] = @ + 1]
      BY <2>3, <3>1, <3>2 DEF Carve, AddFree
    <3>7. \A t \in Span : p.free[t] = IF t = s THEN free[t] - 1 ELSE IF t = r THEN free[t] + 1 ELSE free[t]
      BY <1>1, <2>2, <3>4, <3>5, <3>6
    <3>8. p.free \in [Span -> Nat]
      BY <1>1, <2>2, <2>6, <3>4, <3>5, <3>6
    <3>9. p.end \in 0..MaxEnd
      BY <2>3 DEF TypeOK
    <3>10. Takes(free, p.free, dataEnd, p.end, n)
      BY <1>1, <2>2, <2>3, <2>5, <2>8, <3>4, <3>7 DEF Takes
    <3> QED BY <2>5, <3>8, <3>9, <3>10
  <2> QED BY <2>7, <2>8
<1>3. CASE Fitting(size) = {}
  <2>1. p.off = dataEnd /\ p.free = free /\ p.end = dataEnd + size
    BY <1>3 DEF Place
  <2>2. p.end \in 0..MaxEnd
    BY <1>1, <2>1
  <2>3. n \in Span
    BY <1>1, <2>1, SpanIs
  <2>4. n.off = dataEnd /\ n.size = size
    BY <2>1
  <2> QED BY <1>1, <2>1, <2>2, <2>3, <2>4 DEF Takes
<1> QED BY <1>2, <1>3

\* What an index says lies where spans lie.
Placed(ix) == \A k \in Keys : ix[k] # None => SpanOf(ix[k]) \in Span

\* A place n that no column and no listed span shares.
Clear(ix, f, n) ==
    /\ \A k \in Keys : ix[k] # None => Apart(ix[k], n)
    /\ \A s \in Span : f[s] > 0 => Apart(s, n)

CoversWith(ix, f, end, n) ==
    \A c \in 0..(end - 1) :
        \/ \E k \in Keys : ix[k] # None /\ c \in CellsOf(ix[k])
        \/ \E s \in Span : f[s] > 0 /\ c \in CellsOf(s)
        \/ c \in CellsOf(n)

\* The span of an entry that is placed.
LEMMA PlacedIs ==
    ASSUME NEW ix, Placed(ix), NEW k \in Keys, ix[k] # None
    PROVE  /\ ix[k].off \in Nat /\ ix[k].size \in Nat /\ ix[k].size >= 1 /\ ix[k].off + ix[k].size <= MaxEnd
           /\ SpanOf(ix[k]) \in Span /\ SpanOf(ix[k]).off = ix[k].off /\ SpanOf(ix[k]).size = ix[k].size
BY SpanIs DEF Placed, SpanOf

\* A place found is clear, and the rest still divides the file.
LEMMA TakesDivides ==
    ASSUME NEW ix, Placed(ix), NEW f \in [Span -> Nat], NEW g \in [Span -> Nat],
           NEW end \in Nat, NEW endAfter, NEW n \in Span, n.off + n.size <= MaxEnd,
           Divides(ix, f, end), Takes(f, g, end, endAfter, n)
    PROVE  /\ Divides(ix, g, endAfter) /\ Clear(ix, g, n)
           /\ end <= endAfter /\ n.off + n.size <= endAfter /\ endAfter \in Nat
           /\ Covers(ix, f, end) => CoversWith(ix, g, endAfter, n)
<1>1. \A s \in Span : s.off \in Nat /\ s.size \in Nat /\ s.size >= 1
                      /\ s = [off |-> s.off, size |-> s.size]
  BY SpanIs
<1>2. \A k \in Keys : ix[k] # None => ix[k].off \in Nat /\ ix[k].size \in Nat /\ ix[k].size >= 1
  BY PlacedIs
<1>3. /\ \A s, t \in Span : s # t /\ f[s] > 0 /\ f[t] > 0 => Apart(s, t)
      /\ \A k \in Keys, s \in Span : ix[k] # None /\ f[s] > 0 => Apart(ix[k], s)
      /\ \A k \in Keys : ix[k] # None => ix[k].off + ix[k].size <= end
      /\ \A s \in Span : f[s] <= 1 /\ (f[s] > 0 => s.off + s.size <= end)
      /\ \A k, j \in Keys : k # j /\ ix[k] # None /\ ix[j] # None => Apart(ix[k], ix[j])
  BY DEF Divides
<1>4. CASE n.off = end /\ g = f /\ endAfter = end + n.size
  <2>1. end <= endAfter /\ n.off + n.size <= endAfter /\ endAfter \in Nat
    BY <1>1, <1>4
  <2>2. Clear(ix, g, n)
    BY <1>1, <1>2, <1>3, <1>4 DEF Clear, Apart
  <2>3. \A k \in Keys : ix[k] # None => ix[k].off + ix[k].size <= endAfter
    BY <1>2, <1>3, <2>1
  <2>4. \A s \in Span : g[s] > 0 => s.off + s.size <= endAfter
    BY <1>1, <1>3, <1>4, <2>1
  <2>5. Divides(ix, g, endAfter)
    BY <1>3, <1>4, <2>3, <2>4 DEF Divides
  <2>6. ASSUME Covers(ix, f, end) PROVE CoversWith(ix, g, endAfter, n)
    <3>1. SUFFICES ASSUME NEW c \in 0..(endAfter - 1)
                   PROVE  \/ \E k \in Keys : ix[k] # None /\ c \in CellsOf(ix[k])
                          \/ \E s \in Span : g[s] > 0 /\ c \in CellsOf(s)
                          \/ c \in CellsOf(n)
      BY DEF CoversWith
    <3>2. CASE c <= end - 1
      <4>1. c \in 0..(end - 1)
        BY <2>1, <3>2
      <4> QED BY <1>4, <2>6, <4>1 DEF Covers
    <3>3. CASE c > end - 1
      <4>1. c \in CellsOf(n)
        BY <1>1, <1>4, <3>3 DEF CellsOf
      <4> QED BY <4>1
    <3> QED BY <2>1, <3>2, <3>3
  <2> QED BY <2>1, <2>2, <2>5, <2>6
<1>5. CASE \E s \in Span :
          /\ f[s] > 0 /\ n.off = s.off /\ n.size <= s.size /\ endAfter = end
          /\ n.size = s.size => \A t \in Span : g[t] = IF t = s THEN f[t] - 1 ELSE f[t]
          /\ n.size # s.size =>
               \E r \in Span :
                  /\ r.off = s.off + n.size /\ r.size = s.size - n.size
                  /\ \A t \in Span : g[t] = IF t = s THEN f[t] - 1 ELSE IF t = r THEN f[t] + 1 ELSE f[t]
  <2>1. PICK s \in Span :
          /\ f[s] > 0 /\ n.off = s.off /\ n.size <= s.size /\ endAfter = end
          /\ n.size = s.size => \A t \in Span : g[t] = IF t = s THEN f[t] - 1 ELSE f[t]
          /\ n.size # s.size =>
               \E r \in Span :
                  /\ r.off = s.off + n.size /\ r.size = s.size - n.size
                  /\ \A t \in Span : g[t] = IF t = s THEN f[t] - 1 ELSE IF t = r THEN f[t] + 1 ELSE f[t]
    BY <1>5
  <2>2. s.off + s.size <= end /\ f[s] = 1
    BY <1>3, <2>1
  <2>3. end <= endAfter /\ n.off + n.size <= endAfter /\ endAfter \in Nat
    BY <1>1, <2>1, <2>2
  <2>4. \A k \in Keys : ix[k] # None => Apart(ix[k], n)
    BY <1>1, <1>2, <1>3, <2>1 DEF Apart
  <2>5. \A t \in Span : t # s /\ f[t] > 0 => Apart(t, n)
    BY <1>1, <1>3, <2>1 DEF Apart
  <2>6. CASE n.size = s.size
    <3>1. \A t \in Span : g[t] = IF t = s THEN f[t] - 1 ELSE f[t]
      BY <2>1, <2>6
    <3>2. \A t \in Span : g[t] > 0 => t # s /\ f[t] > 0
      BY <2>2, <3>1
    <3>3. Clear(ix, g, n)
      BY <2>4, <2>5, <3>2 DEF Clear
    <3>4. \A t \in Span : g[t] <= 1
      BY <1>3, <2>2, <3>1
    <3>5. Divides(ix, g, endAfter)
      BY <1>3, <2>1, <3>2, <3>4 DEF Divides
    <3>6. CellsOf(s) = CellsOf(n)
      BY <2>1, <2>6 DEF CellsOf
    <3>7. \A t \in Span : f[t] > 0 /\ t # s => g[t] > 0
      BY <3>1
    <3>8. Covers(ix, f, end) => CoversWith(ix, g, endAfter, n)
      BY <2>1, <3>6, <3>7 DEF Covers, CoversWith
    <3> QED BY <2>3, <3>3, <3>5, <3>8
  <2>7. CASE n.size # s.size
    <3>1. PICK r \in Span :
             /\ r.off = s.off + n.size /\ r.size = s.size - n.size
             /\ \A t \in Span : g[t] = IF t = s THEN f[t] - 1 ELSE IF t = r THEN f[t] + 1 ELSE f[t]
      BY <2>1, <2>7
    <3>2. r # s
      <4>1. r.off # s.off
        BY <1>1, <3>1
      <4> QED BY <4>1
    <3>3. f[r] = 0
      <4>1. ~Apart(r, s)
        BY <1>1, <3>1 DEF Apart
      <4> QED BY <1>3, <2>1, <3>2, <4>1
    <3>4. g[s] = 0 /\ g[r] = 1 /\ \A t \in Span : t # s /\ t # r => g[t] = f[t]
      BY <2>2, <3>1, <3>2, <3>3
    <3>5. \A t \in Span : g[t] > 0 => t # s /\ (t = r \/ f[t] > 0)
      BY <3>4
    <3>6. \A t \in Span : t # s /\ f[t] > 0 => Apart(r, t) /\ Apart(t, r)
      BY <1>1, <1>3, <2>1, <3>1 DEF Apart
    <3>7. \A k \in Keys : ix[k] # None => Apart(ix[k], r)
      BY <1>1, <1>2, <1>3, <2>1, <3>1 DEF Apart
    <3>8. Apart(r, n) /\ r.off + r.size <= endAfter
      BY <1>1, <2>1, <2>2, <3>1 DEF Apart
    <3>9. Clear(ix, g, n)
      BY <2>4, <2>5, <3>5, <3>8 DEF Clear
    <3>10. \A t \in Span : g[t] <= 1 /\ (g[t] > 0 => t.off + t.size <= endAfter)
      BY <1>3, <2>1, <3>4, <3>8
    <3>11. \A t, u \in Span : t # u /\ g[t] > 0 /\ g[u] > 0 => Apart(t, u)
      BY <1>3, <3>5, <3>6
    <3>12. \A k \in Keys, t \in Span : ix[k] # None /\ g[t] > 0 => Apart(ix[k], t)
      BY <1>3, <3>5, <3>7
    <3>13. Divides(ix, g, endAfter)
      BY <1>3, <2>1, <3>10, <3>11, <3>12 DEF Divides
    <3>14. \A c \in CellsOf(s) : c \in CellsOf(n) \/ c \in CellsOf(r)
      BY <1>1, <2>1, <3>1 DEF CellsOf
    <3>15. g[r] > 0 /\ \A t \in Span : f[t] > 0 /\ t # s => g[t] > 0
      BY <3>3, <3>4
    <3>16. Covers(ix, f, end) => CoversWith(ix, g, endAfter, n)
      BY <2>1, <3>14, <3>15 DEF Covers, CoversWith
    <3> QED BY <2>3, <3>9, <3>13, <3>16
  <2> QED BY <2>6, <2>7
<1> QED BY <1>4, <1>5 DEF Takes

\* Giving the place to column k, in exchange for its old one, leaves the file
\* divided.
LEMMA ExchangeDivides ==
    ASSUME NEW ix \in [Keys -> TocEntry \union {None}], Placed(ix), NEW g \in [Span -> Nat], NEW end \in Nat,
           NEW n \in Span, n.off + n.size <= end, Divides(ix, g, end), Clear(ix, g, n),
           NEW k \in Keys, NEW e \in TocEntry, SpanOf(e) = n,
           NEW jx, jx = [ix EXCEPT ![k] = e],
           NEW h, h = IF ix[k] = None THEN g ELSE AddFree(g, SpanOf(ix[k]))
    PROVE  Divides(jx, h, end) /\ (CoversWith(ix, g, end, n) => Covers(jx, h, end))
<1>1. \A s \in Span : s.off \in Nat /\ s.size \in Nat /\ s.size >= 1
                      /\ s = [off |-> s.off, size |-> s.size]
  BY SpanIs
<1>2. \A j \in Keys : ix[j] # None => ix[j].off \in Nat /\ ix[j].size \in Nat /\ ix[j].size >= 1
  BY PlacedIs
<1>3. /\ \A s, t \in Span : s # t /\ g[s] > 0 /\ g[t] > 0 => Apart(s, t)
      /\ \A j \in Keys, s \in Span : ix[j] # None /\ g[s] > 0 => Apart(ix[j], s)
      /\ \A j \in Keys : ix[j] # None => ix[j].off + ix[j].size <= end
      /\ \A s \in Span : g[s] <= 1 /\ (g[s] > 0 => s.off + s.size <= end)
      /\ \A i, j \in Keys : i # j /\ ix[i] # None /\ ix[j] # None => Apart(ix[i], ix[j])
  BY DEF Divides
<1>4. /\ \A j \in Keys : ix[j] # None => Apart(ix[j], n)
      /\ \A s \in Span : g[s] > 0 => Apart(s, n)
  BY DEF Clear
<1>5. e # None /\ e.off = n.off /\ e.size = n.size
  BY NoneAssumption DEF SpanOf
<1>6. jx[k] = e /\ \A j \in Keys : j # k => jx[j] = ix[j]
  OBVIOUS
<1>7. \A i, j \in Keys : i # j /\ jx[i] # None /\ jx[j] # None => Apart(jx[i], jx[j])
  <2>1. \A j \in Keys : j # k /\ ix[j] # None => Apart(ix[j], e) /\ Apart(e, ix[j])
    BY <1>1, <1>2, <1>4, <1>5 DEF Apart
  <2> QED BY <1>3, <1>6, <2>1
<1>8. \A j \in Keys : jx[j] # None => jx[j].off + jx[j].size <= end
  BY <1>3, <1>5, <1>6
<1>9. CASE ix[k] = None
  <2>1. h = g
    BY <1>9
  <2>2. \A j \in Keys, s \in Span : jx[j] # None /\ h[s] > 0 => Apart(jx[j], s)
    <3>1. \A s \in Span : g[s] > 0 => Apart(e, s)
      BY <1>1, <1>4, <1>5 DEF Apart
    <3> QED BY <1>3, <1>6, <2>1, <3>1
  <2>3. Divides(jx, h, end)
    BY <1>3, <1>7, <1>8, <2>1, <2>2 DEF Divides
  <2>4. CellsOf(n) = CellsOf(e)
    BY <1>5 DEF CellsOf
  <2>5. CoversWith(ix, g, end, n) => Covers(jx, h, end)
    BY <1>5, <1>6, <1>9, <2>1, <2>4 DEF CoversWith, Covers
  <2> QED BY <2>3, <2>5
<1>10. CASE ix[k] # None
  <2>1. PICK o \in Span : o = SpanOf(ix[k])
    BY <1>10 DEF Placed
  <2>2. o.off = ix[k].off /\ o.size = ix[k].size
    BY <2>1 DEF SpanOf
  <2>3. g[o] = 0
    <3>1. ~Apart(ix[k], o)
      BY <1>1, <1>2, <1>10, <2>2 DEF Apart
    <3> QED BY <1>3, <1>10, <3>1
  <2>4. h = [g EXCEPT ![o] = @ + 1]
    BY <1>10, <2>1 DEF AddFree
  <2>5. h[o] = 1 /\ \A s \in Span : s # o => h[s] = g[s]
    BY <2>3, <2>4
  <2>6. \A s \in Span : h[s] > 0 => s = o \/ g[s] > 0
    BY <2>5
  <2>7. \A s \in Span : g[s] > 0 => Apart(o, s) /\ Apart(s, o)
    BY <1>1, <1>2, <1>3, <1>10, <2>2 DEF Apart
  <2>8. \A s, t \in Span : s # t /\ h[s] > 0 /\ h[t] > 0 => Apart(s, t)
    BY <1>3, <2>6, <2>7
  <2>9. \A s \in Span : h[s] <= 1 /\ (h[s] > 0 => s.off + s.size <= end)
    BY <1>3, <1>10, <2>2, <2>5
  <2>10. \A j \in Keys, s \in Span : jx[j] # None /\ h[s] > 0 => Apart(jx[j], s)
    <3>1. \A s \in Span : g[s] > 0 => Apart(e, s)
      BY <1>1, <1>4, <1>5 DEF Apart
    <3>2. Apart(e, o)
      BY <1>1, <1>2, <1>4, <1>5, <1>10, <2>2 DEF Apart
    <3>3. \A j \in Keys : j # k /\ ix[j] # None => Apart(ix[j], o)
      BY <1>3, <1>10, <2>2 DEF Apart
    <3> QED BY <1>3, <1>6, <2>6, <3>1, <3>2, <3>3
  <2>11. Divides(jx, h, end)
    BY <1>7, <1>8, <2>8, <2>9, <2>10 DEF Divides
  <2>12. CellsOf(n) = CellsOf(e) /\ CellsOf(o) = CellsOf(ix[k])
    BY <1>5, <2>2 DEF CellsOf
  <2>13. h[o] > 0 /\ \A s \in Span : g[s] > 0 => h[s] > 0
    BY <2>5, <2>3
  <2>14. CoversWith(ix, g, end, n) => Covers(jx, h, end)
    BY <1>5, <1>6, <2>12, <2>13 DEF CoversWith, Covers
  <2> QED BY <2>11, <2>14
<1> QED BY <1>9, <1>10
-----------------------------------------------------------------------------
(* Every behaviour.                                                        *)

\* Every cell written in d is written in w.
Keeps(d, w) == \A c \in Cells : d[c] # None => w[c] # None

\* w is d with the first n cells of a chunk in their place.
Fills(d, w, k, v, size, off, n) ==
    /\ w \in [Cells -> Cell \union {None}]
    /\ \A c \in Cells : c \in off..(off + n - 1) =>
          w[c] = [key |-> k, ver |-> v, size |-> size, at |-> c - off] /\ w[c] # None
    /\ \A c \in Cells : c \notin off..(off + n - 1) => w[c] = d[c]
    /\ Keeps(d, w)

\* writeChunkData() fills its cells and leaves the others.
LEMMA WrittenFills ==
    ASSUME TypeOK, NEW k \in Keys, NEW v \in Nat, NEW size \in Nat, NEW off \in Nat, NEW n \in Nat
    PROVE  Fills(dat, Written(k, v, size, off, n), k, v, size, off, n)
<1>0. PICK w : w = Written(k, v, size, off, n)
  OBVIOUS
<1>1. \A c \in Cells : w[c] = IF c \in off..(off + n - 1)
                              THEN [key |-> k, ver |-> v, size |-> size, at |-> c - off] ELSE dat[c]
  BY <1>0 DEF Written
<1>2. \A c \in Cells : dat[c] \in Cell \union {None}
  BY DEF TypeOK
<1>3. ASSUME NEW c \in Cells, c \in off..(off + n - 1)
      PROVE  [key |-> k, ver |-> v, size |-> size, at |-> c - off] \in Cell
  <2>1. c - off \in Nat
    BY <1>3
  <2> QED BY <2>1 DEF Cell
<1>4. ASSUME NEW c \in Cells, c \in off..(off + n - 1)
      PROVE  w[c] = [key |-> k, ver |-> v, size |-> size, at |-> c - off] /\ w[c] # None /\ w[c] \in Cell
  BY <1>1, <1>3, <1>4, NoneAssumption
<1>5. \A c \in Cells : c \notin off..(off + n - 1) => w[c] = dat[c]
  BY <1>1
<1>6. \A c \in Cells : w[c] \in Cell \union {None}
  BY <1>2, <1>4, <1>5
<1>7. w = [c \in Cells |-> w[c]]
  BY <1>0 DEF Written
<1>8. w \in [Cells -> Cell \union {None}]
  BY <1>6, <1>7
<1>9. Keeps(dat, w)
  BY <1>4, <1>5 DEF Keeps
<1>10. Fills(dat, w, k, v, size, off, n)
  BY <1>4, <1>5, <1>8, <1>9 DEF Fills
<1> QED BY <1>0, <1>10

\* What was written stays written.
LEMMA WrittenStays ==
    ASSUME NEW d, NEW w, Keeps(d, w), NEW e, IsWritten(d, e)
    PROVE  IsWritten(w, e)
<1>1. e.off \in Nat /\ e.size \in Nat /\ e.size >= 1 /\ e.off + e.size <= MaxEnd
  <2>1. SpanOf(e) \in Span /\ SpanOf(e).off = e.off /\ SpanOf(e).size = e.size
    BY DEF IsWritten, SpanOf
  <2> QED BY <2>1, SpanIs
<1>2. e.off + e.size - 1 \in Cells
  BY <1>1, RegionBounds DEF Cells
<1> QED BY <1>2 DEF IsWritten, Keeps

\* An entry that is written may be appended to those that are.
LEMMA EntriesAppend ==
    ASSUME NEW d, NEW j \in Seq(TocEntry), NEW ix, AreWritten(d, j, ix),
           NEW e \in TocEntry, IsWritten(d, e)
    PROVE  AreWritten(d, Append(j, e), ix)
<1>1. PICK a : a = Append(j, e)
  OBVIOUS
<1>2. \A i \in 1..Len(a) : a[i] = e \/ (i \in 1..Len(j) /\ a[i] = j[i])
  BY <1>1, AppendProperties, LenProperties
<1>3. AreWritten(d, a, ix)
  BY <1>2 DEF AreWritten
<1> QED BY <1>1, <1>3

\* So a write of the data file leaves the entries written.
LEMMA EntriesFrame ==
    ASSUME NEW d, NEW w, Keeps(d, w), NEW j, NEW ix, AreWritten(d, j, ix)
    PROVE  AreWritten(w, j, ix)
BY WrittenStays DEF AreWritten

\* Journal and index that stay go on agreeing.
LEMMA JournalFrame ==
    ASSUME JournalMatchesIndex, UNCHANGED <<toc, index>>, isOpen' => isOpen, behind => behind',
           TimeIsRight' => TimeIsRight
    PROVE  JournalMatchesIndex'
<1>1. Replay(toc)' = Replay(toc)
  BY DEF Replay, Staying, Stays
<1>2. AllReal(toc)' <=> AllReal(toc)
  BY DEF AllReal
<1> QED BY <1>1, <1>2 DEF JournalMatchesIndex

\* Time passes, and entries stay as old as they are.
LEMMA StampsStay ==
    ASSUME TypeOK, NEW now \in Nat, NEW later \in Nat, now <= later, AreStamped(now, toc, index)
    PROVE  AreStamped(later, toc, index)
<1>1. \A i \in 1..Len(toc) : toc[i].stamp \in Nat
  <2>1. \A i \in 1..Len(toc) : toc[i] \in TocEntry
    BY ElementOfSeq DEF TypeOK
  <2> QED BY <2>1 DEF TocEntry
<1>2. \A k \in Keys : index[k] # None => index[k].stamp \in Nat
  BY DEF TypeOK, TocEntry
<1> QED BY <1>1, <1>2 DEF AreStamped

\* An entry stamped now may be appended to those that are not later.
LEMMA StampsAppend ==
    ASSUME NEW now \in Nat, NEW j \in Seq(TocEntry), NEW ix, AreStamped(now, j, ix),
           NEW e \in TocEntry, e.real => e.stamp <= now
    PROVE  AreStamped(now, Append(j, e), ix)
<1>1. PICK a : a = Append(j, e)
  OBVIOUS
<1>2. \A i \in 1..Len(a) : a[i] = e \/ (i \in 1..Len(j) /\ a[i] = j[i])
  BY <1>1, AppendProperties, LenProperties
<1>3. AreStamped(now, a, ix)
  BY <1>2 DEF AreStamped
<1> QED BY <1>1, <1>3

\* What an append may leave: the journal as it was, the entry behind it, or
\* another one, misread.
Appended(e) ==
    \/ toc' = toc /\ (tail' # 0 \/ tail = 0)
    \/ tail = 0 /\ tail' = 0 /\ toc' = Append(toc, e)
    \/ tail # 0 /\ \E read \in Misread : toc' = Append(toc, read)

\* A misread entry is an entry that is marked as such.
LEMMA MisreadIs ==
    ASSUME NEW read \in Misread
    PROVE  read \in TocEntry /\ ~read.real /\ SpanOf(read) \in Span
<1>1. /\ read \in [key : Keys, off : MisreadOffs, size : Sizes, stamp : {0, StampRange - 1}, real : {FALSE}]
      /\ SpanOf(read) \in Span
  BY DEF Misread
<1>2. StampRange - 1 \in Nat /\ MisreadOffs \subseteq Nat /\ Sizes \subseteq Nat
  BY WidthsAssumption, RegionBounds, SizesAssumption
<1>3. PICK last \in Nat : last = StampRange - 1
  BY <1>2
<1>4. read.key \in Keys /\ read.off \in Nat /\ read.size \in Nat /\ read.stamp \in {0, last} /\ read.real = FALSE
      /\ read = [key |-> read.key, off |-> read.off, size |-> read.size, stamp |-> read.stamp, real |-> read.real]
  BY <1>1, <1>2, <1>3
<1>5. read.stamp \in Nat /\ read.real \in BOOLEAN
  <2>1. read.stamp \in {0, last}
    BY <1>4
  <2>2. read.stamp \in Nat
    BY ONLY <2>1, last \in Nat
  <2>3. read.real \in BOOLEAN
    BY <1>4, Zenon
  <2> QED BY <2>2, <2>3
<1>6. read \in TocEntry
  BY ONLY <1>4, <1>5 DEF TocEntry
<1> QED BY <1>1, <1>4, <1>6

\* appendTocEntry() leaves one of these, and a whole entry if nothing is torn.
LEMMA AppendLemma ==
    ASSUME TypeOK, NEW e \in TocEntry, NEW n \in 0..EntryBytes, AppendToc(e, n)
    PROVE  /\ Appended(e)
           /\ toc' \in Seq(TocEntry)
           /\ tail' \in NoHeader..(EntryBytes - 1) /\ (tail' = NoHeader => toc' = <<>>)
           /\ tail = 0 /\ n = EntryBytes => toc' = Append(toc, e)
<1>1. /\ EntryBytes \in Nat /\ EntryBytes >= 1 /\ n \in Nat /\ n <= EntryBytes /\ NoHeader = -1
      /\ toc \in Seq(TocEntry) /\ tail \in NoHeader..(EntryBytes - 1) /\ (tail = NoHeader => toc = <<>>)
  BY WidthsAssumption DEF TypeOK, NoHeader
<1>2. Misread \subseteq TocEntry
  BY MisreadIs
<1>3. CASE tail = NoHeader /\ UNCHANGED <<toc, tail>>
  BY <1>1, <1>3 DEF Appended
<1>4. CASE tail # NoHeader /\ tail + n < EntryBytes /\ tail' = tail + n /\ UNCHANGED toc
  <2>1. tail \in Nat /\ tail' \in 0..(EntryBytes - 1) /\ (tail' # 0 \/ tail = 0)
    BY <1>1, <1>4
  <2> QED BY <1>1, <1>4, <2>1 DEF Appended
<1>5. CASE /\ tail # NoHeader /\ tail + n >= EntryBytes /\ tail' = tail + n - EntryBytes
           /\ \E read \in IF tail = 0 THEN {e} ELSE Misread : toc' = Append(toc, read)
  <2>1. tail \in Nat /\ tail' \in 0..(EntryBytes - 1)
    BY <1>1, <1>5
  <2>2. PICK read \in IF tail = 0 THEN {e} ELSE Misread : toc' = Append(toc, read)
    BY <1>5
  <2>3. read \in TocEntry
    BY <1>2
  <2>4. toc' \in Seq(TocEntry)
    BY <1>1, <2>2, <2>3, AppendProperties
  <2>5. tail = 0 => tail' = 0 /\ toc' = Append(toc, e)
    BY <1>1, <1>5, <2>1, <2>2
  <2>6. Appended(e)
    BY <2>2, <2>5 DEF Appended
  <2> QED BY <1>1, <2>1, <2>4, <2>5, <2>6
<1> QED BY <1>3, <1>4, <1>5 DEF AppendToc

\* The journal stays written if e is.
LEMMA AppendedIsWritten ==
    ASSUME NEW j \in Seq(TocEntry), j = toc, NEW e \in TocEntry, Appended(e), NEW d, NEW ix,
           AreWritten(d, j, ix), toc' = Append(j, e) => IsWritten(d, e)
    PROVE  AreWritten(d, toc', ix)
<1>1. CASE toc' = toc
  BY <1>1
<1>2. CASE toc' = Append(toc, e)
  BY <1>2, EntriesAppend
<1>3. CASE \E read \in Misread : toc' = Append(toc, read)
  <2>1. PICK read \in Misread : toc' = Append(toc, read)
    BY <1>3
  <2>2. read \in TocEntry /\ IsWritten(d, read)
    BY MisreadIs DEF IsWritten
  <2> QED BY <2>1, <2>2, EntriesAppend
<1> QED BY <1>1, <1>2, <1>3 DEF Appended

\* And no later than now if e is stamped now.
LEMMA AppendedIsStamped ==
    ASSUME NEW j \in Seq(TocEntry), j = toc, NEW e \in TocEntry, Appended(e), NEW ix, NEW now \in Nat,
           AreStamped(now, j, ix), e.stamp <= now
    PROVE  AreStamped(now, toc', ix)
<1>1. CASE toc' = toc
  BY <1>1
<1>2. CASE toc' = Append(toc, e)
  BY <1>2, StampsAppend
<1>3. CASE \E read \in Misread : toc' = Append(toc, read)
  <2>1. PICK read \in Misread : toc' = Append(toc, read)
    BY <1>3
  <2>2. read \in TocEntry /\ ~read.real
    BY MisreadIs
  <2> QED BY <2>1, <2>2, StampsAppend
<1> QED BY <1>1, <1>2, <1>3 DEF Appended

\* An entry with a later stamp than all others replaces that of its column.
LEMMA AppendReplays ==
    ASSUME NEW j \in Seq(TocEntry), NEW e \in TocEntry, \A i \in 1..Len(j) : j[i].stamp < e.stamp
    PROVE  Replay(Append(j, e)).index = [Replay(j).index EXCEPT ![e.key] = e]
<1> DEFINE a == Append(j, e)
           n == Len(j)
<1>1. /\ n \in Nat /\ DOMAIN j = 1..n /\ DOMAIN a = 1..(n + 1)
      /\ a[n + 1] = e
      /\ \A i \in 1..n : a[i] = j[i]
  BY AppendProperties, LenProperties
<1>2. e.key \in Keys /\ e.stamp \in Int /\ \A i \in 1..n : j[i].stamp \in Int /\ j[i].stamp < e.stamp
  <2>1. \A i \in 1..n : j[i] \in TocEntry
    BY ElementOfSeq
  <2> QED BY <2>1 DEF TocEntry
<1> HIDE DEF a, n
<1>3. Stays(a, n + 1)
  BY <1>1, <1>2 DEF Stays
<1>4. ASSUME NEW i \in 1..n, j[i].key = e.key PROVE ~Stays(a, i)
  <2>1. n + 1 \in DOMAIN a /\ a[n + 1].key = a[i].key /\ ~(a[n + 1].stamp < a[i].stamp)
        /\ a[n + 1].stamp # a[i].stamp
    BY <1>1, <1>2, <1>4
  <2> QED BY <2>1 DEF Stays
<1>5. Staying(a, e.key) = {n + 1}
  <2>1. ASSUME NEW i \in Staying(a, e.key) PROVE i = n + 1
    <3>1. i \in 1..(n + 1) /\ a[i].key = e.key /\ Stays(a, i)
      BY <1>1 DEF Staying
    <3> QED BY <1>1, <1>4, <3>1
  <2>2. n + 1 \in Staying(a, e.key)
    BY <1>1, <1>3 DEF Staying
  <2> QED BY <2>1, <2>2
<1>6. ASSUME NEW k \in Keys, k # e.key
      PROVE  /\ Staying(a, k) = Staying(j, k)
             /\ \A i \in Staying(j, k) : a[i] = j[i]
  <2>1. ASSUME NEW i \in 1..n, j[i].key = k PROVE Stays(a, i) <=> Stays(j, i)
    <3>1. a[i] = j[i] /\ a[n + 1].key # a[i].key
      BY <1>1, <1>6, <2>1
    <3>2. Stays(a, i) => Stays(j, i)
      BY <1>1, <3>1 DEF Stays
    <3>3. Stays(j, i) => Stays(a, i)
      <4> SUFFICES ASSUME Stays(j, i), NEW m \in DOMAIN a, a[m].key = a[i].key
                   PROVE  a[m].stamp < a[i].stamp \/ (a[m].stamp = a[i].stamp /\ i <= m)
        BY DEF Stays
      <4>1. m \in 1..n
        BY <1>1, <3>1
      <4>2. a[m] = j[m]
        BY <1>1, <4>1
      <4> QED BY <1>1, <3>1, <4>1, <4>2 DEF Stays
    <3> QED BY <3>2, <3>3
  <2>2. \A i \in DOMAIN a : a[i].key = k => i \in 1..n
    BY <1>1, <1>6
  <2>3. ASSUME NEW i PROVE i \in Staying(a, k) <=> i \in Staying(j, k)
    BY <1>1, <2>1, <2>2 DEF Staying
  <2>4. \A i \in Staying(j, k) : a[i] = j[i]
    BY <1>1 DEF Staying
  <2> QED BY <2>3, <2>4
<1>7. ASSUME NEW k \in Keys, k # e.key PROVE Replay(a).index[k] = Replay(j).index[k]
  <2>1. CASE Staying(j, k) = {}
    BY <1>6, <1>7, <2>1 DEF Replay
  <2>2. CASE Staying(j, k) # {}
    <3>1. PICK i : i = CHOOSE x \in Staying(j, k) : TRUE
      OBVIOUS
    <3>2. i \in Staying(j, k)
      BY <2>2, <3>1
    <3>3. Replay(a).index[k] = a[i] /\ Replay(j).index[k] = j[i]
      BY <1>6, <1>7, <2>2, <3>1 DEF Replay
    <3> QED BY <1>6, <1>7, <3>2, <3>3
  <2> QED BY <2>1, <2>2
<1>8. Replay(a).index[e.key] = e
  <2>1. (CHOOSE i \in Staying(a, e.key) : TRUE) = n + 1
    BY <1>5
  <2> QED BY <1>1, <1>2, <1>5, <2>1 DEF Replay
<1>9. /\ Replay(a).index = [k \in Keys |-> Replay(a).index[k]]
      /\ Replay(j).index = [k \in Keys |-> Replay(j).index[k]]
  BY DEF Replay
<1>10. Replay(a).index = [Replay(j).index EXCEPT ![e.key] = e]
  <2>1. PICK f : f = Replay(a).index
    OBVIOUS
  <2>2. PICK g : g = Replay(j).index
    OBVIOUS
  <2>3. f = [k \in Keys |-> f[k]] /\ g = [k \in Keys |-> g[k]]
    BY <1>9, <2>1, <2>2
  <2>4. f[e.key] = e /\ \A k \in Keys : k # e.key => f[k] = g[k]
    BY <1>7, <1>8, <2>1, <2>2
  <2>5. f = [g EXCEPT ![e.key] = e]
    BY ONLY <1>2, <2>3, <2>4
  <2> QED BY <2>1, <2>2, <2>5
<1> QED BY <1>10 DEF a

\* s lists each element of S once.
Lists(s, S) ==
    /\ s \in Seq(S)
    /\ \A i, j \in 1..Len(s) : s[i] = s[j] => i = j
    /\ \A x \in S : \E i \in 1..Len(s) : s[i] = x

\* SetToSeq() lists each element of a finite set once.
LEMMA SetToSeqLists == ASSUME NEW S, IsFiniteSet(S) PROVE Lists(SetToSeq(S), S)
<1> DEFINE s == SetToSeq(S)
           n == Cardinality(S)
<1>1. n \in Nat /\ ExistsBijection(1..n, S)
  BY FS_CardinalityType
<1>2. \E f \in [1..n -> S] : IsInjective(f)
  BY <1>1 DEF ExistsBijection, Bijection, Injection
<1>3. s \in [1..n -> S] /\ IsInjective(s)
  BY <1>2 DEF SetToSeq
<1>4. s \in Injection(1..n, S)
  BY <1>3 DEF Injection
<1>5. IsFiniteSet(1..n) /\ Cardinality(1..n) = n
  BY <1>1, FS_Interval
<1>6. s \in Surjection(1..n, S)
  BY <1>4, <1>5, FS_Injection
<1> HIDE DEF n, s
<1>7. Len(s) = n /\ s \in Seq(S) /\ DOMAIN s = 1..n
  BY <1>1, <1>3
<1>8. Lists(s, S)
  BY <1>3, <1>6, <1>7 DEF IsInjective, Surjection, Lists
<1> QED BY <1>8 DEF s

\* j lists the entries in part once each, all of them the index's.
Rewrites(j, part) ==
    /\ j \in Seq(TocEntry)
    /\ \A a, b \in 1..Len(j) : j[a] = j[b] => a = b
    /\ \A x \in part : \E i \in 1..Len(j) : j[i] = x
    /\ \A i \in 1..Len(j) : \E k \in Keys : index[k] # None /\ j[i] = index[k]

\* compactToc() writes entries of the index, whether or not all of them.
LEMMA CompactRewrites ==
    ASSUME TypeOK, NEW part, part \subseteq Entries
    PROVE  Rewrites(SetToSeq(part), part)
<1> DEFINE K == {k \in Keys : index[k] # None}
           f == [k \in K |-> index[k]]
<1>1. \A k \in Keys : index[k] \in TocEntry \union {None}
  BY DEF TypeOK
<1>2. IsFiniteSet(K)
  BY KeysAssumption, FS_Subset
<1>3. f \in Surjection(K, Entries)
  BY DEF Surjection, Entries
<1>4. IsFiniteSet(part)
  <2>1. IsFiniteSet(Entries)
    BY <1>2, <1>3, FS_Surjection
  <2> QED BY <2>1, FS_Subset
<1>5. part \subseteq TocEntry /\ \A x \in part : \E k \in Keys : index[k] # None /\ x = index[k]
  BY <1>1 DEF Entries
<1> HIDE DEF K, f
<1>6. PICK j : j = SetToSeq(part)
  OBVIOUS
<1>7. Lists(j, part)
  BY <1>4, <1>6, SetToSeqLists
<1>8. j \in Seq(TocEntry)
  BY <1>5, <1>7, SeqMonotonic DEF Lists
<1>9. \A i \in 1..Len(j) : j[i] \in part
  BY <1>7, ElementOfSeq DEF Lists
<1> QED BY <1>5, <1>6, <1>7, <1>8, <1>9 DEF Lists, Rewrites

\* compactToc() writes one entry for each column, from which the index is read
\* as it was.
LEMMA CompactReplays ==
    ASSUME TypeOK, \A k \in Keys : index[k] # None => index[k].key = k,
           NEW j, Rewrites(j, Entries)
    PROVE  Replay(j).index = index
<1>1. /\ j \in Seq(TocEntry)
      /\ \A a, b \in 1..Len(j) : j[a] = j[b] => a = b
      /\ \A k \in Keys : index[k] # None => \E i \in 1..Len(j) : j[i] = index[k]
      /\ \A i \in 1..Len(j) : \E k \in Keys : index[k] # None /\ j[i] = index[k]
  BY DEF Rewrites, Entries
<1>2. DOMAIN j = 1..Len(j) /\ Len(j) \in Nat
  BY <1>1, LenProperties
<1>3. \A a, b \in 1..Len(j) : j[a].key = j[b].key => a = b
  BY <1>1
<1>4. ASSUME NEW i \in 1..Len(j) PROVE Stays(j, i)
  <2>1. \A m \in DOMAIN j : j[m].key = j[i].key => m = i
    BY <1>2, <1>3
  <2> QED BY <2>1 DEF Stays
<1>5. ASSUME NEW k \in Keys PROVE Replay(j).index[k] = index[k]
  <2>1. CASE index[k] = None
    <3>1. Staying(j, k) = {}
      BY <1>1, <1>2, <2>1 DEF Staying
    <3> QED BY <2>1, <3>1 DEF Replay
  <2>2. CASE index[k] # None
    <3>1. PICK i \in 1..Len(j) : j[i] = index[k]
      BY <1>1, <2>2
    <3>2. j[i].key = k
      BY <2>2, <3>1
    <3>3. Staying(j, k) = {i}
      <4>1. i \in Staying(j, k)
        BY <1>2, <1>4, <3>2 DEF Staying
      <4>2. ASSUME NEW m \in Staying(j, k) PROVE m = i
        BY <1>2, <1>3, <3>2 DEF Staying
      <4> QED BY <4>1, <4>2
    <3>4. (CHOOSE x \in Staying(j, k) : TRUE) = i
      BY <3>3
    <3> QED BY <3>1, <3>3, <3>4 DEF Replay
  <2> QED BY <2>1, <2>2
<1>6. PICK g : g = Replay(j).index
  OBVIOUS
<1>7. g = [k \in Keys |-> g[k]]
  BY <1>6 DEF Replay
<1>8. index = [k \in Keys |-> index[k]]
  BY DEF TypeOK
<1>9. \A k \in Keys : g[k] = index[k]
  BY <1>6, <1>5
<1>10. g = index
  BY ONLY <1>7, <1>8, <1>9
<1> QED BY <1>6, <1>10

\* Replaying a journal gives entries of it, each under its own key.
LEMMA ReplayType ==
    ASSUME NEW j \in Seq(TocEntry)
    PROVE  /\ Replay(j).index \in [Keys -> TocEntry \union {None}]
           /\ Replay(j).free \in [Span -> Nat]
           /\ \A k \in Keys : Replay(j).index[k] # None =>
                 /\ Replay(j).index[k].key = k
                 /\ \E i \in 1..Len(j) : Replay(j).index[k] = j[i]
<1>1. DOMAIN j = 1..Len(j) /\ Len(j) \in Nat /\ \A i \in 1..Len(j) : j[i] \in TocEntry
  BY LenProperties, ElementOfSeq
<1>2. ASSUME NEW k \in Keys
      PROVE  \/ Replay(j).index[k] = None
             \/ Replay(j).index[k].key = k /\ \E i \in 1..Len(j) : Replay(j).index[k] = j[i]
  <2>1. CASE Staying(j, k) = {}
    BY <2>1 DEF Replay
  <2>2. CASE Staying(j, k) # {}
    <3>1. PICK i : i = CHOOSE x \in Staying(j, k) : TRUE
      OBVIOUS
    <3>2. i \in Staying(j, k)
      BY <2>2, <3>1
    <3>3. Replay(j).index[k] = j[i]
      BY <2>2, <3>1 DEF Replay
    <3>4. i \in 1..Len(j) /\ j[i].key = k
      BY <1>1, <3>2 DEF Staying
    <3> QED BY <3>3, <3>4
  <2> QED BY <2>1, <2>2
<1>3. Replay(j).index \in [Keys -> TocEntry \union {None}]
  <2>1. PICK g : g = Replay(j).index
    OBVIOUS
  <2>2. g = [k \in Keys |-> g[k]]
    BY <2>1 DEF Replay
  <2>3. \A k \in Keys : g[k] \in TocEntry \union {None}
    BY <1>1, <1>2, <2>1
  <2>4. g \in [Keys -> TocEntry \union {None}]
    BY ONLY <2>2, <2>3
  <2> QED BY <2>1, <2>4
<1>4. ASSUME NEW s \in Span
      PROVE  Cardinality({i \in DOMAIN j : ~Stays(j, i) /\ SpanOf(j[i]) = s}) \in Nat
  <2>1. IsFiniteSet(DOMAIN j)
    BY <1>1, FS_Interval
  <2>2. IsFiniteSet({i \in DOMAIN j : ~Stays(j, i) /\ SpanOf(j[i]) = s})
    BY <2>1, FS_Subset
  <2> QED BY <2>2, FS_CardinalityType
<1>5. Replay(j).free \in [Span -> Nat]
  BY <1>4 DEF Replay
<1> QED BY <1>2, <1>3, <1>5

\* A new file is empty.
LEMMA RegionInit == Init => IInv
<1> SUFFICES ASSUME Init PROVE IInv
  OBVIOUS
<1>1. toc \in Seq(TocEntry) /\ Len(toc) = 0 /\ toc = <<>>
  BY DEF Init
<1>2. \A k \in Keys : index[k] = None
  BY DEF Init
<1>3. dataEnd \in 0..MaxEnd /\ free \in [Span -> Nat]
  BY RegionBounds DEF Init, NoFree
<1>4. saved \in [Keys -> Nat] /\ tried \in [Keys -> Nat] /\ index \in [Keys -> TocEntry \union {None}]
  BY DEF Init
<1>5. TypeOK
  <2>1. 0 \in NoHeader..(EntryBytes - 1) /\ 0 # NoHeader
    BY WidthsAssumption DEF NoHeader
  <2> QED BY <1>1, <1>3, <1>4, <2>1 DEF Init, TypeOK
<1>6. EntriesAreWritten
  BY <1>1, <1>2 DEF EntriesAreWritten, AreWritten
<1>7. JournalMatchesIndex
  <2>1. \A k \in Keys : Staying(<<>>, k) = {}
    BY DEF Staying
  <2>2. Replay(<<>>).index = [k \in Keys |-> None]
    BY <2>1 DEF Replay
  <2> QED BY <1>1, <2>2 DEF Init, JournalMatchesIndex
<1>8. StampsAreKept
  BY <1>1, <1>2 DEF StampsAreKept, AreStamped
<1> QED BY <1>5, <1>6, <1>7, <1>8 DEF IInv

\* Facts about the place and the chunk that every save starts from.
LEMMA SaveStarts ==
    ASSUME IInv, NEW k \in Keys, NEW size \in Sizes, Save(k, size),
           NEW p, p = Place(size), NEW n, n = [off |-> p.off, size |-> size]
    PROVE  /\ n \in Span /\ p.free \in [Span -> Nat] /\ p.end \in 0..MaxEnd
           /\ Takes(free, p.free, dataEnd, p.end, n)
           /\ p.off \in Nat /\ size \in Nat /\ size >= 1 /\ tried[k] + 1 \in Nat
           /\ tried' \in [Keys -> Nat] /\ TypeOK /\ isOpen
           /\ n.off = p.off /\ n.size = size
<1>1. TypeOK /\ isOpen /\ Place(size).end <= MaxEnd /\ tried' = [tried EXCEPT ![k] = @ + 1]
  BY DEF IInv, Save
<1>2. /\ n \in Span /\ p.free \in [Span -> Nat] /\ p.end \in 0..MaxEnd
      /\ Takes(free, p.free, dataEnd, p.end, n)
  BY <1>1, PlaceTakes
<1>3. n.off = p.off /\ n.size = size
  OBVIOUS
<1>4. p.off \in Nat /\ size \in Nat /\ size >= 1
  BY <1>2, <1>3, SpanIs
<1>5. tried[k] + 1 \in Nat /\ tried' \in [Keys -> Nat]
  BY <1>1 DEF TypeOK
<1> QED BY <1>1, <1>2, <1>3, <1>4, <1>5

\* The entry a save writes, and the clock it reads.
EntryIs(e, k, n) ==
    /\ e \in TocEntry /\ e # None /\ e.key = k /\ SpanOf(e) = n /\ e.real /\ clock' \in Nat
    /\ TimeIsRight' => TimeIsRight /\ clock' = clock + 1 /\ e.stamp = clock'

\* The entry's stamp is later than any before, unless the clock goes wrong.
LEMMA SaveEntry ==
    ASSUME IInv, NEW k \in Keys, NEW size \in Sizes, Save(k, size), events' = events,
           NEW n, n = [off |-> Place(size).off, size |-> size]
    PROVE  EntryIs(EntryFor(k, size), k, n)
<1>1. PICK p : p = Place(size)
  OBVIOUS
<1>2. p.off \in Nat /\ size \in Nat /\ TypeOK
  BY <1>1, SaveStarts
<1>3. clock \in Nat /\ clock' \in Nat /\ ("clock_back" \notin events => clock' = clock + 1)
  <2>1. clock \in Nat /\ clock' \in {clock + 1} \union (IF "clock_back" \in events THEN 0..clock ELSE {})
    BY <1>2 DEF Save, Times, TypeOK
  <2>2. CASE "clock_back" \in events
    BY <2>1, <2>2
  <2>3. CASE "clock_back" \notin events
    BY <2>1, <2>3
  <2> QED BY <2>1, <2>2, <2>3
<1>4. PICK t \in Nat : t = StampAt(clock')
  BY <1>3, StampLemma
<1>5. PICK e : e = [key |-> k, off |-> p.off, size |-> size, stamp |-> t, real |-> TRUE]
  OBVIOUS
<1>6. e = EntryFor(k, size)
  BY <1>1, <1>4, <1>5 DEF EntryFor
<1>7. e \in TocEntry /\ e.key = k /\ SpanOf(e) = n /\ e.real /\ e.stamp = t
  BY <1>1, <1>2, <1>4, <1>5 DEF TocEntry, SpanOf
<1>8. ASSUME TimeIsRight' PROVE TimeIsRight /\ clock' = clock + 1 /\ t = clock'
  <2>1. "clock_back" \notin events /\ clock' = clock + 1 /\ clock' < StampRange
    BY <1>3, <1>8 DEF TimeIsRight
  <2>2. t = clock'
    BY <1>3, <1>4, <2>1, StampLemma
  <2>3. clock < StampRange
    BY <1>3, <2>1, WidthsAssumption
  <2> QED BY <2>1, <2>2, <2>3 DEF TimeIsRight
<1> QED BY <1>3, <1>6, <1>7, <1>8, NoneAssumption DEF EntryIs

\* Giving the old span back leaves a free list.
LEMMA ExchangedType ==
    ASSUME IInv, NEW k \in Keys, NEW size, Place(size).free \in [Span -> Nat]
    PROVE  Exchanged(k, size) \in [Span -> Nat]
<1>1. PICK f \in [Span -> Nat] : f = Place(size).free
  OBVIOUS
<1>2. CASE index[k] = None
  BY <1>2 DEF Exchanged
<1>3. CASE index[k] # None
  <2>1. SpanOf(index[k]) \in Span
    BY <1>3 DEF IInv, EntriesAreWritten, AreWritten, IsWritten
  <2>2. Exchanged(k, size) = [f EXCEPT ![SpanOf(index[k])] = @ + 1]
    BY <1>1, <1>3 DEF Exchanged, AddFree
  <2> QED BY <1>1, <2>1, <2>2
<1> QED BY <1>2, <1>3

\* Once the chunk is in its place, its entry is written.
LEMMA ChunkIsWritten ==
    ASSUME TypeOK, NEW k \in Keys, NEW v \in Nat, NEW n \in Span, NEW e, SpanOf(e) = n,
           NEW w, Fills(dat, w, k, v, n.size, n.off, n.size)
    PROVE  IsWritten(w, e)
<1>1. n.off \in Nat /\ n.size \in Nat /\ n.size >= 1 /\ n.off + n.size <= MaxEnd /\ MaxEnd \in Nat
  BY SpanIs, RegionBounds
<1>2. e.off = n.off /\ e.size = n.size
  BY DEF SpanOf
<1>3. e.off + e.size - 1 \in Cells /\ e.off + e.size - 1 \in n.off..(n.off + n.size - 1)
  BY <1>1, <1>2 DEF Cells
<1> QED BY <1>3 DEF IsWritten, Fills

\* A save writes its chunk before its entry, whose stamp is the latest.
LEMMA SaveOkKeeps ==
    ASSUME IInv, NEW k \in Keys, NEW size \in Sizes, Save(k, size), SaveOk(k, size), events' = events
    PROVE  IInv'
<1>1. PICK p : p = Place(size)
  OBVIOUS
<1>2. PICK n : n = [off |-> p.off, size |-> size]
  OBVIOUS
<1>3. /\ n \in Span /\ p.free \in [Span -> Nat] /\ p.end \in 0..MaxEnd
      /\ p.off \in Nat /\ size \in Nat /\ size >= 1 /\ tried[k] + 1 \in Nat
      /\ tried' \in [Keys -> Nat] /\ TypeOK /\ isOpen /\ n.off = p.off /\ n.size = size
  BY <1>1, <1>2, SaveStarts
<1>4. PICK e : e = EntryFor(k, size)
  OBVIOUS
<1>5. EntryIs(e, k, n)
  BY <1>1, <1>2, <1>4, SaveEntry
<1>6. /\ dat' = Written(k, tried[k] + 1, size, p.off, size)
      /\ dataEnd' = p.end
      /\ free' = Exchanged(k, size)
      /\ AppendToc(e, EntryBytes)
      /\ index' = [index EXCEPT ![k] = e]
      /\ saved' = [saved EXCEPT ![k] = tried[k] + 1]
      /\ behind' = (behind \/ tail # 0)
      /\ UNCHANGED <<isOpen, datBad, tocBad>>
  BY <1>1, <1>4 DEF SaveOk
<1>7. /\ Appended(e) /\ toc' \in Seq(TocEntry)
      /\ tail' \in NoHeader..(EntryBytes - 1) /\ (tail' = NoHeader => toc' = <<>>)
      /\ tail = 0 => toc' = Append(toc, e)
  <2>1. EntryBytes \in 0..EntryBytes
    BY WidthsAssumption
  <2> QED BY <1>3, <1>5, <1>6, <2>1, AppendLemma DEF EntryIs
<1>8. /\ toc \in Seq(TocEntry) /\ index \in [Keys -> TocEntry \union {None}] /\ saved \in [Keys -> Nat]
      /\ clock \in Nat /\ clock' \in Nat /\ e \in TocEntry
  BY <1>3, <1>5 DEF TypeOK, EntryIs
<1>9. PICK w : w = dat'
  OBVIOUS
<1>10. Fills(dat, w, k, tried[k] + 1, size, p.off, size)
  BY <1>3, <1>6, <1>9, WrittenFills
<1>11. TypeOK'
  <2>1. dat' \in [Cells -> Cell \union {None}]
    BY <1>9, <1>10 DEF Fills
  <2>2. free' \in [Span -> Nat]
    BY <1>1, <1>3, <1>6, ExchangedType
  <2>3. index' \in [Keys -> TocEntry \union {None}] /\ saved' \in [Keys -> Nat]
    BY <1>3, <1>6, <1>8
  <2>4. behind' \in BOOLEAN
    BY <1>6
  <2> QED BY <1>3, <1>6, <1>7, <1>8, <2>1, <2>2, <2>3, <2>4 DEF TypeOK
<1>12. EntriesAreWritten'
  <2>1. IsWritten(w, e)
    BY <1>3, <1>5, <1>10, ChunkIsWritten DEF EntryIs
  <2>2. AreWritten(w, toc, index)
    BY <1>10, EntriesFrame DEF IInv, EntriesAreWritten, Fills
  <2>3. AreWritten(w, toc', index)
    BY <1>7, <1>8, <2>1, <2>2, AppendedIsWritten
  <2>4. PICK ix : ix = index'
    OBVIOUS
  <2>5. ASSUME NEW i \in Keys, ix[i] # None PROVE ix[i].key = i /\ IsWritten(w, ix[i])
    <3>1. ix[i] = IF i = k THEN e ELSE index[i]
      BY <1>6, <1>8, <2>4
    <3> QED BY <1>5, <2>1, <2>2, <2>5, <3>1 DEF AreWritten, EntryIs
  <2>6. AreWritten(w, toc', ix)
    BY <2>3, <2>5 DEF AreWritten
  <2> QED BY <1>9, <2>4, <2>6 DEF EntriesAreWritten
<1>13. StampsAreKept'
  <2> SUFFICES ASSUME TimeIsRight' PROVE AreStamped(clock', toc', index')
    BY DEF StampsAreKept
  <2>1. TimeIsRight /\ clock' = clock + 1 /\ e.stamp = clock'
    BY <1>5 DEF EntryIs
  <2>2. AreStamped(clock', toc, index)
    <3>1. AreStamped(clock, toc, index)
      BY <2>1 DEF IInv, StampsAreKept
    <3> QED BY <1>3, <1>8, <2>1, <3>1, StampsStay
  <2>3. AreStamped(clock', toc', index)
    <3>1. e.stamp <= clock'
      BY <1>8, <2>1
    <3> QED BY <1>7, <1>8, <2>2, <3>1, AppendedIsStamped
  <2>4. ASSUME NEW i \in Keys, index'[i] # None, index'[i].real PROVE index'[i].stamp <= clock'
    <3>1. index'[i] = IF i = k THEN e ELSE index[i]
      BY <1>6, <1>8
    <3> QED BY <1>8, <2>1, <2>2, <2>4, <3>1 DEF AreStamped
  <2> QED BY <2>3, <2>4 DEF AreStamped
<1>14. JournalMatchesIndex'
  <2> SUFFICES ASSUME ~behind', TimeIsRight', AllReal(toc') PROVE Replay(toc').index = index'
    BY DEF JournalMatchesIndex
  <2>1. ~behind /\ tail = 0 /\ toc' = Append(toc, e)
    BY <1>6, <1>7
  <2>2. TimeIsRight /\ clock' = clock + 1 /\ e.stamp = clock'
    BY <1>5 DEF EntryIs
  <2>3. \A i \in 1..Len(toc) : toc[i].real
    <3>1. /\ DOMAIN toc = 1..Len(toc) /\ DOMAIN Append(toc, e) = 1..(Len(toc) + 1) /\ Len(toc) \in Nat
          /\ \A i \in 1..Len(toc) : Append(toc, e)[i] = toc[i]
      BY <1>8, AppendProperties, LenProperties
    <3> QED BY <2>1, <3>1 DEF AllReal
  <2>4. AllReal(toc)
    BY <1>8, <2>3, LenProperties DEF AllReal
  <2>5. Replay(toc).index = index
    BY <1>3, <2>1, <2>2, <2>4 DEF IInv, JournalMatchesIndex
  <2>6. \A i \in 1..Len(toc) : toc[i].stamp < e.stamp
    <3>1. \A i \in 1..Len(toc) : toc[i].stamp <= clock
      BY <2>2, <2>3 DEF IInv, StampsAreKept, AreStamped
    <3>2. \A i \in 1..Len(toc) : toc[i].stamp \in Nat
      <4>1. \A i \in 1..Len(toc) : toc[i] \in TocEntry
        BY <1>8, ElementOfSeq
      <4> QED BY <4>1 DEF TocEntry
    <3> QED BY <1>8, <2>2, <3>1, <3>2
  <2>7. e.key = k
    BY <1>5 DEF EntryIs
  <2>8. Replay(Append(toc, e)).index = [Replay(toc).index EXCEPT ![k] = e]
    BY <1>8, <2>6, <2>7, AppendReplays
  <2> QED BY <1>6, <2>1, <2>5, <2>8
<1> QED BY <1>11, <1>12, <1>13, <1>14 DEF IInv

\* The other outcomes of a save write cells, and perhaps its entry, or a part of
\* it, once the chunk is there.
SaveLeaves(k, size, e, p, n) ==
    /\ \E m \in Nat : dat' = Written(k, tried[k] + 1, size, p.off, m) /\ (toc' = Append(toc, e) => m = size)
    /\ Appended(e) /\ toc' \in Seq(TocEntry)
    /\ tail' \in NoHeader..(EntryBytes - 1) /\ (tail' = NoHeader => toc' = <<>>)
    /\ UNCHANGED <<index, saved>> /\ (isOpen' => isOpen)
    /\ free' \in [Span -> Nat] /\ dataEnd' \in 0..MaxEnd
    /\ isOpen' \in BOOLEAN /\ datBad' \in BOOLEAN /\ tocBad' \in BOOLEAN /\ behind' \in BOOLEAN
    /\ behind => behind'
    /\ isOpen' /\ toc' # toc => behind'

\* That is what a save that fails or is cut short leaves.
LEMMA SaveFailsLeaves ==
    ASSUME IInv, NEW k \in Keys, NEW size \in Sizes, Save(k, size), events' = events,
           SaveDatFails(k, size) \/ SaveTocFails(k, size) \/ SaveCrash(k, size),
           NEW e, e = EntryFor(k, size), NEW p, p = Place(size), NEW n, n = [off |-> p.off, size |-> size]
    PROVE  SaveLeaves(k, size, e, p, n)
<1>1. /\ p.free \in [Span -> Nat] /\ p.end \in 0..MaxEnd /\ size \in Nat
      /\ TypeOK /\ isOpen
  BY SaveStarts
<1>2. e \in TocEntry
  BY SaveEntry DEF EntryIs
<1>3. /\ toc \in Seq(TocEntry) /\ tail \in NoHeader..(EntryBytes - 1) /\ (tail = NoHeader => toc = <<>>)
      /\ behind \in BOOLEAN /\ free \in [Span -> Nat] /\ dataEnd \in 0..MaxEnd
      /\ datBad \in BOOLEAN /\ tocBad \in BOOLEAN
  BY <1>1 DEF TypeOK
<1>4. toc # Append(toc, e)
  <2>1. Len(Append(toc, e)) = Len(toc) + 1 /\ Len(toc) \in Nat
    BY <1>2, <1>3, AppendProperties, LenProperties
  <2> QED BY <2>1
<1>5. CASE SaveDatFails(k, size)
  <2>1. PICK m \in Nat : dat' = Written(k, tried[k] + 1, size, p.off, m)
    BY <1>1, <1>5 DEF SaveDatFails
  <2>2. Appended(e)
    BY <1>5 DEF SaveDatFails, Appended
  <2> QED BY <1>1, <1>3, <1>4, <1>5, <2>1, <2>2 DEF SaveDatFails, SaveLeaves
<1>6. CASE SaveTocFails(k, size)
  <2>1. PICK m \in 0..EntryBytes : AppendToc(e, m)
    <3>1. 0 \in 0..EntryBytes
      BY WidthsAssumption
    <3> QED BY <1>6, <3>1 DEF SaveTocFails
  <2>2. /\ Appended(e) /\ toc' \in Seq(TocEntry)
        /\ tail' \in NoHeader..(EntryBytes - 1) /\ (tail' = NoHeader => toc' = <<>>)
    BY <1>1, <1>2, <2>1, AppendLemma
  <2>3. dat' = Written(k, tried[k] + 1, size, p.off, size)
    BY <1>6 DEF SaveTocFails
  <2>4. free' \in [Span -> Nat]
    BY <1>1, <1>6, ExchangedType DEF SaveTocFails
  <2> QED BY <1>1, <1>3, <1>6, <2>2, <2>3, <2>4 DEF SaveTocFails, SaveLeaves
<1>7. CASE SaveCrash(k, size)
  <2>1. PICK m \in 0..size, b \in 0..EntryBytes :
           /\ b > 0 => m = size
           /\ dat' = Written(k, tried[k] + 1, size, p.off, m)
           /\ AppendToc(e, b)
    <3>1. 0 \in 0..EntryBytes
      BY WidthsAssumption
    <3> QED BY <1>7, <3>1 DEF SaveCrash
  <2>2. /\ Appended(e) /\ toc' \in Seq(TocEntry)
        /\ tail' \in NoHeader..(EntryBytes - 1) /\ (tail' = NoHeader => toc' = <<>>)
    BY <1>1, <1>2, <2>1, AppendLemma
  <2>3. b = 0 => toc' = toc
    BY <1>3, <2>1, WidthsAssumption DEF AppendToc, NoHeader
  <2>4. m \in Nat /\ (toc' = Append(toc, e) => m = size)
    BY <1>1, <1>4, <2>1, <2>3, WidthsAssumption
  <2> QED BY <1>1, <1>3, <1>7, <2>1, <2>2, <2>4 DEF SaveCrash, Gone, SaveLeaves
<1> QED BY <1>5, <1>6, <1>7

\* So it keeps the invariant.
LEMMA SaveFailsKeeps ==
    ASSUME IInv, NEW k \in Keys, NEW size \in Sizes, Save(k, size), events' = events,
           SaveDatFails(k, size) \/ SaveTocFails(k, size) \/ SaveCrash(k, size)
    PROVE  IInv'
<1>1. PICK p : p = Place(size)
  OBVIOUS
<1>2. PICK n : n = [off |-> p.off, size |-> size]
  OBVIOUS
<1>3. PICK e : e = EntryFor(k, size)
  OBVIOUS
<1>4. /\ n \in Span /\ n.off = p.off /\ n.size = size /\ p.off \in Nat /\ size \in Nat
      /\ tried[k] + 1 \in Nat /\ tried' \in [Keys -> Nat] /\ TypeOK /\ isOpen
  BY <1>1, <1>2, SaveStarts
<1>5. EntryIs(e, k, n) /\ SaveLeaves(k, size, e, p, n)
  BY <1>1, <1>2, <1>3, SaveEntry, SaveFailsLeaves
<1>6. toc \in Seq(TocEntry) /\ e \in TocEntry /\ clock \in Nat /\ clock' \in Nat
  BY <1>4, <1>5 DEF TypeOK, EntryIs
<1>7. PICK m \in Nat : dat' = Written(k, tried[k] + 1, size, p.off, m) /\ (toc' = Append(toc, e) => m = size)
  BY <1>5 DEF SaveLeaves
<1>8. PICK w : w = dat'
  OBVIOUS
<1>9. Fills(dat, w, k, tried[k] + 1, size, p.off, m)
  BY <1>4, <1>7, <1>8, WrittenFills
<1>10. TypeOK'
  <2>1. dat' \in [Cells -> Cell \union {None}]
    BY <1>8, <1>9 DEF Fills
  <2> QED BY <1>4, <1>5, <1>6, <2>1 DEF TypeOK, SaveLeaves
<1>11. EntriesAreWritten'
  <2>1. AreWritten(w, toc, index)
    BY <1>9, EntriesFrame DEF IInv, EntriesAreWritten, Fills
  <2>2. toc' = Append(toc, e) => IsWritten(w, e)
    BY <1>4, <1>5, <1>7, <1>9, ChunkIsWritten DEF EntryIs
  <2>3. AreWritten(w, toc', index)
    BY <1>5, <1>6, <2>1, <2>2, AppendedIsWritten DEF SaveLeaves
  <2> QED BY <1>5, <1>8, <2>3 DEF EntriesAreWritten, SaveLeaves
<1>12. StampsAreKept'
  <2> SUFFICES ASSUME TimeIsRight' PROVE AreStamped(clock', toc', index')
    BY DEF StampsAreKept
  <2>1. TimeIsRight /\ clock' = clock + 1 /\ e.stamp = clock'
    BY <1>5 DEF EntryIs
  <2>2. AreStamped(clock, toc, index)
    BY <2>1 DEF IInv, StampsAreKept
  <2>3. AreStamped(clock', toc, index)
    BY <1>4, <1>6, <2>1, <2>2, StampsStay
  <2>4. AreStamped(clock', toc', index)
    <3>1. Appended(e) /\ e.stamp <= clock' /\ UNCHANGED index
      BY <1>5, <1>6, <2>1 DEF SaveLeaves
    <3> QED BY <1>6, <2>3, <3>1, AppendedIsStamped
  <2> QED BY <1>5, <2>4 DEF SaveLeaves
<1>13. JournalMatchesIndex'
  <2>1. CASE toc' = toc
    BY <1>5, <2>1, JournalFrame DEF IInv, EntryIs, SaveLeaves
  <2>2. CASE toc' # toc
    BY <1>5, <2>2 DEF SaveLeaves, JournalMatchesIndex
  <2> QED BY <2>1, <2>2
<1> QED BY <1>10, <1>11, <1>12, <1>13 DEF IInv

\* A step that leaves the files, the index and the clock alone.
LEMMA StillKeeps ==
    ASSUME IInv, TypeOK', UNCHANGED <<events, dat, toc, index, clock, behind>>, isOpen' => isOpen
    PROVE  IInv'
<1>1. EntriesAreWritten'
  BY DEF IInv, EntriesAreWritten
<1>2. TimeIsRight' <=> TimeIsRight
  BY DEF TimeIsRight
<1>3. StampsAreKept'
  BY <1>2 DEF IInv, StampsAreKept
<1>4. JournalMatchesIndex'
  BY <1>2, JournalFrame DEF IInv
<1> QED BY <1>1, <1>3, <1>4 DEF IInv

\* What compactToc() may leave as the journal.
Compacted(j) ==
    /\ j \in Seq(TocEntry)
    /\ \A i \in 1..Len(j) : \E k \in Keys : index[k] # None /\ j[i] = index[k]
    /\ ~behind' => Replay(j).index = index

\* compactToc() writes entries of the index, all of them if nothing fails.
LEMMA CompactLemma == IInv /\ CompactToc => Compacted(toc')
<1> SUFFICES ASSUME IInv, CompactToc PROVE Compacted(toc')
  OBVIOUS
<1>1. TypeOK /\ \A k \in Keys : index[k] # None => index[k].key = k
  BY DEF IInv, EntriesAreWritten, AreWritten
<1>2. CASE toc' = SetToSeq(Entries)
  <2>1. Rewrites(toc', Entries)
    BY <1>1, <1>2, CompactRewrites
  <2>2. Replay(toc').index = index
    BY <1>1, <2>1, CompactReplays
  <2> QED BY <2>1, <2>2 DEF Rewrites, Compacted
<1>3. CASE behind' = TRUE /\ \E part \in SUBSET Entries : toc' = SetToSeq(part)
  <2>1. PICK part \in SUBSET Entries : toc' = SetToSeq(part)
    BY <1>3
  <2>2. Rewrites(toc', part)
    BY <1>1, <2>1, CompactRewrites
  <2> QED BY <1>3, <2>2 DEF Rewrites, Compacted
<1>4. CASE behind' = TRUE /\ toc' = <<>>
  <2>1. PICK j \in Seq(TocEntry) : j = <<>>
    BY EmptySeq
  <2> QED BY <1>4, <2>1 DEF Compacted
<1> QED BY <1>2, <1>3, <1>4 DEF CompactToc

\* Closing, replaying and compacting keep the entries that count.
LEMMA OthersKeep ==
    ASSUME IInv, events' = events, (\E k \in Keys : LoadFails(k)) \/ Close \/ Open \/ CompactToc \/ CompactCrash
    PROVE  IInv'
<1>1. TypeOK /\ EntriesAreWritten /\ StampsAreKept /\ JournalMatchesIndex
  BY DEF IInv
<1>2. toc \in Seq(TocEntry) /\ NoHeader = -1 /\ EntryBytes \in Nat /\ EntryBytes >= 1
  BY <1>1, WidthsAssumption DEF TypeOK, NoHeader
<1>3. CASE Close
  <2>1. UNCHANGED <<dat, toc, tail, index, free, dataEnd, datBad, tocBad, clock, saved, tried, behind>>
        /\ isOpen' = FALSE
    BY <1>3 DEF Close, Gone, disk, ghosts
  <2>2. TypeOK'
    BY <1>1, <2>1 DEF TypeOK
  <2> QED BY <2>1, <2>2, StillKeeps
<1>4. CASE \E k \in Keys : LoadFails(k)
  <2>1. UNCHANGED <<dat, toc, tail, isOpen, index, free, dataEnd, tocBad, clock, saved, tried, behind>>
        /\ datBad' = TRUE
    BY <1>4 DEF LoadFails, disk, ghosts
  <2>2. TypeOK'
    BY <1>1, <2>1 DEF TypeOK
  <2> QED BY <2>1, <2>2, StillKeeps
<1>5. CASE Open
  <2>1. /\ UNCHANGED <<dat, toc, tail, clock, saved, tried>> /\ isOpen' = TRUE /\ datBad' = FALSE
        /\ tocBad' = FALSE /\ behind' = FALSE
        /\ index' = Replay(toc).index /\ free' = Replay(toc).free /\ dataEnd' = DatSize
    BY <1>5 DEF Open, disk
  <2>2. PICK ix : ix = Replay(toc).index
    OBVIOUS
  <2>3. /\ ix \in [Keys -> TocEntry \union {None}]
        /\ \A k \in Keys : ix[k] # None => ix[k].key = k /\ \E i \in 1..Len(toc) : ix[k] = toc[i]
    BY <1>2, <2>2, ReplayType
  <2>4. free' \in [Span -> Nat]
    BY <1>2, <2>1, ReplayType
  <2>5. TypeOK'
    BY <1>1, <2>1, <2>2, <2>3, <2>4, DatSizeLemma DEF TypeOK
  <2>6. EntriesAreWritten'
    <3>1. AreWritten(dat, toc, ix)
      BY <1>1, <2>3 DEF EntriesAreWritten, AreWritten
    <3> QED BY <2>1, <2>2, <3>1 DEF EntriesAreWritten
  <2>7. StampsAreKept'
    <3> SUFFICES ASSUME TimeIsRight' PROVE AreStamped(clock, toc, ix)
      BY <2>1, <2>2 DEF StampsAreKept
    <3>1. AreStamped(clock, toc, index)
      BY <1>1, <2>1 DEF StampsAreKept, TimeIsRight
    <3> QED BY <2>3, <3>1 DEF AreStamped
  <2>8. JournalMatchesIndex'
    BY <2>1 DEF JournalMatchesIndex
  <2> QED BY <2>5, <2>6, <2>7, <2>8 DEF IInv
<1>6. CASE CompactToc
  <2>1. /\ UNCHANGED <<dat, index, free, dataEnd, datBad, clock, saved, tried, isOpen>> /\ tocBad' = FALSE
        /\ tail' \in NoHeader..(EntryBytes - 1) /\ (tail' = NoHeader => toc' = <<>>) /\ behind' \in BOOLEAN
    <3>1. /\ 0 \in NoHeader..(EntryBytes - 1) /\ 0..(EntryBytes - 1) \subseteq NoHeader..(EntryBytes - 1)
          /\ NoHeader \in NoHeader..(EntryBytes - 1) /\ NoHeader \notin 0..(EntryBytes - 1)
      BY <1>2
    <3>2. UNCHANGED <<dat, index, free, dataEnd, datBad, clock, saved, tried, isOpen>> /\ tocBad' = FALSE
      BY <1>6 DEF CompactToc
    <3>3. \/ tail' = 0 /\ behind' = FALSE
          \/ tail' \in 0..(EntryBytes - 1) /\ behind' = TRUE
          \/ tail' = NoHeader /\ toc' = <<>> /\ behind' = TRUE
      BY <1>6 DEF CompactToc
    <3> QED BY <3>1, <3>2, <3>3
  <2>2. PICK j : j = toc'
    OBVIOUS
  <2>3. /\ j \in Seq(TocEntry)
        /\ \A i \in 1..Len(j) : \E k \in Keys : index[k] # None /\ j[i] = index[k]
        /\ ~behind' => Replay(j).index = index
    BY <1>6, <2>2, CompactLemma DEF Compacted
  <2>4. TypeOK'
    BY <1>1, <2>1, <2>2, <2>3 DEF TypeOK
  <2>5. EntriesAreWritten'
    <3>1. AreWritten(dat, j, index)
      BY <1>1, <2>3 DEF EntriesAreWritten, AreWritten
    <3> QED BY <2>1, <2>2, <3>1 DEF EntriesAreWritten
  <2>6. StampsAreKept'
    <3> SUFFICES ASSUME TimeIsRight' PROVE AreStamped(clock, j, index)
      BY <2>1, <2>2 DEF StampsAreKept
    <3>1. AreStamped(clock, toc, index)
      BY <1>1, <2>1 DEF StampsAreKept, TimeIsRight
    <3> QED BY <2>3, <3>1 DEF AreStamped
  <2>7. JournalMatchesIndex'
    BY <2>1, <2>2, <2>3 DEF JournalMatchesIndex
  <2> QED BY <2>4, <2>5, <2>6, <2>7 DEF IInv
<1>7. CASE CompactCrash
  <2>1. /\ UNCHANGED <<dat, index, free, dataEnd, datBad, tocBad, clock, saved, tried, behind>>
        /\ isOpen' = FALSE /\ toc' = <<>> /\ tail' = 0
    BY <1>7 DEF CompactCrash, Gone, ghosts
  <2>2. PICK j \in Seq(TocEntry) : j = <<>> /\ Len(j) = 0
    BY EmptySeq
  <2>3. TypeOK'
    <3>1. 0 \in NoHeader..(EntryBytes - 1)
      BY <1>2
    <3> QED BY <1>1, <1>2, <2>1, <2>2, <3>1 DEF TypeOK
  <2>4. EntriesAreWritten'
    <3>1. AreWritten(dat, j, index)
      BY <1>1, <2>2 DEF EntriesAreWritten, AreWritten
    <3> QED BY <2>1, <2>2, <3>1 DEF EntriesAreWritten
  <2>5. StampsAreKept'
    <3> SUFFICES ASSUME TimeIsRight' PROVE AreStamped(clock, j, index)
      BY <2>1, <2>2 DEF StampsAreKept
    <3>1. AreStamped(clock, toc, index)
      BY <1>1, <2>1 DEF StampsAreKept, TimeIsRight
    <3> QED BY <2>2, <3>1 DEF AreStamped
  <2>6. JournalMatchesIndex'
    BY <2>1 DEF JournalMatchesIndex
  <2> QED BY <2>3, <2>4, <2>5, <2>6 DEF IInv
<1> QED BY <1>3, <1>4, <1>5, <1>6, <1>7

\* Whatever fails or ends before its time, every step keeps the saved entries of
\* index and journal in written space; and as long as stamps do not run
\* backwards and nothing is appended to a torn entry, it keeps the journal in
\* step with the index.
THEOREM RegionNext == IInv /\ [Next]_vars => IInv'
<1> SUFFICES ASSUME IInv, [Next]_vars PROVE IInv'
  OBVIOUS
<1>1. CASE UNCHANGED vars
  <2>1. UNCHANGED <<events, dat, toc, tail, isOpen, index, free, dataEnd, datBad, tocBad, clock, saved, tried, behind>>
    BY <1>1 DEF vars, disk, memory, ghosts
  <2>2. TypeOK'
    BY <2>1 DEF IInv, TypeOK
  <2> QED BY <2>1, <2>2, StillKeeps
<1>2. CASE Next
  <2>1. events' = events
    BY <1>2 DEF Next
  <2>2. ASSUME NEW k \in Keys, NEW size \in Sizes, Save(k, size) PROVE IInv'
    <3>1. SaveOk(k, size) \/ SaveDatFails(k, size) \/ SaveTocFails(k, size) \/ SaveCrash(k, size)
      BY <2>2 DEF Save
    <3> QED BY <2>1, <2>2, <3>1, SaveOkKeeps, SaveFailsKeeps
  <2> QED BY <1>2, <2>1, <2>2, OthersKeep DEF Next
<1> QED BY <1>1, <1>2

\* The invariant holds in every reachable state.
LEMMA RegionInv == Spec => []IInv
BY RegionInit, RegionNext, PTL DEF Spec

\* Every saved column the index names lies within the data file.
LEMMA ReadsInFile == IInv => ReadsStayInFile
<1> SUFFICES ASSUME IInv, NEW k \in Keys, index[k] # None, index[k].real
             PROVE  index[k].off + index[k].size <= DatSize
  BY DEF ReadsStayInFile
<1>1. IsWritten(dat, index[k])
  BY DEF IInv, EntriesAreWritten, AreWritten
<1>2. SpanOf(index[k]) \in Span /\ dat[index[k].off + index[k].size - 1] # None
  BY <1>1 DEF IsWritten
<1>3. /\ index[k].off \in Nat /\ index[k].size \in Nat /\ index[k].size >= 1
      /\ index[k].off + index[k].size <= MaxEnd
  BY <1>2, SpanIs DEF SpanOf
<1>4. index[k].off + index[k].size - 1 \in Cells
  BY <1>3, RegionBounds DEF Cells
<1>5. (index[k].off + index[k].size - 1) + 1 <= DatSize
  BY <1>2, <1>4, DatSizeLemma
<1> QED BY <1>3, <1>5, DatSizeLemma
-----------------------------------------------------------------------------
(* One session.                                                            *)

\* The index names places that spans can have.
LEMMA EntriesArePlaced == IInv => Placed(index)
BY DEF IInv, EntriesAreWritten, AreWritten, IsWritten, Placed

\* A chunk written to a clear place leaves the other columns' chunks whole.
LEMMA OthersHold ==
    ASSUME NEW d, NEW w, NEW k \in Keys, NEW v \in Nat, NEW n \in Span, NEW m \in 0..n.size,
           Fills(d, w, k, v, n.size, n.off, m),
           NEW ix, Placed(ix), NEW j \in Keys, ix[j] # None => Apart(ix[j], n),
           NEW u, Holds(d, ix, j, u)
    PROVE  Holds(w, ix, j, u)
<1>1. CASE ix[j] = None
  BY <1>1 DEF Holds
<1>2. CASE ix[j] # None
  <2>1. /\ n.off \in Nat /\ n.size \in Nat /\ MaxEnd \in Nat
        /\ ix[j].off \in Nat /\ ix[j].size \in Nat /\ ix[j].size >= 1 /\ ix[j].off + ix[j].size <= MaxEnd
    BY <1>2, PlacedIs, SpanIs, RegionBounds
  <2>2. ASSUME NEW c \in CellsOf(ix[j]) PROVE w[c] = d[c]
    <3>1. c \in Cells
      BY <2>1 DEF CellsOf, Cells
    <3>2. c \notin n.off..(n.off + m - 1)
      BY <1>2, <2>1 DEF CellsOf, Apart
    <3> QED BY <3>1, <3>2 DEF Fills
  <2> QED BY <1>2, <2>2 DEF Holds
<1> QED BY <1>1, <1>2

\* A save that works hands out a clear place and gives the old one back.
LEMMA SaveOkInSession ==
    ASSUME IInv, SessionInv, NEW k \in Keys, NEW size \in Sizes, Save(k, size), SaveOk(k, size), events' = events
    PROVE  SessionInv'
<1>1. PICK p : p = Place(size)
  OBVIOUS
<1>2. PICK n : n = [off |-> p.off, size |-> size]
  OBVIOUS
<1>3. /\ n \in Span /\ p.free \in [Span -> Nat] /\ p.end \in 0..MaxEnd
      /\ Takes(free, p.free, dataEnd, p.end, n)
      /\ p.off \in Nat /\ size \in Nat /\ size >= 1 /\ tried[k] + 1 \in Nat
      /\ TypeOK /\ n.off = p.off /\ n.size = size
  BY <1>1, <1>2, SaveStarts
<1>4. PICK e : e = EntryFor(k, size)
  OBVIOUS
<1>5. /\ dat' = Written(k, tried[k] + 1, size, p.off, size)
      /\ dataEnd' = p.end
      /\ free' = Exchanged(k, size)
      /\ index' = [index EXCEPT ![k] = e]
      /\ saved' = [saved EXCEPT ![k] = tried[k] + 1]
      /\ UNCHANGED <<isOpen, datBad, tocBad>>
  BY <1>1, <1>4 DEF SaveOk
<1>6. EntryIs(e, k, n)
  BY <1>1, <1>2, <1>4, SaveEntry
<1>7. e \in TocEntry /\ e.key = k /\ e.off = p.off /\ e.size = size /\ SpanOf(e) = n /\ e # None
  BY <1>3, <1>6 DEF EntryIs, SpanOf
<1>8. PICK w : w = dat'
  OBVIOUS
<1>9. Fills(dat, w, k, tried[k] + 1, size, p.off, size)
  BY <1>3, <1>5, <1>8, WrittenFills
<1>10. Placed(index) /\ index \in [Keys -> TocEntry \union {None}] /\ free \in [Span -> Nat]
       /\ dataEnd \in Nat /\ saved \in [Keys -> Nat]
  BY <1>3, EntriesArePlaced, RegionBounds DEF TypeOK
<1>11. /\ Divides(index, p.free, p.end) /\ Clear(index, p.free, n)
       /\ n.off + n.size <= p.end /\ p.end \in Nat
       /\ Covers(index, free, dataEnd) => CoversWith(index, p.free, p.end, n)
  <2>1. n.off + n.size <= MaxEnd
    BY <1>3, SpanIs
  <2>2. Divides(index, free, dataEnd)
    BY DEF SessionInv
  <2> QED BY <1>3, <1>10, <2>1, <2>2, TakesDivides
<1>12. PICK ix : ix = [index EXCEPT ![k] = e]
  OBVIOUS
<1>13. PICK h : h = IF index[k] = None THEN p.free ELSE AddFree(p.free, SpanOf(index[k]))
  OBVIOUS
<1>14. Divides(ix, h, p.end) /\ (CoversWith(index, p.free, p.end, n) => Covers(ix, h, p.end))
  BY <1>3, <1>7, <1>10, <1>11, <1>12, <1>13, ExchangeDivides
<1>15. index' = ix /\ free' = h
  BY <1>1, <1>5, <1>12, <1>13 DEF Exchanged
<1>16. ASSUME NEW j \in Keys PROVE Holds(w, ix, j, saved'[j])
  <2>1. CASE j = k
    <3>1. ix[k] = e /\ saved'[k] = tried[k] + 1
      BY <1>5, <1>10, <1>12
    <3>2. ASSUME NEW c \in CellsOf(e)
          PROVE  w[c] = [key |-> k, ver |-> tried[k] + 1, size |-> e.size, at |-> c - e.off]
      <4>1. c \in p.off..(p.off + size - 1)
        BY <1>7 DEF CellsOf
      <4>2. c \in Cells
        BY <1>3, <4>1, SpanIs, RegionBounds DEF Cells
      <4> QED BY <1>7, <1>9, <4>1, <4>2 DEF Fills
    <3> QED BY <1>7, <2>1, <3>1, <3>2 DEF Holds
  <2>2. CASE j # k
    <3>1. ix[j] = index[j] /\ saved'[j] = saved[j]
      BY <1>5, <1>10, <1>12, <2>2
    <3>2. index[j] # None => Apart(index[j], n)
      BY <1>11 DEF Clear
    <3>3. Fills(dat, w, k, tried[k] + 1, n.size, n.off, n.size) /\ n.size \in 0..n.size
      BY <1>3, <1>9
    <3>4. Holds(dat, index, j, saved[j])
      BY DEF SessionInv
    <3>5. Holds(w, index, j, saved[j])
      BY <1>3, <1>10, <3>2, <3>3, <3>4, OthersHold
    <3> QED BY <3>1, <3>5 DEF Holds
  <2> QED BY <2>1, <2>2
<1>17. ~datBad => Covers(ix, h, p.end)
  BY <1>11, <1>14 DEF SessionInv
<1> QED BY <1>5, <1>8, <1>14, <1>15, <1>16, <1>17 DEF SessionInv

\* A save whose data cannot be written loses the place and nothing else.
LEMMA SaveDatFailsInSession ==
    ASSUME IInv, SessionInv, NEW k \in Keys, NEW size \in Sizes, Save(k, size), SaveDatFails(k, size)
    PROVE  SessionInv'
<1>1. PICK p : p = Place(size)
  OBVIOUS
<1>2. PICK n : n = [off |-> p.off, size |-> size]
  OBVIOUS
<1>3. /\ n \in Span /\ p.free \in [Span -> Nat] /\ p.end \in 0..MaxEnd
      /\ Takes(free, p.free, dataEnd, p.end, n)
      /\ p.off \in Nat /\ size \in Nat /\ size >= 1 /\ tried[k] + 1 \in Nat
      /\ TypeOK /\ n.off = p.off /\ n.size = size
  BY <1>1, <1>2, SaveStarts
<1>4. /\ dataEnd' = p.end /\ free' = p.free /\ datBad' = TRUE
      /\ UNCHANGED <<isOpen, index, tocBad, saved>>
  BY <1>1 DEF SaveDatFails
<1>5. PICK m \in 0..size : dat' = Written(k, tried[k] + 1, size, p.off, m)
  BY <1>1, <1>3 DEF SaveDatFails
<1>6. PICK w : w = dat'
  OBVIOUS
<1>7. Fills(dat, w, k, tried[k] + 1, n.size, n.off, m) /\ m \in 0..n.size
  BY <1>3, <1>5, <1>6, WrittenFills
<1>8. Placed(index) /\ free \in [Span -> Nat] /\ dataEnd \in Nat
  BY <1>3, EntriesArePlaced, RegionBounds DEF TypeOK
<1>9. Divides(index, p.free, p.end) /\ Clear(index, p.free, n)
  <2>1. n.off + n.size <= MaxEnd
    BY <1>3, SpanIs
  <2>2. Divides(index, free, dataEnd)
    BY DEF SessionInv
  <2> QED BY <1>3, <1>8, <2>1, <2>2, TakesDivides
<1>10. ASSUME NEW j \in Keys PROVE Holds(w, index, j, saved[j])
  <2>1. index[j] # None => Apart(index[j], n)
    BY <1>9 DEF Clear
  <2>2. Holds(dat, index, j, saved[j])
    BY DEF SessionInv
  <2> QED BY <1>3, <1>7, <1>8, <2>1, <2>2, OthersHold
<1> QED BY <1>4, <1>6, <1>9, <1>10 DEF SessionInv

\* A set whose elements are all the same has one element, or none.
LEMMA OneAtMost ==
    ASSUME NEW S, \A x, y \in S : x = y
    PROVE  Cardinality(S) = IF S = {} THEN 0 ELSE 1
<1>1. CASE S = {}
  BY <1>1, FS_EmptySet
<1>2. CASE S # {}
  <2>1. PICK x \in S : S = {x}
    BY <1>2
  <2>2. Cardinality({x}) = 1
    BY FS_Singleton
  <2> QED BY <1>2, <2>1, <2>2
<1> QED BY <1>1, <1>2

\* Each cell is owned as often as the three parts of the session's invariant say.
LEMMA CellsAreOwnedOnce == IInv /\ SessionInv => SpaceIsOwnedOnce
<1> SUFFICES ASSUME IInv, SessionInv PROVE SpaceIsOwnedOnce
  OBVIOUS
<1>1. Placed(index) /\ Divides(index, free, dataEnd) /\ (~datBad => Covers(index, free, dataEnd))
      /\ dataEnd \in Nat
  BY EntriesArePlaced, RegionBounds DEF SessionInv, IInv, TypeOK
<1>2. \A s \in Span : free[s] <= 1
  BY <1>1 DEF Divides
<1>3. ASSUME NEW c \in Cells
      PROVE  /\ Cardinality(StoredIn(c)) + Cardinality(FreeIn(c)) <= IF c < dataEnd THEN 1 ELSE 0
             /\ c < dataEnd /\ ~datBad => Cardinality(StoredIn(c)) + Cardinality(FreeIn(c)) = 1
  <2>1. c \in Nat
    BY RegionBounds DEF Cells
  <2>2. \A s \in Span : s.off \in Nat /\ s.size \in Nat
    BY SpanIs
  <2>3. ASSUME NEW k \in Keys
        PROVE  k \in StoredIn(c) <=>
                  index[k] # None /\ index[k].off <= c /\ c < index[k].off + index[k].size
    <3>1. CASE index[k] = None
      BY <3>1 DEF StoredIn
    <3>2. CASE index[k] # None
      <4>1. index[k].off \in Nat /\ index[k].size \in Nat
            /\ SpanOf(index[k]).off = index[k].off /\ SpanOf(index[k]).size = index[k].size
        BY <1>1, <3>2, PlacedIs
      <4> QED BY <2>1, <3>2, <4>1 DEF StoredIn, CellsOf
    <3> QED BY <3>1, <3>2
  <2>4. ASSUME NEW s \in Span
        PROVE  s \in FreeIn(c) <=> free[s] > 0 /\ s.off <= c /\ c < s.off + s.size
    BY <2>1, <2>2 DEF FreeIn, Listed, CellsOf
  <2>5. \A k \in StoredIn(c) : k \in Keys
    BY DEF StoredIn
  <2>6. \A s \in FreeIn(c) : s \in Span
    BY DEF FreeIn
  <2>7. \A k \in Keys : index[k] # None => index[k].off \in Nat /\ index[k].size \in Nat
    BY <1>1, PlacedIs
  <2>8. \A k, j \in StoredIn(c) : k = j
    BY <1>1, <2>1, <2>3, <2>5, <2>7 DEF Divides, Apart
  <2>9. \A s, t \in FreeIn(c) : s = t
    BY <1>1, <2>1, <2>2, <2>4, <2>6 DEF Divides, Apart
  <2>10. StoredIn(c) = {} \/ FreeIn(c) = {}
    <3> SUFFICES ASSUME NEW k \in StoredIn(c), NEW s \in FreeIn(c) PROVE FALSE
      OBVIOUS
    <3> QED BY <1>1, <2>1, <2>2, <2>3, <2>4, <2>5, <2>6, <2>7 DEF Divides, Apart
  <2>11. StoredIn(c) # {} => c < dataEnd
    BY <1>1, <2>1, <2>3, <2>5, <2>7 DEF Divides
  <2>12. FreeIn(c) # {} => c < dataEnd
    BY <1>1, <2>1, <2>2, <2>4, <2>6 DEF Divides
  <2>13. c < dataEnd /\ ~datBad => StoredIn(c) # {} \/ FreeIn(c) # {}
    <3> SUFFICES ASSUME c < dataEnd, ~datBad PROVE StoredIn(c) # {} \/ FreeIn(c) # {}
      OBVIOUS
    <3>1. c \in 0..(dataEnd - 1)
      BY <1>1, <2>1
    <3>2. CASE \E k \in Keys : index[k] # None /\ c \in CellsOf(index[k])
      BY <2>1, <2>3, <2>7, <3>2 DEF CellsOf
    <3>3. CASE \E s \in Span : free[s] > 0 /\ c \in CellsOf(s)
      BY <2>1, <2>2, <2>4, <3>3 DEF CellsOf
    <3> QED BY <1>1, <3>1, <3>2, <3>3 DEF Covers
  <2>14. PICK a : a = Cardinality(StoredIn(c))
    OBVIOUS
  <2>15. PICK b : b = Cardinality(FreeIn(c))
    OBVIOUS
  <2>16. a = (IF StoredIn(c) = {} THEN 0 ELSE 1) /\ b = (IF FreeIn(c) = {} THEN 0 ELSE 1)
    BY <2>8, <2>9, <2>14, <2>15, OneAtMost
  <2>17. /\ a + b <= IF c < dataEnd THEN 1 ELSE 0
         /\ c < dataEnd /\ ~datBad => a + b = 1
    BY <2>10, <2>11, <2>12, <2>13, <2>16
  <2> QED BY <2>14, <2>15, <2>17
<1> QED BY <1>2, <1>3 DEF SpaceIsOwnedOnce

\* A column's cells hold its last chunk.
LEMMA HeldIsStored == IInv /\ SessionInv => \A k \in Keys : Stored(k) = saved[k]
<1> SUFFICES ASSUME IInv, SessionInv, NEW k \in Keys PROVE Stored(k) = saved[k]
  OBVIOUS
<1>1. Placed(index) /\ Holds(dat, index, k, saved[k])
  BY EntriesArePlaced DEF SessionInv
<1>2. CASE index[k] = None
  BY <1>1, <1>2 DEF Stored, Holds
<1>3. CASE index[k] # None
  <2>1. index[k].key = k
    BY <1>3 DEF IInv, EntriesAreWritten, AreWritten
  <2>2. PICK e : e = index[k]
    OBVIOUS
  <2>3. /\ e.off \in Nat /\ e.size \in Nat /\ e.size >= 1 /\ e.key = k
        /\ SpanOf(e).off = e.off /\ SpanOf(e).size = e.size
    BY <1>1, <1>3, <2>1, <2>2, PlacedIs
  <2>4. \A c \in CellsOf(SpanOf(e)) :
           dat[c] = [key |-> k, ver |-> saved[k], size |-> e.size, at |-> c - e.off]
    BY <1>1, <1>3, <2>2, <2>3 DEF Holds, CellsOf
  <2>5. PICK g : g = [key |-> k, ver |-> saved[k], size |-> e.size, at |-> 0]
    OBVIOUS
  <2>6. dat[e.off] = g
    <3>1. e.off \in CellsOf(SpanOf(e)) /\ e.off - e.off = 0
      BY <2>3 DEF CellsOf
    <3> QED BY <2>4, <2>5, <3>1
  <2>7. g # None
    <3>1. saved[k] \in Nat
      BY DEF IInv, TypeOK
    <3>2. g \in Cell
      BY <2>3, <2>5, <3>1 DEF Cell
    <3> QED BY <3>2, NoneAssumption
  <2>8. \A c \in CellsOf(SpanOf(e)) : dat[c] = [g EXCEPT !.at = c - e.off]
    BY <2>4, <2>5
  <2>9. e.off \in Cells /\ CellsOf(SpanOf(e)) \subseteq Cells
    BY <1>1, <1>3, <2>2, <2>3, PlacedIs, RegionBounds DEF CellsOf, Cells
  <2>10. ChunkAt(e) = saved[k]
    BY <2>3, <2>5, <2>6, <2>7, <2>8, <2>9 DEF ChunkAt
  <2> QED BY <1>3, <2>2, <2>10 DEF Stored
<1> QED BY <1>2, <1>3

\* So that is what a load returns, as long as the data file can be read.
LEMMA HeldIsLoaded == IInv /\ SessionInv => StoresLastSave /\ (~datBad => \A k \in Keys : Loaded(k) = saved[k])
<1> SUFFICES ASSUME IInv, SessionInv
             PROVE  StoresLastSave /\ (~datBad => \A k \in Keys : Loaded(k) = saved[k])
  OBVIOUS
<1>1. \A k \in Keys : Stored(k) = saved[k]
  BY HeldIsStored
<1>2. ~datBad => \A k \in Keys : Loaded(k) = Stored(k)
  BY DEF Loaded, Stored, ReadChunk
<1> QED BY <1>1, <1>2 DEF StoresLastSave

\* At first the file is empty and divided among nobody.
LEMMA SessionInit == Init => SInv
<1> SUFFICES ASSUME Init PROVE SInv
  OBVIOUS
<1>1. IInv
  BY RegionInit
<1>2. /\ isOpen = TRUE /\ tocBad = FALSE /\ dataEnd = 0
      /\ \A k \in Keys : index[k] = None /\ saved[k] = 0
      /\ \A s \in Span : free[s] = 0
  BY DEF Init, NoFree
<1>3. Divides(index, free, dataEnd) /\ Covers(index, free, dataEnd)
  BY <1>2 DEF Divides, Covers
<1> QED BY <1>1, <1>2, <1>3 DEF SInv, SessionInv, Holds

\* In one session every save takes a clear place, whatever fails, and compacting
\* the journal moves nothing.
THEOREM SessionNext == SInv /\ [Next]_vars => SInv'
<1> SUFFICES ASSUME SInv, [Next]_vars, Peaceful' PROVE SessionInv'
  BY RegionNext DEF SInv
<1>1. CASE UNCHANGED vars
  <2>1. UNCHANGED <<events, dat, isOpen, index, free, dataEnd, datBad, tocBad, saved>>
    BY <1>1 DEF vars, disk, memory, ghosts
  <2> QED BY <2>1 DEF SInv, Peaceful, SessionInv
<1>2. CASE Next
  <2>1. events' = events
    BY <1>2 DEF Next
  <2>2. Peaceful /\ IInv /\ SessionInv
    BY <2>1 DEF SInv, Peaceful
  <2>3. \A x \in {"reopen", "crash", "toc_fails", "compact_crash"} : x \notin events
    BY <2>2 DEF Peaceful
  <2>4. isOpen /\ ~tocBad
    BY <2>2 DEF SessionInv
  <2>5. ASSUME NEW k \in Keys, NEW size \in Sizes, Save(k, size) PROVE SessionInv'
    <3>1. ~SaveTocFails(k, size) /\ ~SaveCrash(k, size)
      BY <2>3, <2>4 DEF SaveTocFails, SaveCrash
    <3>2. SaveOk(k, size) \/ SaveDatFails(k, size)
      BY <2>5, <3>1 DEF Save
    <3> QED BY <2>1, <2>2, <2>5, <3>2, SaveOkInSession, SaveDatFailsInSession
  <2>6. ~Close /\ ~Open /\ ~CompactCrash
    BY <2>3, <2>4 DEF Close, Open, CompactCrash
  <2>7. CASE CompactToc
    <3>1. UNCHANGED <<dat, isOpen, index, free, dataEnd, datBad, saved>> /\ tocBad' = FALSE
      BY <2>7 DEF CompactToc
    <3> QED BY <2>2, <3>1 DEF SessionInv
  <2>8. CASE \E k \in Keys : LoadFails(k)
    <3>1. UNCHANGED <<dat, isOpen, index, free, dataEnd, tocBad, saved>> /\ datBad' = TRUE
      BY <2>8 DEF LoadFails, disk, ghosts
    <3> QED BY <2>2, <3>1 DEF SessionInv
  <2> QED BY <1>2, <2>5, <2>6, <2>7, <2>8 DEF Next
<1> QED BY <1>1, <1>2

\* Whatever failed or ended before, also inside a journal entry or compactToc(),
\* saved columns are read within the file and, as long as stamps do not run
\* backwards and no entry was appended to a torn one, the journal replays to the
\* index; in one session each cell has one owner.
THEOREM FileStaysConsistent == Spec => []FileIsConsistent
<1>1. SInv => FileIsConsistent
  <2> SUFFICES ASSUME SInv PROVE FileIsConsistent
    OBVIOUS
  <2>1. TypeOK /\ JournalMatchesIndex /\ ReadsStayInFile
    BY ReadsInFile DEF SInv, IInv
  <2>2. SpaceIsOwnedOnce
    <3>1. CASE OneSession
      BY <3>1, CellsAreOwnedOnce DEF SInv, OneSession, Peaceful
    <3>2. CASE ~OneSession
      BY <3>2 DEF SpaceIsOwnedOnce
    <3> QED BY <3>1, <3>2
  <2> QED BY <2>1, <2>2 DEF FileIsConsistent
<1> QED BY <1>1, SessionInit, SessionNext, PTL DEF Spec

\* In one session the index leads to each column's last successful save, though
\* other saves fail half way and the journal is compacted; and as long as the
\* data file has not failed, a load returns it.
THEOREM LastSaveIsRead == Spec => []SessionStoresLastSave
<1>1. SInv => SessionStoresLastSave
  BY HeldIsLoaded DEF SInv, OneSession, Peaceful, SessionStoresLastSave
<1> QED BY <1>1, SessionInit, SessionNext, PTL DEF Spec
=============================================================================
