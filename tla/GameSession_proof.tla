------------------------- MODULE GameSession_proof -------------------------
(***************************************************************************)
(* Theorems about GameSession: the updates of the light engine chain up,   *)
(* no tick reaches a block that did not ask for it, and no face of a       *)
(* neighbour change is forgotten, for any positions, setups and bounds of  *)
(* the loop.                                                               *)
(*                                                                         *)
(* The queues are sequences that are appended to, joined and worked off at *)
(* either end.  All that matters of them is what they contain, ToSet(s),   *)
(* and that a position is the subject of at most one change in each.       *)
(***************************************************************************)
EXTENDS GameSession, SequenceTheorems, FiniteSetTheorems, TLAPS

ChangeTypes == {"BlockPlaced", "BlockBroken"}
TickTypes   == {"TickScheduled", "TickRepeat", "TickRandom"}

\* The positions that are to be changed by these events or commands.
Subjects(S) == {x.pos : x \in {y \in S : y.type \in ChangeTypes}}

\* No position is the subject of two changes in s.
OncePerPosition(s) ==
    \A i, j \in 1..Len(s) :
        s[i].type \in ChangeTypes /\ s[j].type \in ChangeTypes /\ s[i].pos = s[j].pos => i = j

Apart(S, T) == Subjects(S) \cap Subjects(T) = {}

\* What a sequence contains is of the type of its elements.
LEMMA Contents ==
    ASSUME NEW S, NEW s \in Seq(S)
    PROVE  /\ ToSet(s) \subseteq S
           /\ ToSet(s) = {s[i] : i \in 1..Len(s)}
           /\ s = <<>> => ToSet(s) = {}
<1>1. DOMAIN s = 1..Len(s) /\ Len(s) \in Nat
  BY LenProperties
<1>2. \A i \in 1..Len(s) : s[i] \in S
  BY ElementOfSeq
<1>3. s = <<>> => Len(s) = 0
  OBVIOUS
<1> QED BY <1>1, <1>2, <1>3 DEF ToSet

\* Appending adds an element; it repeats no subject unless it is one already.
LEMMA Appending ==
    ASSUME NEW S, NEW s \in Seq(S), NEW e \in S
    PROVE  /\ Append(s, e) \in Seq(S)
           /\ ToSet(Append(s, e)) = ToSet(s) \cup {e}
           /\ OncePerPosition(s) /\ (e.type \in ChangeTypes => e.pos \notin Subjects(ToSet(s)))
                 => OncePerPosition(Append(s, e))
<1> DEFINE t == Append(s, e)
<1>1. /\ t \in Seq(S)
      /\ Len(t) = Len(s) + 1
      /\ \A i \in 1..Len(s) : t[i] = s[i]
      /\ t[Len(s) + 1] = e
  BY AppendProperties
<1>2. Len(s) \in Nat
  BY LenProperties
<1>3. ToSet(t) = {t[i] : i \in 1..Len(t)} /\ ToSet(s) = {s[i] : i \in 1..Len(s)}
  BY <1>1, Contents
<1> HIDE DEF t
<1>4. ToSet(t) = ToSet(s) \cup {e}
  <2>1. 1..Len(t) = 1..Len(s) \cup {Len(s) + 1}
    BY <1>1, <1>2
  <2> QED BY <1>1, <1>3, <2>1
<1>5. ASSUME OncePerPosition(s), e.type \in ChangeTypes => e.pos \notin Subjects(ToSet(s)),
             NEW i \in 1..Len(t), NEW j \in 1..Len(t),
             t[i].type \in ChangeTypes, t[j].type \in ChangeTypes, t[i].pos = t[j].pos
      PROVE  i = j
  <2>1. CASE i \in 1..Len(s) /\ j \in 1..Len(s)
    BY <1>1, <1>5, <2>1 DEF OncePerPosition
  <2>2. CASE i \in 1..Len(s) /\ j = Len(s) + 1
    <3>1. t[i] \in ToSet(s) /\ t[j] = e
      BY <1>1, <1>3, <2>2
    <3> QED BY <1>5, <3>1 DEF Subjects
  <2>3. CASE i = Len(s) + 1 /\ j \in 1..Len(s)
    <3>1. t[j] \in ToSet(s) /\ t[i] = e
      BY <1>1, <1>3, <2>3
    <3> QED BY <1>5, <3>1 DEF Subjects
  <2> QED BY <1>1, <1>2, <2>1, <2>2, <2>3
<1>6. OncePerPosition(s) /\ (e.type \in ChangeTypes => e.pos \notin Subjects(ToSet(s))) => OncePerPosition(t)
  BY ONLY <1>5 DEF OncePerPosition
<1> QED BY <1>1, <1>4, <1>6 DEF t

\* Joining two sequences that have no subject in common.
LEMMA Joining ==
    ASSUME NEW S, NEW s \in Seq(S), NEW t \in Seq(S)
    PROVE  /\ s \o t \in Seq(S)
           /\ ToSet(s \o t) = ToSet(s) \cup ToSet(t)
           /\ OncePerPosition(s) /\ OncePerPosition(t) /\ Apart(ToSet(s), ToSet(t)) => OncePerPosition(s \o t)
<1> DEFINE u == s \o t
<1>1. /\ u \in Seq(S)
      /\ Len(u) = Len(s) + Len(t)
      /\ \A i \in 1..(Len(s) + Len(t)) : u[i] = IF i <= Len(s) THEN s[i] ELSE t[i - Len(s)]
  BY ConcatProperties
<1>2. Len(s) \in Nat /\ Len(t) \in Nat
  BY LenProperties
<1>3. /\ ToSet(u) = {u[i] : i \in 1..Len(u)}
      /\ ToSet(s) = {s[i] : i \in 1..Len(s)}
      /\ ToSet(t) = {t[i] : i \in 1..Len(t)}
  BY <1>1, Contents
<1> HIDE DEF u
<1>4. \A i \in 1..Len(u) :
         \/ i \in 1..Len(s) /\ u[i] = s[i]
         \/ \E k \in 1..Len(t) : i = k + Len(s) /\ u[i] = t[k]
  <2> TAKE i \in 1..Len(u)
  <2>1. CASE i <= Len(s)
    BY <1>1, <1>2, <2>1
  <2>2. CASE ~(i <= Len(s))
    <3>1. i - Len(s) \in 1..Len(t) /\ i = (i - Len(s)) + Len(s)
      BY <1>1, <1>2, <2>2
    <3> QED BY <1>1, <1>2, <2>2, <3>1
  <2> QED BY <2>1, <2>2
<1>5. ToSet(u) = ToSet(s) \cup ToSet(t)
  <2>1. \A i \in 1..Len(s) : i \in 1..Len(u) /\ u[i] = s[i]
    BY <1>1, <1>2
  <2>2. \A k \in 1..Len(t) : k + Len(s) \in 1..Len(u) /\ u[k + Len(s)] = t[k]
    <3> TAKE k \in 1..Len(t)
    <3>1. PICK m : m = k + Len(s)
      OBVIOUS
    <3>2. m \in 1..(Len(s) + Len(t)) /\ ~(m <= Len(s)) /\ m - Len(s) = k
      BY ONLY <1>2, <3>1
    <3>3. m \in 1..Len(u) /\ u[m] = t[k]
      BY <1>1, <3>2
    <3> QED BY <3>1, <3>3
  <2> QED BY <1>3, <1>4, <2>1, <2>2
<1>6. ASSUME OncePerPosition(s), OncePerPosition(t), Apart(ToSet(s), ToSet(t)),
             NEW i \in 1..Len(u), NEW j \in 1..Len(u),
             u[i].type \in ChangeTypes, u[j].type \in ChangeTypes, u[i].pos = u[j].pos
      PROVE  i = j
  <2>1. \A a \in ToSet(s), b \in ToSet(t) : a.type \in ChangeTypes /\ b.type \in ChangeTypes => a.pos # b.pos
    BY <1>6 DEF Apart, Subjects
  <2>2. CASE i \in 1..Len(s) /\ u[i] = s[i]
    <3>1. CASE j \in 1..Len(s) /\ u[j] = s[j]
      BY ONLY <1>6, <2>2, <3>1 DEF OncePerPosition
    <3>2. ASSUME NEW k \in 1..Len(t), u[j] = t[k] PROVE FALSE
      <4>1. u[i] \in ToSet(s) /\ u[j] \in ToSet(t)
        BY ONLY <1>3, <2>2, <3>2
      <4> QED BY ONLY <1>6, <2>1, <4>1
    <3> QED BY <1>4, <3>1, <3>2
  <2>3. ASSUME NEW k \in 1..Len(t), i = k + Len(s), u[i] = t[k] PROVE i = j
    <3>1. CASE j \in 1..Len(s) /\ u[j] = s[j]
      BY <1>3, <1>6, <2>1, <2>3, <3>1
    <3>2. ASSUME NEW m \in 1..Len(t), j = m + Len(s), u[j] = t[m] PROVE i = j
      <4>1. k = m
        BY ONLY <1>6, <2>3, <3>2 DEF OncePerPosition
      <4> QED BY <2>3, <3>2, <4>1
    <3> QED BY <1>4, <3>1, <3>2
  <2> QED BY <1>4, <2>2, <2>3
<1>7. OncePerPosition(s) /\ OncePerPosition(t) /\ Apart(ToSet(s), ToSet(t)) => OncePerPosition(u)
  BY ONLY <1>6 DEF OncePerPosition
<1> QED BY <1>1, <1>5, <1>7 DEF u

\* A queue without one element at its end, whose subject is then no longer in it.
LEMMA TakingLast ==
    ASSUME NEW S, NEW s \in Seq(S), s # <<>>
    PROVE  /\ Front(s) \in Seq(S)
           /\ Last(s) \in S
           /\ ToSet(s) = ToSet(Front(s)) \cup {Last(s)}
           /\ OncePerPosition(s) =>
                 /\ OncePerPosition(Front(s))
                 /\ Last(s).type \in ChangeTypes => Last(s).pos \notin Subjects(ToSet(Front(s)))
<1> DEFINE f == Front(s)
<1>1. Len(s) \in Nat /\ Len(s) # 0
  BY LenProperties, EmptySeq
<1>2. \A i \in 1..Len(s) : s[i] \in S
  BY ElementOfSeq
<1>3. f \in Seq(S) /\ Len(f) = Len(s) - 1 /\ \A i \in 1..(Len(s) - 1) : f[i] = s[i]
  <2>1. \A i \in 1..(Len(s) - 1) : s[i] \in S
    BY <1>1, <1>2
  <2>2. 1 \in Int /\ Len(s) - 1 \in Int
    BY <1>1
  <2>3. /\ SubSeq(s, 1, Len(s) - 1) \in Seq(S)
        /\ Len(SubSeq(s, 1, Len(s) - 1)) = IF 1 <= Len(s) - 1 THEN (Len(s) - 1) - 1 + 1 ELSE 0
        /\ \A i \in 1..((Len(s) - 1) - 1 + 1) : SubSeq(s, 1, Len(s) - 1)[i] = s[1 + i - 1]
    BY <2>1, <2>2, SubSeqProperties
  <2>4. f = SubSeq(s, 1, Len(s) - 1)
    BY DEF Front
  <2> HIDE DEF f
  <2>5. f \in Seq(S)
    BY <2>3, <2>4
  <2>6. Len(f) = IF 1 <= Len(s) - 1 THEN (Len(s) - 1) - 1 + 1 ELSE 0
    BY <2>3, <2>4
  <2>7. \A i \in 1..((Len(s) - 1) - 1 + 1) : f[i] = s[1 + i - 1]
    BY ONLY <2>3, <2>4
  <2>8. Len(f) = Len(s) - 1
    <3>1. PICK n \in Nat : n = Len(s) /\ n # 0
      BY <1>1
    <3>2. 1 <= n - 1 => (n - 1) - 1 + 1 = n - 1
      BY <3>1
    <3>3. ~(1 <= n - 1) => 0 = n - 1
      BY <3>1
    <3> QED BY <2>6, <3>1, <3>2, <3>3
  <2>9. \A i \in 1..(Len(s) - 1) : f[i] = s[i]
    <3>1. (Len(s) - 1) - 1 + 1 = Len(s) - 1 /\ \A i \in 1..(Len(s) - 1) : 1 + i - 1 = i
      BY ONLY <1>1
    <3> QED BY ONLY <2>7, <3>1
  <2> QED BY <2>5, <2>8, <2>9
<1>4. Last(s) = s[Len(s)] /\ Len(s) \in 1..Len(s)
  BY <1>1 DEF Last
<1>5. /\ ToSet(f) = {f[i] : i \in 1..Len(f)}
      /\ ToSet(s) = {s[i] : i \in 1..Len(s)}
  BY <1>3, Contents
<1> HIDE DEF f
<1>6. ToSet(s) = ToSet(f) \cup {Last(s)}
  <2>1. 1..Len(s) = 1..Len(f) \cup {Len(s)} /\ 1..Len(f) = 1..(Len(s) - 1)
    BY <1>1, <1>3
  <2> QED BY <1>3, <1>4, <1>5, <2>1
<1>7. ASSUME OncePerPosition(s) PROVE OncePerPosition(f)
  <2>1. \A i \in 1..Len(f) : i \in 1..Len(s) /\ f[i] = s[i]
    BY <1>1, <1>3
  <2> QED BY <1>7, <2>1 DEF OncePerPosition
<1>8. ASSUME OncePerPosition(s), Last(s).type \in ChangeTypes PROVE Last(s).pos \notin Subjects(ToSet(f))
  <2>1. ASSUME NEW i \in 1..Len(f), f[i].type \in ChangeTypes PROVE f[i].pos # Last(s).pos
    <3>1. i \in 1..Len(s) /\ i # Len(s) /\ f[i] = s[i]
      BY <1>1, <1>3
    <3> QED BY <1>4, <1>8, <2>1, <3>1 DEF OncePerPosition
  <2> QED BY <1>5, <2>1 DEF Subjects
<1> QED BY <1>2, <1>3, <1>4, <1>6, <1>7, <1>8 DEF f

\* The same at its beginning.
LEMMA TakingFirst ==
    ASSUME NEW S, NEW s \in Seq(S), s # <<>>
    PROVE  /\ Tail(s) \in Seq(S)
           /\ Head(s) \in S
           /\ ToSet(s) = ToSet(Tail(s)) \cup {Head(s)}
           /\ OncePerPosition(s) =>
                 /\ OncePerPosition(Tail(s))
                 /\ Head(s).type \in ChangeTypes => Head(s).pos \notin Subjects(ToSet(Tail(s)))
<1> DEFINE t == Tail(s)
<1>1. Len(s) \in Nat /\ Len(s) # 0
  BY LenProperties, EmptySeq
<1>2. /\ Head(s) \in S /\ t \in Seq(S)
      /\ Len(t) = Len(s) - 1
      /\ \A i \in 1..Len(t) : t[i] = s[i + 1]
  BY HeadTailProperties
<1>3. Head(s) = s[1] /\ 1 \in 1..Len(s)
  BY <1>1
<1>4. /\ ToSet(t) = {t[i] : i \in 1..Len(t)}
      /\ ToSet(s) = {s[i] : i \in 1..Len(s)}
  BY <1>2, Contents
<1> HIDE DEF t
<1>5. \A i \in 1..Len(t) : i + 1 \in 1..Len(s) /\ i + 1 # 1 /\ t[i] = s[i + 1]
  BY <1>1, <1>2
<1>6. \A i \in 1..Len(s) : i = 1 \/ \E k \in 1..Len(t) : i = k + 1
  <2> TAKE i \in 1..Len(s)
  <2>1. CASE i # 1
    <3>1. i - 1 \in 1..Len(t) /\ i = (i - 1) + 1
      BY <1>1, <1>2, <2>1
    <3> QED BY <3>1
  <2> QED BY <2>1
<1>7. ToSet(s) = ToSet(t) \cup {Head(s)}
  BY <1>3, <1>4, <1>5, <1>6
<1>8. ASSUME OncePerPosition(s) PROVE OncePerPosition(t)
  <2>1. ASSUME NEW i \in 1..Len(t), NEW j \in 1..Len(t), i + 1 = j + 1 PROVE i = j
    BY <2>1
  <2> QED BY <1>5, <1>8, <2>1 DEF OncePerPosition
<1>9. ASSUME OncePerPosition(s), Head(s).type \in ChangeTypes PROVE Head(s).pos \notin Subjects(ToSet(t))
  <2>1. \A i \in 1..Len(t) : t[i].type \in ChangeTypes => t[i].pos # Head(s).pos
    BY <1>3, <1>5, <1>9 DEF OncePerPosition
  <2> QED BY <1>4, <2>1 DEF Subjects
<1> QED BY <1>2, <1>7, <1>8, <1>9 DEF t

\* Every element of a finite set is in every sequence that lists it.
LEMMA Listing ==
    ASSUME NEW S, IsFiniteSet(S), NEW s \in SetToSeqs(S)
    PROVE  /\ s \in Seq(S)
           /\ ToSet(s) = S
           /\ (\A x \in S : x.type \notin ChangeTypes) => OncePerPosition(s)
<1> DEFINE n == Cardinality(S)
<1>1. n \in Nat
  BY FS_CardinalityType
<1>2. /\ s \in [1..n -> S]
      /\ \A i, j \in 1..n : i # j => s[i] # s[j]
  BY DEF SetToSeqs
<1>3. s \in Seq(S) /\ Len(s) = n
  BY <1>1, <1>2
<1>4. s \in Injection(1..n, S)
  BY <1>2 DEF Injection, IsInjective
<1>5. Cardinality(1..n) = n
  <2>1. 1 \in Int /\ n \in Int
    BY <1>1
  <2> QED BY <1>1, <2>1, FS_Interval
<1>6. s \in Surjection(1..n, S)
  BY <1>4, <1>5, FS_Injection
<1>7. \A x \in S : \E i \in 1..n : s[i] = x
  BY <1>6 DEF Surjection
<1>8. ToSet(s) = S
  <2>1. ToSet(s) = {s[i] : i \in 1..n}
    BY <1>3, Contents
  <2>2. \A i \in 1..n : s[i] \in S
    BY <1>2
  <2> HIDE DEF n
  <2> QED BY ONLY <1>7, <2>1, <2>2
<1>9. ASSUME \A x \in S : x.type \notin ChangeTypes PROVE OncePerPosition(s)
  BY <1>2, <1>3, <1>9 DEF OncePerPosition
<1> QED BY <1>3, <1>8, <1>9

----------------------------------------------------------------------------
(* What the queues hold: changes of blocks, which come from outside only;  *)
(* ticks and notices, which come from the scheduler and its handlers only; *)
(* and events that carry nothing.                                          *)

EventIn(types, blks, faces, from) ==
    [type : types, pos : Positions, blk : blks, prev : blks, faces : faces, from : from]

ChangeEvent == EventIn(ChangeTypes, Types, {{}}, {{}})
PlainEvent  == EventIn({"PlayerUse", "BlockUpdate"}, {"air"}, {{}}, {{}})
NoticeEvent == EventIn({"NeighborChanged"}, {"air"}, SUBSET Faces, {{}})
TickEvent   == EventIn(TickTypes, {"air"}, {{}}, SUBSET Nat)
OutEvent    == PlainEvent \cup NoticeEvent \cup TickEvent
AnyEvent    == ChangeEvent \cup OutEvent

ScheduledTick == [pos : Positions, due : Nat, type : {"TickScheduled", "TickRepeat"}, from : Nat]

\* Events of one type and position are one.
Merged(box) == \A e, x \in box : Key(e) = Key(x) => e = x

\* The faces these events bring to q.
Carried(S, q) == UNION {e.faces : e \in {x \in S : x.pos = q}}

\* Merging leaves finitely many events.
LEMMA OutboxIsFinite ==
    ASSUME NEW box \in SUBSET OutEvent, Merged(box)
    PROVE  IsFiniteSet(box)
<1> DEFINE types == {"PlayerUse", "BlockUpdate", "NeighborChanged", "TickScheduled", "TickRepeat", "TickRandom"}
           f == [e \in box |-> Key(e)]
<1>1. IsFiniteSet(types)
  <2>1. \A x : IsFiniteSet({x})
    BY FS_Singleton
  <2>2. IsFiniteSet({"PlayerUse"} \cup {"BlockUpdate"}) /\ IsFiniteSet({"TickRepeat"} \cup {"TickRandom"})
        /\ IsFiniteSet({"NeighborChanged"} \cup {"TickScheduled"})
    BY <2>1, FS_Union
  <2>3. IsFiniteSet(({"NeighborChanged"} \cup {"TickScheduled"}) \cup ({"TickRepeat"} \cup {"TickRandom"}))
    BY <2>2, FS_Union
  <2>4. IsFiniteSet(({"PlayerUse"} \cup {"BlockUpdate"}) \cup
            (({"NeighborChanged"} \cup {"TickScheduled"}) \cup ({"TickRepeat"} \cup {"TickRandom"})))
    BY <2>2, <2>3, FS_Union
  <2>5. types = ({"PlayerUse"} \cup {"BlockUpdate"}) \cup
            (({"NeighborChanged"} \cup {"TickScheduled"}) \cup ({"TickRepeat"} \cup {"TickRandom"}))
    OBVIOUS
  <2> QED BY <2>4, <2>5
<1>2. IsFiniteSet(types \X Positions)
  BY <1>1, SchedulerAssumption, FS_Product
<1>3. f \in [box -> types \X Positions]
  BY DEF OutEvent, PlainEvent, NoticeEvent, TickEvent, EventIn, TickTypes, Key
<1>4. \A e, x \in box : f[e] = f[x] => e = x
  BY DEF Merged
<1> HIDE DEF f, types
<1>5. f \in Injection(box, types \X Positions)
  BY <1>3, <1>4 DEF Injection, IsInjective
<1> QED BY <1>2, <1>5, FS_Injection

\* Pushing what a handler sends leaves the ticks alone and loses no face.
LEMMA Pushing ==
    ASSUME NEW box \in SUBSET OutEvent, Merged(box), NEW e \in PlainEvent \cup NoticeEvent
    PROVE  /\ OutboxPush(box, e) \subseteq OutEvent
           /\ Merged(OutboxPush(box, e))
           /\ \A x \in OutboxPush(box, e) : x.type \in TickTypes => x \in box
           /\ \A q \in Positions : Carried(box, q) \subseteq Carried(OutboxPush(box, e), q)
           /\ e.faces \subseteq Carried(OutboxPush(box, e), e.pos)
<1> DEFINE same == {x \in box : Key(x) = Key(e)}
           new == OutboxPush(box, e)
<1>1. /\ e.type \notin TickTypes
      /\ e \in OutEvent
  BY DEF PlainEvent, NoticeEvent, EventIn, TickTypes, OutEvent
<1>2. CASE same = {}
  <2>1. new = box \cup {e}
    BY <1>2 DEF OutboxPush
  <2>2. Merged(new)
    BY <1>2, <2>1 DEF Merged
  <2> QED BY <1>1, <2>1, <2>2 DEF Carried
<1>3. ASSUME NEW x \in same PROVE
        /\ new = (box \ {x}) \cup {MergeEvents(x, e)}
        /\ x \in box /\ Key(x) = Key(e)
  <2>1. same = {x}
    BY <1>3 DEF Merged
  <2> QED BY <2>1 DEF OutboxPush
<1>4. ASSUME NEW x \in same PROVE
        /\ MergeEvents(x, e) \in OutEvent /\ Key(MergeEvents(x, e)) = Key(e)
        /\ x.faces \subseteq MergeEvents(x, e).faces /\ e.faces \subseteq MergeEvents(x, e).faces
        /\ MergeEvents(x, e).pos = e.pos /\ MergeEvents(x, e).type = e.type
  <2>1. x.type = e.type /\ x.pos = e.pos
    BY <1>3 DEF Key
  <2>2. CASE e \in PlainEvent
    <3>1. x \in PlainEvent
      BY <2>1, <2>2 DEF PlainEvent, NoticeEvent, TickEvent, EventIn, TickTypes, OutEvent
    <3>2. MergeEvents(x, e) = [e EXCEPT !.from = {}]
      BY <2>2, <3>1 DEF MergeEvents, PlainEvent, EventIn
    <3> QED BY <2>2, <3>1, <3>2 DEF PlainEvent, EventIn, OutEvent, Key
  <2>3. CASE e \in NoticeEvent
    <3>1. x \in NoticeEvent
      BY <2>1, <2>3 DEF PlainEvent, NoticeEvent, TickEvent, EventIn, TickTypes, OutEvent
    <3>2. MergeEvents(x, e) = [e EXCEPT !.faces = e.faces \cup x.faces, !.from = {}]
      BY <2>3, <3>1 DEF MergeEvents, NoticeEvent, EventIn
    <3> QED BY <2>3, <3>1, <3>2 DEF NoticeEvent, EventIn, OutEvent, Key
  <2> QED BY <2>2, <2>3
<1>5. ASSUME NEW x \in same PROVE
        /\ new \subseteq OutEvent
        /\ Merged(new)
        /\ \A y \in new : y.type \in TickTypes => y \in box
        /\ \A q \in Positions : Carried(box, q) \subseteq Carried(new, q)
        /\ e.faces \subseteq Carried(new, e.pos)
  <2>1. new = (box \ {x}) \cup {MergeEvents(x, e)} /\ x \in box /\ Key(x) = Key(e)
    BY <1>3
  <2>2. /\ MergeEvents(x, e) \in OutEvent /\ Key(MergeEvents(x, e)) = Key(e)
        /\ x.faces \subseteq MergeEvents(x, e).faces /\ e.faces \subseteq MergeEvents(x, e).faces
        /\ MergeEvents(x, e).pos = e.pos /\ MergeEvents(x, e).type = e.type
    BY <1>4
  <2>3. PICK m : m = MergeEvents(x, e)
    OBVIOUS
  <2> HIDE DEF new, same
  <2>4. Merged(new)
    BY <2>1, <2>2, <2>3 DEF Merged
  <2>5. x.pos = e.pos
    BY <2>1 DEF Key
  <2>6. \A q \in Positions : Carried(box, q) \subseteq Carried(new, q)
    BY <2>1, <2>2, <2>3, <2>5 DEF Carried
  <2>7. e.faces \subseteq Carried(new, e.pos)
    BY <2>1, <2>2, <2>3 DEF Carried
  <2> QED BY <1>1, <2>1, <2>2, <2>4, <2>6, <2>7
<1> QED BY <1>2, <1>5

\* Ticks that are pushed merge with each other only: notices keep their faces,
\* and who asks for a tick asked for one of those that went into it.
LEMMA PushingTicks ==
    ASSUME NEW box \in SUBSET OutEvent, Merged(box), NEW ticks \in SUBSET TickEvent
    PROVE  /\ OutboxPushTicks(box, ticks) \subseteq OutEvent
           /\ Merged(OutboxPushTicks(box, ticks))
           /\ \A q \in Positions : Carried(box, q) \subseteq Carried(OutboxPushTicks(box, ticks), q)
           /\ \A x \in OutboxPushTicks(box, ticks) : \A a \in x.from :
                 \E y \in box \cup ticks : y.pos = x.pos /\ a \in y.from
<1> DEFINE all == box \cup ticks
           Same(e) == {x \in all : Key(x) = Key(e)}
           from(e) == UNION {x.from : x \in Same(e)}
           new == OutboxPushTicks(box, ticks)
<1>1. new = {[e EXCEPT !.from = from(e)] : e \in all}
  BY DEF OutboxPushTicks
<1>2. \A e \in all : e \in OutEvent
  BY DEF OutEvent
<1>3. \A e \in all : e \in TickEvent => [e EXCEPT !.from = from(e)] \in TickEvent
  <2> SUFFICES ASSUME NEW e \in all, e \in TickEvent PROVE [e EXCEPT !.from = from(e)] \in TickEvent
    OBVIOUS
  <2>1. \A x \in Same(e) : x \in TickEvent
    BY <1>2 DEF OutEvent, PlainEvent, NoticeEvent, TickEvent, EventIn, TickTypes, Key
  <2>2. \A x \in Same(e) : x.from \subseteq Nat
    BY <2>1 DEF TickEvent, EventIn
  <2>3. from(e) \in SUBSET Nat
    BY <2>2
  <2> HIDE DEF from
  <2> QED BY <2>3 DEF TickEvent, EventIn
<1>4. \A e \in all : e \notin TickEvent => [e EXCEPT !.from = from(e)] = e /\ e \in box
  <2> SUFFICES ASSUME NEW e \in all, e \notin TickEvent PROVE [e EXCEPT !.from = from(e)] = e /\ e \in box
    OBVIOUS
  <2>1. e \in box /\ e \in PlainEvent \cup NoticeEvent
    BY <1>2 DEF OutEvent
  <2>2. \A x \in Same(e) : x \in PlainEvent \cup NoticeEvent
    BY <1>2, <2>1 DEF OutEvent, PlainEvent, NoticeEvent, TickEvent, EventIn, TickTypes, Key
  <2>3. \A x \in Same(e) : x.from = {}
    BY <2>2 DEF PlainEvent, NoticeEvent, EventIn
  <2>4. from(e) = {} /\ e.from = {}
    BY <2>1, <2>3 DEF PlainEvent, NoticeEvent, EventIn
  <2> HIDE DEF from
  <2>5. [e EXCEPT !.from = {}] = e
    BY <2>1, <2>4 DEF PlainEvent, NoticeEvent, EventIn
  <2> QED BY <2>1, <2>4, <2>5
<1>5. new \subseteq OutEvent
  <2> HIDE DEF from, all
  <2> QED BY <1>1, <1>2, <1>3, <1>4 DEF OutEvent
<1>6. \A e \in all : /\ [e EXCEPT !.from = from(e)].faces = e.faces
                     /\ [e EXCEPT !.from = from(e)].pos = e.pos
                     /\ [e EXCEPT !.from = from(e)].type = e.type
                     /\ [e EXCEPT !.from = from(e)].from = from(e)
  <2> HIDE DEF from, all
  <2> QED BY <1>2 DEF OutEvent, PlainEvent, NoticeEvent, TickEvent, EventIn
<1>7. Merged(new)
  <2> SUFFICES ASSUME NEW e \in all, NEW x \in all,
                      Key([e EXCEPT !.from = from(e)]) = Key([x EXCEPT !.from = from(x)])
               PROVE  [e EXCEPT !.from = from(e)] = [x EXCEPT !.from = from(x)]
    BY <1>1 DEF Merged
  <2>1. e.type = x.type /\ e.pos = x.pos
    BY <1>6 DEF Key
  <2>2. Same(e) = Same(x)
    BY <2>1 DEF Key
  <2>3. from(e) = from(x)
    BY <2>2
  <2>4. CASE e \in TickEvent
    <3>1. x \in TickEvent
      BY <1>2, <2>1, <2>4 DEF OutEvent, PlainEvent, NoticeEvent, TickEvent, EventIn, TickTypes
    <3> HIDE DEF from
    <3> QED BY <2>1, <2>3, <2>4, <3>1 DEF TickEvent, EventIn
  <2>5. CASE e \notin TickEvent
    <3>1. x \notin TickEvent
      BY <1>2, <2>1, <2>5 DEF OutEvent, PlainEvent, NoticeEvent, TickEvent, EventIn, TickTypes
    <3>2. e \in box /\ x \in box
      BY <1>4, <2>5, <3>1
    <3>3. e = x
      BY <2>1, <3>2 DEF Merged, Key
    <3> QED BY <3>3
  <2> QED BY <2>4, <2>5
<1>8. \A q \in Positions : Carried(box, q) \subseteq Carried(new, q)
  <2>1. ASSUME NEW e \in box PROVE \E x \in new : x.pos = e.pos /\ x.faces = e.faces
    <3>1. PICK x : x = [e EXCEPT !.from = from(e)]
      OBVIOUS
    <3>2. e \in all
      OBVIOUS
    <3>3. x.faces = e.faces /\ x.pos = e.pos
      BY <1>6, <3>1, <3>2
    <3> HIDE DEF new, all, from
    <3>4. x \in new
      BY <1>1, <3>1, <3>2
    <3> QED BY <3>3, <3>4
  <2> HIDE DEF new
  <2> QED BY <2>1 DEF Carried
<1>9. \A x \in new : \A a \in x.from : \E y \in all : y.pos = x.pos /\ a \in y.from
  <2> SUFFICES ASSUME NEW x \in new, NEW a \in x.from
               PROVE  \E y \in all : y.pos = x.pos /\ a \in y.from
    OBVIOUS
  <2>1. PICK e \in all : x = [e EXCEPT !.from = from(e)]
    <3> HIDE DEF new, all, from
    <3> QED BY <1>1
  <2>2. x.pos = e.pos /\ x.from = from(e)
    BY <1>6, <2>1
  <2>3. PICK y \in Same(e) : a \in y.from
    BY <2>2
  <2> QED BY <2>2, <2>3 DEF Key
<1> QED BY <1>5, <1>7, <1>8, <1>9

\* What is taken from the deferred events is of their kind and changes nothing.
LEMMA TakingDeferred ==
    ASSUME NEW places \in SUBSET (DOMAIN deferred), deferred \in Seq(PlainEvent),
           NEW es \in Deferred(places)
    PROVE  /\ es \in Seq(PlainEvent)
           /\ OncePerPosition(es)
<1>1. DOMAIN deferred = 1..Len(deferred) /\ Len(deferred) \in Nat
  BY LenProperties
<1>2. IsFiniteSet(places)
  <2>1. 1 \in Int /\ Len(deferred) \in Int
    BY <1>1
  <2>2. IsFiniteSet(1..Len(deferred))
    BY <2>1, FS_Interval
  <2> QED BY <1>1, <2>2, FS_Subset
<1>3. Cardinality(places) \in Nat
  BY <1>2, FS_CardinalityType
<1>4. PICK s \in SetToSeqs(places) : es = [j \in DOMAIN s |-> deferred[s[j]]]
  BY DEF Deferred
<1>5. s \in [1..Cardinality(places) -> places]
  BY <1>4 DEF SetToSeqs
<1>6. \A i \in 1..Len(deferred) : deferred[i] \in PlainEvent
  BY ElementOfSeq
<1>7. es \in [1..Cardinality(places) -> PlainEvent]
  BY <1>1, <1>4, <1>5, <1>6
<1>8. es \in Seq(PlainEvent)
  BY <1>3, <1>7
<1>9. OncePerPosition(es)
  <2>1. \A i \in 1..Len(es) : es[i] \in PlainEvent
    BY <1>8, ElementOfSeq
  <2>2. \A i \in 1..Len(es) : es[i].type \notin ChangeTypes
    BY <2>1 DEF PlainEvent, EventIn, ChangeTypes
  <2> QED BY <2>2 DEF OncePerPosition
<1> QED BY <1>8, <1>9

\* A handler sets at most one block; without the habit that of a placement.
LEMMA BlocksSet ==
    ASSUME NEW before \in [Positions -> Types], NEW ages \in [Positions -> Nat],
           NEW free, NEW after \in AfterHandler(before, free)
    PROVE  /\ after \in [Positions -> Types]
           /\ Aged(ages, before, after) \in [Positions -> Nat]
           /\ after = before => Aged(ages, before, after) = ages
           /\ \A q \in Positions : after[q] # "air" => before[q] # "air"
           /\ "set_block" \notin setup.habits /\ after # before
                => \E q \in Positions \cap free, t \in Types : after = [before EXCEPT ![q] = t]
<1>1. \/ after = before
      \/ \E q \in Positions, t \in Types :
            /\ after = [before EXCEPT ![q] = t]
            /\ HasHandler(before[q])
            /\ "set_block" \in setup.habits \/ q \in free
  BY DEF AfterHandler
<1>2. after \in [Positions -> Types]
  BY <1>1
<1>3. Aged(ages, before, after) \in [Positions -> Nat] /\ (after = before => Aged(ages, before, after) = ages)
  BY DEF Aged
<1>4. \A q \in Positions : after[q] # "air" => before[q] # "air"
  BY <1>1 DEF HasHandler
<1> QED BY <1>1, <1>2, <1>3, <1>4

\* A handler is called or not.
Handled(p, before, after, ages, ticks, owing) ==
    Invoked(p, before, after, ages, ticks, owing) \/ NotInvoked(before, after, ages, ticks, owing)

\* Ticks it schedules are asked for by its block, and the faces it owes are in the
\* outbox.
Effects(p, before, after, ages, ticks, owing) ==
    /\ age' = Aged(ages, before, after)
    /\ scheduled' \subseteq ScheduledTick
    /\ \A t \in scheduled' : t \in ticks \/ (t.pos = p /\ t.due > now)
    /\ "set_block" \notin setup.habits =>
          \A t \in scheduled' : t \in ticks
             \/ (t.pos = p /\ t.from = ages[p] /\ after = before /\ Invoked(p, before, after, ages, ticks, owing))
    /\ outbox' \subseteq OutEvent /\ Merged(outbox')
    /\ \A x \in outbox' : x.type \in TickTypes => x \in outbox
    /\ \A q \in Positions : Carried(outbox, q) \subseteq Carried(outbox', q)
    /\ owed' \in [Positions -> SUBSET Faces]
    /\ \A q \in Positions : owed'[q] \subseteq owing[q] \cup Carried(outbox', q)

\* What the call of a handler does, whatever it chooses.
LEMMA HandlerEffects ==
    ASSUME NEW p \in Positions, NEW before \in [Positions -> Types], NEW ages \in [Positions -> Nat],
           NEW after \in [Positions -> Types],
           NEW ticks \in SUBSET ScheduledTick, NEW owing \in [Positions -> SUBSET Faces],
           outbox \in SUBSET OutEvent, Merged(outbox), now \in Nat,
           Handled(p, before, after, ages, ticks, owing)
    PROVE  Effects(p, before, after, ages, ticks, owing)
<1>3. Aged(ages, before, after) \in [Positions -> Nat] /\ (after = before => Aged(ages, before, after) = ages)
  BY DEF Aged
<1>1. CASE NotInvoked(before, after, ages, ticks, owing)
  <2>1. after = before /\ age' = ages /\ scheduled' = ticks /\ owed' = owing /\ outbox' = outbox
    BY <1>1 DEF NotInvoked
  <2>2. Aged(ages, before, after) = ages
    BY <1>3, <2>1
  <2> QED BY <2>1, <2>2 DEF Merged, Effects
<1>2. CASE Invoked(p, before, after, ages, ticks, owing)
  <2>1. PICK asked \in {None} \cup AskedFor(p, {ages[p], age'[p]}), note \in {None} \cup Sendable(p) :
          /\ asked # None /\ after # before => "set_block" \in setup.habits
          /\ scheduled' = ticks \cup ({asked} \ {None})
          /\ IF note = None THEN owed' = owing /\ outbox' = outbox
             ELSE owed' = [owing EXCEPT ![note.pos] = @ \cup note.faces] /\ outbox' = OutboxPush(outbox, note)
    BY <1>2 DEF Invoked
  <2>2. age' = Aged(ages, before, after)
    BY <1>2 DEF Invoked
  <2>3. Aged(ages, before, after) \in [Positions -> Nat] /\ (after = before => age' = ages)
    BY <2>2, <1>3
  <2>4. ages[p] \in Nat /\ age'[p] \in Nat
    BY <2>2, <2>3
  <2>5. ASSUME asked # None
        PROVE  /\ asked \in ScheduledTick /\ asked.pos = p /\ asked.due > now
               /\ after = before => asked.from = ages[p]
    <3>1. PICK d \in {0, 2}, type \in {"TickScheduled", "TickRepeat"}, n \in {ages[p], age'[p]} :
             asked = [pos |-> p, due |-> TargetTick(d), type |-> type, from |-> n]
      BY <2>1, <2>5 DEF AskedFor
    <3>2. TargetTick(d) \in Nat /\ TargetTick(d) > now
      BY DEF TargetTick
    <3>3. n \in Nat /\ (after = before => n = ages[p])
      BY <2>3, <2>4
    <3> QED BY <3>1, <3>2, <3>3 DEF ScheduledTick
  <2>6. /\ scheduled' \subseteq ScheduledTick
        /\ \A t \in scheduled' : t \in ticks \/ (t.pos = p /\ t.due > now)
        /\ "set_block" \notin setup.habits =>
              \A t \in scheduled' : t \in ticks \/ (t.pos = p /\ t.from = ages[p] /\ after = before)
    BY <2>1, <2>5
  <2>7. CASE note = None
    BY <1>2, <2>1, <2>2, <2>6, <2>7 DEF Merged, Effects
  <2>8. CASE note # None
    <3>1. note \in PlainEvent \cup NoticeEvent /\ note.pos \in Positions /\ note.faces \in SUBSET Faces
      <4>1. ASSUME NEW q \in Positions, NEW m \in Masks, note = NeighborChanged(q, m)
            PROVE  note \in NoticeEvent
        <5>1. m \in SUBSET Faces
          BY DEF Masks
        <5> QED BY <4>1, <5>1 DEF NeighborChanged, Event, NoticeEvent, EventIn
      <4>2. ASSUME NEW q \in Positions, note = Event("BlockUpdate", q)
            PROVE  note \in PlainEvent
        BY <4>2 DEF Event, PlainEvent, EventIn
      <4>3. note \in PlainEvent \cup NoticeEvent
        BY <2>1, <2>8, <4>1, <4>2 DEF Sendable
      <4> QED BY <4>3 DEF PlainEvent, NoticeEvent, EventIn
    <3>2. owed' = [owing EXCEPT ![note.pos] = @ \cup note.faces] /\ outbox' = OutboxPush(outbox, note)
      BY <2>1, <2>8
    <3>3. PICK b : b = OutboxPush(outbox, note)
      OBVIOUS
    <3>4. /\ b \subseteq OutEvent /\ Merged(b)
          /\ \A x \in b : x.type \in TickTypes => x \in outbox
          /\ \A r \in Positions : Carried(outbox, r) \subseteq Carried(b, r)
          /\ note.faces \subseteq Carried(b, note.pos)
      BY <3>1, <3>3, Pushing
    <3>5. outbox' = b
      BY <3>2, <3>3
    <3>6. owed' \in [Positions -> SUBSET Faces]
          /\ \A r \in Positions : owed'[r] = IF r = note.pos THEN owing[r] \cup note.faces ELSE owing[r]
      BY <3>1, <3>2
    <3>7. /\ outbox' \subseteq OutEvent /\ Merged(outbox')
          /\ \A x \in outbox' : x.type \in TickTypes => x \in outbox
          /\ \A r \in Positions : Carried(outbox, r) \subseteq Carried(outbox', r)
          /\ note.faces \subseteq Carried(outbox', note.pos)
      BY <3>4, <3>5 DEF Merged, Carried
    <3> QED BY <1>2, <2>2, <2>6, <3>6, <3>7 DEF Effects
  <2> QED BY <2>7, <2>8
<1> QED BY <1>1, <1>2 DEF Handled

----------------------------------------------------------------------------
(* The invariant.                                                          *)

TypeInv ==
    /\ setup \in Setups
    /\ block \in [Positions -> Types] /\ heard \in [Positions -> Types]
    /\ age \in [Positions -> Nat]
    /\ registered \in SUBSET Positions /\ subchunks \in SUBSET Positions
    /\ now \in Nat
    /\ scheduled \in SUBSET ScheduledTick
    /\ external \in Seq(ChangeEvent \cup PlainEvent)
    /\ inbox \in Seq(AnyEvent)
    /\ deferred \in Seq(PlainEvent)
    /\ outbox \in SUBSET OutEvent /\ Merged(outbox)
    /\ owed \in [Positions -> SUBSET Faces]
    /\ commands \in Seq(Command) /\ batch \in Seq(Command)

\* Changes are in the inbox only while the events of commands are processed, and
\* ticks are under way only in a tick.
StageInv ==
    /\ batch # <<>> => thread = "execute"
    /\ thread # "execute" => Subjects(ToSet(external)) = {}
    /\ thread # "events" => Subjects(ToSet(inbox)) = {}
    /\ thread \notin {"tick", "tick events"} => \A e \in outbox : e.type \notin TickTypes
    /\ thread # "tick events" => \A e \in ToSet(inbox) : e.type \notin TickTypes

\* Every block is in a subchunk.
ExistInv == \A q \in Positions : block[q] # "air" => Exists(q)

\* A face that is owed is on its way.
OwedInv == \A q \in Positions : owed[q] \subseteq Carried(outbox, q) \cup Carried(ToSet(inbox), q)

\* No position is the subject of two changes that are on their way.
OnceIn(c, b, x, i) ==
    /\ OncePerPosition(c) /\ OncePerPosition(b) /\ OncePerPosition(x) /\ OncePerPosition(i)
    /\ Apart(ToSet(c), ToSet(b)) /\ Apart(ToSet(c), ToSet(x)) /\ Apart(ToSet(c), ToSet(i))
    /\ Apart(ToSet(b), ToSet(x)) /\ Apart(ToSet(b), ToSet(i)) /\ Apart(ToSet(x), ToSet(i))

OnceInv == OnceIn(commands, batch, external, inbox)

\* The type a placement replaces is still there when it is processed, and what is
\* placed is a block.
LightInv ==
    /\ heard = block
    /\ update # None => update.old = update.heard
    /\ \A e \in ToSet(external) \cup ToSet(inbox) : e.type = "BlockPlaced" => e.prev = block[e.pos] /\ e.blk # "air"
    /\ \A c \in ToSet(commands) \cup ToSet(batch) : c.type = "BlockPlaced" => c.blk # "air"

\* The habits by which the light hears of other blocks than there are.
Honest == setup.habits \cap {"races", "set_block", "place_air"} = {}

\* Whoever is to get a tick is the block that asked for it; blocks are placed
\* into air.
TickInv ==
    /\ \A t \in scheduled : block[t.pos] # "air" /\ t.from = age[t.pos]
    /\ \A e \in outbox \cup ToSet(inbox) : \A a \in e.from : block[e.pos] # "air" /\ a = age[e.pos]
    /\ \A p \in registered : block[p] # "air"
    /\ \A c \in ToSet(commands) \cup ToSet(batch) \cup ToSet(external) \cup ToSet(inbox) :
          c.type = "BlockPlaced" => block[c.pos] = "air"
    /\ delivered # None => delivered.age \in delivered.from

IInv ==
    /\ TypeInv /\ StageInv /\ OwedInv /\ ExistInv
    /\ "races" \notin setup.habits => OnceInv
    /\ Honest => LightInv
    /\ setup.habits = {} => TickInv
----------------------------------------------------------------------------
(* Types.                                                                  *)

\* The steps of the session that leave the scheduler and the commands alone.
Quiet ==
    \/ TimePasses \/ StopGameThread \/ StartGameThread \/ WaitForWork \/ AlarmFires
    \/ EndEvents \/ ReadClock \/ EndTicks

\* They leave what the other theorems are about as it is.
LEMMA QuietKeeps ==
    ASSUME Quiet
    PROVE  UNCHANGED <<setup, block, age, subchunks, registered, scheduled, now, external, inbox, outbox, deferred,
                       heard, update, delivered, owed, effects, appeared, commands, batch>>
BY DEF Quiet, TimePasses, StopGameThread, StartGameThread, WaitForWork, AlarmFires, EndEvents, ReadClock,
       EndTicks, schedVars, world, queues, ghosts

\* The steps of the model, by what they touch.
LEMMA Steps ==
    ASSUME [Next]_vars
    PROVE  \/ Quiet \/ DrainCommands \/ ExecuteCommand \/ BeginEvents \/ RunEvents \/ RunTick
           \/ \E c \in Command : Push(c)
           \/ \E p \in Positions : PushFromOutside(Event("BlockUpdate", p))
           \/ \E p \in Positions, t \in Types : Generate(p, t)
           \/ UNCHANGED vars
BY DEF Next, GameThread, Quiet

\* The event that a command becomes changes what the command changes.
LEMMA CommandEvents ==
    ASSUME NEW c \in Command, block \in [Positions -> Types]
    PROVE  /\ EventOf(c) \in ChangeEvent \cup PlainEvent
           /\ EventOf(c).type = c.type /\ EventOf(c).pos = c.pos
           /\ c.type = "BlockPlaced" => EventOf(c).prev = block[c.pos] /\ EventOf(c).blk = c.blk
<1>1. c.type \in {"BlockPlaced", "BlockBroken", "PlayerUse"} /\ c.pos \in Positions /\ c.blk \in Types
  BY DEF Command
<1>2. block[c.pos] \in Types /\ "air" \in Types
  BY <1>1 DEF Types
<1>3. CASE c.type = "BlockPlaced"
  BY <1>1, <1>2, <1>3 DEF EventOf, Placed, BlockPlaced, Event, ChangeEvent, EventIn, ChangeTypes
<1>4. CASE c.type = "BlockBroken"
  BY <1>1, <1>2, <1>4 DEF EventOf, Broken, BlockBroken, Event, ChangeEvent, EventIn, ChangeTypes
<1>5. CASE c.type = "PlayerUse"
  BY <1>1, <1>2, <1>5 DEF EventOf, Event, PlainEvent, EventIn
<1> QED BY <1>1, <1>3, <1>4, <1>5

\* The four ways of processing an event.
LEMMA WaysToProcess ==
    ASSUME ProcessEvent
    PROVE  /\ inbox # <<>> /\ inbox' = Front(inbox)
           /\ UNCHANGED <<setup, now, external, appeared>>
           /\ \/ ~Exists(Last(inbox).pos) /\ ProcessUnloaded(Last(inbox))
              \/ Last(inbox).type = "BlockBroken" /\ ProcessBroken(Last(inbox))
              \/ Last(inbox).type = "BlockPlaced" /\ Exists(Last(inbox).pos) /\ ProcessPlaced(Last(inbox))
              \/ Last(inbox).type \notin ChangeTypes /\ ProcessOther(Last(inbox))
BY DEF ProcessEvent, ChangeTypes

\* An event of the inbox, taken apart.
LEMMA Events ==
    ASSUME NEW e \in AnyEvent
    PROVE  /\ e.pos \in Positions /\ e.blk \in Types /\ e.prev \in Types
           /\ e.faces \in SUBSET Faces /\ e.from \in SUBSET Nat
           /\ e.type \in ChangeTypes => e \in ChangeEvent /\ e.faces = {} /\ e.from = {}
           /\ e.type = "BlockUpdate" => e \in PlainEvent
           /\ e.type \notin TickTypes => e.from = {}
           /\ e.type \in TickTypes => e.faces = {}
<1>1. CASE e \in ChangeEvent
  BY <1>1 DEF ChangeEvent, EventIn, ChangeTypes, TickTypes
<1>2. CASE e \in PlainEvent
  BY <1>2 DEF PlainEvent, EventIn, ChangeTypes, TickTypes, Types
<1>3. CASE e \in NoticeEvent
  BY <1>3 DEF NoticeEvent, EventIn, ChangeTypes, TickTypes, Types
<1>4. CASE e \in TickEvent
  BY <1>4 DEF TickEvent, EventIn, ChangeTypes, TickTypes, Types
<1> QED BY <1>1, <1>2, <1>3, <1>4 DEF AnyEvent, OutEvent

\* Events that come out of the scheduler change no block.
LEMMA OutEvents ==
    ASSUME NEW e \in OutEvent
    PROVE  e \in AnyEvent /\ e.type \notin ChangeTypes
BY DEF OutEvent, AnyEvent, PlainEvent, NoticeEvent, TickEvent, EventIn, ChangeTypes, TickTypes

\* What the processing of an event leaves, whatever its type: it schedules for
\* later, sends no ticks, and owes the faces that were owed and not in the event.
Processed(e) ==
    /\ block' \in [Positions -> Types] /\ heard' \in [Positions -> Types]
    /\ age' \in [Positions -> Nat]
    /\ registered' \in SUBSET Positions /\ subchunks' \in SUBSET Positions
    /\ deferred' \in Seq(PlainEvent)
    /\ scheduled' \in SUBSET ScheduledTick
    /\ \A t \in scheduled' : t \in scheduled \/ t.due > now
    /\ outbox' \in SUBSET OutEvent /\ Merged(outbox')
    /\ \A x \in outbox' : x.type \in TickTypes => x \in outbox
    /\ \A q \in Positions : Carried(outbox, q) \subseteq Carried(outbox', q)
    /\ owed' \in [Positions -> SUBSET Faces]
    /\ \A q \in Positions : owed'[q] \subseteq Seen(e)[q] \cup Carried(outbox', q)

\* What working off one event does, whoever handles it: the facts that the parts
\* of the invariant need of ProcessEvent.
LEMMA ProcessEffects == ASSUME TypeInv, ProcessEvent PROVE Processed(Last(inbox))
<1> DEFINE e == Last(inbox)
           p == e.pos
<1>1. e \in AnyEvent
  <2>1. inbox \in Seq(AnyEvent) /\ inbox # <<>>
    BY WaysToProcess DEF TypeInv
  <2> QED BY <2>1, TakingLast
<1>2. /\ p \in Positions /\ e.blk \in Types
      /\ e.type = "BlockUpdate" => e \in PlainEvent
      /\ e.type \in ChangeTypes => e.faces = {}
  BY <1>1, Events
<1>3. /\ Seen(e) \in [Positions -> SUBSET Faces] /\ owed \in [Positions -> SUBSET Faces]
      /\ e.type \in ChangeTypes => Seen(e) = owed
  BY <1>2 DEF Seen, TypeInv
<1>4. CancelScheduledTicks(p) \in SUBSET scheduled /\ scheduled \in SUBSET ScheduledTick
  BY DEF CancelScheduledTicks, TypeInv
<1>5. /\ block \in [Positions -> Types] /\ heard \in [Positions -> Types] /\ age \in [Positions -> Nat]
      /\ registered \in SUBSET Positions /\ subchunks \in SUBSET Positions /\ now \in Nat
      /\ outbox \in SUBSET OutEvent /\ Merged(outbox) /\ deferred \in Seq(PlainEvent)
      /\ "air" \in Types /\ age[p] \in Nat
  BY <1>2 DEF TypeInv, Types
<1> HIDE DEF p, e
<1> DEFINE Left == /\ age' \in [Positions -> Nat]
                   /\ scheduled' \in SUBSET ScheduledTick
                   /\ \A t \in scheduled' : t \in scheduled \/ t.due > now
                   /\ outbox' \in SUBSET OutEvent /\ Merged(outbox')
                   /\ \A x \in outbox' : x.type \in TickTypes => x \in outbox
                   /\ \A q \in Positions : Carried(outbox, q) \subseteq Carried(outbox', q)
                   /\ owed' \in [Positions -> SUBSET Faces]
                   /\ \A q \in Positions : owed'[q] \subseteq Seen(e)[q] \cup Carried(outbox', q)
<1>6. ASSUME NEW before \in [Positions -> Types], NEW ages \in [Positions -> Nat], NEW free,
             NEW after \in AfterHandler(before, free), NEW ticks \in SUBSET scheduled,
             Handled(p, before, after, ages, ticks, Seen(e))
      PROVE  Left /\ after \in [Positions -> Types]
  <2>1. ticks \in SUBSET ScheduledTick
    BY <1>4
  <2>2. /\ after \in [Positions -> Types]
        /\ ages \in [Positions -> Nat] /\ before \in [Positions -> Types]
        /\ Aged(ages, before, after) \in [Positions -> Nat]
    BY <1>6, BlocksSet
  <2>3. Effects(p, before, after, ages, ticks, Seen(e))
    <3>1. /\ p \in Positions /\ Seen(e) \in [Positions -> SUBSET Faces]
          /\ outbox \in SUBSET OutEvent /\ Merged(outbox) /\ now \in Nat
          /\ Handled(p, before, after, ages, ticks, Seen(e))
      BY <1>2, <1>3, <1>5, <1>6
    <3> QED BY <2>1, <2>2, <3>1, HandlerEffects
  <2> QED BY <2>2, <2>3 DEF Effects
<1>7. ASSUME ProcessUnloaded(e) PROVE Processed(e)
  <2>1. deferred' \in Seq(PlainEvent)
    BY <1>2, <1>5, <1>7, AppendProperties DEF ProcessUnloaded
  <2>2. /\ block' = block /\ heard' = heard /\ age' = age /\ registered' = registered /\ subchunks' = subchunks
        /\ scheduled' = scheduled /\ outbox' = outbox /\ owed' = Seen(e)
    BY <1>7 DEF ProcessUnloaded, world
  <2> QED BY <1>3, <1>4, <1>5, <2>1, <2>2 DEF Processed, Merged
<1>8. ASSUME e.type \in ChangeTypes, ProcessBroken(e) PROVE Processed(e)
  <2>1. PICK after \in AfterHandler(block, {}) :
          /\ Handled(p, block, after, age, CancelScheduledTicks(p), owed)
          /\ block' = [after EXCEPT ![p] = "air"]
    BY <1>8 DEF ProcessBroken, Handled, p
  <2>2. Left /\ after \in [Positions -> Types]
    BY <1>3, <1>4, <1>5, <1>6, <1>8, <2>1
  <2>3. /\ registered' = registered \ {p} /\ subchunks' \subseteq subchunks
        /\ heard' = [heard EXCEPT ![p] = "air"] /\ deferred' = deferred
    BY <1>8 DEF ProcessBroken, EnqueueLighting, p
  <2> QED BY <1>2, <1>5, <2>1, <2>2, <2>3 DEF Processed
<1>9. ASSUME e.type \in ChangeTypes, ProcessPlaced(e) PROVE Processed(e)
  <2>1. PICK placed : placed = [block EXCEPT ![p] = e.blk]
    OBVIOUS
  <2>2. PICK ages : ages = [age EXCEPT ![p] = @ + 1]
    OBVIOUS
  <2>3. placed \in [Positions -> Types] /\ ages \in [Positions -> Nat]
    BY <1>2, <1>5, <2>1, <2>2
  <2>4. PICK after \in AfterHandler(placed, {p}) :
          /\ Handled(p, placed, after, ages, scheduled, owed)
          /\ block' = after
    BY <1>9, <2>1, <2>2 DEF ProcessPlaced, Handled, p
  <2>5. Left /\ after \in [Positions -> Types]
    BY <1>3, <1>4, <1>6, <1>9, <2>3, <2>4
  <2>6. /\ subchunks' \subseteq subchunks /\ deferred' = deferred
        /\ registered' = (registered \ ({p} \ subchunks')) \cup {q \in {p} : WantsGameTicks(block'[q])}
    BY <1>9 DEF ProcessPlaced, p
  <2>7. PICK current \in Types : heard' = [heard EXCEPT ![p] = current]
    <3>1. block'[p] \in Types
      BY <1>2, <2>4, <2>5
    <3> QED BY <1>9, <3>1 DEF ProcessPlaced, EnqueueLighting, FinalType, p
  <2> QED BY <1>2, <1>5, <2>4, <2>5, <2>6, <2>7 DEF Processed
<1>10. ASSUME ProcessOther(e) PROVE Processed(e)
  <2>1. PICK after \in AfterHandler(block, {}) :
          /\ Handled(p, block, after, age, scheduled, Seen(e))
          /\ block' = after
    BY <1>10 DEF ProcessOther, Handled, p
  <2>2. Left /\ after \in [Positions -> Types]
    BY <1>4, <1>5, <1>6, <2>1
  <2>3. UNCHANGED <<subchunks, registered, deferred, heard>>
    BY <1>10 DEF ProcessOther
  <2> QED BY <1>5, <2>1, <2>2, <2>3 DEF Processed
<1> QED BY <1>7, <1>8, <1>9, <1>10, WaysToProcess DEF e, ChangeTypes

\* Processing an event keeps the types.
LEMMA TypesProcess == ASSUME TypeInv, ProcessEvent, UNCHANGED sessionVars PROVE TypeInv'
<1>1. inbox' \in Seq(AnyEvent)
  <2>1. inbox \in Seq(AnyEvent) /\ inbox # <<>> /\ inbox' = Front(inbox)
    BY WaysToProcess DEF TypeInv
  <2> QED BY <2>1, TakingLast
<1>2. UNCHANGED <<setup, now, external, commands, batch>>
  BY WaysToProcess DEF sessionVars
<1> QED BY <1>1, <1>2, ProcessEffects DEF Processed, TypeInv

\* The ticks that a game tick brings: each is asked for by a block whose age it
\* carries, or was scheduled.
LEMMA TicksPushed ==
    ASSUME TypeInv, AdvanceGameTick
    PROVE  \E ticks \in SUBSET TickEvent :
              /\ outbox' = OutboxPushTicks(outbox, ticks)
              /\ \A x \in ticks :
                    \/ x.from = {age[x.pos]} /\ (x.pos \in registered \/ block[x.pos] # "air")
                    \/ \E t \in scheduled : x.pos = t.pos /\ x.from = {t.from}
<1>1. PICK lucky \in SUBSET {p \in Positions : setup.randomTicks /\ block[p] # "air"} :
          outbox' = OutboxPushTicks(outbox, GameTicks
                        \cup {Tick("TickRandom", p, {age[p]}) : p \in lucky}
                        \cup {Tick(t.type, t.pos, {t.from}) : t \in {x \in scheduled : Due(x)}})
  BY DEF AdvanceGameTick
<1>2. PICK ticks : ticks = GameTicks
                        \cup {Tick("TickRandom", p, {age[p]}) : p \in lucky}
                        \cup {Tick(t.type, t.pos, {t.from}) : t \in {x \in scheduled : Due(x)}}
  OBVIOUS
<1>3. ASSUME NEW type \in TickTypes, NEW p \in Positions, NEW n \in Nat
      PROVE  Tick(type, p, {n}) \in TickEvent /\ Tick(type, p, {n}).pos = p /\ Tick(type, p, {n}).from = {n}
  BY DEF Tick, Event, TickEvent, EventIn
<1>4. \A p \in Positions : age[p] \in Nat
  BY DEF TypeInv
<1>5. \A t \in scheduled : t.type \in TickTypes /\ t.pos \in Positions /\ t.from \in Nat
  BY DEF TypeInv, ScheduledTick, TickTypes
<1>6. \A x \in GameTicks : x \in TickEvent /\ x.from = {age[x.pos]} /\ x.pos \in registered
  <2>1. "TickScheduled" \in TickTypes /\ registered \subseteq Positions
    BY DEF TickTypes, TypeInv
  <2>2. ASSUME NEW p \in registered, NEW x, x = Tick("TickScheduled", p, {age[p]})
        PROVE  x \in TickEvent /\ x.from = {age[x.pos]} /\ x.pos \in registered
    <3>1. p \in Positions /\ age[p] \in Nat
      BY <1>4, <2>1
    <3>2. x \in TickEvent /\ x.pos = p /\ x.from = {age[p]}
      BY ONLY <1>3, <2>1, <2>2, <3>1
    <3> QED BY ONLY <2>2, <3>2
  <2> QED BY ONLY <2>2 DEF GameTicks
<1>7. \A x \in {Tick("TickRandom", p, {age[p]}) : p \in lucky} :
         x \in TickEvent /\ x.from = {age[x.pos]} /\ block[x.pos] # "air"
  <2>1. "TickRandom" \in TickTypes
    BY DEF TickTypes
  <2>2. ASSUME NEW p \in lucky, NEW x, x = Tick("TickRandom", p, {age[p]})
        PROVE  x \in TickEvent /\ x.from = {age[x.pos]} /\ block[x.pos] # "air"
    <3>1. p \in Positions /\ age[p] \in Nat /\ block[p] # "air"
      BY <1>4
    <3>2. x \in TickEvent /\ x.pos = p /\ x.from = {age[p]}
      BY ONLY <1>3, <2>1, <2>2, <3>1
    <3> QED BY ONLY <3>1, <3>2
  <2> QED BY ONLY <2>2
<1>8. \A x \in {Tick(t.type, t.pos, {t.from}) : t \in {x \in scheduled : Due(x)}} :
         x \in TickEvent /\ \E t \in scheduled : x.pos = t.pos /\ x.from = {t.from}
  <2>1. ASSUME NEW t \in scheduled, NEW x, x = Tick(t.type, t.pos, {t.from})
        PROVE  x \in TickEvent /\ x.pos = t.pos /\ x.from = {t.from}
    <3>1. t.type \in TickTypes /\ t.pos \in Positions /\ t.from \in Nat
      BY <1>5
    <3> QED BY ONLY <1>3, <2>1, <3>1
  <2>2. ASSUME NEW x \in {Tick(t.type, t.pos, {t.from}) : t \in {y \in scheduled : Due(y)}}
        PROVE  x \in TickEvent /\ \E t \in scheduled : x.pos = t.pos /\ x.from = {t.from}
    <3>1. PICK t \in {y \in scheduled : Due(y)} : x = Tick(t.type, t.pos, {t.from})
      OBVIOUS
    <3>2. t \in scheduled
      OBVIOUS
    <3> QED BY ONLY <2>1, <3>1, <3>2
  <2> QED BY ONLY <2>2
<1>9. /\ ticks \in SUBSET TickEvent
      /\ \A x \in ticks :
            \/ x.from = {age[x.pos]} /\ (x.pos \in registered \/ block[x.pos] # "air")
            \/ \E t \in scheduled : x.pos = t.pos /\ x.from = {t.from}
  BY <1>2, <1>6, <1>7, <1>8
<1>10. outbox' = OutboxPushTicks(outbox, ticks)
  BY <1>1, <1>2
<1> QED BY <1>9, <1>10

\* So does the rest of the game thread's work with the queues.
LEMMA TypesQueues ==
    ASSUME TypeInv, UNCHANGED <<commands, batch>>, SwapOutbox \/ DrainExternalInput \/ AdvanceGameTick
    PROVE  TypeInv'
<1>1. CASE SwapOutbox
  <2>1. inbox' \in SetToSeqs(outbox) /\ outbox' = {}
    BY <1>1 DEF SwapOutbox
  <2>2. inbox' \in Seq(OutEvent)
    <3>1. inbox' \in Seq(outbox)
      BY <2>1, OutboxIsFinite, Listing DEF TypeInv
    <3>2. outbox \subseteq OutEvent
      BY DEF TypeInv
    <3> QED BY <3>1, <3>2, SeqMonotonic
  <2>3. inbox' \in Seq(AnyEvent)
    BY <2>2, SeqMonotonic DEF AnyEvent
  <2> QED BY <1>1, <2>1, <2>3 DEF SwapOutbox, TypeInv, world, ghosts, Merged
<1>2. CASE DrainExternalInput
  <2>1. external \in Seq(AnyEvent)
    <3>1. ChangeEvent \cup PlainEvent \subseteq AnyEvent
      BY DEF AnyEvent, OutEvent
    <3> QED BY <3>1, SeqMonotonic DEF TypeInv
  <2>2. inbox' \in Seq(AnyEvent) /\ external' \in Seq(ChangeEvent \cup PlainEvent)
    BY <1>2, <2>1, ConcatProperties, EmptySeq DEF DrainExternalInput, TypeInv
  <2> QED BY <1>2, <2>2 DEF DrainExternalInput, TypeInv, world, ghosts, Merged
<1>3. CASE AdvanceGameTick
  <2>1. inbox' \in Seq(AnyEvent) /\ deferred' \in Seq(PlainEvent)
    <3>1. PICK es : /\ es \in Deferred({i \in DOMAIN deferred : Exists(deferred[i].pos)})
                    /\ inbox' = inbox \o es
                    /\ deferred' \in Deferred(DOMAIN deferred \ {i \in DOMAIN deferred : Exists(deferred[i].pos)})
      BY <1>3 DEF AdvanceGameTick, ProcessDeferred
    <3>2. es \in Seq(PlainEvent)
      BY <3>1, TakingDeferred DEF TypeInv
    <3>3. deferred' \in Seq(PlainEvent)
      BY <3>1, TakingDeferred DEF TypeInv
    <3>4. es \in Seq(AnyEvent)
      <4>1. PlainEvent \subseteq AnyEvent
        BY DEF AnyEvent, OutEvent
      <4> QED BY <3>2, <4>1, SeqMonotonic
    <3> QED BY <3>1, <3>3, <3>4, ConcatProperties DEF TypeInv
  <2>2. PICK ticks \in SUBSET TickEvent : outbox' = OutboxPushTicks(outbox, ticks)
    BY <1>3, TicksPushed
  <2>4. outbox' \in SUBSET OutEvent /\ Merged(outbox')
    <3>1. PICK b : b = OutboxPushTicks(outbox, ticks)
      OBVIOUS
    <3>2. b \in SUBSET OutEvent /\ Merged(b)
      BY <3>1, PushingTicks DEF TypeInv
    <3>3. outbox' = b
      BY <2>2, <3>1
    <3> QED BY <3>2, <3>3 DEF Merged
  <2>5. now' \in Nat /\ scheduled' \in SUBSET ScheduledTick
    BY <1>3 DEF AdvanceGameTick, TypeInv
  <2> QED BY <1>3, <2>1, <2>4, <2>5 DEF AdvanceGameTick, TypeInv, world, ghosts
<1> QED BY <1>1, <1>2, <1>3

\* Every step of the session keeps the types.
LEMMA TypesNext == ASSUME TypeInv, [Next]_vars PROVE TypeInv'
<1>1. CASE Quiet \/ UNCHANGED vars
  <2>1. UNCHANGED <<setup, block, age, subchunks, registered, scheduled, now, external, inbox, outbox, deferred,
                    heard, update, delivered, owed, effects, appeared, commands, batch>>
    BY <1>1, QuietKeeps DEF vars, schedVars, sessionVars, world, queues, ghosts
  <2> QED BY <2>1 DEF TypeInv, Merged
<1>2. CASE DrainCommands
  BY <1>2, EmptySeq DEF DrainCommands, TypeInv, schedVars, world, queues, ghosts, Merged
<1>3. ASSUME NEW c \in Command, Push(c) PROVE TypeInv'
  <2>1. commands' \in Seq(Command)
    <3>1. commands' = commands \/ commands' = Append(commands, c)
      BY <1>3 DEF Push
    <3>2. commands \in Seq(Command) /\ Append(commands, c) \in Seq(Command)
      BY AppendProperties DEF TypeInv
    <3> QED BY <3>1, <3>2
  <2> QED BY <1>3, <2>1 DEF Push, TypeInv, schedVars, world, queues, ghosts, Merged
<1>4. CASE ExecuteCommand
  <2>1. Head(batch) \in Command /\ batch' \in Seq(Command)
    BY <1>4, HeadTailProperties DEF ExecuteCommand, TypeInv
  <2>2. EventOf(Head(batch)) \in ChangeEvent \cup PlainEvent
    BY <2>1, CommandEvents DEF TypeInv
  <2>3. external' \in Seq(ChangeEvent \cup PlainEvent)
    <3>1. external' = Append(external, EventOf(Head(batch))) /\ external \in Seq(ChangeEvent \cup PlainEvent)
      BY <1>4 DEF ExecuteCommand, PushExternalEvent, TypeInv
    <3> QED BY <2>2, <3>1, AppendProperties
  <2> QED BY <1>4, <2>1, <2>3 DEF ExecuteCommand, PushExternalEvent, TypeInv, world, ghosts, Merged
<1>5. ASSUME NEW p \in Positions, PushFromOutside(Event("BlockUpdate", p)) PROVE TypeInv'
  <2>1. Event("BlockUpdate", p) \in ChangeEvent \cup PlainEvent
    BY DEF Event, PlainEvent, EventIn
  <2>2. external' \in Seq(ChangeEvent \cup PlainEvent)
    <3>1. external' = Append(external, Event("BlockUpdate", p)) /\ external \in Seq(ChangeEvent \cup PlainEvent)
      BY <1>5 DEF PushFromOutside, PushExternalEvent, TypeInv
    <3> QED BY <2>1, <3>1, AppendProperties
  <2> QED BY <1>5, <2>2 DEF PushFromOutside, PushExternalEvent, TypeInv, world, ghosts, Merged
<1>6. ASSUME NEW p \in Positions, NEW t \in Types, Generate(p, t) PROVE TypeInv'
  <2>1. /\ block' \in [Positions -> Types] /\ heard' \in [Positions -> Types]
        /\ age' \in [Positions -> Nat] /\ subchunks' \in SUBSET Positions
    BY <1>6 DEF Generate, Appear, TypeInv
  <2> QED BY <1>6, <2>1 DEF Generate, Appear, sessionVars, queues, TypeInv, Merged
<1>7. CASE BeginEvents \/ RunTick
  <2>1. UNCHANGED <<commands, batch>> /\ (DrainExternalInput \/ AdvanceGameTick)
    BY <1>7 DEF BeginEvents, RunTick
  <2> QED BY <2>1, TypesQueues
<1>8. CASE RunEvents
  <2>1. UNCHANGED sessionVars /\ UNCHANGED <<commands, batch>> /\ (ProcessEvent \/ SwapOutbox)
    BY <1>8 DEF RunEvents, sessionVars
  <2> QED BY <2>1, TypesQueues, TypesProcess
<1> QED BY <1>1, <1>2, <1>3, <1>4, <1>5, <1>6, <1>7, <1>8, Steps
----------------------------------------------------------------------------
(* The stages of the game thread.                                          *)

Busy == {"execute", "events", "tick", "tick events"}

\* Subjects of a union, and of what changes nothing.
LEMMA SubjectsOf ==
    ASSUME NEW S, NEW T
    PROVE  /\ Subjects(S \cup T) = Subjects(S) \cup Subjects(T)
           /\ Subjects({}) = {}
           /\ (\A e \in S : e.type \notin ChangeTypes) => Subjects(S) = {}
           /\ \A e \in S : e.type \in ChangeTypes => e.pos \in Subjects(S)
BY DEF Subjects

\* Plain events change nothing and ask for no tick.
LEMMA PlainQueue ==
    ASSUME NEW s \in Seq(PlainEvent)
    PROVE  Subjects(ToSet(s)) = {} /\ \A e \in ToSet(s) : e.type \notin TickTypes /\ e.from = {} /\ e.type # "BlockPlaced"
<1>1. \A e \in ToSet(s) : e \in PlainEvent
  BY Contents
<1>2. \A e \in PlainEvent : e.type \notin ChangeTypes /\ e.type \notin TickTypes /\ e.from = {} /\ e.type # "BlockPlaced"
  BY DEF PlainEvent, EventIn, ChangeTypes, TickTypes
<1> QED BY <1>1, <1>2, SubjectsOf

\* What comes from outside is no tick.
LEMMA ArrivingQueue ==
    ASSUME NEW s \in Seq(ChangeEvent \cup PlainEvent)
    PROVE  \A e \in ToSet(s) : e.type \notin TickTypes /\ e.from = {} /\ e.faces = {} /\ e.pos \in Positions
<1>1. \A e \in ToSet(s) : e \in ChangeEvent \cup PlainEvent
  BY Contents
<1>2. \A e \in ChangeEvent \cup PlainEvent :
         e.type \notin TickTypes /\ e.from = {} /\ e.faces = {} /\ e.pos \in Positions
  BY DEF ChangeEvent, PlainEvent, EventIn, ChangeTypes, TickTypes
<1> QED BY <1>1, <1>2

\* Where a quiet step leads.
LEMMA QuietMoves ==
    ASSUME Quiet
    PROVE  \/ thread' = thread
           \/ thread \notin Busy /\ thread' \notin Busy
           \/ Stable /\ thread \in {"events", "tick events"} /\ thread' \notin Busy
<1>1. CASE TimePasses \/ StopGameThread
  BY <1>1 DEF TimePasses, StopGameThread, Woken, Busy
<1>2. CASE StartGameThread \/ WaitForWork \/ AlarmFires \/ ReadClock \/ EndTicks
  <2>1. thread \in {"ended", "test", "asleep", "clock", "ticks"}
    BY <1>2 DEF StartGameThread, WaitForWork, AlarmFires, ReadClock, EndTicks
  <2>2. thread' \in {"test", "ended", "asleep", "ticks"} \/ thread' = "drain"
    BY <1>2 DEF StartGameThread, WaitForWork, AlarmFires, ReadClock, EndTicks
  <2> QED BY <2>1, <2>2 DEF Busy
<1>3. CASE EndEvents
  BY <1>3 DEF EndEvents, Busy
<1> QED BY <1>1, <1>2, <1>3 DEF Quiet

\* Changes and ticks stay in their stages: the game thread does not leave one
\* before its queues are empty.
LEMMA StageNext == ASSUME TypeInv, StageInv, [Next]_vars PROVE StageInv'
<1> USE DEF TypeInv
<1>1. CASE Quiet \/ UNCHANGED vars
  <2>1. UNCHANGED <<external, inbox, outbox, batch>>
    BY <1>1, QuietKeeps DEF vars, schedVars, sessionVars, queues
  <2>2. CASE thread' = thread
    BY <2>1, <2>2 DEF StageInv
  <2>3. CASE thread \notin Busy /\ thread' \notin Busy
    BY <2>1, <2>3 DEF StageInv, Busy
  <2>4. CASE Stable /\ thread \in {"events", "tick events"} /\ thread' \notin Busy
    <3>1. inbox = <<>> /\ outbox = {} /\ ToSet(inbox) = {}
      BY <2>4, Contents DEF Stable
    <3> QED BY <2>1, <2>4, <3>1, SubjectsOf DEF StageInv, Busy
  <2> QED BY <1>1, <2>2, <2>3, <2>4, QuietMoves DEF vars, sessionVars
<1>2. CASE DrainCommands
  <2>1. thread = "drain" /\ batch' = commands /\ UNCHANGED <<external, inbox, outbox>>
        /\ thread' = IF commands = <<>> THEN "clock" ELSE "execute"
    BY <1>2 DEF DrainCommands, schedVars, queues
  <2> QED BY <2>1 DEF StageInv
<1>3. ASSUME NEW c \in Command, Push(c) PROVE StageInv'
  <2>1. UNCHANGED <<external, inbox, outbox, batch>>
    BY <1>3 DEF Push, schedVars, queues
  <2>2. thread' = thread \/ (thread \notin Busy /\ thread' \notin Busy)
    BY <1>3 DEF Push, Woken, Busy
  <2> QED BY <2>1, <2>2 DEF StageInv, Busy
<1>4. CASE ExecuteCommand
  BY <1>4 DEF ExecuteCommand, PushExternalEvent, StageInv
<1>5. ASSUME NEW p \in Positions, PushFromOutside(Event("BlockUpdate", p)) PROVE StageInv'
  <2>1. /\ external' = Append(external, Event("BlockUpdate", p))
        /\ UNCHANGED <<inbox, outbox, batch, thread>>
    BY <1>5 DEF PushFromOutside, PushExternalEvent
  <2>2. Event("BlockUpdate", p) \in ChangeEvent \cup PlainEvent /\ Event("BlockUpdate", p).type \notin ChangeTypes
    BY DEF Event, PlainEvent, EventIn, ChangeTypes
  <2>3. ToSet(external') = ToSet(external) \cup {Event("BlockUpdate", p)}
    <3>1. external \in Seq(ChangeEvent \cup PlainEvent)
      OBVIOUS
    <3>2. ToSet(Append(external, Event("BlockUpdate", p))) = ToSet(external) \cup {Event("BlockUpdate", p)}
      BY ONLY <2>2, <3>1, Appending
    <3> QED BY ONLY <2>1, <3>2
  <2>4. Subjects({Event("BlockUpdate", p)}) = {}
    BY <2>2, SubjectsOf
  <2>5. Subjects(ToSet(external')) = Subjects(ToSet(external))
    <3>1. Subjects(ToSet(external) \cup {Event("BlockUpdate", p)})
            = Subjects(ToSet(external)) \cup Subjects({Event("BlockUpdate", p)})
      BY SubjectsOf
    <3> QED BY ONLY <2>3, <2>4, <3>1
  <2> QED BY <2>1, <2>5 DEF StageInv
<1>6. ASSUME NEW p \in Positions, NEW t \in Types, Generate(p, t) PROVE StageInv'
  BY <1>6 DEF Generate, Appear, sessionVars, queues, StageInv
<1>7. CASE BeginEvents
  <2>1. /\ inbox' = inbox \o external /\ external' = <<>> /\ outbox' = outbox /\ batch' = batch
        /\ (thread = "execute" /\ batch = <<>>) \/ thread = "tick"
        /\ thread' = IF thread = "tick" THEN "tick events" ELSE "events"
    BY <1>7 DEF BeginEvents, DrainExternalInput
  <2>2. external \in Seq(AnyEvent)
    <3>1. ChangeEvent \cup PlainEvent \subseteq AnyEvent
      BY DEF AnyEvent, OutEvent
    <3> QED BY <3>1, SeqMonotonic
  <2>3. ToSet(inbox') = ToSet(inbox) \cup ToSet(external)
    <3>1. inbox \in Seq(AnyEvent)
      OBVIOUS
    <3>2. ToSet(inbox \o external) = ToSet(inbox) \cup ToSet(external)
      BY ONLY <2>2, <3>1, Joining
    <3> QED BY ONLY <2>1, <3>2
  <2>4. ToSet(external') = {}
    BY <2>1, EmptySeq, Contents
  <2>5. \A e \in ToSet(external) : e.type \notin TickTypes
    BY ArrivingQueue
  <2>6. Subjects(ToSet(inbox')) = Subjects(ToSet(inbox)) \cup Subjects(ToSet(external))
    BY <2>3, SubjectsOf
  <2> QED BY <2>1, <2>3, <2>4, <2>5, <2>6, SubjectsOf DEF StageInv
<1>8. CASE RunEvents /\ ProcessEvent
  <2>1. /\ UNCHANGED <<external, batch, thread>> /\ thread \in {"events", "tick events"}
        /\ inbox # <<>> /\ inbox' = Front(inbox)
    BY <1>8, WaysToProcess DEF RunEvents, sessionVars
  <2>2. ToSet(inbox) = ToSet(inbox') \cup {Last(inbox)}
    BY <2>1, TakingLast
  <2>3. Subjects(ToSet(inbox')) \subseteq Subjects(ToSet(inbox))
    BY <2>2, SubjectsOf
  <2>4. \A x \in outbox' : x.type \in TickTypes => x \in outbox
    BY <1>8, ProcessEffects DEF Processed
  <2> QED BY <2>1, <2>2, <2>3, <2>4 DEF StageInv
<1>9. CASE RunEvents /\ SwapOutbox
  <2>1. /\ UNCHANGED <<external, batch, thread>> /\ thread \in {"events", "tick events"}
        /\ inbox' \in SetToSeqs(outbox) /\ outbox' = {}
    BY <1>9 DEF RunEvents, SwapOutbox, sessionVars
  <2>2. ToSet(inbox') = outbox
    BY <2>1, OutboxIsFinite, Listing
  <2>3. Subjects(ToSet(inbox')) = {}
    <3>1. \A e \in ToSet(inbox') : e.type \notin ChangeTypes
      BY <2>2, OutEvents
    <3> QED BY <3>1, SubjectsOf
  <2> QED BY <2>1, <2>2, <2>3 DEF StageInv
<1>10. CASE RunTick
  <2>1. /\ UNCHANGED <<external, batch>> /\ thread = "ticks" /\ thread' = "tick"
        /\ \E es \in Deferred({i \in DOMAIN deferred : Exists(deferred[i].pos)}) : inbox' = inbox \o es
    BY <1>10 DEF RunTick, AdvanceGameTick, ProcessDeferred
  <2>2. PICK es \in Seq(PlainEvent) : inbox' = inbox \o es
    BY <2>1, TakingDeferred
  <2>3. es \in Seq(AnyEvent)
    <3>1. PlainEvent \subseteq AnyEvent
      BY DEF AnyEvent, OutEvent
    <3> QED BY <3>1, SeqMonotonic
  <2>4. ToSet(inbox') = ToSet(inbox) \cup ToSet(es)
    BY <2>2, <2>3, Joining
  <2>5. Subjects(ToSet(inbox')) = Subjects(ToSet(inbox)) \cup Subjects(ToSet(es))
    BY <2>4, SubjectsOf
  <2>6. Subjects(ToSet(es)) = {} /\ \A e \in ToSet(es) : e.type \notin TickTypes
    BY <2>2, PlainQueue
  <2> QED BY <2>1, <2>4, <2>5, <2>6 DEF StageInv
<1> QED BY <1>1, <1>2, <1>3, <1>4, <1>5, <1>6, <1>7, <1>8, <1>9, <1>10, Steps DEF RunEvents
----------------------------------------------------------------------------
(* Faces.                                                                  *)

\* What a union, one event and a subset carry.
LEMMA CarriedBy ==
    ASSUME NEW S, NEW T, NEW q, NEW e
    PROVE  /\ Carried(S \cup T, q) = Carried(S, q) \cup Carried(T, q)
           /\ Carried({}, q) = {}
           /\ Carried({e}, q) = IF e.pos = q THEN e.faces ELSE {}
           /\ S \subseteq T => Carried(S, q) \subseteq Carried(T, q)
BY DEF Carried

\* Processing an event takes away what it brought and owes nothing that is not
\* in the outbox.
LEMMA ProcessPaysFaces ==
    ASSUME TypeInv, ProcessEvent, NEW q \in Positions
    PROVE  /\ owed'[q] \subseteq (owed[q] \ Carried({Last(inbox)}, q)) \cup Carried(outbox', q)
           /\ Carried(outbox, q) \subseteq Carried(outbox', q)
<1> DEFINE e == Last(inbox)
<1>1. e.pos \in Positions
  <2>1. inbox \in Seq(AnyEvent) /\ inbox # <<>>
    BY WaysToProcess DEF TypeInv
  <2>2. e \in AnyEvent
    BY <2>1, TakingLast
  <2> QED BY <2>2, Events
<1>2. Carried({e}, q) = IF e.pos = q THEN e.faces ELSE {}
  BY CarriedBy
<1>3. Seen(e)[q] = IF e.pos = q THEN owed[q] \ e.faces ELSE owed[q]
  BY <1>1 DEF Seen, TypeInv
<1>4. /\ owed'[q] \subseteq Seen(e)[q] \cup Carried(outbox', q)
      /\ Carried(outbox, q) \subseteq Carried(outbox', q)
  BY ProcessEffects DEF Processed
<1> QED BY <1>2, <1>3, <1>4

\* What no other step touches.
LEMMA OtherSteps ==
    ASSUME [Next]_vars
    PROVE  \/ BeginEvents \/ RunTick
           \/ ProcessEvent /\ RunEvents
           \/ SwapOutbox /\ RunEvents
           \/ UNCHANGED <<owed, outbox, inbox>>
<1>1. CASE Quiet
  BY <1>1, QuietKeeps
<1>2. CASE UNCHANGED vars
  BY <1>2 DEF vars, schedVars, queues, ghosts
<1>3. CASE DrainCommands
  BY <1>3 DEF DrainCommands, schedVars, queues, ghosts
<1>4. CASE ExecuteCommand
  BY <1>4 DEF ExecuteCommand, PushExternalEvent, ghosts
<1>5. ASSUME NEW c \in Command, Push(c) PROVE UNCHANGED <<owed, outbox, inbox>>
  BY <1>5 DEF Push, schedVars, queues, ghosts
<1>6. ASSUME NEW p \in Positions, PushFromOutside(Event("BlockUpdate", p)) PROVE UNCHANGED <<owed, outbox, inbox>>
  BY <1>6 DEF PushFromOutside, PushExternalEvent, ghosts
<1>7. ASSUME NEW p \in Positions, NEW t \in Types, Generate(p, t) PROVE UNCHANGED <<owed, outbox, inbox>>
  BY <1>7 DEF Generate, Appear, queues
<1>8. CASE RunEvents
  BY <1>8 DEF RunEvents
<1> QED BY <1>1, <1>2, <1>3, <1>4, <1>5, <1>6, <1>7, <1>8, Steps

\* Faces that are owed stay on their way until a handler has seen them.
LEMMA OwedNext == ASSUME TypeInv, OwedInv, [Next]_vars PROVE OwedInv'
<1> SUFFICES ASSUME NEW q \in Positions
             PROVE  owed'[q] \subseteq Carried(outbox', q) \cup Carried(ToSet(inbox'), q)
  BY DEF OwedInv
<1>1. owed[q] \subseteq Carried(outbox, q) \cup Carried(ToSet(inbox), q)
  BY DEF OwedInv
<1>2. inbox \in Seq(AnyEvent) /\ outbox \in SUBSET OutEvent /\ Merged(outbox)
  BY DEF TypeInv
<1>3. CASE UNCHANGED <<owed, outbox, inbox>>
  BY <1>1, <1>3
<1>4. CASE BeginEvents
  <2>1. inbox' = inbox \o external /\ UNCHANGED <<owed, outbox>>
    BY <1>4 DEF BeginEvents, DrainExternalInput, ghosts
  <2>2. external \in Seq(AnyEvent)
    <3>1. ChangeEvent \cup PlainEvent \subseteq AnyEvent
      BY DEF AnyEvent, OutEvent
    <3> QED BY <3>1, SeqMonotonic DEF TypeInv
  <2>3. ToSet(inbox \o external) = ToSet(inbox) \cup ToSet(external)
    BY <1>2, <2>2, Joining
  <2>4. Carried(ToSet(inbox), q) \subseteq Carried(ToSet(inbox \o external), q)
    BY <2>3, CarriedBy
  <2> QED BY <1>1, <2>1, <2>4
<1>5. CASE ProcessEvent
  <2>1. inbox # <<>> /\ inbox' = Front(inbox)
    BY <1>5, WaysToProcess
  <2>2. ToSet(inbox) = ToSet(Front(inbox)) \cup {Last(inbox)}
    BY <1>2, <2>1, TakingLast
  <2>3. Carried(ToSet(inbox), q) = Carried(ToSet(Front(inbox)), q) \cup Carried({Last(inbox)}, q)
    <3>1. Carried(ToSet(Front(inbox)) \cup {Last(inbox)}, q)
            = Carried(ToSet(Front(inbox)), q) \cup Carried({Last(inbox)}, q)
      BY CarriedBy
    <3> QED BY ONLY <2>2, <3>1
  <2>4. /\ owed'[q] \subseteq (owed[q] \ Carried({Last(inbox)}, q)) \cup Carried(outbox', q)
        /\ Carried(outbox, q) \subseteq Carried(outbox', q)
    BY <1>5, ProcessPaysFaces
  <2> QED BY <1>1, <2>1, <2>3, <2>4
<1>6. CASE SwapOutbox
  <2>1. inbox = <<>> /\ inbox' \in SetToSeqs(outbox) /\ outbox' = {} /\ owed' = owed
    BY <1>6 DEF SwapOutbox, ghosts
  <2>2. ToSet(inbox') = outbox
    BY <1>2, <2>1, OutboxIsFinite, Listing
  <2>3. Carried(ToSet(inbox), q) = {}
    BY <1>2, <2>1, Contents, CarriedBy
  <2> QED BY <1>1, <2>1, <2>2, <2>3
<1>7. CASE RunTick
  <2>1. /\ owed' = owed
        /\ \E es \in Deferred({i \in DOMAIN deferred : Exists(deferred[i].pos)}) : inbox' = inbox \o es
    BY <1>7 DEF RunTick, AdvanceGameTick, ProcessDeferred, ghosts
  <2>2. PICK es \in Seq(PlainEvent) : inbox' = inbox \o es
    BY <2>1, TakingDeferred DEF TypeInv
  <2>3. es \in Seq(AnyEvent)
    <3>1. PlainEvent \subseteq AnyEvent
      BY DEF AnyEvent, OutEvent
    <3> QED BY <3>1, SeqMonotonic
  <2>4. ToSet(inbox \o es) = ToSet(inbox) \cup ToSet(es)
    BY <1>2, <2>3, Joining
  <2>5. Carried(ToSet(inbox), q) \subseteq Carried(ToSet(inbox \o es), q)
    BY <2>4, CarriedBy
  <2>6. Carried(outbox, q) \subseteq Carried(outbox', q)
    <3>1. PICK ticks \in SUBSET TickEvent : outbox' = OutboxPushTicks(outbox, ticks)
      BY <1>7, TicksPushed DEF RunTick
    <3> QED BY <1>2, <3>1, PushingTicks
  <2> QED BY <1>1, <2>1, <2>2, <2>5, <2>6
<1> QED BY <1>3, <1>4, <1>5, <1>6, <1>7, OtherSteps
----------------------------------------------------------------------------
(* One change of a position at a time.                                     *)

\* Whoever is not commanded is no subject of what is on its way.
LEMMA NotCommanded ==
    ASSUME NEW p, ~Commanded(p)
    PROVE  /\ p \notin Subjects(ToSet(commands)) /\ p \notin Subjects(ToSet(batch))
           /\ p \notin Subjects(ToSet(external)) /\ p \notin Subjects(ToSet(inbox))
BY DEF Commanded, Pending, Subjects, ChangeTypes

\* The empty queue has no subject.
LEMMA NothingThere == OncePerPosition(<<>>) /\ ToSet(<<>>) = {} /\ Subjects(ToSet(<<>>)) = {}
<1>1. <<>> \in Seq({})
  BY EmptySeq
<1>2. ToSet(<<>>) = {}
  BY <1>1, Contents
<1>3. OncePerPosition(<<>>)
  BY DEF OncePerPosition
<1> QED BY <1>2, <1>3, SubjectsOf

\* What one more element adds to the subjects.
LEMMA SubjectAdded ==
    ASSUME NEW S, NEW e
    PROVE  Subjects(S \cup {e}) = Subjects(S) \cup (IF e.type \in ChangeTypes THEN {e.pos} ELSE {})
BY DEF Subjects

\* A position that is the subject of a change becomes that of no second one.
LEMMA OnceNext == ASSUME TypeInv, OnceInv, "races" \notin setup.habits, [Next]_vars PROVE OnceInv'
<1> DEFINE C == Subjects(ToSet(commands))
           B == Subjects(ToSet(batch))
           X == Subjects(ToSet(external))
           I == Subjects(ToSet(inbox))
<1>1. /\ commands \in Seq(Command) /\ batch \in Seq(Command)
      /\ external \in Seq(ChangeEvent \cup PlainEvent) /\ external \in Seq(AnyEvent)
      /\ inbox \in Seq(AnyEvent)
  <2>1. ChangeEvent \cup PlainEvent \subseteq AnyEvent
    BY DEF AnyEvent, OutEvent
  <2> QED BY <2>1, SeqMonotonic DEF TypeInv
<1>2. /\ OncePerPosition(commands) /\ OncePerPosition(batch)
      /\ OncePerPosition(external) /\ OncePerPosition(inbox)
      /\ C \cap B = {} /\ C \cap X = {} /\ C \cap I = {} /\ B \cap X = {} /\ B \cap I = {} /\ X \cap I = {}
  BY DEF OnceInv, OnceIn, Apart
<1>3. ASSUME NEW c, NEW b, NEW x, NEW i,
             OncePerPosition(c), OncePerPosition(b), OncePerPosition(x), OncePerPosition(i),
             Subjects(ToSet(c)) \cap Subjects(ToSet(b)) = {}, Subjects(ToSet(c)) \cap Subjects(ToSet(x)) = {},
             Subjects(ToSet(c)) \cap Subjects(ToSet(i)) = {}, Subjects(ToSet(b)) \cap Subjects(ToSet(x)) = {},
             Subjects(ToSet(b)) \cap Subjects(ToSet(i)) = {}, Subjects(ToSet(x)) \cap Subjects(ToSet(i)) = {}
      PROVE  OnceIn(c, b, x, i)
  BY <1>3 DEF OnceIn, Apart
<1>4. CASE UNCHANGED <<commands, batch, external, inbox>>
  BY <1>4 DEF OnceInv
<1>5. ASSUME NEW c \in Command, Push(c) PROVE OnceInv'
  <2>1. UNCHANGED <<batch, external, inbox>> /\ (commands' = commands \/ commands' = Append(commands, c))
    BY <1>5 DEF Push, schedVars, queues
  <2>2. c.type \in ChangeTypes => c.pos \notin C /\ c.pos \notin B /\ c.pos \notin X /\ c.pos \notin I
    <3>1. c.type = "PlayerUse" \/ ~Commanded(c.pos)
      BY <1>5 DEF Push, Accepted
    <3> QED BY <3>1, NotCommanded DEF ChangeTypes
  <2>3. /\ ToSet(Append(commands, c)) = ToSet(commands) \cup {c}
        /\ OncePerPosition(Append(commands, c))
    BY <1>1, <1>2, <2>2, Appending
  <2>4. Subjects(ToSet(Append(commands, c))) = C \cup (IF c.type \in ChangeTypes THEN {c.pos} ELSE {})
    BY <2>3, SubjectAdded
  <2>5. OnceIn(Append(commands, c), batch, external, inbox)
    <3> HIDE DEF C, B, X, I
    <3>1. /\ Subjects(ToSet(Append(commands, c))) \cap B = {}
          /\ Subjects(ToSet(Append(commands, c))) \cap X = {}
          /\ Subjects(ToSet(Append(commands, c))) \cap I = {}
      BY <1>2, <2>2, <2>4
    <3> QED BY <1>2, <1>3, <2>3, <3>1 DEF C, B, X, I
  <2> QED BY <2>1, <2>5 DEF OnceInv
<1>6. CASE DrainCommands
  <2>1. batch' = commands /\ commands' = <<>> /\ external' = external /\ inbox' = inbox
    BY <1>6 DEF DrainCommands, schedVars, queues
  <2>2. OnceIn(<<>>, commands, external, inbox)
    BY <1>2, <1>3, NothingThere
  <2> QED BY <2>1, <2>2 DEF OnceInv
<1>7. CASE ExecuteCommand
  <2> DEFINE h == Head(batch)
             e == EventOf(h)
  <2>1. /\ batch # <<>> /\ batch' = Tail(batch) /\ external' = Append(external, e)
        /\ commands' = commands /\ inbox' = inbox
    BY <1>7 DEF ExecuteCommand, PushExternalEvent
  <2>2. /\ ToSet(batch) = ToSet(Tail(batch)) \cup {h}
        /\ h \in Command
        /\ OncePerPosition(Tail(batch))
        /\ h.type \in ChangeTypes => h.pos \notin Subjects(ToSet(Tail(batch)))
    BY <1>1, <1>2, <2>1, TakingFirst
  <2>3. B = Subjects(ToSet(Tail(batch))) \cup (IF h.type \in ChangeTypes THEN {h.pos} ELSE {})
    <3>1. Subjects(ToSet(Tail(batch)) \cup {h})
            = Subjects(ToSet(Tail(batch))) \cup (IF h.type \in ChangeTypes THEN {h.pos} ELSE {})
      BY SubjectAdded
    <3> QED BY ONLY <2>2, <3>1
  <2>4. e \in ChangeEvent \cup PlainEvent /\ e.type = h.type /\ e.pos = h.pos
    BY <2>2, CommandEvents DEF TypeInv
  <2> HIDE DEF e, h
  <2>5. e.type \in ChangeTypes => e.pos \notin X
    BY <1>2, <2>3, <2>4
  <2>6. /\ ToSet(Append(external, e)) = ToSet(external) \cup {e}
        /\ OncePerPosition(Append(external, e))
    BY <1>1, <1>2, <2>4, <2>5, Appending
  <2>7. Subjects(ToSet(Append(external, e))) = X \cup (IF e.type \in ChangeTypes THEN {e.pos} ELSE {})
    BY <2>6, SubjectAdded
  <2>8. OnceIn(commands, Tail(batch), Append(external, e), inbox)
    <3> HIDE DEF C, B, X, I
    <3>1. /\ C \cap Subjects(ToSet(Tail(batch))) = {}
          /\ C \cap Subjects(ToSet(Append(external, e))) = {}
          /\ Subjects(ToSet(Tail(batch))) \cap Subjects(ToSet(Append(external, e))) = {}
          /\ Subjects(ToSet(Tail(batch))) \cap I = {}
          /\ Subjects(ToSet(Append(external, e))) \cap I = {}
      BY <1>2, <2>2, <2>3, <2>4, <2>7
    <3> QED BY <1>2, <1>3, <2>2, <2>6, <3>1 DEF C, B, X, I
  <2> QED BY <2>1, <2>8 DEF OnceInv
<1>8. ASSUME NEW p \in Positions, PushFromOutside(Event("BlockUpdate", p)) PROVE OnceInv'
  <2> DEFINE e == Event("BlockUpdate", p)
  <2>1. /\ external' = Append(external, e)
        /\ UNCHANGED <<inbox, batch, commands>>
    BY <1>8 DEF PushFromOutside, PushExternalEvent
  <2>2. e \in ChangeEvent \cup PlainEvent /\ e.type \notin ChangeTypes
    BY DEF Event, PlainEvent, EventIn, ChangeTypes
  <2> HIDE DEF e
  <2>3. /\ ToSet(Append(external, e)) = ToSet(external) \cup {e}
        /\ OncePerPosition(Append(external, e))
    BY <1>1, <1>2, <2>2, Appending
  <2>4. Subjects(ToSet(Append(external, e))) = X
    BY <2>2, <2>3, SubjectAdded
  <2>5. OnceIn(commands, batch, Append(external, e), inbox)
    BY <1>2, <1>3, <2>3, <2>4
  <2> QED BY <2>1, <2>5 DEF OnceInv
<1>9. CASE BeginEvents
  <2>1. /\ inbox' = inbox \o external /\ external' = <<>> /\ UNCHANGED <<commands, batch>>
    BY <1>9 DEF BeginEvents, DrainExternalInput
  <2>2. /\ ToSet(inbox \o external) = ToSet(inbox) \cup ToSet(external)
        /\ OncePerPosition(inbox \o external)
    <3>1. Apart(ToSet(inbox), ToSet(external))
      BY <1>2 DEF Apart
    <3> QED BY <1>1, <1>2, <3>1, Joining
  <2>3. Subjects(ToSet(inbox \o external)) = I \cup X
    BY <2>2, SubjectsOf
  <2>4. OnceIn(commands, batch, <<>>, inbox \o external)
    <3> HIDE DEF C, B, X, I
    <3>1. C \cap Subjects(ToSet(inbox \o external)) = {} /\ B \cap Subjects(ToSet(inbox \o external)) = {}
      BY <1>2, <2>3
    <3> QED BY <1>2, <1>3, <2>2, <3>1, NothingThere DEF C, B, X, I
  <2> QED BY <2>1, <2>4 DEF OnceInv
<1>10. ASSUME NEW i \in Seq(AnyEvent), inbox' = i, UNCHANGED <<commands, batch, external>>,
              OncePerPosition(i), Subjects(ToSet(i)) \subseteq I
       PROVE  OnceInv'
  <2>1. OnceIn(commands, batch, external, i)
    <3> HIDE DEF C, B, X, I
    <3>1. C \cap Subjects(ToSet(i)) = {} /\ B \cap Subjects(ToSet(i)) = {} /\ X \cap Subjects(ToSet(i)) = {}
      BY <1>2, <1>10
    <3> QED BY <1>2, <1>3, <1>10, <3>1 DEF C, B, X, I
  <2> QED BY <1>10, <2>1 DEF OnceInv
<1>11. CASE ProcessEvent /\ RunEvents
  <2>1. inbox # <<>> /\ inbox' = Front(inbox) /\ UNCHANGED <<commands, batch, external>>
    BY <1>11, WaysToProcess DEF RunEvents, sessionVars
  <2>2. /\ Front(inbox) \in Seq(AnyEvent)
        /\ ToSet(inbox) = ToSet(Front(inbox)) \cup {Last(inbox)}
        /\ OncePerPosition(Front(inbox))
    BY <1>1, <1>2, <2>1, TakingLast
  <2>3. Subjects(ToSet(Front(inbox))) \subseteq I
    BY <2>2, SubjectsOf
  <2> QED BY <1>10, <2>1, <2>2, <2>3
<1>12. CASE SwapOutbox /\ RunEvents
  <2>1. inbox' \in SetToSeqs(outbox) /\ UNCHANGED <<commands, batch, external>>
    BY <1>12 DEF SwapOutbox, RunEvents, sessionVars
  <2>2. PICK i \in SetToSeqs(outbox) : inbox' = i
    BY <2>1
  <2>3. \A e \in outbox : e \in AnyEvent /\ e.type \notin ChangeTypes
    BY OutEvents DEF TypeInv
  <2>4. i \in Seq(outbox) /\ ToSet(i) = outbox /\ OncePerPosition(i)
    <3>1. IsFiniteSet(outbox)
      BY OutboxIsFinite DEF TypeInv
    <3> QED BY <2>2, <2>3, <3>1, Listing
  <2>5. i \in Seq(AnyEvent)
    <3>1. outbox \subseteq AnyEvent
      BY <2>3
    <3> QED BY <2>4, <3>1, SeqMonotonic
  <2>6. Subjects(ToSet(i)) = {}
    BY <2>3, <2>4, SubjectsOf
  <2> QED BY <1>10, <2>1, <2>2, <2>4, <2>5, <2>6
<1>13. CASE RunTick
  <2>1. /\ UNCHANGED <<commands, batch, external>>
        /\ \E es \in Deferred({i \in DOMAIN deferred : Exists(deferred[i].pos)}) : inbox' = inbox \o es
    BY <1>13 DEF RunTick, AdvanceGameTick, ProcessDeferred
  <2>2. PICK es \in Seq(PlainEvent) : inbox' = inbox \o es /\ OncePerPosition(es)
    BY <2>1, TakingDeferred DEF TypeInv
  <2>3. es \in Seq(AnyEvent)
    <3>1. PlainEvent \subseteq AnyEvent
      BY DEF AnyEvent, OutEvent
    <3> QED BY <3>1, SeqMonotonic
  <2>4. Subjects(ToSet(es)) = {}
    BY PlainQueue
  <2>5. /\ inbox \o es \in Seq(AnyEvent)
        /\ ToSet(inbox \o es) = ToSet(inbox) \cup ToSet(es)
        /\ OncePerPosition(inbox \o es)
    <3>1. Apart(ToSet(inbox), ToSet(es))
      BY <2>4 DEF Apart
    <3> QED BY <1>1, <1>2, <2>2, <2>3, <3>1, Joining
  <2>6. Subjects(ToSet(inbox \o es)) = I
    <3>1. Subjects(ToSet(inbox) \cup ToSet(es)) = I \cup Subjects(ToSet(es))
      BY SubjectsOf
    <3> QED BY ONLY <2>4, <2>5, <3>1
  <2> QED BY <1>10, <2>1, <2>2, <2>5, <2>6
<1>14. ASSUME NEW p \in Positions, NEW t \in Types, Generate(p, t) PROVE UNCHANGED <<commands, batch, external, inbox>>
  BY <1>14 DEF Generate, Appear, queues, sessionVars
<1>15. CASE Quiet
  BY <1>15, QuietKeeps, <1>4
<1>16. CASE UNCHANGED vars
  BY <1>16, <1>4 DEF vars, schedVars, queues, sessionVars
<1> QED BY <1>4, <1>5, <1>6, <1>7, <1>8, <1>9, <1>11, <1>12, <1>13, <1>14, <1>15, <1>16, Steps DEF RunEvents
----------------------------------------------------------------------------
(* What is told of the blocks.                                             *)

\* Unless an event is processed or a block appears, no block changes, and what
\* comes into the queues is plain, out of the outbox or an accepted command.
LEMMA Arrivals ==
    ASSUME TypeInv, [Next]_vars
    PROVE  \/ ProcessEvent /\ RunEvents
           \/ \E p \in Positions, t \in Types : Generate(p, t)
           \/ /\ UNCHANGED <<setup, block, age, subchunks, registered, heard, update, delivered>>
              /\ \A e \in ToSet(external') \cup ToSet(inbox') :
                    \/ e \in ToSet(external) \cup ToSet(inbox) \cup PlainEvent
                    \/ e \in outbox
                    \/ \E c \in ToSet(batch) : e = EventOf(c)
              /\ \A c \in ToSet(commands') \cup ToSet(batch') :
                    c \in ToSet(commands) \cup ToSet(batch) \/ Accepted(c)
              /\ scheduled' \subseteq scheduled
              /\ \A x \in outbox' : \A a \in x.from :
                    \/ \E y \in outbox : y.pos = x.pos /\ a \in y.from
                    \/ \E t \in scheduled : t.pos = x.pos /\ a = t.from
                    \/ a = age[x.pos] /\ (x.pos \in registered \/ block[x.pos] # "air")
<1>1. /\ commands \in Seq(Command) /\ batch \in Seq(Command)
      /\ external \in Seq(ChangeEvent \cup PlainEvent) /\ external \in Seq(AnyEvent)
      /\ inbox \in Seq(AnyEvent) /\ outbox \in SUBSET OutEvent /\ Merged(outbox)
  <2>1. ChangeEvent \cup PlainEvent \subseteq AnyEvent
    BY DEF AnyEvent, OutEvent
  <2> QED BY <2>1, SeqMonotonic DEF TypeInv
<1> DEFINE Coming == \A e \in ToSet(external') \cup ToSet(inbox') :
                        \/ e \in ToSet(external) \cup ToSet(inbox) \cup PlainEvent
                        \/ e \in outbox
                        \/ \E c \in ToSet(batch) : e = EventOf(c)
           Commands == \A c \in ToSet(commands') \cup ToSet(batch') :
                          c \in ToSet(commands) \cup ToSet(batch) \/ Accepted(c)
           Still == UNCHANGED <<setup, block, age, subchunks, registered, heard, update, delivered>>
           Asked == \A x \in outbox' : \A a \in x.from :
                       \/ \E y \in outbox : y.pos = x.pos /\ a \in y.from
                       \/ \E t \in scheduled : t.pos = x.pos /\ a = t.from
                       \/ a = age[x.pos] /\ (x.pos \in registered \/ block[x.pos] # "air")
<1>2. CASE Quiet \/ UNCHANGED vars
  <2>1. Still /\ UNCHANGED <<external, inbox, outbox, commands, batch, scheduled>>
    BY <1>2, QuietKeeps DEF vars, schedVars, world, queues, ghosts, sessionVars
  <2> QED BY <2>1
<1>3. ASSUME NEW c \in Command, Push(c) PROVE Still /\ Coming /\ Commands /\ scheduled' = scheduled /\ outbox' = outbox
  <2>1. /\ Still /\ UNCHANGED <<external, inbox, outbox, batch, scheduled>> /\ Accepted(c)
        /\ (commands' = commands \/ commands' = Append(commands, c))
    BY <1>3 DEF Push, schedVars, world, queues, ghosts
  <2>2. ToSet(Append(commands, c)) = ToSet(commands) \cup {c}
    BY <1>1, Appending
  <2> QED BY <2>1, <2>2
<1>4. CASE DrainCommands
  <2>1. Still /\ UNCHANGED <<external, inbox, outbox, scheduled>> /\ batch' = commands /\ commands' = <<>>
    BY <1>4 DEF DrainCommands, schedVars, world, queues, ghosts
  <2>2. ToSet(batch') = ToSet(commands) /\ ToSet(commands') = {}
    BY <2>1, NothingThere
  <2> QED BY <2>1, <2>2
<1>5. CASE ExecuteCommand
  <2> DEFINE h == Head(batch)
  <2>1. /\ Still /\ UNCHANGED <<inbox, outbox, scheduled, commands>>
        /\ batch # <<>> /\ batch' = Tail(batch) /\ external' = Append(external, EventOf(h))
    BY <1>5 DEF ExecuteCommand, PushExternalEvent, world, ghosts
  <2>2. ToSet(batch) = ToSet(Tail(batch)) \cup {h} /\ h \in Command
    BY <1>1, <2>1, TakingFirst
  <2>3. EventOf(h) \in ChangeEvent \cup PlainEvent
    BY <2>2, CommandEvents DEF TypeInv
  <2> HIDE DEF h
  <2>4. ToSet(Append(external, EventOf(h))) = ToSet(external) \cup {EventOf(h)}
    BY <1>1, <2>3, Appending
  <2> QED BY <2>1, <2>2, <2>4
<1>6. ASSUME NEW p \in Positions, PushFromOutside(Event("BlockUpdate", p))
      PROVE  Still /\ Coming /\ Commands /\ scheduled' = scheduled /\ outbox' = outbox
  <2> DEFINE e == Event("BlockUpdate", p)
  <2>1. /\ Still /\ UNCHANGED <<inbox, outbox, scheduled, commands, batch>> /\ external' = Append(external, e)
    BY <1>6 DEF PushFromOutside, PushExternalEvent, world, ghosts
  <2>2. e \in PlainEvent /\ e \in ChangeEvent \cup PlainEvent
    BY DEF Event, PlainEvent, EventIn
  <2> HIDE DEF e
  <2>3. ToSet(Append(external, e)) = ToSet(external) \cup {e}
    BY <1>1, <2>2, Appending
  <2> QED BY <2>1, <2>2, <2>3
<1>7. CASE BeginEvents
  <2>1. /\ Still /\ UNCHANGED <<outbox, scheduled, commands, batch>>
        /\ inbox' = inbox \o external /\ external' = <<>>
    BY <1>7 DEF BeginEvents, DrainExternalInput, world, ghosts
  <2>2. ToSet(inbox \o external) = ToSet(inbox) \cup ToSet(external)
    BY <1>1, Joining
  <2> QED BY <2>1, <2>2, NothingThere
<1>8. CASE SwapOutbox /\ RunEvents
  <2>1. /\ Still /\ UNCHANGED <<external, scheduled, commands, batch>>
        /\ inbox' \in SetToSeqs(outbox) /\ outbox' = {}
    BY <1>8 DEF SwapOutbox, RunEvents, world, ghosts, sessionVars
  <2>2. ToSet(inbox') = outbox
    BY <1>1, <2>1, OutboxIsFinite, Listing
  <2> QED BY <2>1, <2>2
<1>9. CASE RunTick
  <2>1. /\ Still /\ UNCHANGED <<external, commands, batch>> /\ scheduled' \subseteq scheduled
        /\ \E es \in Deferred({i \in DOMAIN deferred : Exists(deferred[i].pos)}) : inbox' = inbox \o es
    BY <1>9 DEF RunTick, AdvanceGameTick, ProcessDeferred, world, ghosts
  <2>2. PICK es \in Seq(PlainEvent) : inbox' = inbox \o es
    BY <2>1, TakingDeferred DEF TypeInv
  <2>3. es \in Seq(AnyEvent) /\ ToSet(es) \subseteq PlainEvent
    <3>1. PlainEvent \subseteq AnyEvent
      BY DEF AnyEvent, OutEvent
    <3> QED BY <3>1, SeqMonotonic, Contents
  <2>4. ToSet(inbox \o es) = ToSet(inbox) \cup ToSet(es)
    BY <1>1, <2>3, Joining
  <2>5. PICK ticks \in SUBSET TickEvent :
           /\ outbox' = OutboxPushTicks(outbox, ticks)
           /\ \A x \in ticks :
                 \/ x.from = {age[x.pos]} /\ (x.pos \in registered \/ block[x.pos] # "air")
                 \/ \E t \in scheduled : x.pos = t.pos /\ x.from = {t.from}
    BY <1>9, TicksPushed DEF RunTick
  <2>6. \A x \in outbox' : \A a \in x.from : \E y \in outbox \cup ticks : y.pos = x.pos /\ a \in y.from
    BY <1>1, <2>5, PushingTicks
  <2>7. Asked
    <3> SUFFICES ASSUME NEW x \in outbox', NEW a \in x.from
                 PROVE  \/ \E y \in outbox : y.pos = x.pos /\ a \in y.from
                        \/ \E t \in scheduled : t.pos = x.pos /\ a = t.from
                        \/ a = age[x.pos] /\ (x.pos \in registered \/ block[x.pos] # "air")
      OBVIOUS
    <3>1. PICK y \in outbox \cup ticks : y.pos = x.pos /\ a \in y.from
      BY <2>6
    <3>2. CASE y \in ticks
      BY <2>5, <3>1, <3>2
    <3> QED BY <3>1, <3>2
  <2>8. Coming /\ Commands
    BY <2>1, <2>2, <2>3, <2>4
  <2> QED BY <2>1, <2>7, <2>8
<1> QED BY <1>2, <1>3, <1>4, <1>5, <1>6, <1>7, <1>8, <1>9, Steps DEF RunEvents

\* The event being processed, and what is left of the inbox.
LEMMA TheEvent ==
    ASSUME TypeInv, ProcessEvent
    PROVE  /\ Last(inbox) \in AnyEvent
           /\ ToSet(inbox) = ToSet(inbox') \cup {Last(inbox)}
           /\ \A x \in ToSet(inbox) \cup ToSet(external) : x \in AnyEvent
<1>1. inbox \in Seq(AnyEvent) /\ inbox # <<>> /\ inbox' = Front(inbox)
  BY WaysToProcess DEF TypeInv
<1>2. external \in Seq(AnyEvent)
  <2>1. ChangeEvent \cup PlainEvent \subseteq AnyEvent
    BY DEF AnyEvent, OutEvent
  <2> QED BY <2>1, SeqMonotonic DEF TypeInv
<1>3. ToSet(inbox) = ToSet(Front(inbox)) \cup {Last(inbox)} /\ Last(inbox) \in AnyEvent
  BY <1>1, TakingLast
<1>4. ToSet(inbox) \subseteq AnyEvent /\ ToSet(external) \subseteq AnyEvent
  BY <1>1, <1>2, Contents
<1> QED BY <1>1, <1>3, <1>4

\* No step leaves a block without a subchunk.
LEMMA ExistNext == ASSUME TypeInv, ExistInv, [Next]_vars PROVE ExistInv'
<1>1. CASE ProcessEvent /\ RunEvents
  <2> DEFINE e == Last(inbox)
             p == e.pos
  <2>1. p \in Positions /\ e.blk \in Types
    BY <1>1, TheEvent, Events
  <2>2. block \in [Positions -> Types] /\ age \in [Positions -> Nat]
    BY DEF TypeInv
  <2>3. \A q \in Positions : block[q] # "air" => q \in subchunks
    BY DEF ExistInv, Exists
  <2> HIDE DEF p, e
  <2>4. CASE ProcessUnloaded(e)
    BY <2>3, <2>4 DEF ProcessUnloaded, world, ExistInv, Exists
  <2>5. CASE ProcessBroken(e)
    <3>1. PICK after \in AfterHandler(block, {}) : block' = [after EXCEPT ![p] = "air"]
      BY <2>5 DEF ProcessBroken, p
    <3>2. after \in [Positions -> Types] /\ \A q \in Positions : after[q] # "air" => block[q] # "air"
      BY <2>1, <2>2, <3>1, BlocksSet
    <3>3. subchunks' = subchunks \ ({p} \ Anchored)
      BY <2>5 DEF ProcessBroken, p
    <3> QED BY <2>1, <2>3, <3>1, <3>2, <3>3 DEF ExistInv, Exists
  <2>6. CASE ProcessPlaced(e) /\ Exists(p)
    <3>1. PICK placed : placed = [block EXCEPT ![p] = e.blk]
      OBVIOUS
    <3>2. placed \in [Positions -> Types] /\ \A q \in Positions : placed[q] = IF q = p THEN e.blk ELSE block[q]
      BY <2>1, <2>2, <3>1
    <3>3. PICK after \in AfterHandler(placed, {p}) : block' = after
      BY <2>6, <3>1 DEF ProcessPlaced, p
    <3>4. \A q \in Positions : after[q] # "air" => placed[q] # "air"
      BY <2>1, <2>2, <3>2, <3>3, BlocksSet
    <3>5. subchunks' = IF e.blk = "air" THEN subchunks \ ({p} \ Anchored) ELSE subchunks
      BY <2>6 DEF ProcessPlaced, p
    <3> QED BY <2>1, <2>3, <2>6, <3>2, <3>3, <3>4, <3>5 DEF ExistInv, Exists
  <2>7. CASE ProcessOther(e)
    <3>1. PICK after \in AfterHandler(block, {}) : block' = after
      BY <2>7 DEF ProcessOther, p
    <3>2. \A q \in Positions : after[q] # "air" => block[q] # "air"
      BY <2>1, <2>2, <3>1, BlocksSet
    <3>3. subchunks' = subchunks
      BY <2>7 DEF ProcessOther
    <3> QED BY <2>3, <3>1, <3>2, <3>3 DEF ExistInv, Exists
  <2> QED BY <1>1, <2>4, <2>5, <2>6, <2>7, WaysToProcess DEF p, e
<1>2. ASSUME NEW p \in Positions, NEW t \in Types, Generate(p, t) PROVE ExistInv'
  <2>1. block' = [block EXCEPT ![p] = t] /\ subchunks' = subchunks \cup {p}
    BY <1>2 DEF Generate, Appear
  <2> QED BY <2>1 DEF ExistInv, Exists, TypeInv
<1>3. CASE UNCHANGED <<block, subchunks>>
  BY <1>3 DEF ExistInv, Exists
<1> QED BY <1>1, <1>2, <1>3, Arrivals

\* While a change is processed no other change of its position is on its way.
LEMMA OthersElsewhere ==
    ASSUME TypeInv, OnceInv, ProcessEvent, Last(inbox).type \in ChangeTypes,
           NEW x \in ToSet(external) \cup ToSet(inbox') \cup ToSet(commands) \cup ToSet(batch),
           x.type \in ChangeTypes
    PROVE  x.pos # Last(inbox).pos
<1>1. inbox \in Seq(AnyEvent) /\ inbox # <<>> /\ inbox' = Front(inbox)
  BY WaysToProcess DEF TypeInv
<1>2. OncePerPosition(inbox)
  BY DEF OnceInv, OnceIn
<1>3. Last(inbox).pos \notin Subjects(ToSet(inbox'))
  BY <1>1, <1>2, TakingLast
<1>4. Last(inbox).pos \in Subjects(ToSet(inbox))
  <2>1. Last(inbox) \in ToSet(inbox)
    BY TheEvent
  <2> QED BY <2>1, SubjectsOf
<1>5. /\ Last(inbox).pos \notin Subjects(ToSet(external))
      /\ Last(inbox).pos \notin Subjects(ToSet(commands))
      /\ Last(inbox).pos \notin Subjects(ToSet(batch))
  BY <1>4 DEF OnceInv, OnceIn, Apart
<1>6. /\ x \in ToSet(external) => x.pos \in Subjects(ToSet(external))
      /\ x \in ToSet(inbox') => x.pos \in Subjects(ToSet(inbox'))
      /\ x \in ToSet(commands) => x.pos \in Subjects(ToSet(commands))
      /\ x \in ToSet(batch) => x.pos \in Subjects(ToSet(batch))
  BY DEF Subjects
<1> QED BY <1>3, <1>5, <1>6

\* The block that is placed, unless onPlace() sets it to another.
LEMMA PlacedBlock ==
    ASSUME NEW e, e.pos \in Positions, e.blk \in Types, block \in [Positions -> Types],
           age \in [Positions -> Nat], "set_block" \notin setup.habits, ProcessPlaced(e)
    PROVE  \E own \in Types : block' = [block EXCEPT ![e.pos] = own]
<1>1. PICK placed : placed = [block EXCEPT ![e.pos] = e.blk]
  OBVIOUS
<1>2. placed \in [Positions -> Types]
  BY <1>1
<1>3. PICK after \in AfterHandler(placed, {e.pos}) : block' = after
  BY <1>1 DEF ProcessPlaced
<1>4. after = placed \/ \E t \in Types : after = [placed EXCEPT ![e.pos] = t]
  BY <1>2, BlocksSet
<1> QED BY <1>1, <1>3, <1>4

\* No air is on its way to be placed.
NoAir(S) == \A x \in S : x.type = "BlockPlaced" => x.blk # "air"

\* Either the event changes its position, and the light hears of it, or nothing
\* of either changes.
LEMMA ProcessBlocks ==
    ASSUME TypeInv, ProcessEvent, Honest, NoAir(ToSet(inbox))
    PROVE  \/ UNCHANGED <<block, heard, update>>
           \/ /\ Last(inbox).type \in ChangeTypes
              /\ \E new \in Types, old \in Types :
                    /\ block' = [block EXCEPT ![Last(inbox).pos] = new]
                    /\ heard' = [heard EXCEPT ![Last(inbox).pos] = new]
                    /\ update' = [pos |-> Last(inbox).pos, old |-> old, heard |-> heard[Last(inbox).pos]]
                    /\ old = IF Last(inbox).type = "BlockPlaced" THEN Last(inbox).prev ELSE block[Last(inbox).pos]
<1> DEFINE e == Last(inbox)
<1>1. e.pos \in Positions /\ e.prev \in Types /\ e.blk \in Types /\ (e.type = "BlockPlaced" => e.blk # "air")
  BY TheEvent, Events DEF NoAir
<1>2. /\ block[e.pos] \in Types /\ "air" \in Types
      /\ block \in [Positions -> Types] /\ age \in [Positions -> Nat]
  BY <1>1 DEF TypeInv, Types
<1>3. "set_block" \notin setup.habits
  BY DEF Honest
<1> HIDE DEF e
<1>4. ASSUME ProcessUnloaded(e) PROVE UNCHANGED <<block, heard, update>>
  BY <1>4 DEF ProcessUnloaded, world
<1>5. ASSUME ProcessOther(e) PROVE UNCHANGED <<block, heard, update>>
  <2>1. PICK after \in AfterHandler(block, {}) : block' = after
    BY <1>5 DEF ProcessOther
  <2>2. after = block
    BY <1>1, <1>2, <1>3, <2>1, BlocksSet
  <2> QED BY <1>5, <2>1, <2>2 DEF ProcessOther
<1>6. ASSUME ProcessBroken(e), e.type = "BlockBroken"
      PROVE  \E new \in Types, old \in Types :
                    /\ block' = [block EXCEPT ![e.pos] = new]
                    /\ heard' = [heard EXCEPT ![e.pos] = new]
                    /\ update' = [pos |-> e.pos, old |-> old, heard |-> heard[e.pos]]
                    /\ old = IF e.type = "BlockPlaced" THEN e.prev ELSE block[e.pos]
  <2>1. PICK after \in AfterHandler(block, {}) : block' = [after EXCEPT ![e.pos] = "air"]
    BY <1>6 DEF ProcessBroken
  <2>2. after = block
    BY <1>1, <1>2, <1>3, <2>1, BlocksSet
  <2>3. /\ heard' = [heard EXCEPT ![e.pos] = "air"]
        /\ update' = [pos |-> e.pos, old |-> block[e.pos], heard |-> heard[e.pos]]
    BY <1>6 DEF ProcessBroken, EnqueueLighting
  <2> QED BY <1>2, <1>6, <2>1, <2>2, <2>3
<1>7. ASSUME ProcessPlaced(e), e.type = "BlockPlaced", Exists(e.pos)
      PROVE  \E new \in Types, old \in Types :
                    /\ block' = [block EXCEPT ![e.pos] = new]
                    /\ heard' = [heard EXCEPT ![e.pos] = new]
                    /\ update' = [pos |-> e.pos, old |-> old, heard |-> heard[e.pos]]
                    /\ old = IF e.type = "BlockPlaced" THEN e.prev ELSE block[e.pos]
  <2>1. PICK own \in Types : block' = [block EXCEPT ![e.pos] = own]
    BY <1>1, <1>2, <1>3, <1>7, PlacedBlock
  <2>2. subchunks' = subchunks
    BY <1>1, <1>7 DEF ProcessPlaced
  <2>3. block'[e.pos] = own /\ e.pos \in subchunks'
    BY <1>1, <1>2, <1>7, <2>1, <2>2 DEF Exists
  <2>4. /\ heard' = [heard EXCEPT ![e.pos] = own]
        /\ update' = [pos |-> e.pos, old |-> e.prev, heard |-> heard[e.pos]]
    BY <1>7, <2>3 DEF ProcessPlaced, EnqueueLighting, FinalType
  <2> QED BY <1>1, <1>7, <2>1, <2>4
<1> QED BY <1>4, <1>5, <1>6, <1>7, WaysToProcess DEF e, ChangeTypes

\* The light engine is told of every change of a block when it happens.
LEMMA LightNext ==
    ASSUME TypeInv, OnceInv, LightInv, Honest, [Next]_vars
    PROVE  LightInv'
<1>1. /\ heard = block
      /\ update # None => update.old = update.heard
      /\ \A e \in ToSet(external) \cup ToSet(inbox) : e.type = "BlockPlaced" => e.prev = block[e.pos] /\ e.blk # "air"
      /\ \A c \in ToSet(commands) \cup ToSet(batch) : c.type = "BlockPlaced" => c.blk # "air"
  BY DEF LightInv
<1>2. block \in [Positions -> Types]
  BY DEF TypeInv
<1>3. CASE ProcessEvent /\ RunEvents
  <2> DEFINE e == Last(inbox)
  <2>1. /\ e \in AnyEvent /\ ToSet(inbox) = ToSet(inbox') \cup {e}
        /\ \A x \in ToSet(inbox) \cup ToSet(external) : x \in AnyEvent
    BY <1>3, TheEvent
  <2>2. external' = external /\ UNCHANGED <<commands, batch>> /\ NoAir(ToSet(inbox))
    BY <1>1, <1>3, WaysToProcess DEF RunEvents, sessionVars, NoAir
  <2>3. CASE UNCHANGED <<block, heard, update>>
    BY <1>1, <2>1, <2>2, <2>3 DEF LightInv
  <2>4. ASSUME e.type \in ChangeTypes, NEW new \in Types, NEW old \in Types,
               block' = [block EXCEPT ![e.pos] = new],
               heard' = [heard EXCEPT ![e.pos] = new],
               update' = [pos |-> e.pos, old |-> old, heard |-> heard[e.pos]],
               old = IF e.type = "BlockPlaced" THEN e.prev ELSE block[e.pos]
        PROVE  LightInv'
    <3>1. heard' = block'
      BY <1>1, <2>4
    <3>2. e.type = "BlockPlaced" => e.prev = block[e.pos]
      BY <1>1, <2>1
    <3>3. update'.old = update'.heard
      BY <1>1, <2>4, <3>2
    <3>4. ASSUME NEW x \in ToSet(external') \cup ToSet(inbox'), x.type = "BlockPlaced"
          PROVE  x.prev = block'[x.pos] /\ x.blk # "air"
      <4>1. x \in ToSet(external) \cup ToSet(inbox) /\ x \in ToSet(external) \cup ToSet(inbox')
        BY <2>1, <2>2
      <4>2. x.pos \in Positions
        BY <2>1, <4>1, Events
      <4>3. x.pos # e.pos
        BY <1>3, <2>4, <3>4, <4>1, OthersElsewhere DEF ChangeTypes
      <4>4. block'[x.pos] = block[x.pos]
        BY <1>2, <2>4, <4>2, <4>3
      <4> QED BY <1>1, <3>4, <4>1, <4>4
    <3> QED BY <1>1, <2>2, <3>1, <3>3, <3>4 DEF LightInv
  <2> QED BY <1>3, <2>2, <2>3, <2>4, ProcessBlocks
<1>4. ASSUME NEW p \in Positions, NEW t \in Types, Generate(p, t) PROVE LightInv'
  <2>1. /\ block' = [block EXCEPT ![p] = t] /\ heard' = [heard EXCEPT ![p] = t]
        /\ UNCHANGED <<update, external, inbox, commands, batch>>
        /\ ~Commanded(p)
    BY <1>4 DEF Generate, Appear, queues, sessionVars, Honest
  <2>2. p \notin Subjects(ToSet(external)) /\ p \notin Subjects(ToSet(inbox))
    BY <2>1, NotCommanded
  <2>3. ASSUME NEW x \in ToSet(external) \cup ToSet(inbox), x.type = "BlockPlaced"
        PROVE  x.prev = block'[x.pos] /\ x.blk # "air"
    <3>1. x.pos # p
      BY <2>2, <2>3 DEF Subjects, ChangeTypes
    <3>2. x \in AnyEvent
      <4>1. ChangeEvent \cup PlainEvent \subseteq AnyEvent
        BY DEF AnyEvent, OutEvent
      <4>2. external \in Seq(AnyEvent) /\ inbox \in Seq(AnyEvent)
        BY <4>1, SeqMonotonic DEF TypeInv
      <4> QED BY <4>2, Contents
    <3>3. x.pos \in Positions
      BY <3>2, Events
    <3>4. block'[x.pos] = block[x.pos]
      BY <1>2, <2>1, <3>1, <3>3
    <3> QED BY <1>1, <2>3, <3>4
  <2> QED BY <1>1, <2>1, <2>3 DEF LightInv
<1>5. ASSUME UNCHANGED <<setup, block, age, subchunks, registered, heard, update, delivered>>,
             \A e \in ToSet(external') \cup ToSet(inbox') :
                \/ e \in ToSet(external) \cup ToSet(inbox) \cup PlainEvent
                \/ e \in outbox
                \/ \E c \in ToSet(batch) : e = EventOf(c),
             \A c \in ToSet(commands') \cup ToSet(batch') :
                c \in ToSet(commands) \cup ToSet(batch) \/ Accepted(c)
      PROVE  LightInv'
  <2>1. ASSUME NEW e \in ToSet(external') \cup ToSet(inbox'), e.type = "BlockPlaced"
        PROVE  e.prev = block[e.pos] /\ e.blk # "air"
    <3>1. e \notin PlainEvent /\ e \notin outbox
      <4>1. \A x \in PlainEvent : x \in OutEvent
        BY DEF OutEvent
      <4>2. \A x \in outbox : x \in OutEvent
        BY DEF TypeInv
      <4> QED BY <2>1, <4>1, <4>2, OutEvents DEF ChangeTypes
    <3>2. CASE e \in ToSet(external) \cup ToSet(inbox)
      BY <1>1, <2>1, <3>2
    <3>3. ASSUME NEW c \in ToSet(batch), e = EventOf(c) PROVE e.prev = block[e.pos] /\ e.blk # "air"
      <4>1. c \in Command
        BY Contents DEF TypeInv
      <4> QED BY <1>1, <1>2, <2>1, <3>3, <4>1, CommandEvents
    <3> QED BY <1>5, <3>1, <3>2, <3>3
  <2>2. ASSUME NEW c \in ToSet(commands') \cup ToSet(batch'), c.type = "BlockPlaced" PROVE c.blk # "air"
    <3>1. "place_air" \notin setup.habits
      BY DEF Honest
    <3> QED BY <1>1, <1>5, <2>2, <3>1 DEF Accepted
  <2> QED BY <1>1, <1>5, <2>1, <2>2 DEF LightInv
<1> QED BY <1>3, <1>4, <1>5, Arrivals
----------------------------------------------------------------------------
(* Ticks.                                                                  *)

\* Nothing in the queues asks for a tick while a change is processed.
LEMMA NoTicksAmongChanges ==
    ASSUME TypeInv, StageInv, NEW x \in outbox \cup ToSet(inbox), Subjects(ToSet(inbox)) # {}
    PROVE  x.from = {}
<1>1. x.type \notin TickTypes
  BY DEF StageInv
<1>2. x \in AnyEvent
  <2>1. outbox \subseteq OutEvent /\ inbox \in Seq(AnyEvent)
    BY DEF TypeInv
  <2> QED BY <2>1, Contents DEF AnyEvent
<1> QED BY <1>1, <1>2, Events

\* The ticks of a handler are not in the outbox, so whoever asks there asked
\* before.
LEMMA OutboxAsksNothingNew ==
    ASSUME TypeInv, TypeInv', ProcessEvent, NEW x \in outbox', x.from # {}
    PROVE  x \in outbox
<1>1. x \in AnyEvent
  BY OutEvents DEF TypeInv
<1>2. x.type \in TickTypes
  BY <1>1, Events
<1> QED BY <1>2, ProcessEffects DEF Processed

\* A block that has not changed, by its tick and by its age.
LEMMA TickOther ==
    ASSUME TypeInv, TypeInv', TickInv, setup.habits = {}, ProcessEvent, ProcessOther(Last(inbox)),
           UNCHANGED <<commands, batch>>
    PROVE  TickInv'
<1> DEFINE e == Last(inbox)
           p == e.pos
<1>1. e \in AnyEvent /\ ToSet(inbox) = ToSet(inbox') \cup {e}
  BY TheEvent
<1>2. p \in Positions /\ external' = external
  BY <1>1, Events, WaysToProcess
<1>3. /\ Seen(e) \in [Positions -> SUBSET Faces] /\ age \in [Positions -> Nat] /\ block \in [Positions -> Types]
      /\ outbox \in SUBSET OutEvent /\ Merged(outbox) /\ now \in Nat /\ scheduled \in SUBSET ScheduledTick
      /\ "set_block" \notin setup.habits
  BY <1>2 DEF Seen, TypeInv
<1> HIDE DEF p, e
<1>4. PICK after \in AfterHandler(block, {}) :
        /\ block' = after /\ registered' = registered
        /\ Handled(p, block, after, age, scheduled, Seen(e))
        /\ Invoked(p, block, after, age, scheduled, Seen(e)) => HasHandler(block[p]) \/ scheduled' = scheduled
        /\ delivered' = delivered \/ (e.from # {} /\ delivered' = [pos |-> p, from |-> e.from, age |-> age[p]])
  BY DEF ProcessOther, Handled, NotInvoked, Delivered, p, e
<1>11. Effects(p, block, after, age, scheduled, Seen(e))
  <2>1. after \in [Positions -> Types]
    BY <1>3, <1>4, BlocksSet
  <2> QED BY <1>2, <1>3, <1>4, <2>1, HandlerEffects
<1>10. block' = block /\ age' = age
  <2>1. after = block
    BY <1>2, <1>3, <1>4, BlocksSet
  <2>2. age' = Aged(age, block, after) /\ (after = block => Aged(age, block, after) = age)
    BY <1>3, <1>4, <1>11, BlocksSet DEF Effects
  <2> QED BY <1>4, <2>1, <2>2
<1>5. \A t \in scheduled' : block[t.pos] # "air" /\ t.from = age[t.pos]
  <2>1. \A t \in scheduled : block[t.pos] # "air" /\ t.from = age[t.pos]
    BY DEF TickInv
  <2>2. \A t \in scheduled' : t \in scheduled
          \/ (t.pos = p /\ t.from = age[p] /\ Invoked(p, block, after, age, scheduled, Seen(e)))
    BY <1>3, <1>11 DEF Effects
  <2>3. HasHandler(block[p]) => block[p] # "air"
    BY DEF HasHandler
  <2> QED BY <1>4, <2>1, <2>2, <2>3
<1>6. \A x \in outbox \cup ToSet(inbox) : \A a \in x.from : block[x.pos] # "air" /\ a = age[x.pos]
  BY DEF TickInv
<1>7. \A x \in outbox' \cup ToSet(inbox') : \A a \in x.from : block[x.pos] # "air" /\ a = age[x.pos]
  BY <1>1, <1>6, OutboxAsksNothingNew
<1>8. delivered' # None => delivered'.age \in delivered'.from
  <2>1. CASE delivered' = delivered
    BY <2>1 DEF TickInv
  <2>2. CASE e.from # {} /\ delivered' = [pos |-> p, from |-> e.from, age |-> age[p]]
    <3>1. e \in outbox \cup ToSet(inbox)
      BY <1>1
    <3>2. age[p] \in e.from
      BY <1>6, <2>2, <3>1 DEF p
    <3> QED BY <2>2, <3>2
  <2> QED BY <1>4, <2>1, <2>2
<1> QED BY <1>1, <1>2, <1>4, <1>5, <1>7, <1>8, <1>10 DEF TickInv

\* A block that is broken takes its ticks with it.
LEMMA TickBroken ==
    ASSUME TypeInv, TypeInv', StageInv, TickInv, setup.habits = {}, ProcessEvent,
           Last(inbox).type = "BlockBroken", ProcessBroken(Last(inbox)), UNCHANGED <<commands, batch>>
    PROVE  TickInv'
<1> DEFINE e == Last(inbox)
           p == e.pos
<1>1. e \in AnyEvent /\ ToSet(inbox) = ToSet(inbox') \cup {e} /\ \A x \in ToSet(inbox) \cup ToSet(external) : x \in AnyEvent
  BY TheEvent
<1>2. p \in Positions /\ external' = external
  BY <1>1, Events, WaysToProcess
<1>4. /\ block \in [Positions -> Types] /\ age \in [Positions -> Nat] /\ owed \in [Positions -> SUBSET Faces]
      /\ outbox \in SUBSET OutEvent /\ Merged(outbox) /\ now \in Nat
      /\ CancelScheduledTicks(p) \in SUBSET ScheduledTick
      /\ "set_block" \notin setup.habits /\ "tick_in_break" \notin setup.habits
  BY DEF TypeInv, CancelScheduledTicks
<1> HIDE DEF p, e
<1>10. PICK after \in AfterHandler(block, {}) :
        /\ block' = [after EXCEPT ![p] = "air"] /\ registered' = registered \ {p} /\ delivered' = delivered
        /\ Handled(p, block, after, age, CancelScheduledTicks(p), owed)
        /\ scheduled' = CancelScheduledTicks(p)
  BY <1>4 DEF ProcessBroken, NotInvoked, Handled, p, e
<1>3. /\ block' = [block EXCEPT ![p] = "air"] /\ age' = age /\ registered' = registered \ {p}
      /\ scheduled' = CancelScheduledTicks(p) /\ delivered' = delivered
  <2>1. after = block
    BY <1>2, <1>4, <1>10, BlocksSet
  <2>2. after \in [Positions -> Types] /\ (after = block => Aged(age, block, after) = age)
    BY <1>4, <1>10, BlocksSet
  <2>3. Effects(p, block, after, age, CancelScheduledTicks(p), owed)
    BY <1>2, <1>4, <1>10, <2>2, HandlerEffects
  <2>4. age' = age
    BY <2>1, <2>2, <2>3 DEF Effects
  <2> QED BY <1>10, <2>1, <2>4
<1>5. \A q \in Positions : block'[q] = IF q = p THEN "air" ELSE block[q]
  BY <1>2, <1>3, <1>4
<1>6. \A t \in scheduled' : block'[t.pos] # "air" /\ t.from = age'[t.pos]
  <2>1. \A t \in scheduled' : t \in scheduled /\ t.pos # p /\ t.pos \in Positions
    BY <1>3 DEF CancelScheduledTicks, TypeInv, ScheduledTick
  <2> QED BY <1>3, <1>5, <2>1 DEF TickInv
<1>7. \A x \in outbox' \cup ToSet(inbox') : x.from = {}
  <2>1. Subjects(ToSet(inbox)) # {}
    BY <1>1 DEF Subjects, ChangeTypes, e
  <2> QED BY <1>1, <2>1, NoTicksAmongChanges, OutboxAsksNothingNew
<1>8. \A q \in registered' : block'[q] # "air"
  BY <1>3, <1>5 DEF TickInv, TypeInv
<1>9. \A c \in ToSet(commands') \cup ToSet(batch') \cup ToSet(external') \cup ToSet(inbox') :
         c.type = "BlockPlaced" => block'[c.pos] = "air"
  <2>1. \A c \in ToSet(commands) \cup ToSet(batch) : c.pos \in Positions
    <3>1. ToSet(commands) \subseteq Command /\ ToSet(batch) \subseteq Command
      BY Contents DEF TypeInv
    <3> QED BY <3>1 DEF Command
  <2>2. \A x \in ToSet(inbox) \cup ToSet(external) : x.pos \in Positions
    BY <1>1, Events
  <2> QED BY <1>1, <1>2, <1>5, <2>1, <2>2 DEF TickInv
<1> QED BY <1>3, <1>6, <1>7, <1>8, <1>9 DEF TickInv

\* A block that is placed finds no tick of the air that was there.
LEMMA TickPlaced ==
    ASSUME TypeInv, TypeInv', StageInv, OnceInv, TickInv, setup.habits = {}, ProcessEvent,
           Last(inbox).type = "BlockPlaced", Last(inbox).blk # "air", ProcessPlaced(Last(inbox)), UNCHANGED <<commands, batch>>
    PROVE  TickInv'
<1> DEFINE e == Last(inbox)
           p == e.pos
<1>1. e \in AnyEvent /\ ToSet(inbox) = ToSet(inbox') \cup {e} /\ \A x \in ToSet(inbox) \cup ToSet(external) : x \in AnyEvent
  BY TheEvent
<1>2. p \in Positions /\ e.blk \in Types /\ external' = external
  BY <1>1, Events, WaysToProcess
<1>3. block[p] = "air"
  BY <1>1 DEF TickInv, p, e
<1>4. \A c \in ToSet(external') \cup ToSet(inbox') \cup ToSet(commands') \cup ToSet(batch') :
         c.type = "BlockPlaced" => c.pos # p
  BY <1>2, OthersElsewhere DEF ChangeTypes
<1> HIDE DEF p, e
<1>6. /\ block \in [Positions -> Types] /\ age \in [Positions -> Nat]
      /\ registered \subseteq Positions
      /\ outbox \in SUBSET OutEvent /\ Merged(outbox) /\ now \in Nat /\ owed \in [Positions -> SUBSET Faces]
      /\ scheduled \in SUBSET ScheduledTick
      /\ \A t \in scheduled : t.pos \in Positions
      /\ "set_block" \notin setup.habits
  BY <1>2 DEF TypeInv, ScheduledTick
<1>12. PICK placed : placed = [block EXCEPT ![p] = e.blk]
  OBVIOUS
<1>13. PICK ages : ages = [age EXCEPT ![p] = @ + 1]
  OBVIOUS
<1>14. placed \in [Positions -> Types] /\ ages \in [Positions -> Nat] /\ placed[p] = e.blk
  BY <1>2, <1>6, <1>12, <1>13
<1>5. PICK after \in AfterHandler(placed, {p}) :
         /\ Handled(p, placed, after, ages, scheduled, owed)
         /\ ~HasHandler(e.blk) => scheduled' = scheduled
         /\ block' = after
         /\ delivered' = delivered
  BY <1>12, <1>13 DEF ProcessPlaced, Handled, NotInvoked, p, e
<1>15. registered' \subseteq registered \cup {q \in {p} : WantsGameTicks(block'[q])}
  BY DEF ProcessPlaced, p, e
<1>17. after \in [Positions -> Types] /\ (after = placed => Aged(ages, placed, after) = ages)
  BY <1>5, <1>14, BlocksSet
<1>18. Effects(p, placed, after, ages, scheduled, owed)
  BY <1>2, <1>5, <1>6, <1>14, <1>17, HandlerEffects
<1>16. age' = Aged(ages, placed, after)
  BY <1>18 DEF Effects
<1>7. \A q \in Positions : q # p => block'[q] = block[q] /\ age'[q] = age[q]
  <2>1. after = placed \/ \E t \in Types : after = [placed EXCEPT ![p] = t]
    BY <1>2, <1>5, <1>6, <1>14, BlocksSet
  <2>2. \A q \in Positions : q # p => after[q] = placed[q] /\ placed[q] = block[q] /\ ages[q] = age[q]
    BY <1>2, <1>6, <1>12, <1>13, <1>14, <2>1
  <2>3. \A q \in Positions : q # p => age'[q] = ages[q]
    BY <1>16, <2>2 DEF Aged
  <2> QED BY <1>5, <2>2, <2>3
<1>8. \A t \in scheduled' : block'[t.pos] # "air" /\ t.from = age'[t.pos]
  <2>1. \A t \in scheduled : block'[t.pos] # "air" /\ t.from = age'[t.pos]
    <3>1. \A t \in scheduled : block[t.pos] # "air" /\ t.from = age[t.pos]
      BY DEF TickInv
    <3> QED BY <1>3, <1>6, <1>7, <3>1
  <2>2. \A t \in scheduled' : t \in scheduled \/ (t.pos = p /\ t.from = ages[p] /\ after = placed)
    BY <1>6, <1>18 DEF Effects
  <2>3. after = placed => age' = ages
    BY <1>16, <1>17
  <2>4. after = placed => block'[p] # "air"
    BY <1>5, <1>14 DEF e
  <2> QED BY <2>1, <2>2, <2>3, <2>4
<1>9. \A x \in outbox' \cup ToSet(inbox') : x.from = {}
  <2>1. Subjects(ToSet(inbox)) # {}
    BY <1>1 DEF Subjects, ChangeTypes, e
  <2> QED BY <1>1, <2>1, NoTicksAmongChanges, OutboxAsksNothingNew
<1>10. \A q \in registered' : block'[q] # "air"
  <2>1. \A q \in registered : q \in Positions /\ block[q] # "air"
    BY <1>6 DEF TickInv
  <2>2. WantsGameTicks(block'[p]) => block'[p] # "air"
    BY DEF WantsGameTicks
  <2> QED BY <1>3, <1>7, <1>15, <2>1, <2>2
<1>11. \A c \in ToSet(commands') \cup ToSet(batch') \cup ToSet(external') \cup ToSet(inbox') :
         c.type = "BlockPlaced" => block'[c.pos] = "air"
  <2>1. \A c \in ToSet(commands) \cup ToSet(batch) : c.pos \in Positions
    <3>1. ToSet(commands) \subseteq Command /\ ToSet(batch) \subseteq Command
      BY Contents DEF TypeInv
    <3> QED BY <3>1 DEF Command
  <2>2. \A x \in ToSet(inbox) \cup ToSet(external) : x.pos \in Positions
    BY <1>1, Events
  <2>3. \A c \in ToSet(commands) \cup ToSet(batch) \cup ToSet(external) \cup ToSet(inbox) :
           c.type = "BlockPlaced" => block[c.pos] = "air"
    BY DEF TickInv
  <2> QED BY <1>1, <1>2, <1>4, <1>7, <2>1, <2>2, <2>3
<1> QED BY <1>5, <1>8, <1>9, <1>10, <1>11 DEF TickInv

\* No step lets a tick reach a block that did not ask for it.
LEMMA TickNext ==
    ASSUME TypeInv, StageInv, ExistInv, OnceInv, LightInv, TickInv, setup.habits = {}, [Next]_vars
    PROVE  TickInv'
<1>1. CASE ProcessEvent /\ RunEvents
  <2>1. UNCHANGED <<commands, batch>> /\ TypeInv'
    BY <1>1, TypesNext DEF RunEvents, sessionVars
  <2>2. CASE ProcessUnloaded(Last(inbox))
    <3>1. UNCHANGED <<block, age, registered, scheduled, outbox, delivered>>
      BY <2>2 DEF ProcessUnloaded, world
    <3>2. external' = external /\ ToSet(inbox) = ToSet(inbox') \cup {Last(inbox)}
      BY <1>1, WaysToProcess, TheEvent
    <3> QED BY <2>1, <3>1, <3>2 DEF TickInv
  <2>3. Last(inbox).type = "BlockPlaced" => Last(inbox).blk # "air"
    BY <1>1, TheEvent DEF LightInv
  <2> QED BY <1>1, <2>1, <2>2, <2>3, WaysToProcess, TickOther, TickBroken, TickPlaced
<1>2. ASSUME NEW p \in Positions, NEW t \in Types, Generate(p, t) PROVE TickInv'
  <2>1. /\ block[p] = "air"
        /\ block' = [block EXCEPT ![p] = t] /\ age' = [age EXCEPT ![p] = @ + 1]
        /\ UNCHANGED <<registered, scheduled, delivered, external, inbox, outbox, commands, batch>>
        /\ ~Commanded(p)
    BY <1>2 DEF Generate, Appear, ExistInv, queues, sessionVars
  <2>2. \A q \in Positions : q # p => block'[q] = block[q] /\ age'[q] = age[q]
    BY <2>1 DEF TypeInv
  <2>3. ASSUME NEW c \in ToSet(commands) \cup ToSet(batch) \cup ToSet(external) \cup ToSet(inbox), c.type = "BlockPlaced"
        PROVE  block'[c.pos] = "air"
    <3>1. c.pos # p
      BY <2>1, <2>3, NotCommanded DEF Subjects, ChangeTypes
    <3>2. c.pos \in Positions
      <4>1. ToSet(commands) \subseteq Command /\ ToSet(batch) \subseteq Command
        BY Contents DEF TypeInv
      <4>2. ToSet(external) \subseteq ChangeEvent \cup PlainEvent /\ ToSet(inbox) \subseteq AnyEvent
        BY Contents DEF TypeInv
      <4>3. c \in Command \/ c \in AnyEvent
        BY <4>1, <4>2 DEF AnyEvent, OutEvent
      <4> QED BY <4>3, Events DEF Command
    <3> QED BY <2>2, <2>3, <3>1, <3>2 DEF TickInv
  <2>4. \A s \in scheduled : block'[s.pos] # "air" /\ s.from = age'[s.pos]
    <3>1. \A s \in scheduled : s.pos \in Positions /\ block[s.pos] # "air" /\ s.from = age[s.pos]
      BY DEF TypeInv, ScheduledTick, TickInv
    <3> QED BY <2>1, <2>2, <3>1
  <2>5. \A x \in outbox \cup ToSet(inbox) : \A a \in x.from : block'[x.pos] # "air" /\ a = age'[x.pos]
    <3>1. \A x \in outbox \cup ToSet(inbox) : x \in AnyEvent
      <4>1. outbox \subseteq OutEvent /\ inbox \in Seq(AnyEvent)
        BY DEF TypeInv
      <4> QED BY <4>1, Contents DEF AnyEvent
    <3>2. \A x \in outbox \cup ToSet(inbox) : x.pos \in Positions
      BY <3>1, Events
    <3>3. \A x \in outbox \cup ToSet(inbox) : \A a \in x.from : block[x.pos] # "air" /\ a = age[x.pos]
      BY DEF TickInv
    <3> QED BY <2>1, <2>2, <3>2, <3>3
  <2>6. \A q \in registered : block'[q] # "air"
    <3>1. \A q \in registered : q \in Positions /\ block[q] # "air"
      BY DEF TypeInv, TickInv
    <3> QED BY <2>1, <2>2, <3>1
  <2>7. delivered # None => delivered.age \in delivered.from
    BY DEF TickInv
  <2> QED BY <2>1, <2>3, <2>4, <2>5, <2>6, <2>7 DEF TickInv
<1>3. ASSUME UNCHANGED <<setup, block, age, subchunks, registered, heard, update, delivered>>,
             \A e \in ToSet(external') \cup ToSet(inbox') :
                \/ e \in ToSet(external) \cup ToSet(inbox) \cup PlainEvent
                \/ e \in outbox
                \/ \E c \in ToSet(batch) : e = EventOf(c),
             \A c \in ToSet(commands') \cup ToSet(batch') :
                c \in ToSet(commands) \cup ToSet(batch) \/ Accepted(c),
             scheduled' \subseteq scheduled,
             \A x \in outbox' : \A a \in x.from :
                \/ \E y \in outbox : y.pos = x.pos /\ a \in y.from
                \/ \E t \in scheduled : t.pos = x.pos /\ a = t.from
                \/ a = age[x.pos] /\ (x.pos \in registered \/ block[x.pos] # "air")
      PROVE  TickInv'
  <2>1. /\ \A t \in scheduled : block[t.pos] # "air" /\ t.from = age[t.pos]
        /\ \A e \in outbox \cup ToSet(inbox) : \A a \in e.from : block[e.pos] # "air" /\ a = age[e.pos]
        /\ \A p \in registered : block[p] # "air"
        /\ \A c \in ToSet(commands) \cup ToSet(batch) \cup ToSet(external) \cup ToSet(inbox) :
              c.type = "BlockPlaced" => block[c.pos] = "air"
        /\ delivered # None => delivered.age \in delivered.from
    BY DEF TickInv
  <2>2. \A x \in outbox' : \A a \in x.from : block[x.pos] # "air" /\ a = age[x.pos]
    BY <1>3, <2>1
  <2>3. \A x \in PlainEvent \cup ToSet(external) : x.from = {}
    BY ArrivingQueue, Events DEF TypeInv, PlainEvent, EventIn
  <2>4. \A x \in PlainEvent \cup outbox : x.type # "BlockPlaced"
    <3>1. PlainEvent \subseteq OutEvent /\ outbox \subseteq OutEvent
      BY DEF TypeInv, OutEvent
    <3> QED BY <3>1, OutEvents DEF ChangeTypes
  <2>5. ASSUME NEW c \in ToSet(batch)
        PROVE  EventOf(c).from = {} /\ EventOf(c).type = c.type /\ EventOf(c).pos = c.pos
    <3>1. c \in Command
      BY Contents DEF TypeInv
    <3>2. EventOf(c) \in ChangeEvent \cup PlainEvent
      BY <3>1, CommandEvents DEF TypeInv
    <3>3. EventOf(c).from = {}
      BY <3>2 DEF ChangeEvent, PlainEvent, EventIn
    <3> QED BY <3>1, <3>3, CommandEvents DEF TypeInv
  <2>6. \A x \in ToSet(inbox') : \A a \in x.from : block[x.pos] # "air" /\ a = age[x.pos]
    BY <1>3, <2>1, <2>3, <2>5
  <2>7. \A x \in ToSet(external') \cup ToSet(inbox') : x.type = "BlockPlaced" => block[x.pos] = "air"
    BY <1>3, <2>1, <2>4, <2>5
  <2>8. \A c \in ToSet(commands') \cup ToSet(batch') : c.type = "BlockPlaced" => block[c.pos] = "air"
    <3>1. \A c : Accepted(c) => (c.type = "BlockPlaced" => block[c.pos] = "air")
      BY DEF Accepted
    <3> QED BY <1>3, <2>1, <3>1
  <2> QED BY <1>3, <2>1, <2>2, <2>6, <2>7, <2>8 DEF TickInv
<1> QED BY <1>1, <1>2, <1>3, Arrivals
----------------------------------------------------------------------------
(* The loop of the game thread, and the theorems.                          *)

\* A tick of the loop is one that was seen to be late, and what is scheduled
\* lies ahead.
LoopInv ==
    /\ thread \in {"test", "asleep", "drain", "execute", "events", "clock", "ticks", "tick", "tick events", "ended"}
    /\ elapsed \in Nat /\ behind \in Nat /\ catchup \in 0..MaxCatchup
    /\ thread \in {"ticks", "tick", "tick events"} => behind <= elapsed
    /\ thread \in {"tick", "tick events"} => behind > 0 /\ catchup < MaxCatchup
    /\ \A t \in scheduled : t.due > now

\* Handlers schedule ticks for later only.
LEMMA ProcessSchedulesAhead ==
    ASSUME TypeInv, ProcessEvent, \A t \in scheduled : t.due > now
    PROVE  \A t \in scheduled' : t.due > now'
<1>1. now' = now
  BY WaysToProcess
<1> QED BY <1>1, ProcessEffects DEF Processed

\* No step of the loop works off more ticks than it saw or may.
LEMMA LoopNext == ASSUME TypeInv, LoopInv, [Next]_vars PROVE LoopInv'
<1> USE SessionAssumption DEF LoopInv
<1>1. now \in Nat /\ elapsed \in Nat /\ behind \in Nat
  BY DEF TypeInv
<1>2. CASE RunTick
  BY <1>1, <1>2 DEF RunTick, AdvanceGameTick, Due, TypeInv, ScheduledTick
<1>3. CASE RunEvents
  <2>1. UNCHANGED <<thread, elapsed, behind, catchup>>
    BY <1>3 DEF RunEvents, sessionVars
  <2>2. \A t \in scheduled' : t.due > now'
    BY <1>3, ProcessSchedulesAhead DEF RunEvents, SwapOutbox
  <2> QED BY <2>1, <2>2
<1>4. ASSUME NEW p \in Positions, NEW t \in Types, Generate(p, t) PROVE LoopInv'
  BY <1>4 DEF Generate, Appear, sessionVars
<1>5. CASE UNCHANGED <<scheduled, now, elapsed, behind, catchup>> /\ UNCHANGED thread
  BY <1>5
<1>6. ASSUME NEW c \in Command, Push(c) PROVE LoopInv'
  BY <1>6 DEF Push, Woken, schedVars
<1>7. ASSUME NEW p \in Positions, PushFromOutside(Event("BlockUpdate", p)) PROVE LoopInv'
  BY <1>7 DEF PushFromOutside, PushExternalEvent
<1>8. CASE DrainCommands \/ ExecuteCommand \/ BeginEvents
  <2>1. UNCHANGED <<scheduled, now, elapsed, behind, catchup>>
    BY <1>8 DEF DrainCommands, ExecuteCommand, BeginEvents, PushExternalEvent, DrainExternalInput, schedVars
  <2>2. \/ thread' = thread \/ thread' \in {"clock", "execute", "events"}
        \/ thread = "tick" /\ thread' = "tick events"
    BY <1>8 DEF DrainCommands, ExecuteCommand, BeginEvents
  <2> QED BY <2>1, <2>2
<1>9. CASE TimePasses \/ StopGameThread \/ StartGameThread
  <2>1. UNCHANGED <<scheduled, now, behind, catchup>>
    BY <1>9 DEF TimePasses, StopGameThread, StartGameThread, schedVars
  <2>2. \/ thread' = "test" /\ elapsed' \in {0, elapsed}
        \/ thread' = thread /\ elapsed' \in {elapsed, elapsed + 1}
    BY <1>9 DEF TimePasses, StopGameThread, StartGameThread, Woken
  <2>3. CASE thread' = "test" /\ elapsed' \in {0, elapsed}
    <3>1. elapsed' \in {0, elapsed}
      BY ONLY <2>3
    <3>2. elapsed' \in Nat
      BY ONLY <1>1, <3>1
    <3> QED BY <2>1, <2>3, <3>2
  <2>4. CASE thread' = thread /\ elapsed' \in {elapsed, elapsed + 1}
    <3>1. elapsed' \in {elapsed, elapsed + 1}
      BY ONLY <2>4
    <3>2. elapsed' \in Nat /\ (behind <= elapsed => behind <= elapsed')
      BY ONLY <1>1, <3>1
    <3> QED BY <2>1, <2>4, <3>2
  <2> QED BY <2>2, <2>3, <2>4
<1>10. CASE WaitForWork \/ AlarmFires \/ ReadClock
  <2>1. UNCHANGED <<scheduled, now, elapsed>>
    BY <1>10 DEF WaitForWork, AlarmFires, ReadClock, schedVars
  <2>2. \/ thread' \in {"ended", "drain", "asleep"} /\ UNCHANGED <<behind, catchup>>
        \/ thread' = "ticks" /\ behind' = elapsed /\ catchup' = 0
    BY <1>10 DEF WaitForWork, AlarmFires, ReadClock
  <2>3. elapsed <= elapsed /\ 0 \in 0..MaxCatchup
    BY ONLY <1>1, SessionAssumption
  <2>4. CASE thread' = "ticks" /\ behind' = elapsed /\ catchup' = 0
    BY <2>1, <2>3, <2>4
  <2> QED BY <2>1, <2>2, <2>4
<1>11. CASE EndEvents
  <2>1. UNCHANGED <<scheduled, now>>
    BY <1>11 DEF EndEvents, schedVars
  <2>2. CASE thread = "events"
    <3>1. thread' = "clock" /\ UNCHANGED <<elapsed, behind, catchup>>
      BY <1>11, <2>2 DEF EndEvents
    <3> QED BY <2>1, <3>1
  <2>3. CASE thread = "tick events"
    <3>1. thread' = "ticks" /\ elapsed' = elapsed - 1 /\ behind' = behind - 1 /\ catchup' = catchup + 1
      BY <1>11, <2>3 DEF EndEvents
    <3>2. /\ elapsed \in Nat /\ behind \in Nat /\ catchup \in 0..MaxCatchup
          /\ behind <= elapsed /\ behind > 0 /\ catchup < MaxCatchup
      BY <2>3
    <3>3. elapsed' \in Nat /\ behind' \in Nat /\ catchup' \in 0..MaxCatchup /\ behind' <= elapsed'
      BY ONLY <3>1, <3>2, SessionAssumption
    <3> QED BY <2>1, <3>1, <3>3
  <2> QED BY <1>11, <2>2, <2>3 DEF EndEvents
<1>12. CASE EndTicks
  <2>1. UNCHANGED <<scheduled, now, behind, catchup>> /\ thread' = "test"
    BY <1>12 DEF EndTicks, schedVars
  <2>2. elapsed' \in {0, elapsed}
    BY <1>12 DEF EndTicks
  <2>3. elapsed' \in Nat
    BY ONLY <1>1, <2>2
  <2> QED BY <2>1, <2>3
<1>13. CASE UNCHANGED vars
  BY <1>13 DEF vars, schedVars, sessionVars
<1> QED BY <1>2, <1>3, <1>4, <1>6, <1>7, <1>8, <1>9, <1>10, <1>11, <1>12, <1>13, Steps DEF Quiet

\* What callers and handlers may do is chosen once.
LEMMA SetupStays == ASSUME [Next]_vars PROVE setup' = setup
<1>1. CASE Quiet \/ UNCHANGED vars
  BY <1>1, QuietKeeps DEF vars, schedVars
<1>2. CASE RunEvents
  BY <1>2, WaysToProcess DEF RunEvents, SwapOutbox
<1>3. CASE DrainCommands \/ ExecuteCommand \/ BeginEvents \/ RunTick
  BY <1>3 DEF DrainCommands, ExecuteCommand, BeginEvents, RunTick, PushExternalEvent, DrainExternalInput,
              AdvanceGameTick, schedVars
<1>4. ASSUME NEW c \in Command, Push(c) PROVE setup' = setup
  BY <1>4 DEF Push, schedVars
<1>5. ASSUME NEW p \in Positions, PushFromOutside(Event("BlockUpdate", p)) PROVE setup' = setup
  BY <1>5 DEF PushFromOutside, PushExternalEvent
<1>6. ASSUME NEW p \in Positions, NEW t \in Types, Generate(p, t) PROVE setup' = setup
  BY <1>6 DEF Generate, Appear
<1> QED BY <1>1, <1>2, <1>3, <1>4, <1>5, <1>6, Steps

\* It all holds in the beginning: nothing is scheduled or on its way.
LEMMA SessionBegins == ASSUME SessionInit PROVE IInv /\ LoopInv
<1> USE DEF SessionInit, Init
<1>1. /\ \A S : <<>> \in Seq(S)
      /\ ToSet(<<>>) = {} /\ Subjects(ToSet(<<>>)) = {} /\ OncePerPosition(<<>>)
  BY NothingThere, EmptySeq
<1>2. setup \in Setup
  BY SchedulerAssumption
<1>3. block \in [Positions -> Types]
  <2>1. setup.blocks \subseteq Types
    BY <1>2 DEF Setup, Types
  <2> QED BY <2>1
<1>4. TypeInv
  BY <1>1, <1>3, SchedulerAssumption DEF TypeInv, Merged
<1>5. StageInv
  BY <1>1 DEF StageInv
<1>6. OwedInv /\ ExistInv
  BY DEF OwedInv, ExistInv, Exists
<1>7. OnceInv /\ LightInv
  BY <1>1 DEF OnceInv, OnceIn, Apart, LightInv
<1>8. TickInv
  BY <1>1 DEF TickInv
<1>9. LoopInv
  BY SessionAssumption DEF LoopInv
<1> QED BY <1>4, <1>5, <1>6, <1>7, <1>8, <1>9 DEF IInv

\* Together they survive every step, whatever the session was set up for.
LEMMA SessionNext == ASSUME IInv, LoopInv, [Next]_vars PROVE IInv' /\ LoopInv'
<1>1. TypeInv /\ StageInv /\ OwedInv /\ ExistInv
  BY DEF IInv
<1>2. TypeInv' /\ StageInv' /\ OwedInv' /\ ExistInv' /\ LoopInv'
  BY <1>1, TypesNext, StageNext, OwedNext, ExistNext, LoopNext
<1>3. setup' = setup
  BY SetupStays
<1>4. "races" \notin setup.habits => OnceInv'
  BY <1>1, OnceNext DEF IInv
<1>5. Honest => "races" \notin setup.habits
  BY DEF Honest
<1>6. Honest => LightInv'
  BY <1>1, <1>5, LightNext DEF IInv
<1>7. setup.habits = {} => Honest
  BY DEF Honest
<1>8. setup.habits = {} => TickInv'
  BY <1>1, <1>5, <1>7, TickNext DEF IInv
<1> QED BY <1>2, <1>3, <1>4, <1>6, <1>8 DEF IInv, Honest

\* Stages of the game thread, faces owed and carried, one change of a position at
\* a time, and ticks of living blocks: an inductive invariant of the session.
THEOREM SessionIsInductive == Spec => [](IInv /\ LoopInv)
<1>1. SessionInit => IInv /\ LoopInv
  BY SessionBegins
<1>2. IInv /\ LoopInv /\ [Next]_vars => (IInv /\ LoopInv)'
  BY SessionNext
<1> QED BY <1>1, <1>2, PTL DEF Spec

\* Every variable has its type, events are merged, no tick is overdue, and the
\* loop never has more ticks to do than time has gone by (the queues and the game
\* loop, event_queue.cpp and game_session.cpp).
THEOREM SessionTypes == Spec => []TypeOK
<1>1. IInv /\ LoopInv => TypeOK
  BY DEF IInv, LoopInv, TypeInv, StageInv, TypeOK, ScheduledTick, Merged
<1> QED BY <1>1, SessionIsInductive, PTL

\* Unless a position is the subject of two changes at once, the light engine hears
\* of what is there, and each update replaces what the one before brought
\* (UpdateScheduler::onBlockPlaced(), onBlockBroken()).
THEOREM LightIsToldInOrder == Spec => []LightUpdatesChain
<1>1. IInv => LightUpdatesChain
  BY DEF IInv, LightInv, LightUpdatesChain, Honest
<1> QED BY <1>1, SessionIsInductive, PTL

\* A tick reaches a block that asked for it, however the breaking of the block,
\* the tick and a new block meet (cancelScheduledTicks(), unregisterGameTick()).
THEOREM TicksAreNotOrphaned == Spec => []NoOrphanTicks
<1>1. IInv => NoOrphanTicks
  BY DEF IInv, TickInv, NoOrphanTicks
<1> QED BY <1>1, SessionIsInductive, PTL

\* When processEvents() returns and nothing waits outside, no face of a neighbour
\* change is owed (EventOutbox::mergeEvents()).
THEOREM FacesArrive == Spec => []FacesAreNotForgotten
<1>1. ASSUME IInv, Stable, NEW p \in Positions PROVE owed[p] = {}
  <2>1. outbox = {} /\ inbox = <<>>
    BY <1>1 DEF Stable
  <2>2. Carried(outbox, p) = {} /\ Carried(ToSet(inbox), p) = {}
    BY <2>1, NothingThere, CarriedBy
  <2> QED BY <1>1, <2>2 DEF IInv, OwedInv
<1>2. IInv => FacesAreNotForgotten
  BY <1>1 DEF FacesAreNotForgotten
<1> QED BY <1>2, SessionIsInductive, PTL
=============================================================================
