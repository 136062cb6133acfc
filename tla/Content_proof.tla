---------------------------- MODULE Content_proof ----------------------------
(***************************************************************************)
(* Proofs about what the game makes of its content, for any scenarios:     *)
(* whoever follows the graphics events knows the entities (EntityManager), *)
(* no item of an inventory is lost, doubled or refused (Inventory), and a  *)
(* module runs while those that depend on it do (ModuleLoader).  The last  *)
(* part is about the palette of a subchunk, under any calls (SubChunk).    *)
(* The lemmas on recursive functions and folds come first: tlapm cannot    *)
(* use the induction principles of the library, whose parameters are       *)
(* operators, so induction is on sets of numbers, each with a least one.   *)
(***************************************************************************)
EXTENDS EntityManager, Inventory, ModuleLoader, SubChunk, SequenceTheorems, FiniteSetTheorems, WellFoundedInduction, TLAPS

-----------------------------------------------------------------------------
(* Numbers, sequences and sets *)

\* A set of natural numbers has a least one.
LEMMA LeastNatural ==
    ASSUME NEW S, S \subseteq Nat, S # {}
    PROVE  \E m \in S : \A x \in S : m <= x
<1> DEFINE R == {ss \in Nat \X Nat : ss[1] < ss[2]}
<1>1. IsWellFoundedOn(R, Nat)
  BY NatLessThanWellFounded DEF OpToRel
<1> HIDE DEF R
<1>2. PICK m \in S : \A x \in S : ~(<<x, m>> \in R)
  BY <1>1, WFMin
<1>3. \A x \in S : ~(x < m)
  BY <1>2 DEF R
<1> QED BY <1>3

\* Induction: a set of numbers with 0 and with every successor up to n.
LEMMA UpTo ==
    ASSUME NEW n \in Nat, NEW S, 0 \in S, \A k \in 0..(n - 1) : k \in S => k + 1 \in S
    PROVE  0..n \subseteq S
<1> DEFINE T == {k \in 0..n : k \notin S}
<1> SUFFICES ASSUME T # {} PROVE FALSE
  OBVIOUS
<1>1. PICK m \in T : \A x \in T : m <= x
  <2>1. T \subseteq Nat
    OBVIOUS
  <2> HIDE DEF T
  <2> QED BY <2>1, LeastNatural
<1>2. m # 0 /\ m - 1 \in 0..(n - 1)
  BY <1>1
<1>3. m - 1 \in S
  BY <1>1, <1>2
<1> QED BY <1>1, <1>2, <1>3

\* What a function makes of a finite set is finite.
LEMMA ImageFinite ==
    ASSUME NEW S, IsFiniteSet(S), NEW f
    PROVE  IsFiniteSet({f[x] : x \in S})
<1> DEFINE T == {f[x] : x \in S}
           g == [x \in S |-> f[x]]
<1>1. g \in Surjection(S, T)
  BY DEF Surjection
<1> QED BY <1>1, FS_Surjection

\* SetToSeq lists each element of a finite set once.
LEMMA SetToSeqLists ==
    ASSUME NEW S, IsFiniteSet(S)
    PROVE  LET s == SetToSeq(S)
           IN  /\ s \in Seq(S) /\ Len(s) \in Nat /\ s = [i \in 1..Len(s) |-> s[i]]
               /\ \A x \in S : \E i \in 1..Len(s) : s[i] = x
               /\ \A i, j \in 1..Len(s) : s[i] = s[j] => i = j
<1> DEFINE n == Cardinality(S)
<1>1. n \in Nat /\ \E f \in [1..n -> S] : IsInjective(f)
  BY FS_CardinalityType DEF ExistsBijection, Bijection, Injection
<1>2. SetToSeq(S) \in [1..n -> S] /\ IsInjective(SetToSeq(S))
  BY <1>1 DEF SetToSeq
<1>3. SetToSeq(S) \in Injection(1..n, S)
  BY <1>2 DEF Injection
<1>4. Cardinality(1..n) = n
  BY <1>1, FS_Interval
<1>5. SetToSeq(S) \in Surjection(1..n, S)
  BY <1>3, <1>4, FS_Injection
<1>6. \A x \in S : \E i \in 1..n : SetToSeq(S)[i] = x
  BY <1>5 DEF Surjection
<1> HIDE DEF n
<1>7. SetToSeq(S) \in Seq(S) /\ Len(SetToSeq(S)) = n
  BY <1>1, <1>2
<1> QED BY <1>1, <1>2, <1>6, <1>7 DEF IsInjective
-----------------------------------------------------------------------------
(* The graphics events and who follows them *)

IsQueue(q) == \E S : q \in Seq(S)

\* w[k] is what a consumer knows after k of the events.
Tells(w, v, events) == w[0] = v /\ \A k \in 1..Len(events) : w[k] = Applied(w[k - 1], events[k])

\* There is such a function, and Viewed() is its last value.
LEMMA ViewedTells ==
    ASSUME NEW v, NEW E, NEW events \in Seq(E)
    PROVE  \E w : Tells(w, v, events) /\ Viewed(v, events) = w[Len(events)]
<1> DEFINE n == Len(events)
           G(g, k) == g = [i \in 0..k |-> IF i = 0 THEN v ELSE Applied(g[i - 1], events[i])]
           K == {k \in Nat : \E g : G(g, k)}
<1>1. n \in Nat
  OBVIOUS
<1>2. 0 \in K
  <2>1. G([i \in 0..0 |-> v], 0)
    OBVIOUS
  <2> QED BY <2>1
<1>3. ASSUME NEW k \in 0..(n - 1), k \in K PROVE k + 1 \in K
  <2>1. PICK g : G(g, k)
    BY <1>3
  <2> DEFINE h == [i \in 0..(k + 1) |-> IF i = k + 1 THEN Applied(g[k], events[k + 1]) ELSE g[i]]
  <2>2. \A i \in 0..(k + 1) : h[i] = IF i = 0 THEN v ELSE Applied(h[i - 1], events[i])
    <3> TAKE i \in 0..(k + 1)
    <3>1. CASE i = k + 1
      <4>1. i - 1 = k /\ k \in 0..(k + 1) /\ k # k + 1 /\ i # 0
        BY <3>1
      <4> QED BY <3>1, <4>1
    <3>2. CASE i # k + 1
      <4>1. i \in 0..k
        BY <3>2
      <4>2. g[i] = IF i = 0 THEN v ELSE Applied(g[i - 1], events[i])
        BY <2>1, <4>1
      <4>3. i # 0 => i - 1 \in 0..(k + 1) /\ i - 1 # k + 1
        BY <4>1
      <4> QED BY <3>2, <4>2, <4>3
    <3> QED BY <3>1, <3>2
  <2>3. h = [i \in 0..(k + 1) |-> h[i]]
    OBVIOUS
  <2> HIDE DEF h
  <2>4. G(h, k + 1)
    BY <2>2, <2>3
  <2>5. k + 1 \in Nat
    BY <1>3
  <2>6. \E w : G(w, k + 1)
    BY <2>4
  <2> QED BY <2>5, <2>6
<1> HIDE DEF K, n
<1>4. n \in K
  <2>1. 0..n \subseteq K
    BY <1>1, <1>2, <1>3, UpTo
  <2> QED BY <1>1, <2>1
<1> DEFINE told == CHOOSE g : G(g, n)
<1>5. G(told, n)
  BY <1>4 DEF K
<1>6. Viewed(v, events) = told[n]
  BY DEF Viewed, n
<1> HIDE DEF told
<1>7. Tells(told, v, events)
  <2>1. \A i \in 0..n : told[i] = IF i = 0 THEN v ELSE Applied(told[i - 1], events[i])
    BY <1>5
  <2> QED BY <1>1, <2>1 DEF Tells, n
<1> QED BY <1>6, <1>7 DEF n

\* Any such function has it as its last value.
LEMMA ViewedIs ==
    ASSUME NEW v, NEW E, NEW events \in Seq(E), NEW w, Tells(w, v, events)
    PROVE  Viewed(v, events) = w[Len(events)]
<1>1. PICK u : Tells(u, v, events) /\ Viewed(v, events) = u[Len(events)]
  BY ViewedTells
<1> DEFINE n == Len(events)
           K == {k \in Nat : u[k] = w[k]}
<1>2. n \in Nat /\ 0 \in K
  BY <1>1 DEF Tells
<1>3. ASSUME NEW k \in 0..(n - 1), k \in K PROVE k + 1 \in K
  <2>1. k + 1 \in 1..n /\ (k + 1) - 1 = k
    BY <1>2
  <2>2. u[k + 1] = Applied(u[k], events[k + 1]) /\ w[k + 1] = Applied(w[k], events[k + 1])
    BY <1>1, <2>1 DEF Tells
  <2> QED BY <1>3, <2>1, <2>2
<1> HIDE DEF K
<1>4. n \in K
  <2> HIDE DEF n
  <2>1. 0..n \subseteq K
    BY <1>2, <1>3, UpTo
  <2> QED BY <1>2, <2>1
<1> QED BY <1>1, <1>4 DEF K

\* Events taken in two batches tell the same as in one.
LEMMA ViewedConcat ==
    ASSUME NEW v, NEW E, NEW s \in Seq(E), NEW F, NEW t \in Seq(F)
    PROVE  Viewed(v, s \o t) = Viewed(Viewed(v, s), t)
<1>1. PICK a : Tells(a, v, s) /\ Viewed(v, s) = a[Len(s)]
  BY ViewedTells
<1>2. PICK b : Tells(b, Viewed(v, s), t) /\ Viewed(Viewed(v, s), t) = b[Len(t)]
  BY ViewedTells
<1> DEFINE w == [k \in 0..(Len(s) + Len(t)) |-> IF k <= Len(s) THEN a[k] ELSE b[k - Len(s)]]
<1>3. /\ s \o t \in Seq(E \cup F) /\ Len(s) \in Nat /\ Len(t) \in Nat /\ Len(s \o t) = Len(s) + Len(t)
      /\ \A k \in 1..Len(s) : (s \o t)[k] = s[k]
      /\ \A k \in 1..(Len(s) + Len(t)) : k > Len(s) => (s \o t)[k] = t[k - Len(s)]
  OBVIOUS
<1>4. \A k \in 0..(Len(s) + Len(t)) : k >= Len(s) => w[k] = b[k - Len(s)]
  BY <1>1, <1>2, <1>3 DEF Tells
<1>5. \A k \in 0..Len(s) : w[k] = a[k]
  BY <1>3
<1>6. w[0] = v
  BY <1>1, <1>3, <1>5 DEF Tells
<1> HIDE DEF w
<1>7. ASSUME NEW k \in 1..(Len(s) + Len(t)) PROVE w[k] = Applied(w[k - 1], (s \o t)[k])
  <2>1. CASE k <= Len(s)
    <3>1. k \in 1..Len(s) /\ k \in 0..Len(s) /\ k - 1 \in 0..Len(s)
      BY <1>3, <2>1
    <3>2. a[k] = Applied(a[k - 1], s[k])
      BY <1>1, <3>1 DEF Tells
    <3> QED BY <1>3, <1>5, <3>1, <3>2
  <2>2. CASE k > Len(s)
    <3>1. /\ k - Len(s) \in 1..Len(t) /\ (k - Len(s)) - 1 = (k - 1) - Len(s) /\ k - 1 >= Len(s)
          /\ k - 1 \in 0..(Len(s) + Len(t)) /\ k \in 0..(Len(s) + Len(t)) /\ k >= Len(s)
      BY <1>3, <2>2
    <3>2. b[k - Len(s)] = Applied(b[(k - 1) - Len(s)], t[k - Len(s)])
      BY <1>2, <3>1 DEF Tells
    <3>3. w[k] = b[k - Len(s)] /\ w[k - 1] = b[(k - 1) - Len(s)]
      BY <1>4, <3>1
    <3> QED BY <1>3, <2>2, <3>2, <3>3
  <2> QED BY <1>3, <2>1, <2>2
<1>8. Tells(w, v, s \o t)
  BY <1>3, <1>6, <1>7 DEF Tells
<1>9. w[Len(s) + Len(t)] = b[Len(t)]
  BY <1>3, <1>4
<1>10. Viewed(v, s \o t) = w[Len(s \o t)]
  BY <1>3, <1>8, ViewedIs
<1> QED BY <1>2, <1>3, <1>9, <1>10
\* A consumer that found nothing wrong and knows the entities ids.
Knows(v, ids) == v = [shown |-> v.shown, wrong |-> FALSE] /\ DOMAIN v.shown = ids

\* No event, no news.
LEMMA NothingTold == ASSUME NEW v PROVE Viewed(v, <<>>) = v
<1>1. <<>> \in Seq({}) /\ Len(<<>>) = 0
  OBVIOUS
<1>2. \E w : Tells(w, v, <<>>) /\ Viewed(v, <<>>) = w[Len(<<>>)]
  BY <1>1, ViewedTells
<1> QED BY <1>1, <1>2 DEF Tells

\* One event.
LEMMA OneTold == ASSUME NEW v, NEW e PROVE Viewed(v, <<e>>) = Applied(v, e)
<1>1. <<e>> \in Seq({e}) /\ Len(<<e>>) = 1 /\ <<e>>[1] = e
  OBVIOUS
<1>2. PICK w : Tells(w, v, <<e>>) /\ Viewed(v, <<e>>) = w[1]
  BY <1>1, ViewedTells
<1>3. w[1] = Applied(w[1 - 1], <<e>>[1]) /\ w[0] = v
  BY <1>1, <1>2 DEF Tells
<1> QED BY <1>1, <1>2, <1>3

\* What each kind of event does to what is known.
LEMMA SpawnTold ==
    ASSUME NEW v, NEW ids, Knows(v, ids), NEW id, id \notin ids, NEW x,
           NEW u, u = Applied(v, SpawnEvent(id, x))
    PROVE  Knows(u, ids \cup {id}) /\ u.shown[id] = x.pos /\ \A i \in ids : u.shown[i] = v.shown[i]
<1>1. SpawnEvent(id, x).type = "spawn" /\ SpawnEvent(id, x).id = id /\ SpawnEvent(id, x).pos = x.pos
  BY DEF SpawnEvent
<1>2. v.wrong = FALSE /\ DOMAIN v.shown = ids
  BY DEF Knows
<1>3. Applied(v, SpawnEvent(id, x)) = [shown |-> Entered(v.shown, id, x.pos), wrong |-> FALSE]
  BY <1>1, <1>2 DEF Applied
<1> QED BY <1>2, <1>3 DEF Knows, Entered

\* The event of a removal tells every reader that the entity is gone.
LEMMA DespawnTold ==
    ASSUME NEW v, NEW ids, Knows(v, ids), NEW id \in ids,
           NEW u, u = Applied(v, DespawnEvent(id))
    PROVE  Knows(u, ids \ {id}) /\ \A i \in ids \ {id} : u.shown[i] = v.shown[i]
<1>1. DespawnEvent(id).type = "despawn" /\ DespawnEvent(id).id = id
  BY DEF DespawnEvent
<1>2. v.wrong = FALSE /\ DOMAIN v.shown = ids
  BY DEF Knows
<1>3. Applied(v, DespawnEvent(id)) = [shown |-> Restrict(v.shown, ids \ {id}), wrong |-> FALSE]
  BY <1>1, <1>2 DEF Applied
<1> QED BY <1>2, <1>3 DEF Knows, Restrict

\* A snapshot tells a reader of its entity, and of nothing else.
LEMMA SnapshotTold ==
    ASSUME NEW v, NEW ids, Knows(v, ids), NEW id \in ids, NEW x, NEW tick,
           NEW u, u = Applied(v, SnapshotEvent(id, x, tick))
    PROVE  Knows(u, ids) /\ u.shown[id] = x.pos /\ \A i \in ids \ {id} : u.shown[i] = v.shown[i]
<1>1. /\ SnapshotEvent(id, x, tick).type = "snapshot" /\ SnapshotEvent(id, x, tick).id = id
      /\ SnapshotEvent(id, x, tick).pos = x.pos
  BY DEF SnapshotEvent
<1>2. v.wrong = FALSE /\ DOMAIN v.shown = ids
  BY DEF Knows
<1>3. Applied(v, SnapshotEvent(id, x, tick)) = [shown |-> Entered(v.shown, id, x.pos), wrong |-> FALSE]
  BY <1>1, <1>2 DEF Applied
<1> QED BY <1>2, <1>3 DEF Knows, Entered

\* A correction changes nobody's table of entities.
LEMMA CorrectionTold ==
    ASSUME NEW v, NEW ids, Knows(v, ids), NEW id \in ids, NEW x
    PROVE  Knows(Applied(v, CorrectionEvent(id, x)), ids) /\ Applied(v, CorrectionEvent(id, x)).shown = v.shown
<1>1. CorrectionEvent(id, x).type = "correction" /\ CorrectionEvent(id, x).id = id
  BY DEF CorrectionEvent
<1>2. v.wrong = FALSE /\ DOMAIN v.shown = ids /\ v = [shown |-> v.shown, wrong |-> FALSE]
  BY DEF Knows
<1>3. Applied(v, CorrectionEvent(id, x)) = [v EXCEPT !.wrong = FALSE]
  BY <1>1, <1>2 DEF Applied
<1> QED BY <1>2, <1>3 DEF Knows, Entered

AreCorrections(s, ids) == IsQueue(s) /\ \A i \in 1..Len(s) : \E id \in ids : \E x : s[i] = CorrectionEvent(id, x)

\* Corrections of known entities tell nothing.
LEMMA CorrectionsTold ==
    ASSUME NEW v, NEW ids, Knows(v, ids), NEW s, AreCorrections(s, ids), NEW u, u = Viewed(v, s)
    PROVE  Knows(u, ids) /\ u.shown = v.shown
<1> DEFINE n == Len(s)
<1>0. PICK E : s \in Seq(E)
  BY DEF AreCorrections, IsQueue
<1>1. PICK w : Tells(w, v, s) /\ Viewed(v, s) = w[n]
  BY <1>0, ViewedTells
<1> DEFINE K == {k \in Nat : Knows(w[k], ids) /\ w[k].shown = v.shown}
<1>2. n \in Nat /\ 0 \in K
  BY <1>0, <1>1 DEF Tells
<1>3. ASSUME NEW k \in 0..(n - 1), k \in K PROVE k + 1 \in K
  <2>1. k + 1 \in 1..n /\ (k + 1) - 1 = k
    BY <1>2
  <2>2. PICK id, x : id \in ids /\ s[k + 1] = CorrectionEvent(id, x)
    BY <2>1 DEF AreCorrections
  <2>3. w[k + 1] = Applied(w[k], CorrectionEvent(id, x))
    BY <1>1, <2>1, <2>2 DEF Tells
  <2>4. Knows(w[k], ids) /\ w[k].shown = v.shown /\ id \in ids
    BY <1>3, <2>2
  <2>5. Knows(w[k + 1], ids) /\ w[k + 1].shown = v.shown
    BY <2>3, <2>4, CorrectionTold
  <2> QED BY <2>1, <2>5
<1> HIDE DEF K, n
<1>4. n \in K
  <2>1. 0..n \subseteq K
    BY <1>2, <1>3, UpTo
  <2> QED BY <1>2, <2>1
<1> QED BY <1>1, <1>4 DEF K

AreSnapshots(s, taken, ents, tick) ==
    /\ IsQueue(s)
    /\ \A i \in 1..Len(s) : \E id \in taken : s[i] = SnapshotEvent(id, ents[id], tick)
    /\ \A id \in taken : \E i \in 1..Len(s) : s[i] = SnapshotEvent(id, ents[id], tick)

\* Snapshots of known entities tell where they are.
LEMMA SnapshotsTold ==
    ASSUME NEW v, NEW ids, Knows(v, ids), NEW ents, NEW tick, NEW taken, taken \subseteq ids,
           NEW s, AreSnapshots(s, taken, ents, tick),
           NEW u, u = Viewed(v, s)
    PROVE  /\ Knows(u, ids)
           /\ \A id \in taken : u.shown[id] = ents[id].pos
           /\ \A id \in ids \ taken : u.shown[id] = v.shown[id]
<1> DEFINE n == Len(s)
<1>0. PICK E : s \in Seq(E)
  BY DEF AreSnapshots, IsQueue
<1>1. PICK w : Tells(w, v, s) /\ Viewed(v, s) = w[n]
  BY <1>0, ViewedTells
<1> DEFINE Right(k) == /\ Knows(w[k], ids)
                       /\ \A i \in 1..n : i <= k => w[k].shown[s[i].id] = ents[s[i].id].pos
                       /\ \A id \in ids \ taken : w[k].shown[id] = v.shown[id]
           K == {k \in Nat : Right(k)}
<1>2. n \in Nat /\ 0 \in K
  BY <1>0, <1>1 DEF Tells
<1>3. ASSUME NEW k \in 0..(n - 1), k \in K PROVE k + 1 \in K
  <2>1. k + 1 \in 1..n /\ (k + 1) - 1 = k /\ Right(k)
    BY <1>2, <1>3
  <2>2. PICK id \in taken : s[k + 1] = SnapshotEvent(id, ents[id], tick)
    BY <2>1 DEF AreSnapshots
  <2>3. w[k + 1] = Applied(w[k], SnapshotEvent(id, ents[id], tick)) /\ s[k + 1].id = id /\ id \in ids
    BY <1>1, <2>1, <2>2 DEF Tells, SnapshotEvent
  <2>4. /\ Knows(w[k + 1], ids)
        /\ w[k + 1].shown[id] = ents[id].pos
        /\ \A i \in ids \ {id} : w[k + 1].shown[i] = w[k].shown[i]
    BY <2>1, <2>3, SnapshotTold
  <2>5. ASSUME NEW i \in 1..n, i <= k + 1 PROVE w[k + 1].shown[s[i].id] = ents[s[i].id].pos
    <3>1. PICK j \in taken : s[i] = SnapshotEvent(j, ents[j], tick)
      BY <1>2 DEF AreSnapshots
    <3>2. s[i].id = j /\ j \in ids
      BY <3>1 DEF SnapshotEvent
    <3>3. CASE j = id
      BY <2>4, <3>2, <3>3
    <3>4. CASE j # id
      <4>1. i <= k
        BY <1>2, <2>3, <2>5, <3>2, <3>4
      <4>2. w[k].shown[j] = ents[j].pos
        BY <2>1, <3>2, <4>1
      <4> QED BY <2>4, <3>2, <3>4, <4>2
    <3> QED BY <3>3, <3>4
  <2>6. \A i \in ids \ taken : w[k + 1].shown[i] = v.shown[i]
    BY <2>1, <2>2, <2>4
  <2>7. Right(k + 1)
    BY <2>4, <2>5, <2>6
  <2> QED BY <2>1, <2>7
<1> HIDE DEF K
<1>4. Right(n)
  <2> HIDE DEF n
  <2>1. 0..n \subseteq K
    BY <1>2, <1>3, UpTo
  <2>2. n \in K
    BY <1>2, <2>1
  <2> QED BY <2>2 DEF K
<1>5. ASSUME NEW id \in taken PROVE w[n].shown[id] = ents[id].pos
  <2>1. PICK i \in 1..n : s[i] = SnapshotEvent(id, ents[id], tick)
    BY DEF AreSnapshots
  <2>2. s[i].id = id /\ i <= n
    BY <1>2, <2>1 DEF SnapshotEvent
  <2> QED BY <1>4, <2>2
<1> QED BY <1>1, <1>4, <1>5

AreDespawns(s, gone) ==
    /\ IsQueue(s)
    /\ \A i \in 1..Len(s) : \E id \in gone : s[i] = DespawnEvent(id)
    /\ \A id \in gone : \E i \in 1..Len(s) : s[i] = DespawnEvent(id)
    /\ \A i, j \in 1..Len(s) : s[i] = s[j] => i = j

\* u knows what v knows of the entities ids, without those that are gone.
KnowsRest(u, v, ids, gone) == Knows(u, ids \ gone) /\ \A id \in ids \ gone : u.shown[id] = v.shown[id]

\* Despawning known entities, each once, leaves the others.
LEMMA DespawnsTold ==
    ASSUME NEW v, NEW ids, Knows(v, ids), NEW gone, gone \subseteq ids, NEW s, AreDespawns(s, gone),
           NEW u, u = Viewed(v, s)
    PROVE  KnowsRest(u, v, ids, gone)
<1> DEFINE n == Len(s)
           Past(k) == {s[i].id : i \in {i \in 1..n : i <= k}}
<1>0. PICK E : s \in Seq(E)
  BY DEF AreDespawns, IsQueue
<1>1. PICK w : Tells(w, v, s) /\ Viewed(v, s) = w[n]
  BY <1>0, ViewedTells
<1> DEFINE Right(k) == /\ Knows(w[k], ids \ Past(k))
                       /\ \A id \in ids \ gone : w[k].shown[id] = v.shown[id]
           K == {k \in Nat : Right(k)}
<1>2. n \in Nat /\ 0 \in K
  <2>1. n \in Nat /\ Past(0) = {}
    BY <1>0
  <2> HIDE DEF Past
  <2> QED BY <1>1, <2>1 DEF Tells
<1>3. ASSUME NEW i \in 1..n PROVE s[i].id \in gone /\ s[i] = DespawnEvent(s[i].id)
  <2>1. PICK id \in gone : s[i] = DespawnEvent(id)
    BY DEF AreDespawns
  <2> QED BY <2>1 DEF DespawnEvent
<1>4. ASSUME NEW k \in 0..(n - 1), k \in K PROVE k + 1 \in K
  <2> DEFINE id == s[k + 1].id
  <2>1. k + 1 \in 1..n /\ (k + 1) - 1 = k /\ Right(k)
    BY <1>2, <1>4
  <2>2. id \in gone /\ s[k + 1] = DespawnEvent(id)
    BY <1>3, <2>1
  <2>3. id \notin Past(k)
    <3> SUFFICES ASSUME NEW i \in 1..n, i <= k, s[i].id = id PROVE FALSE
      OBVIOUS
    <3>1. s[i] = s[k + 1]
      BY <1>3, <2>2
    <3> QED BY <1>2, <2>1, <3>1 DEF AreDespawns
  <2>4. Past(k + 1) = Past(k) \cup {id}
    BY <1>2, <2>1
  <2> HIDE DEF Past, id
  <2>5. id \in ids \ Past(k) /\ w[k + 1] = Applied(w[k], DespawnEvent(id))
    BY <1>1, <2>1, <2>2, <2>3 DEF Tells
  <2>6. /\ Knows(w[k + 1], (ids \ Past(k)) \ {id})
        /\ \A i \in (ids \ Past(k)) \ {id} : w[k + 1].shown[i] = w[k].shown[i]
    <3> DEFINE known == ids \ Past(k)
    <3>1. Knows(w[k], known) /\ id \in known
      BY <2>1, <2>5
    <3>2. PICK x, y : x = w[k] /\ y = w[k + 1]
      OBVIOUS
    <3> HIDE DEF known
    <3>3. Knows(x, known) /\ y = Applied(x, DespawnEvent(id))
      BY <2>5, <3>1, <3>2
    <3>4. Knows(y, known \ {id}) /\ \A i \in known \ {id} : y.shown[i] = x.shown[i]
      BY <3>1, <3>3, DespawnTold
    <3> QED BY <3>2, <3>4 DEF known
  <2>7. (ids \ Past(k)) \ {id} = ids \ Past(k + 1)
    BY <2>4
  <2>8. ids \ gone \subseteq (ids \ Past(k)) \ {id}
    BY <1>3, <2>2 DEF Past
  <2>9. Right(k + 1)
    BY <2>1, <2>6, <2>7, <2>8
  <2> QED BY <2>1, <2>9
<1> HIDE DEF K
<1>5. Right(n)
  <2> HIDE DEF n
  <2>1. 0..n \subseteq K
    BY <1>2, <1>4, UpTo
  <2>2. n \in K
    BY <1>2, <2>1
  <2> QED BY <2>2 DEF K
<1>6. Past(n) = gone
  <2>1. ASSUME NEW id \in gone PROVE id \in Past(n)
    <3>1. PICK i \in 1..n : s[i] = DespawnEvent(id)
      BY DEF AreDespawns
    <3>2. i <= n /\ s[i].id = id
      BY <1>2, <3>1 DEF DespawnEvent
    <3> QED BY <3>2
  <2> QED BY <1>3, <2>1
<1> HIDE DEF Past
<1> QED BY <1>1, <1>5, <1>6 DEF KnowsRest
-----------------------------------------------------------------------------
(* Entities *)

IsEntity(e) == {"pos", "vel", "ground", "type", "chunk", "removed", "age"} \subseteq DOMAIN e /\ e.removed \in BOOLEAN

\* The manager's tables: ids below the counter are its own, others the callers'.
TablesInv ==
    /\ setup \in Setups /\ calls \in 0..setup.maxCalls /\ nextEntityId \in 1..(calls + 1)
    /\ IsFiniteSet(DOMAIN entities) /\ DOMAIN entities \subseteq 1..(nextEntityId - 1) \cup setup.ids
    /\ \A id \in DOMAIN entities : IsEntity(entities[id])
    /\ AuthoritiesAreLive

\* The player's id stays its own, and only the player's state is sent.
PlayerInv ==
    /\ playerId \in 0..(nextEntityId - 1)
    /\ playerId \in DOMAIN entities => entities[playerId].type = "player"
    /\ IsQueue(commands)
    /\ \A i \in 1..Len(commands) :
          /\ commands[i].type \in {"state", "place", "break"}
          /\ commands[i].type = "state" => commands[i].id = playerId /\ playerId # 0

\* v is right about the entities in table.
Follows(v, table) ==
    /\ Knows(v, DOMAIN table)
    /\ \A id \in DOMAIN table : table[id].type # "player" => v.shown[id] = table[id].pos

ViewInv == IsQueue(graphicsQueue) /\ Follows(Viewed(view, graphicsQueue), entities)

\* The inductive invariant.
EntityInv == TablesInv /\ PlayerInv /\ ViewInv

\* It contains what the run checks.
LEMMA EntityInvImplies == EntityInv => EntitiesAreConsistent
<1> SUFFICES ASSUME EntityInv PROVE ViewFollowsEntities /\ AuthoritiesAreLive
  BY DEF EntitiesAreConsistent
<1> DEFINE v == Viewed(view, graphicsQueue)
<1>1. Follows(v, entities) /\ AuthoritiesAreLive
  BY DEF EntityInv, TablesInv, ViewInv
<1> HIDE DEF v
<1>2. ~v.wrong
  <2>1. v = [shown |-> v.shown, wrong |-> FALSE]
    BY <1>1 DEF Follows, Knows
  <2> QED BY <2>1
<1>3. DOMAIN v.shown = DOMAIN entities /\ \A id \in DOMAIN entities : entities[id].type # "player" => v.shown[id] = entities[id].pos
  BY <1>1 DEF Follows, Knows
<1> QED BY <1>1, <1>2, <1>3 DEF ViewFollowsEntities, v

\* The invariant holds when the demo's session starts.
LEMMA EntityInvInit == Init => EntityInv
<1> SUFFICES ASSUME Init PROVE EntityInv
  OBVIOUS
<1>1. DOMAIN entities = {} /\ DOMAIN playerAuthorities = {}
  BY DEF Init
<1>2. TablesInv
  BY <1>1, EntityAssumption, FS_EmptySet DEF Init, TablesInv, AuthoritiesAreLive
<1>3. PlayerInv
  <2>1. commands \in Seq({}) /\ Len(commands) = 0
    BY DEF Init
  <2> QED BY <1>1, <2>1 DEF Init, PlayerInv, IsQueue
<1>4. ViewInv
  <2>1. graphicsQueue \in Seq({}) /\ graphicsQueue = <<>>
    BY DEF Init
  <2>2. Viewed(view, graphicsQueue) = view
    BY <2>1, NothingTold
  <2>3. Knows(view, DOMAIN entities)
    BY <1>1 DEF Init, Knows
  <2> QED BY <1>1, <2>1, <2>2, <2>3 DEF ViewInv, IsQueue, Follows
<1> QED BY <1>2, <1>3, <1>4 DEF EntityInv

\* Events that are pushed, and what is known of them.
LEMMA PushedEvents ==
    ASSUME ViewInv, NEW E, NEW s \in Seq(E), graphicsQueue' = graphicsQueue \o s, view' = view
    PROVE  /\ IsQueue(graphicsQueue')
           /\ Viewed(view, graphicsQueue)' = Viewed(Viewed(view, graphicsQueue), s)
<1>1. PICK F : graphicsQueue \in Seq(F)
  BY DEF ViewInv, IsQueue
<1>2. graphicsQueue \o s \in Seq(F \cup E)
  BY <1>1
<1>3. Viewed(view, graphicsQueue \o s) = Viewed(Viewed(view, graphicsQueue), s)
  BY <1>1, ViewedConcat
<1> QED BY <1>2, <1>3 DEF IsQueue

\* spawnEntity() of an id nobody has.
LEMMA SpawnKeeps ==
    ASSUME EntityInv, NEW id, id \notin DOMAIN entities, NEW type, NEW pos, SpawnEntity(id, type, pos), view' = view
    PROVE  /\ ViewInv'
           /\ DOMAIN entities' = DOMAIN entities \cup {id} /\ IsFiniteSet(DOMAIN entities')
           /\ entities'[id].type = type
           /\ \A i \in DOMAIN entities : entities'[i] = entities[i]
           /\ \A i \in DOMAIN entities' : IsEntity(entities'[i])
<1> DEFINE x == CreateEntity(type, pos)
<1>1. x.type = type /\ IsEntity(x)
  BY DEF CreateEntity, EntityWith, IsEntity
<1> HIDE DEF x
<1>2. graphicsQueue' = Append(graphicsQueue, SpawnEvent(id, x)) /\ entities' = Entered(entities, id, x)
  BY DEF SpawnEntity, x
<1>3. /\ DOMAIN entities' = DOMAIN entities \cup {id} /\ entities'[id] = x
      /\ \A i \in DOMAIN entities : entities'[i] = entities[i]
  BY <1>2 DEF Entered
<1>4. IsFiniteSet(DOMAIN entities')
  BY <1>3, FS_AddElement DEF EntityInv, TablesInv
<1>5. \A i \in DOMAIN entities' : IsEntity(entities'[i])
  BY <1>1, <1>3 DEF EntityInv, TablesInv
<1>6. ViewInv'
  <2> DEFINE v == Viewed(view, graphicsQueue)
             u == Applied(v, SpawnEvent(id, x))
  <2>1. PICK F : graphicsQueue \in Seq(F)
    BY DEF EntityInv, ViewInv, IsQueue
  <2>2. graphicsQueue' = graphicsQueue \o <<SpawnEvent(id, x)>> /\ <<SpawnEvent(id, x)>> \in Seq({SpawnEvent(id, x)})
    BY <1>2, <2>1
  <2>3. IsQueue(graphicsQueue') /\ v' = u
    BY <2>2, PushedEvents, OneTold DEF EntityInv
  <2>4. Knows(v, DOMAIN entities) /\ \A i \in DOMAIN entities : entities[i].type # "player" => v.shown[i] = entities[i].pos
    BY DEF EntityInv, ViewInv, Follows
  <2> HIDE DEF v
  <2>5. /\ Knows(u, DOMAIN entities \cup {id}) /\ u.shown[id] = x.pos
        /\ \A i \in DOMAIN entities : u.shown[i] = v.shown[i]
    <3>1. PICK ids : ids = DOMAIN entities
      OBVIOUS
    <3>2. Knows(v, ids) /\ id \notin ids
      BY <2>4, <3>1
    <3>3. Knows(u, ids \cup {id}) /\ u.shown[id] = x.pos /\ \A i \in ids : u.shown[i] = v.shown[i]
      BY <3>2, SpawnTold DEF Knows
    <3> QED BY <3>1, <3>3
  <2> HIDE DEF u
  <2>6. Follows(u, entities')
    BY <1>3, <2>4, <2>5 DEF Follows
  <2> QED BY <2>3, <2>6 DEF ViewInv, v
<1> QED BY <1>1, <1>3, <1>4, <1>5, <1>6
\* despawnEntity() of some ids: they are gone from every table, and who knows
\* the entities after the events so far is told.
LEMMA DespawnKeeps ==
    ASSUME NEW g, NEW ids, IsFiniteSet(DOMAIN g.entities),
           \A i \in DOMAIN g.auth : i = 0 \/ i \in DOMAIN g.entities,
           g.local = 0 \/ g.local \in DOMAIN g.entities,
           IsQueue(g.events),
           NEW v, Knows(Viewed(v, g.events), DOMAIN g.entities),
           NEW d, d = Despawned(g, ids)
    PROVE  /\ IsQueue(d.events)
           /\ DOMAIN d.entities = DOMAIN g.entities \ ids /\ IsFiniteSet(DOMAIN d.entities)
           /\ \A id \in DOMAIN d.entities : d.entities[id] = g.entities[id]
           /\ \A i \in DOMAIN d.auth : i = 0 \/ i \in DOMAIN d.entities
           /\ d.local = 0 \/ d.local \in DOMAIN d.entities
           /\ Knows(Viewed(v, d.events), DOMAIN d.entities)
           /\ \A id \in DOMAIN d.entities : Viewed(v, d.events).shown[id] = Viewed(v, g.events).shown[id]
<1>0. PICK E : g.events \in Seq(E)
  BY DEF IsQueue
<1>1. PICK all, gone : all = DOMAIN g.entities /\ gone = ids \cap all
  OBVIOUS
<1>2. PICK S : S = {DespawnEvent(id) : id \in gone}
  OBVIOUS
<1>3. PICK s : s = SetToSeq(S)
  OBVIOUS
<1>5. /\ d.entities = Restrict(g.entities, all \ gone)
      /\ d.auth = Restrict(g.auth, DOMAIN g.auth \ gone)
      /\ d.local = IF g.local \in gone THEN 0 ELSE g.local
      /\ d.events = g.events \o s
  BY <1>1, <1>2, <1>3 DEF Despawned
<1>6. IsFiniteSet(S)
  <2> DEFINE f == [id \in gone |-> DespawnEvent(id)]
  <2>1. IsFiniteSet(gone)
    BY <1>1, FS_Intersection
  <2>2. S = {f[id] : id \in gone}
    BY <1>2
  <2> HIDE DEF f
  <2> QED BY <2>1, <2>2, ImageFinite
<1>7. /\ s \in Seq(S)
      /\ \A x \in S : \E i \in 1..Len(s) : s[i] = x
      /\ \A i, j \in 1..Len(s) : s[i] = s[j] => i = j
  BY <1>3, <1>6, SetToSeqLists
<1>8. PICK u : u = Viewed(v, g.events)
  OBVIOUS
<1>9. Viewed(v, d.events) = Viewed(u, s)
  BY <1>0, <1>5, <1>7, <1>8, ViewedConcat
<1>10. Knows(Viewed(u, s), all \ gone) /\ \A id \in all \ gone : Viewed(u, s).shown[id] = u.shown[id]
  <2>1. AreDespawns(s, gone)
    BY <1>2, <1>7 DEF AreDespawns, IsQueue
  <2>2. Knows(u, all) /\ gone \subseteq all
    BY <1>1, <1>8
  <2>3. PICK w : w = Viewed(u, s)
    OBVIOUS
  <2>4. KnowsRest(w, u, all, gone)
    BY <2>1, <2>2, <2>3, DespawnsTold
  <2> QED BY <2>3, <2>4 DEF KnowsRest
<1>11. DOMAIN d.entities = all \ gone /\ all \ gone = all \ ids /\ \A id \in all \ gone : d.entities[id] = g.entities[id]
  BY <1>1, <1>5 DEF Restrict
<1>12. IsFiniteSet(DOMAIN d.entities)
  <2>1. IsFiniteSet(all) /\ DOMAIN d.entities \in SUBSET all
    BY <1>1, <1>11
  <2> QED BY <2>1, FS_Subset
<1>13. /\ \A i \in DOMAIN d.auth : i = 0 \/ i \in DOMAIN d.entities
       /\ d.local = 0 \/ d.local \in DOMAIN d.entities
  <2>1. DOMAIN d.auth = DOMAIN g.auth \ gone
    BY <1>5 DEF Restrict
  <2> QED BY <1>1, <1>5, <1>11, <2>1
<1>14. IsQueue(d.events)
  <2>1. d.events \in Seq(E \cup S)
    BY <1>0, <1>5, <1>7
  <2> QED BY <2>1 DEF IsQueue
<1> QED BY <1>1, <1>8, <1>9, <1>10, <1>11, <1>12, <1>13, <1>14

\* despawnEntity() on the tables as they are, after some events.
LEMMA DespawnedNow ==
    ASSUME EntityInv, NEW g, NEW ids,
           g.local = localPlayerId /\ g.auth = playerAuthorities,
           DOMAIN g.entities = DOMAIN entities,
           \A id \in DOMAIN entities : IsEntity(g.entities[id]) /\ g.entities[id].type = entities[id].type,
           IsQueue(g.events),
           LET u == Viewed(Viewed(view, graphicsQueue), g.events)
           IN  /\ Knows(u, DOMAIN entities)
               /\ \A id \in DOMAIN entities \ ids : g.entities[id].type # "player" => u.shown[id] = g.entities[id].pos,
           SetTables(Despawned(g, ids)), view' = view
    PROVE  /\ ViewInv'
           /\ IsFiniteSet(DOMAIN entities') /\ DOMAIN entities' \subseteq DOMAIN entities
           /\ \A id \in DOMAIN entities' : IsEntity(entities'[id]) /\ entities'[id].type = entities[id].type
           /\ AuthoritiesAreLive'
<1>1. PICK v, d : v = Viewed(view, graphicsQueue) /\ d = Despawned(g, ids)
  OBVIOUS
<1>2. entities' = d.entities /\ playerAuthorities' = d.auth /\ localPlayerId' = d.local /\ graphicsQueue' = graphicsQueue \o d.events
  BY <1>1 DEF SetTables
<1>3. IsFiniteSet(DOMAIN entities) /\ DOMAIN playerAuthorities \cup {localPlayerId} \subseteq DOMAIN entities \cup {0}
  BY DEF EntityInv, TablesInv, AuthoritiesAreLive
<1>4. Knows(Viewed(v, g.events), DOMAIN g.entities)
  BY <1>1
<1>5. /\ IsQueue(d.events)
      /\ DOMAIN d.entities = DOMAIN g.entities \ ids /\ IsFiniteSet(DOMAIN d.entities)
      /\ \A id \in DOMAIN d.entities : d.entities[id] = g.entities[id]
      /\ \A i \in DOMAIN d.auth : i = 0 \/ i \in DOMAIN d.entities
      /\ d.local = 0 \/ d.local \in DOMAIN d.entities
      /\ Knows(Viewed(v, d.events), DOMAIN d.entities)
      /\ \A id \in DOMAIN d.entities : Viewed(v, d.events).shown[id] = Viewed(v, g.events).shown[id]
  <2>1. /\ IsFiniteSet(DOMAIN g.entities)
        /\ \A i \in DOMAIN g.auth : i = 0 \/ i \in DOMAIN g.entities
        /\ g.local = 0 \/ g.local \in DOMAIN g.entities
    BY <1>3
  <2> QED BY <1>1, <1>4, <2>1, DespawnKeeps
<1>6. IsQueue(graphicsQueue') /\ Viewed(view, graphicsQueue)' = Viewed(v, d.events)
  BY <1>1, <1>2, <1>5, PushedEvents DEF EntityInv, IsQueue
<1>7. Follows(Viewed(v, d.events), entities')
  BY <1>1, <1>2, <1>5 DEF Follows
<1>8. ViewInv'
  BY <1>6, <1>7 DEF ViewInv
<1> QED BY <1>2, <1>5, <1>8 DEF AuthoritiesAreLive
\* What a tick does to an entity leaves it one of its type.
LEMMA TickedKeeps ==
    ASSUME NEW e, IsEntity(e), NEW x, x = Transferred(Moved(Ticked(e)))
    PROVE  IsEntity(x) /\ x.type = e.type
<1>1. PICK t : t = Ticked(e)
  OBVIOUS
<1>2. IsEntity(t) /\ t.type = e.type
  <2>1. PICK age, old : age = e.age + 1 /\ old = (e.age + 1 >= ItemMaxAge)
    OBVIOUS
  <2>2. old \in BOOLEAN
    BY <2>1
  <2>3. t = e \/ t = [e EXCEPT !.age = age, !.removed = old]
    BY <1>1, <2>1 DEF Ticked
  <2> QED BY <2>2, <2>3 DEF IsEntity
<1>3. PICK m : m = Moved(t)
  OBVIOUS
<1>4. IsEntity(m) /\ m.type = t.type
  <2>1. CASE ~IsAlive(t)
    BY <1>2, <1>3, <2>1 DEF Moved
  <2>2. CASE IsAlive(t)
    <3>1. PICK f : f = ApplyGravity(t, setup.gravity * setup.tick)
      OBVIOUS
    <3>2. IsEntity(f) /\ f.type = t.type
      BY <1>2, <3>1 DEF ApplyGravity, IsEntity
    <3>3. PICK b : b = MoveBody(blocks, f, Times(f.vel, setup.tick))
      OBVIOUS
    <3>4. IsEntity(b) /\ b.type = f.type
      <4>1. PICK way : way = Times(f.vel, setup.tick)
        OBVIOUS
      <4>2. PICK made : made = Movement(blocks, f, way)
        OBVIOUS
      <4>3. b = [f EXCEPT !.pos = Plus(@, made), !.ground = way[2] < -Margin /\ made[2] > way[2] + Margin]
        BY <3>3, <4>1, <4>2 DEF MoveBody
      <4> QED BY <3>2, <4>3 DEF IsEntity
    <3>5. m = [b EXCEPT !.ground = CheckOnGround(blocks, b)]
      BY <1>3, <2>2, <3>1, <3>3 DEF Moved
    <3> QED BY <3>2, <3>4, <3>5 DEF IsEntity
  <2> QED BY <2>1, <2>2
<1>5. x = [m EXCEPT !.chunk = ChunkOf(BlockAt(m.pos))]
  BY <1>1, <1>3 DEF Transferred
<1> QED BY <1>2, <1>4, <1>5 DEF IsEntity

\* What a tick tells: of the living where they are.
LEMMA PublishedSnapshots ==
    ASSUME NEW ents, IsFiniteSet(DOMAIN ents), NEW tick, NEW alive, alive = {id \in DOMAIN ents : IsAlive(ents[id])}
    PROVE  AreSnapshots(Published(ents, tick), alive, ents, tick)
<1>1. PICK S : S = {SnapshotEvent(id, ents[id], tick) : id \in alive}
  OBVIOUS
<1>2. IsFiniteSet(S)
  <2> DEFINE f == [id \in alive |-> SnapshotEvent(id, ents[id], tick)]
  <2>1. IsFiniteSet(alive)
    <3>1. alive \in SUBSET DOMAIN ents
      OBVIOUS
    <3> QED BY <3>1, FS_Subset
  <2>2. S = {f[id] : id \in alive}
    BY <1>1
  <2> HIDE DEF f
  <2> QED BY <2>1, <2>2, ImageFinite
<1>3. PICK s : s = SetToSeq(S)
  OBVIOUS
<1>4. s \in Seq(S) /\ \A x \in S : \E i \in 1..Len(s) : s[i] = x
  BY <1>2, <1>3, SetToSeqLists
<1>5. s = Published(ents, tick)
  BY <1>1, <1>3 DEF Published
<1>6. AreSnapshots(s, alive, ents, tick)
  BY <1>1, <1>4 DEF AreSnapshots, IsQueue
<1> QED BY <1>5, <1>6

\* And the corrections are of entities there are.
LEMMA CorrectionsKnown ==
    ASSUME NEW ents, IsFiniteSet(DOMAIN ents)
    PROVE  AreCorrections(Corrections(ents), DOMAIN ents)
<1>1. PICK far : far = {id \in DOMAIN playerAuthorities \cap DOMAIN ents : Far(ents[id].pos, playerAuthorities[id].pos)}
  OBVIOUS
<1>2. PICK S : S = {CorrectionEvent(id, ents[id]) : id \in far}
  OBVIOUS
<1>3. IsFiniteSet(S)
  <2> DEFINE f == [id \in far |-> CorrectionEvent(id, ents[id])]
  <2>1. IsFiniteSet(far)
    <3>1. far \in SUBSET DOMAIN ents
      BY <1>1
    <3> QED BY <3>1, FS_Subset
  <2>2. S = {f[id] : id \in far}
    BY <1>2
  <2> HIDE DEF f
  <2> QED BY <2>1, <2>2, ImageFinite
<1>4. PICK s : s = SetToSeq(S)
  OBVIOUS
<1>5. s \in Seq(S)
  BY <1>3, <1>4, SetToSeqLists
<1>6. s = Corrections(ents)
  BY <1>1, <1>2, <1>4 DEF Corrections
<1>7. AreCorrections(s, DOMAIN ents)
  <2>1. ASSUME NEW i \in 1..Len(s) PROVE \E id \in DOMAIN ents : \E x : s[i] = CorrectionEvent(id, x)
    <3>1. PICK id \in far : s[i] = CorrectionEvent(id, ents[id])
      BY <1>2, <1>5
    <3> QED BY <1>1, <3>1
  <2> QED BY <1>5, <2>1 DEF AreCorrections, IsQueue
<1> QED BY <1>6, <1>7

\* tick().
LEMMA TickKeeps ==
    ASSUME EntityInv, Tick
    PROVE  /\ ViewInv'
           /\ IsFiniteSet(DOMAIN entities') /\ DOMAIN entities' \subseteq DOMAIN entities
           /\ \A id \in DOMAIN entities' : IsEntity(entities'[id]) /\ entities'[id].type = entities[id].type
           /\ AuthoritiesAreLive'
<1>1. PICK after : after = [id \in DOMAIN entities |-> Transferred(Moved(Ticked(entities[id])))]
  OBVIOUS
<1>2. PICK marked : marked = {id \in DOMAIN after : after[id].removed}
  OBVIOUS
<1>3. PICK c, p : c = (IF setup.validation THEN Corrections(after) ELSE <<>>) /\ p = Published(after, currentTick')
  OBVIOUS
<1>4. PICK g : g = [entities |-> after, auth |-> playerAuthorities, local |-> localPlayerId, events |-> c \o p]
  OBVIOUS
<1>5. SetTables(Despawned(g, marked)) /\ view' = view
  <2>1. g = Tables(after, c \o p)
    BY <1>4 DEF Tables
  <2> QED BY <1>1, <1>2, <1>3, <2>1 DEF Tick
<1>6. DOMAIN after = DOMAIN entities /\ IsFiniteSet(DOMAIN after)
  BY <1>1 DEF EntityInv, TablesInv
<1>7. \A id \in DOMAIN entities : IsEntity(after[id]) /\ after[id].type = entities[id].type
  <2> TAKE id \in DOMAIN entities
  <2>1. after[id] = Transferred(Moved(Ticked(entities[id]))) /\ IsEntity(entities[id])
    BY <1>1 DEF EntityInv, TablesInv
  <2> QED BY <2>1, TickedKeeps
<1>8. PICK alive : alive = {id \in DOMAIN after : IsAlive(after[id])}
  OBVIOUS
<1>9. alive \subseteq DOMAIN entities /\ \A id \in DOMAIN entities : id \notin marked => id \in alive
  BY <1>2, <1>6, <1>8 DEF IsAlive
<1>10. PICK v, u, w : v = Viewed(view, graphicsQueue) /\ u = Viewed(v, c) /\ w = Viewed(u, p)
  OBVIOUS
<1>11. Knows(v, DOMAIN entities)
  BY <1>10 DEF EntityInv, ViewInv, Follows
<1>12. AreCorrections(c, DOMAIN entities)
  <2>1. CASE setup.validation
    BY <1>3, <1>6, <2>1, CorrectionsKnown
  <2>2. CASE ~setup.validation
    <3>1. c = <<>> /\ c \in Seq({}) /\ Len(c) = 0
      BY <1>3, <2>2
    <3> QED BY <3>1 DEF AreCorrections, IsQueue
  <2> QED BY <2>1, <2>2
<1>13. Knows(u, DOMAIN entities)
  BY <1>10, <1>11, <1>12, CorrectionsTold
<1>14. AreSnapshots(p, alive, after, currentTick')
  BY <1>3, <1>6, <1>8, PublishedSnapshots
<1>15. Knows(w, DOMAIN entities) /\ \A id \in alive : w.shown[id] = after[id].pos
  BY <1>9, <1>10, <1>13, <1>14, SnapshotsTold
<1>16. IsQueue(c \o p) /\ Viewed(v, c \o p) = w
  <2>1. PICK E : c \in Seq(E)
    BY <1>12 DEF AreCorrections, IsQueue
  <2>2. PICK F : p \in Seq(F)
    BY <1>14 DEF AreSnapshots, IsQueue
  <2>3. c \o p \in Seq(E \cup F)
    BY <2>1, <2>2
  <2> QED BY <1>10, <2>1, <2>2, <2>3, ViewedConcat DEF IsQueue
<1>17. /\ g.local = localPlayerId /\ g.auth = playerAuthorities /\ DOMAIN g.entities = DOMAIN entities /\ IsQueue(g.events)
       /\ \A id \in DOMAIN entities : IsEntity(g.entities[id]) /\ g.entities[id].type = entities[id].type
       /\ Viewed(Viewed(view, graphicsQueue), g.events) = w
  BY <1>4, <1>6, <1>7, <1>10, <1>16
<1>18. \A id \in DOMAIN entities \ marked : g.entities[id].type # "player" => w.shown[id] = g.entities[id].pos
  BY <1>4, <1>9, <1>15
<1> QED BY <1>5, <1>15, <1>17, <1>18, DespawnedNow
\* Where entities are entered: the ids in the tables stay apart, and the
\* player's is no other entity's.
LEMMA TablesGrow ==
    ASSUME EntityInv, NEW id, id = nextEntityId \/ id \in setup.ids, id \notin DOMAIN entities, NEW type, NEW pos,
           Call("spawn") \/ Call("player"), SpawnEntity(id, type, pos), view' = view, setup' = setup,
           nextEntityId' = IF id = nextEntityId THEN nextEntityId + 1 ELSE nextEntityId
    PROVE  /\ ViewInv'
           /\ DOMAIN entities' = DOMAIN entities \cup {id} /\ entities'[id].type = type
           /\ \A i \in DOMAIN entities : entities'[i] = entities[i]
           /\ setup' \in Setups /\ calls' \in 0..setup'.maxCalls /\ nextEntityId' \in 1..(calls' + 1)
           /\ IsFiniteSet(DOMAIN entities') /\ DOMAIN entities' \subseteq 1..(nextEntityId' - 1) \cup setup'.ids
           /\ \A i \in DOMAIN entities' : IsEntity(entities'[i])
<1>1. /\ setup \in Setups /\ calls \in 0..setup.maxCalls /\ nextEntityId \in 1..(calls + 1)
      /\ DOMAIN entities \subseteq 1..(nextEntityId - 1) \cup setup.ids
  BY DEF EntityInv, TablesInv
<1>2. /\ ViewInv' /\ DOMAIN entities' = DOMAIN entities \cup {id} /\ IsFiniteSet(DOMAIN entities')
      /\ entities'[id].type = type /\ \A i \in DOMAIN entities : entities'[i] = entities[i]
      /\ \A i \in DOMAIN entities' : IsEntity(entities'[i])
  BY SpawnKeeps
<1>3. setup.maxCalls \in Nat /\ setup.ids \subseteq Nat /\ \A i \in setup.ids : i > setup.maxCalls + 1
  BY <1>1, EntityAssumption
<1>4. calls < setup.maxCalls /\ calls' = calls + 1
  BY DEF Call
<1>5. nextEntityId \notin setup.ids
  BY <1>1, <1>3
<1>6. calls' \in 0..setup'.maxCalls /\ nextEntityId' \in 1..(calls' + 1)
  BY <1>1, <1>3, <1>4
<1>7. DOMAIN entities' \subseteq 1..(nextEntityId' - 1) \cup setup'.ids
  <2>1. CASE id = nextEntityId
    BY <1>1, <1>2, <2>1
  <2>2. CASE id # nextEntityId
    BY <1>1, <1>2, <2>2
  <2> QED BY <2>1, <2>2
<1> QED BY <1>1, <1>2, <1>6, <1>7

\* spawnEntity of a type keeps it.
LEMMA SpawnStep == EntityInv /\ (\E type \in setup.types, pos \in setup.spots : Spawn(type, pos)) => EntityInv'
<1> SUFFICES ASSUME EntityInv, NEW type, NEW pos, Spawn(type, pos) PROVE EntityInv'
  OBVIOUS
<1>1. /\ Call("spawn") /\ SpawnEntity(nextEntityId, type, pos) /\ nextEntityId' = nextEntityId + 1
      /\ setup' = setup /\ playerId' = playerId /\ commands' = commands /\ view' = view
      /\ localPlayerId' = localPlayerId /\ playerAuthorities' = playerAuthorities
  BY DEF Spawn
<1>2. nextEntityId \notin DOMAIN entities /\ nextEntityId \in Nat /\ playerId \in 0..(nextEntityId - 1)
  BY EntityAssumption DEF EntityInv, TablesInv, PlayerInv
<1>3. /\ ViewInv'
      /\ DOMAIN entities' = DOMAIN entities \cup {nextEntityId}
      /\ \A i \in DOMAIN entities : entities'[i] = entities[i]
      /\ setup' \in Setups /\ calls' \in 0..setup'.maxCalls /\ nextEntityId' \in 1..(calls' + 1)
      /\ IsFiniteSet(DOMAIN entities') /\ DOMAIN entities' \subseteq 1..(nextEntityId' - 1) \cup setup'.ids
      /\ \A i \in DOMAIN entities' : IsEntity(entities'[i])
  BY <1>1, <1>2, TablesGrow
<1>4. AuthoritiesAreLive'
  BY <1>1, <1>3 DEF EntityInv, TablesInv, AuthoritiesAreLive
<1>5. PlayerInv'
  <2>1. playerId' \in 0..(nextEntityId' - 1)
    BY <1>1, <1>2
  <2>2. playerId' \in DOMAIN entities' => entities'[playerId'].type = "player"
    BY <1>1, <1>2, <1>3 DEF EntityInv, PlayerInv
  <2> QED BY <1>1, <2>1, <2>2 DEF EntityInv, PlayerInv
<1> QED BY <1>3, <1>4, <1>5 DEF EntityInv, TablesInv

\* spawnEntity of an entity built by its caller keeps it.
LEMMA SpawnBuiltStep ==
    EntityInv /\ (\E type \in setup.types, pos \in setup.spots : \E id \in setup.ids : SpawnBuilt(id, type, pos)) => EntityInv'
<1> SUFFICES ASSUME EntityInv, NEW type, NEW pos, NEW id \in setup.ids, SpawnBuilt(id, type, pos) PROVE EntityInv'
  OBVIOUS
<1>1. /\ Call("spawn") /\ SpawnEntity(id, type, pos) /\ nextEntityId' = nextEntityId /\ id \notin DOMAIN entities
      /\ setup' = setup /\ playerId' = playerId /\ commands' = commands /\ view' = view
      /\ localPlayerId' = localPlayerId /\ playerAuthorities' = playerAuthorities
  BY DEF SpawnBuilt
<1>2. id > nextEntityId /\ nextEntityId \in Nat /\ id \in Nat /\ playerId \in 0..(nextEntityId - 1)
  <2>1. setup \in Setups /\ calls \in 0..setup.maxCalls /\ nextEntityId \in 1..(calls + 1) /\ playerId \in 0..(nextEntityId - 1)
    BY DEF EntityInv, TablesInv, PlayerInv
  <2>2. id \in Nat /\ id > setup.maxCalls + 1 /\ setup.maxCalls \in Nat
    BY <2>1, EntityAssumption
  <2> QED BY <2>1, <2>2
<1>3. /\ ViewInv'
      /\ DOMAIN entities' = DOMAIN entities \cup {id}
      /\ \A i \in DOMAIN entities : entities'[i] = entities[i]
      /\ setup' \in Setups /\ calls' \in 0..setup'.maxCalls /\ nextEntityId' \in 1..(calls' + 1)
      /\ IsFiniteSet(DOMAIN entities') /\ DOMAIN entities' \subseteq 1..(nextEntityId' - 1) \cup setup'.ids
      /\ \A i \in DOMAIN entities' : IsEntity(entities'[i])
  <2>1. id # nextEntityId
    BY <1>2
  <2> QED BY <1>1, <2>1, TablesGrow
<1>4. AuthoritiesAreLive'
  BY <1>1, <1>3 DEF EntityInv, TablesInv, AuthoritiesAreLive
<1>5. PlayerInv'
  <2>1. playerId # id
    BY <1>2
  <2>2. playerId' \in DOMAIN entities' => entities'[playerId'].type = "player"
    BY <1>1, <1>3, <2>1 DEF EntityInv, PlayerInv
  <2> QED BY <1>1, <2>2 DEF EntityInv, PlayerInv
<1> QED BY <1>3, <1>4, <1>5 DEF EntityInv, TablesInv

\* spawnPlayer keeps it.
LEMMA SpawnPlayerStep == EntityInv /\ SpawnPlayer => EntityInv'
<1> SUFFICES ASSUME EntityInv, SpawnPlayer PROVE EntityInv'
  OBVIOUS
<1>1. /\ Call("player") /\ playerId = 0 /\ SpawnEntity(nextEntityId, "player", body.pos) /\ nextEntityId' = nextEntityId + 1
      /\ playerAuthorities' = Entered(playerAuthorities, nextEntityId, Authority(body.pos, 0))
      /\ setup' = setup /\ playerId' = nextEntityId /\ localPlayerId' = nextEntityId /\ commands' = commands /\ view' = view
  BY DEF SpawnPlayer
<1>2. nextEntityId \notin DOMAIN entities /\ nextEntityId \in Nat
  BY EntityAssumption DEF EntityInv, TablesInv
<1>3. /\ ViewInv'
      /\ DOMAIN entities' = DOMAIN entities \cup {nextEntityId} /\ entities'[nextEntityId].type = "player"
      /\ setup' \in Setups /\ calls' \in 0..setup'.maxCalls /\ nextEntityId' \in 1..(calls' + 1)
      /\ IsFiniteSet(DOMAIN entities') /\ DOMAIN entities' \subseteq 1..(nextEntityId' - 1) \cup setup'.ids
      /\ \A i \in DOMAIN entities' : IsEntity(entities'[i])
  BY <1>1, <1>2, TablesGrow
<1>4. AuthoritiesAreLive'
  <2>1. DOMAIN playerAuthorities' = DOMAIN playerAuthorities \cup {nextEntityId}
    BY <1>1 DEF Entered
  <2> QED BY <1>1, <1>3, <2>1 DEF EntityInv, TablesInv, AuthoritiesAreLive
<1>5. PlayerInv'
  <2>1. playerId' \in 0..(nextEntityId' - 1)
    BY <1>1, <1>2
  <2>2. \A i \in 1..Len(commands) : commands[i].type \in {"state", "place", "break"} /\ commands[i].type # "state"
    BY <1>1 DEF EntityInv, PlayerInv
  <2>3. IsQueue(commands)
    BY DEF EntityInv, PlayerInv
  <2> QED BY <1>1, <1>3, <2>1, <2>2, <2>3 DEF PlayerInv
<1> QED BY <1>3, <1>4, <1>5 DEF EntityInv, TablesInv
\* A call is counted.
LEMMA Counted ==
    ASSUME EntityInv, NEW name, Call(name), setup' = setup, nextEntityId' = nextEntityId
    PROVE  setup' \in Setups /\ calls' \in 0..setup'.maxCalls /\ nextEntityId' \in 1..(calls' + 1)
<1>1. setup \in Setups /\ calls \in 0..setup.maxCalls /\ nextEntityId \in 1..(calls + 1)
  BY DEF EntityInv, TablesInv
<1> QED BY <1>1, EntityAssumption DEF Call

\* Despawning, and ticks.
LEMMA RemovalKeeps ==
    ASSUME EntityInv, NEW name, Call(name), setup' = setup, nextEntityId' = nextEntityId,
           playerId' = playerId, commands' = commands,
           ViewInv', IsFiniteSet(DOMAIN entities'), DOMAIN entities' \subseteq DOMAIN entities,
           \A id \in DOMAIN entities' : IsEntity(entities'[id]) /\ entities'[id].type = entities[id].type,
           AuthoritiesAreLive'
    PROVE  EntityInv'
<1>1. setup' \in Setups /\ calls' \in 0..setup'.maxCalls /\ nextEntityId' \in 1..(calls' + 1)
  BY Counted
<1>2. TablesInv'
  BY <1>1 DEF EntityInv, TablesInv
<1>3. PlayerInv'
  BY DEF EntityInv, PlayerInv
<1> QED BY <1>2, <1>3 DEF EntityInv

\* despawnEntity keeps it.
LEMMA DespawnStep == EntityInv /\ (\E id \in DOMAIN entities : Despawn(id)) => EntityInv'
<1> SUFFICES ASSUME EntityInv, NEW id \in DOMAIN entities, Despawn(id) PROVE EntityInv'
  OBVIOUS
<1>1. /\ Call("despawn") /\ SetTables(Despawned(Tables(entities, <<>>), {id}))
      /\ setup' = setup /\ playerId' = playerId /\ commands' = commands /\ nextEntityId' = nextEntityId /\ view' = view
  BY DEF Despawn
<1>2. PICK g, gone : g = Tables(entities, <<>>) /\ gone = {id}
  OBVIOUS
<1>3. PICK v : v = Viewed(view, graphicsQueue)
  OBVIOUS
<1>4. /\ g.local = localPlayerId /\ g.auth = playerAuthorities /\ DOMAIN g.entities = DOMAIN entities
      /\ g.entities = entities /\ g.events = <<>>
  BY <1>2 DEF Tables
<1>5. \A i \in DOMAIN entities : IsEntity(entities[i])
  BY DEF EntityInv, TablesInv
<1>6. Knows(v, DOMAIN entities) /\ \A i \in DOMAIN entities : entities[i].type # "player" => v.shown[i] = entities[i].pos
  BY <1>3 DEF EntityInv, ViewInv, Follows
<1>7. IsQueue(g.events)
  <2>1. g.events \in Seq({})
    BY <1>4
  <2> QED BY <2>1 DEF IsQueue
<1>8. Viewed(Viewed(view, graphicsQueue), g.events) = v
  BY <1>3, <1>4, NothingTold
<1>9. /\ ViewInv'
      /\ IsFiniteSet(DOMAIN entities') /\ DOMAIN entities' \subseteq DOMAIN entities
      /\ \A i \in DOMAIN entities' : IsEntity(entities'[i]) /\ entities'[i].type = entities[i].type
      /\ AuthoritiesAreLive'
  BY <1>1, <1>2, <1>4, <1>5, <1>6, <1>7, <1>8, DespawnedNow
<1> QED BY <1>1, <1>9, RemovalKeeps

\* A tick of the manager keeps it.
LEMMA TickStep == EntityInv /\ Tick => EntityInv'
<1> SUFFICES ASSUME EntityInv, Tick PROVE EntityInv'
  OBVIOUS
<1>1. Call("tick") /\ setup' = setup /\ playerId' = playerId /\ commands' = commands /\ nextEntityId' = nextEntityId
  BY DEF Tick
<1> QED BY <1>1, TickKeeps, RemovalKeeps

\* markForRemoval keeps it.
LEMMA MarkStep == EntityInv /\ (\E id \in DOMAIN entities : MarkForRemoval(id)) => EntityInv'
<1> SUFFICES ASSUME EntityInv, NEW id \in DOMAIN entities, MarkForRemoval(id) PROVE EntityInv'
  OBVIOUS
<1>1. /\ Call("despawn") /\ entities' = [entities EXCEPT ![id].removed = TRUE]
      /\ setup' = setup /\ playerId' = playerId /\ commands' = commands /\ nextEntityId' = nextEntityId
      /\ localPlayerId' = localPlayerId /\ playerAuthorities' = playerAuthorities /\ graphicsQueue' = graphicsQueue /\ view' = view
  BY DEF MarkForRemoval
<1>2. DOMAIN entities' = DOMAIN entities /\ IsFiniteSet(DOMAIN entities')
  BY <1>1 DEF EntityInv, TablesInv
<1>3. \A i \in DOMAIN entities : IsEntity(entities'[i]) /\ entities'[i].type = entities[i].type /\ entities'[i].pos = entities[i].pos
  BY <1>1 DEF EntityInv, TablesInv, IsEntity
<1>4. AuthoritiesAreLive'
  BY <1>1, <1>2 DEF EntityInv, TablesInv, AuthoritiesAreLive
<1>5. ViewInv'
  <2>1. PICK v : v = Viewed(view, graphicsQueue)
    OBVIOUS
  <2>2. Follows(v, entities')
    BY <1>2, <1>3, <2>1 DEF EntityInv, ViewInv, Follows
  <2> QED BY <1>1, <2>1, <2>2 DEF EntityInv, ViewInv
<1> QED BY <1>1, <1>2, <1>3, <1>4, <1>5, RemovalKeeps

\* What the main thread does to itself alone.
LEMMA MainStep ==
    ASSUME EntityInv, NEW name, Call(name), UNCHANGED <<setup, playerId, gameVars, view>>,
           commands' = commands \/ \E c : commands' = Append(commands, c) /\ c.type \in {"place", "break"}
    PROVE  EntityInv'
<1>1. /\ setup' = setup /\ playerId' = playerId /\ entities' = entities /\ nextEntityId' = nextEntityId
      /\ localPlayerId' = localPlayerId /\ playerAuthorities' = playerAuthorities
      /\ graphicsQueue' = graphicsQueue /\ view' = view
  BY DEF gameVars
<1>2. TablesInv'
  <2>1. setup' \in Setups /\ calls' \in 0..setup'.maxCalls /\ nextEntityId' \in 1..(calls' + 1)
    BY <1>1, Counted
  <2> QED BY <1>1, <2>1 DEF EntityInv, TablesInv, AuthoritiesAreLive
<1>3. PlayerInv'
  <2>1. CASE commands' = commands
    BY <1>1, <2>1 DEF EntityInv, PlayerInv
  <2>2. CASE \E c : commands' = Append(commands, c) /\ c.type \in {"place", "break"}
    <3>1. PICK c : commands' = Append(commands, c) /\ c.type \in {"place", "break"}
      BY <2>2
    <3>2. PICK S : commands \in Seq(S)
      BY DEF EntityInv, PlayerInv, IsQueue
    <3>3. commands' \in Seq(S \cup {c})
      BY <3>1, <3>2
    <3>4. \A i \in 1..Len(commands') : (i \in 1..Len(commands) /\ commands'[i] = commands[i]) \/ commands'[i] = c
      BY <3>1, <3>2
    <3>5. \A i \in 1..Len(commands') :
             /\ commands'[i].type \in {"state", "place", "break"}
             /\ commands'[i].type = "state" => commands'[i].id = playerId /\ playerId # 0
      BY <3>1, <3>4 DEF EntityInv, PlayerInv
    <3> QED BY <1>1, <3>3, <3>5 DEF EntityInv, PlayerInv, IsQueue
  <2> QED BY <2>1, <2>2
<1>4. ViewInv'
  BY <1>1 DEF EntityInv, ViewInv
<1> QED BY <1>2, <1>3, <1>4 DEF EntityInv

\* A frame sends the player's state and takes the events.
LEMMA FrameStep == EntityInv /\ (\E keys \in setup.keys : Frame(keys)) => EntityInv'
<1> SUFFICES ASSUME EntityInv, NEW keys, Frame(keys) PROVE EntityInv'
  OBVIOUS
<1>1. /\ Call("frame") /\ setup' = setup /\ playerId' = playerId /\ entities' = entities /\ nextEntityId' = nextEntityId
      /\ localPlayerId' = localPlayerId /\ playerAuthorities' = playerAuthorities
      /\ view' = Viewed(view, graphicsQueue) /\ graphicsQueue' = <<>>
  BY DEF Frame
<1>2. \/ commands' = commands
      \/ playerId # 0 /\ \E b : commands' = Append(commands, StateCommand(b))
  <2>1. PICK new : commands' = IF playerId = 0 THEN commands ELSE Append(commands, StateCommand(new.body))
    BY DEF Frame
  <2> QED BY <2>1
<1>3. TablesInv'
  <2>1. setup' \in Setups /\ calls' \in 0..setup'.maxCalls /\ nextEntityId' \in 1..(calls' + 1)
    BY <1>1, Counted
  <2> QED BY <1>1, <2>1 DEF EntityInv, TablesInv, AuthoritiesAreLive
<1>4. PlayerInv'
  <2>1. CASE commands' = commands
    BY <1>1, <2>1 DEF EntityInv, PlayerInv
  <2>2. CASE playerId # 0 /\ \E b : commands' = Append(commands, StateCommand(b))
    <3>1. PICK b : commands' = Append(commands, StateCommand(b))
      BY <2>2
    <3>2. PICK c : c = StateCommand(b)
      OBVIOUS
    <3>3. c.type = "state" /\ c.id = playerId
      BY <3>2 DEF StateCommand
    <3>4. PICK S : commands \in Seq(S)
      BY DEF EntityInv, PlayerInv, IsQueue
    <3>5. commands' \in Seq(S \cup {c})
      BY <3>1, <3>2, <3>4
    <3>6. \A i \in 1..Len(commands') : (i \in 1..Len(commands) /\ commands'[i] = commands[i]) \/ commands'[i] = c
      BY <3>1, <3>2, <3>4
    <3>7. \A i \in 1..Len(commands') :
             /\ commands'[i].type \in {"state", "place", "break"}
             /\ commands'[i].type = "state" => commands'[i].id = playerId /\ playerId # 0
      BY <2>2, <3>3, <3>6 DEF EntityInv, PlayerInv
    <3> QED BY <1>1, <3>5, <3>7 DEF EntityInv, PlayerInv, IsQueue
  <2> QED BY <1>2, <2>1, <2>2
<1>5. ViewInv'
  <2>1. PICK v : v = Viewed(view, graphicsQueue)
    OBVIOUS
  <2>2. Viewed(v, <<>>) = v /\ Follows(v, entities)
    BY <2>1, NothingTold DEF EntityInv, ViewInv
  <2>3. IsQueue(<<>>)
    <3>1. <<>> \in Seq({})
      OBVIOUS
    <3> QED BY <3>1 DEF IsQueue
  <2> QED BY <1>1, <2>1, <2>2, <2>3 DEF ViewInv
<1> QED BY <1>3, <1>4, <1>5 DEF EntityInv

\* The oldest command; the state sent is the player's.
LEMMA ExecuteStep == EntityInv /\ Execute => EntityInv'
<1> SUFFICES ASSUME EntityInv, Execute PROVE EntityInv'
  OBVIOUS
<1>1. PICK cmd : cmd = Head(commands)
  OBVIOUS
<1>2. PICK S : commands \in Seq(S)
  BY DEF EntityInv, PlayerInv, IsQueue
<1>3. commands # <<>> /\ cmd = commands[1] /\ 1 \in 1..Len(commands)
  BY <1>1, <1>2 DEF Execute
<1>4. /\ commands' = Tail(commands) /\ setup' = setup /\ playerId' = playerId /\ nextEntityId' = nextEntityId
      /\ localPlayerId' = localPlayerId /\ graphicsQueue' = graphicsQueue /\ view' = view /\ calls' = calls
  BY DEF Execute
<1>5. cmd.type \in {"state", "place", "break"} /\ (cmd.type = "state" => cmd.id = playerId)
  BY <1>3 DEF EntityInv, PlayerInv
<1>6. (HandlePlayerPosition(cmd) /\ cmd.id = playerId) \/ UNCHANGED <<playerAuthorities, entities>>
  BY <1>1, <1>5 DEF Execute
<1>7. /\ DOMAIN entities' = DOMAIN entities
      /\ \A i \in DOMAIN entities : IsEntity(entities'[i]) /\ entities'[i].type = entities[i].type
      /\ \A i \in DOMAIN entities : i # playerId => entities'[i].pos = entities[i].pos
  <2>1. \A i \in DOMAIN entities : IsEntity(entities[i])
    BY DEF EntityInv, TablesInv
  <2>2. \/ entities' = entities
        \/ entities' = [entities EXCEPT ![playerId] = [@ EXCEPT !.pos = cmd.pos, !.vel = cmd.vel, !.ground = cmd.ground]]
    BY <1>6 DEF HandlePlayerPosition
  <2> QED BY <2>1, <2>2 DEF IsEntity
<1>8. AuthoritiesAreLive'
  <2>1. DOMAIN playerAuthorities' \subseteq DOMAIN playerAuthorities \cup DOMAIN entities
    BY <1>6 DEF HandlePlayerPosition, Entered
  <2> QED BY <1>4, <1>7, <2>1 DEF EntityInv, TablesInv, AuthoritiesAreLive
<1>9. TablesInv'
  BY <1>4, <1>7, <1>8 DEF EntityInv, TablesInv
<1>10. PlayerInv'
  <2>1. commands' \in Seq(S)
    BY <1>2, <1>3, <1>4
  <2>2. \A i \in 1..Len(commands') : i + 1 \in 1..Len(commands) /\ commands'[i] = commands[i + 1]
    BY <1>2, <1>3, <1>4
  <2>3. \A i \in 1..Len(commands') :
           /\ commands'[i].type \in {"state", "place", "break"}
           /\ commands'[i].type = "state" => commands'[i].id = playerId /\ playerId # 0
    BY <2>2 DEF EntityInv, PlayerInv
  <2> QED BY <1>4, <1>7, <2>1, <2>3 DEF EntityInv, PlayerInv, IsQueue
<1>11. ViewInv'
  <2>1. PICK v : v = Viewed(view, graphicsQueue)
    OBVIOUS
  <2>2. Follows(v, entities')
    BY <1>7, <2>1 DEF EntityInv, ViewInv, PlayerInv, Follows
  <2> QED BY <1>4, <2>1, <2>2 DEF EntityInv, ViewInv
<1> QED BY <1>9, <1>10, <1>11 DEF EntityInv

\* A click sends what it does to a block.
LEMMA ClickStep == EntityInv /\ (\E aim \in setup.aims, button \in {"left", "right"} : Click(aim, button)) => EntityInv'
<1> SUFFICES ASSUME EntityInv, NEW aim, NEW button, Click(aim, button) PROVE EntityInv'
  OBVIOUS
<1>1. Call("click") /\ UNCHANGED <<setup, playerId, gameVars, view>>
  BY DEF Click
<1>2. commands' = commands \/ \E c : commands' = Append(commands, c) /\ c.type \in {"place", "break"}
  <2>1. PICK found, place :
           commands' = CASE button = "left" -> Append(commands, [type |-> "break", pos |-> found.block])
                         [] WouldIntersect(place, BodyBox(body)) /\ setup.placement = "block" -> commands
                         [] OTHER -> Append(commands, [type |-> "place", pos |-> place])
    BY DEF Click
  <2>2. PICK c, d : c = [type |-> "break", pos |-> found.block] /\ d = [type |-> "place", pos |-> place]
    OBVIOUS
  <2>3. c.type = "break" /\ d.type = "place"
    BY <2>2
  <2>4. commands' = commands \/ commands' = Append(commands, c) \/ commands' = Append(commands, d)
    BY <2>1, <2>2
  <2> QED BY <2>3, <2>4
<1> QED BY <1>1, <1>2, MainStep
\* Every step of the program keeps the invariant.
LEMMA EntityInvNext == EntityInv /\ [Next]_vars => EntityInv'
<1> SUFFICES ASSUME EntityInv, [Next]_vars PROVE EntityInv'
  OBVIOUS
<1>1. CASE \E type \in setup.types, pos \in setup.spots : Spawn(type, pos) \/ \E id \in setup.ids : SpawnBuilt(id, type, pos)
  BY <1>1, SpawnStep, SpawnBuiltStep
<1>2. CASE SpawnPlayer
  BY <1>2, SpawnPlayerStep
<1>3. CASE \E id \in DOMAIN entities : Despawn(id) \/ MarkForRemoval(id)
  BY <1>3, DespawnStep, MarkStep
<1>4. CASE Tick
  BY <1>4, TickStep
<1>5. CASE Execute
  BY <1>5, ExecuteStep
<1>6. CASE \E keys \in setup.keys : Frame(keys)
  BY <1>6, FrameStep
<1>7. CASE Jump
  <2>1. Call("jump") /\ UNCHANGED <<setup, playerId, gameVars, view>> /\ commands' = commands
    BY <1>7 DEF Jump, Input
  <2> QED BY <2>1, MainStep
<1>8. CASE ToggleFly
  <2>1. Call("fly") /\ UNCHANGED <<setup, playerId, gameVars, view>> /\ commands' = commands
    BY <1>8 DEF ToggleFly, Input
  <2> QED BY <2>1, MainStep
<1>9. CASE SwitchContext
  <2>1. Call("context") /\ UNCHANGED <<setup, playerId, gameVars, view>> /\ commands' = commands
    BY <1>9 DEF SwitchContext, Input
  <2> QED BY <2>1, MainStep
<1>10. CASE \E yaw \in 0..1, pitch \in -1..1 : LookAround(yaw, pitch)
  <2>1. Call("look") /\ UNCHANGED <<setup, playerId, gameVars, view>> /\ commands' = commands
    BY <1>10 DEF LookAround, Input
  <2> QED BY <2>1, MainStep
<1>11. CASE \E pos \in setup.spots : Teleport(pos)
  <2>1. Call("teleport") /\ UNCHANGED <<setup, playerId, gameVars, view>> /\ commands' = commands
    BY <1>11 DEF Teleport, Input
  <2> QED BY <2>1, MainStep
<1>12. CASE \E aim \in setup.aims, button \in {"left", "right"} : Click(aim, button)
  BY <1>12, ClickStep
<1>13. CASE UNCHANGED vars
  BY <1>13 DEF vars, gameVars, EntityInv, TablesInv, PlayerInv, ViewInv, AuthoritiesAreLive
<1> QED
  BY <1>1, <1>2, <1>3, <1>4, <1>5, <1>6, <1>7, <1>8, <1>9, <1>10, <1>11, <1>12, <1>13 DEF Next

\* Whatever is spawned, despawned, ticked and reported late, a consumer of the
\* graphics events knows every entity while it exists, each where it is, and no
\* authority and no local player is without its entity (entity_manager.cpp).
THEOREM Consistency == Spec => []EntitiesAreConsistent
<1>1. Spec => []EntityInv
  BY EntityInvInit, EntityInvNext, PTL DEF Spec
<1> QED
  BY <1>1, EntityInvImplies, PTL
-----------------------------------------------------------------------------

-----------------------------------------------------------------------------
(* The inventory: its slots and what one call changes in them *)

\* The smaller of two numbers.
LEMMA MinOfTwo == ASSUME NEW a \in Int, NEW b \in Int PROVE Min({a, b}) = IF a <= b THEN a ELSE b
<1>1. \A m \in {a, b} : (\A y \in {a, b} : m =< y) => m = IF a <= b THEN a ELSE b
  OBVIOUS
<1>2. \E m \in {a, b} : \A y \in {a, b} : m =< y
  OBVIOUS
<1> QED BY <1>1, <1>2 DEF Min

SlotOf(st, i) == GetSlot(st.inv, st.names, i)

\* A stack as getSlot returns it, and one that may be stored.
IsStack(s) == s = [type |-> s.type, count |-> s.count, durability |-> s.durability, metadata |-> s.metadata]
IsFull(s) == IsStack(s) /\ s.type \in ItemTypes /\ s.count \in 1..MaxStackSize[s.type]

\* Names are numbered once, and every slot has a number in use and a count
\* within the limit.
Numbered(ns) == ns \in Seq(ItemTypes) /\ \A i, j \in DOMAIN ns : ns[i] = ns[j] => i = j
Stored(st) ==
    /\ st = [inv |-> [size |-> st.inv.size, slots |-> st.inv.slots], names |-> st.names]
    /\ Numbered(st.names)
    /\ st.inv.size \in Nat /\ DOMAIN st.inv.slots \subseteq Nat
    /\ \A i \in DOMAIN st.inv.slots :
          /\ st.inv.slots[i].t \in DOMAIN st.names
          /\ st.inv.slots[i].c \in 1..MaxStackSize[st.names[st.inv.slots[i].t]]

\* getSlot finds a stack in a stored slot and none elsewhere.
LEMMA SlotIs ==
    ASSUME NEW st, Stored(st), NEW i
    PROVE  /\ i \in DOMAIN st.inv.slots => IsFull(SlotOf(st, i)) /\ ~StackIsEmpty(SlotOf(st, i))
           /\ i \notin DOMAIN st.inv.slots => SlotOf(st, i) = EmptyStack
<1>1. i \notin DOMAIN st.inv.slots => SlotOf(st, i) = EmptyStack
  BY DEF SlotOf, GetSlot
<1>2. ASSUME i \in DOMAIN st.inv.slots PROVE IsFull(SlotOf(st, i)) /\ ~StackIsEmpty(SlotOf(st, i))
  <2> DEFINE s == st.inv.slots[i]
  <2>1. s.t \in DOMAIN st.names /\ st.names \in Seq(ItemTypes)
    BY <1>2 DEF Stored, Numbered
  <2>2. st.names[s.t] \in ItemTypes
    BY <2>1
  <2>3. NameOf(st.names, s.t) = st.names[s.t] /\ st.names[s.t] # NoType
    BY <2>1, <2>2, InventoryAssumption DEF NameOf
  <2>4. SlotOf(st, i) = [type |-> st.names[s.t], count |-> s.c, durability |-> s.d, metadata |-> s.m]
    BY <1>2, <2>3 DEF SlotOf, GetSlot
  <2>5. s.c \in 1..MaxStackSize[st.names[s.t]] /\ MaxStackSize[st.names[s.t]] \in Nat
    BY <1>2, <2>2, InventoryAssumption DEF Stored
  <2>6. SlotOf(st, i).type = st.names[s.t] /\ SlotOf(st, i).count = s.c
    BY <2>4
  <2>7. IsStack(SlotOf(st, i))
    BY <2>4 DEF IsStack
  <2> HIDE DEF s
  <2> QED BY <2>2, <2>3, <2>5, <2>6, <2>7 DEF IsFull, StackIsEmpty
<1> QED BY <1>1, <1>2

\* A name is given a number once and keeps it.
LEMMA AssignedIs ==
    ASSUME NEW ns, Numbered(ns), NEW type \in ItemTypes, NEW more, more = Assigned(ns, type)
    PROVE  /\ Numbered(more) /\ DOMAIN ns \subseteq DOMAIN more /\ \A i \in DOMAIN ns : more[i] = ns[i]
           /\ IdIn(more, type) \in DOMAIN more /\ more[IdIn(more, type)] = type
<1>0. ns \in Seq(ItemTypes)
  BY DEF Numbered
<1>1. CASE Contains(ns, type)
  <2>1. more = ns /\ \E i \in DOMAIN more : more[i] = type
    BY <1>0, <1>1 DEF Assigned, Contains
  <2> QED BY <2>1 DEF IdIn
<1>2. CASE ~Contains(ns, type)
  <2>1. more = Append(ns, type) /\ \A i \in DOMAIN ns : ns[i] # type
    BY <1>0, <1>2 DEF Assigned, Contains
  <2>2. more \in Seq(ItemTypes) /\ DOMAIN more = 1..(Len(ns) + 1) /\ DOMAIN ns = 1..Len(ns) /\ Len(ns) \in Nat
    BY <1>0, <2>1
  <2>3. more[Len(ns) + 1] = type /\ \A i \in DOMAIN ns : more[i] = ns[i]
    BY <1>0, <2>1
  <2>4. \A i, j \in DOMAIN more : more[i] = more[j] => i = j
    BY <2>1, <2>2, <2>3 DEF Numbered
  <2>5. \E i \in DOMAIN more : more[i] = type
    BY <2>2, <2>3
  <2> QED BY <2>2, <2>3, <2>4, <2>5 DEF IdIn, Numbered
<1> QED BY <1>1, <1>2

\* setSlot: the slot has the stack, or is gone with an empty one; the others stay.
LEMMA SetSlotSets ==
    ASSUME NEW st, Stored(st), NEW i \in Nat, NEW stack, StackIsEmpty(stack) \/ IsFull(stack),
           NEW u, u = SetSlot(st, i, stack)
    PROVE  /\ Stored(u) /\ u.inv.size = st.inv.size
           /\ DOMAIN u.inv.slots \subseteq DOMAIN st.inv.slots \cup {i}
           /\ \A j : j # i => SlotOf(u, j) = SlotOf(st, j)
           /\ SlotOf(u, i) = IF StackIsEmpty(stack) THEN EmptyStack ELSE stack
<1>0. st = [inv |-> [size |-> st.inv.size, slots |-> st.inv.slots], names |-> st.names] /\ Numbered(st.names)
  BY DEF Stored
<1>1. CASE StackIsEmpty(stack)
  <2> DEFINE rest == [j \in DOMAIN st.inv.slots \ {i} |-> st.inv.slots[j]]
  <2>1. u = [inv |-> [size |-> st.inv.size, slots |-> rest], names |-> st.names]
    BY <1>0, <1>1 DEF SetSlot, Restrict
  <2>2. DOMAIN rest = DOMAIN st.inv.slots \ {i} /\ \A j \in DOMAIN rest : rest[j] = st.inv.slots[j]
    OBVIOUS
  <2> HIDE DEF rest
  <2>3. u.inv.slots = rest /\ u.names = st.names /\ u.inv.size = st.inv.size
    BY <2>1
  <2>4. Stored(u)
    BY <2>1, <2>2, <2>3 DEF Stored
  <2>5. \A j : j # i => SlotOf(u, j) = SlotOf(st, j)
    BY <2>2, <2>3 DEF SlotOf, GetSlot
  <2>6. SlotOf(u, i) = EmptyStack
    BY <2>2, <2>3 DEF SlotOf, GetSlot
  <2> QED BY <1>1, <2>2, <2>3, <2>4, <2>5, <2>6
<1>2. CASE ~StackIsEmpty(stack)
  <2>0. IsFull(stack)
    BY <1>2
  <2>1. PICK ns : ns = Assigned(st.names, stack.type)
    OBVIOUS
  <2>2. PICK slot : slot = [t |-> IdIn(ns, stack.type), c |-> stack.count, d |-> stack.durability, m |-> stack.metadata]
    OBVIOUS
  <2> DEFINE more == [j \in DOMAIN st.inv.slots \cup {i} |-> IF j = i THEN slot ELSE st.inv.slots[j]]
  <2>3. u = [inv |-> [size |-> st.inv.size, slots |-> more], names |-> ns]
    BY <1>0, <1>2, <2>1, <2>2 DEF SetSlot
  <2>4. DOMAIN more = DOMAIN st.inv.slots \cup {i} /\ more[i] = slot /\ \A j \in DOMAIN st.inv.slots : j # i => more[j] = st.inv.slots[j]
    OBVIOUS
  <2> HIDE DEF more
  <2>5. u.inv.slots = more /\ u.names = ns /\ u.inv.size = st.inv.size
    BY <2>3
  <2>6. /\ Numbered(ns) /\ DOMAIN st.names \subseteq DOMAIN ns /\ \A k \in DOMAIN st.names : ns[k] = st.names[k]
        /\ IdIn(ns, stack.type) \in DOMAIN ns /\ ns[IdIn(ns, stack.type)] = stack.type
    BY <1>0, <2>0, <2>1, AssignedIs DEF IsFull
  <2>7. slot.t \in DOMAIN ns /\ ns[slot.t] = stack.type /\ slot.c = stack.count /\ slot.d = stack.durability /\ slot.m = stack.metadata
    BY <2>2, <2>6
  <2>8. \A j \in DOMAIN more : more[j].t \in DOMAIN ns /\ more[j].c \in 1..MaxStackSize[ns[more[j].t]]
    BY <2>0, <2>4, <2>6, <2>7 DEF Stored, IsFull
  <2>9. Stored(u)
    BY <2>3, <2>4, <2>5, <2>6, <2>8 DEF Stored
  <2>10. ASSUME NEW j, j # i PROVE SlotOf(u, j) = SlotOf(st, j)
    <3>1. CASE j \in DOMAIN st.inv.slots
      <4>1. more[j] = st.inv.slots[j] /\ j \in DOMAIN more
        BY <2>4, <2>10, <3>1
      <4>2. st.inv.slots[j].t \in DOMAIN st.names
        BY <3>1 DEF Stored
      <4>3. NameOf(ns, more[j].t) = NameOf(st.names, st.inv.slots[j].t)
        BY <2>6, <4>1, <4>2 DEF NameOf
      <4> QED BY <2>5, <3>1, <4>1, <4>3 DEF SlotOf, GetSlot
    <3>2. CASE j \notin DOMAIN st.inv.slots
      <4>1. j \notin DOMAIN more
        BY <2>4, <2>10, <3>2
      <4> QED BY <2>5, <3>2, <4>1 DEF SlotOf, GetSlot
    <3> QED BY <3>1, <3>2
  <2>11. SlotOf(u, i) = stack
    <3>1. NameOf(ns, slot.t) = stack.type /\ stack.type # NoType
      BY <2>0, <2>7, InventoryAssumption DEF NameOf, IsFull
    <3>2. i \in DOMAIN more
      BY <2>4
    <3>3. SlotOf(u, i) = [type |-> stack.type, count |-> stack.count, durability |-> stack.durability, metadata |-> stack.metadata]
      BY <2>4, <2>5, <2>7, <3>1, <3>2 DEF SlotOf, GetSlot
    <3> QED BY <2>0, <3>3 DEF IsFull, IsStack
  <2> QED BY <1>2, <2>4, <2>5, <2>9, <2>10, <2>11
<1> QED BY <1>1, <1>2

\* One turn of a loop, for the slot i: a and u are what it carries before and
\* after; n items move between the caller and the slot.
Turn(pass, a, u, i, type) ==
    /\ u = [st |-> u.st, remaining |-> u.remaining] /\ Stored(u.st) /\ u.remaining \in 0..a.remaining
    /\ u.st.inv.size = a.st.inv.size /\ DOMAIN u.st.inv.slots \subseteq DOMAIN a.st.inv.slots \cup {i}
    /\ \A j : j # i => SlotOf(u.st, j) = SlotOf(a.st, j)
    /\ \A t \in ItemTypes :
          LET n == a.remaining - u.remaining
          IN  Held(SlotOf(u.st, i), t) = Held(SlotOf(a.st, i), t) + (IF t # type THEN 0 ELSE IF pass = "remove" THEN -n ELSE n)
    /\ u.remaining > 0 /\ pass = "fill" => Room(SlotOf(u.st, i), type) = 0
    /\ u.remaining > 0 /\ pass = "place" =>
          ~StackIsEmpty(SlotOf(u.st, i)) /\ (Room(SlotOf(a.st, i), type) = 0 => Room(SlotOf(u.st, i), type) = 0)

Carries(a) == a = [st |-> a.st, remaining |-> a.remaining] /\ Stored(a.st) /\ a.remaining \in Nat
Passes == {"fill", "place", "remove"}

\* A turn that moves nothing.
LEMMA NoTurn ==
    ASSUME NEW pass \in Passes, NEW a, Carries(a), NEW i \in Nat, NEW type \in ItemTypes,
           ItemsMoved(pass, SlotOf(a.st, i), a.remaining, type) = 0,
           a.remaining > 0 /\ pass = "fill" => Room(SlotOf(a.st, i), type) = 0,
           a.remaining > 0 /\ pass = "place" => ~StackIsEmpty(SlotOf(a.st, i)),
           NEW u, u = VisitSlot(pass, a, i, type)
    PROVE  Turn(pass, a, u, i, type)
<1>1. u = a
  BY DEF VisitSlot, SlotOf
<1>2. \A t \in ItemTypes : Held(SlotOf(a.st, i), t) \in Int
  <2>1. CASE i \in DOMAIN a.st.inv.slots
    BY <2>1, SlotIs, InventoryAssumption DEF Carries, IsFull, Held
  <2>2. CASE i \notin DOMAIN a.st.inv.slots
    BY <2>2, SlotIs DEF Carries, Held, EmptyStack
  <2> QED BY <2>1, <2>2
<1>3. a.remaining \in 0..a.remaining /\ a.remaining - a.remaining = 0
  BY DEF Carries
<1> QED BY <1>1, <1>2, <1>3 DEF Turn, Carries

\* A turn that moves n items, given what the slot holds then.
LEMMA OneTurn ==
    ASSUME NEW pass \in Passes, NEW a, Carries(a), NEW i \in Nat, NEW type \in ItemTypes,
           NEW s, s = SlotOf(a.st, i), NEW n, n = ItemsMoved(pass, s, a.remaining, type), n \in 1..a.remaining,
           NEW stack, stack = SlotAfter(pass, s, n, type), StackIsEmpty(stack) \/ IsFull(stack),
           NEW kept, kept = (IF StackIsEmpty(stack) THEN EmptyStack ELSE stack),
           \A t \in ItemTypes : Held(kept, t) = Held(s, t) + (IF t # type THEN 0 ELSE IF pass = "remove" THEN -n ELSE n),
           n < a.remaining /\ pass = "fill" => Room(kept, type) = 0,
           n < a.remaining /\ pass = "place" => ~StackIsEmpty(kept) /\ Room(kept, type) = 0,
           NEW u, u = VisitSlot(pass, a, i, type)
    PROVE  Turn(pass, a, u, i, type)
<1>1. PICK st : st = SetSlot(a.st, i, stack)
  OBVIOUS
<1>2. n # 0 /\ a.remaining \in Nat /\ n \in Nat
  BY DEF Carries
<1>3. u = [st |-> st, remaining |-> a.remaining - n]
  BY <1>1, <1>2 DEF VisitSlot, SlotOf
<1>4. /\ Stored(st) /\ st.inv.size = a.st.inv.size
      /\ DOMAIN st.inv.slots \subseteq DOMAIN a.st.inv.slots \cup {i}
      /\ \A j : j # i => SlotOf(st, j) = SlotOf(a.st, j)
      /\ SlotOf(st, i) = kept
  BY <1>1, SetSlotSets DEF Carries
<1>5. u.st = st /\ u.remaining = a.remaining - n
  BY <1>3
<1>6. u.remaining \in 0..a.remaining /\ a.remaining - u.remaining = n /\ (u.remaining > 0 => n < a.remaining)
  BY <1>2, <1>5
<1> QED BY <1>3, <1>4, <1>5, <1>6 DEF Turn

\* Every turn of the three loops is one of these.
LEMMA Turned ==
    ASSUME NEW pass \in Passes, NEW a, Carries(a), NEW i \in Nat, NEW type \in ItemTypes, NEW u, u = VisitSlot(pass, a, i, type)
    PROVE  Turn(pass, a, u, i, type)
<1>1. PICK s : s = SlotOf(a.st, i)
  OBVIOUS
<1>2. PICK n : n = ItemsMoved(pass, s, a.remaining, type)
  OBVIOUS
<1>3. PICK stack : stack = SlotAfter(pass, s, n, type)
  OBVIOUS
<1>4. PICK kept : kept = (IF StackIsEmpty(stack) THEN EmptyStack ELSE stack)
  OBVIOUS
<1>5. PICK max : max = MaxStackSize[type]
  OBVIOUS
<1>6. max \in Nat /\ max > 0 /\ a.remaining \in Nat /\ type # NoType
  BY <1>5, InventoryAssumption DEF Carries
<1>7. (IsFull(s) /\ ~StackIsEmpty(s)) \/ (s = EmptyStack /\ StackIsEmpty(s))
  <2>1. StackIsEmpty(EmptyStack)
    BY DEF StackIsEmpty, EmptyStack
  <2> QED BY <1>1, <2>1, SlotIs DEF Carries
<1>8. CASE pass = "fill"
  <2>1. n = Min({a.remaining, Room(s, type)})
    BY <1>2, <1>8 DEF ItemsMoved
  <2>2. CASE s.type = type /\ s.durability = 0 /\ s.metadata = <<>> /\ s.count < max
    <3>1. IsFull(s)
      BY <1>6, <1>7, <2>2 DEF EmptyStack
    <3>2. s.count \in Nat /\ s.count >= 1 /\ Room(s, type) = max - s.count /\ max - s.count \in Nat
      BY <1>5, <1>6, <2>2, <3>1 DEF IsFull, Room
    <3>3. n = IF a.remaining <= max - s.count THEN a.remaining ELSE max - s.count
      BY <1>6, <2>1, <3>2, MinOfTwo
    <3>4. stack = [type |-> type, count |-> s.count + n, durability |-> 0, metadata |-> <<>>]
      BY <1>3, <1>8, <2>2, <3>1 DEF SlotAfter, IsFull, IsStack
    <3>5. stack.count \in 1..max /\ stack.type = type /\ stack.durability = 0 /\ stack.metadata = <<>>
      BY <1>6, <3>2, <3>3, <3>4
    <3>6. IsFull(stack) /\ ~StackIsEmpty(stack) /\ kept = stack
      BY <1>4, <1>5, <1>6, <3>4, <3>5 DEF IsFull, IsStack, StackIsEmpty
    <3>7. \A t \in ItemTypes : Held(kept, t) = Held(s, t) + (IF t # type THEN 0 ELSE n)
      BY <1>6, <2>2, <3>2, <3>3, <3>4, <3>6 DEF Held
    <3>8. CASE n = 0
      <4>1. a.remaining = 0
        BY <1>6, <2>2, <3>2, <3>3, <3>8
      <4> QED BY <1>1, <1>2, <1>6, <1>8, <3>8, <4>1, NoTurn
    <3>9. CASE n # 0
      <4>1. n \in 1..a.remaining
        BY <1>6, <3>2, <3>3, <3>9
      <4>2. n < a.remaining => Room(kept, type) = 0
        BY <1>5, <1>6, <3>2, <3>3, <3>4, <3>6 DEF Room
      <4> QED BY <1>1, <1>2, <1>3, <1>4, <1>8, <3>6, <3>7, <4>1, <4>2, OneTurn
    <3> QED BY <3>8, <3>9
  <2>3. CASE ~(s.type = type /\ s.durability = 0 /\ s.metadata = <<>> /\ s.count < max)
    <3>1. Room(s, type) = 0
      BY <1>5, <2>3 DEF Room
    <3>2. n = 0
      BY <1>6, <2>1, <3>1, MinOfTwo
    <3> QED BY <1>1, <1>2, <1>8, <3>1, <3>2, NoTurn
  <2> QED BY <2>2, <2>3
<1>9. CASE pass = "place"
  <2>1. CASE StackIsEmpty(s)
    <3>0. s = EmptyStack
      BY <1>7, <2>1
    <3>1. n = Min({a.remaining, max})
      BY <1>2, <1>5, <1>9, <2>1 DEF ItemsMoved, NewStackCount
    <3>2. n = IF a.remaining <= max THEN a.remaining ELSE max
      BY <1>6, <3>1, MinOfTwo
    <3>3. stack = [type |-> type, count |-> n, durability |-> 0, metadata |-> <<>>]
      BY <1>3, <1>9 DEF SlotAfter, Stack, EmptyStack
    <3>4. CASE n = 0
      <4>1. a.remaining = 0
        BY <1>6, <3>2, <3>4
      <4> QED BY <1>1, <1>2, <1>6, <1>9, <3>4, <4>1, NoTurn
    <3>5. CASE n # 0
      <4>1. n \in 1..a.remaining /\ n \in 1..max
        BY <1>6, <3>2, <3>5
      <4>2. IsFull(stack) /\ ~StackIsEmpty(stack) /\ kept = stack
        BY <1>4, <1>5, <1>6, <3>3, <4>1 DEF IsFull, IsStack, StackIsEmpty
      <4>3. \A t \in ItemTypes : Held(kept, t) = Held(s, t) + (IF t # type THEN 0 ELSE n)
        BY <1>6, <3>0, <3>3, <4>1, <4>2, InventoryAssumption DEF Held, EmptyStack
      <4>4. n < a.remaining => ~StackIsEmpty(kept) /\ Room(kept, type) = 0
        BY <1>5, <1>6, <3>2, <3>3, <4>2 DEF Room
      <4> QED BY <1>1, <1>2, <1>3, <1>4, <1>9, <4>1, <4>2, <4>3, <4>4, OneTurn
    <3> QED BY <3>4, <3>5
  <2>2. CASE ~StackIsEmpty(s)
    <3>1. n = 0
      BY <1>2, <1>9, <2>2 DEF ItemsMoved
    <3> QED BY <1>1, <1>2, <1>9, <2>2, <3>1, NoTurn
  <2> QED BY <2>1, <2>2
<1>10. CASE pass = "remove"
  <2>1. CASE s.type = type
    <3>0. IsFull(s)
      BY <1>6, <1>7, <2>1 DEF EmptyStack
    <3>1. n = Min({a.remaining, s.count})
      BY <1>2, <1>10, <2>1 DEF ItemsMoved
    <3>2. s.count \in 1..max
      BY <1>5, <2>1, <3>0 DEF IsFull
    <3>3. n = IF a.remaining <= s.count THEN a.remaining ELSE s.count
      BY <1>6, <3>1, <3>2, MinOfTwo
    <3>4. stack = [type |-> type, count |-> s.count - n, durability |-> s.durability, metadata |-> s.metadata]
      BY <1>3, <1>10, <2>1, <3>0 DEF SlotAfter, IsFull, IsStack
    <3>5. stack.type = type /\ stack.count = s.count - n /\ IsStack(stack) /\ s.count - n \in 0..max
      BY <1>6, <3>2, <3>3, <3>4 DEF IsStack
    <3>6. StackIsEmpty(stack) <=> s.count - n = 0
      BY <1>6, <3>2, <3>3, <3>5 DEF StackIsEmpty
    <3>7. StackIsEmpty(stack) \/ IsFull(stack)
      BY <1>5, <1>6, <3>5, <3>6 DEF IsFull
    <3>8. kept.count = s.count - n /\ (kept.type = type \/ (kept.type = NoType /\ s.count - n = 0))
      BY <1>4, <3>5, <3>6 DEF EmptyStack
    <3>9. \A t \in ItemTypes : Held(kept, t) = Held(s, t) + (IF t # type THEN 0 ELSE -n)
      BY <1>6, <2>1, <3>2, <3>3, <3>8, InventoryAssumption DEF Held
    <3>10. CASE n = 0
      BY <1>1, <1>2, <1>10, <3>10, NoTurn
    <3>11. CASE n # 0
      <4>1. n \in 1..a.remaining
        BY <1>6, <3>2, <3>3, <3>11
      <4> QED BY <1>1, <1>2, <1>3, <1>4, <1>10, <3>7, <3>9, <4>1, OneTurn
    <3> QED BY <3>10, <3>11
  <2>2. CASE s.type # type
    <3>1. n = 0
      BY <1>2, <1>10, <2>2 DEF ItemsMoved
    <3> QED BY <1>1, <1>2, <1>10, <3>1, NoTurn
  <2> QED BY <2>1, <2>2
<1> QED BY <1>8, <1>9, <1>10 DEF Passes

-----------------------------------------------------------------------------
(* What countItem counts *)

\* c[k] is what is counted in the first k slots.
CountsUp(c, inv, ns, type) == c[0] = 0 /\ \A k \in 1..inv.size : c[k] = c[k - 1] + Held(GetSlot(inv, ns, k - 1), type)

\* There is such a function, and CountItem is its last value.
LEMMA CountItemCounts ==
    ASSUME NEW inv, NEW ns, NEW type, inv.size \in Nat
    PROVE  \E c : CountsUp(c, inv, ns, type) /\ CountItem(inv, ns, type) = c[inv.size]
<1> DEFINE n == inv.size
           G(g, k) == g = [i \in 0..k |-> IF i = 0 THEN 0 ELSE g[i - 1] + Held(GetSlot(inv, ns, i - 1), type)]
           K == {k \in Nat : \E g : G(g, k)}
<1>2. 0 \in K
  <2>1. G([i \in 0..0 |-> 0], 0)
    OBVIOUS
  <2> QED BY <2>1
<1>3. ASSUME NEW k \in 0..(n - 1), k \in K PROVE k + 1 \in K
  <2>1. PICK g : G(g, k)
    BY <1>3
  <2> DEFINE h == [i \in 0..(k + 1) |-> IF i = k + 1 THEN g[k] + Held(GetSlot(inv, ns, k), type) ELSE g[i]]
  <2>2. \A i \in 0..(k + 1) : h[i] = IF i = 0 THEN 0 ELSE h[i - 1] + Held(GetSlot(inv, ns, i - 1), type)
    <3> TAKE i \in 0..(k + 1)
    <3>1. CASE i = k + 1
      <4>1. i - 1 = k /\ k \in 0..(k + 1) /\ k # k + 1 /\ i # 0
        BY <3>1
      <4> QED BY <3>1, <4>1
    <3>2. CASE i # k + 1
      <4>1. i \in 0..k
        BY <3>2
      <4>2. g[i] = IF i = 0 THEN 0 ELSE g[i - 1] + Held(GetSlot(inv, ns, i - 1), type)
        BY <2>1, <4>1
      <4>3. i # 0 => i - 1 \in 0..(k + 1) /\ i - 1 # k + 1
        BY <4>1
      <4> QED BY <3>2, <4>2, <4>3
    <3> QED BY <3>1, <3>2
  <2>3. h = [i \in 0..(k + 1) |-> h[i]]
    OBVIOUS
  <2> HIDE DEF h
  <2>4. G(h, k + 1)
    BY <2>2, <2>3
  <2>5. k + 1 \in Nat
    BY <1>3
  <2>6. \E w : G(w, k + 1)
    BY <2>4
  <2> QED BY <2>5, <2>6
<1> HIDE DEF K, n
<1>4. n \in Nat
  BY DEF n
<1>5. n \in K
  <2>1. 0..n \subseteq K
    BY <1>2, <1>3, <1>4, UpTo
  <2> QED BY <1>4, <2>1
<1> DEFINE c == CHOOSE g : G(g, n)
<1>6. G(c, n)
  BY <1>5 DEF K
<1>7. CountItem(inv, ns, type) = c[n]
  BY DEF CountItem, n
<1> HIDE DEF c
<1>8. \A i \in 0..n : c[i] = IF i = 0 THEN 0 ELSE c[i - 1] + Held(GetSlot(inv, ns, i - 1), type)
  BY <1>6
<1>9. CountsUp(c, inv, ns, type)
  BY <1>4, <1>8 DEF CountsUp, n
<1> QED BY <1>7, <1>9 DEF n

\* What there is of a type in the first n slots.
Among(st, n, type) == CountItem([size |-> n, slots |-> st.inv.slots], st.names, type)

\* Counted along: there is an integer for every number of slots.
LEMMA AmongCounts ==
    ASSUME NEW st, Stored(st), NEW n \in Nat, NEW type \in ItemTypes
    PROVE  \E c : /\ c[0] = 0 /\ Among(st, n, type) = c[n] /\ \A k \in 0..n : c[k] \in Int
                  /\ \A k \in 0..(n - 1) : c[k + 1] = c[k] + Held(SlotOf(st, k), type)
<1> DEFINE inv == [size |-> n, slots |-> st.inv.slots]
<1>1. inv.size = n /\ inv.slots = st.inv.slots
  OBVIOUS
<1>2. \A i : GetSlot(inv, st.names, i) = SlotOf(st, i)
  BY <1>1 DEF GetSlot, SlotOf
<1>3. CountItem(inv, st.names, type) = Among(st, n, type)
  BY DEF Among
<1> HIDE DEF inv
<1>4. PICK c : CountsUp(c, inv, st.names, type) /\ CountItem(inv, st.names, type) = c[n]
  BY <1>1, CountItemCounts
<1>5. c[0] = 0 /\ \A k \in 1..n : c[k] = c[k - 1] + Held(SlotOf(st, k - 1), type)
  BY <1>1, <1>2, <1>4 DEF CountsUp
<1>6. ASSUME NEW k \in 0..(n - 1) PROVE c[k + 1] = c[k] + Held(SlotOf(st, k), type)
  <2>1. k + 1 \in 1..n /\ (k + 1) - 1 = k
    OBVIOUS
  <2> QED BY <1>5, <2>1
<1>7. \A i : Held(SlotOf(st, i), type) \in Int
  <2> TAKE i
  <2>1. CASE i \in DOMAIN st.inv.slots
    BY <2>1, SlotIs, InventoryAssumption DEF IsFull, Held
  <2>2. CASE i \notin DOMAIN st.inv.slots
    BY <2>2, SlotIs DEF Held, EmptyStack
  <2> QED BY <2>1, <2>2
<1> DEFINE K == {k \in Nat : c[k] \in Int}
<1>8. 0 \in K
  BY <1>5
<1>9. ASSUME NEW k \in 0..(n - 1), k \in K PROVE k + 1 \in K
  BY <1>6, <1>7, <1>9
<1>10. 0..n \subseteq K
  <2> HIDE DEF K
  <2> QED BY <1>8, <1>9, UpTo
<1> QED BY <1>3, <1>4, <1>5, <1>6, <1>10

\* A change of one slot by d is one of the count by d.
LEMMA AmongChanged ==
    ASSUME NEW a, Stored(a), NEW b, Stored(b), NEW n \in Nat, NEW i \in 0..(n - 1), NEW type \in ItemTypes, NEW d \in Int,
           \A j : j # i => SlotOf(b, j) = SlotOf(a, j),
           Held(SlotOf(b, i), type) = Held(SlotOf(a, i), type) + d
    PROVE  Among(b, n, type) = Among(a, n, type) + d
<1>1. PICK c : /\ c[0] = 0 /\ Among(a, n, type) = c[n] /\ \A k \in 0..n : c[k] \in Int
               /\ \A k \in 0..(n - 1) : c[k + 1] = c[k] + Held(SlotOf(a, k), type)
  BY AmongCounts
<1>2. PICK e : /\ e[0] = 0 /\ Among(b, n, type) = e[n] /\ \A k \in 0..n : e[k] \in Int
               /\ \A k \in 0..(n - 1) : e[k + 1] = e[k] + Held(SlotOf(b, k), type)
  BY AmongCounts
<1>3. \A j : Held(SlotOf(a, j), type) \in Int
  <2> TAKE j
  <2>1. CASE j \in DOMAIN a.inv.slots
    BY <2>1, SlotIs, InventoryAssumption DEF IsFull, Held
  <2>2. CASE j \notin DOMAIN a.inv.slots
    BY <2>2, SlotIs DEF Held, EmptyStack
  <2> QED BY <2>1, <2>2
<1> DEFINE K == {k \in Nat : e[k] = c[k] + (IF k > i THEN d ELSE 0)}
<1>4. 0 \in K
  BY <1>1, <1>2
<1>5. ASSUME NEW k \in 0..(n - 1), k \in K PROVE k + 1 \in K
  <2>1. e[k + 1] = e[k] + Held(SlotOf(b, k), type) /\ c[k + 1] = c[k] + Held(SlotOf(a, k), type)
    BY <1>1, <1>2
  <2>2. c[k] \in Int /\ e[k] \in Int /\ k \in Nat /\ Held(SlotOf(a, k), type) \in Int /\ e[k] = c[k] + (IF k > i THEN d ELSE 0)
    BY <1>1, <1>2, <1>3, <1>5
  <2>3. CASE k = i
    <3>1. Held(SlotOf(b, k), type) = Held(SlotOf(a, k), type) + d /\ ~(k > i) /\ k + 1 > i
      BY <2>3
    <3> QED BY <2>1, <2>2, <3>1
  <2>4. CASE k # i
    <3>1. Held(SlotOf(b, k), type) = Held(SlotOf(a, k), type) /\ (k > i <=> k + 1 > i)
      BY <2>4
    <3> QED BY <2>1, <2>2, <3>1
  <2> QED BY <2>3, <2>4
<1>6. 0..n \subseteq K
  <2> HIDE DEF K
  <2> QED BY <1>4, <1>5, UpTo
<1>7. n \in K
  BY <1>6
<1> QED BY <1>1, <1>2, <1>7

\* Slots beyond all that are stored hold nothing.
LEMMA AmongMore ==
    ASSUME NEW st, Stored(st), NEW n \in Nat, NEW m \in Nat, n <= m, ShowsAll(st.inv, n), NEW type \in ItemTypes
    PROVE  Among(st, m, type) = Among(st, n, type)
<1>1. PICK c : /\ c[0] = 0 /\ Among(st, n, type) = c[n] /\ \A k \in 0..n : c[k] \in Int
               /\ \A k \in 0..(n - 1) : c[k + 1] = c[k] + Held(SlotOf(st, k), type)
  BY AmongCounts
<1>2. PICK e : /\ e[0] = 0 /\ Among(st, m, type) = e[m] /\ \A k \in 0..m : e[k] \in Int
               /\ \A k \in 0..(m - 1) : e[k + 1] = e[k] + Held(SlotOf(st, k), type)
  BY AmongCounts
<1> DEFINE K == {k \in Nat : e[k] = IF k <= n THEN c[k] ELSE c[n]}
<1>3. 0 \in K
  BY <1>1, <1>2
<1>4. ASSUME NEW k \in 0..(m - 1), k \in K PROVE k + 1 \in K
  <2>1. e[k + 1] = e[k] + Held(SlotOf(st, k), type) /\ e[k] = (IF k <= n THEN c[k] ELSE c[n]) /\ e[k] \in Int
    BY <1>2, <1>4
  <2>2. CASE k < n
    <3>1. k \in 0..(n - 1)
      BY <2>2
    <3>2. c[k + 1] = c[k] + Held(SlotOf(st, k), type)
      BY <1>1, <3>1
    <3> QED BY <2>1, <2>2, <3>2
  <2>3. CASE ~(k < n)
    <3>1. k \notin DOMAIN st.inv.slots
      BY <2>3 DEF ShowsAll
    <3>2. SlotOf(st, k) = EmptyStack
      BY <3>1, SlotIs
    <3>3. type # NoType
      BY InventoryAssumption
    <3>4. Held(SlotOf(st, k), type) = 0
      BY <3>2, <3>3 DEF Held, EmptyStack
    <3>5. e[k] = c[n]
      BY <2>1, <2>3
    <3> QED BY <2>1, <2>3, <3>4, <3>5
  <2> QED BY <2>2, <2>3
<1>5. 0..m \subseteq K
  <2> HIDE DEF K
  <2> QED BY <1>3, <1>4, UpTo
<1>6. m \in K
  BY <1>5
<1> QED BY <1>1, <1>2, <1>6

-----------------------------------------------------------------------------
(* The loops of addItem and removeItem *)

\* w[k] is what a loop carries after k slots.
Loops(w, pass, st, type, count) ==
    w[0] = [st |-> st, remaining |-> count] /\ \A k \in 1..st.inv.size : w[k] = VisitSlot(pass, w[k - 1], k - 1, type)

\* There is such a function, and the loop ends with its last value.
LEMMA EachSlotLoops ==
    ASSUME NEW pass, NEW st, st.inv.size \in Nat, NEW type, NEW count
    PROVE  \E w : Loops(w, pass, st, type, count) /\ EachSlot(pass, st, type, count) = w[st.inv.size]
<1> DEFINE n == st.inv.size
           first == [st |-> st, remaining |-> count]
           G(g, k) == g = [i \in 0..k |-> IF i = 0 THEN first ELSE VisitSlot(pass, g[i - 1], i - 1, type)]
           K == {k \in Nat : \E g : G(g, k)}
<1> HIDE DEF first
<1>2. 0 \in K
  <2>1. G([i \in 0..0 |-> first], 0)
    OBVIOUS
  <2> QED BY <2>1
<1>3. ASSUME NEW k \in 0..(n - 1), k \in K PROVE k + 1 \in K
  <2>1. PICK g : G(g, k)
    BY <1>3
  <2> DEFINE h == [i \in 0..(k + 1) |-> IF i = k + 1 THEN VisitSlot(pass, g[k], k, type) ELSE g[i]]
  <2>2. \A i \in 0..(k + 1) : h[i] = IF i = 0 THEN first ELSE VisitSlot(pass, h[i - 1], i - 1, type)
    <3> TAKE i \in 0..(k + 1)
    <3>1. CASE i = k + 1
      <4>1. i - 1 = k /\ k \in 0..(k + 1) /\ k # k + 1 /\ i # 0
        BY <3>1
      <4> QED BY <3>1, <4>1
    <3>2. CASE i # k + 1
      <4>1. i \in 0..k
        BY <3>2
      <4>2. g[i] = IF i = 0 THEN first ELSE VisitSlot(pass, g[i - 1], i - 1, type)
        BY <2>1, <4>1
      <4>3. i # 0 => i - 1 \in 0..(k + 1) /\ i - 1 # k + 1
        BY <4>1
      <4> QED BY <3>2, <4>2, <4>3
    <3> QED BY <3>1, <3>2
  <2>3. h = [i \in 0..(k + 1) |-> h[i]]
    OBVIOUS
  <2> HIDE DEF h
  <2>4. G(h, k + 1)
    BY <2>2, <2>3
  <2>5. k + 1 \in Nat
    BY <1>3
  <2>6. \E w : G(w, k + 1)
    BY <2>4
  <2> QED BY <2>5, <2>6
<1> HIDE DEF K, n
<1>4. n \in Nat
  BY DEF n
<1>5. n \in K
  <2>1. 0..n \subseteq K
    BY <1>2, <1>3, <1>4, UpTo
  <2> QED BY <1>4, <2>1
<1> DEFINE w == CHOOSE g : G(g, n)
<1>6. G(w, n)
  BY <1>5 DEF K
<1>7. EachSlot(pass, st, type, count) = w[n]
  BY DEF EachSlot, n, first
<1> HIDE DEF w
<1>8. \A i \in 0..n : w[i] = IF i = 0 THEN first ELSE VisitSlot(pass, w[i - 1], i - 1, type)
  BY <1>6
<1>9. Loops(w, pass, st, type, count)
  BY <1>4, <1>8 DEF Loops, n, first
<1> QED BY <1>7, <1>9 DEF n

\* The invariant of the loops: what is carried after k slots, having started
\* from count items and the store st, all of which the first N slots show.
Kept(pass, st, a, k, N, type, count) ==
    /\ Carries(a) /\ a.st.inv.size = st.inv.size /\ ShowsAll(a.st.inv, N) /\ a.remaining <= count
    /\ \A t \in ItemTypes :
          LET n == count - a.remaining
          IN  Among(a.st, N, t) = Among(st, N, t) + (IF t # type THEN 0 ELSE IF pass = "remove" THEN -n ELSE n)
    /\ a.remaining > 0 /\ pass = "fill" => \A i \in 0..(k - 1) : Room(SlotOf(a.st, i), type) = 0
    /\ a.remaining > 0 /\ pass = "place" =>
          /\ \A i \in 0..(k - 1) : ~StackIsEmpty(SlotOf(a.st, i))
          /\ (\A i \in 0..(st.inv.size - 1) : Room(SlotOf(st, i), type) = 0) =>
                \A i \in 0..(st.inv.size - 1) : Room(SlotOf(a.st, i), type) = 0

\* A count is an integer.
LEMMA AmongInt == ASSUME NEW st, Stored(st), NEW n \in Nat, NEW type \in ItemTypes PROVE Among(st, n, type) \in Int
BY AmongCounts

\* A turn keeps it.
LEMMA KeptStep ==
    ASSUME NEW pass \in Passes, NEW st, Stored(st), NEW type \in ItemTypes, NEW count \in Nat, NEW N \in Nat, N >= st.inv.size,
           NEW k \in 0..(st.inv.size - 1), NEW a, Kept(pass, st, a, k, N, type, count),
           NEW u, Turn(pass, a, u, k, type)
    PROVE  Kept(pass, st, u, k + 1, N, type, count)
<1>0. k \in Nat /\ k \in 0..(N - 1) /\ st.inv.size \in Nat /\ k < st.inv.size
  BY DEF Stored
<1>1. /\ a.remaining \in Nat /\ u.remaining \in Nat /\ u.remaining <= a.remaining /\ a.remaining <= count
      /\ Stored(a.st) /\ Stored(u.st)
  BY DEF Kept, Carries, Turn
<1>2. Carries(u) /\ u.st.inv.size = st.inv.size /\ u.remaining <= count
  BY <1>1 DEF Kept, Turn, Carries
<1>3. ShowsAll(u.st.inv, N)
  <2>1. \A i \in DOMAIN u.st.inv.slots : i \in DOMAIN a.st.inv.slots \/ i = k
    BY DEF Turn
  <2> QED BY <1>0, <2>1 DEF Kept, ShowsAll
<1>4. ASSUME NEW t \in ItemTypes
      PROVE  LET n == count - u.remaining
             IN  Among(u.st, N, t) = Among(st, N, t) + (IF t # type THEN 0 ELSE IF pass = "remove" THEN -n ELSE n)
  <2>1. PICK d : d = (IF t # type THEN 0 ELSE IF pass = "remove" THEN -(a.remaining - u.remaining) ELSE a.remaining - u.remaining)
    OBVIOUS
  <2>2. d \in Int
    BY <1>1, <2>1
  <2>3. Held(SlotOf(u.st, k), t) = Held(SlotOf(a.st, k), t) + d /\ \A j : j # k => SlotOf(u.st, j) = SlotOf(a.st, j)
    BY <2>1 DEF Turn
  <2>4. Among(u.st, N, t) = Among(a.st, N, t) + d
    BY <1>0, <1>1, <2>2, <2>3, AmongChanged
  <2>5. Among(st, N, t) \in Int /\ Among(a.st, N, t) \in Int
    BY <1>1, AmongInt
  <2>6. Among(a.st, N, t) = Among(st, N, t) + (IF t # type THEN 0 ELSE IF pass = "remove" THEN -(count - a.remaining) ELSE count - a.remaining)
    BY DEF Kept
  <2> QED BY <1>1, <2>1, <2>4, <2>5, <2>6
<1>5. ASSUME u.remaining > 0, pass = "fill", NEW i \in 0..((k + 1) - 1) PROVE Room(SlotOf(u.st, i), type) = 0
  <2>1. CASE i = k
    BY <1>5, <2>1 DEF Turn
  <2>2. CASE i # k
    <3>1. i \in 0..(k - 1) /\ a.remaining > 0
      BY <1>0, <1>1, <1>5, <2>2
    <3>2. Room(SlotOf(a.st, i), type) = 0
      BY <1>5, <3>1 DEF Kept
    <3>3. SlotOf(u.st, i) = SlotOf(a.st, i)
      BY <2>2 DEF Turn
    <3> QED BY <3>2, <3>3
  <2> QED BY <2>1, <2>2
<1>6. ASSUME u.remaining > 0, pass = "place", NEW i \in 0..((k + 1) - 1) PROVE ~StackIsEmpty(SlotOf(u.st, i))
  <2>1. CASE i = k
    BY <1>6, <2>1 DEF Turn
  <2>2. CASE i # k
    <3>1. i \in 0..(k - 1) /\ a.remaining > 0
      BY <1>0, <1>1, <1>6, <2>2
    <3>2. ~StackIsEmpty(SlotOf(a.st, i))
      BY <1>6, <3>1 DEF Kept
    <3>3. SlotOf(u.st, i) = SlotOf(a.st, i)
      BY <2>2 DEF Turn
    <3> QED BY <3>2, <3>3
  <2> QED BY <2>1, <2>2
<1>7. ASSUME u.remaining > 0, pass = "place", \A i \in 0..(st.inv.size - 1) : Room(SlotOf(st, i), type) = 0,
             NEW i \in 0..(st.inv.size - 1)
      PROVE  Room(SlotOf(u.st, i), type) = 0
  <2>1. a.remaining > 0
    BY <1>1, <1>7
  <2>2. Room(SlotOf(a.st, i), type) = 0
    BY <1>7, <2>1 DEF Kept
  <2>3. CASE i = k
    BY <1>7, <2>2, <2>3 DEF Turn
  <2>4. CASE i # k
    <3>1. SlotOf(u.st, i) = SlotOf(a.st, i)
      BY <2>4 DEF Turn
    <3> QED BY <2>2, <3>1
  <2> QED BY <2>3, <2>4
<1> QED BY <1>2, <1>3, <1>4, <1>5, <1>6, <1>7 DEF Kept

\* So a loop keeps it from its start to its end.
LEMMA LoopKeeps ==
    ASSUME NEW pass \in Passes, NEW st, Stored(st), NEW type \in ItemTypes, NEW count \in Nat, NEW N \in Nat, N >= st.inv.size,
           ShowsAll(st.inv, N), NEW r, r = EachSlot(pass, st, type, count)
    PROVE  Kept(pass, st, r, st.inv.size, N, type, count)
<1> DEFINE n == st.inv.size
<1>1. n \in Nat
  BY DEF Stored
<1>2. PICK w : Loops(w, pass, st, type, count) /\ EachSlot(pass, st, type, count) = w[n]
  BY <1>1, EachSlotLoops
<1> DEFINE K == {k \in Nat : k <= n => Kept(pass, st, w[k], k, N, type, count)}
<1>3. 0 \in K
  <2>1. w[0] = [st |-> st, remaining |-> count]
    BY <1>2 DEF Loops
  <2>2. PICK a : a = w[0]
    OBVIOUS
  <2>3. a = [st |-> a.st, remaining |-> a.remaining] /\ a.st = st /\ a.remaining = count /\ count - a.remaining = 0 /\ 0..(0 - 1) = {}
    BY <2>1, <2>2
  <2>4. \A t \in ItemTypes : Among(st, N, t) \in Int
    BY AmongInt
  <2>5. Kept(pass, st, a, 0, N, type, count)
    BY <2>3, <2>4 DEF Kept, Carries
  <2> QED BY <2>2, <2>5
<1>4. ASSUME NEW k \in 0..(n - 1), k \in K PROVE k + 1 \in K
  <2>1. Kept(pass, st, w[k], k, N, type, count)
    BY <1>1, <1>4
  <2>2. k + 1 \in 1..n /\ (k + 1) - 1 = k /\ k \in Nat
    BY <1>1
  <2>3. w[k + 1] = VisitSlot(pass, w[k], k, type)
    BY <1>2, <2>2 DEF Loops
  <2>4. Turn(pass, w[k], w[k + 1], k, type)
    <3>1. Carries(w[k])
      BY <2>1 DEF Kept
    <3> QED BY <2>2, <2>3, <3>1, Turned
  <2>5. Kept(pass, st, w[k + 1], k + 1, N, type, count)
    BY <2>1, <2>4, KeptStep
  <2> QED BY <2>2, <2>5
<1>5. n \in K
  <2> HIDE DEF K, n
  <2>1. 0..n \subseteq K
    BY <1>1, <1>3, <1>4, UpTo
  <2> QED BY <1>1, <2>1
<1> QED BY <1>1, <1>2, <1>5

\* The names as they are read back are the ones that were written.
LEMMA LoadedIs == ASSUME NEW E, NEW list \in Seq(E) PROVE LoadFrom(list) = list
<1> DEFINE n == Len(list)
           G(g, k) == g = [i \in 0..k |-> IF i = 0 THEN <<>> ELSE Append(g[i - 1], list[i])]
           first == [i \in 0..n |-> [j \in 1..i |-> list[j]]]
<1>1. n \in Nat /\ list = [j \in 1..n |-> list[j]] /\ \A j \in 1..n : list[j] \in E
  OBVIOUS
<1>2. \A i \in 0..n : first[i] \in Seq(E) /\ Len(first[i]) = i /\ \A j \in 1..i : first[i][j] = list[j]
  OBVIOUS
<1>3. first[0] = <<>>
  <2>1. first[0] \in Seq(E) /\ Len(first[0]) = 0
    BY <1>1, <1>2
  <2> HIDE DEF first
  <2> QED BY <2>1
<1>4. ASSUME NEW i \in 1..n PROVE first[i] = Append(first[i - 1], list[i])
  <2>1. i - 1 \in 0..n /\ i \in 0..n /\ Len(first[i - 1]) = i - 1 /\ first[i - 1] \in Seq(E) /\ list[i] \in E
    BY <1>1, <1>2
  <2>2. first[i] \in Seq(E) /\ Len(first[i]) = i /\ \A j \in 1..i : first[i][j] = list[j]
    BY <1>2, <2>1
  <2>3. \A j \in 1..(i - 1) : first[i - 1][j] = list[j]
    BY <1>2, <2>1
  <2> DEFINE more == Append(first[i - 1], list[i])
  <2> HIDE DEF first
  <2>4. more \in Seq(E) /\ Len(more) = i /\ more[i] = list[i] /\ \A j \in 1..(i - 1) : more[j] = list[j]
    BY <2>1, <2>3
  <2>5. \A j \in 1..i : more[j] = first[i][j]
    BY <2>2, <2>4
  <2> HIDE DEF more
  <2>6. more = first[i]
    BY <2>2, <2>4, <2>5, SeqEqual
  <2> QED BY <2>6 DEF more
<1>5. first[n] = list
  BY <1>1
<1>6. DOMAIN first = 0..n /\ first = [i \in 0..n |-> first[i]]
  OBVIOUS
<1> HIDE DEF first, n
<1>0. n \in Nat
  BY <1>1
<1>7. ASSUME NEW i \in 0..n PROVE first[i] = IF i = 0 THEN <<>> ELSE Append(first[i - 1], list[i])
  <2>1. CASE i = 0
    BY <1>3, <2>1
  <2>2. CASE i # 0
    <3>1. i \in 1..n
      BY <1>0, <2>2
    <3> QED BY <1>4, <2>2, <3>1
  <2> QED BY <2>1, <2>2
<1>8. G(first, n)
  <2>1. [i \in 0..n |-> first[i]] = [i \in 0..n |-> IF i = 0 THEN <<>> ELSE Append(first[i - 1], list[i])]
    BY <1>7
  <2> QED BY <1>6, <2>1
<1> DEFINE c == CHOOSE g : G(g, n)
<1>9. G(c, n)
  BY <1>8
<1>10. LoadFrom(list) = c[n]
  BY DEF LoadFrom, n
<1> HIDE DEF c
<1>11. \A i \in 0..n : c[i] = IF i = 0 THEN <<>> ELSE Append(c[i - 1], list[i])
  BY <1>9
<1> DEFINE K == {k \in Nat : k <= n => c[k] = first[k]}
<1>12. 0 \in K
  <2>1. 0 \in 0..n
    BY <1>0
  <2>2. c[0] = <<>> /\ first[0] = <<>>
    BY <1>3, <1>11, <2>1
  <2> QED BY <2>2
<1>13. ASSUME NEW k \in 0..(n - 1), k \in K PROVE k + 1 \in K
  <2>1. k + 1 \in 0..n /\ k + 1 # 0 /\ (k + 1) - 1 = k /\ k <= n
    BY <1>0
  <2>2. c[k + 1] = Append(c[k], list[k + 1])
    BY <1>11, <2>1
  <2>3. first[k + 1] = Append(first[k], list[k + 1])
    BY <1>7, <2>1
  <2>4. c[k] = first[k]
    BY <1>13, <2>1
  <2>5. c[k + 1] = first[k + 1] /\ k + 1 \in Nat
    BY <2>1, <2>2, <2>3, <2>4
  <2> QED BY <2>5
<1>14. n \in K
  <2> HIDE DEF K
  <2>1. 0..n \subseteq K
    BY <1>0, <1>12, <1>13, UpTo
  <2> QED BY <1>0, <2>1
<1>15. c[n] = first[n]
  BY <1>0, <1>14
<1> QED BY <1>5, <1>10, <1>15

-----------------------------------------------------------------------------
(* The invariant of the inventory *)

NoRoomLeft ==
    refused.count > 0 =>
        \A i \in 0..(inventory.size - 1) : ~StackIsEmpty(SlotOf(State, i)) /\ Room(SlotOf(State, i), refused.type) = 0
Accounted(N) == N >= inventory.size /\ ShowsAll(inventory, N) /\ \A t \in ItemTypes : ledger[t] = Among(State, N, t)

InventoryInv == /\ Stored(State)
                /\ ledger \in [ItemTypes -> Int]
                /\ \E N \in Nat : Accounted(N)
                /\ NoRoomLeft

\* It implies what the run checks.
LEMMA InventoryInvImplies == InventoryInv => InventoryIsSound
<1> SUFFICES ASSUME InventoryInv PROVE InventoryIsSound
  OBVIOUS
<1> DEFINE st == State
<1>0. st.inv = inventory /\ st.names = names /\ \A i : SlotOf(st, i) = GetSlot(inventory, names, i)
  BY DEF State, SlotOf
<1>1. Stored(st)
  BY DEF InventoryInv
<1>2. inventory = [size |-> inventory.size, slots |-> inventory.slots] /\ inventory.size \in Nat
  BY <1>0, <1>1 DEF Stored
<1> HIDE DEF st
<1>3. ItemsAreConserved
  <2> SUFFICES ASSUME NEW n \in SlotCounts \cup {0}, ShowsAll(inventory, n), NEW type \in ItemTypes
               PROVE  ledger[type] = CountItem([inventory EXCEPT !.size = n], names, type)
    BY DEF ItemsAreConserved
  <2>1. n \in Nat
    BY InventoryAssumption
  <2>2. PICK N \in Nat : N >= inventory.size /\ ShowsAll(inventory, N) /\ ledger[type] = Among(st, N, type)
    BY DEF InventoryInv, Accounted, st
  <2>3. Among(st, N, type) = Among(st, n, type)
    <3>1. CASE n <= N
      BY <1>0, <1>1, <2>1, <2>2, <3>1, AmongMore
    <3>2. CASE N <= n
      BY <1>0, <1>1, <2>1, <2>2, <3>2, AmongMore
    <3> QED BY <2>1, <2>2, <3>1, <3>2
  <2>4. [inventory EXCEPT !.size = n] = [size |-> n, slots |-> inventory.slots]
    BY <1>2
  <2> QED BY <1>0, <2>2, <2>3, <2>4 DEF Among
<1>4. RefusedOnlyWithoutRoom
  <2>1. ASSUME refused.count > 0, NEW i \in Visible
        PROVE  ~StackIsEmpty(GetSlot(inventory, names, i)) /\ Room(GetSlot(inventory, names, i), refused.type) = 0
    BY <1>0, <2>1 DEF InventoryInv, NoRoomLeft, Visible, st
  <2>2. ASSUME NEW i \in DOMAIN inventory.slots
        PROVE  GetSlot(inventory, names, i).count \in 1..MaxStackSize[GetSlot(inventory, names, i).type]
    BY <1>0, <1>1, <2>2, SlotIs DEF IsFull
  <2> QED BY <2>1, <2>2 DEF RefusedOnlyWithoutRoom
<1> QED BY <1>3, <1>4 DEF InventoryIsSound

\* It holds of an inventory without slots.
LEMMA InventoryInvInit == InventoryInit => InventoryInv
<1> SUFFICES ASSUME InventoryInit PROVE InventoryInv
  OBVIOUS
<1>1. State = [inv |-> [size |-> 0, slots |-> <<>>], names |-> <<>>]
  BY DEF InventoryInit, State
<1>2. DOMAIN <<>> = {} /\ <<>> \in Seq(ItemTypes)
  OBVIOUS
<1>3. Stored(State)
  BY <1>1, <1>2 DEF Stored, Numbered
<1>4. ledger = [t \in ItemTypes |-> 0] /\ refused.count = 0 /\ inventory.size = 0 /\ inventory.slots = <<>>
  BY DEF InventoryInit, NoRefusal
<1>5. Accounted(0)
  <2>1. \A t \in ItemTypes : Among(State, 0, t) = 0
    BY <1>3, AmongCounts
  <2> QED BY <1>2, <1>4, <2>1 DEF Accounted, ShowsAll
<1> QED BY <1>3, <1>4, <1>5 DEF InventoryInv, NoRoomLeft

\* The invariant after a call that leaves the store st.
LEMMA InvAfter ==
    ASSUME NEW st, Stored(st), inventory' = st.inv, names' = st.names,
           \/ refused' = NoRefusal
           \/ refused'.count > 0 => \A i \in 0..(st.inv.size - 1) : ~StackIsEmpty(SlotOf(st, i)) /\ Room(SlotOf(st, i), refused'.type) = 0,
           ledger' \in [ItemTypes -> Int],
           NEW N \in Nat, N >= st.inv.size, ShowsAll(st.inv, N), \A t \in ItemTypes : ledger'[t] = Among(st, N, t)
    PROVE  InventoryInv'
<1>1. State' = [inv |-> st.inv, names |-> st.names]
  BY DEF State
<1>2. st = [inv |-> st.inv, names |-> st.names]
  <2>1. PICK inv, ns : st = [inv |-> inv, names |-> ns]
    BY DEF Stored
  <2> QED BY <2>1
<1>3. State' = st
  BY <1>1, <1>2
<1>4. Accounted(N)'
  BY <1>3 DEF Accounted
<1>5. NoRoomLeft'
  <2>1. CASE refused' = NoRefusal
    <3>1. ~(refused'.count > 0)
      BY <2>1 DEF NoRefusal
    <3> QED BY <3>1 DEF NoRoomLeft
  <2>2. CASE refused' # NoRefusal
    BY <1>3, <2>2 DEF NoRoomLeft
  <2> QED BY <2>1, <2>2
<1> QED BY <1>3, <1>4, <1>5 DEF InventoryInv

\* setSlotCount hides and shows slots.
LEMMA SetSlotCountStep == InventoryInv /\ (\E n \in SlotCounts : SetSlotCount(n)) => InventoryInv'
<1> SUFFICES ASSUME InventoryInv, NEW n \in SlotCounts, SetSlotCount(n) PROVE InventoryInv'
  OBVIOUS
<1>0. PICK st : st = State
  OBVIOUS
<1>1. Stored(st) /\ st.inv = inventory /\ st.names = names
  BY <1>0 DEF InventoryInv, State
<1>2. PICK u : u = [inv |-> [size |-> n, slots |-> inventory.slots], names |-> names]
  OBVIOUS
<1>3. n \in Nat /\ inventory' = u.inv /\ names' = u.names /\ refused' = NoRefusal /\ ledger' = ledger
  BY <1>1, <1>2, InventoryAssumption DEF SetSlotCount, Stored
<1>4. u.inv.slots = st.inv.slots /\ u.names = st.names /\ u.inv.size = n
  BY <1>1, <1>2
<1>5. Stored(u)
  BY <1>1, <1>2, <1>3, <1>4 DEF Stored
<1>6. PICK N \in Nat : N >= inventory.size /\ ShowsAll(inventory, N) /\ \A t \in ItemTypes : ledger[t] = Among(st, N, t)
  BY <1>0 DEF InventoryInv, Accounted
<1>7. PICK M \in Nat : M >= N /\ M >= n
  BY <1>3
<1>8. ShowsAll(u.inv, M)
  BY <1>1, <1>4, <1>6, <1>7 DEF ShowsAll, Stored
<1>9. ASSUME NEW t \in ItemTypes PROVE ledger'[t] = Among(u, M, t)
  <2>1. Among(st, M, t) = Among(st, N, t)
    BY <1>1, <1>6, <1>7, AmongMore
  <2>2. Among(u, M, t) = Among(st, M, t)
    BY <1>4 DEF Among
  <2> QED BY <1>3, <1>6, <2>1, <2>2
<1>10. ledger' \in [ItemTypes -> Int]
  BY <1>3 DEF InventoryInv
<1> QED BY <1>3, <1>4, <1>5, <1>7, <1>8, <1>9, <1>10, InvAfter

\* addItem: what it takes is in the slots, and what it refuses has no room.
LEMMA AddItemStep == InventoryInv /\ (\E type \in ItemTypes, count \in Counts : AddItem(type, count)) => InventoryInv'
<1> SUFFICES ASSUME InventoryInv, NEW type \in ItemTypes, NEW count \in Counts, AddItem(type, count) PROVE InventoryInv'
  OBVIOUS
<1>0. PICK st : st = State
  OBVIOUS
<1>1. Stored(st) /\ st.inv = inventory /\ st.names = names /\ count \in Nat
  BY <1>0, InventoryAssumption DEF InventoryInv, State
<1>2. PICK f : f = EachSlot("fill", st, type, count)
  OBVIOUS
<1>3. PICK r : r = EachSlot("place", f.st, type, f.remaining)
  OBVIOUS
<1>4. r = AddedItem(st, type, count)
  BY <1>2, <1>3 DEF AddedItem
<1>5. /\ inventory' = r.st.inv /\ names' = r.st.names /\ ledger' = [ledger EXCEPT ![type] = @ + count - r.remaining]
      /\ refused' = [type |-> type, count |-> r.remaining]
  BY <1>0, <1>4 DEF AddItem, Becomes
<1>6. PICK N \in Nat : N >= st.inv.size /\ ShowsAll(st.inv, N) /\ \A t \in ItemTypes : ledger[t] = Among(st, N, t)
  BY <1>0, <1>1 DEF InventoryInv, Accounted
<1>7. Kept("fill", st, f, st.inv.size, N, type, count)
  BY <1>1, <1>2, <1>6, LoopKeeps DEF Passes
<1>8. Stored(f.st) /\ f.remaining \in Nat /\ f.st.inv.size = st.inv.size /\ ShowsAll(f.st.inv, N)
  BY <1>7 DEF Kept, Carries
<1>9. Kept("place", f.st, r, st.inv.size, N, type, f.remaining)
  BY <1>3, <1>6, <1>8, LoopKeeps DEF Passes
<1>10. Stored(r.st) /\ r.remaining \in Nat /\ r.st.inv.size = st.inv.size /\ ShowsAll(r.st.inv, N) /\ r.remaining <= f.remaining
  BY <1>8, <1>9 DEF Kept, Carries
<1>11. ASSUME NEW t \in ItemTypes PROVE ledger'[t] = Among(r.st, N, t)
  <2>1. Among(st, N, t) \in Int /\ Among(f.st, N, t) \in Int /\ ledger[t] = Among(st, N, t)
    BY <1>1, <1>6, <1>8, AmongInt
  <2>2. Among(f.st, N, t) = Among(st, N, t) + (IF t # type THEN 0 ELSE count - f.remaining)
    BY <1>7 DEF Kept
  <2>3. Among(r.st, N, t) = Among(f.st, N, t) + (IF t # type THEN 0 ELSE f.remaining - r.remaining)
    BY <1>9 DEF Kept
  <2>4. ledger'[t] = IF t = type THEN ledger[t] + count - r.remaining ELSE ledger[t]
    BY <1>5 DEF InventoryInv
  <2> QED BY <1>1, <1>8, <1>10, <2>1, <2>2, <2>3, <2>4
<1>12. ledger' \in [ItemTypes -> Int]
  BY <1>1, <1>5, <1>10 DEF InventoryInv
<1>13. ASSUME refused'.count > 0, NEW i \in 0..(r.st.inv.size - 1)
       PROVE  ~StackIsEmpty(SlotOf(r.st, i)) /\ Room(SlotOf(r.st, i), refused'.type) = 0
  <2>1. r.remaining > 0 /\ refused'.type = type /\ f.remaining > 0 /\ i \in 0..(st.inv.size - 1)
    BY <1>5, <1>8, <1>10, <1>13
  <2>2. \A j \in 0..(f.st.inv.size - 1) : Room(SlotOf(f.st, j), type) = 0
    BY <1>7, <1>8, <2>1 DEF Kept
  <2>3. ~StackIsEmpty(SlotOf(r.st, i)) /\ Room(SlotOf(r.st, i), type) = 0
    BY <1>8, <1>9, <2>1, <2>2 DEF Kept
  <2> QED BY <2>1, <2>3
<1> QED BY <1>5, <1>6, <1>10, <1>11, <1>12, <1>13, InvAfter

\* removeItem takes from the slots what it hands out.
LEMMA RemoveItemStep == InventoryInv /\ (\E type \in ItemTypes, count \in Counts : RemoveItem(type, count)) => InventoryInv'
<1> SUFFICES ASSUME InventoryInv, NEW type \in ItemTypes, NEW count \in Counts, RemoveItem(type, count) PROVE InventoryInv'
  OBVIOUS
<1>0. PICK st : st = State
  OBVIOUS
<1>1. Stored(st) /\ st.inv = inventory /\ st.names = names /\ count \in Nat
  BY <1>0, InventoryAssumption DEF InventoryInv, State
<1>2. PICK r : r = EachSlot("remove", st, type, count)
  OBVIOUS
<1>3. r = RemovedItem(st, type, count)
  BY <1>2 DEF RemovedItem
<1>4. /\ inventory' = r.st.inv /\ names' = r.st.names /\ ledger' = [ledger EXCEPT ![type] = @ - (count - r.remaining)]
      /\ refused' = NoRefusal
  BY <1>0, <1>3 DEF RemoveItem, Becomes
<1>5. PICK N \in Nat : N >= st.inv.size /\ ShowsAll(st.inv, N) /\ \A t \in ItemTypes : ledger[t] = Among(st, N, t)
  BY <1>0, <1>1 DEF InventoryInv, Accounted
<1>6. Kept("remove", st, r, st.inv.size, N, type, count)
  BY <1>1, <1>2, <1>5, LoopKeeps DEF Passes
<1>7. Stored(r.st) /\ r.remaining \in Nat /\ r.st.inv.size = st.inv.size /\ ShowsAll(r.st.inv, N)
  BY <1>6 DEF Kept, Carries
<1>8. ASSUME NEW t \in ItemTypes PROVE ledger'[t] = Among(r.st, N, t)
  <2>1. Among(st, N, t) \in Int /\ ledger[t] = Among(st, N, t)
    BY <1>1, <1>5, AmongInt
  <2>2. Among(r.st, N, t) = Among(st, N, t) + (IF t # type THEN 0 ELSE -(count - r.remaining))
    BY <1>6 DEF Kept
  <2>3. ledger'[t] = IF t = type THEN ledger[t] - (count - r.remaining) ELSE ledger[t]
    BY <1>4 DEF InventoryInv
  <2> QED BY <1>1, <1>7, <2>1, <2>2, <2>3
<1>9. ledger' \in [ItemTypes -> Int]
  BY <1>1, <1>4, <1>7 DEF InventoryInv
<1> QED BY <1>4, <1>5, <1>7, <1>8, <1>9, InvAfter

\* One slot set, and the ledger changed by as much.
LEMMA OneSlotStep ==
    ASSUME InventoryInv, NEW i \in Visible, NEW stack, StackIsEmpty(stack) \/ IsFull(stack), Becomes(SetSlot(State, i, stack)),
           refused' = NoRefusal, NEW kept, kept = (IF StackIsEmpty(stack) THEN EmptyStack ELSE stack),
           ledger' \in [ItemTypes -> Int],
           \A t \in ItemTypes : ledger'[t] - ledger[t] \in Int /\ ledger[t] \in Int
                                /\ Held(kept, t) = Held(SlotOf(State, i), t) + (ledger'[t] - ledger[t])
    PROVE  InventoryInv'
<1>0. PICK st : st = State
  OBVIOUS
<1>1. Stored(st) /\ st.inv = inventory /\ st.names = names
  BY <1>0 DEF InventoryInv, State
<1>2. PICK u : u = SetSlot(st, i, stack)
  OBVIOUS
<1>3. inventory' = u.inv /\ names' = u.names
  BY <1>0, <1>2 DEF Becomes
<1>4. PICK N \in Nat : N >= st.inv.size /\ ShowsAll(st.inv, N) /\ \A t \in ItemTypes : ledger[t] = Among(st, N, t)
  BY <1>0, <1>1 DEF InventoryInv, Accounted
<1>5. i \in 0..(N - 1) /\ i \in Nat /\ i < N
  BY <1>1, <1>4 DEF Visible, Stored
<1>6. /\ Stored(u) /\ u.inv.size = st.inv.size /\ DOMAIN u.inv.slots \subseteq DOMAIN st.inv.slots \cup {i}
      /\ \A j : j # i => SlotOf(u, j) = SlotOf(st, j)
      /\ SlotOf(u, i) = kept
  BY <1>1, <1>2, <1>5, SetSlotSets
<1>7. ShowsAll(u.inv, N)
  <2>1. \A j \in DOMAIN u.inv.slots : j \in DOMAIN st.inv.slots \/ j = i
    BY <1>6
  <2> QED BY <1>4, <1>5, <2>1 DEF ShowsAll
<1>8. ASSUME NEW t \in ItemTypes PROVE ledger'[t] = Among(u, N, t)
  <2>1. PICK d \in Int : d = ledger'[t] - ledger[t]
    OBVIOUS
  <2>2. Held(SlotOf(u, i), t) = Held(SlotOf(st, i), t) + d
    BY <1>0, <1>6, <2>1
  <2>3. Among(u, N, t) = Among(st, N, t) + d
    <3>1. Stored(st) /\ Stored(u) /\ i \in 0..(N - 1) /\ \A j : j # i => SlotOf(u, j) = SlotOf(st, j)
      BY <1>1, <1>5, <1>6
    <3> QED BY <2>2, <3>1, AmongChanged
  <2> QED BY <1>4, <2>1, <2>3
<1> QED BY <1>3, <1>4, <1>6, <1>7, <1>8, InvAfter

\* A tool put into an empty slot.
LEMMA PutToolStep == InventoryInv /\ (\E i \in Visible, tool \in Tools : PutTool(i, tool)) => InventoryInv'
<1> SUFFICES ASSUME InventoryInv, NEW i \in Visible, NEW tool \in Tools, PutTool(i, tool) PROVE InventoryInv'
  OBVIOUS
<1>1. IsStack(tool) /\ tool.type \in ItemTypes /\ tool.count = 1
  BY DEF Tools, Stack, EmptyStack, IsStack
<1>2. tool.type # NoType /\ MaxStackSize[tool.type] \in Nat \ {0}
  BY <1>1, InventoryAssumption
<1>3. IsFull(tool) /\ ~StackIsEmpty(tool)
  BY <1>1, <1>2 DEF IsFull, StackIsEmpty
<1>4. /\ StackIsEmpty(SlotOf(State, i)) /\ Becomes(SetSlot(State, i, tool)) /\ refused' = NoRefusal
      /\ ledger' = [ledger EXCEPT ![tool.type] = @ + tool.count]
  BY DEF PutTool, SlotOf, State
<1>5. SlotOf(State, i) = EmptyStack
  BY <1>4, SlotIs DEF InventoryInv
<1>6. ledger' \in [ItemTypes -> Int] /\ \A t \in ItemTypes : ledger'[t] = ledger[t] + (IF t = tool.type THEN 1 ELSE 0) /\ ledger[t] \in Int
  BY <1>1, <1>4 DEF InventoryInv
<1>7. \A t \in ItemTypes : Held(tool, t) = Held(SlotOf(State, i), t) + (IF t = tool.type THEN 1 ELSE 0)
  BY <1>1, <1>5, InventoryAssumption DEF Held, EmptyStack
<1>8. ASSUME NEW t \in ItemTypes
      PROVE  ledger'[t] - ledger[t] \in Int /\ ledger[t] \in Int /\ Held(tool, t) = Held(SlotOf(State, i), t) + (ledger'[t] - ledger[t])
  <2>1. ledger'[t] - ledger[t] = IF t = tool.type THEN 1 ELSE 0
    BY <1>6
  <2> QED BY <1>6, <1>7, <2>1
<1> QED BY <1>3, <1>4, <1>6, <1>8, OneSlotStep

\* takeItem: what is split off and what stays is what was there.
LEMMA TakeItemStep == InventoryInv /\ (\E i \in Visible, count \in Counts : TakeItem(i, count)) => InventoryInv'
<1> SUFFICES ASSUME InventoryInv, NEW i \in Visible, NEW count \in Counts, TakeItem(i, count) PROVE InventoryInv'
  OBVIOUS
<1>1. PICK s : s = SlotOf(State, i)
  OBVIOUS
<1>2. PICK left : left = Split(s, count).left
  OBVIOUS
<1>3. PICK n : n = Split(s, count).taken.count
  OBVIOUS
<1>4. /\ ~StackIsEmpty(s) /\ Becomes(SetSlot(State, i, left)) /\ ledger' = [ledger EXCEPT ![s.type] = @ - n] /\ refused' = NoRefusal
  BY <1>1, <1>2, <1>3 DEF TakeItem, SlotOf, State
<1>5. IsFull(s)
  <2>1. StackIsEmpty(EmptyStack)
    BY DEF StackIsEmpty, EmptyStack
  <2> QED BY <1>1, <1>4, <2>1, SlotIs DEF InventoryInv
<1>6. count \in Nat /\ s.type \in ItemTypes /\ s.type # NoType /\ MaxStackSize[s.type] \in Nat /\ s.count \in Nat /\ s.count >= 1
      /\ s.count <= MaxStackSize[s.type]
  BY <1>5, InventoryAssumption DEF IsFull
<1>7. PICK kept : kept = (IF StackIsEmpty(left) THEN EmptyStack ELSE left)
  OBVIOUS
<1>8. n \in Nat /\ (StackIsEmpty(left) \/ IsFull(left)) /\ \A t \in ItemTypes : Held(kept, t) = Held(s, t) + (IF t = s.type THEN -n ELSE 0)
  <2>1. CASE count = 0
    <3>1. left = s /\ n = 0
      BY <1>2, <1>3, <2>1 DEF Split, EmptyStack
    <3> QED BY <1>4, <1>5, <1>6, <1>7, <3>1 DEF Held
  <2>2. CASE count # 0
    <3>1. PICK m : m = Min({count, s.count})
      OBVIOUS
    <3>2. m = (IF count <= s.count THEN count ELSE s.count)
      BY <1>6, <3>1, MinOfTwo
    <3>3. m \in Nat /\ m >= 1 /\ m <= s.count
      BY <1>6, <2>2, <3>2
    <3>4. n = m /\ left = IF s.count = m THEN EmptyStack ELSE [s EXCEPT !.count = @ - m]
      BY <1>2, <1>3, <1>4, <1>6, <2>2, <3>1 DEF Split, Stack, EmptyStack
    <3>5. CASE s.count = m
      <4>1. StackIsEmpty(left) /\ kept = EmptyStack
        BY <1>7, <3>4, <3>5 DEF StackIsEmpty, EmptyStack
      <4> QED BY <1>6, <3>3, <3>4, <3>5, <4>1, InventoryAssumption DEF Held, EmptyStack
    <3>6. CASE s.count # m
      <4>1. left = [type |-> s.type, count |-> s.count - m, durability |-> s.durability, metadata |-> s.metadata]
        BY <1>5, <3>4, <3>6 DEF IsFull, IsStack
      <4>2. left.type = s.type /\ left.count = s.count - m /\ IsStack(left) /\ left.count \in 1..MaxStackSize[s.type]
        BY <1>6, <3>3, <3>6, <4>1 DEF IsStack
      <4>3. IsFull(left) /\ kept = left
        BY <1>6, <1>7, <4>2 DEF IsFull, StackIsEmpty
      <4> QED BY <1>6, <3>3, <3>4, <4>2, <4>3 DEF Held
    <3> QED BY <3>5, <3>6
  <2> QED BY <2>1, <2>2
<1>9. ledger' \in [ItemTypes -> Int] /\ \A t \in ItemTypes : ledger'[t] = ledger[t] + (IF t = s.type THEN -n ELSE 0) /\ ledger[t] \in Int
  BY <1>4, <1>6, <1>8 DEF InventoryInv
<1>10. ASSUME NEW t \in ItemTypes
       PROVE  ledger'[t] - ledger[t] \in Int /\ ledger[t] \in Int /\ Held(kept, t) = Held(SlotOf(State, i), t) + (ledger'[t] - ledger[t])
  <2>1. ledger'[t] - ledger[t] = IF t = s.type THEN -n ELSE 0
    BY <1>8, <1>9
  <2> QED BY <1>1, <1>8, <1>9, <2>1
<1> QED BY <1>4, <1>7, <1>8, <1>9, <1>10, OneSlotStep

\* swapSlots: two slots have each other's stacks.
LEMMA SwapSlotsStep == InventoryInv /\ (\E a, b \in Visible : SwapSlots(a, b)) => InventoryInv'
<1> SUFFICES ASSUME InventoryInv, NEW a \in Visible, NEW b \in Visible, SwapSlots(a, b) PROVE InventoryInv'
  OBVIOUS
<1>0. PICK st : st = State
  OBVIOUS
<1>1. Stored(st) /\ st.inv = inventory /\ st.names = names
  BY <1>0 DEF InventoryInv, State
<1>2. PICK u : u = SetSlot(st, a, SlotOf(st, b))
  OBVIOUS
<1>3. PICK v : v = SetSlot(u, b, SlotOf(st, a))
  OBVIOUS
<1>4. a # b /\ inventory' = v.inv /\ names' = v.names /\ refused' = NoRefusal /\ ledger' = ledger
  BY <1>0, <1>1, <1>2, <1>3 DEF SwapSlots, Becomes, SlotOf
<1>5. PICK N \in Nat : N >= st.inv.size /\ ShowsAll(st.inv, N) /\ \A t \in ItemTypes : ledger[t] = Among(st, N, t)
  BY <1>0, <1>1 DEF InventoryInv, Accounted
<1>6. a \in 0..(N - 1) /\ a \in Nat /\ a < N /\ b \in 0..(N - 1) /\ b \in Nat /\ b < N
  BY <1>1, <1>5 DEF Visible, Stored
<1>7. StackIsEmpty(EmptyStack)
  BY DEF StackIsEmpty, EmptyStack
<1>8. \A i : IF StackIsEmpty(SlotOf(st, i)) THEN SlotOf(st, i) = EmptyStack ELSE IsFull(SlotOf(st, i))
  BY <1>1, <1>7, SlotIs
<1>9. /\ Stored(u) /\ u.inv.size = st.inv.size /\ DOMAIN u.inv.slots \subseteq DOMAIN st.inv.slots \cup {a}
      /\ \A j : j # a => SlotOf(u, j) = SlotOf(st, j)
      /\ SlotOf(u, a) = SlotOf(st, b)
  BY <1>1, <1>2, <1>6, <1>8, SetSlotSets
<1>10. /\ Stored(v) /\ v.inv.size = u.inv.size /\ DOMAIN v.inv.slots \subseteq DOMAIN u.inv.slots \cup {b}
       /\ \A j : j # b => SlotOf(v, j) = SlotOf(u, j)
       /\ SlotOf(v, b) = SlotOf(st, a)
  BY <1>3, <1>6, <1>8, <1>9, SetSlotSets
<1>11. ShowsAll(v.inv, N)
  <2>1. \A j \in DOMAIN v.inv.slots : j \in DOMAIN st.inv.slots \/ j = a \/ j = b
    BY <1>9, <1>10
  <2> QED BY <1>5, <1>6, <2>1 DEF ShowsAll
<1>12. ASSUME NEW t \in ItemTypes PROVE ledger'[t] = Among(v, N, t)
  <2>1. \A i : Held(SlotOf(st, i), t) \in Int
    BY <1>6, <1>8, InventoryAssumption DEF Held, IsFull, EmptyStack
  <2>2. PICK d \in Int : d = Held(SlotOf(st, b), t) - Held(SlotOf(st, a), t)
    BY <2>1
  <2>3. Held(SlotOf(u, a), t) = Held(SlotOf(st, a), t) + d
    BY <1>9, <2>1, <2>2
  <2>4. Among(u, N, t) = Among(st, N, t) + d
    <3>1. Stored(st) /\ Stored(u) /\ a \in 0..(N - 1) /\ \A j : j # a => SlotOf(u, j) = SlotOf(st, j)
      BY <1>1, <1>6, <1>9
    <3> QED BY <2>3, <3>1, AmongChanged
  <2>5. PICK e \in Int : e = Held(SlotOf(st, a), t) - Held(SlotOf(st, b), t)
    BY <2>1
  <2>6. Held(SlotOf(v, b), t) = Held(SlotOf(u, b), t) + e
    BY <1>4, <1>9, <1>10, <2>1, <2>5
  <2>7. Among(v, N, t) = Among(u, N, t) + e
    BY <1>6, <1>9, <1>10, <2>6, AmongChanged
  <2>8. Among(st, N, t) \in Int
    BY <1>1, AmongInt
  <2>9. d + e = 0
    BY <2>1, <2>2, <2>5
  <2> QED BY <1>4, <1>5, <2>4, <2>7, <2>8, <2>9
<1>13. ledger' \in [ItemTypes -> Int]
  BY <1>4 DEF InventoryInv
<1>14. N >= v.inv.size
  BY <1>5, <1>9, <1>10
<1> QED BY <1>4, <1>10, <1>11, <1>12, <1>13, <1>14, InvAfter

\* Names written and read back, and a step of others.
LEMMA ReloadStep == InventoryInv /\ (Reload \/ UNCHANGED inventoryVars) => InventoryInv'
<1> SUFFICES ASSUME InventoryInv, Reload \/ UNCHANGED inventoryVars PROVE InventoryInv'
  OBVIOUS
<1>1. names \in Seq(ItemTypes)
  BY DEF InventoryInv, Stored, Numbered, State
<1>2. inventory' = inventory /\ names' = names /\ ledger' = ledger /\ (refused' = NoRefusal \/ refused' = refused)
  BY <1>1, LoadedIs DEF Reload, inventoryVars
<1>3. State' = State
  BY <1>2 DEF State
<1>4. PICK N \in Nat : Accounted(N)
  BY DEF InventoryInv
<1>5. Accounted(N)'
  BY <1>2, <1>3, <1>4 DEF Accounted
<1>6. NoRoomLeft'
  <2>1. CASE refused' = NoRefusal
    <3>1. ~(refused'.count > 0)
      BY <2>1 DEF NoRefusal
    <3> QED BY <3>1 DEF NoRoomLeft
  <2>2. CASE refused' = refused
    BY <1>2, <1>3, <2>2 DEF InventoryInv, NoRoomLeft
  <2> QED BY <1>2, <2>1, <2>2
<1> QED BY <1>2, <1>3, <1>5, <1>6 DEF InventoryInv

\* Every call keeps the invariant.
LEMMA InventoryInvNext == InventoryInv /\ [InventoryNext]_inventoryVars => InventoryInv'
BY SetSlotCountStep, AddItemStep, RemoveItemStep, PutToolStep, TakeItemStep, SwapSlotsStep, ReloadStep DEF InventoryNext

\* No item is lost, made, or refused without reason, for any types, stack
\* sizes, slots and numbers: what countItem finds where no slot is hidden is
\* what was put in and not taken out, and what addItem refuses has no room.
THEOREM ItemsAreSafe == InventorySpec => []InventoryIsSound
<1>1. InventorySpec => []InventoryInv
  BY InventoryInvInit, InventoryInvNext, PTL DEF InventorySpec
<1> QED BY <1>1, InventoryInvImplies, PTL

-----------------------------------------------------------------------------
(* Modules: the names of a list that are in a set, in the list's order *)

\* Nothing is there twice.
Distinct(s) == \A i, j \in 1..Len(s) : s[i] = s[j] => i = j

\* s has what is in the set of the first k of the list.
Selects(s, list, set, D, k) ==
    /\ s \in Seq(D)
    /\ \A p \in 1..Len(s) : s[p] \in set /\ \E i \in 1..k : s[p] = list[i]
    /\ \A i \in 1..k : list[i] \in set => \E p \in 1..Len(s) : s[p] = list[i]
    /\ \A p, q \in 1..Len(s) : p < q => \E i, j \in 1..k : i < j /\ s[p] = list[i] /\ s[q] = list[j]

\* One more of the list.
LEMMA SelectsNext ==
    ASSUME NEW D, NEW list \in Seq(D), NEW set, NEW k \in 0..(Len(list) - 1), NEW s, Selects(s, list, set, D, k),
           NEW t, t = (IF list[k + 1] \in set THEN Append(s, list[k + 1]) ELSE s)
    PROVE  Selects(t, list, set, D, k + 1)
<1>0. k \in Nat /\ k + 1 \in 1..Len(list) /\ list[k + 1] \in D /\ s \in Seq(D) /\ Len(s) \in Nat
  BY DEF Selects
<1>1. CASE list[k + 1] \notin set
  <2>1. t = s
    BY <1>1
  <2>2. \A i \in 1..(k + 1) : i \in 1..k \/ i = k + 1
    BY <1>0
  <2>3. \A i \in 1..k : i \in 1..(k + 1)
    BY <1>0
  <2>4. \A p \in 1..Len(s) : s[p] \in set /\ \E i \in 1..(k + 1) : s[p] = list[i]
    BY <2>3 DEF Selects
  <2>5. \A i \in 1..(k + 1) : list[i] \in set => \E p \in 1..Len(s) : s[p] = list[i]
    BY <1>1, <2>2 DEF Selects
  <2>6. \A p, q \in 1..Len(s) : p < q => \E i, j \in 1..(k + 1) : i < j /\ s[p] = list[i] /\ s[q] = list[j]
    BY <2>3 DEF Selects
  <2> QED BY <1>0, <2>1, <2>4, <2>5, <2>6 DEF Selects
<1>2. CASE list[k + 1] \in set
  <2>1. t = Append(s, list[k + 1])
    BY <1>2
  <2>2. t \in Seq(D) /\ Len(t) = Len(s) + 1 /\ t[Len(s) + 1] = list[k + 1] /\ \A p \in 1..Len(s) : t[p] = s[p]
    BY <1>0, <2>1
  <2>3. \A p \in 1..(Len(s) + 1) : p \in 1..Len(s) \/ p = Len(s) + 1
    BY <1>0
  <2>4. \A i \in 1..k : i \in 1..(k + 1)
    BY <1>0
  <2>5. k + 1 \in 1..(k + 1) /\ Len(s) + 1 \in 1..(Len(s) + 1) /\ \A p \in 1..Len(s) : p \in 1..(Len(s) + 1)
    BY <1>0
  <2>6. ASSUME NEW p \in 1..Len(t) PROVE t[p] \in set /\ \E i \in 1..(k + 1) : t[p] = list[i]
    <3>1. CASE p \in 1..Len(s)
      BY <2>2, <2>4, <3>1 DEF Selects
    <3>2. CASE p = Len(s) + 1
      BY <1>2, <2>2, <2>5, <3>2
    <3> QED BY <2>2, <2>3, <3>1, <3>2
  <2>7. ASSUME NEW i \in 1..(k + 1), list[i] \in set PROVE \E p \in 1..Len(t) : t[p] = list[i]
    <3>1. CASE i = k + 1
      BY <2>2, <2>5, <3>1
    <3>2. CASE i # k + 1
      <4>1. i \in 1..k
        BY <1>0, <3>2
      <4>2. PICK p \in 1..Len(s) : s[p] = list[i]
        BY <2>7, <4>1 DEF Selects
      <4> QED BY <2>2, <2>5, <4>2
    <3> QED BY <3>1, <3>2
  <2>8. ASSUME NEW p \in 1..Len(t), NEW q \in 1..Len(t), p < q
        PROVE  \E i, j \in 1..(k + 1) : i < j /\ t[p] = list[i] /\ t[q] = list[j]
    <3>0. p \in 1..Len(s)
      BY <1>0, <2>2, <2>8
    <3>1. CASE q \in 1..Len(s)
      <4>1. PICK i, j \in 1..k : i < j /\ s[p] = list[i] /\ s[q] = list[j]
        BY <2>8, <3>0, <3>1 DEF Selects
      <4> QED BY <2>2, <2>4, <3>0, <3>1, <4>1
    <3>2. CASE q = Len(s) + 1
      <4>1. PICK i \in 1..k : s[p] = list[i]
        BY <3>0 DEF Selects
      <4>2. i < k + 1 /\ i \in 1..(k + 1) /\ t[p] = list[i] /\ t[q] = list[k + 1]
        BY <1>0, <2>2, <3>0, <3>2, <4>1
      <4> QED BY <2>5, <4>2
    <3> QED BY <2>2, <2>3, <3>1, <3>2
  <2> QED BY <2>2, <2>6, <2>7, <2>8 DEF Selects
<1> QED BY <1>1, <1>2

\* So Selected() selects from the whole list.
LEMMA SelectedIs ==
    ASSUME NEW D, NEW list \in Seq(D), NEW set, NEW s, s = Selected(list, set)
    PROVE  Selects(s, list, set, D, Len(list))
<1> DEFINE n == Len(list)
           G(g, k) == g = [i \in 0..k |-> IF i = 0 THEN <<>> ELSE IF list[i] \in set THEN Append(g[i - 1], list[i]) ELSE g[i - 1]]
           K == {k \in Nat : \E g : G(g, k)}
<1>1. n \in Nat
  OBVIOUS
<1>2. 0 \in K
  <2>1. G([i \in 0..0 |-> <<>>], 0)
    OBVIOUS
  <2> QED BY <2>1
<1>3. ASSUME NEW k \in 0..(n - 1), k \in K PROVE k + 1 \in K
  <2>1. PICK g : G(g, k)
    BY <1>3
  <2> DEFINE h == [i \in 0..(k + 1) |-> IF i = k + 1 THEN (IF list[k + 1] \in set THEN Append(g[k], list[k + 1]) ELSE g[k]) ELSE g[i]]
  <2>2. \A i \in 0..(k + 1) : h[i] = IF i = 0 THEN <<>> ELSE IF list[i] \in set THEN Append(h[i - 1], list[i]) ELSE h[i - 1]
    <3> TAKE i \in 0..(k + 1)
    <3>1. CASE i = k + 1
      <4>1. i - 1 = k /\ k \in 0..(k + 1) /\ k # k + 1 /\ i # 0
        BY <3>1
      <4> QED BY <3>1, <4>1
    <3>2. CASE i # k + 1
      <4>1. i \in 0..k
        BY <3>2
      <4>2. g[i] = IF i = 0 THEN <<>> ELSE IF list[i] \in set THEN Append(g[i - 1], list[i]) ELSE g[i - 1]
        BY <2>1, <4>1
      <4>3. i # 0 => i - 1 \in 0..(k + 1) /\ i - 1 # k + 1
        BY <4>1
      <4> QED BY <3>2, <4>2, <4>3
    <3> QED BY <3>1, <3>2
  <2>3. h = [i \in 0..(k + 1) |-> h[i]]
    OBVIOUS
  <2> HIDE DEF h
  <2>4. G(h, k + 1)
    BY <2>2, <2>3
  <2>5. k + 1 \in Nat
    BY <1>3
  <2>6. \E w : G(w, k + 1)
    BY <2>4
  <2> QED BY <2>5, <2>6
<1> HIDE DEF K, n
<1>4. n \in K
  <2>1. 0..n \subseteq K
    BY <1>1, <1>2, <1>3, UpTo
  <2> QED BY <1>1, <2>1
<1> DEFINE c == CHOOSE g : G(g, n)
<1>5. G(c, n)
  BY <1>4 DEF K
<1>6. s = c[n]
  BY DEF Selected, n
<1> HIDE DEF c
<1>7. \A i \in 0..n : c[i] = IF i = 0 THEN <<>> ELSE IF list[i] \in set THEN Append(c[i - 1], list[i]) ELSE c[i - 1]
  BY <1>5
<1> DEFINE M == {k \in Nat : Selects(c[k], list, set, D, k)}
<1>8. 0 \in M
  <2>1. c[0] = <<>> /\ <<>> \in Seq(D) /\ Len(<<>>) = 0 /\ 1..0 = {}
    BY <1>1, <1>7
  <2> QED BY <2>1 DEF Selects
<1>9. ASSUME NEW k \in 0..(n - 1), k \in M PROVE k + 1 \in M
  <2>1. k + 1 \in 0..n /\ k + 1 # 0 /\ (k + 1) - 1 = k /\ k \in 0..(Len(list) - 1) /\ k + 1 \in Nat
    BY <1>1 DEF n
  <2>2. c[k + 1] = IF list[k + 1] \in set THEN Append(c[k], list[k + 1]) ELSE c[k]
    BY <1>7, <2>1
  <2>3. Selects(c[k], list, set, D, k)
    BY <1>9
  <2>4. Selects(c[k + 1], list, set, D, k + 1)
    BY <2>1, <2>2, <2>3, SelectsNext
  <2> QED BY <2>1, <2>4
<1>10. n \in M
  <2> HIDE DEF M
  <2>1. 0..n \subseteq M
    BY <1>1, <1>8, <1>9, UpTo
  <2> QED BY <1>1, <2>1
<1> QED BY <1>6, <1>10 DEF n

\* s has what is in the set, once, in the order of the list.
SelectedAs(s, list, set, D) ==
    /\ s \in Seq(D) /\ Len(s) \in Nat /\ Distinct(s)
    /\ \A p \in 1..Len(s) : s[p] \in set /\ \E i \in 1..Len(list) : s[p] = list[i]
    /\ \A i \in 1..Len(list) : list[i] \in set => \E p \in 1..Len(s) : s[p] = list[i]
    /\ \A p, q \in 1..Len(s), i, j \in 1..Len(list) : i < j /\ s[p] = list[i] /\ s[q] = list[j] => p < q

\* From a list without repetition: none again, and in the list's order.
LEMMA SelectedInOrder ==
    ASSUME NEW D, NEW list \in Seq(D), Distinct(list), NEW set, NEW s, s = Selected(list, set)
    PROVE  SelectedAs(s, list, set, D)
<1>1. Selects(s, list, set, D, Len(list))
  BY SelectedIs
<1>2. s \in Seq(D) /\ Len(s) \in Nat /\ Len(list) \in Nat
  BY <1>1 DEF Selects
<1>3. ASSUME NEW p \in 1..Len(s), NEW q \in 1..Len(s), p < q PROVE s[p] # s[q]
  <2>1. PICK i, j \in 1..Len(list) : i < j /\ s[p] = list[i] /\ s[q] = list[j]
    BY <1>1, <1>3 DEF Selects
  <2>2. i # j
    BY <1>2, <2>1
  <2> QED BY <2>1, <2>2 DEF Distinct
<1>4. Distinct(s)
  <2> SUFFICES ASSUME NEW p \in 1..Len(s), NEW q \in 1..Len(s), s[p] = s[q] PROVE p = q
    BY DEF Distinct
  <2>1. p < q \/ q < p \/ p = q
    BY <1>2
  <2> QED BY <1>3, <2>1
<1>5. ASSUME NEW p \in 1..Len(s), NEW q \in 1..Len(s), NEW i \in 1..Len(list), NEW j \in 1..Len(list), i < j, s[p] = list[i], s[q] = list[j]
      PROVE  p < q
  <2>1. i # j
    BY <1>2, <1>5
  <2>2. p # q
    BY <1>5, <2>1 DEF Distinct
  <2>3. CASE q < p
    <3>1. PICK a, b \in 1..Len(list) : a < b /\ s[q] = list[a] /\ s[p] = list[b]
      BY <1>1, <2>3 DEF Selects
    <3>2. a = j /\ b = i
      BY <1>5, <3>1 DEF Distinct
    <3> QED BY <1>2, <1>5, <3>1, <3>2
  <2> QED BY <1>2, <2>2, <2>3
<1> QED BY <1>1, <1>2, <1>4, <1>5 DEF Selects, SelectedAs

-----------------------------------------------------------------------------
(* The order of modules *)

\* A listing of a finite set has no repetition.
LEMMA ListingIs ==
    ASSUME NEW S, IsFiniteSet(S), NEW q \in SetToSeqs(S)
    PROVE  q \in Seq(S) /\ Len(q) \in Nat /\ Distinct(q)
<1> DEFINE n == Cardinality(S)
<1>1. n \in Nat
  BY FS_CardinalityType
<1>2. q \in [1..n -> S] /\ \A i, j \in 1..n : i # j => q[i] # q[j]
  BY DEF SetToSeqs
<1> HIDE DEF n
<1>3. q \in Seq(S) /\ Len(q) = n
  BY <1>1, <1>2
<1> QED BY <1>1, <1>2, <1>3 DEF Distinct

\* Every module of an order comes after its dependencies.
Fits(order) == \A i \in 1..Len(order) : \A d \in Dependencies(order[i]) : \E j \in 1..(i - 1) : order[j] = d

\* What Kahn's algorithm keeps: nothing is listed twice, and what is listed or
\* queued has its dependencies listed.
Sound(o) ==
    /\ o.order \in Seq(DOMAIN modules) /\ o.queue \in Seq(DOMAIN modules)
    /\ Distinct(o.order) /\ Distinct(o.queue) /\ \A i \in 1..Len(o.order), j \in 1..Len(o.queue) : o.order[i] # o.queue[j]
    /\ Fits(o.order)
    /\ \A i \in 1..Len(o.queue) : \A d \in Dependencies(o.queue[i]) : \E j \in 1..Len(o.order) : o.order[j] = d

\* It starts with those that depend on nothing.
LEMMA SoundFirst == ASSUME IsFiniteSet(DOMAIN modules), NEW o \in FirstReady PROVE Sound(o)
<1>1. PICK R : R = Ready({})
  OBVIOUS
<1>2. PICK q \in SetToSeqs(R) : o = [order |-> <<>>, queue |-> q]
  BY <1>1 DEF FirstReady, Ordered
<1>3. R \subseteq DOMAIN modules /\ IsFiniteSet(R) /\ \A m \in R : Dependencies(m) = {}
  <2>1. R \subseteq DOMAIN modules /\ \A m \in R : Dependencies(m) = {}
    BY <1>1 DEF Ready
  <2> QED BY <2>1, FS_Subset
<1>4. q \in Seq(R) /\ Len(q) \in Nat /\ Distinct(q)
  BY <1>3, ListingIs
<1>5. o.order = <<>> /\ o.queue = q
  BY <1>2
<1>6. <<>> \in Seq(DOMAIN modules) /\ Len(<<>>) = 0 /\ 1..0 = {}
  OBVIOUS
<1>7. q \in Seq(DOMAIN modules) /\ \A i \in 1..Len(q) : q[i] \in R
  BY <1>3, <1>4
<1> QED BY <1>3, <1>4, <1>5, <1>6, <1>7 DEF Sound, Distinct, Fits

\* The first of a list and the rest.
LEMMA Parted ==
    ASSUME NEW D, NEW b \in Seq(D), b # <<>>, NEW m, m = Len(b), NEW h, h = Head(b), NEW rest, rest = Tail(b)
    PROVE  m \in Nat /\ m >= 1 /\ h = b[1] /\ h \in D /\ rest \in Seq(D) /\ Len(rest) = m - 1 /\ \A i \in 1..(m - 1) : rest[i] = b[i + 1]
<1>1. m \in Nat /\ m >= 1
  OBVIOUS
<1>2. h = b[1] /\ h \in D
  BY <1>1
<1>3. rest \in Seq(D) /\ Len(rest) = m - 1
  BY <1>1
<1>4. \A i \in 1..(m - 1) : rest[i] = b[i + 1]
  BY <1>1, <1>3
<1> QED BY <1>1, <1>2, <1>3, <1>4

\* One list after another.
LEMMA Joined ==
    ASSUME NEW D, NEW r \in Seq(D), NEW q \in Seq(D), NEW k, k = Len(r), NEW l, l = Len(q), NEW e, e = r \o q
    PROVE  /\ e \in Seq(D) /\ Len(e) = k + l /\ k \in Nat /\ l \in Nat
           /\ \A i \in 1..k : e[i] = r[i]
           /\ \A i \in 1..l : e[k + i] = q[i]
<1>1. k \in Nat /\ l \in Nat /\ e \in Seq(D) /\ Len(e) = k + l
  OBVIOUS
<1>2. \A i \in 1..(k + l) : e[i] = IF i <= k THEN r[i] ELSE q[i - k]
  OBVIOUS
<1>3. ASSUME NEW i \in 1..k PROVE e[i] = r[i]
  BY <1>1, <1>2
<1>4. ASSUME NEW i \in 1..l PROVE e[k + i] = q[i]
  <2>1. k + i \in 1..(k + l) /\ ~(k + i <= k) /\ (k + i) - k = i
    BY <1>1
  <2> QED BY <1>2, <2>1
<1> QED BY <1>1, <1>3, <1>4

\* It takes the first of the queue and queues those that become ready.
LEMMA SoundNext == ASSUME IsFiniteSet(DOMAIN modules), NEW o, Sound(o), o.queue # <<>>, NEW u \in NextReady(o) PROVE Sound(u)
<1> DEFINE D == DOMAIN modules
<1>1. PICK h : h = Head(o.queue)
  OBVIOUS
<1>2. PICK rest : rest = Tail(o.queue)
  OBVIOUS
<1>3. PICK done : done = Range(o.order) \cup {h}
  OBVIOUS
<1>4. PICK new : new = Ready(done) \ Range(o.queue)
  OBVIOUS
<1>5. PICK q \in SetToSeqs(new) : u = [order |-> Append(o.order, h), queue |-> rest \o q]
  BY <1>1, <1>2, <1>3, <1>4 DEF NextReady, Ordered
<1>6. PICK a : a = o.order
  OBVIOUS
<1>7. PICK b : b = o.queue
  OBVIOUS
<1>8. PICK n \in Nat : n = Len(a)
  BY <1>6 DEF Sound
<1>9. PICK m \in Nat : m = Len(b)
  BY <1>7 DEF Sound
<1>10. /\ a \in Seq(D) /\ b \in Seq(D) /\ \A i, j \in 1..n : a[i] = a[j] => i = j
       /\ \A i, j \in 1..m : b[i] = b[j] => i = j
       /\ \A i \in 1..n, j \in 1..m : a[i] # b[j]
       /\ \A i \in 1..n : \A d \in Dependencies(a[i]) : \E j \in 1..(i - 1) : a[j] = d
       /\ \A i \in 1..m : \A d \in Dependencies(b[i]) : \E j \in 1..n : a[j] = d
  BY <1>6, <1>7, <1>8, <1>9 DEF Sound, Distinct, Fits
<1>11. m >= 1 /\ h = b[1] /\ h \in D /\ rest \in Seq(D) /\ Len(rest) = m - 1 /\ \A i \in 1..(m - 1) : rest[i] = b[i + 1]
  <2>1. b \in Seq(D) /\ b # <<>> /\ m = Len(b) /\ h = Head(b) /\ rest = Tail(b)
    BY <1>1, <1>2, <1>7, <1>9, <1>10
  <2> HIDE DEF D
  <2> QED BY <2>1, Parted
<1>12. /\ new \subseteq D /\ \A x \in new : x \notin done /\ Dependencies(x) \subseteq done
       /\ \A x \in new : \A i \in 1..m : x # b[i]
  BY <1>4, <1>7, <1>9, <1>10 DEF Ready, Range
<1>13. IsFiniteSet(new)
  BY <1>12, FS_Subset
<1>14. q \in Seq(new) /\ Len(q) \in Nat /\ Distinct(q)
  BY <1>13, ListingIs
<1>15. PICK c : c = Append(a, h)
  OBVIOUS
<1>16. c \in Seq(D) /\ Len(c) = n + 1 /\ c[n + 1] = h /\ \A i \in 1..n : c[i] = a[i]
  BY <1>8, <1>10, <1>11, <1>15
<1>17. PICK e : e = rest \o q
  OBVIOUS
<1>18. PICK l \in Nat : l = Len(q)
  BY <1>14
<1>19. q \in Seq(D) /\ \A i \in 1..l : q[i] \in new
  BY <1>12, <1>14, <1>18
<1>20. /\ e \in Seq(D) /\ Len(e) = (m - 1) + l
       /\ \A i \in 1..(m - 1) : e[i] = rest[i]
       /\ \A i \in 1..l : e[(m - 1) + i] = q[i]
  <2>0. PICK k : k = m - 1
    OBVIOUS
  <2>1. rest \in Seq(D) /\ q \in Seq(D) /\ k = Len(rest) /\ l = Len(q) /\ e = rest \o q
    BY <1>11, <1>14, <1>17, <1>18, <1>19, <2>0
  <2> HIDE DEF D
  <2>2. /\ e \in Seq(D) /\ Len(e) = k + l
        /\ \A i \in 1..k : e[i] = rest[i]
        /\ \A i \in 1..l : e[k + i] = q[i]
    BY <2>1, Joined
  <2> QED BY <2>0, <2>2
<1>21. u.order = c /\ u.queue = e
  BY <1>5, <1>6, <1>15, <1>17
<1>22. \A x \in done : \E j \in 1..(n + 1) : c[j] = x
  <2> TAKE x \in done
  <2>1. CASE x = h
    BY <1>8, <1>16, <2>1
  <2>2. CASE x # h
    <3>1. PICK j \in 1..n : a[j] = x
      BY <1>3, <1>6, <1>8, <1>10, <2>2 DEF Range
    <3>2. j \in 1..(n + 1) /\ c[j] = x
      BY <1>16, <3>1
    <3> QED BY <3>2
  <2> QED BY <2>1, <2>2
<1>23. \A j \in 1..(n + 1) : c[j] \in done
  <2> TAKE j \in 1..(n + 1)
  <2>1. CASE j = n + 1
    BY <1>3, <1>16, <2>1
  <2>2. CASE j # n + 1
    <3>1. j \in 1..n /\ c[j] = a[j]
      BY <1>16, <2>2
    <3> QED BY <1>3, <1>6, <1>8, <1>10, <3>1 DEF Range
  <2> QED BY <2>1, <2>2
\* What is at a place of the new queue: an old one further on, or a new one.
<1>24. ASSUME NEW i \in 1..((m - 1) + l)
       PROVE  \/ i + 1 \in 1..m /\ i + 1 # 1 /\ e[i] = b[i + 1]
              \/ i - (m - 1) \in 1..l /\ e[i] = q[i - (m - 1)] /\ e[i] \in new
  <2>1. CASE i <= m - 1
    BY <1>11, <1>20, <2>1
  <2>2. CASE ~(i <= m - 1)
    <3>0. i - (m - 1) \in 1..l /\ i = (m - 1) + (i - (m - 1))
      BY <1>11, <2>2
    <3>1. PICK k \in 1..l : i = (m - 1) + k
      BY <3>0
    <3>2. e[i] = q[k] /\ i - (m - 1) = k
      BY <1>20, <3>1
    <3> QED BY <1>19, <3>2
  <2> QED BY <2>1, <2>2
<1>25. Distinct(c)
  <2> SUFFICES ASSUME NEW i \in 1..(n + 1), NEW j \in 1..(n + 1), c[i] = c[j] PROVE i = j
    BY <1>16 DEF Distinct
  <2>1. \A k \in 1..(n + 1) : k = n + 1 \/ k \in 1..n
    OBVIOUS
  <2>2. \A k \in 1..n : c[k] # h
    BY <1>10, <1>11, <1>16
  <2> QED BY <1>10, <1>16, <2>1, <2>2
<1>26. Distinct(e)
  <2> SUFFICES ASSUME NEW i \in 1..((m - 1) + l), NEW j \in 1..((m - 1) + l), e[i] = e[j] PROVE i = j
    BY <1>20 DEF Distinct
  <2>1. CASE i + 1 \in 1..m /\ e[i] = b[i + 1] /\ j + 1 \in 1..m /\ e[j] = b[j + 1]
    <3>1. b[i + 1] = b[j + 1]
      BY <2>1
    <3>2. i + 1 = j + 1
      BY <1>10, <2>1, <3>1
    <3> QED BY <3>2
  <2>2. CASE i - (m - 1) \in 1..l /\ e[i] = q[i - (m - 1)] /\ j - (m - 1) \in 1..l /\ e[j] = q[j - (m - 1)]
    <3>1. i - (m - 1) = j - (m - 1)
      BY <1>14, <1>18, <2>2 DEF Distinct
    <3> QED BY <3>1
  <2>3. ~(i + 1 \in 1..m /\ e[i] = b[i + 1] /\ e[j] \in new)
    BY <1>12
  <2>4. ~(j + 1 \in 1..m /\ e[j] = b[j + 1] /\ e[i] \in new)
    BY <1>12
  <2> QED BY <1>24, <2>1, <2>2, <2>3, <2>4
<1>27. \A i \in 1..Len(c), j \in 1..Len(e) : c[i] # e[j]
  <2> SUFFICES ASSUME NEW i \in 1..(n + 1), NEW j \in 1..((m - 1) + l) PROVE c[i] # e[j]
    BY <1>16, <1>20
  <2>1. CASE e[j] \in new
    BY <1>12, <1>23, <2>1
  <2>2. CASE j + 1 \in 1..m /\ j + 1 # 1 /\ e[j] = b[j + 1]
    <3>1. CASE i = n + 1
      <4>1. 1 \in 1..m /\ c[i] = b[1]
        BY <1>11, <1>16, <3>1
      <4>2. b[1] # b[j + 1]
        BY <1>10, <2>2, <4>1
      <4> QED BY <2>2, <4>1, <4>2
    <3>2. CASE i # n + 1
      <4>1. i \in 1..n /\ c[i] = a[i]
        BY <1>16, <3>2
      <4> QED BY <1>10, <2>2, <4>1
    <3> QED BY <3>1, <3>2
  <2> QED BY <1>24, <2>1, <2>2
<1>28. Fits(c)
  <2> SUFFICES ASSUME NEW i \in 1..(n + 1), NEW d \in Dependencies(c[i]) PROVE \E j \in 1..(i - 1) : c[j] = d
    BY <1>16 DEF Fits
  <2>1. CASE i = n + 1
    <3>1. 1 \in 1..m /\ c[i] = b[1]
      BY <1>11, <1>16, <2>1
    <3>2. PICK j \in 1..n : a[j] = d
      BY <1>10, <3>1
    <3>3. j \in 1..(i - 1) /\ c[j] = d
      BY <1>16, <2>1, <3>2
    <3> QED BY <3>3
  <2>2. CASE i # n + 1
    <3>1. i \in 1..n /\ c[i] = a[i]
      BY <1>16, <2>2
    <3>2. PICK j \in 1..(i - 1) : a[j] = d
      BY <1>10, <3>1
    <3>3. c[j] = d
      BY <1>16, <3>1, <3>2
    <3> QED BY <3>3
  <2> QED BY <2>1, <2>2
<1>29. \A i \in 1..Len(e) : \A d \in Dependencies(e[i]) : \E j \in 1..Len(c) : c[j] = d
  <2> SUFFICES ASSUME NEW i \in 1..((m - 1) + l), NEW d \in Dependencies(e[i]) PROVE \E j \in 1..(n + 1) : c[j] = d
    BY <1>16, <1>20
  <2>1. CASE e[i] \in new
    BY <1>12, <1>22, <2>1
  <2>2. CASE i + 1 \in 1..m /\ e[i] = b[i + 1]
    <3>0. d \in Dependencies(b[i + 1])
      BY <2>2
    <3>1. PICK j \in 1..n : a[j] = d
      BY <1>10, <2>2, <3>0
    <3>2. j \in 1..(n + 1) /\ c[j] = d
      BY <1>16, <3>1
    <3> QED BY <3>2
  <2> QED BY <1>24, <2>1, <2>2
<1> QED BY <1>16, <1>20, <1>21, <1>25, <1>26, <1>27, <1>28, <1>29 DEF Sound

\* So everything it comes to is sound.
LEMMA SoundAll == ASSUME IsFiniteSet(DOMAIN modules) PROVE \A o \in AllOrdered : Sound(o)
<1> DEFINE n == Cardinality(DOMAIN modules)
           G(g, k) == g = [i \in 0..k |-> IF i = 0 THEN FirstReady ELSE Onward(g[i - 1])]
           K == {k \in Nat : \E g : G(g, k)}
<1>1. n \in Nat
  BY FS_CardinalityType
<1>2. 0 \in K
  <2>1. G([i \in 0..0 |-> FirstReady], 0)
    OBVIOUS
  <2> QED BY <2>1
<1>3. ASSUME NEW k \in 0..(n - 1), k \in K PROVE k + 1 \in K
  <2>1. PICK g : G(g, k)
    BY <1>3
  <2> DEFINE h == [i \in 0..(k + 1) |-> IF i = k + 1 THEN Onward(g[k]) ELSE g[i]]
  <2>2. \A i \in 0..(k + 1) : h[i] = IF i = 0 THEN FirstReady ELSE Onward(h[i - 1])
    <3> TAKE i \in 0..(k + 1)
    <3>1. CASE i = k + 1
      <4>1. i - 1 = k /\ k \in 0..(k + 1) /\ k # k + 1 /\ i # 0
        BY <3>1
      <4> QED BY <3>1, <4>1
    <3>2. CASE i # k + 1
      <4>1. i \in 0..k
        BY <3>2
      <4>2. g[i] = IF i = 0 THEN FirstReady ELSE Onward(g[i - 1])
        BY <2>1, <4>1
      <4>3. i # 0 => i - 1 \in 0..(k + 1) /\ i - 1 # k + 1
        BY <4>1
      <4> QED BY <3>2, <4>2, <4>3
    <3> QED BY <3>1, <3>2
  <2>3. h = [i \in 0..(k + 1) |-> h[i]]
    OBVIOUS
  <2> HIDE DEF h
  <2>4. G(h, k + 1)
    BY <2>2, <2>3
  <2>5. k + 1 \in Nat
    BY <1>3
  <2>6. \E w : G(w, k + 1)
    BY <2>4
  <2> QED BY <2>5, <2>6
<1> HIDE DEF K, n
<1>4. n \in K
  <2>1. 0..n \subseteq K
    BY <1>1, <1>2, <1>3, UpTo
  <2> QED BY <1>1, <2>1
<1> DEFINE c == CHOOSE g : G(g, n)
<1>5. G(c, n)
  BY <1>4 DEF K
<1>6. AllOrdered = c[n]
  BY DEF AllOrdered, n
<1> HIDE DEF c
<1>7. \A i \in 0..n : c[i] = IF i = 0 THEN FirstReady ELSE Onward(c[i - 1])
  BY <1>5
<1> DEFINE M == {k \in Nat : \A o \in c[k] : Sound(o)}
<1>8. 0 \in M
  <2>1. c[0] = FirstReady
    BY <1>1, <1>7
  <2> QED BY <2>1, SoundFirst
<1>9. ASSUME NEW k \in 0..(n - 1), k \in M PROVE k + 1 \in M
  <2>1. k + 1 \in 0..n /\ k + 1 # 0 /\ (k + 1) - 1 = k /\ k + 1 \in Nat
    BY <1>1
  <2>2. c[k + 1] = Onward(c[k])
    BY <1>7, <2>1
  <2>3. ASSUME NEW u \in c[k + 1] PROVE Sound(u)
    <3>1. PICK o \in c[k] : u \in (IF o.queue = <<>> THEN {o} ELSE NextReady(o))
      BY <2>2 DEF Onward
    <3>2. Sound(o)
      BY <1>9
    <3>3. CASE o.queue = <<>>
      BY <3>1, <3>2, <3>3
    <3>4. CASE o.queue # <<>>
      BY <3>1, <3>2, <3>4, SoundNext
    <3> QED BY <3>3, <3>4
  <2> QED BY <2>1, <2>3
<1>10. n \in M
  <2> HIDE DEF M
  <2>1. 0..n \subseteq M
    BY <1>1, <1>8, <1>9, UpTo
  <2> QED BY <1>1, <2>1
<1> QED BY <1>6, <1>10

\* resolveDependencies: no order, or one of all modules with each of them after
\* its dependencies.
LEMMA OrderIs ==
    ASSUME IsFiniteSet(DOMAIN modules), NEW order \in Resolutions
    PROVE  /\ order \in Seq(DOMAIN modules) /\ Distinct(order) /\ Fits(order)
           /\ order = <<>> \/ \A m \in DOMAIN modules : \E i \in 1..Len(order) : order[i] = m
<1>1. CASE order = <<>>
  <2>1. <<>> \in Seq(DOMAIN modules) /\ Len(<<>>) = 0 /\ 1..0 = {}
    OBVIOUS
  <2> QED BY <1>1, <2>1 DEF Distinct, Fits
<1>2. CASE order # <<>>
  <2>1. PICK o \in AllOrdered : order = o.order /\ Len(order) = Cardinality(DOMAIN modules)
    BY <1>2 DEF Resolutions
  <2>2. order \in Seq(DOMAIN modules) /\ Distinct(order) /\ Fits(order)
    BY <2>1, SoundAll DEF Sound
  <2>3. Cardinality(DOMAIN modules) \in Nat
    BY FS_CardinalityType
  <2>4. PICK n \in Nat : n = Len(order)
    BY <2>1, <2>3
  <2>5. order \in Injection(1..n, DOMAIN modules)
    BY <2>2, <2>4 DEF Distinct, Injection, IsInjective
  <2>6. Cardinality(1..n) = n
    BY FS_Interval
  <2>7. order \in Surjection(1..n, DOMAIN modules)
    BY <2>1, <2>4, <2>5, <2>6, FS_Injection
  <2>8. \A m \in DOMAIN modules : \E i \in 1..n : order[i] = m
    BY <2>7 DEF Surjection
  <2> QED BY <2>2, <2>4, <2>8
<1> QED BY <1>1, <1>2

-----------------------------------------------------------------------------
(* Modules outlive what depends on them *)

\* The calls of a module's life.
Happened == {"register", "unload", "failed"}

\* Names, records and events are of their kinds; the history tells of modules there are.
ModuleTypes ==
    /\ IsFiniteSet(DOMAIN modules) /\ DOMAIN modules \subseteq ModuleNames
    /\ modules \in [DOMAIN modules -> [dependencies : DependencySets, initialized : BOOLEAN, handle : BOOLEAN]]
    /\ lifecycle \in Seq(Happened \X DOMAIN modules)

\* The order modules were started in, if there is one, has every started module
\* in it and each after its dependencies.
OrderHolds ==
    /\ initOrder \in Seq(DOMAIN modules) /\ Distinct(initOrder) /\ Fits(initOrder)
    /\ initOrder = <<>> \/ \A m \in DOMAIN modules : modules[m].initialized => \E i \in 1..Len(initOrder) : initOrder[i] = m

\* What counts as initialized is running or failed to stop; what is running is initialized.
MarksHold ==
    /\ \A m \in DOMAIN modules : modules[m].initialized => m \in Running(lifecycle, Len(lifecycle)) \cup FailedBy(lifecycle, Len(lifecycle))
    /\ \A m \in Running(lifecycle, Len(lifecycle)) : modules[m].initialized

\* The inductive invariant.
ModuleInv == ModuleTypes /\ OrderHolds /\ MarksHold /\ DependenciesOutlive

\* Of a history that goes on: what was true of its first part stays true of it, and
\* what runs at the end ran before or was started since.
GoesOnAs(past, k, more, l, all) ==
    /\ \A n \in 0..k : Running(all, n) = Running(past, n) /\ FailedBy(all, n) = FailedBy(past, n)
    /\ \A p \in 0..l :
         /\ FailedBy(past, k) \subseteq FailedBy(all, k + p)
         /\ \A m \in Running(past, k) : (\A q \in 1..p : more[q][2] # m) => m \in Running(all, k + p)
         /\ \A m \in Running(all, k + p) :
              (m \in Running(past, k) /\ \A q \in 1..p : more[q][2] # m) \/ \E q \in 1..p : more[q] = Starting(m)
         /\ \A m \in ModuleNames, q \in 1..p :
              /\ more[q] = Starting(m) /\ (\A r \in (q + 1)..p : more[r][2] # m) => m \in Running(all, k + p)
              /\ more[q] = <<"failed", m>> => m \in FailedBy(all, k + p)

\* Every history that goes on does so: what runs can be told part by part.
LEMMA GoesOn ==
    ASSUME NEW T, NEW past \in Seq(T), NEW more \in Seq(T), NEW all, all = past \o more,
           NEW k, k = Len(past), NEW l, l = Len(more)
    PROVE  GoesOnAs(past, k, more, l, all)
<1>1. /\ all \in Seq(T) /\ Len(all) = k + l /\ k \in Nat /\ l \in Nat
      /\ \A i \in 1..k : all[i] = past[i]
      /\ \A i \in 1..l : all[k + i] = more[i]
  BY Joined
<1>2. ASSUME NEW n \in 0..k PROVE Running(all, n) = Running(past, n) /\ FailedBy(all, n) = FailedBy(past, n)
  <2>1. \A i \in 1..n : all[i] = past[i]
    BY <1>1
  <2>2. \A i \in 1..n : \A j \in (i + 1)..n : all[j] = past[j]
    BY <1>1
  <2> QED BY <2>1, <2>2 DEF Running, FailedBy
<1>3. ASSUME NEW p \in 0..l PROVE FailedBy(past, k) \subseteq FailedBy(all, k + p)
  <2>1. \A i \in 1..k : i \in 1..(k + p) /\ all[i] = past[i]
    BY <1>1
  <2> QED BY <2>1 DEF FailedBy
\* A later call is one of the first part or of the second.
<1>4. ASSUME NEW p \in 0..l, NEW i \in 1..(k + p)
      PROVE  \/ i \in 1..k /\ all[i] = past[i]
             \/ \E q \in 1..p : i = k + q /\ all[i] = more[q]
  <2>1. CASE i <= k
    BY <1>1, <2>1
  <2>2. CASE ~(i <= k)
    <3>1. i - k \in 1..p /\ i = k + (i - k)
      BY <1>1, <2>2
    <3>2. PICK q \in 1..p : i = k + q
      BY <3>1
    <3> QED BY <1>1, <3>2
  <2> QED BY <2>1, <2>2
<1>5. ASSUME NEW p \in 0..l, NEW m \in Running(past, k), \A q \in 1..p : more[q][2] # m PROVE m \in Running(all, k + p)
  <2>1. PICK i \in 1..k : past[i] = Starting(m) /\ \A j \in (i + 1)..k : past[j][2] # m
    BY DEF Running
  <2>2. i \in 1..(k + p) /\ all[i] = Starting(m)
    BY <1>1, <2>1
  <2>3. ASSUME NEW j \in (i + 1)..(k + p) PROVE all[j][2] # m
    <3>1. j \in 1..(k + p)
      BY <1>1
    <3>2. CASE j \in 1..k /\ all[j] = past[j]
      BY <2>1, <3>2
    <3>3. CASE \E q \in 1..p : j = k + q /\ all[j] = more[q]
      BY <1>5, <3>3
    <3> QED BY <1>4, <3>1, <3>2, <3>3
  <2>4. m \in ModuleNames
    BY DEF Running
  <2> QED BY <2>2, <2>3, <2>4 DEF Running
<1>6. ASSUME NEW p \in 0..l, NEW m \in Running(all, k + p)
      PROVE  (m \in Running(past, k) /\ \A q \in 1..p : more[q][2] # m) \/ \E q \in 1..p : more[q] = Starting(m)
  <2>1. PICK i \in 1..(k + p) : all[i] = Starting(m) /\ \A j \in (i + 1)..(k + p) : all[j][2] # m
    BY DEF Running
  <2>2. CASE i \in 1..k /\ all[i] = past[i]
    <3>1. \A j \in (i + 1)..k : j \in (i + 1)..(k + p) /\ all[j] = past[j]
      BY <1>1, <2>2
    <3>2. m \in Running(past, k)
      <4>1. past[i] = Starting(m) /\ \A j \in (i + 1)..k : past[j][2] # m
        BY <2>1, <2>2, <3>1
      <4>2. m \in ModuleNames
        BY DEF Running
      <4> QED BY <2>2, <4>1, <4>2 DEF Running
    <3>3. \A q \in 1..p : k + q \in (i + 1)..(k + p) /\ all[k + q] = more[q]
      BY <1>1, <2>2
    <3> QED BY <2>1, <3>2, <3>3
  <2>3. CASE \E q \in 1..p : i = k + q /\ all[i] = more[q]
    BY <2>1, <2>3
  <2> QED BY <1>4, <2>2, <2>3
<1>7. ASSUME NEW p \in 0..l, NEW m \in ModuleNames, NEW q \in 1..p, more[q] = Starting(m), \A r \in (q + 1)..p : more[r][2] # m
      PROVE  m \in Running(all, k + p)
  <2>1. k + q \in 1..(k + p) /\ all[k + q] = Starting(m)
    BY <1>1, <1>7
  <2>2. ASSUME NEW j \in (k + q + 1)..(k + p) PROVE all[j][2] # m
    <3>1. PICK r \in (q + 1)..p : j = k + r
      <4>1. j - k \in (q + 1)..p /\ j = k + (j - k)
        BY <1>1
      <4> QED BY <4>1
    <3>2. all[j] = more[r]
      BY <1>1, <3>1
    <3> QED BY <1>7, <3>2
  <2> QED BY <2>1, <2>2 DEF Running
<1>8. ASSUME NEW p \in 0..l, NEW m \in ModuleNames, NEW q \in 1..p, more[q] = <<"failed", m>> PROVE m \in FailedBy(all, k + p)
  <2>1. k + q \in 1..(k + p) /\ all[k + q] = <<"failed", m>>
    BY <1>1, <1>8
  <2> QED BY <2>1 DEF FailedBy
<1> QED BY <1>2, <1>3, <1>5, <1>6, <1>7, <1>8 DEF GoesOnAs

\* Whatever runs is a module there is.
LEMMA RunningKnown ==
    ASSUME NEW D, NEW past \in Seq(Happened \X D), NEW n \in 0..Len(past), NEW m \in Running(past, n)
    PROVE  m \in D
<1>1. PICK i \in 1..n : past[i] = <<"register", m>>
  BY DEF Running, Starting
<1>2. i \in 1..Len(past)
  OBVIOUS
<1>3. past[i] \in Happened \X D
  BY <1>2
<1> QED BY <1>1, <1>3

\* What is known of the modules stays known when the table keeps their
\* dependencies and the history does not change.
LEMMA SameHistory ==
    ASSUME ModuleInv, NEW D, D = DOMAIN modules, D \subseteq DOMAIN modules', lifecycle' = lifecycle, initOrder' = initOrder,
           \A m \in D : modules'[m].dependencies = modules[m].dependencies
    PROVE  DependenciesOutlive' /\ Fits(initOrder)'
<1>1. lifecycle \in Seq(Happened \X D) /\ initOrder \in Seq(D)
  BY DEF ModuleInv, ModuleTypes, OrderHolds
<1>2. \A n \in 1..Len(lifecycle) : lifecycle[n][2] \in D
  <2> TAKE n \in 1..Len(lifecycle)
  <2>1. lifecycle[n] \in Happened \X D
    BY <1>1
  <2> QED BY <2>1
<1>3. \A n \in 1..Len(lifecycle) : \A m \in Running(lifecycle, n) : m \in D
  BY <1>1, RunningKnown
<1>4. DOMAIN lifecycle = 1..Len(lifecycle)
  BY <1>1
<1>5. DependenciesOutlive'
  <2> SUFFICES ASSUME NEW n \in 1..Len(lifecycle)
               PROVE  IF lifecycle[n][1] = "register"
                      THEN modules'[lifecycle[n][2]].dependencies \subseteq Running(lifecycle, n - 1) \cup FailedBy(lifecycle, n - 1)
                      ELSE \A m \in Running(lifecycle, n) : lifecycle[n][2] \notin modules'[m].dependencies
    BY <1>4 DEF DependenciesOutlive, Dependencies
  <2>1. IF lifecycle[n][1] = "register"
        THEN modules[lifecycle[n][2]].dependencies \subseteq Running(lifecycle, n - 1) \cup FailedBy(lifecycle, n - 1)
        ELSE \A m \in Running(lifecycle, n) : lifecycle[n][2] \notin modules[m].dependencies
    BY <1>4 DEF ModuleInv, DependenciesOutlive, Dependencies
  <2> QED BY <1>2, <1>3, <2>1
<1>6. \A i \in 1..Len(initOrder) : initOrder[i] \in D
  BY <1>1
<1>7. Fits(initOrder)'
  BY <1>6 DEF ModuleInv, OrderHolds, Fits, Dependencies
<1> QED BY <1>5, <1>7

\* A table with one more module.
LEMMA ModuleAdded ==
    ASSUME ModuleInv, NEW name \in ModuleNames, NEW deps \in DependencySets, NEW handle \in BOOLEAN,
           modules' = WithModule(name, deps, handle), UNCHANGED <<initOrder, lifecycle>>
    PROVE  ModuleInv'
<1> DEFINE D == DOMAIN modules
<1>1. DOMAIN modules' = D \cup {name}
  BY DEF WithModule
<1>2. /\ \A m \in D : modules'[m] = modules[m]
      /\ name \notin D => modules'[name] = [dependencies |-> deps, initialized |-> FALSE, handle |-> handle]
  BY DEF WithModule
<1>3. ModuleTypes'
  <2>1. IsFiniteSet(D \cup {name}) /\ D \cup {name} \subseteq ModuleNames
    BY FS_AddElement DEF ModuleInv, ModuleTypes
  <2>2. modules' \in [D \cup {name} -> [dependencies : DependencySets, initialized : BOOLEAN, handle : BOOLEAN]]
    BY DEF ModuleInv, ModuleTypes, WithModule
  <2>3. lifecycle \in Seq(Happened \X (D \cup {name}))
    <3>1. lifecycle \in Seq(Happened \X D)
      BY DEF ModuleInv, ModuleTypes
    <3>2. Happened \X D \subseteq Happened \X (D \cup {name})
      OBVIOUS
    <3> QED BY <3>1, <3>2
  <2> QED BY <1>1, <2>1, <2>2, <2>3 DEF ModuleTypes
<1>4. DependenciesOutlive' /\ Fits(initOrder)'
  BY <1>1, <1>2, SameHistory
<1>5. \A m \in DOMAIN modules' : modules'[m].initialized => m \in D /\ modules[m].initialized
  BY <1>1, <1>2
<1>6. OrderHolds'
  <2>1. initOrder \in Seq(D) /\ Distinct(initOrder)
    BY DEF ModuleInv, OrderHolds
  <2>2. initOrder \in Seq(DOMAIN modules')
    BY <1>1, <2>1
  <2>3. initOrder = <<>> \/ \A m \in DOMAIN modules' : modules'[m].initialized => \E i \in 1..Len(initOrder) : initOrder[i] = m
    BY <1>5 DEF ModuleInv, OrderHolds
  <2> QED BY <1>4, <2>1, <2>2, <2>3 DEF OrderHolds, Distinct
<1>7. MarksHold'
  <2>1. lifecycle \in Seq(Happened \X D) /\ Len(lifecycle) \in 0..Len(lifecycle)
    BY DEF ModuleInv, ModuleTypes
  <2>2. \A m \in Running(lifecycle, Len(lifecycle)) : m \in D /\ modules'[m].initialized
    BY <1>2, <2>1, RunningKnown DEF ModuleInv, MarksHold
  <2>3. \A m \in DOMAIN modules' : modules'[m].initialized => m \in Running(lifecycle, Len(lifecycle)) \cup FailedBy(lifecycle, Len(lifecycle))
    BY <1>5 DEF ModuleInv, MarksHold
  <2> QED BY <2>2, <2>3 DEF MarksHold, Running, FailedBy
<1> QED BY <1>3, <1>4, <1>6, <1>7 DEF ModuleInv

\* The history goes on with calls that each respect the dependencies.
LEMMA HistoryGrows ==
    ASSUME ModuleInv, NEW D, D = DOMAIN modules, DOMAIN modules' = D, \A m \in D : modules'[m].dependencies = modules[m].dependencies,
           NEW more \in Seq(Happened \X D), NEW all, all = lifecycle \o more, lifecycle' = all, NEW k, k = Len(lifecycle),
           \A p \in 1..Len(more) :
             IF more[p][1] = "register"
             THEN modules[more[p][2]].dependencies \subseteq Running(all, k + p - 1) \cup FailedBy(all, k + p - 1)
             ELSE \A m \in Running(all, k + p) : more[p][2] \notin modules[m].dependencies
    PROVE  DependenciesOutlive'
<1> DEFINE l == Len(more)
<1>1. lifecycle \in Seq(Happened \X D)
  BY DEF ModuleInv, ModuleTypes
<1>2. /\ all \in Seq(Happened \X D) /\ Len(all) = k + l /\ k \in Nat /\ l \in Nat
      /\ \A i \in 1..k : all[i] = lifecycle[i]
      /\ \A i \in 1..l : all[k + i] = more[i]
  <2>1. lifecycle \in Seq(Happened \X D) /\ k = Len(lifecycle) /\ l = Len(more)
    BY <1>1
  <2> HIDE DEF l
  <2> QED BY <2>1, Joined
<1>3. \A n \in 0..k : Running(all, n) = Running(lifecycle, n) /\ FailedBy(all, n) = FailedBy(lifecycle, n)
  <2>0. PICK T : T = Happened \X D
    OBVIOUS
  <2>1. lifecycle \in Seq(T) /\ more \in Seq(T) /\ all = lifecycle \o more /\ k = Len(lifecycle) /\ l = Len(more)
    BY <1>1, <2>0
  <2> HIDE DEF l
  <2>2. GoesOnAs(lifecycle, k, more, l, all)
    BY <2>1, GoesOn
  <2> QED BY <2>2 DEF GoesOnAs
<1>4. \A n \in 1..Len(all) : all[n][2] \in D
  <2> TAKE n \in 1..Len(all)
  <2>1. all[n] \in Happened \X D
    BY <1>2
  <2> QED BY <2>1
<1>5. \A n \in 1..Len(all) : \A m \in Running(all, n) : m \in D
  <2> TAKE n \in 1..Len(all)
  <2>1. n \in 0..Len(all)
    BY <1>2
  <2> QED BY <1>2, <2>1, RunningKnown
<1>6. ASSUME NEW n \in 1..Len(all)
      PROVE  IF all[n][1] = "register"
             THEN modules[all[n][2]].dependencies \subseteq Running(all, n - 1) \cup FailedBy(all, n - 1)
             ELSE \A m \in Running(all, n) : all[n][2] \notin modules[m].dependencies
  <2>1. CASE n \in 1..k
    <3>1. /\ n \in DOMAIN lifecycle /\ all[n] = lifecycle[n]
          /\ Running(all, n) = Running(lifecycle, n) /\ Running(all, n - 1) = Running(lifecycle, n - 1)
          /\ FailedBy(all, n - 1) = FailedBy(lifecycle, n - 1)
      <4>1. n \in 0..k /\ n - 1 \in 0..k
        BY <1>2, <2>1
      <4>2. DOMAIN lifecycle = 1..k
        BY <1>1
      <4> QED BY <1>2, <1>3, <2>1, <4>1, <4>2
    <3>2. IF lifecycle[n][1] = "register"
          THEN modules[lifecycle[n][2]].dependencies \subseteq Running(lifecycle, n - 1) \cup FailedBy(lifecycle, n - 1)
          ELSE \A m \in Running(lifecycle, n) : lifecycle[n][2] \notin modules[m].dependencies
      BY <3>1 DEF ModuleInv, DependenciesOutlive, Dependencies
    <3> QED BY <3>1, <3>2
  <2>2. CASE n \notin 1..k
    <3>1. PICK p \in 1..l : n = k + p
      <4>1. n - k \in 1..l /\ n = k + (n - k)
        BY <1>2, <2>2
      <4> QED BY <4>1
    <3>2. all[n] = more[p] /\ p \in 1..Len(more)
      BY <1>2, <3>1
    <3>3. IF more[p][1] = "register"
          THEN modules[more[p][2]].dependencies \subseteq Running(all, k + p - 1) \cup FailedBy(all, k + p - 1)
          ELSE \A m \in Running(all, k + p) : more[p][2] \notin modules[m].dependencies
      BY <3>2
    <3>4. IF all[n][1] = "register"
          THEN modules[all[n][2]].dependencies \subseteq Running(all, k + p - 1) \cup FailedBy(all, k + p - 1)
          ELSE \A m \in Running(all, k + p) : all[n][2] \notin modules[m].dependencies
      BY <3>2, <3>3
    <3> QED BY <3>1, <3>4
  <2> QED BY <2>1, <2>2
<1>7. DOMAIN all = 1..Len(all)
  BY <1>2
<1> SUFFICES ASSUME NEW n \in 1..Len(all)
             PROVE  IF all[n][1] = "register"
                    THEN modules'[all[n][2]].dependencies \subseteq Running(all, n - 1) \cup FailedBy(all, n - 1)
                    ELSE \A m \in Running(all, n) : all[n][2] \notin modules'[m].dependencies
  BY <1>7 DEF DependenciesOutlive, Dependencies
<1> QED BY <1>4, <1>5, <1>6

\* initializeAll.
LEMMA InitializeKeeps == ASSUME ModuleInv, InitializeAll PROVE ModuleInv'
<1> DEFINE D == DOMAIN modules
<1>1. PICK order \in Resolutions : \E n \in 0..Len(Selected(order, D \ StartedModules)) :
         LET started == SubSeq(Selected(order, D \ StartedModules), 1, n)
         IN  /\ initOrder' = order
             /\ modules' = [m \in D |-> [modules[m] EXCEPT !.initialized = @ \/ m \in Range(started)]]
             /\ lifecycle' = lifecycle \o [i \in DOMAIN started |-> Starting(started[i])]
  BY DEF InitializeAll
<1>2. PICK rest : rest = D \ StartedModules
  OBVIOUS
<1>3. PICK waiting : waiting = Selected(order, rest)
  OBVIOUS
<1>4. PICK n \in 0..Len(waiting) :
         LET started == SubSeq(waiting, 1, n)
         IN  /\ initOrder' = order
             /\ modules' = [m \in D |-> [modules[m] EXCEPT !.initialized = @ \/ m \in Range(started)]]
             /\ lifecycle' = lifecycle \o [i \in DOMAIN started |-> Starting(started[i])]
  BY <1>1, <1>2, <1>3
<1>5. PICK started : started = SubSeq(waiting, 1, n)
  OBVIOUS
<1>6. PICK more : more = [i \in DOMAIN started |-> Starting(started[i])]
  OBVIOUS
<1>7. /\ initOrder' = order
      /\ modules' = [m \in D |-> [modules[m] EXCEPT !.initialized = @ \/ m \in Range(started)]]
      /\ lifecycle' = lifecycle \o more
  BY <1>4, <1>5, <1>6
<1>8. ModuleTypes
  BY DEF ModuleInv
<1>9. IsFiniteSet(D) /\ D \subseteq ModuleNames /\ lifecycle \in Seq(Happened \X D)
  BY <1>8 DEF ModuleTypes
<1>10. /\ order \in Seq(D) /\ Distinct(order) /\ Fits(order)
       /\ order = <<>> \/ \A m \in D : \E i \in 1..Len(order) : order[i] = m
  BY <1>9, OrderIs
<1>11. /\ waiting \in Seq(D) /\ Len(waiting) \in Nat /\ Distinct(waiting)
       /\ \A p \in 1..Len(waiting) : waiting[p] \in rest /\ \E i \in 1..Len(order) : waiting[p] = order[i]
       /\ \A i \in 1..Len(order) : order[i] \in rest => \E p \in 1..Len(waiting) : waiting[p] = order[i]
       /\ \A p, q \in 1..Len(waiting), i, j \in 1..Len(order) : i < j /\ waiting[p] = order[i] /\ waiting[q] = order[j] => p < q
  <2>0. PICK E : E = D
    OBVIOUS
  <2>1. order \in Seq(E) /\ Distinct(order) /\ waiting = Selected(order, rest)
    BY <1>3, <1>10, <2>0
  <2>2. SelectedAs(waiting, order, rest, E)
    BY <2>1, SelectedInOrder
  <2> QED BY <2>0, <2>2 DEF SelectedAs
<1>12. started \in Seq(D) /\ Len(started) = n /\ n \in Nat /\ \A p \in 1..n : started[p] = waiting[p] /\ p \in 1..Len(waiting) /\ started[p] \in D
  <2>1. started = [i \in 1..n |-> waiting[i]]
    BY <1>5, <1>11
  <2>2. \A p \in 1..n : p \in 1..Len(waiting) /\ waiting[p] \in D
    BY <1>11
  <2> QED BY <2>1, <2>2
<1>13. more = [i \in 1..n |-> <<"register", started[i]>>]
  BY <1>6, <1>12 DEF Starting
<1>14. more \in Seq(Happened \X D) /\ Len(more) = n /\ \A p \in 1..n : more[p] = Starting(started[p]) /\ more[p][1] = "register" /\ more[p][2] = started[p]
  <2>1. \A i \in 1..n : <<"register", started[i]>> \in Happened \X D
    BY <1>12 DEF Happened
  <2> QED BY <1>12, <1>13, <2>1 DEF Starting
<1>15. Range(started) = {started[i] : i \in 1..n}
  BY <1>12 DEF Range
<1>16. /\ DOMAIN modules' = D
       /\ \A m \in D : modules'[m].dependencies = modules[m].dependencies
       /\ \A m \in D : modules'[m].initialized <=> modules[m].initialized \/ \E i \in 1..n : started[i] = m
       /\ modules' \in [D -> [dependencies : DependencySets, initialized : BOOLEAN, handle : BOOLEAN]]
  <2>1. PICK R : R = Range(started)
    OBVIOUS
  <2>2. modules' = [m \in D |-> [modules[m] EXCEPT !.initialized = @ \/ m \in R]]
    BY <1>7, <2>1
  <2>3. \A m \in D : modules[m] \in [dependencies : DependencySets, initialized : BOOLEAN, handle : BOOLEAN]
    BY <1>8 DEF ModuleTypes
  <2>4. \A m \in D : modules'[m] = [modules[m] EXCEPT !.initialized = modules[m].initialized \/ m \in R]
    BY <2>2
  <2>5. \A m \in D : modules'[m] \in [dependencies : DependencySets, initialized : BOOLEAN, handle : BOOLEAN]
    BY <2>3, <2>4
  <2>6. modules' \in [D -> [dependencies : DependencySets, initialized : BOOLEAN, handle : BOOLEAN]]
    BY <2>2, <2>5
  <2>7. \A m \in D : modules'[m].dependencies = modules[m].dependencies /\ modules'[m].initialized = (modules[m].initialized \/ m \in R)
    BY <2>3, <2>4
  <2>8. \A m : m \in R <=> \E i \in 1..n : started[i] = m
    BY <1>15, <2>1
  <2> QED BY <2>2, <2>6, <2>7, <2>8
<1>17. \A p \in 1..n : ~modules[started[p]].initialized /\ \E i \in 1..Len(order) : started[p] = order[i]
  BY <1>2, <1>11, <1>12 DEF StartedModules
<1>18. \A p, q \in 1..n : started[p] = started[q] => p = q
  <2>1. \A p, q \in 1..Len(waiting) : waiting[p] = waiting[q] => p = q
    BY <1>11 DEF Distinct
  <2> QED BY <1>12, <2>1
<1>19. PICK k : k = Len(lifecycle)
  OBVIOUS
<1>20. PICK all : all = lifecycle \o more
  OBVIOUS
<1>21. /\ k \in Nat
       /\ \A p \in 0..n :
            /\ FailedBy(lifecycle, k) \subseteq FailedBy(all, k + p)
            /\ \A m \in Running(lifecycle, k) : (\A q \in 1..p : more[q][2] # m) => m \in Running(all, k + p)
            /\ \A m \in Running(all, k + p) :
                 (m \in Running(lifecycle, k) /\ \A q \in 1..p : more[q][2] # m) \/ \E q \in 1..p : more[q] = Starting(m)
            /\ \A m \in ModuleNames, q \in 1..p :
                 more[q] = Starting(m) /\ (\A r \in (q + 1)..p : more[r][2] # m) => m \in Running(all, k + p)
  <2>0. PICK T : T = Happened \X D
    OBVIOUS
  <2>1. lifecycle \in Seq(T) /\ more \in Seq(T) /\ n = Len(more) /\ k = Len(lifecycle) /\ all = lifecycle \o more
    BY <1>9, <1>14, <1>19, <1>20, <2>0
  <2>2. k \in Nat
    BY <2>1
  <2>3. GoesOnAs(lifecycle, k, more, n, all)
    BY <2>1, GoesOn
  <2> QED BY <2>2, <2>3 DEF GoesOnAs
\* What counted as initialized goes on; what is started is running.
<1>22. ASSUME NEW p \in 0..n, NEW m \in D, modules[m].initialized PROVE m \in Running(all, k + p) \cup FailedBy(all, k + p)
  <2>1. m \in Running(lifecycle, k) \cup FailedBy(lifecycle, k)
    BY <1>19, <1>22 DEF ModuleInv, MarksHold
  <2>2. \A q \in 1..p : q \in 1..n /\ more[q][2] # m
    BY <1>12, <1>14, <1>17, <1>22
  <2> QED BY <1>21, <2>1, <2>2
<1>23. ASSUME NEW p \in 0..n, NEW q \in 1..p PROVE started[q] \in Running(all, k + p)
  <2>1. q \in 1..n /\ started[q] \in ModuleNames
    BY <1>9, <1>12
  <2>2. \A r \in (q + 1)..p : r \in 1..n /\ r # q
    BY <1>12, <2>1
  <2>3. \A r \in (q + 1)..p : more[r][2] # started[q]
    BY <1>14, <1>18, <2>1, <2>2
  <2>4. more[q] = Starting(started[q])
    BY <1>14, <2>1
  <2> QED BY <1>21, <2>1, <2>3, <2>4
<1>24. ASSUME NEW p \in 1..n, NEW d \in modules[started[p]].dependencies PROVE d \in Running(all, k + p - 1) \cup FailedBy(all, k + p - 1)
  <2>1. PICK i \in 1..Len(order) : started[p] = order[i]
    BY <1>17
  <2>2. PICK j \in 1..(i - 1) : order[j] = d
    BY <1>10, <2>1 DEF Fits, Dependencies
  <2>0. order \in Seq(D) /\ Len(order) \in Nat
    BY <1>10
  <2>3. j \in 1..Len(order) /\ i \in 1..Len(order) /\ j < i
    BY <2>0
  <2>4. d \in D /\ p - 1 \in 0..n /\ k + (p - 1) = k + p - 1
    <3>1. order[j] \in D
      BY <2>0, <2>3
    <3>2. k \in Nat /\ n \in Nat
      BY <1>12, <1>21
    <3> QED BY <2>2, <3>1, <3>2
  <2>5. CASE modules[d].initialized
    BY <1>22, <2>4, <2>5
  <2>6. CASE ~modules[d].initialized
    <3>1. d \in rest
      BY <1>2, <2>4, <2>6 DEF StartedModules
    <3>2. PICK q \in 1..Len(waiting) : waiting[q] = order[j]
      BY <1>11, <2>2, <2>3, <3>1
    <3>3. p \in 1..Len(waiting) /\ waiting[p] = order[i]
      BY <1>12, <2>1
    <3>4. q < p
      BY <1>11, <2>3, <3>2, <3>3
    <3>5. q \in 1..(p - 1) /\ q \in 1..n
      BY <1>11, <1>12, <3>4
    <3>6. started[q] = d
      BY <1>12, <2>2, <3>2, <3>5
    <3> QED BY <1>23, <2>4, <3>5, <3>6
  <2> QED BY <2>5, <2>6
<1>25. DependenciesOutlive'
  <2>1. \A p \in 1..Len(more) :
          IF more[p][1] = "register"
          THEN modules[more[p][2]].dependencies \subseteq Running(all, k + p - 1) \cup FailedBy(all, k + p - 1)
          ELSE \A m \in Running(all, k + p) : more[p][2] \notin modules[m].dependencies
    BY <1>14, <1>24
  <2>2. /\ DOMAIN modules' = D /\ \A m \in D : modules'[m].dependencies = modules[m].dependencies
        /\ more \in Seq(Happened \X D) /\ lifecycle' = all
    BY <1>7, <1>14, <1>16, <1>20
  <2> QED BY <1>19, <1>20, <2>1, <2>2, HistoryGrows
<1>26. ModuleTypes'
  <2>1. lifecycle' \in Seq(Happened \X D)
    BY <1>7, <1>9, <1>14
  <2> QED BY <1>9, <1>16, <2>1 DEF ModuleTypes
<1>27. OrderHolds'
  <2>1. \A i \in 1..Len(order) : order[i] \in D
    BY <1>10
  <2>0. \A i \in 1..Len(order) : \A d \in modules[order[i]].dependencies : \E j \in 1..(i - 1) : order[j] = d
    BY <1>10 DEF Fits, Dependencies
  <2>2. \A i \in 1..Len(order) : \A d \in modules'[order[i]].dependencies : \E j \in 1..(i - 1) : order[j] = d
    <3>1. \A i \in 1..Len(order) : modules'[order[i]].dependencies = modules[order[i]].dependencies
      BY <1>16, <2>1
    <3> HIDE DEF D
    <3> QED BY <2>0, <3>1
  <2>3. Fits(initOrder)'
    BY <1>7, <2>2 DEF Fits, Dependencies
  <2>4. Distinct(initOrder)' /\ initOrder' \in Seq(DOMAIN modules')
    BY <1>7, <1>10, <1>16 DEF Distinct
  <2>5. initOrder' = <<>> \/ \A m \in DOMAIN modules' : modules'[m].initialized => \E i \in 1..Len(initOrder') : initOrder'[i] = m
    BY <1>7, <1>10, <1>16
  <2> QED BY <2>3, <2>4, <2>5 DEF OrderHolds
<1>28. MarksHold'
  <2>1. Len(all) = k + n /\ n \in 0..n
    <3>0. PICK T : T = Happened \X D
      OBVIOUS
    <3>1. lifecycle \in Seq(T) /\ more \in Seq(T) /\ n = Len(more) /\ k = Len(lifecycle) /\ all = lifecycle \o more /\ n \in Nat
      BY <1>9, <1>12, <1>14, <1>19, <1>20, <3>0
    <3>2. Len(all) = k + n
      BY <3>1, Joined
    <3> QED BY <3>1, <3>2
  <2>2. ASSUME NEW m \in D, modules'[m].initialized PROVE m \in Running(all, k + n) \cup FailedBy(all, k + n)
    <3>1. CASE modules[m].initialized
      BY <1>22, <2>1, <3>1
    <3>2. CASE \E i \in 1..n : started[i] = m
      BY <1>23, <2>1, <3>2
    <3> QED BY <1>16, <2>2, <3>1, <3>2
  <2>3. ASSUME NEW m \in Running(all, k + n) PROVE modules'[m].initialized
    <3>1. CASE m \in Running(lifecycle, k)
      <4>1. m \in D
        BY <1>9, <1>19, <1>21, <3>1, RunningKnown
      <4>2. modules[m].initialized
        BY <1>19, <3>1 DEF ModuleInv, MarksHold
      <4> QED BY <1>16, <4>1, <4>2
    <3>2. CASE \E q \in 1..n : more[q] = Starting(m)
      <4>1. PICK q \in 1..n : more[q] = Starting(m)
        BY <3>2
      <4>2. m = started[q] /\ m \in D
        BY <1>12, <1>14, <4>1 DEF Starting
      <4> QED BY <1>16, <4>2
    <3> QED BY <1>21, <2>1, <3>1, <3>2
  <2>4. lifecycle' = all
    BY <1>7, <1>20
  <2> QED BY <1>16, <2>1, <2>2, <2>3, <2>4 DEF MarksHold
<1> QED BY <1>25, <1>26, <1>27, <1>28 DEF ModuleInv

\* shutdownAll.
LEMMA ShutdownKeeps == ASSUME ModuleInv, ShutdownAll PROVE ModuleInv'
<1> DEFINE D == DOMAIN modules
<1>1. PICK failing \in SUBSET ModuleNames :
         LET stopping == Selected(Unloading(initOrder), StartedModules)
         IN  /\ modules' = [m \in D |-> [modules[m] EXCEPT !.initialized = @ /\ (m \notin Range(stopping) \/ m \in failing)]]
             /\ initOrder' = <<>>
             /\ lifecycle' = lifecycle \o [i \in DOMAIN stopping |->
                                             <<IF stopping[i] \in failing THEN "failed" ELSE "unload", stopping[i]>>]
  BY DEF ShutdownAll
<1>2. PICK back : back = Unloading(initOrder)
  OBVIOUS
<1>3. PICK going : going = StartedModules
  OBVIOUS
<1>4. PICK stopping : stopping = Selected(back, going)
  OBVIOUS
<1>5. PICK more : more = [i \in DOMAIN stopping |-> <<IF stopping[i] \in failing THEN "failed" ELSE "unload", stopping[i]>>]
  OBVIOUS
<1>6. /\ modules' = [m \in D |-> [modules[m] EXCEPT !.initialized = @ /\ (m \notin Range(stopping) \/ m \in failing)]]
      /\ initOrder' = <<>>
      /\ lifecycle' = lifecycle \o more
  BY <1>1, <1>2, <1>3, <1>4, <1>5
<1>7. ModuleTypes
  BY DEF ModuleInv
<1>8. IsFiniteSet(D) /\ D \subseteq ModuleNames /\ lifecycle \in Seq(Happened \X D)
  BY <1>7 DEF ModuleTypes
<1>9. PICK k : k = Len(initOrder)
  OBVIOUS
<1>10. /\ initOrder \in Seq(D) /\ k \in Nat
       /\ \A i, j \in 1..k : initOrder[i] = initOrder[j] => i = j
       /\ \A i \in 1..k : \A d \in modules[initOrder[i]].dependencies : \E j \in 1..(i - 1) : initOrder[j] = d
       /\ k = 0 \/ \A m \in D : modules[m].initialized => \E i \in 1..k : initOrder[i] = m
  BY <1>9 DEF ModuleInv, OrderHolds, Distinct, Fits, Dependencies
<1>11. back = [i \in 1..k |-> initOrder[(k - i) + 1]]
  BY <1>2, <1>9 DEF Unloading, Reverse
<1>12. \A i \in 1..k : (k - i) + 1 \in 1..k /\ (k - ((k - i) + 1)) + 1 = i
  BY <1>10
<1>13. back \in Seq(D) /\ Len(back) = k /\ \A i \in 1..k : back[i] = initOrder[(k - i) + 1]
  <2>1. \A i \in 1..k : initOrder[i] \in D
    BY <1>9, <1>10
  <2> QED BY <1>10, <1>11, <1>12, <2>1
<1>14. Distinct(back)
  <2> SUFFICES ASSUME NEW i \in 1..k, NEW j \in 1..k, back[i] = back[j] PROVE i = j
    BY <1>13 DEF Distinct
  <2>1. (k - i) + 1 = (k - j) + 1
    <3>1. initOrder[(k - i) + 1] = initOrder[(k - j) + 1] /\ (k - i) + 1 \in 1..k /\ (k - j) + 1 \in 1..k
      BY <1>12, <1>13
    <3> QED BY <1>10, <3>1
  <2> QED BY <1>10, <2>1
<1>15. PICK n : n = Len(stopping)
  OBVIOUS
<1>16. /\ stopping \in Seq(D) /\ n \in Nat /\ \A p, q \in 1..n : stopping[p] = stopping[q] => p = q
       /\ \A p \in 1..n : stopping[p] \in going /\ \E i \in 1..k : stopping[p] = back[i]
       /\ \A i \in 1..k : back[i] \in going => \E p \in 1..n : stopping[p] = back[i]
       /\ \A p, q \in 1..n, i, j \in 1..k : i < j /\ stopping[p] = back[i] /\ stopping[q] = back[j] => p < q
  <2>0. PICK E : E = D
    OBVIOUS
  <2>1. back \in Seq(E) /\ Distinct(back) /\ stopping = Selected(back, going)
    BY <1>4, <1>13, <1>14, <2>0
  <2>2. SelectedAs(stopping, back, going, E)
    BY <2>1, SelectedInOrder
  <2>3. Len(back) = k
    BY <1>13
  <2> QED BY <1>15, <2>0, <2>2, <2>3 DEF Distinct, SelectedAs
<1>17. \A p \in 1..n : stopping[p] \in D /\ modules[stopping[p]].initialized
  BY <1>3, <1>16 DEF StartedModules
<1>18. /\ more \in Seq(Happened \X D) /\ Len(more) = n
       /\ \A p \in 1..n : more[p][1] # "register" /\ more[p][2] = stopping[p]
                          /\ (stopping[p] \in failing => more[p] = <<"failed", stopping[p]>>)
  <2>1. more = [i \in 1..n |-> <<IF stopping[i] \in failing THEN "failed" ELSE "unload", stopping[i]>>]
    BY <1>5, <1>15, <1>16
  <2>2. \A i \in 1..n : <<IF stopping[i] \in failing THEN "failed" ELSE "unload", stopping[i]>> \in Happened \X D
    BY <1>17 DEF Happened
  <2>3. more \in Seq(Happened \X D) /\ Len(more) = n
    BY <1>16, <2>1, <2>2
  <2> QED BY <2>1, <2>3
<1>19. /\ DOMAIN modules' = D
       /\ \A m \in D : modules'[m].dependencies = modules[m].dependencies
       /\ \A m \in D : modules'[m].initialized <=> modules[m].initialized /\ ((\A i \in 1..n : stopping[i] # m) \/ m \in failing)
       /\ modules' \in [D -> [dependencies : DependencySets, initialized : BOOLEAN, handle : BOOLEAN]]
  <2>1. PICK R : R = Range(stopping)
    OBVIOUS
  <2>2. modules' = [m \in D |-> [modules[m] EXCEPT !.initialized = @ /\ (m \notin R \/ m \in failing)]]
    BY <1>6, <2>1
  <2>3. \A m \in D : modules[m] \in [dependencies : DependencySets, initialized : BOOLEAN, handle : BOOLEAN]
    BY <1>7 DEF ModuleTypes
  <2>4. \A m \in D : modules'[m] = [modules[m] EXCEPT !.initialized = modules[m].initialized /\ (m \notin R \/ m \in failing)]
    BY <2>2
  <2>5. \A m \in D : modules'[m] \in [dependencies : DependencySets, initialized : BOOLEAN, handle : BOOLEAN]
    BY <2>3, <2>4
  <2>6. modules' \in [D -> [dependencies : DependencySets, initialized : BOOLEAN, handle : BOOLEAN]]
    BY <2>2, <2>5
  <2>7. \A m \in D : /\ modules'[m].dependencies = modules[m].dependencies
                     /\ modules'[m].initialized = (modules[m].initialized /\ (m \notin R \/ m \in failing))
    BY <2>3, <2>4
  <2>8. R = {stopping[i] : i \in 1..n}
    BY <1>15, <1>16, <2>1 DEF Range
  <2>9. \A m : m \notin R <=> \A i \in 1..n : stopping[i] # m
    BY <2>8
  <2> QED BY <2>2, <2>6, <2>7, <2>9
<1>20. PICK h : h = Len(lifecycle)
  OBVIOUS
<1>21. PICK all : all = lifecycle \o more
  OBVIOUS
<1>22. h \in Nat /\ Len(all) = h + n /\ GoesOnAs(lifecycle, h, more, n, all)
  <2>0. PICK T : T = Happened \X D
    OBVIOUS
  <2>1. lifecycle \in Seq(T) /\ more \in Seq(T) /\ n = Len(more) /\ h = Len(lifecycle) /\ all = lifecycle \o more
    BY <1>8, <1>18, <1>20, <1>21, <2>0
  <2>2. h \in Nat /\ Len(all) = h + n
    BY <2>1, Joined
  <2>3. GoesOnAs(lifecycle, h, more, n, all)
    BY <2>1, GoesOn
  <2> QED BY <2>2, <2>3
\* What still runs after some of the calls ran before and is not among those stopped.
<1>23. ASSUME NEW p \in 0..n, NEW m \in Running(all, h + p)
       PROVE  m \in D /\ modules[m].initialized /\ \A q \in 1..p : stopping[q] # m
  <2>1. \A q \in 1..p : q \in 1..n
    BY <1>16
  <2>2. ~ \E q \in 1..p : more[q] = Starting(m)
    BY <1>18, <2>1 DEF Starting
  <2>3. m \in Running(lifecycle, h) /\ \A q \in 1..p : more[q][2] # m
    BY <1>22, <2>2 DEF GoesOnAs
  <2>4. modules[m].initialized
    BY <1>20, <2>3 DEF ModuleInv, MarksHold
  <2>5. m \in D
    <3>1. h \in 0..Len(lifecycle)
      BY <1>20, <1>22
    <3> QED BY <1>8, <2>3, <3>1, RunningKnown
  <2> QED BY <1>18, <2>1, <2>3, <2>4, <2>5
<1>24. ASSUME NEW p \in 1..n, NEW m \in Running(all, h + p) PROVE stopping[p] \notin modules[m].dependencies
  <2> SUFFICES ASSUME stopping[p] \in modules[m].dependencies PROVE FALSE
    OBVIOUS
  <2>1. m \in D /\ modules[m].initialized /\ \A q \in 1..p : stopping[q] # m
    <3>1. p \in 0..n
      BY <1>16
    <3> QED BY <1>23, <3>1
  <2>2. PICK b \in 1..k : stopping[p] = back[b]
    BY <1>16
  <2>3. PICK i \in 1..k : initOrder[i] = m
    BY <1>10, <2>1, <2>2
  <2>4. PICK j \in 1..(i - 1) : initOrder[j] = stopping[p]
    BY <1>10, <2>3
  <2>5. j \in 1..k /\ j < i
    BY <1>10
  <2>6. PICK x \in 1..k : x = (k - i) + 1 /\ back[x] = m
    <3>1. (k - i) + 1 \in 1..k /\ back[(k - i) + 1] = m
      BY <1>12, <1>13, <2>3
    <3> QED BY <3>1
  <2>7. PICK y \in 1..k : y = (k - j) + 1 /\ back[y] = stopping[p]
    <3>1. (k - j) + 1 \in 1..k /\ back[(k - j) + 1] = stopping[p]
      BY <1>12, <1>13, <2>4, <2>5
    <3> QED BY <3>1
  <2>8. x < y
    BY <1>10, <2>5, <2>6, <2>7
  <2>9. m \in going
    BY <1>3, <2>1 DEF StartedModules
  <2>10. PICK q \in 1..n : stopping[q] = back[x]
    BY <1>16, <2>6, <2>9
  <2>11. q < p
    BY <1>16, <2>7, <2>8, <2>10
  <2>12. q \in 1..p
    BY <1>16, <2>11
  <2> QED BY <2>1, <2>6, <2>10, <2>12
<1>25. DependenciesOutlive'
  <2>1. \A p \in 1..Len(more) :
          IF more[p][1] = "register"
          THEN modules[more[p][2]].dependencies \subseteq Running(all, h + p - 1) \cup FailedBy(all, h + p - 1)
          ELSE \A m \in Running(all, h + p) : more[p][2] \notin modules[m].dependencies
    BY <1>18, <1>24
  <2>2. /\ DOMAIN modules' = D /\ \A m \in D : modules'[m].dependencies = modules[m].dependencies
        /\ more \in Seq(Happened \X D) /\ lifecycle' = all
    BY <1>6, <1>18, <1>19, <1>21
  <2> QED BY <1>20, <1>21, <2>1, <2>2, HistoryGrows
<1>26. ModuleTypes'
  <2>1. lifecycle' \in Seq(Happened \X D)
    BY <1>6, <1>8, <1>18
  <2> QED BY <1>8, <1>19, <2>1 DEF ModuleTypes
<1>27. OrderHolds'
  <2>1. <<>> \in Seq(DOMAIN modules') /\ Len(<<>>) = 0 /\ 1..0 = {}
    OBVIOUS
  <2>2. Distinct(initOrder)' /\ Fits(initOrder)'
    BY <1>6, <2>1 DEF Distinct, Fits
  <2> QED BY <1>6, <2>1, <2>2 DEF OrderHolds
<1>28. MarksHold'
  <2>1. lifecycle' = all /\ Len(all) = h + n /\ n \in 0..n
    BY <1>6, <1>16, <1>21, <1>22
  <2>2. ASSUME NEW m \in D, modules'[m].initialized PROVE m \in Running(all, h + n) \cup FailedBy(all, h + n)
    <3>1. modules[m].initialized /\ ((\A i \in 1..n : stopping[i] # m) \/ m \in failing)
      BY <1>19, <2>2
    <3>2. CASE \A i \in 1..n : stopping[i] # m
      <4>1. \A i \in 1..n : more[i][2] # m
        BY <1>18, <3>2
      <4>2. m \in Running(lifecycle, h) \cup FailedBy(lifecycle, h)
        BY <1>20, <3>1 DEF ModuleInv, MarksHold
      <4> QED BY <1>22, <2>1, <4>1, <4>2 DEF GoesOnAs
    <3>3. CASE \E i \in 1..n : stopping[i] = m
      <4>1. PICK i \in 1..n : stopping[i] = m
        BY <3>3
      <4>2. more[i] = <<"failed", m>>
        BY <1>18, <3>1, <4>1
      <4>3. m \in ModuleNames
        BY <1>8
      <4> QED BY <1>22, <2>1, <4>2, <4>3 DEF GoesOnAs
    <3> QED BY <3>2, <3>3
  <2>3. ASSUME NEW m \in Running(all, h + n) PROVE modules'[m].initialized
    BY <1>19, <1>23, <2>1
  <2> QED BY <1>19, <2>1, <2>2, <2>3 DEF MarksHold
<1> QED BY <1>25, <1>26, <1>27, <1>28 DEF ModuleInv

\* A module starts with everything it depends on running (or failed to stop), and
\* nothing that depends on it runs when it is unloaded, however often modules are
\* added, initialization fails half way and is repeated, or unloading throws.
THEOREM DependenciesHold == ModuleSpec => []DependenciesOutlive
<1>1. ModuleInit => ModuleInv
  <2> SUFFICES ASSUME ModuleInit PROVE ModuleInv
    OBVIOUS
  <2>1. modules = <<>> /\ initOrder = <<>> /\ lifecycle = <<>>
    BY DEF ModuleInit
  <2>2. DOMAIN modules = {} /\ Len(<<>>) = 0 /\ 1..0 = {}
    BY <2>1
  <2>3. IsFiniteSet(DOMAIN modules)
    BY <2>2, FS_EmptySet
  <2>4. ModuleTypes
    BY <2>1, <2>2, <2>3 DEF ModuleTypes
  <2>5. OrderHolds
    BY <2>1, <2>2 DEF OrderHolds, Distinct, Fits
  <2>6. Running(lifecycle, Len(lifecycle)) = {}
    BY <2>1, <2>2 DEF Running
  <2>7. MarksHold
    BY <2>2, <2>6 DEF MarksHold
  <2>8. DependenciesOutlive
    BY <2>1 DEF DependenciesOutlive
  <2> QED BY <2>4, <2>5, <2>7, <2>8 DEF ModuleInv
<1>2. ModuleInv /\ [ModuleNext]_moduleVars => ModuleInv'
  <2> SUFFICES ASSUME ModuleInv, [ModuleNext]_moduleVars PROVE ModuleInv'
    OBVIOUS
  <2>1. CASE RegisterBuiltin
    <3>1. PICK name \in ModuleNames, deps \in DependencySets : modules' = WithModule(name, deps, FALSE) /\ UNCHANGED <<initOrder, lifecycle>>
      BY <2>1 DEF RegisterBuiltin
    <3> QED BY <3>1, ModuleAdded
  <2>2. CASE Load
    <3>1. PICK name \in ModuleNames, deps \in DependencySets, made \in BOOLEAN :
             modules' = (IF made THEN WithModule(name, deps, TRUE) ELSE modules) /\ UNCHANGED <<initOrder, lifecycle>>
      BY <2>2 DEF Load
    <3>2. CASE made
      <4>1. modules' = WithModule(name, deps, TRUE)
        BY <3>1, <3>2
      <4> QED BY <3>1, <4>1, ModuleAdded
    <3>3. CASE ~made
      BY <3>1, <3>3 DEF ModuleInv, ModuleTypes, OrderHolds, MarksHold, DependenciesOutlive, Dependencies, Distinct, Fits
    <3> QED BY <3>2, <3>3
  <2>3. CASE InitializeAll
    BY <2>3, InitializeKeeps
  <2>4. CASE ShutdownAll
    BY <2>4, ShutdownKeeps
  <2>5. CASE UNCHANGED moduleVars
    BY <2>5 DEF moduleVars, ModuleInv, ModuleTypes, OrderHolds, MarksHold, DependenciesOutlive, Dependencies, Distinct, Fits
  <2> QED BY <2>1, <2>2, <2>3, <2>4, <2>5 DEF ModuleNext
<1>3. ModuleInv => DependenciesOutlive
  BY DEF ModuleInv
<1> QED BY <1>1, <1>2, <1>3, PTL DEF ModuleSpec

-----------------------------------------------------------------------------
(***************************************************************************)
(* SubChunk: the palette of a subchunk, its counts and its cells.          *)
(* A cell holds an index; a type enters the palette with its first cell    *)
(* and leaves it with its last, and its slot is used again.  The invariant *)
(* says that the two directions of the palette, the free list and the      *)
(* counts agree with the cells after every call.                           *)
(***************************************************************************)

\* Types a cell can have.
Kinds == Types \cup {Air}

\* A palette both of whose directions and whose free list agree.
IsPalette(p) ==
    /\ DOMAIN p = {"entries", "index", "free", "max"}
    /\ p.entries \in Seq(Kinds) /\ p.free \in Seq(Nat)
    /\ p.index \in [DOMAIN p.index -> DOMAIN p.entries] /\ DOMAIN p.index \subseteq Kinds
    /\ Air \in DOMAIN p.index /\ p.index[Air] = AirIndex
    /\ \A t \in DOMAIN p.index : p.entries[p.index[t]] = t
    /\ \A i, j \in DOMAIN p.free : p.free[i] = p.free[j] => i = j
    /\ \A i \in DOMAIN p.entries : (\E j \in DOMAIN p.free : p.free[j] = i) <=> (\A t \in DOMAIN p.index : p.index[t] # i)
    /\ \A j \in DOMAIN p.free : p.free[j] \in DOMAIN p.entries /\ p.entries[p.free[j]] = Air
    /\ p.max = Len(p.entries)

\* The palette of a subchunk gives each cell a type, and the counts are those of the cells.
HowMany(cells, i) == Cardinality({c \in Cells : cells[c] = i})
SubChunkInv(s) ==
    /\ {"palette", "cells", "usage", "nonAir", "rotation", "blockVersion"} \subseteq DOMAIN s
    /\ s = [f \in DOMAIN s |-> s[f]]
    /\ IsPalette(s.palette)
    /\ s.cells \in [Cells -> Range(s.palette.index)]
    /\ s.usage \in Seq(Nat) /\ Len(s.usage) <= Len(s.palette.entries)
    /\ \A i \in DOMAIN s.palette.entries :
          (IF i \in DOMAIN s.usage THEN s.usage[i] ELSE 0) = HowMany(s.cells, i)
    /\ s.nonAir = Cardinality({c \in Cells : GetBlock(s, c) # Air})

\* No type but air is kept that no cell has.
NoTypeIsIdle(s) == \A t \in DOMAIN s.palette.index \ {Air} : \E c \in Cells : GetBlock(s, c) = t

\* The greater of two numbers.
LEMMA MaxOfTwo == ASSUME NEW a \in Int, NEW b \in Int PROVE Max({a, b}) = IF a >= b THEN a ELSE b
<1> DEFINE m == IF a >= b THEN a ELSE b
<1>1. m \in {a, b} /\ \A y \in {a, b} : m >= y
  OBVIOUS
<1>2. \A x \in {a, b} : (\A y \in {a, b} : x >= y) => x = m
  OBVIOUS
<1> HIDE DEF m
<1>3. (CHOOSE x \in {a, b} : \A y \in {a, b} : x >= y) = m
  BY <1>1, <1>2
<1> QED BY <1>3 DEF Max, m

\* The cells are finitely many.
LEMMA CellsFinite == IsFiniteSet(Cells)
<1> DEFINE I == 0..Size - 1
           P == (I \X I) \X I
           g == [x \in P |-> <<x[1][1], x[1][2], x[2]>>]
<1>1. IsFiniteSet(I)
  BY FS_Interval, PositionAssumption
<1>2. IsFiniteSet(P)
  BY <1>1, FS_Product
<1>3. IsFiniteSet({g[x] : x \in P})
  <2> HIDE DEF g, P
  <2> QED BY <1>2, ImageFinite
<1>4. Cells \subseteq {g[x] : x \in P}
  <2> SUFFICES ASSUME NEW c \in Cells PROVE c \in {g[x] : x \in P}
    OBVIOUS
  <2>1. <<<<c[1], c[2]>>, c[3]>> \in P /\ g[<<<<c[1], c[2]>>, c[3]>>] = c
    BY DEF Cells
  <2> QED BY <2>1
<1> QED BY <1>3, <1>4, FS_Subset

\* Two sets of cells that differ in at most one differ in number by that one.
LEMMA OneCellCounts ==
    ASSUME NEW A \in SUBSET Cells, NEW B \in SUBSET Cells, NEW c \in Cells, A \ {c} = B \ {c}
    PROVE  /\ Cardinality(A) \in Nat /\ Cardinality(B) \in Nat
           /\ Cardinality(B) = Cardinality(A) + (IF c \in B THEN 1 ELSE 0) - (IF c \in A THEN 1 ELSE 0)
<1>1. IsFiniteSet(A) /\ IsFiniteSet(B)
  BY CellsFinite, FS_Subset
<1>2. Cardinality(A) \in Nat /\ Cardinality(B) \in Nat
  BY <1>1, FS_CardinalityType
<1>3. Cardinality(A \ {c}) = IF c \in A THEN Cardinality(A) - 1 ELSE Cardinality(A)
  BY <1>1, FS_RemoveElement
<1>4. Cardinality(B \ {c}) = IF c \in B THEN Cardinality(B) - 1 ELSE Cardinality(B)
  BY <1>1, FS_RemoveElement
<1>5. Cardinality(A \ {c}) = Cardinality(B \ {c})
  OBVIOUS
<1>6. PICK a, b, r : a = Cardinality(A) /\ b = Cardinality(B) /\ r = Cardinality(A \ {c})
  OBVIOUS
<1>7. a \in Nat /\ b \in Nat /\ r = (IF c \in A THEN a - 1 ELSE a) /\ r = (IF c \in B THEN b - 1 ELSE b)
  BY <1>2, <1>3, <1>4, <1>5, <1>6
<1>8. b = a + (IF c \in B THEN 1 ELSE 0) - (IF c \in A THEN 1 ELSE 0)
  BY <1>7
<1> QED BY <1>2, <1>6, <1>8
-----------------------------------------------------------------------------

\* A palette q that has t and otherwise says of the types what p says.
Offers(p, q, t) ==
    /\ DOMAIN q.index = DOMAIN p.index \cup {t}
    /\ \A u \in DOMAIN p.index : q.index[u] = p.index[u]
    /\ Len(p.entries) <= Len(q.entries) /\ Len(q.entries) <= Len(p.entries) + 1
    /\ \A i \in DOMAIN p.entries : (\E u \in DOMAIN p.index : p.index[u] = i) => q.entries[i] = p.entries[i]

\* A palette whose type t took the slot i.
LEMMA TakesSlot ==
    ASSUME NEW p, IsPalette(p), NEW t \in Kinds, t \notin DOMAIN p.index,
           NEW i \in Nat, NEW e \in Seq(Kinds), NEW f \in Seq(Nat), NEW m,
           i \in DOMAIN e, e[i] = t, m = Len(e), Len(p.entries) <= Len(e), Len(e) <= Len(p.entries) + 1,
           \A u \in DOMAIN p.index : p.index[u] # i,
           \A k \in DOMAIN p.entries : k # i => e[k] = p.entries[k],
           \A k \in DOMAIN e : k # i => k \in DOMAIN p.entries,
           \A j, k \in DOMAIN f : f[j] = f[k] => j = k,
           \A j \in DOMAIN f : f[j] # i /\ (\E k \in DOMAIN p.free : p.free[k] = f[j]),
           \A k \in DOMAIN p.free : p.free[k] # i => (\E j \in DOMAIN f : p.free[k] = f[j]),
           NEW q, q = [entries |-> e, index |-> Mapped(p.index, t, i), free |-> f, max |-> m]
    PROVE  IsPalette(q) /\ Offers(p, q, t)
<1> DEFINE x == Mapped(p.index, t, i)
<1>0. DOMAIN q = {"entries", "index", "free", "max"} /\ q.entries = e /\ q.index = x /\ q.free = f /\ q.max = Len(e)
  OBVIOUS
<1>1. DOMAIN x = DOMAIN p.index \cup {t} /\ x[t] = i /\ (\A u \in DOMAIN p.index : x[u] = p.index[u])
  BY DEF Mapped
<1>2. \A u \in DOMAIN p.index : p.index[u] \in DOMAIN p.entries /\ p.index[u] \in DOMAIN e /\ e[p.index[u]] = u
  <2>1. DOMAIN p.entries \subseteq DOMAIN e
    BY DEF IsPalette
  <2>2. \A u \in DOMAIN p.index : p.index[u] \in DOMAIN p.entries /\ p.entries[p.index[u]] = u
    BY DEF IsPalette
  <2> QED BY <2>1, <2>2
<1>3. x \in [DOMAIN x -> DOMAIN e]
  <2>1. \A u \in DOMAIN x : x[u] \in DOMAIN e
    BY <1>1, <1>2
  <2>2. x = [k \in DOMAIN x |-> x[k]]
    BY DEF Mapped
  <2> HIDE DEF x
  <2> QED BY <2>1, <2>2
<1> HIDE DEF x
<1>4. \A u \in DOMAIN x : e[x[u]] = u
  BY <1>1, <1>2
<1>5. \A j \in DOMAIN f : f[j] \in DOMAIN e /\ e[f[j]] = Air
  <2>1. \A k \in DOMAIN p.free : p.free[k] \in DOMAIN p.entries /\ p.entries[p.free[k]] = Air
    BY DEF IsPalette
  <2>2. DOMAIN p.entries \subseteq DOMAIN e
    BY DEF IsPalette
  <2> QED BY <2>1, <2>2
<1>6. \A k \in DOMAIN e : (\E j \in DOMAIN f : f[j] = k) <=> (\A u \in DOMAIN x : x[u] # k)
  <2> SUFFICES ASSUME NEW k \in DOMAIN e
               PROVE  (\E j \in DOMAIN f : f[j] = k) <=> (\A u \in DOMAIN x : x[u] # k)
    OBVIOUS
  <2>1. CASE k = i
    BY <1>1, <2>1
  <2>2. CASE k # i
    <3>1. (\E j \in DOMAIN p.free : p.free[j] = k) <=> (\A u \in DOMAIN p.index : p.index[u] # k)
      BY <2>2 DEF IsPalette
    <3>2. (\E j \in DOMAIN p.free : p.free[j] = k) <=> (\E j \in DOMAIN f : f[j] = k)
      BY <2>2
    <3>3. (\A u \in DOMAIN p.index : p.index[u] # k) <=> (\A u \in DOMAIN x : x[u] # k)
      BY <1>1, <2>2
    <3> QED BY <3>1, <3>2, <3>3
  <2> QED BY <2>1, <2>2
<1>7. DOMAIN x \subseteq Kinds /\ Air \in DOMAIN x /\ x[Air] = AirIndex
  BY <1>1 DEF IsPalette
<1>8. IsPalette(q)
  <2>1. q.entries \in Seq(Kinds) /\ q.free \in Seq(Nat) /\ q.max = Len(q.entries)
    BY <1>0
  <2>2. q.index \in [DOMAIN q.index -> DOMAIN q.entries] /\ DOMAIN q.index \subseteq Kinds
    BY <1>0, <1>3, <1>7
  <2>3. Air \in DOMAIN q.index /\ q.index[Air] = AirIndex /\ (\A u \in DOMAIN q.index : q.entries[q.index[u]] = u)
    BY <1>0, <1>4, <1>7
  <2>4. \A j, k \in DOMAIN q.free : q.free[j] = q.free[k] => j = k
    BY <1>0
  <2>5. \A k \in DOMAIN q.entries : (\E j \in DOMAIN q.free : q.free[j] = k) <=> (\A u \in DOMAIN q.index : q.index[u] # k)
    BY <1>0, <1>6
  <2>6. \A j \in DOMAIN q.free : q.free[j] \in DOMAIN q.entries /\ q.entries[q.free[j]] = Air
    BY <1>0, <1>5
  <2>7. DOMAIN q = {"entries", "index", "free", "max"}
    BY <1>0
  <2> QED BY <2>1, <2>2, <2>3, <2>4, <2>5, <2>6, <2>7 DEF IsPalette
<1>9. Offers(p, q, t)
  <2>1. \A k \in DOMAIN p.entries : (\E u \in DOMAIN p.index : p.index[u] = k) => e[k] = p.entries[k]
    OBVIOUS
  <2> QED BY <1>0, <1>1, <2>1 DEF Offers
<1> QED BY <1>8, <1>9 DEF x

\* addType keeps a palette and gives the type an index that no other type has.
LEMMA AddTypeKeeps ==
    ASSUME NEW p, IsPalette(p), NEW t \in Kinds
    PROVE  IsPalette(AddType(p, t)) /\ Offers(p, AddType(p, t), t)
<1> DEFINE n == Len(p.free)
           l == Len(p.entries)
<1>1. CASE t \in DOMAIN p.index
  <2>1. Len(p.entries) \in Nat /\ DOMAIN p.index \cup {t} = DOMAIN p.index
    BY <1>1 DEF IsPalette
  <2>2. Offers(p, p, t)
    BY <2>1 DEF Offers
  <2>3. AddType(p, t) = p
    BY <1>1 DEF AddType
  <2> QED BY <2>2, <2>3
<1>2. p.entries \in Seq(Kinds) /\ p.free \in Seq(Nat) /\ l \in Nat /\ n \in Nat /\ p.max = l /\ DOMAIN p.entries = 1..l /\ DOMAIN p.free = 1..n
  BY DEF IsPalette
<1>3. CASE t \notin DOMAIN p.index /\ p.free # <<>>
  <2> DEFINE i == Last(p.free)
             e == [p.entries EXCEPT ![i] = t]
             f == Front(p.free)
  <2>1. n > 0 /\ i = p.free[n] /\ n \in DOMAIN p.free
    BY <1>2, <1>3, EmptySeq DEF Last
  <2>2. f \in Seq(Nat) /\ DOMAIN f = 1..(n - 1) /\ (\A j \in 1..(n - 1) : f[j] = p.free[j])
    <3>1. n - 1 \in Nat /\ 1..(n - 1) \subseteq DOMAIN p.free
      BY <1>2, <2>1
    <3> QED BY <1>2, <2>1, <3>1 DEF Front
  <2>3. i \in DOMAIN p.entries /\ (\A u \in DOMAIN p.index : p.index[u] # i)
    BY <2>1 DEF IsPalette
  <2>4. e \in Seq(Kinds) /\ Len(e) = l /\ DOMAIN e = DOMAIN p.entries /\ e[i] = t /\ (\A k \in DOMAIN p.entries : k # i => e[k] = p.entries[k])
    BY <1>2, <2>3
  <2>5. i \in Nat /\ Max({p.max, i}) = l
    BY <1>2, <2>3, MaxOfTwo
  <2>6. \A j, k \in DOMAIN p.free : p.free[j] = p.free[k] => j = k
    BY DEF IsPalette
  <2>7. AddType(p, t) = [entries |-> e, index |-> Mapped(p.index, t, i), free |-> f, max |-> Max({p.max, i})]
    BY <1>3 DEF AddType
  <2> HIDE DEF i, e, f
  <2>a. (\A j \in DOMAIN p.free : j = n \/ j \in 1..(n - 1)) /\ (\A j \in 1..(n - 1) : j \in DOMAIN p.free /\ j # n)
    BY <1>2, <2>1
  <2> HIDE DEF n, l
  <2>8. \A j, k \in DOMAIN f : f[j] = f[k] => j = k
    BY <2>a, <2>2, <2>6
  <2>9. \A j \in DOMAIN f : f[j] # i /\ (\E k \in DOMAIN p.free : p.free[k] = f[j])
    BY <2>a, <2>1, <2>2, <2>6
  <2>10. \A k \in DOMAIN p.free : p.free[k] # i => (\E j \in DOMAIN f : p.free[k] = f[j])
    BY <2>a, <2>1, <2>2
  <2>11. \A k \in DOMAIN e : k # i => k \in DOMAIN p.entries
    BY <2>4
  <2>13. \A k \in DOMAIN p.entries : k # i => e[k] = p.entries[k]
    BY <2>4
  <2>12. i \in DOMAIN e /\ Len(p.entries) <= Len(e) /\ Len(e) <= Len(p.entries) + 1 /\ Max({p.max, i}) = Len(e)
    BY <1>2, <2>3, <2>4, <2>5
  <2>14. PICK q, m : m = Max({p.max, i}) /\ q = [entries |-> e, index |-> Mapped(p.index, t, i), free |-> f, max |-> m]
    OBVIOUS
  <2>15. m = Len(e) /\ i \in Nat /\ e \in Seq(Kinds) /\ f \in Seq(Nat) /\ t \notin DOMAIN p.index /\ e[i] = t
    BY <1>3, <2>2, <2>4, <2>5, <2>12, <2>14
  <2>16. IsPalette(q) /\ Offers(p, q, t)
    BY <2>3, <2>8, <2>9, <2>10, <2>11, <2>12, <2>13, <2>14, <2>15, TakesSlot
  <2> QED BY <2>7, <2>14, <2>16
<1>4. CASE t \notin DOMAIN p.index /\ p.free = <<>>
  <2> DEFINE i == l + 1
             e == Append(p.entries, t)
  <2>1. e \in Seq(Kinds) /\ Len(e) = i /\ e[i] = t /\ DOMAIN e = 1..i /\ (\A k \in DOMAIN p.entries : e[k] = p.entries[k])
    BY <1>2
  <2>2. \A u \in DOMAIN p.index : p.index[u] # i
    BY <1>2 DEF IsPalette
  <2>3. i \in Nat /\ Max({p.max, i}) = i
    BY <1>2, MaxOfTwo
  <2>4. AddType(p, t) = [entries |-> e, index |-> Mapped(p.index, t, i), free |-> p.free, max |-> Max({p.max, i})]
    BY <1>4 DEF AddType
  <2>5. DOMAIN p.free = {}
    BY <1>4
  <2>6. i \in DOMAIN e /\ Len(p.entries) <= Len(e) /\ Len(e) <= Len(p.entries) + 1 /\ Max({p.max, i}) = Len(e) /\ (\A k \in DOMAIN e : k # i => k \in DOMAIN p.entries)
    BY <1>2, <2>1, <2>3
  <2>7. (\A j, k \in DOMAIN p.free : p.free[j] = p.free[k] => j = k)
        /\ (\A j \in DOMAIN p.free : p.free[j] # i /\ (\E k \in DOMAIN p.free : p.free[k] = p.free[j]))
        /\ (\A k \in DOMAIN p.free : p.free[k] # i => (\E j \in DOMAIN p.free : p.free[k] = p.free[j]))
    BY <2>5
  <2> HIDE DEF i, e, n, l
  <2>8. PICK q, m : m = Max({p.max, i}) /\ q = [entries |-> e, index |-> Mapped(p.index, t, i), free |-> p.free, max |-> m]
    OBVIOUS
  <2>9. m = Len(e) /\ i \in Nat /\ e \in Seq(Kinds) /\ p.free \in Seq(Nat) /\ t \notin DOMAIN p.index /\ e[i] = t
        /\ (\A k \in DOMAIN p.entries : k # i => e[k] = p.entries[k])
    BY <1>2, <1>4, <2>1, <2>3, <2>6, <2>8
  <2>10. IsPalette(q) /\ Offers(p, q, t)
    BY <2>2, <2>6, <2>7, <2>8, <2>9, TakesSlot
  <2> QED BY <2>4, <2>8, <2>10
<1> QED BY <1>1, <1>3, <1>4

\* removeType takes one type from a palette.
Drops(p, q, t) ==
    /\ DOMAIN q.index = DOMAIN p.index \ {t}
    /\ \A u \in DOMAIN q.index : q.index[u] = p.index[u]
    /\ Len(q.entries) = Len(p.entries)
    /\ \A i \in DOMAIN p.entries : i # p.index[t] => q.entries[i] = p.entries[i]
    /\ q.entries[p.index[t]] = Air

\* removeType keeps a palette, whose other types keep their indices.
LEMMA RemoveTypeKeeps ==
    ASSUME NEW p, IsPalette(p), NEW t \in DOMAIN p.index, t # Air
    PROVE  IsPalette(RemoveType(p, t)) /\ Drops(p, RemoveType(p, t), t)
<1> DEFINE i == p.index[t]
           q == RemoveType(p, t)
           n == Len(p.free)
<1>1. q = [p EXCEPT !.entries[i] = Air, !.index = Restrict(p.index, DOMAIN p.index \ {t}), !.free = Append(@, i)]
  BY DEF RemoveType
<1>2. p.entries \in Seq(Kinds) /\ p.free \in Seq(Nat) /\ i \in DOMAIN p.entries /\ n \in Nat /\ DOMAIN p.free = 1..n /\ i \in Nat
  BY DEF IsPalette
<1>3. /\ DOMAIN q = {"entries", "index", "free", "max"}
      /\ q.entries = [p.entries EXCEPT ![i] = Air]
      /\ q.index = [u \in DOMAIN p.index \ {t} |-> p.index[u]]
      /\ q.free = Append(p.free, i) /\ q.max = p.max
  BY <1>1 DEF IsPalette, Restrict
<1> HIDE DEF q
<1>4. q.entries \in Seq(Kinds) /\ DOMAIN q.entries = DOMAIN p.entries /\ Len(q.entries) = Len(p.entries)
      /\ q.entries[i] = Air /\ \A k \in DOMAIN p.entries : k # i => q.entries[k] = p.entries[k]
  BY <1>2, <1>3 DEF Kinds
<1>5. q.free \in Seq(Nat) /\ DOMAIN q.free = 1..(n + 1) /\ q.free[n + 1] = i /\ \A j \in 1..n : q.free[j] = p.free[j]
  BY <1>2, <1>3
<1>6. \A u \in DOMAIN p.index : p.index[u] \in DOMAIN p.entries /\ p.entries[p.index[u]] = u
  BY DEF IsPalette
<1>7. \A u \in DOMAIN p.index \ {t} : p.index[u] # i
  BY <1>6
<1>8. \A u \in DOMAIN q.index : q.entries[q.index[u]] = u
  BY <1>3, <1>4, <1>6, <1>7
<1>9. q.index \in [DOMAIN q.index -> DOMAIN q.entries] /\ DOMAIN q.index \subseteq Kinds /\ Air \in DOMAIN q.index /\ q.index[Air] = AirIndex
  BY <1>3, <1>4, <1>6 DEF IsPalette
<1>10. \A j \in DOMAIN p.free : p.free[j] # i /\ p.free[j] \in DOMAIN p.entries /\ p.entries[p.free[j]] = Air
  BY DEF IsPalette
<1>11. \A j, k \in DOMAIN q.free : q.free[j] = q.free[k] => j = k
  <2>1. \A j, k \in DOMAIN p.free : p.free[j] = p.free[k] => j = k
    BY DEF IsPalette
  <2>2. \A j \in DOMAIN q.free : j = n + 1 \/ j \in 1..n
    BY <1>2, <1>5
  <2> QED BY <1>2, <1>5, <1>10, <2>1, <2>2
<1>12. \A j \in DOMAIN q.free : q.free[j] \in DOMAIN q.entries /\ q.entries[q.free[j]] = Air
  <2>2. \A j \in DOMAIN q.free : j = n + 1 \/ j \in 1..n
    BY <1>2, <1>5
  <2> QED BY <1>2, <1>4, <1>5, <1>10, <2>2
<1>13. \A k \in DOMAIN q.entries : (\E j \in DOMAIN q.free : q.free[j] = k) <=> (\A u \in DOMAIN q.index : q.index[u] # k)
  <2> SUFFICES ASSUME NEW k \in DOMAIN p.entries
               PROVE  (\E j \in DOMAIN q.free : q.free[j] = k) <=> (\A u \in DOMAIN q.index : q.index[u] # k)
    BY <1>4
  <2>1. CASE k = i
    <3>1. n + 1 \in DOMAIN q.free /\ q.free[n + 1] = k
      BY <1>2, <1>5, <2>1
    <3> QED BY <1>3, <1>7, <2>1, <3>1
  <2>2. CASE k # i
    <3>1. (\E j \in DOMAIN p.free : p.free[j] = k) <=> (\A u \in DOMAIN p.index : p.index[u] # k)
      BY DEF IsPalette
    <3>2. (\E j \in DOMAIN p.free : p.free[j] = k) <=> (\E j \in DOMAIN q.free : q.free[j] = k)
      <4>2. \A j \in DOMAIN q.free : j = n + 1 \/ j \in 1..n
        BY <1>2, <1>5
      <4>3. 1..n \subseteq DOMAIN q.free
        BY <1>2, <1>5
      <4> QED BY <1>2, <1>5, <2>2, <4>2, <4>3
    <3>3. (\A u \in DOMAIN p.index : p.index[u] # k) <=> (\A u \in DOMAIN q.index : q.index[u] # k)
      BY <1>3, <2>2
    <3> QED BY <3>1, <3>2, <3>3
  <2> QED BY <2>1, <2>2
<1>14. q.max = Len(q.entries)
  BY <1>3, <1>4 DEF IsPalette
<1>15. IsPalette(q)
  BY <1>3, <1>4, <1>5, <1>8, <1>9, <1>11, <1>12, <1>13, <1>14 DEF IsPalette
<1>16. Drops(p, q, t)
  BY <1>3, <1>4 DEF Drops
<1> QED BY <1>15, <1>16 DEF q
-----------------------------------------------------------------------------

\* What a cell holds is the index of its type.
LEMMA CellIndex ==
    ASSUME NEW s, SubChunkInv(s), NEW k \in Cells
    PROVE  /\ GetBlock(s, k) \in DOMAIN s.palette.index /\ s.palette.index[GetBlock(s, k)] = s.cells[k]
           /\ s.cells[k] \in DOMAIN s.palette.entries /\ s.palette.entries[s.cells[k]] = GetBlock(s, k)
           /\ GetBlock(s, k) \in Kinds /\ s.cells[k] \in Nat
<1> DEFINE p == s.palette
<1>1. s.cells[k] \in Range(p.index) /\ IsPalette(p)
  BY DEF SubChunkInv
<1>2. PICK u \in DOMAIN p.index : p.index[u] = s.cells[k]
  BY <1>1 DEF Range
<1>3. p.index[u] \in DOMAIN p.entries /\ p.entries[p.index[u]] = u /\ u \in Kinds /\ DOMAIN p.entries \subseteq Nat
  BY <1>1 DEF IsPalette
<1>4. GetBlock(s, k) = u
  BY <1>2, <1>3 DEF GetBlock, GlobalId
<1> QED BY <1>2, <1>3, <1>4

\* The counts of a subchunk are those of the cells, zero beyond the table.
LEMMA CountsAre ==
    ASSUME NEW s, SubChunkInv(s), NEW j \in Nat
    PROVE  HowMany(s.cells, j) = IF j \in DOMAIN s.usage THEN s.usage[j] ELSE 0
<1> DEFINE p == s.palette
<1>1. s.usage \in Seq(Nat) /\ p.entries \in Seq(Kinds) /\ Len(s.usage) <= Len(p.entries)
  BY DEF SubChunkInv, IsPalette
<1>2. DOMAIN s.usage \subseteq DOMAIN p.entries
  BY <1>1
<1>3. CASE j \in DOMAIN p.entries
  BY <1>3 DEF SubChunkInv
<1>4. CASE j \notin DOMAIN p.entries
  <2>1. {c \in Cells : s.cells[c] = j} = {}
    BY <1>4, CellIndex
  <2>2. HowMany(s.cells, j) = 0
    BY <2>1, FS_EmptySet DEF HowMany
  <2> QED BY <1>2, <1>4, <2>2
<1> QED BY <1>3, <1>4

\* A table of counts grown to n keeps its counts and adds zeros.
LEMMA GrownIs ==
    ASSUME NEW usage \in Seq(Nat), NEW n \in Nat
    PROVE  /\ Grown(usage, n) \in Seq(Nat)
           /\ Len(Grown(usage, n)) = IF n > Len(usage) THEN n ELSE Len(usage)
           /\ \A k \in 1..Len(Grown(usage, n)) : Grown(usage, n)[k] = IF k \in DOMAIN usage THEN usage[k] ELSE 0
<1> DEFINE l == Len(usage)
           m == Max({0, n - l})
           z == [i \in 1..m |-> 0]
<1>1. l \in Nat /\ DOMAIN usage = 1..l /\ m = (IF n > l THEN n - l ELSE 0)
  BY MaxOfTwo
<1>2. m \in Nat
  BY <1>1
<1> HIDE DEF m
<1>3. z \in Seq(Nat) /\ Len(z) = m /\ \A k \in 1..m : z[k] = 0
  BY <1>2
<1> HIDE DEF z
<1>4. (usage \o z) \in Seq(Nat) /\ Len(usage \o z) = l + m /\ \A k \in 1..(l + m) : (usage \o z)[k] = IF k <= l THEN usage[k] ELSE z[k - l]
  BY <1>2, <1>3
<1>5. \A k \in 1..(l + m) : (usage \o z)[k] = IF k \in DOMAIN usage THEN usage[k] ELSE 0
  <2> SUFFICES ASSUME NEW k \in 1..(l + m) PROVE (usage \o z)[k] = IF k \in DOMAIN usage THEN usage[k] ELSE 0
    OBVIOUS
  <2>1. k <= l \/ k - l \in 1..m
    BY <1>1, <1>2
  <2>2. k <= l <=> k \in DOMAIN usage
    BY <1>1, <1>2
  <2> QED BY <1>3, <1>4, <2>1, <2>2
<1>6. Grown(usage, n) = usage \o z
  BY DEF Grown, z, m
<1> QED BY <1>1, <1>4, <1>5, <1>6

\* What setBlock makes of a subchunk when the type changes.
SetAs(s, c, t, q, i, o, new) ==
    /\ DOMAIN new = DOMAIN s /\ new = [f \in DOMAIN new |-> new[f]]
    /\ new.cells = [s.cells EXCEPT ![c] = i]
    /\ new.palette = IF HowMany(s.cells, o) = 1 /\ GetBlock(s, c) # Air THEN RemoveType(q, GetBlock(s, c)) ELSE q
    /\ new.usage \in Seq(Nat) /\ Len(new.usage) = (IF i > Len(s.usage) THEN i ELSE Len(s.usage))
    /\ \A k \in DOMAIN new.usage : new.usage[k] = HowMany(s.cells, k) + (IF k = i THEN 1 ELSE 0) - (IF k = o THEN 1 ELSE 0)
    /\ new.nonAir = s.nonAir + (IF t # Air THEN 1 ELSE 0) - (IF GetBlock(s, c) # Air THEN 1 ELSE 0)
    /\ new.blockVersion = s.blockVersion + 1
    /\ \A f \in DOMAIN s \ {"cells", "palette", "usage", "nonAir", "blockVersion"} : new[f] = s[f]

\* setBlock, step by step: the new type gets its slot, the old one is counted down, the new one up.
LEMMA SetBlockSets ==
    ASSUME NEW s, SubChunkInv(s), NEW c \in Cells, NEW t \in Kinds, t # GetBlock(s, c),
           NEW q, q = AddType(s.palette, t), NEW i, i = q.index[t], NEW o, o = s.cells[c]
    PROVE  /\ SetAs(s, c, t, q, i, o, SetBlock(s, c, t))
           /\ IsPalette(q) /\ Offers(s.palette, q, t) /\ i \in Nat /\ o \in Nat /\ i # o
           /\ q.entries[o] = GetBlock(s, c) /\ q.index[GetBlock(s, c)] = o /\ GetBlock(s, c) \in DOMAIN q.index
           /\ q.entries[i] = t /\ t \in DOMAIN q.index /\ i \in DOMAIN q.entries
<1> DEFINE b == GetBlock(s, c)
           g == Grown(s.usage, i)
<1>1. IsPalette(s.palette) /\ s.usage \in Seq(Nat) /\ Len(s.usage) <= Len(s.palette.entries)
      /\ {"palette", "cells", "usage", "nonAir", "rotation", "blockVersion"} \subseteq DOMAIN s
      /\ s = [f \in DOMAIN s |-> s[f]] /\ DOMAIN s.cells = Cells
  BY DEF SubChunkInv
<1>2. IsPalette(q) /\ Offers(s.palette, q, t)
  BY <1>1, AddTypeKeeps
<1>3. /\ b \in DOMAIN s.palette.index /\ s.palette.index[b] = o
      /\ o \in DOMAIN s.palette.entries /\ s.palette.entries[o] = b /\ b \in Kinds /\ o \in Nat
  BY CellIndex
<1>4. q.entries[o] = b /\ q.index[b] = o /\ b \in DOMAIN q.index /\ t \in DOMAIN q.index
  BY <1>2, <1>3 DEF Offers
<1>5. i \in DOMAIN q.entries /\ q.entries[i] = t /\ DOMAIN q.entries \subseteq Nat /\ o \in DOMAIN q.entries
  BY <1>2, <1>4 DEF IsPalette
<1>6. i # o /\ i \in Nat /\ i >= 1
  <2>1. i \in 1..Len(q.entries) /\ Len(q.entries) \in Nat
    BY <1>2, <1>5 DEF IsPalette
  <2> QED BY <1>4, <1>5, <2>1
<1>7. g \in Seq(Nat) /\ Len(g) = (IF i > Len(s.usage) THEN i ELSE Len(s.usage)) /\ \A k \in 1..Len(g) : g[k] = HowMany(s.cells, k)
  <2>1. g \in Seq(Nat) /\ Len(g) = (IF i > Len(s.usage) THEN i ELSE Len(s.usage))
        /\ \A k \in 1..Len(g) : g[k] = IF k \in DOMAIN s.usage THEN s.usage[k] ELSE 0
    BY <1>1, <1>6, GrownIs
  <2>2. \A k \in 1..Len(g) : k \in Nat
    BY <2>1
  <2> QED BY <2>1, <2>2, CountsAre
<1>8. HowMany(s.cells, o) \in Nat /\ HowMany(s.cells, o) > 0 /\ o <= Len(g) /\ o >= 1 /\ o \in DOMAIN g /\ i \in DOMAIN g /\ DOMAIN g = 1..Len(g) /\ Len(g) \in Nat
  <2>1. {k \in Cells : s.cells[k] = o} # {} /\ IsFiniteSet({k \in Cells : s.cells[k] = o})
    BY CellsFinite, FS_Subset
  <2>2. HowMany(s.cells, o) \in Nat /\ HowMany(s.cells, o) # 0
    BY <2>1, FS_EmptySet, FS_CardinalityType DEF HowMany
  <2>3. o \in DOMAIN s.usage /\ DOMAIN s.usage = 1..Len(s.usage)
    BY <1>1, <1>3, <2>2, CountsAre
  <2> QED BY <1>1, <1>6, <1>7, <2>2, <2>3
<1> HIDE DEF g
<1> DEFINE w == [s EXCEPT !.palette = q, !.usage = g]
           d == DecrementUsage(w, o)
           u == [g EXCEPT ![o] = g[o] - 1]
           r == IF HowMany(s.cells, o) = 1 /\ b # Air THEN RemoveType(q, b) ELSE q
<1>9. DOMAIN w = DOMAIN s /\ w = [f \in DOMAIN w |-> w[f]] /\ w.palette = q /\ w.usage = g /\ \A f \in DOMAIN s \ {"palette", "usage"} : w[f] = s[f]
  BY <1>1
<1> HIDE DEF w
<1>10. GlobalId(q, o) = b
  BY <1>4, <1>5 DEF GlobalId
<1>11. g[o] = HowMany(s.cells, o) /\ (b # Air => o # AirIndex)
  <2>1. q.entries[AirIndex] = Air
    BY <1>2 DEF IsPalette
  <2> QED BY <1>4, <1>7, <1>8, <2>1
<1>12. d = [w EXCEPT !.usage = u, !.palette = r]
  <2>1. ~(o > Len(w.usage) \/ w.usage[o] = 0)
    BY <1>7, <1>8, <1>9, <1>11
  <2>2. (w.usage[o] = 1 /\ o # AirIndex /\ GlobalId(q, o) # Air) <=> (HowMany(s.cells, o) = 1 /\ b # Air)
    BY <1>9, <1>10, <1>11
  <2>3. d = [w EXCEPT !.usage[o] = @ - 1,
                   !.palette = IF w.usage[o] = 1 /\ o # AirIndex /\ GlobalId(@, o) # Air
                               THEN RemoveType(@, GlobalId(@, o)) ELSE @]
    BY <2>1 DEF DecrementUsage
  <2> QED BY <1>1, <1>9, <1>10, <2>2, <2>3
<1>13. DOMAIN d = DOMAIN s /\ d = [f \in DOMAIN d |-> d[f]] /\ d.palette = r /\ d.usage = u /\ \A f \in DOMAIN s \ {"palette", "usage"} : d[f] = s[f]
  <2> HIDE DEF r, u, d
  <2> QED BY <1>1, <1>9, <1>12
<1>14. u \in Seq(Nat) /\ Len(u) = Len(g) /\ DOMAIN u = DOMAIN g /\ u[o] = g[o] - 1 /\ (\A k \in DOMAIN g : k # o => u[k] = g[k])
  <2>1. g[o] - 1 \in Nat
    BY <1>8, <1>11
  <2> QED BY <1>7, <1>8, <2>1
<1> HIDE DEF d, u, r
<1>15. Grown(u, i) = u
  <2>1. Grown(u, i) \in Seq(Nat) /\ Len(Grown(u, i)) = Len(u) /\ \A k \in 1..Len(u) : Grown(u, i)[k] = u[k]
    <3>1. i <= Len(u) /\ DOMAIN u = 1..Len(u)
      BY <1>6, <1>8, <1>14
    <3>2. Len(u) \in Nat /\ ~(i > Len(u))
      BY <1>6, <1>8, <1>14, <3>1
    <3> QED BY <1>6, <1>14, <3>1, <3>2, GrownIs
  <2>2. u \in Seq(Nat)
    BY <1>14
  <2> QED BY <2>1, <2>2, SeqEqual
<1> DEFINE v == [u EXCEPT ![i] = u[i] + 1]
           e == IncrementUsage(d, i)
           new == SetBlock(s, c, t)
<1>16. e = [d EXCEPT !.usage = v]
  <2>1. e = [d EXCEPT !.usage = [Grown(d.usage, i) EXCEPT ![i] = Grown(d.usage, i)[i] + 1]]
    BY DEF IncrementUsage
  <2>2. Grown(d.usage, i) = u
    BY <1>13, <1>15
  <2> QED BY <2>1, <2>2
<1>17. v \in Seq(Nat) /\ Len(v) = Len(g) /\ DOMAIN v = DOMAIN g /\ v[i] = u[i] + 1 /\ (\A k \in DOMAIN g : k # i => v[k] = u[k])
  <2>1. u[i] + 1 \in Nat
    BY <1>8, <1>14
  <2> QED BY <1>8, <1>14, <2>1
<1> HIDE DEF v
<1>18. DOMAIN e = DOMAIN s /\ e = [f \in DOMAIN e |-> e[f]] /\ e.palette = r /\ e.usage = v /\ \A f \in DOMAIN s \ {"palette", "usage"} : e[f] = s[f]
  <2> HIDE DEF e
  <2> QED BY <1>1, <1>13, <1>16
<1>19. SetBlockInternal(s, c, t, b) = [e EXCEPT !.cells[c] = i, !.nonAir = @ + (IF t # Air THEN 1 ELSE 0) - (IF b # Air THEN 1 ELSE 0)]
  <2> HIDE DEF b
  <2> QED BY DEF SetBlockInternal, e, d, w, g
<1>20. new = [SetBlockInternal(s, c, t, b) EXCEPT !.blockVersion = @ + 1]
  BY DEF SetBlock
<1> HIDE DEF e, new
<1>21. /\ DOMAIN new = DOMAIN s /\ new = [f \in DOMAIN new |-> new[f]]
       /\ new.cells = [s.cells EXCEPT ![c] = i] /\ new.palette = r /\ new.usage = v
       /\ new.nonAir = s.nonAir + (IF t # Air THEN 1 ELSE 0) - (IF b # Air THEN 1 ELSE 0)
       /\ new.blockVersion = s.blockVersion + 1
       /\ \A f \in DOMAIN s \ {"cells", "palette", "usage", "nonAir", "blockVersion"} : new[f] = s[f]
  <2> HIDE DEF b
  <2>1. PICK x : x = SetBlockInternal(s, c, t, b)
    OBVIOUS
  <2>2. /\ DOMAIN x = DOMAIN s /\ x.cells = [s.cells EXCEPT ![c] = i] /\ x.palette = r /\ x.usage = v
        /\ x.nonAir = s.nonAir + (IF t # Air THEN 1 ELSE 0) - (IF b # Air THEN 1 ELSE 0)
        /\ \A f \in DOMAIN s \ {"cells", "palette", "usage", "nonAir"} : x[f] = s[f]
    <3>1. PICK a : a = e.nonAir + (IF t # Air THEN 1 ELSE 0) - (IF b # Air THEN 1 ELSE 0)
      OBVIOUS
    <3>2. PICK y : y = [e.cells EXCEPT ![c] = i]
      OBVIOUS
    <3>3. x = [e EXCEPT !.cells = y, !.nonAir = a]
      BY <1>18, <1>19, <2>1, <3>1, <3>2
    <3>4. e.cells = s.cells /\ e.nonAir = s.nonAir
      BY <1>1, <1>18
    <3>5. DOMAIN x = DOMAIN s /\ x.cells = y /\ x.palette = r /\ x.usage = v /\ x.nonAir = a
          /\ \A f \in DOMAIN s \ {"cells", "palette", "usage", "nonAir"} : x[f] = s[f]
      BY <1>1, <1>18, <3>3
    <3> QED BY <3>1, <3>2, <3>4, <3>5
  <2> QED BY <1>1, <1>20, <2>1, <2>2
<1>22. \A k \in DOMAIN v : v[k] = HowMany(s.cells, k) + (IF k = i THEN 1 ELSE 0) - (IF k = o THEN 1 ELSE 0)
  <2> SUFFICES ASSUME NEW k \in DOMAIN g PROVE v[k] = HowMany(s.cells, k) + (IF k = i THEN 1 ELSE 0) - (IF k = o THEN 1 ELSE 0)
    BY <1>17
  <2>1. g[k] = HowMany(s.cells, k) /\ g[k] \in Nat
    BY <1>7, <1>8
  <2>2. PICK a, x : a = HowMany(s.cells, k) /\ x = v[k]
    OBVIOUS
  <2>3. a \in Nat /\ (k = i => x = a + 1) /\ (k = o => x = a - 1) /\ (k # i /\ k # o => x = a)
    BY <1>6, <1>14, <1>17, <2>1, <2>2
  <2>4. x = a + (IF k = i THEN 1 ELSE 0) - (IF k = o THEN 1 ELSE 0)
    BY <1>6, <2>3
  <2> QED BY <2>2, <2>4
<1>23. SetAs(s, c, t, q, i, o, new)
  <2>1. Len(v) = (IF i > Len(s.usage) THEN i ELSE Len(s.usage)) /\ v \in Seq(Nat)
    BY <1>7, <1>17
  <2> QED BY <1>21, <1>22, <2>1 DEF SetAs, r
<1> QED BY <1>2, <1>3, <1>4, <1>5, <1>6, <1>23 DEF new
-----------------------------------------------------------------------------

\* The counts of the cells once one of them holds i, where it held o.
Moves(h, new, k, i, o) ==
    /\ HowMany(h, k) \in Nat /\ HowMany(new, k) \in Nat
    /\ HowMany(new, k) = HowMany(h, k) + (IF k = i THEN 1 ELSE 0) - (IF k = o THEN 1 ELSE 0)

\* Only the counts of the two indices change.
LEMMA CountMoves ==
    ASSUME NEW h, DOMAIN h = Cells, NEW c \in Cells, NEW i, NEW o, o = h[c], i # o, NEW k,
           NEW new, new = [h EXCEPT ![c] = i]
    PROVE  Moves(h, new, k, i, o)
<1> DEFINE A == {x \in Cells : h[x] = k}
           B == {x \in Cells : new[x] = k}
<1>1. A \in SUBSET Cells /\ B \in SUBSET Cells /\ A \ {c} = B \ {c} /\ (c \in A <=> k = o) /\ (c \in B <=> k = i)
  OBVIOUS
<1> HIDE DEF A, B
<1>2. PICK a, b : a = Cardinality(A) /\ b = Cardinality(B)
  OBVIOUS
<1>3. a \in Nat /\ b \in Nat /\ b = a + (IF c \in B THEN 1 ELSE 0) - (IF c \in A THEN 1 ELSE 0)
  BY <1>1, <1>2, OneCellCounts
<1>4. b = a + (IF k = i THEN 1 ELSE 0) - (IF k = o THEN 1 ELSE 0)
  BY <1>1, <1>3
<1>5. HowMany(h, k) = a /\ HowMany(new, k) = b
  BY <1>2 DEF HowMany, A, B
<1> QED BY <1>3, <1>4, <1>5 DEF Moves

\* setBlock writes the cell it is given and no other, and keeps the palette and the counts.
Written(s, c, t, new) ==
    /\ SubChunkInv(new)
    /\ \A k \in Cells : GetBlock(new, k) = IF k = c THEN t ELSE GetBlock(s, k)
    /\ NoTypeIsIdle(s) => NoTypeIsIdle(new)

\* setBlock with a new type: the cell changes and no other, and palette and counts stay exact.
LEMMA SetBlockKeeps ==
    ASSUME NEW s, SubChunkInv(s), NEW c \in Cells, NEW t \in Kinds, t # GetBlock(s, c)
    PROVE  Written(s, c, t, SetBlock(s, c, t))
<1> DEFINE b == GetBlock(s, c)
<1>1. PICK q, o : q = AddType(s.palette, t) /\ o = s.cells[c]
  OBVIOUS
<1>2. PICK i, new : i = q.index[t] /\ new = SetBlock(s, c, t)
  OBVIOUS
<1>3. /\ SetAs(s, c, t, q, i, o, new) /\ IsPalette(q) /\ Offers(s.palette, q, t) /\ i \in Nat /\ o \in Nat /\ i # o
      /\ q.entries[o] = b /\ q.index[b] = o /\ b \in DOMAIN q.index
      /\ q.entries[i] = t /\ t \in DOMAIN q.index /\ i \in DOMAIN q.entries
  BY <1>1, <1>2, SetBlockSets
<1>4. PICK r : r = new.palette
  OBVIOUS
<1>5. s.cells \in [Cells -> Range(s.palette.index)]
  BY DEF SubChunkInv
<1>6. \A k \in Cells : new.cells[k] = IF k = c THEN i ELSE s.cells[k]
  BY <1>3, <1>5 DEF SetAs
<1>7. \A k : HowMany(new.cells, k) \in Nat /\ HowMany(s.cells, k) \in Nat /\ HowMany(new.cells, k) = HowMany(s.cells, k) + (IF k = i THEN 1 ELSE 0) - (IF k = o THEN 1 ELSE 0)
  <2> SUFFICES ASSUME NEW k
               PROVE  HowMany(new.cells, k) \in Nat /\ HowMany(s.cells, k) \in Nat
                      /\ HowMany(new.cells, k) = HowMany(s.cells, k) + (IF k = i THEN 1 ELSE 0) - (IF k = o THEN 1 ELSE 0)
    OBVIOUS
  <2>1. PICK h, g : h = s.cells /\ g = new.cells
    OBVIOUS
  <2>2. DOMAIN h = Cells /\ o = h[c] /\ g = [h EXCEPT ![c] = i] /\ i # o
    BY <1>1, <1>3, <1>5, <2>1 DEF SetAs
  <2>3. Moves(h, g, k, i, o)
    BY <2>2, CountMoves
  <2> QED BY <2>1, <2>3 DEF Moves
\* The palette that is left: with the old type of the cell, or without it and then no cell has it.
<1>8. IsPalette(r) /\ Len(r.entries) = Len(q.entries)
      /\ (\A u \in DOMAIN r.index : u \in DOMAIN q.index /\ r.index[u] = q.index[u])
      /\ (\A u \in DOMAIN q.index : u # b => u \in DOMAIN r.index)
      /\ (b \notin DOMAIN r.index => b # Air /\ HowMany(s.cells, o) = 1)
      /\ (b \in DOMAIN r.index => b = Air \/ HowMany(s.cells, o) # 1)
  <2>1. CASE HowMany(s.cells, o) = 1 /\ b # Air
    <3>1. r = RemoveType(q, b)
      BY <1>3, <1>4, <2>1 DEF SetAs
    <3>2. IsPalette(r) /\ Drops(q, r, b)
      BY <1>3, <2>1, <3>1, RemoveTypeKeeps
    <3> QED BY <2>1, <3>2 DEF Drops
  <2>2. CASE ~(HowMany(s.cells, o) = 1 /\ b # Air)
    <3>1. r = q
      BY <1>3, <1>4, <2>2 DEF SetAs
    <3> QED BY <1>3, <2>2, <3>1
  <2> QED BY <2>1, <2>2
<1>9. \A k \in Cells \ {c} : b \notin DOMAIN r.index => s.cells[k] # o
  <2> SUFFICES ASSUME NEW k \in Cells \ {c}, b \notin DOMAIN r.index, s.cells[k] = o PROVE FALSE
    OBVIOUS
  <2>1. HowMany(new.cells, o) = 0
    <3>1. PICK x, y : x = HowMany(new.cells, o) /\ y = HowMany(s.cells, o)
      OBVIOUS
    <3>2. x = y + (IF o = i THEN 1 ELSE 0) - (IF o = o THEN 1 ELSE 0)
      BY <1>7, <3>1
    <3>3. y = 1
      BY <1>8, <3>1
    <3> QED BY <1>3, <3>1, <3>2, <3>3
  <2>2. IsFiniteSet({x \in Cells : new.cells[x] = o})
    BY CellsFinite, FS_Subset
  <2>3. {x \in Cells : new.cells[x] = o} = {}
    BY <2>1, <2>2, FS_EmptySet DEF HowMany
  <2> QED BY <1>6, <2>3
\* Every cell has its type in the new palette.
<1>10. \A k \in Cells : LET u == IF k = c THEN t ELSE GetBlock(s, k)
                        IN  u \in DOMAIN r.index /\ r.index[u] = new.cells[k]
  <2> SUFFICES ASSUME NEW k \in Cells
               PROVE  LET u == IF k = c THEN t ELSE GetBlock(s, k)
                      IN  u \in DOMAIN r.index /\ r.index[u] = new.cells[k]
    OBVIOUS
  <2>1. CASE k = c
    BY <1>2, <1>3, <1>6, <1>8, <2>1
  <2>2. CASE k # c
    <3>1. PICK u : u = GetBlock(s, k)
      OBVIOUS
    <3>2. u \in DOMAIN s.palette.index /\ s.palette.index[u] = s.cells[k]
      BY <3>1, CellIndex
    <3>3. u \in DOMAIN q.index /\ q.index[u] = s.cells[k]
      BY <1>3, <3>2 DEF Offers
    <3>4. u \in DOMAIN r.index
      <4>1. CASE u = b
        BY <1>3, <1>9, <2>2, <3>3, <4>1
      <4>2. CASE u # b
        BY <1>8, <3>3, <4>2
      <4> QED BY <4>1, <4>2
    <3> QED BY <1>6, <1>8, <2>2, <3>1, <3>3, <3>4
  <2> QED BY <2>1, <2>2
<1>11. \A k \in Cells : GetBlock(new, k) = IF k = c THEN t ELSE GetBlock(s, k)
  <2> SUFFICES ASSUME NEW k \in Cells PROVE GetBlock(new, k) = IF k = c THEN t ELSE GetBlock(s, k)
    OBVIOUS
  <2>1. PICK u : u = IF k = c THEN t ELSE GetBlock(s, k)
    OBVIOUS
  <2>2. u \in DOMAIN r.index /\ r.index[u] = new.cells[k]
    BY <1>10, <2>1
  <2>3. new.cells[k] \in DOMAIN r.entries /\ r.entries[new.cells[k]] = u
    BY <1>8, <2>2 DEF IsPalette
  <2>4. GetBlock(new, k) = u
    BY <1>4, <2>3 DEF GetBlock, GlobalId
  <2> QED BY <2>1, <2>4
<1>12. new.cells \in [Cells -> Range(r.index)]
  <2>1. new.cells = [k \in Cells |-> new.cells[k]]
    BY <1>3, <1>5 DEF SetAs
  <2>2. \A k \in Cells : new.cells[k] \in Range(r.index)
    BY <1>10 DEF Range
  <2> QED BY <2>1, <2>2
<1>13. new.usage \in Seq(Nat) /\ Len(new.usage) <= Len(r.entries)
  <2>1. s.usage \in Seq(Nat) /\ Len(s.usage) <= Len(s.palette.entries) /\ s.palette.entries \in Seq(Kinds)
    BY DEF SubChunkInv, IsPalette
  <2>2. i <= Len(q.entries) /\ Len(q.entries) \in Nat /\ Len(s.palette.entries) <= Len(q.entries)
    BY <1>3 DEF IsPalette, Offers
  <2>3. new.usage \in Seq(Nat) /\ Len(new.usage) = (IF i > Len(s.usage) THEN i ELSE Len(s.usage))
    BY <1>3 DEF SetAs
  <2>4. Len(s.usage) \in Nat /\ Len(s.palette.entries) \in Nat /\ Len(r.entries) = Len(q.entries)
    BY <1>8, <2>1
  <2> QED BY <1>3, <2>1, <2>2, <2>3, <2>4
<1>14. \A k \in DOMAIN r.entries : (IF k \in DOMAIN new.usage THEN new.usage[k] ELSE 0) = HowMany(new.cells, k)
  <2> SUFFICES ASSUME NEW k \in DOMAIN r.entries
               PROVE  (IF k \in DOMAIN new.usage THEN new.usage[k] ELSE 0) = HowMany(new.cells, k)
    OBVIOUS
  <2>1. CASE k \in DOMAIN new.usage
    <3>1. new.usage[k] = HowMany(s.cells, k) + (IF k = i THEN 1 ELSE 0) - (IF k = o THEN 1 ELSE 0)
      BY <1>3, <2>1 DEF SetAs
    <3>2. HowMany(new.cells, k) = HowMany(s.cells, k) + (IF k = i THEN 1 ELSE 0) - (IF k = o THEN 1 ELSE 0)
      BY <1>7
    <3> QED BY <2>1, <3>1, <3>2
  <2>2. CASE k \notin DOMAIN new.usage
    <3>1. s.usage \in Seq(Nat) /\ k \in Nat /\ k >= 1
      <4>1. r.entries \in Seq(Kinds)
        BY <1>8 DEF IsPalette
      <4> QED BY <4>1 DEF SubChunkInv
    <3>2. k \notin DOMAIN s.usage /\ k # i
      BY <1>3, <1>13, <2>2, <3>1 DEF SetAs
    <3>3. HowMany(s.cells, k) = 0
      BY <3>1, <3>2, CountsAre
    <3>4. PICK x : x = HowMany(new.cells, k)
      OBVIOUS
    <3>5. x \in Nat /\ x = 0 + (IF k = i THEN 1 ELSE 0) - (IF k = o THEN 1 ELSE 0)
      BY <1>7, <3>3, <3>4
    <3> QED BY <2>2, <3>2, <3>4, <3>5
  <2> QED BY <2>1, <2>2
<1>15. new.nonAir = Cardinality({k \in Cells : GetBlock(new, k) # Air})
  <2> DEFINE A == {k \in Cells : GetBlock(s, k) # Air}
             B == {k \in Cells : GetBlock(new, k) # Air}
  <2>1. A \in SUBSET Cells /\ B \in SUBSET Cells /\ A \ {c} = B \ {c} /\ (c \in A <=> b # Air) /\ (c \in B <=> t # Air)
    BY <1>11
  <2>2. s.nonAir = Cardinality(A)
    BY DEF SubChunkInv
  <2>3. new.nonAir = s.nonAir + (IF t # Air THEN 1 ELSE 0) - (IF b # Air THEN 1 ELSE 0)
    BY <1>3 DEF SetAs
  <2> HIDE DEF A, B, b
  <2>4. Cardinality(A) \in Nat /\ Cardinality(B) = Cardinality(A) + (IF c \in B THEN 1 ELSE 0) - (IF c \in A THEN 1 ELSE 0)
    BY <2>1, OneCellCounts
  <2>5. new.nonAir = Cardinality(B)
    BY <2>1, <2>2, <2>3, <2>4
  <2> QED BY <2>5 DEF B
<1>16. SubChunkInv(new)
  <2>1. {"palette", "cells", "usage", "nonAir", "rotation", "blockVersion"} \subseteq DOMAIN new /\ new = [f \in DOMAIN new |-> new[f]]
    BY <1>3 DEF SetAs, SubChunkInv
  <2> QED BY <1>4, <1>8, <1>12, <1>13, <1>14, <1>15, <2>1 DEF SubChunkInv
<1>17. ASSUME NoTypeIsIdle(s) PROVE NoTypeIsIdle(new)
  <2> SUFFICES ASSUME NEW u \in DOMAIN r.index \ {Air} PROVE \E k \in Cells : GetBlock(new, k) = u
    BY <1>4 DEF NoTypeIsIdle
  <2>1. CASE u = t
    BY <1>11, <2>1
  <2>2. CASE u # t
    <3>1. u \in DOMAIN s.palette.index
      BY <1>3, <1>8, <2>2 DEF Offers
    <3>2. PICK k \in Cells : GetBlock(s, k) = u
      BY <1>17, <3>1 DEF NoTypeIsIdle
    <3>3. CASE k # c
      BY <1>11, <3>2, <3>3
    <3>4. CASE k = c
      <4>1. u = b /\ HowMany(s.cells, o) # 1
        BY <1>8, <3>2, <3>4
      <4>2. PICK x, y : x = HowMany(new.cells, o) /\ y = HowMany(s.cells, o)
        OBVIOUS
      <4>3. x \in Nat /\ y \in Nat /\ x = y - 1 /\ y # 1
        <5>1. x \in Nat /\ y \in Nat /\ x = y + (IF o = i THEN 1 ELSE 0) - (IF o = o THEN 1 ELSE 0)
          BY <1>7, <4>2
        <5> QED BY <1>3, <4>1, <4>2, <5>1
      <4>4. IsFiniteSet({}) /\ Cardinality({}) = 0
        BY FS_EmptySet
      <4>5. {z \in Cells : new.cells[z] = o} # {}
        <5> SUFFICES ASSUME {z \in Cells : new.cells[z] = o} = {} PROVE FALSE
          OBVIOUS
        <5>1. x = 0
          BY <4>2, <4>4 DEF HowMany
        <5> QED BY <4>3, <5>1
      <4>6. PICK z \in Cells : new.cells[z] = o
        BY <4>5
      <4>7. z # c /\ s.cells[z] = o
        BY <1>3, <1>6, <4>6
      <4>8. GetBlock(s, z) = s.palette.entries[s.cells[z]] /\ GetBlock(s, c) = s.palette.entries[s.cells[c]]
        BY CellIndex
      <4> QED BY <1>1, <1>11, <4>1, <4>7, <4>8
    <3> QED BY <3>3, <3>4
  <2> QED BY <2>1, <2>2
<1> QED BY <1>2, <1>11, <1>16, <1>17 DEF Written
-----------------------------------------------------------------------------

\* setBlock, also where the cell has the type already.
LEMMA SetBlockWrites ==
    ASSUME NEW s, SubChunkInv(s), NEW c \in Cells, NEW t \in Kinds
    PROVE  Written(s, c, t, SetBlock(s, c, t))
<1>1. CASE t = GetBlock(s, c)
  <2>1. SetBlock(s, c, t) = s
    BY <1>1 DEF SetBlock
  <2> QED BY <1>1, <2>1 DEF Written
<1>2. CASE t # GetBlock(s, c)
  BY <1>2, SetBlockKeeps
<1> QED BY <1>1, <1>2

\* There are Volume cells.
LEMMA CellsCounted == Cardinality(Cells) = Volume /\ Volume \in Nat /\ Cells # {}
<1> DEFINE I == 0..Size - 1
           P == (I \X I) \X I
           g == [x \in P |-> <<x[1][1], x[1][2], x[2]>>]
<1>0. Size \in Nat /\ Size > 0 /\ Size - 1 \in Int /\ 0 \in Int /\ ~(0 > Size - 1) /\ (Size - 1) - 0 + 1 = Size
  BY PositionAssumption
<1>1. IsFiniteSet(I) /\ Cardinality(I) = Size
  BY <1>0, FS_Interval
<1>2. IsFiniteSet(I \X I) /\ Cardinality(I \X I) = Size * Size
  BY <1>1, FS_Product
<1>3. IsFiniteSet(P) /\ Cardinality(P) = (Size * Size) * Size
  <2>1. PICK J : J = I \X I
    OBVIOUS
  <2> HIDE DEF I
  <2>2. IsFiniteSet(J \X I) /\ Cardinality(J \X I) = Cardinality(J) * Cardinality(I)
    BY <1>1, <1>2, <2>1, FS_Product
  <2> QED BY <1>1, <1>2, <2>1, <2>2
<1>4. g \in Bijection(P, Cells)
  <2>1. g \in [P -> Cells]
    BY DEF Cells
  <2>2. \A x, y \in P : g[x] = g[y] => x = y
    OBVIOUS
  <2>3. \A c \in Cells : \E x \in P : g[x] = c
    <3> SUFFICES ASSUME NEW c \in Cells PROVE \E x \in P : g[x] = c
      OBVIOUS
    <3>1. <<<<c[1], c[2]>>, c[3]>> \in P /\ g[<<<<c[1], c[2]>>, c[3]>>] = c
      BY DEF Cells
    <3> QED BY <3>1
  <2> HIDE DEF g, P
  <2> QED BY <2>1, <2>2, <2>3 DEF Bijection, Injection, Surjection, IsInjective
<1>5. Cardinality(Cells) = Cardinality(P)
  <2> HIDE DEF g, P
  <2>1. ExistsBijection(P, Cells)
    BY <1>4 DEF ExistsBijection
  <2> QED BY <1>3, <2>1, FS_Bijection
<1>6. <<0, 0, 0>> \in Cells
  BY <1>0 DEF Cells
<1>7. Volume \in Nat
  BY <1>0 DEF Volume
<1> QED BY <1>3, <1>5, <1>6, <1>7 DEF Volume

\* All cells have the type t, and nothing else is kept.
AllAre(s, t) == SubChunkInv(s) /\ NoTypeIsIdle(s) /\ \A c \in Cells : GetBlock(s, c) = t

\* A subchunk all of whose cells hold i, which is the index of t.
FilledBy(s, i, t) ==
    /\ {"palette", "cells", "usage", "nonAir", "rotation", "blockVersion"} \subseteq DOMAIN s /\ s = [f \in DOMAIN s |-> s[f]]
    /\ IsPalette(s.palette) /\ t \in DOMAIN s.palette.index /\ s.palette.index[t] = i /\ DOMAIN s.palette.index \subseteq {Air, t}
    /\ s.cells = [c \in Cells |-> i] /\ s.usage \in Seq(Nat) /\ Len(s.usage) = Len(s.palette.entries)
    /\ \A k \in DOMAIN s.usage : s.usage[k] = IF k = i THEN Volume ELSE 0
    /\ s.nonAir = IF t = Air THEN 0 ELSE Volume
\* Such a subchunk is exact.
LEMMA FilledWith ==
    ASSUME NEW s, NEW i \in Nat, NEW t \in Kinds, FilledBy(s, i, t)
    PROVE  AllAre(s, t)
<1>0. /\ {"palette", "cells", "usage", "nonAir", "rotation", "blockVersion"} \subseteq DOMAIN s /\ s = [f \in DOMAIN s |-> s[f]]
      /\ IsPalette(s.palette) /\ t \in DOMAIN s.palette.index /\ s.palette.index[t] = i /\ DOMAIN s.palette.index \subseteq {Air, t}
      /\ s.cells = [c \in Cells |-> i] /\ s.usage \in Seq(Nat) /\ Len(s.usage) = Len(s.palette.entries)
      /\ (\A k \in DOMAIN s.usage : s.usage[k] = IF k = i THEN Volume ELSE 0)
      /\ s.nonAir = IF t = Air THEN 0 ELSE Volume
  BY DEF FilledBy
<1>1. i \in DOMAIN s.palette.entries /\ s.palette.entries[i] = t
  BY <1>0 DEF IsPalette
<1>2. \A c \in Cells : GetBlock(s, c) = t
  BY <1>0, <1>1 DEF GetBlock, GlobalId
<1>3. s.cells \in [Cells -> Range(s.palette.index)]
  BY <1>0 DEF Range
<1>4. \A k \in DOMAIN s.palette.entries : (IF k \in DOMAIN s.usage THEN s.usage[k] ELSE 0) = HowMany(s.cells, k)
  <2> SUFFICES ASSUME NEW k \in DOMAIN s.palette.entries
               PROVE  (IF k \in DOMAIN s.usage THEN s.usage[k] ELSE 0) = HowMany(s.cells, k)
    OBVIOUS
  <2>1. k \in DOMAIN s.usage
    <3>1. s.palette.entries \in Seq(Kinds)
      BY <1>0 DEF IsPalette
    <3> QED BY <1>0, <3>1
  <2>2. CASE k = i
    <3>1. {c \in Cells : s.cells[c] = k} = Cells
      BY <1>0, <2>2
    <3> QED BY <1>0, <2>1, <2>2, <3>1, CellsCounted DEF HowMany
  <2>3. CASE k # i
    <3>1. {c \in Cells : s.cells[c] = k} = {}
      BY <1>0, <2>3
    <3> QED BY <1>0, <2>1, <2>3, <3>1, FS_EmptySet DEF HowMany
  <2> QED BY <2>2, <2>3
<1>5. s.nonAir = Cardinality({c \in Cells : GetBlock(s, c) # Air})
  <2>1. CASE t = Air
    <3>1. {c \in Cells : GetBlock(s, c) # Air} = {}
      BY <1>2, <2>1
    <3> QED BY <1>0, <2>1, <3>1, FS_EmptySet
  <2>2. CASE t # Air
    <3>1. {c \in Cells : GetBlock(s, c) # Air} = Cells
      BY <1>2, <2>2
    <3> QED BY <1>0, <2>2, <3>1, CellsCounted
  <2> QED BY <2>1, <2>2
<1>6. SubChunkInv(s)
  BY <1>0, <1>3, <1>4, <1>5 DEF SubChunkInv
<1>7. NoTypeIsIdle(s)
  BY <1>0, <1>2, CellsCounted DEF NoTypeIsIdle
<1> QED BY <1>2, <1>6, <1>7 DEF AllAre

\* The palette with air alone.
LEMMA NewPaletteIs ==
    /\ IsPalette(NewPalette) /\ DOMAIN NewPalette.index = {Air} /\ NewPalette.index[Air] = 1 /\ Len(NewPalette.entries) = 1
    /\ NewPalette.free = <<>>
<1>1. NewPalette.entries \in Seq(Kinds) /\ Len(NewPalette.entries) = 1 /\ DOMAIN NewPalette.entries = {1} /\ NewPalette.entries[1] = Air
  BY DEF NewPalette, Kinds
<1>2. DOMAIN NewPalette.index = {Air} /\ NewPalette.index[Air] = 1 /\ NewPalette.index \in [{Air} -> {1}] /\ NewPalette.max = 1
      /\ DOMAIN NewPalette = {"entries", "index", "free", "max"}
  BY DEF NewPalette, AirIndex
<1>3. NewPalette.free = <<>> /\ NewPalette.free \in Seq(Nat) /\ DOMAIN NewPalette.free = {}
  BY DEF NewPalette
<1>4. IsPalette(NewPalette)
  BY <1>1, <1>2, <1>3 DEF IsPalette, Kinds, AirIndex
<1> QED BY <1>1, <1>2, <1>3, <1>4
\* A new subchunk, a cleared one and a filled one hold one type.
LEMMA AllOfAType ==
    /\ AllAre(NewSubChunk, Air)
    /\ \A s : SubChunkInv(s) =>
           /\ AllAre(Clear(s), Air)
           /\ \A t \in Kinds : AllAre(Fill(s, t), t)
<1>0. Air \in Kinds /\ Volume \in Nat /\ AirIndex = 1
  BY CellsCounted DEF Kinds, AirIndex
<1>1. <<Volume>> \in Seq(Nat) /\ Len(<<Volume>>) = 1 /\ DOMAIN <<Volume>> = {1} /\ <<Volume>>[1] = Volume
  BY <1>0
<1>2. AllAre(NewSubChunk, Air)
  <2>1. PICK n : n = NewSubChunk
    OBVIOUS
  <2>2. /\ {"palette", "cells", "usage", "nonAir", "rotation", "blockVersion"} \subseteq DOMAIN n /\ n = [f \in DOMAIN n |-> n[f]]
        /\ n.palette = NewPalette /\ n.cells = [c \in Cells |-> 1] /\ n.usage = <<Volume>> /\ n.nonAir = 0
    BY <2>1 DEF NewSubChunk, AirIndex
  <2>3. \A k \in DOMAIN n.usage : n.usage[k] = IF k = 1 THEN Volume ELSE 0
    BY <1>1, <2>2
  <2>4. FilledBy(n, 1, Air)
    BY <1>0, <1>1, <2>2, <2>3, NewPaletteIs DEF FilledBy
  <2>5. AllAre(n, Air)
    BY <1>0, <2>4, FilledWith
  <2> QED BY <2>1, <2>5
<1>3. ASSUME NEW s, SubChunkInv(s) PROVE AllAre(Clear(s), Air)
  <2>0. {"palette", "cells", "usage", "nonAir", "rotation", "blockVersion"} \subseteq DOMAIN s /\ s = [f \in DOMAIN s |-> s[f]]
    BY <1>3 DEF SubChunkInv
  <2>1. PICK n : n = Clear(s)
    OBVIOUS
  <2>2. /\ {"palette", "cells", "usage", "nonAir", "rotation", "blockVersion"} \subseteq DOMAIN n /\ n = [f \in DOMAIN n |-> n[f]]
        /\ n.palette = NewPalette /\ n.cells = [c \in Cells |-> 1] /\ n.usage = <<Volume>> /\ n.nonAir = 0
    <3>1. PICK v, h, o : v = (IF ~IsEmpty(s) \/ HasRotations(s) THEN s.blockVersion + 1 ELSE s.blockVersion)
                     /\ h = [c \in Cells |-> 1] /\ o = [c \in Cells |-> 0]
      OBVIOUS
    <3>2. n = [s EXCEPT !.cells = h, !.palette = NewPalette, !.usage = <<Volume>>, !.nonAir = 0, !.rotation = o, !.blockVersion = v]
      BY <2>1, <3>1 DEF Clear, AirIndex
    <3> QED BY <2>0, <3>1, <3>2
  <2>3. \A k \in DOMAIN n.usage : n.usage[k] = IF k = 1 THEN Volume ELSE 0
    BY <1>1, <2>2
  <2>4. FilledBy(n, 1, Air)
    BY <1>0, <1>1, <2>2, <2>3, NewPaletteIs DEF FilledBy
  <2>5. AllAre(n, Air)
    BY <1>0, <2>4, FilledWith
  <2> QED BY <2>1, <2>5
<1>4. ASSUME NEW s, SubChunkInv(s), NEW t \in Kinds
      PROVE  AllAre(Fill(s, t), t)
  <2>1. CASE t = Air
    <3>1. Fill(s, t) = Clear(s)
      BY <2>1 DEF Fill
    <3> QED BY <1>3, <1>4, <2>1, <3>1
  <2>2. CASE t # Air
    <3>0. {"palette", "cells", "usage", "nonAir", "rotation", "blockVersion"} \subseteq DOMAIN s /\ s = [f \in DOMAIN s |-> s[f]]
      BY <1>4 DEF SubChunkInv
    <3>1. PICK p, n, u : p = AddType(NewPalette, t) /\ n = Fill(s, t) /\ u = <<0, Volume>>
      OBVIOUS
    <3>2. IsPalette(p) /\ Offers(NewPalette, p, t)
      BY <3>1, NewPaletteIs, AddTypeKeeps
    <3>3. Len(p.entries) = 2 /\ p.index[t] = 2
      <4>1. t \notin DOMAIN NewPalette.index /\ NewPalette.free = <<>> /\ NewPalette.entries = <<Air>>
        BY <2>2 DEF NewPalette
      <4>2. p.entries = Append(<<Air>>, t) /\ p.index = Mapped(NewPalette.index, t, Len(<<Air>>) + 1)
        BY <3>1, <4>1 DEF AddType
      <4>3. p.index[t] = Len(<<Air>>) + 1
        BY <4>2 DEF Mapped
      <4>4. Len(<<Air>>) = 1 /\ <<Air>> \in Seq({Air, t})
        OBVIOUS
      <4> QED BY <4>2, <4>3, <4>4
    <3>4. /\ {"palette", "cells", "usage", "nonAir", "rotation", "blockVersion"} \subseteq DOMAIN n /\ n = [f \in DOMAIN n |-> n[f]]
          /\ n.palette = p /\ n.cells = [c \in Cells |-> 2] /\ n.usage = u /\ n.nonAir = Volume
      <4>1. PICK h, o, v : h = [c \in Cells |-> 2] /\ o = [c \in Cells |-> 0] /\ v = s.blockVersion + 1
        OBVIOUS
      <4>2. n = [s EXCEPT !.cells = h, !.palette = p, !.usage = u, !.nonAir = Volume, !.rotation = o, !.blockVersion = v]
        BY <2>2, <3>1, <4>1 DEF Fill
      <4> QED BY <3>0, <4>1, <4>2
    <3>5. u \in Seq(Nat) /\ Len(u) = 2 /\ DOMAIN u = {1, 2} /\ u[1] = 0 /\ u[2] = Volume
      BY <1>0, <3>1
    <3>6. \A k \in DOMAIN n.usage : n.usage[k] = IF k = 2 THEN Volume ELSE 0
      BY <3>4, <3>5
    <3>7. DOMAIN p.index = {Air, t}
      BY <3>2, NewPaletteIs DEF Offers
    <3>8. FilledBy(n, 2, t)
      BY <2>2, <3>2, <3>3, <3>4, <3>5, <3>6, <3>7 DEF FilledBy
    <3>9. AllAre(n, t)
      BY <3>8, FilledWith
    <3> QED BY <3>1, <3>9
  <2> QED BY <2>1, <2>2
<1> QED BY <1>2, <1>3, <1>4
-----------------------------------------------------------------------------

\* compact keeps the indices in use, in their order.
LEMMA KeptSelects ==
    ASSUME NEW p, NEW l \in Nat, l = Len(p.entries), NEW usage, NEW list, list = [n \in 1..l |-> n],
           NEW used, used = {n \in 1..l : InUse(p, usage, n)}, NEW s, s = KeptIndices(p, usage)
    PROVE  Selects(s, list, used, 1..l, l)
<1> DEFINE D == 1..l
           G(g, k) == g = [i \in 0..k |-> IF i = 0 THEN <<>> ELSE IF InUse(p, usage, i) THEN Append(g[i - 1], i) ELSE g[i - 1]]
           K == {k \in Nat : \E g : G(g, k)}
<1>2. 0 \in K
  <2>1. G([i \in 0..0 |-> <<>>], 0)
    OBVIOUS
  <2> QED BY <2>1
<1>3. ASSUME NEW k \in 0..(l - 1), k \in K PROVE k + 1 \in K
  <2>1. PICK g : G(g, k)
    BY <1>3
  <2> DEFINE h == [i \in 0..(k + 1) |-> IF i = k + 1 THEN (IF InUse(p, usage, k + 1) THEN Append(g[k], k + 1) ELSE g[k]) ELSE g[i]]
  <2>2. \A i \in 0..(k + 1) : h[i] = IF i = 0 THEN <<>> ELSE IF InUse(p, usage, i) THEN Append(h[i - 1], i) ELSE h[i - 1]
    <3> TAKE i \in 0..(k + 1)
    <3>1. CASE i = k + 1
      <4>1. i - 1 = k /\ k \in 0..(k + 1) /\ k # k + 1 /\ i # 0
        BY <3>1
      <4> QED BY <3>1, <4>1
    <3>2. CASE i # k + 1
      <4>1. i \in 0..k
        BY <3>2
      <4>2. g[i] = IF i = 0 THEN <<>> ELSE IF InUse(p, usage, i) THEN Append(g[i - 1], i) ELSE g[i - 1]
        BY <2>1, <4>1
      <4>3. i # 0 => i - 1 \in 0..(k + 1) /\ i - 1 # k + 1
        BY <4>1
      <4> QED BY <3>2, <4>2, <4>3
    <3> QED BY <3>1, <3>2
  <2>3. h = [i \in 0..(k + 1) |-> h[i]]
    OBVIOUS
  <2> HIDE DEF h
  <2>4. G(h, k + 1)
    BY <2>2, <2>3
  <2>5. k + 1 \in Nat
    BY <1>3
  <2>6. \E w : G(w, k + 1)
    BY <2>4
  <2> QED BY <2>5, <2>6
<1> HIDE DEF K
<1>4. l \in K
  <2>1. 0..l \subseteq K
    BY <1>2, <1>3, UpTo
  <2> QED BY <2>1
<1> DEFINE c == CHOOSE g : G(g, l)
<1>5. G(c, l)
  BY <1>4 DEF K
<1>6. s = c[l]
  BY DEF KeptIndices
<1> HIDE DEF c
<1>7. \A i \in 0..l : c[i] = IF i = 0 THEN <<>> ELSE IF InUse(p, usage, i) THEN Append(c[i - 1], i) ELSE c[i - 1]
  BY <1>5
<1> HIDE DEF D
<1>l. list \in Seq(D) /\ Len(list) = l /\ (\A i \in 1..l : list[i] = i /\ (i \in used <=> InUse(p, usage, i)))
  BY DEF D
<1> DEFINE M == {k \in Nat : Selects(c[k], list, used, D, k)}
<1>8. 0 \in M
  <2>1. c[0] = <<>> /\ <<>> \in Seq(D) /\ Len(<<>>) = 0 /\ 1..0 = {}
    BY <1>7
  <2> QED BY <2>1 DEF Selects
<1>9. ASSUME NEW k \in 0..(l - 1), k \in M PROVE k + 1 \in M
  <2>1. k + 1 \in 0..l /\ k + 1 # 0 /\ (k + 1) - 1 = k /\ k \in 0..(Len(list) - 1) /\ k + 1 \in Nat /\ k + 1 \in 1..l
    BY <1>l
  <2>2. c[k + 1] = IF list[k + 1] \in used THEN Append(c[k], list[k + 1]) ELSE c[k]
    <3>1. c[k + 1] = IF InUse(p, usage, k + 1) THEN Append(c[k], k + 1) ELSE c[k]
      BY <1>7, <2>1
    <3>2. list[k + 1] = k + 1 /\ (k + 1 \in used <=> InUse(p, usage, k + 1))
      BY <1>l, <2>1
    <3> QED BY <3>1, <3>2
  <2>3. Selects(c[k], list, used, D, k)
    BY <1>9
  <2>4. Selects(c[k + 1], list, used, D, k + 1)
    BY <1>l, <2>1, <2>2, <2>3, SelectsNext
  <2> QED BY <2>1, <2>4
<1>10. l \in M
  <2> HIDE DEF M
  <2>1. 0..l \subseteq M
    BY <1>8, <1>9, UpTo
  <2> QED BY <2>1
<1> QED BY <1>6, <1>10 DEF D

\* So they are the indices in use, each once, with air's first.
KeptAs(s, p, usage) ==
    /\ s \in Seq(DOMAIN p.entries) /\ Distinct(s) /\ 1 \in DOMAIN s /\ s[1] = AirIndex
    /\ \A n \in DOMAIN p.entries : InUse(p, usage, n) <=> \E k \in DOMAIN s : s[k] = n
\* compact keeps what is in use.
LEMMA KeptIs ==
    ASSUME NEW p, IsPalette(p), NEW usage, NEW s, s = KeptIndices(p, usage)
    PROVE  KeptAs(s, p, usage)
<1>0. PICK l : l = Len(p.entries)
  OBVIOUS
<1>1. l \in Nat /\ DOMAIN p.entries = 1..l /\ l >= 1 /\ 1 \in 1..l
  <2>1. p.entries \in Seq(Kinds) /\ AirIndex \in DOMAIN p.entries
    BY DEF IsPalette
  <2> QED BY <1>0, <2>1 DEF AirIndex
<1>2. PICK list, used : list = [n \in 1..l |-> n] /\ used = {n \in 1..l : InUse(p, usage, n)}
  OBVIOUS
<1>3. Selects(s, list, used, 1..l, l)
  BY <1>0, <1>1, <1>2, KeptSelects
<1>4. /\ s \in Seq(1..l) /\ DOMAIN s = 1..Len(s) /\ Len(s) \in Nat
      /\ \A n \in 1..l : list[n] = n /\ (n \in used <=> InUse(p, usage, n))
  BY <1>2, <1>3 DEF Selects
<1>5. \A k \in DOMAIN s : s[k] \in used /\ s[k] \in 1..l
  BY <1>3, <1>4 DEF Selects
<1>6. \A n \in 1..l : n \in used => \E k \in DOMAIN s : s[k] = n
  <2>1. \A i \in 1..l : list[i] \in used => \E q \in 1..Len(s) : s[q] = list[i]
    BY <1>3 DEF Selects
  <2> QED BY <1>4, <2>1
<1>7. \A k, m \in DOMAIN s : k < m => s[k] < s[m]
  <2> SUFFICES ASSUME NEW k \in DOMAIN s, NEW m \in DOMAIN s, k < m PROVE s[k] < s[m]
    OBVIOUS
  <2>1. \A q, w \in 1..Len(s) : q < w => \E i, j \in 1..l : i < j /\ s[q] = list[i] /\ s[w] = list[j]
    BY <1>3 DEF Selects
  <2>2. PICK i, j \in 1..l : i < j /\ s[k] = list[i] /\ s[m] = list[j]
    BY <1>4, <2>1
  <2> QED BY <1>4, <2>2
<1>8. Distinct(s)
  <2> SUFFICES ASSUME NEW k \in 1..Len(s), NEW m \in 1..Len(s), s[k] = s[m] PROVE k = m
    BY DEF Distinct
  <2>1. k < m \/ m < k \/ k = m
    BY <1>4
  <2>2. s[k] \in Int
    BY <1>4, <1>5
  <2> QED BY <1>4, <1>7, <2>1, <2>2
<1>9. 1 \in DOMAIN s /\ s[1] = AirIndex
  <2>1. InUse(p, usage, 1)
    BY DEF InUse, AirIndex
  <2>2. PICK k \in DOMAIN s : s[k] = 1
    BY <1>1, <1>4, <1>6, <2>1
  <2>3. 1 \in DOMAIN s /\ k >= 1 /\ k \in Nat
    BY <1>4
  <2>4. ~(1 < k)
    <3>1. s[1] >= 1 /\ s[1] \in Int
      BY <1>5, <2>3
    <3> QED BY <1>7, <2>2, <2>3, <3>1
  <2> QED BY <2>2, <2>3, <2>4 DEF AirIndex
<1>10. \A n \in DOMAIN p.entries : InUse(p, usage, n) <=> \E k \in DOMAIN s : s[k] = n
  BY <1>1, <1>4, <1>5, <1>6
<1> QED BY <1>1, <1>4, <1>8, <1>9, <1>10 DEF KeptAs

\* compactPalette leaves every block where it is, and frees no slot and keeps no idle type.
LEMMA CompactKeeps ==
    ASSUME NEW s, SubChunkInv(s)
    PROVE  LET new == CompactPalette(s)
           IN  /\ SubChunkInv(new) /\ NoTypeIsIdle(new) /\ ~NeedsCompaction(new.palette)
               /\ \A c \in Cells : GetBlock(new, c) = GetBlock(s, c)
<1>0. PICK p, kept, to, r, h, new :
         /\ p = s.palette /\ kept = KeptIndices(p, s.usage) /\ to = CompactMapping(p, s.usage) /\ r = Compacted(p, s.usage)
         /\ h = [c \in Cells |-> IF to[s.cells[c]] # Invalid THEN to[s.cells[c]] ELSE AirIndex] /\ new = CompactPalette(s)
  OBVIOUS
<1>1. IsPalette(p) /\ KeptAs(kept, p, s.usage) /\ s.usage \in Seq(Nat)
  BY <1>0, KeptIs DEF SubChunkInv
<1>2. /\ kept \in Seq(DOMAIN p.entries) /\ DOMAIN kept = 1..Len(kept) /\ Len(kept) \in Nat
      /\ (\A i, j \in DOMAIN kept : kept[i] = kept[j] => i = j)
      /\ p.entries \in Seq(Kinds) /\ DOMAIN p.entries = 1..Len(p.entries) /\ Len(p.entries) \in Nat
      /\ (\A n \in DOMAIN kept : kept[n] \in DOMAIN p.entries /\ InUse(p, s.usage, kept[n]))
      /\ 1 \in DOMAIN kept /\ kept[1] = AirIndex /\ AirIndex = 1 /\ p.entries[1] = Air
  <2>1. kept \in Seq(DOMAIN p.entries) /\ Distinct(kept) /\ 1 \in DOMAIN kept /\ kept[1] = AirIndex
        /\ \A n \in DOMAIN p.entries : InUse(p, s.usage, n) <=> \E k \in DOMAIN kept : kept[k] = n
    BY <1>1 DEF KeptAs
  <2>2. DOMAIN kept = 1..Len(kept) /\ Len(kept) \in Nat /\ \A n \in DOMAIN kept : kept[n] \in DOMAIN p.entries
    BY <2>1
  <2>3. \A n \in DOMAIN kept : InUse(p, s.usage, kept[n])
    BY <2>1, <2>2
  <2>4. \A i, j \in DOMAIN kept : kept[i] = kept[j] => i = j
    BY <2>1, <2>2 DEF Distinct
  <2>5. p.entries \in Seq(Kinds) /\ p.entries[1] = Air /\ DOMAIN p.entries = 1..Len(p.entries) /\ Len(p.entries) \in Nat
    BY <1>1 DEF IsPalette, AirIndex
  <2> QED BY <2>1, <2>2, <2>3, <2>4, <2>5 DEF AirIndex
\* The new entries, each of another type.
<1>3. PICK e : e = [n \in DOMAIN kept |-> p.entries[kept[n]]]
  OBVIOUS
<1>4. e \in Seq(Kinds) /\ Len(e) = Len(kept) /\ DOMAIN e = DOMAIN kept /\ e[1] = Air /\ \A n \in DOMAIN kept : e[n] = p.entries[kept[n]] /\ e[n] \in Kinds
  <2>1. \A n \in DOMAIN kept : p.entries[kept[n]] \in Kinds
    BY <1>2
  <2> QED BY <1>2, <1>3, <2>1
<1>5. \A i, j \in DOMAIN e : e[i] = e[j] => i = j
  <2> SUFFICES ASSUME NEW i \in DOMAIN kept, NEW j \in DOMAIN kept, p.entries[kept[i]] = p.entries[kept[j]] PROVE i = j
    BY <1>4
  <2>1. \A n \in DOMAIN p.entries : p.entries[n] # Air => n = p.index[p.entries[n]]
    <3> SUFFICES ASSUME NEW n \in DOMAIN p.entries, p.entries[n] # Air PROVE n = p.index[p.entries[n]]
      OBVIOUS
    <3>1. ~\E k \in DOMAIN p.free : p.free[k] = n
      BY <1>1 DEF IsPalette
    <3>2. PICK u \in DOMAIN p.index : p.index[u] = n
      BY <1>1, <3>1 DEF IsPalette
    <3>3. p.entries[p.index[u]] = u
      BY <1>1 DEF IsPalette
    <3> QED BY <3>2, <3>3
  <2>2. CASE p.entries[kept[i]] # Air
    <3>1. kept[i] = kept[j]
      BY <1>2, <2>1, <2>2
    <3> QED BY <1>2, <3>1
  <2>3. CASE p.entries[kept[i]] = Air
    <3>1. kept[i] = AirIndex /\ kept[j] = AirIndex
      BY <1>2, <2>3 DEF InUse
    <3> QED BY <1>2, <3>1
  <2> QED BY <2>2, <2>3
<1>6. PICK x : x = [t \in Range(e) |-> PlaceIn(e, t)]
  OBVIOUS
<1>7. \A n \in DOMAIN e : PlaceIn(e, e[n]) = n
  <2> SUFFICES ASSUME NEW n \in DOMAIN e PROVE PlaceIn(e, e[n]) = n
    OBVIOUS
  <2>1. (CHOOSE m \in DOMAIN e : e[m] = e[n]) \in DOMAIN e /\ e[CHOOSE m \in DOMAIN e : e[m] = e[n]] = e[n]
    OBVIOUS
  <2> QED BY <1>5, <2>1 DEF PlaceIn
<1>8. DOMAIN x = Range(e) /\ (\A n \in DOMAIN e : e[n] \in DOMAIN x /\ x[e[n]] = n)
      /\ (\A t \in DOMAIN x : x[t] \in DOMAIN e /\ e[x[t]] = t) /\ x \in [DOMAIN x -> DOMAIN e] /\ DOMAIN x \subseteq Kinds
  <2>1. DOMAIN x = Range(e) /\ (\A n \in DOMAIN e : e[n] \in DOMAIN x /\ x[e[n]] = n)
    BY <1>6, <1>7 DEF Range
  <2>2. \A t \in DOMAIN x : \E n \in DOMAIN e : t = e[n]
    BY <2>1 DEF Range
  <2>3. \A t \in DOMAIN x : x[t] \in DOMAIN e /\ e[x[t]] = t
    BY <2>1, <2>2
  <2>4. x = [t \in DOMAIN x |-> x[t]]
    BY <1>6
  <2>5. DOMAIN x \subseteq Kinds
    BY <1>4, <2>2
  <2> QED BY <2>1, <2>3, <2>4, <2>5
<1>9. r.entries = e /\ r.index = x /\ r.free = <<>> /\ r.max = Len(e) /\ DOMAIN r = {"entries", "index", "free", "max"}
  BY <1>0, <1>3, <1>6 DEF Compacted
<1>10. IsPalette(r)
  <2>1. r.entries \in Seq(Kinds) /\ r.free \in Seq(Nat) /\ DOMAIN r.free = {} /\ r.max = Len(r.entries)
    BY <1>4, <1>9
  <2>2. Air \in DOMAIN r.index /\ r.index[Air] = AirIndex
    BY <1>2, <1>4, <1>8, <1>9
  <2>3. r.index \in [DOMAIN r.index -> DOMAIN r.entries] /\ DOMAIN r.index \subseteq Kinds /\ \A t \in DOMAIN r.index : r.entries[r.index[t]] = t
    BY <1>8, <1>9
  <2>4. \A i \in DOMAIN r.entries : (\E j \in DOMAIN r.free : r.free[j] = i) <=> (\A t \in DOMAIN r.index : r.index[t] # i)
    BY <1>8, <1>9, <2>1
  <2> QED BY <1>9, <2>1, <2>2, <2>3, <2>4 DEF IsPalette
\* Every cell finds its type in the new palette.
<1>11. \A c \in Cells : h[c] \in DOMAIN kept /\ kept[h[c]] = s.cells[c]
  <2> SUFFICES ASSUME NEW c \in Cells PROVE h[c] \in DOMAIN kept /\ kept[h[c]] = s.cells[c]
    OBVIOUS
  <2>0. PICK o, b : o = s.cells[c] /\ b = GetBlock(s, c)
    OBVIOUS
  <2>1. b \in DOMAIN p.index /\ p.index[b] = o /\ o \in DOMAIN p.entries /\ p.entries[o] = b /\ o \in Nat
    BY <1>0, <2>0, CellIndex
  <2>2. InUse(p, s.usage, o)
    <3>1. CASE b = Air
      BY <1>1, <2>1, <3>1 DEF InUse, IsPalette
    <3>2. CASE b # Air
      <4>1. {k \in Cells : s.cells[k] = o} # {} /\ IsFiniteSet({k \in Cells : s.cells[k] = o})
        BY <2>0, CellsFinite, FS_Subset
      <4>2. HowMany(s.cells, o) \in Nat /\ HowMany(s.cells, o) # 0
        BY <4>1, FS_EmptySet, FS_CardinalityType DEF HowMany
      <4>3. o \in DOMAIN s.usage /\ s.usage[o] = HowMany(s.cells, o) /\ DOMAIN s.usage = 1..Len(s.usage) /\ Len(s.usage) \in Nat
        BY <1>1, <2>1, <4>2, CountsAre
      <4>4. o <= Len(s.usage) /\ s.usage[o] > 0
        BY <2>1, <4>2, <4>3
      <4> QED BY <2>1, <3>2, <4>4 DEF InUse
    <3> QED BY <3>1, <3>2
  <2>3. \E k \in DOMAIN kept : kept[k] = o
    BY <1>1, <2>1, <2>2 DEF KeptAs
  <2>4. to[o] = PlaceIn(kept, o)
    BY <1>0, <2>1, <2>3 DEF CompactMapping, Range
  <2>5. to[o] \in DOMAIN kept /\ kept[to[o]] = o
    BY <2>3, <2>4 DEF PlaceIn
  <2>6. to[o] # Invalid
    BY <1>2, <2>5 DEF Invalid
  <2> QED BY <1>0, <2>0, <2>5, <2>6
<1>12. \A c \in Cells : GetBlock(s, c) \in DOMAIN x /\ x[GetBlock(s, c)] = h[c] /\ h[c] \in DOMAIN e /\ e[h[c]] = GetBlock(s, c)
  <2> SUFFICES ASSUME NEW c \in Cells PROVE GetBlock(s, c) \in DOMAIN x /\ x[GetBlock(s, c)] = h[c] /\ h[c] \in DOMAIN e /\ e[h[c]] = GetBlock(s, c)
    OBVIOUS
  <2>1. p.entries[s.cells[c]] = GetBlock(s, c)
    BY <1>0, CellIndex
  <2> QED BY <1>4, <1>8, <1>11, <2>1
<1>13. /\ DOMAIN new = DOMAIN s /\ new = [f \in DOMAIN new |-> new[f]] /\ new.palette = r /\ new.cells = h
       /\ new.usage = [i \in DOMAIN e |-> HowMany(h, i)] /\ new.nonAir = s.nonAir
  <2>0. {"palette", "cells", "usage", "nonAir", "rotation", "blockVersion"} \subseteq DOMAIN s /\ s = [f \in DOMAIN s |-> s[f]]
    BY DEF SubChunkInv
  <2>1. PICK u : u = [i \in DOMAIN r.entries |-> Cardinality({c \in Cells : h[c] = i})]
    OBVIOUS
  <2>2. new = [s EXCEPT !.cells = h, !.palette = r, !.usage = u]
    BY <1>0, <2>1 DEF CompactPalette
  <2>3. u = [i \in DOMAIN e |-> HowMany(h, i)]
    BY <1>9, <2>1 DEF HowMany
  <2> QED BY <2>0, <2>2, <2>3
<1>14. \A c \in Cells : GetBlock(new, c) = GetBlock(s, c)
  BY <1>9, <1>12, <1>13 DEF GetBlock, GlobalId
<1>15. \A i \in DOMAIN e : HowMany(h, i) \in Nat
  <2> SUFFICES ASSUME NEW i \in DOMAIN e PROVE HowMany(h, i) \in Nat
    OBVIOUS
  <2>1. IsFiniteSet({c \in Cells : h[c] = i})
    BY CellsFinite, FS_Subset
  <2> QED BY <2>1, FS_CardinalityType DEF HowMany
<1>16. SubChunkInv(new)
  <2>0. {"palette", "cells", "usage", "nonAir", "rotation", "blockVersion"} \subseteq DOMAIN s
    BY DEF SubChunkInv
  <2>1. new.cells \in [Cells -> Range(new.palette.index)]
    <3>1. h = [c \in Cells |-> h[c]]
      BY <1>0
    <3>2. \A c \in Cells : h[c] \in Range(x)
      BY <1>12 DEF Range
    <3> QED BY <1>9, <1>13, <3>1, <3>2
  <2>2. new.usage \in Seq(Nat) /\ Len(new.usage) = Len(e) /\ DOMAIN new.usage = DOMAIN e
    <3>1. DOMAIN e = 1..Len(e) /\ Len(e) \in Nat
      BY <1>2, <1>4
    <3> QED BY <1>13, <1>15, <3>1
  <2>3. \A i \in DOMAIN new.palette.entries : (IF i \in DOMAIN new.usage THEN new.usage[i] ELSE 0) = HowMany(new.cells, i)
    BY <1>9, <1>13, <2>2
  <2>4. new.nonAir = Cardinality({c \in Cells : GetBlock(new, c) # Air})
    <3>1. {c \in Cells : GetBlock(new, c) # Air} = {c \in Cells : GetBlock(s, c) # Air}
      BY <1>14
    <3> QED BY <1>13, <3>1 DEF SubChunkInv
  <2>5. Len(new.usage) <= Len(new.palette.entries)
    <3>1. Len(e) \in Nat
      BY <1>2, <1>4
    <3> QED BY <1>9, <1>13, <2>2, <3>1
  <2> QED BY <1>10, <1>13, <2>0, <2>1, <2>2, <2>3, <2>4, <2>5 DEF SubChunkInv
<1>17. NoTypeIsIdle(new)
  <2> SUFFICES ASSUME NEW t \in DOMAIN x \ {Air} PROVE \E c \in Cells : GetBlock(new, c) = t
    BY <1>9, <1>13 DEF NoTypeIsIdle
  <2>1. PICK n \in DOMAIN kept : t = e[n] /\ t = p.entries[kept[n]]
    BY <1>4, <1>8
  <2>2. kept[n] \in DOMAIN p.entries /\ InUse(p, s.usage, kept[n]) /\ kept[n] \in Nat
    BY <1>2
  <2>3. kept[n] <= Len(s.usage) /\ s.usage[kept[n]] > 0
    BY <1>2, <2>1, <2>2 DEF InUse
  <2>4. kept[n] \in DOMAIN s.usage
    BY <1>1, <1>2, <2>2, <2>3
  <2>5. HowMany(s.cells, kept[n]) # 0
    <3>1. HowMany(s.cells, kept[n]) = s.usage[kept[n]] /\ s.usage[kept[n]] \in Nat
      BY <1>1, <2>2, <2>4, CountsAre
    <3> QED BY <2>3, <3>1
  <2>6. Cardinality({}) = 0
    BY FS_EmptySet
  <2>7. {c \in Cells : s.cells[c] = kept[n]} # {}
    <3> SUFFICES ASSUME {c \in Cells : s.cells[c] = kept[n]} = {} PROVE FALSE
      OBVIOUS
    <3> QED BY <2>5, <2>6 DEF HowMany
  <2>8. PICK c \in Cells : s.cells[c] = kept[n]
    BY <2>7
  <2>9. GetBlock(s, c) = p.entries[s.cells[c]]
    BY <1>0, CellIndex
  <2> QED BY <1>14, <2>1, <2>8, <2>9
<1> QED BY <1>0, <1>9, <1>13, <1>14, <1>16, <1>17 DEF NeedsCompaction
-----------------------------------------------------------------------------

\* A subchunk whose palette, counts and cells agree is what the runs require.
LEMMA InvAgrees ==
    ASSUME NEW s, SubChunkInv(s), NoTypeIsIdle(s)
    PROVE  PaletteAgrees(s)
<1> DEFINE p == s.palette
<1>1. IsPalette(p) /\ s.cells \in [Cells -> Range(p.index)]
  BY DEF SubChunkInv
<1>2. (\A t \in DOMAIN p.index : p.entries[p.index[t]] = t) /\ (\A i, j \in DOMAIN p.free : p.free[i] = p.free[j] => i = j)
  BY <1>1 DEF IsPalette
<1>3. Range(p.free) = DOMAIN p.entries \ Range(p.index)
  <2>1. \A j \in DOMAIN p.free : p.free[j] \in DOMAIN p.entries
    BY <1>1 DEF IsPalette
  <2>2. \A i \in DOMAIN p.entries : (\E j \in DOMAIN p.free : p.free[j] = i) <=> (\A t \in DOMAIN p.index : p.index[t] # i)
    BY <1>1 DEF IsPalette
  <2> QED BY <2>1, <2>2 DEF Range
<1>4. \A i \in Range(p.free) : p.entries[i] = Air
  BY <1>1 DEF IsPalette, Range
<1>5. Range(s.cells) \subseteq Range(p.index)
  <2>1. \A c \in Cells : s.cells[c] \in Range(p.index)
    BY <1>1
  <2>2. DOMAIN s.cells = Cells
    BY <1>1
  <2>3. \A i \in Range(s.cells) : \E c \in Cells : i = s.cells[c]
    BY <2>2 DEF Range
  <2> QED BY <2>1, <2>3
<1>6. \A i \in DOMAIN p.entries : (IF i \in DOMAIN s.usage THEN s.usage[i] ELSE 0) = Cardinality({c \in Cells : s.cells[c] = i})
  BY DEF SubChunkInv, HowMany
<1>7. s.nonAir = Cardinality({c \in Cells : GetBlock(s, c) # Air})
  BY DEF SubChunkInv
<1>8. \A c \in Cells : s.cells[c] <= p.max
  <2> SUFFICES ASSUME NEW c \in Cells PROVE s.cells[c] <= p.max
    OBVIOUS
  <2>1. s.cells[c] \in DOMAIN p.entries
    BY CellIndex
  <2>2. DOMAIN p.entries = 1..Len(p.entries) /\ Len(p.entries) \in Nat /\ p.max = Len(p.entries)
    BY <1>1 DEF IsPalette
  <2> QED BY <2>1, <2>2
<1>9. \A t \in DOMAIN p.index \ {Air} : \E c \in Cells : GetBlock(s, c) = t
  BY DEF NoTypeIsIdle
<1> QED BY <1>2, <1>3, <1>4, <1>5, <1>6, <1>7, <1>8, <1>9 DEF PaletteAgrees

\* A subchunk that shows the blocks of g, in a palette that is exact.
Shows(s, g) == SubChunkInv(s) /\ NoTypeIsIdle(s) /\ g \in [Cells -> Kinds] /\ \A c \in Cells : GetBlock(s, c) = g[c]

\* What touches the rotations, the light, the extra data or the ticks alone.
Decorates(s, new) ==
    \/ \E c, r : new = SetRotationIndex(s, c, r)
    \/ new = ClearRotations(s) \/ \E rotation : new = SetRotationData(s, rotation)
    \/ \E c, sky, block : new \in {SetLight(s, c, sky, block), SetSkyLight(s, c, sky), SetBlockLight(s, c, block)}
    \/ \E l : new \in {FillSkyLight(s, l), FillBlockLight(s, l), SetLightData(s, l), ClearLight(s)}
    \/ \E c, container : new \in {SetBlockData(s, c, container), RemoveBlockData(s, c)}
    \/ \E types : new = RebuildGameTickRegistry(s, types)

\* One call on a subchunk, and the blocks each cell was last given.
Edits(s, g, new, h) ==
    \/ \E c \in Cells, t \in Kinds : new = SetBlock(s, c, t) /\ h = [g EXCEPT ![c] = t]
    \/ new = Clear(s) /\ h = [c \in Cells |-> Air]
    \/ \E t \in Kinds : new = Fill(s, t) /\ h = [c \in Cells |-> t]
    \/ new = CompactPalette(s) /\ h = g
    \/ Decorates(s, new) /\ h = g

\* The blocks are told by four of the fields.
SameBlocks(s, new) ==
    /\ DOMAIN new = DOMAIN s /\ new = [f \in DOMAIN new |-> new[f]]
    /\ new.palette = s.palette /\ new.cells = s.cells /\ new.usage = s.usage /\ new.nonAir = s.nonAir
\* With these four the same, the subchunk shows the same blocks.
LEMMA SameBlocksShow ==
    ASSUME NEW s, NEW g, Shows(s, g), NEW new, SameBlocks(s, new)
    PROVE  Shows(new, g)
<1>1. \A c : GetBlock(new, c) = GetBlock(s, c)
  BY DEF GetBlock, SameBlocks
<1>2. {c \in Cells : GetBlock(new, c) # Air} = {c \in Cells : GetBlock(s, c) # Air}
  BY <1>1
<1>3. SubChunkInv(new)
  BY <1>2 DEF SubChunkInv, SameBlocks, Shows
<1>4. NoTypeIsIdle(new)
  BY <1>1 DEF NoTypeIsIdle, SameBlocks, Shows
<1> QED BY <1>1, <1>3, <1>4 DEF Shows

\* Rotations, light, extra data and ticks leave those four alone.
LEMMA DecoratesSame ==
    ASSUME NEW s, NEW g, Shows(s, g), NEW new, Decorates(s, new)
    PROVE  SameBlocks(s, new)
<1>0. s = [f \in DOMAIN s |-> s[f]] /\ {"palette", "cells", "usage", "nonAir"} \subseteq DOMAIN s /\ SameBlocks(s, s)
  BY DEF Shows, SubChunkInv, SameBlocks
<1>1. \A n, x, v : n = [s EXCEPT !.rotation = x, !.blockVersion = v] => SameBlocks(s, n)
  <2> SUFFICES ASSUME NEW n, NEW x, NEW v, n = [s EXCEPT !.rotation = x, !.blockVersion = v] PROVE SameBlocks(s, n)
    OBVIOUS
  <2>1. DOMAIN n = DOMAIN s /\ n = [f \in DOMAIN n |-> n[f]]
    BY <1>0
  <2>2. n.palette = s.palette /\ n.cells = s.cells /\ n.usage = s.usage /\ n.nonAir = s.nonAir
    BY <1>0
  <2> QED BY <2>1, <2>2 DEF SameBlocks
<1>2. \A n, x, v : n = [s EXCEPT !.light = x, !.lightVersion = v] => SameBlocks(s, n)
  <2> SUFFICES ASSUME NEW n, NEW x, NEW v, n = [s EXCEPT !.light = x, !.lightVersion = v] PROVE SameBlocks(s, n)
    OBVIOUS
  <2>1. DOMAIN n = DOMAIN s /\ n = [f \in DOMAIN n |-> n[f]]
    BY <1>0
  <2>2. n.palette = s.palette /\ n.cells = s.cells /\ n.usage = s.usage /\ n.nonAir = s.nonAir
    BY <1>0
  <2> QED BY <2>1, <2>2 DEF SameBlocks
<1>3. \A n, x : n = [s EXCEPT !.blockData = x] \/ n = [s EXCEPT !.ticking = x] => SameBlocks(s, n)
  BY <1>0 DEF SameBlocks
<1>4. \A n, x : n = RelitAs(s, x) => SameBlocks(s, n)
  <2> SUFFICES ASSUME NEW n, NEW x, n = RelitAs(s, x) PROVE SameBlocks(s, n)
    OBVIOUS
  <2>1. PICK v : v = s.lightVersion + 1
    OBVIOUS
  <2>2. n = s \/ n = [s EXCEPT !.light = x, !.lightVersion = v]
    BY <2>1 DEF RelitAs
  <2> QED BY <1>0, <1>2, <2>2
<1>5. CASE \E c, r : new = SetRotationIndex(s, c, r)
  <2>1. PICK c, r : new = SetRotationIndex(s, c, r)
    BY <1>5
  <2>2. PICK x : x = [s.rotation EXCEPT ![c] = IF r >= Rotations THEN 0 ELSE r]
    OBVIOUS
  <2>v. PICK v : v = s.blockVersion + 1
    OBVIOUS
  <2>3. new = s \/ new = [s EXCEPT !.rotation = x, !.blockVersion = v]
    BY <2>1, <2>2, <2>v DEF SetRotationIndex
  <2> QED BY <1>0, <1>1, <2>3
<1>6. CASE new = ClearRotations(s) \/ \E rotation : new = SetRotationData(s, rotation)
  <2>v. PICK v : v = s.blockVersion + 1
    OBVIOUS
  <2>1. new = s \/ \E x : new = [s EXCEPT !.rotation = x, !.blockVersion = v]
    BY <1>6, <2>v DEF ClearRotations, SetRotationData
  <2> QED BY <1>0, <1>1, <2>1
<1>7. CASE \E c, sky, block : new \in {SetLight(s, c, sky, block), SetSkyLight(s, c, sky), SetBlockLight(s, c, block)}
  <2>1. new = s \/ \E x : new = RelitAs(s, x)
    BY <1>7 DEF SetLight, SetSkyLight, SetBlockLight
  <2> QED BY <1>0, <1>4, <2>1
<1>8. CASE \E l : new \in {FillSkyLight(s, l), FillBlockLight(s, l), SetLightData(s, l), ClearLight(s)}
  <2>v. PICK v : v = s.lightVersion + 1
    OBVIOUS
  <2>1. (\E x : new = RelitAs(s, x)) \/ \E x : new = [s EXCEPT !.light = x, !.lightVersion = v]
    BY <1>8, <2>v DEF FillSkyLight, FillBlockLight, SetLightData, ClearLight
  <2> QED BY <1>2, <1>4, <2>1
<1>9. CASE \E c, container : new \in {SetBlockData(s, c, container), RemoveBlockData(s, c)}
  <2>1. \E x : new = [s EXCEPT !.blockData = x]
    BY <1>9 DEF SetBlockData, RemoveBlockData
  <2> QED BY <1>3, <2>1
<1>10. CASE \E types : new = RebuildGameTickRegistry(s, types)
  <2>1. \E x : new = [s EXCEPT !.ticking = x]
    BY <1>10 DEF RebuildGameTickRegistry
  <2> QED BY <1>3, <2>1
<1> QED BY <1>5, <1>6, <1>7, <1>8, <1>9, <1>10 DEF Decorates

\* One call: the new subchunk shows what each cell was last given.
LEMMA EditShows ==
    ASSUME NEW s, NEW g, Shows(s, g), NEW new, NEW h, Edits(s, g, new, h)
    PROVE  Shows(new, h)
<1>0. SubChunkInv(s) /\ NoTypeIsIdle(s) /\ g \in [Cells -> Kinds] /\ (\A c \in Cells : GetBlock(s, c) = g[c]) /\ Air \in Kinds
  BY DEF Shows, Kinds
<1>1. CASE \E c \in Cells, t \in Kinds : new = SetBlock(s, c, t) /\ h = [g EXCEPT ![c] = t]
  <2>1. PICK c \in Cells, t \in Kinds : new = SetBlock(s, c, t) /\ h = [g EXCEPT ![c] = t]
    BY <1>1
  <2>2. Written(s, c, t, new)
    BY <1>0, <2>1, SetBlockWrites
  <2>3. SubChunkInv(new) /\ NoTypeIsIdle(new) /\ \A k \in Cells : GetBlock(new, k) = IF k = c THEN t ELSE GetBlock(s, k)
    BY <1>0, <2>2 DEF Written
  <2>4. h \in [Cells -> Kinds] /\ \A k \in Cells : h[k] = IF k = c THEN t ELSE g[k]
    BY <1>0, <2>1
  <2> QED BY <1>0, <2>3, <2>4 DEF Shows
<1>2. CASE new = Clear(s) /\ h = [c \in Cells |-> Air]
  <2>1. AllAre(new, Air)
    BY <1>0, <1>2, AllOfAType
  <2> QED BY <1>0, <1>2, <2>1 DEF Shows, AllAre
<1>3. CASE \E t \in Kinds : new = Fill(s, t) /\ h = [c \in Cells |-> t]
  <2>1. PICK t \in Kinds : new = Fill(s, t) /\ h = [c \in Cells |-> t]
    BY <1>3
  <2>2. AllAre(new, t)
    BY <1>0, <2>1, AllOfAType
  <2> QED BY <2>1, <2>2 DEF Shows, AllAre
<1>4. CASE new = CompactPalette(s) /\ h = g
  <2>1. SubChunkInv(new) /\ NoTypeIsIdle(new) /\ \A c \in Cells : GetBlock(new, c) = GetBlock(s, c)
    BY <1>0, <1>4, CompactKeeps
  <2> QED BY <1>0, <1>4, <2>1 DEF Shows
<1>5. CASE Decorates(s, new) /\ h = g
  BY <1>5, DecoratesSame, SameBlocksShow
<1> QED BY <1>1, <1>2, <1>3, <1>4, <1>5 DEF Edits

\* For every history of calls on a subchunk that starts empty (s its states, g
\* what each cell was last given): every cell shows what it was last given, and
\* palette, free list and counts agree with the cells, however many types are
\* added, freed, reused and compacted away.
THEOREM SubChunkHistories ==
    ASSUME NEW s, NEW g, s[0] = NewSubChunk, g[0] = [c \in Cells |-> Air],
           \A n \in Nat : Edits(s[n], g[n], s[n + 1], g[n + 1])
    PROVE  \A n \in Nat : PaletteAgrees(s[n]) /\ \A c \in Cells : GetBlock(s[n], c) = g[n][c]
<1> DEFINE T == {n \in Nat : Shows(s[n], g[n])}
<1>1. 0 \in T
  <2>1. AllAre(NewSubChunk, Air) /\ Air \in Kinds
    BY AllOfAType DEF Kinds
  <2> QED BY <2>1 DEF AllAre, Shows
<1>2. \A n \in Nat : n \in T => n + 1 \in T
  BY EditShows
<1>3. \A n \in Nat : n \in T
  <2> SUFFICES ASSUME NEW n \in Nat PROVE n \in T
    OBVIOUS
  <2> HIDE DEF T
  <2>1. \A k \in 0..(n - 1) : k \in T => k + 1 \in T
    BY <1>2
  <2>2. 0..n \subseteq T
    BY <1>1, <2>1, UpTo
  <2> QED BY <2>2
<1> QED BY <1>3, InvAgrees DEF Shows

\* compactPalette() leaves no slot free and every block where it is.
THEOREM CompactionKeepsBlocks ==
    ASSUME NEW s, SubChunkInv(s)
    PROVE  /\ PaletteAgrees(CompactPalette(s)) /\ ~NeedsCompaction(CompactPalette(s).palette)
           /\ \A c \in Cells : GetBlock(CompactPalette(s), c) = GetBlock(s, c)
BY CompactKeeps, InvAgrees
=============================================================================
