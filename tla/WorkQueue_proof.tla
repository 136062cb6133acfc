--------------------------- MODULE WorkQueue_proof ---------------------------
(***************************************************************************)
(* Theorems about WorkQueue, for any queues and keys and without a bound   *)
(* on the calls: every item that was accepted is delivered once and in     *)
(* order, is still there, or was cleared; and no alarm is given up early.  *)
(***************************************************************************)
EXTENDS WorkQueue, SequenceTheorems, TLAPS

Item == [key : ItemKeys \cup {"item"}, ids : SUBSET Nat]
WorkQueueType ==
    [items : Seq(Item), shutdown : BOOLEAN, alarm : BOOLEAN, time : Nat, attached : BOOLEAN]

TypeInv ==
    /\ queues \in [Queues -> WorkQueueType]
    /\ delivered \in [Queues -> Seq(Item)]
    /\ accepted \in Nat /\ controls \in Nat

\* A keyed queue holds a key once.
KeysOnce(items) == \A i, j \in 1..Len(items) : items[i].key = items[j].key => i = j
KeyedOnce(qs) == \A q \in KeyedQueues : KeysOnce(qs[q].items)

\* What a queue gave out, and what it will.
Flows(out, qs) == [q \in Queues |-> out[q] \o qs[q].items]

Least(S, m) == m \in S /\ \A x \in S : m <= x

\* The numbers in an item, in a flow and in all flows.
FlowMembers(s) == UNION {s[i].ids : i \in 1..Len(s)}
Members(F) == UNION {FlowMembers(F[q]) : q \in Queues}

\* In these flows, and among those cleared, is every item up to n, once, and
\* those of one queue in the order of the first that was merged into each.
Kept(F, cleared, n) ==
    /\ Members(F) \cup cleared = 1..n
    /\ \A q \in Queues : \A i \in 1..Len(F[q]) : \A x \in F[q][i].ids : x \notin cleared
    /\ \A p, q \in Queues : \A i \in 1..Len(F[p]), j \in 1..Len(F[q]) :
          (\E x \in F[p][i].ids : x \in F[q][j].ids) => p = q /\ i = j
    /\ \A q \in Queues : \A i \in 1..Len(F[q]) : \E m : Least(F[q][i].ids, m)
    /\ \A q \in Queues : \A i, j \in 1..Len(F[q]) :
          i < j => \A m, k : Least(F[q][i].ids, m) /\ Least(F[q][j].ids, k) => m < k

\* The inductive invariant.
IInv == TypeInv /\ KeyedOnce(queues) /\ Kept(Flows(delivered, queues), discarded, accepted)
----------------------------------------------------------------------------
(* Flows.                                                                  *)

\* What is in all flows is in an item of one.
LEMMA MembersOf ==
    \A F, x : x \in Members(F) <=> \E p \in Queues : \E i \in 1..Len(F[p]) : x \in F[p][i].ids
<1>1. ASSUME NEW F, NEW x PROVE x \in Members(F) <=> \E p \in Queues : x \in FlowMembers(F[p])
  BY DEF Members
<1>2. ASSUME NEW s, NEW x PROVE x \in FlowMembers(s) <=> \E i \in 1..Len(s) : x \in s[i].ids
  BY DEF FlowMembers
<1> QED BY <1>1, <1>2

\* t is s with one more item, appended or merged into what is there.
Grown(s, t, id) ==
    \/ /\ Len(t) = Len(s) + 1
       /\ \A i \in 1..Len(s) : t[i].ids = s[i].ids
       /\ t[Len(s) + 1].ids = {id}
    \/ /\ Len(t) = Len(s)
       /\ \E k \in 1..Len(s) :
             /\ t[k].ids = s[k].ids \cup {id}
             /\ \A i \in 1..Len(s) : i # k => t[i].ids = s[i].ids

\* The number of a new item is greater than all.
LEMMA GrowthKeeps ==
    ASSUME NEW F \in [Queues -> Seq(Item)], NEW G \in [Queues -> Seq(Item)],
           NEW cleared, NEW n \in Nat, Kept(F, cleared, n), NEW q \in Queues,
           Grown(F[q], G[q], n + 1), \A p \in Queues : p # q => G[p] = F[p]
    PROVE  Kept(G, cleared, n + 1)
<1>1. \A p \in Queues : Len(F[p]) \in Nat /\ Len(G[p]) \in Nat
  BY LenProperties
<1>2. \A p \in Queues : \A i \in 1..Len(F[p]) : \A x \in F[p][i].ids : x \in 1..n
  <2>1. Members(F) \cup cleared = 1..n
    BY DEF Kept
  <2> QED BY <2>1, MembersOf
<1>3. \A x \in 1..n : x # n + 1 /\ x < n + 1
  OBVIOUS
\* Where an entry of G comes from.
<1>4. \A p \in Queues : \A i \in 1..Len(G[p]) :
         \/ i \in 1..Len(F[p]) /\ G[p][i].ids = F[p][i].ids
         \/ /\ p = q /\ i = Len(F[q]) + 1 /\ G[q][i].ids = {n + 1} /\ Len(G[q]) = Len(F[q]) + 1
         \/ p = q /\ i \in 1..Len(F[q]) /\ G[q][i].ids = F[q][i].ids \cup {n + 1}
  <2> TAKE p \in Queues
  <2>1. CASE p # q
    BY <2>1
  <2>2. CASE p = q
    <3>1. CASE /\ Len(G[q]) = Len(F[q]) + 1
               /\ \A i \in 1..Len(F[q]) : G[q][i].ids = F[q][i].ids
               /\ G[q][Len(F[q]) + 1].ids = {n + 1}
      BY <1>1, <2>2, <3>1
    <3>2. CASE /\ Len(G[q]) = Len(F[q])
               /\ \E k \in 1..Len(F[q]) :
                     /\ G[q][k].ids = F[q][k].ids \cup {n + 1}
                     /\ \A i \in 1..Len(F[q]) : i # k => G[q][i].ids = F[q][i].ids
      BY <2>2, <3>2
    <3> QED BY <3>1, <3>2 DEF Grown
  <2> QED BY <2>1, <2>2
\* Only one entry is new or grew.
<1>5. \A p, r \in Queues : \A i \in 1..Len(G[p]), j \in 1..Len(G[r]) :
         n + 1 \in G[p][i].ids /\ n + 1 \in G[r][j].ids => p = r /\ i = j
  <2>1. \A p \in Queues : \A i \in 1..Len(F[p]) : n + 1 \notin F[p][i].ids
    BY <1>2, <1>3
  <2>2. \A p \in Queues : \A i \in 1..Len(G[p]) : n + 1 \in G[p][i].ids => p = q
    BY <2>1
  <2>3. \A i, j \in 1..Len(G[q]) : n + 1 \in G[q][i].ids /\ n + 1 \in G[q][j].ids => i = j
    <3>1. CASE /\ Len(G[q]) = Len(F[q]) + 1
               /\ \A i \in 1..Len(F[q]) : G[q][i].ids = F[q][i].ids
      <4>1. \A i \in 1..Len(G[q]) : i \in 1..Len(F[q]) \/ i = Len(F[q]) + 1
        BY <1>1, <3>1
      <4> QED BY <2>1, <3>1, <4>1
    <3>2. CASE /\ Len(G[q]) = Len(F[q])
               /\ \E k \in 1..Len(F[q]) : \A i \in 1..Len(F[q]) : i # k => G[q][i].ids = F[q][i].ids
      BY <2>1, <3>2
    <3> QED BY <3>1, <3>2 DEF Grown
  <2> QED BY <2>2, <2>3
\* All that was there still is.
<1>6. /\ \A p \in Queues : \A i \in 1..Len(F[p]) : i \in 1..Len(G[p]) /\ F[p][i].ids \subseteq G[p][i].ids
      /\ \E i \in 1..Len(G[q]) : n + 1 \in G[q][i].ids
  <2>1. CASE /\ Len(G[q]) = Len(F[q]) + 1
             /\ \A i \in 1..Len(F[q]) : G[q][i].ids = F[q][i].ids
             /\ G[q][Len(F[q]) + 1].ids = {n + 1}
    <3>1. Len(F[q]) + 1 \in 1..Len(G[q]) /\ \A i \in 1..Len(F[q]) : i \in 1..Len(G[q])
      BY <1>1, <2>1
    <3> QED BY <2>1, <3>1
  <2>2. CASE /\ Len(G[q]) = Len(F[q])
             /\ \E k \in 1..Len(F[q]) :
                   /\ G[q][k].ids = F[q][k].ids \cup {n + 1}
                   /\ \A i \in 1..Len(F[q]) : i # k => G[q][i].ids = F[q][i].ids
    BY <2>2
  <2> QED BY <2>1, <2>2 DEF Grown
<1>7. Members(G) \cup cleared = 1..(n + 1)
  <2>1. \A H, x : x \in Members(H) <=> \E p \in Queues : \E i \in 1..Len(H[p]) : x \in H[p][i].ids
    BY MembersOf
  <2>2. Members(F) \cup cleared = 1..n
    BY DEF Kept
  <2>3. 1..(n + 1) = 1..n \cup {n + 1}
    OBVIOUS
  <2>4. \A x \in Members(F) : x \in Members(G)
    BY <1>6, <2>1
  <2>5. n + 1 \in Members(G)
    BY <1>6, <2>1
  <2>6. \A x \in Members(G) : x \in Members(F) \/ x = n + 1
    BY <1>4, <2>1
  <2>7. Members(G) = Members(F) \cup {n + 1}
    BY ONLY <2>4, <2>5, <2>6
  <2>8. Members(G) \cup cleared = 1..(n + 1)
    BY ONLY <2>2, <2>3, <2>7
  <2> QED BY <2>8
<1>8. \A p \in Queues : \A i \in 1..Len(G[p]) : \A x \in G[p][i].ids : x \notin cleared
  <2>1. n + 1 \notin cleared
    BY <1>3 DEF Kept
  <2> QED BY <1>4, <2>1 DEF Kept
<1>9. ASSUME NEW p \in Queues, NEW r \in Queues, NEW i \in 1..Len(G[p]), NEW j \in 1..Len(G[r]),
             NEW x \in G[p][i].ids, x \in G[r][j].ids
      PROVE  p = r /\ i = j
  <2>1. CASE x = n + 1
    BY <1>5, <1>9, <2>1
  <2>2. CASE x # n + 1
    <3>1. i \in 1..Len(F[p]) /\ x \in F[p][i].ids
      BY <1>4, <2>2
    <3>2. j \in 1..Len(F[r]) /\ x \in F[r][j].ids
      BY <1>4, <1>9, <2>2
    <3>3. \A k \in 1..Len(F[p]), l \in 1..Len(F[r]) : (\E y \in F[p][k].ids : y \in F[r][l].ids) => p = r /\ k = l
      BY DEF Kept
    <3> QED BY ONLY <3>1, <3>2, <3>3
  <2> QED BY <2>1, <2>2
\* The least number of an entry that was there is what it was.
<1>10. \A p \in Queues : \A i \in 1..Len(G[p]) : \A m : Least(G[p][i].ids, m) =>
         \/ i \in 1..Len(F[p]) /\ Least(F[p][i].ids, m)
         \/ p = q /\ i = Len(F[q]) + 1 /\ i = Len(G[q]) /\ m = n + 1
  <2> SUFFICES ASSUME NEW p \in Queues, NEW i \in 1..Len(G[p]), NEW m, Least(G[p][i].ids, m)
               PROVE  \/ i \in 1..Len(F[p]) /\ Least(F[p][i].ids, m)
                      \/ p = q /\ i = Len(F[q]) + 1 /\ i = Len(G[q]) /\ m = n + 1
    OBVIOUS
  <2>1. CASE i \in 1..Len(F[p]) /\ G[p][i].ids = F[p][i].ids
    BY <2>1
  <2>2. CASE p = q /\ i = Len(F[q]) + 1 /\ G[q][i].ids = {n + 1} /\ Len(G[q]) = Len(F[q]) + 1
    BY <2>2 DEF Least
  <2>3. CASE p = q /\ i \in 1..Len(F[q]) /\ G[q][i].ids = F[q][i].ids \cup {n + 1}
    <3>1. PICK k : Least(F[q][i].ids, k)
      BY <2>3 DEF Kept
    <3>2. k \in 1..n /\ m \in F[q][i].ids \cup {n + 1} /\ m <= k
      BY <1>2, <2>3, <3>1 DEF Least
    <3>3. m # n + 1
      BY <3>2
    <3> QED BY <2>3, <3>2, <3>3 DEF Least
  <2> QED BY <1>4, <2>1, <2>2, <2>3
<1>11. \A p \in Queues : \A i \in 1..Len(G[p]) : \E m : Least(G[p][i].ids, m)
  <2> SUFFICES ASSUME NEW p \in Queues, NEW i \in 1..Len(G[p]) PROVE \E m : Least(G[p][i].ids, m)
    OBVIOUS
  <2>1. CASE i \in 1..Len(F[p]) /\ G[p][i].ids = F[p][i].ids
    BY <2>1 DEF Kept
  <2>2. CASE p = q /\ i = Len(F[q]) + 1 /\ G[q][i].ids = {n + 1}
    <3>1. n + 1 <= n + 1
      OBVIOUS
    <3> QED BY <2>2, <3>1 DEF Least
  <2>3. CASE p = q /\ i \in 1..Len(F[q]) /\ G[q][i].ids = F[q][i].ids \cup {n + 1}
    <3>1. PICK k : Least(F[q][i].ids, k)
      BY <2>3 DEF Kept
    <3>2. k \in 1..n
      BY <1>2, <2>3, <3>1 DEF Least
    <3>3. k <= n + 1
      BY <3>2
    <3> QED BY <2>3, <3>1, <3>3 DEF Least
  <2> QED BY <1>4, <2>1, <2>2, <2>3
<1>12. ASSUME NEW p \in Queues, NEW i \in 1..Len(G[p]), NEW j \in 1..Len(G[p]), i < j,
              NEW m, NEW k, Least(G[p][i].ids, m), Least(G[p][j].ids, k)
       PROVE  m < k
  <2> DEFINE last == Len(G[p])
  <2>1. last \in Nat /\ i \in 1..last /\ j \in 1..last /\ i < j
    BY <1>1, <1>12
  <2>2. i # last
    BY ONLY <2>1
  <2>3. i \in 1..Len(F[p]) /\ Least(F[p][i].ids, m)
    BY <1>10, <1>12, <2>2
  <2>4. CASE j \in 1..Len(F[p]) /\ Least(F[p][j].ids, k)
    BY <1>12, <2>3, <2>4 DEF Kept
  <2>5. CASE k = n + 1
    BY <1>2, <2>3, <2>5 DEF Least
  <2>6. (j \in 1..Len(F[p]) /\ Least(F[p][j].ids, k)) \/ k = n + 1
    BY <1>10, <1>12
  <2> QED BY <2>4, <2>5, <2>6
<1> QED BY <1>7, <1>8, <1>9, <1>11, <1>12 DEF Kept

\* What is cleared at the end of a flow is no longer in it.
LEMMA ClearingKeeps ==
    ASSUME NEW F \in [Queues -> Seq(Item)], NEW G \in [Queues -> Seq(Item)],
           NEW cleared, NEW n \in Nat, Kept(F, cleared, n), NEW q \in Queues,
           \A p \in Queues : p # q => G[p] = F[p],
           Len(G[q]) <= Len(F[q]), \A i \in 1..Len(G[q]) : G[q][i] = F[q][i],
           NEW gone, \A x : x \in gone <=> \E i \in 1..Len(F[q]) : i > Len(G[q]) /\ x \in F[q][i].ids
    PROVE  Kept(G, cleared \cup gone, n)
<1>1. \A p \in Queues : Len(F[p]) \in Nat /\ Len(G[p]) \in Nat
  BY LenProperties
<1>2. \A p \in Queues : \A i \in 1..Len(G[p]) : i \in 1..Len(F[p]) /\ G[p][i] = F[p][i]
  <2> TAKE p \in Queues
  <2>1. CASE p = q
    <3>1. \A i \in 1..Len(G[q]) : i \in 1..Len(F[q])
      BY <1>1
    <3> QED BY <2>1, <3>1
  <2> QED BY <2>1
<1>3. \A i \in 1..Len(F[q]) : i \in 1..Len(G[q]) \/ i > Len(G[q])
  BY <1>1
<1>4. Members(G) \cup (cleared \cup gone) = 1..n
  <2>1. \A H, x : x \in Members(H) <=> \E p \in Queues : \E i \in 1..Len(H[p]) : x \in H[p][i].ids
    BY MembersOf
  <2>2. Members(F) \cup cleared = 1..n
    BY DEF Kept
  <2>3. \A x : x \in Members(G) => x \in Members(F)
    <3> SUFFICES ASSUME NEW p \in Queues, NEW i \in 1..Len(G[p]), NEW x \in G[p][i].ids
                 PROVE  x \in Members(F)
      BY <2>1
    <3>1. i \in 1..Len(F[p]) /\ x \in F[p][i].ids
      BY <1>2
    <3> QED BY <2>1, <3>1
  <2>4. \A x : x \in gone => x \in Members(F)
    BY <2>1
  <2>5. \A x : x \in Members(F) => x \in Members(G) \/ x \in gone
    <3> SUFFICES ASSUME NEW p \in Queues, NEW i \in 1..Len(F[p]), NEW x \in F[p][i].ids
                 PROVE  x \in Members(G) \/ x \in gone
      BY <2>1
    <3>1. CASE p # q
      BY <2>1, <3>1
    <3>2. CASE p = q /\ i \in 1..Len(G[q])
      BY <2>1, <3>2
    <3>3. CASE p = q /\ i > Len(G[q])
      BY <3>3
    <3> QED BY <1>3, <3>1, <3>2, <3>3
  <2>6. Members(G) \cup (cleared \cup gone) = Members(F) \cup cleared
    BY ONLY <2>3, <2>4, <2>5
  <2>7. Members(G) \cup (cleared \cup gone) = 1..n
    BY ONLY <2>2, <2>6
  <2> QED BY <2>7
<1>5. ASSUME NEW p \in Queues, NEW i \in 1..Len(G[p]), NEW x \in G[p][i].ids
      PROVE  x \notin cleared \cup gone
  <2>1. i \in 1..Len(F[p]) /\ x \in F[p][i].ids
    BY <1>2
  <2>2. x \notin cleared
    BY <2>1 DEF Kept
  <2>3. ASSUME NEW j \in 1..Len(F[q]), j > Len(G[q]), x \in F[q][j].ids PROVE FALSE
    <3>1. p = q /\ i = j
      BY <2>1, <2>3 DEF Kept
    <3>2. Len(G[q]) \in Nat /\ j \in 1..Len(G[q]) /\ j > Len(G[q])
      BY <1>1, <2>3, <3>1
    <3> QED BY ONLY <3>2
  <2> QED BY <2>2, <2>3
<1>6. \A p, r \in Queues : \A i \in 1..Len(G[p]), j \in 1..Len(G[r]) :
         (\E x \in G[p][i].ids : x \in G[r][j].ids) => p = r /\ i = j
  <2> SUFFICES ASSUME NEW p \in Queues, NEW r \in Queues, NEW i \in 1..Len(G[p]), NEW j \in 1..Len(G[r]),
                      NEW x \in G[p][i].ids, x \in G[r][j].ids
               PROVE  p = r /\ i = j
    OBVIOUS
  <2>1. i \in 1..Len(F[p]) /\ x \in F[p][i].ids /\ j \in 1..Len(F[r]) /\ x \in F[r][j].ids
    BY <1>2
  <2>2. \A k \in 1..Len(F[p]), l \in 1..Len(F[r]) : (\E y \in F[p][k].ids : y \in F[r][l].ids) => p = r /\ k = l
    BY DEF Kept
  <2> QED BY ONLY <2>1, <2>2
<1>7. /\ \A p \in Queues : \A i \in 1..Len(G[p]) : \E m : Least(G[p][i].ids, m)
      /\ \A p \in Queues : \A i, j \in 1..Len(G[p]) :
            i < j => \A m, k : Least(G[p][i].ids, m) /\ Least(G[p][j].ids, k) => m < k
  BY <1>2 DEF Kept
<1> QED BY <1>4, <1>5, <1>6, <1>7 DEF Kept

\* What is given out and what is left join as one flow, however they are cut.
LEMMA FlowsAssociate ==
    ASSUME NEW S, NEW d \in Seq(S), NEW y \in Seq(S), NEW z \in Seq(S)
    PROVE  (d \o y) \o z = d \o (y \o z)
<1>1. /\ d \o y \in Seq(S) /\ Len(d \o y) = Len(d) + Len(y)
      /\ \A i \in 1..(Len(d) + Len(y)) : (d \o y)[i] = IF i <= Len(d) THEN d[i] ELSE y[i - Len(d)]
  BY ONLY ConcatProperties
<1>2. /\ y \o z \in Seq(S) /\ Len(y \o z) = Len(y) + Len(z)
      /\ \A i \in 1..(Len(y) + Len(z)) : (y \o z)[i] = IF i <= Len(y) THEN y[i] ELSE z[i - Len(y)]
  BY ONLY ConcatProperties
<1> DEFINE a == d \o y  b == y \o z
<1>3. a \in Seq(S) /\ b \in Seq(S)
  BY ONLY <1>1, <1>2
<1> HIDE DEF a, b
<1>4. /\ a \o z \in Seq(S) /\ Len(a \o z) = Len(a) + Len(z)
      /\ \A i \in 1..(Len(a) + Len(z)) : (a \o z)[i] = IF i <= Len(a) THEN a[i] ELSE z[i - Len(a)]
  BY ONLY <1>3, ConcatProperties
<1>5. /\ d \o b \in Seq(S) /\ Len(d \o b) = Len(d) + Len(b)
      /\ \A i \in 1..(Len(d) + Len(b)) : (d \o b)[i] = IF i <= Len(d) THEN d[i] ELSE b[i - Len(d)]
  BY ONLY <1>3, ConcatProperties
<1>6. Len(d) \in Nat /\ Len(y) \in Nat /\ Len(z) \in Nat
  BY ONLY LenProperties
<1>7. /\ Len(a) = Len(d) + Len(y) /\ Len(b) = Len(y) + Len(z)
      /\ \A i \in 1..(Len(d) + Len(y)) : a[i] = IF i <= Len(d) THEN d[i] ELSE y[i - Len(d)]
      /\ \A i \in 1..(Len(y) + Len(z)) : b[i] = IF i <= Len(y) THEN y[i] ELSE z[i - Len(y)]
  BY ONLY <1>1, <1>2 DEF a, b
<1>8. Len(a \o z) = Len(d \o b)
  BY ONLY <1>4, <1>5, <1>6, <1>7
<1>9. ASSUME NEW i \in 1..Len(a \o z) PROVE (a \o z)[i] = (d \o b)[i]
  <2>0. i \in 1..(Len(a) + Len(z)) /\ i \in 1..(Len(d) + Len(b)) /\ i \in Int
    BY ONLY <1>4, <1>5, <1>6, <1>7, <1>9
  <2>1. CASE i <= Len(d)
    BY ONLY <1>4, <1>5, <1>6, <1>7, <2>0, <2>1
  <2>2. CASE i > Len(d) /\ i <= Len(d) + Len(y)
    <3> DEFINE k == i - Len(d)
    <3>1. k \in 1..Len(y) /\ k \in 1..(Len(y) + Len(z)) /\ i <= Len(a) /\ ~(i <= Len(d)) /\ i \in 1..(Len(d) + Len(y)) /\ k <= Len(y)
      BY ONLY <1>6, <1>7, <2>0, <2>2
    <3>2. (a \o z)[i] = y[k]
      BY ONLY <1>4, <1>7, <2>0, <3>1
    <3>3. (d \o b)[i] = y[k]
      BY ONLY <1>5, <1>7, <2>0, <3>1
    <3> QED BY ONLY <3>2, <3>3
  <2>3. CASE i > Len(d) + Len(y)
    <3> DEFINE k == i - Len(d)  m == i - (Len(d) + Len(y))
    <3>1. /\ k \in 1..(Len(y) + Len(z)) /\ ~(k <= Len(y)) /\ k - Len(y) = m
          /\ ~(i <= Len(a)) /\ ~(i <= Len(d)) /\ i - Len(a) = m
      BY ONLY <1>6, <1>7, <2>0, <2>3
    <3>2. (a \o z)[i] = z[m]
      BY ONLY <1>4, <1>7, <2>0, <3>1
    <3>3. (d \o b)[i] = z[m]
      BY ONLY <1>5, <1>7, <2>0, <3>1
    <3> QED BY ONLY <3>2, <3>3
  <2> QED BY <1>6, <2>0, <2>1, <2>2, <2>3
<1>10. a \o z = d \o b
  BY ONLY <1>4, <1>5, <1>8, <1>9, SeqEqual
<1> QED BY ONLY <1>10 DEF a, b

\* What is taken out first stays first.
LEMMA TakingKeepsFlow ==
    ASSUME NEW S, NEW d \in Seq(S), NEW s \in Seq(S), NEW n \in 1..Len(s)
    PROVE  /\ SubSeq(s, 1, n) \in Seq(S) /\ SubSeq(s, n + 1, Len(s)) \in Seq(S)
           /\ d \o SubSeq(s, 1, n) \in Seq(S)
           /\ SubSeq(s, 1, n) \o SubSeq(s, n + 1, Len(s)) = s
           /\ Len(SubSeq(s, n + 1, Len(s))) \in Nat
           /\ \A i \in 1..Len(SubSeq(s, n + 1, Len(s))) :
                 i + n \in 1..Len(s) /\ SubSeq(s, n + 1, Len(s))[i] = s[i + n]
<1>1. Len(s) \in Nat
  BY LenProperties
<1>2. \A i \in 1..Len(s) : s[i] \in S
  BY ElementOfSeq
<1>3. /\ 1 \in Int /\ n \in Int /\ n + 1 \in Int /\ Len(s) \in Int /\ n \in 0..Len(s) /\ 1 \in 1..(Len(s) + 1) /\ n \in (1 - 1)..Len(s) /\ Len(s) \in n..Len(s)
      /\ \A i \in 1..n : i \in 1..Len(s)
      /\ \A i \in (n + 1)..Len(s) : i \in 1..Len(s)
  BY <1>1
<1>4. SubSeq(s, 1, n) \in Seq(S)
  <2>1. \A i \in 1..n : s[i] \in S
    BY <1>2, <1>3
  <2> QED BY <1>3, <2>1, SubSeqProperties
<1>5. /\ SubSeq(s, n + 1, Len(s)) \in Seq(S)
      /\ Len(SubSeq(s, n + 1, Len(s))) = IF n + 1 <= Len(s) THEN Len(s) - (n + 1) + 1 ELSE 0
      /\ \A i \in 1..(Len(s) - (n + 1) + 1) : SubSeq(s, n + 1, Len(s))[i] = s[n + 1 + i - 1]
  <2>1. \A i \in (n + 1)..Len(s) : s[i] \in S
    BY <1>2, <1>3
  <2> QED BY <1>3, <2>1, SubSeqProperties
<1>6. SubSeq(s, 1, n) \o SubSeq(s, n + 1, Len(s)) = SubSeq(s, 1, Len(s))
  BY <1>3, ConcatAdjacentSubSeq
<1>7. SubSeq(s, 1, Len(s)) = s
  BY SubSeqFull
<1>9. d \o SubSeq(s, 1, n) \in Seq(S)
  BY <1>4, ConcatProperties
<1>10. /\ Len(SubSeq(s, n + 1, Len(s))) = Len(s) - n
       /\ \A i \in 1..(Len(s) - n) : SubSeq(s, n + 1, Len(s))[i] = s[i + n] /\ i + n \in 1..Len(s)
  <2> DEFINE z == Len(SubSeq(s, n + 1, Len(s)))  l == Len(s)
  <2>1. z = l - n
    <3>1. l \in Nat /\ n \in 1..l /\ z = IF n + 1 <= l THEN l - (n + 1) + 1 ELSE 0
      BY <1>1, <1>5
    <3> QED BY ONLY <3>1
  <2>2. \A i \in 1..(l - n) : i \in 1..(l - (n + 1) + 1) /\ n + 1 + i - 1 = i + n /\ i + n \in 1..l
    BY <1>1
  <2> QED BY <1>5, <2>1, <2>2
<1>11. SubSeq(s, 1, n) \o SubSeq(s, n + 1, Len(s)) = s
  BY <1>6, <1>7
<1>12. /\ Len(SubSeq(s, n + 1, Len(s))) \in Nat
       /\ \A i \in 1..Len(SubSeq(s, n + 1, Len(s))) :
             i + n \in 1..Len(s) /\ SubSeq(s, n + 1, Len(s))[i] = s[i + n]
  <2>1. Len(SubSeq(s, n + 1, Len(s))) \in Nat
    BY <1>5, LenProperties
  <2> QED BY <1>10, <2>1
<1> QED BY <1>4, <1>5, <1>9, <1>11, <1>12

\* A pushed item is appended, or merged into the one with its key; whatever
\* was given out before, the flow grows by it.
LEMMA PushedGrows ==
    ASSUME NEW q \in Queues, NEW s \in Seq(Item), NEW d \in Seq(Item), NEW key \in KeysOf(q), NEW id \in Nat,
           q \in KeyedQueues => KeysOnce(s)
    PROVE  /\ Pushed(q, s, key, id) \in Seq(Item)
           /\ q \in KeyedQueues => KeysOnce(Pushed(q, s, key, id))
           /\ Grown(d \o s, d \o Pushed(q, s, key, id), id)
<1> DEFINE t == Pushed(q, s, key, id)
<1>1. Len(s) \in Nat /\ DOMAIN s = 1..Len(s)
  BY LenProperties
<1>2. \A i \in 1..Len(s) : s[i] \in Item
  BY ElementOfSeq
<1>3. key \in ItemKeys \cup {"item"} /\ {id} \in SUBSET Nat
  BY DEF KeysOf
<1>4. CASE q \in KeyedQueues /\ \E i \in DOMAIN s : s[i].key = key
  <2>1. PICK k \in 1..Len(s) : s[k].key = key
    BY <1>1, <1>4
  <2>2. \A i \in 1..Len(s) : s[i].key = key => i = k
    BY <1>4, <2>1 DEF KeysOnce
  <2>3. t = [i \in 1..Len(s) |-> IF s[i].key = key THEN [s[i] EXCEPT !.ids = @ \cup {id}] ELSE s[i]]
    BY <1>1, <1>4 DEF Pushed
  <2>4. \A i \in 1..Len(s) : t[i] = IF i = k THEN [s[i] EXCEPT !.ids = @ \cup {id}] ELSE s[i]
    BY <2>1, <2>2, <2>3
  <2>5. /\ [s[k] EXCEPT !.ids = @ \cup {id}] \in Item
        /\ [s[k] EXCEPT !.ids = @ \cup {id}].key = s[k].key
        /\ [s[k] EXCEPT !.ids = @ \cup {id}].ids = s[k].ids \cup {id}
    BY <1>2 DEF Item
  <2>6. t \in Seq(Item)
    <3>1. t \in [1..Len(s) -> Item]
      BY <1>2, <2>3, <2>4, <2>5
    <3> QED BY <1>1, <3>1
  <2>7. Len(t) = Len(s)
    <3>1. DOMAIN t = 1..Len(s)
      BY <2>3
    <3>2. Len(t) \in Nat /\ DOMAIN t = 1..Len(t)
      BY <2>6, LenProperties
    <3> QED BY <1>1, <3>1, <3>2
  <2>8. \A i \in 1..Len(s) : t[i].key = s[i].key /\ t[i].ids = IF i = k THEN s[i].ids \cup {id} ELSE s[i].ids
    BY <2>4, <2>5
  <2> HIDE DEF t
  <2>9. KeysOnce(t)
    BY <1>4, <2>7, <2>8 DEF KeysOnce
  <2>10. Grown(d \o s, d \o t, id)
    <3>1. /\ Len(d) \in Nat /\ Len(d \o s) = Len(d) + Len(s) /\ Len(d \o t) = Len(d) + Len(s)
          /\ \A i \in 1..(Len(d) + Len(s)) : (d \o s)[i] = IF i <= Len(d) THEN d[i] ELSE s[i - Len(d)]
          /\ \A i \in 1..(Len(d) + Len(s)) : (d \o t)[i] = IF i <= Len(d) THEN d[i] ELSE t[i - Len(d)]
      <4>1. Len(d) \in Nat
        BY LenProperties
      <4>2. /\ Len(d \o s) = Len(d) + Len(s)
            /\ \A i \in 1..(Len(d) + Len(s)) : (d \o s)[i] = IF i <= Len(d) THEN d[i] ELSE s[i - Len(d)]
        BY ConcatProperties
      <4>3. /\ Len(d \o t) = Len(d) + Len(t)
            /\ \A i \in 1..(Len(d) + Len(t)) : (d \o t)[i] = IF i <= Len(d) THEN d[i] ELSE t[i - Len(d)]
        BY <2>6, ConcatProperties
      <4> QED BY <2>7, <4>1, <4>2, <4>3
    <3> DEFINE at == k + Len(d)
    <3>2. at \in 1..(Len(d) + Len(s)) /\ ~(at <= Len(d)) /\ at - Len(d) = k
      BY <1>1, <3>1
    <3>3. (d \o t)[at].ids = (d \o s)[at].ids \cup {id}
      BY <2>8, <3>1, <3>2
    <3>4. \A i \in 1..Len(d \o s) : i # at => (d \o t)[i].ids = (d \o s)[i].ids
      <4> SUFFICES ASSUME NEW i \in 1..(Len(d) + Len(s)), i # at PROVE (d \o t)[i].ids = (d \o s)[i].ids
        BY <3>1
      <4>1. CASE i <= Len(d)
        BY <3>1, <4>1
      <4>2. CASE ~(i <= Len(d))
        <5> DEFINE j == i - Len(d)
        <5>1. j \in 1..Len(s) /\ j # k
          BY <1>1, <3>1, <4>2
        <5>2. t[j].ids = s[j].ids
          BY <2>8, <5>1
        <5> QED BY <3>1, <4>2, <5>2
      <4> QED BY <4>1, <4>2
    <3> QED BY <3>1, <3>2, <3>3, <3>4 DEF Grown
  <2> QED BY <2>6, <2>9, <2>10 DEF t
<1>5. CASE ~(q \in KeyedQueues /\ \E i \in DOMAIN s : s[i].key = key)
  <2> DEFINE e == [key |-> key, ids |-> {id}]
  <2>1. t = Append(s, e)
    BY <1>5 DEF Pushed
  <2>2. e \in Item
    BY <1>3 DEF Item
  <2>3. /\ Append(s, e) \in Seq(Item) /\ Len(Append(s, e)) = Len(s) + 1
        /\ \A i \in 1..Len(s) : Append(s, e)[i] = s[i]
        /\ Append(s, e)[Len(s) + 1] = e
    BY <2>2, AppendProperties
  <2>4. e.key = key /\ e.ids = {id}
    OBVIOUS
  <2> HIDE DEF e, t
  <2>5. q \in KeyedQueues => KeysOnce(t)
    <3> SUFFICES ASSUME q \in KeyedQueues, NEW i \in 1..Len(t), NEW j \in 1..Len(t), t[i].key = t[j].key
                 PROVE  i = j
      BY DEF KeysOnce
    <3>1. \A l \in 1..Len(t) : l \in 1..Len(s) \/ l = Len(s) + 1
      BY <1>1, <2>1, <2>3
    <3>2. \A l \in 1..Len(s) : t[l].key = s[l].key /\ s[l].key # key
      BY <1>1, <1>5, <2>1, <2>3
    <3>3. t[Len(s) + 1].key = key
      BY <2>1, <2>3, <2>4
    <3> QED BY <3>1, <3>2, <3>3 DEF KeysOnce
  <2>6. Grown(d \o s, d \o t, id)
    <3>1. /\ Len(d) \in Nat /\ Len(d \o s) = Len(d) + Len(s) /\ Len(d \o t) = Len(d) + Len(s) + 1
          /\ \A i \in 1..(Len(d) + Len(s)) : (d \o s)[i] = IF i <= Len(d) THEN d[i] ELSE s[i - Len(d)]
          /\ \A i \in 1..(Len(d) + Len(s) + 1) : (d \o t)[i] = IF i <= Len(d) THEN d[i] ELSE t[i - Len(d)]
      <4>1. Len(d) \in Nat
        BY LenProperties
      <4>2. /\ Len(d \o s) = Len(d) + Len(s)
            /\ \A i \in 1..(Len(d) + Len(s)) : (d \o s)[i] = IF i <= Len(d) THEN d[i] ELSE s[i - Len(d)]
        BY ConcatProperties
      <4>3. /\ Len(d \o t) = Len(d) + Len(t)
            /\ \A i \in 1..(Len(d) + Len(t)) : (d \o t)[i] = IF i <= Len(d) THEN d[i] ELSE t[i - Len(d)]
        BY <2>1, <2>3, ConcatProperties
      <4>4. Len(d) + Len(t) = Len(d) + Len(s) + 1
        BY <1>1, <2>1, <2>3, <4>1
      <4> QED BY <4>1, <4>2, <4>3, <4>4
    <3> DEFINE last == Len(d) + Len(s) + 1
    <3>2. last \in 1..last /\ ~(last <= Len(d)) /\ last - Len(d) = Len(s) + 1
      BY <1>1, <3>1
    <3>3. (d \o t)[last].ids = {id}
      BY <2>1, <2>3, <2>4, <3>1, <3>2
    <3>4. \A i \in 1..Len(d \o s) : (d \o t)[i].ids = (d \o s)[i].ids
      <4> SUFFICES ASSUME NEW i \in 1..(Len(d) + Len(s)) PROVE (d \o t)[i].ids = (d \o s)[i].ids
        BY <3>1
      <4>0. i \in 1..(Len(d) + Len(s) + 1)
        BY <1>1, <3>1
      <4>1. CASE i <= Len(d)
        BY <3>1, <4>0, <4>1
      <4>2. CASE ~(i <= Len(d))
        <5> DEFINE j == i - Len(d)
        <5>1. j \in 1..Len(s)
          BY <1>1, <3>1, <4>2
        <5>2. t[j] = s[j]
          BY <2>1, <2>3, <5>1
        <5> QED BY <3>1, <4>0, <4>2, <5>2
      <4> QED BY <4>1, <4>2
    <3>5. Len(d \o t) = Len(d \o s) + 1 /\ last = Len(d \o s) + 1
      BY <3>1
    <3> QED BY <3>3, <3>4, <3>5 DEF Grown
  <2> QED BY <2>1, <2>3, <2>5, <2>6 DEF t
<1> QED BY <1>4, <1>5
----------------------------------------------------------------------------
(* The inductive invariant holds.                                          *)

\* Flows are sequences of items.
LEMMA FlowsType ==
    ASSUME NEW out \in [Queues -> Seq(Item)], NEW qs \in [Queues -> WorkQueueType]
    PROVE  Flows(out, qs) \in [Queues -> Seq(Item)]
<1>1. \A q \in Queues : out[q] \in Seq(Item) /\ qs[q].items \in Seq(Item)
  BY DEF WorkQueueType
<1>2. \A q \in Queues : out[q] \o qs[q].items \in Seq(Item)
  BY <1>1, ConcatProperties
<1> QED BY <1>2 DEF Flows

\* One push keeps what the flows promise.
LEMMA PushKeeps ==
    ASSUME NEW out \in [Queues -> Seq(Item)], NEW qs \in [Queues -> WorkQueueType], KeyedOnce(qs),
           NEW cleared, NEW n \in Nat, Kept(Flows(out, qs), cleared, n),
           NEW q \in Queues, NEW key \in KeysOf(q),
           NEW rs, rs = [qs EXCEPT ![q].items = Pushed(q, qs[q].items, key, n + 1)]
    PROVE  rs \in [Queues -> WorkQueueType] /\ KeyedOnce(rs) /\ Kept(Flows(out, rs), cleared, n + 1)
<1> DEFINE s == qs[q].items  t == Pushed(q, s, key, n + 1)
<1>1. s \in Seq(Item) /\ out[q] \in Seq(Item) /\ n + 1 \in Nat
  BY DEF WorkQueueType
<1>2. q \in KeyedQueues => KeysOnce(s)
  BY DEF KeyedOnce
<1>3. t \in Seq(Item) /\ (q \in KeyedQueues => KeysOnce(t)) /\ Grown(out[q] \o s, out[q] \o t, n + 1)
  <2> HIDE DEF s
  <2> QED BY <1>1, <1>2, PushedGrows
<1>4. rs = [qs EXCEPT ![q].items = t]
  OBVIOUS
<1> HIDE DEF t
<1>5. /\ rs \in [Queues -> WorkQueueType] /\ rs[q].items = t
      /\ \A p \in Queues : p # q => rs[p] = qs[p]
  BY <1>3, <1>4 DEF WorkQueueType
<1>6. KeyedOnce(rs)
  BY <1>3, <1>5, WorkQueueAssumption DEF KeyedOnce
<1> DEFINE F == Flows(out, qs)  G == Flows(out, rs)
<1>7. F \in [Queues -> Seq(Item)] /\ G \in [Queues -> Seq(Item)]
  BY <1>5, FlowsType
<1>8. F[q] = out[q] \o s /\ G[q] = out[q] \o t /\ \A p \in Queues : p # q => G[p] = F[p]
  BY <1>5 DEF Flows
<1> HIDE DEF F, G, s
<1>9. Kept(F, cleared, n)
  BY DEF F
<1>10. Kept(G, cleared, n + 1)
  BY <1>3, <1>7, <1>8, <1>9, GrowthKeeps
<1> QED BY <1>5, <1>6, <1>10 DEF G

\* A step that leaves the items where they are.
LEMMA SameItems ==
    ASSUME IInv, queues' \in [Queues -> WorkQueueType], \A q \in Queues : queues'[q].items = queues[q].items,
           controls' \in Nat, UNCHANGED <<accepted, delivered, discarded>>
    PROVE  IInv'
<1>1. Flows(delivered', queues') = Flows(delivered, queues)
  BY DEF Flows
<1>2. KeyedOnce(queues')
  BY WorkQueueAssumption DEF IInv, KeyedOnce
<1> QED BY <1>1, <1>2 DEF IInv, TypeInv

\* At first nothing was accepted.
LEMMA InitInv == Init => IInv
<1> SUFFICES ASSUME Init PROVE IInv
  OBVIOUS
<1>1. <<>> \in Seq(Item) /\ Len(<<>>) = 0
  BY EmptySeq
<1>2. TypeInv
  BY <1>1 DEF Init, TypeInv, NewQueue, WorkQueueType
<1>3. \A q \in Queues : queues[q].items = <<>>
  BY DEF Init, NewQueue
<1>4. \A i \in 1..Len(<<>>) : FALSE
  BY <1>1
<1>5. KeyedOnce(queues)
  BY <1>3, <1>4, WorkQueueAssumption DEF KeyedOnce, KeysOnce
<1> DEFINE F == Flows(delivered, queues)
<1>6. \A q \in Queues : Len(F[q]) = 0
  <2>1. <<>> \o <<>> = <<>>
    BY <1>1, ConcatEmptySeq
  <2> QED BY <1>1, <1>3, <2>1 DEF Flows, Init
<1> HIDE DEF F
<1>7. \A q \in Queues : \A i \in 1..Len(F[q]) : FALSE
  BY <1>6
<1>8. Members(F) \cup discarded = 1..accepted
  <2>1. \A x : x \notin Members(F)
    BY <1>7, MembersOf
  <2>2. discarded = {} /\ accepted = 0 /\ 1..0 = {}
    BY DEF Init
  <2> QED BY <2>1, <2>2
<1>9. Kept(F, discarded, accepted)
  BY <1>7, <1>8 DEF Kept
<1> QED BY <1>2, <1>5, <1>9 DEF IInv, F

\* A push, or a batch of two.
LEMMA PushInv == IInv /\ Push => IInv'
<1> SUFFICES ASSUME IInv, Push PROVE IInv'
  OBVIOUS
<1>1. PICK q \in Queues, n \in 1..2 : \E keys \in [1..n -> KeysOf(q)] :
         LET first == Pushed(q, queues[q].items, keys[1], accepted + 1)
         IN  /\ queues' = [queues EXCEPT ![q].items = IF n = 1 THEN first ELSE Pushed(q, first, keys[2], accepted + 2)]
             /\ accepted' = accepted + n
             /\ UNCHANGED <<delivered, discarded, controls>>
  BY DEF Push
<1>2. PICK keys \in [1..n -> KeysOf(q)] :
         /\ queues' = [queues EXCEPT ![q].items =
                          IF n = 1 THEN Pushed(q, queues[q].items, keys[1], accepted + 1)
                          ELSE Pushed(q, Pushed(q, queues[q].items, keys[1], accepted + 1), keys[2], accepted + 2)]
         /\ accepted' = accepted + n
         /\ UNCHANGED <<delivered, discarded, controls>>
  BY <1>1
<1>3. /\ queues \in [Queues -> WorkQueueType] /\ delivered \in [Queues -> Seq(Item)] /\ accepted \in Nat /\ controls \in Nat
      /\ KeyedOnce(queues) /\ Kept(Flows(delivered, queues), discarded, accepted)
  BY DEF IInv, TypeInv
<1>4. keys[1] \in KeysOf(q)
  OBVIOUS
<1> DEFINE first == Pushed(q, queues[q].items, keys[1], accepted + 1)
<1>5. PICK rs : rs = [queues EXCEPT ![q].items = first]
  OBVIOUS
<1>6. rs \in [Queues -> WorkQueueType] /\ KeyedOnce(rs) /\ Kept(Flows(delivered, rs), discarded, accepted + 1)
  BY <1>3, <1>4, <1>5, PushKeeps
<1> HIDE DEF first
<1>7. CASE n = 1
  <2>1. queues' = rs /\ accepted' = accepted + 1
    BY <1>2, <1>5, <1>7 DEF first
  <2>2. accepted' \in Nat
    BY <1>3, <2>1
  <2> QED BY <1>2, <1>3, <1>6, <2>1, <2>2 DEF IInv, TypeInv
<1>8. CASE n = 2
  <2>1. keys[2] \in KeysOf(q)
    BY <1>8
  <2>2. queues' = [queues EXCEPT ![q].items = Pushed(q, first, keys[2], accepted + 2)] /\ accepted' = accepted + 2
    BY <1>2, <1>8 DEF first
  <2>3. rs[q].items = first
    BY <1>3, <1>5 DEF WorkQueueType
  <2>4. \A x : [queues EXCEPT ![q].items = x] = [rs EXCEPT ![q].items = x]
    BY <1>3, <1>5 DEF WorkQueueType
  <2>5. accepted + 1 \in Nat /\ (accepted + 1) + 1 = accepted + 2 /\ accepted + 2 \in Nat
    BY <1>3
  <2>6. queues' = [rs EXCEPT ![q].items = Pushed(q, rs[q].items, keys[2], (accepted + 1) + 1)]
    BY <2>2, <2>3, <2>4, <2>5
  <2>7. queues' \in [Queues -> WorkQueueType] /\ KeyedOnce(queues') /\ Kept(Flows(delivered, queues'), discarded, (accepted + 1) + 1)
    BY <1>3, <1>6, <2>1, <2>5, <2>6, PushKeeps
  <2> QED BY <1>2, <1>3, <2>2, <2>5, <2>7 DEF IInv, TypeInv
<1> QED BY <1>7, <1>8

\* What is taken out moves from the queue to what was delivered.
LEMMA TakeInv ==
    ASSUME IInv, NEW q \in Queues, NEW n, Take(q, n), UNCHANGED <<accepted, discarded, controls>>
    PROVE  IInv'
<1>1. /\ queues \in [Queues -> WorkQueueType] /\ delivered \in [Queues -> Seq(Item)] /\ accepted \in Nat /\ controls \in Nat
      /\ KeyedOnce(queues) /\ Kept(Flows(delivered, queues), discarded, accepted)
  BY DEF IInv, TypeInv
<1> DEFINE s == queues[q].items  d == delivered[q]  head == SubSeq(s, 1, n)  tail == SubSeq(s, n + 1, Len(s))
<1>2. /\ n \in 1..Len(s) /\ queues' = [queues EXCEPT ![q].items = tail]
      /\ delivered' = [delivered EXCEPT ![q] = d \o head]
  BY DEF Take, Taken
<1>3. s \in Seq(Item) /\ d \in Seq(Item)
  BY <1>1 DEF WorkQueueType
<1>4. /\ head \in Seq(Item) /\ tail \in Seq(Item) /\ d \o head \in Seq(Item) /\ (d \o head) \o tail = d \o s
      /\ Len(tail) \in Nat
      /\ \A i \in 1..Len(tail) : i + n \in 1..Len(s) /\ tail[i] = s[i + n]
  <2>1. n \in 1..Len(s)
    BY <1>2
  <2> HIDE DEF s, d
  <2>2. head \in Seq(Item) /\ tail \in Seq(Item) /\ d \o head \in Seq(Item)
    BY ONLY <1>3, <2>1, TakingKeepsFlow
  <2>3. (d \o head) \o tail = d \o s
    <3>1. head \o tail = s
      BY ONLY <1>3, <2>1, TakingKeepsFlow
    <3>2. \A a, b : a \in Seq(Item) /\ b \in Seq(Item) => (d \o a) \o b = d \o (a \o b)
      BY ONLY <1>3, FlowsAssociate
    <3> HIDE DEF head, tail
    <3>3. (d \o head) \o tail = d \o (head \o tail)
      BY ONLY <2>2, <3>2
    <3> QED BY ONLY <3>1, <3>3
  <2>4. Len(tail) \in Nat /\ \A i \in 1..Len(tail) : i + n \in 1..Len(s) /\ tail[i] = s[i + n]
    BY ONLY <1>3, <2>1, TakingKeepsFlow
  <2> QED BY <2>2, <2>3, <2>4
<1> HIDE DEF s, d, head, tail
<1>5. /\ queues' \in [Queues -> WorkQueueType] /\ queues'[q].items = tail
      /\ \A p \in Queues : p # q => queues'[p] = queues[p]
  BY <1>1, <1>2, <1>4 DEF WorkQueueType
<1>6. /\ delivered' \in [Queues -> Seq(Item)] /\ delivered'[q] = d \o head
      /\ \A p \in Queues : p # q => delivered'[p] = delivered[p]
  BY <1>1, <1>2, <1>4
<1>7. Flows(delivered', queues') = Flows(delivered, queues)
  <2>1. \A p \in Queues : delivered'[p] \o queues'[p].items = delivered[p] \o queues[p].items
    BY <1>4, <1>5, <1>6 DEF s, d
  <2> QED BY <2>1 DEF Flows
<1>8. KeyedOnce(queues')
  <2>1. q \in KeyedQueues => KeysOnce(tail)
    <3> SUFFICES ASSUME q \in KeyedQueues, NEW i \in 1..Len(tail), NEW j \in 1..Len(tail), tail[i].key = tail[j].key
                 PROVE  i = j
      BY DEF KeysOnce
    <3>1. i + n \in 1..Len(s) /\ j + n \in 1..Len(s) /\ s[i + n].key = s[j + n].key
      BY <1>4
    <3>2. i + n = j + n
      BY <1>1, <3>1 DEF KeyedOnce, KeysOnce, s
    <3>3. i \in Int /\ j \in Int /\ n \in Int
      BY <1>2
    <3> QED BY ONLY <3>2, <3>3
  <2> QED BY <1>1, <1>5, <2>1, WorkQueueAssumption DEF KeyedOnce
<1> QED BY <1>1, <1>5, <1>6, <1>7, <1>8 DEF IInv, TypeInv

\* Clearing ends a flow with what was delivered.
LEMMA ClearInv == IInv /\ Clear => IInv'
<1> SUFFICES ASSUME IInv, Clear PROVE IInv'
  OBVIOUS
<1>1. /\ queues \in [Queues -> WorkQueueType] /\ delivered \in [Queues -> Seq(Item)] /\ accepted \in Nat /\ controls \in Nat
      /\ KeyedOnce(queues) /\ Kept(Flows(delivered, queues), discarded, accepted)
  BY DEF IInv, TypeInv
<1>2. PICK q \in Queues :
         /\ controls' = controls + 1
         /\ queues' = [queues EXCEPT ![q].items = <<>>, ![q].alarm = FALSE]
         /\ discarded' = discarded \cup UNION {queues[q].items[i].ids : i \in DOMAIN queues[q].items}
         /\ UNCHANGED <<accepted, delivered>>
  BY DEF Clear, Control
<1> DEFINE s == queues[q].items  d == delivered[q]  gone == UNION {s[i].ids : i \in DOMAIN s}
<1>3. s \in Seq(Item) /\ d \in Seq(Item)
  BY <1>1 DEF WorkQueueType
<1>4. <<>> \in Seq(Item) /\ Len(<<>>) = 0
  BY EmptySeq
<1>5. /\ queues' \in [Queues -> WorkQueueType] /\ queues'[q].items = <<>>
      /\ \A p \in Queues : p # q => queues'[p] = queues[p]
  BY <1>1, <1>2, <1>4 DEF WorkQueueType
<1>6. KeyedOnce(queues')
  <2>1. KeysOnce(<<>>)
    <3>1. \A i \in 1..Len(<<>>) : FALSE
      BY <1>4
    <3> QED BY <3>1 DEF KeysOnce
  <2> QED BY <1>1, <1>5, <2>1, WorkQueueAssumption DEF KeyedOnce
<1> DEFINE F == Flows(delivered, queues)  G == Flows(delivered, queues')
<1>7. F \in [Queues -> Seq(Item)] /\ G \in [Queues -> Seq(Item)]
  BY <1>1, <1>5, FlowsType
<1>8. F[q] = d \o s /\ G[q] = d /\ \A p \in Queues : p # q => G[p] = F[p]
  <2>1. d \o <<>> = d
    BY <1>3, ConcatEmptySeq
  <2> QED BY <1>5, <2>1 DEF Flows
<1>9. \A x : x \in gone <=> \E i \in 1..Len(s) : x \in s[i].ids
  <2>1. DOMAIN s = 1..Len(s)
    BY <1>3, LenProperties
  <2> QED BY <2>1
<1>10. discarded' = discarded \cup gone
  BY <1>2
<1> HIDE DEF F, G, s, d, gone
<1>11. /\ Len(d) \in Nat /\ Len(s) \in Nat /\ Len(F[q]) = Len(d) + Len(s)
       /\ \A i \in 1..(Len(d) + Len(s)) : F[q][i] = IF i <= Len(d) THEN d[i] ELSE s[i - Len(d)]
  <2>1. Len(d) \in Nat /\ Len(s) \in Nat
    BY <1>3, LenProperties
  <2>2. /\ Len(d \o s) = Len(d) + Len(s)
        /\ \A i \in 1..(Len(d) + Len(s)) : (d \o s)[i] = IF i <= Len(d) THEN d[i] ELSE s[i - Len(d)]
    BY <1>3, ConcatProperties
  <2> QED BY <1>8, <2>1, <2>2
<1>12. Len(G[q]) <= Len(F[q]) /\ \A i \in 1..Len(G[q]) : G[q][i] = F[q][i]
  <2>1. Len(G[q]) <= Len(F[q]) /\ \A i \in 1..Len(d) : i <= Len(d) /\ i \in 1..(Len(d) + Len(s))
    BY <1>8, <1>11
  <2> QED BY <1>8, <1>11, <2>1
<1>13. \A x : x \in gone <=> \E i \in 1..Len(F[q]) : i > Len(G[q]) /\ x \in F[q][i].ids
  <2>1. ASSUME NEW i \in 1..Len(s), NEW x \in s[i].ids
        PROVE  \E j \in 1..Len(F[q]) : j > Len(G[q]) /\ x \in F[q][j].ids
    <3> DEFINE j == i + Len(d)
    <3>1. j \in 1..(Len(d) + Len(s)) /\ j > Len(d) /\ ~(j <= Len(d)) /\ j - Len(d) = i
      BY <1>11
    <3>2. F[q][j] = s[i]
      BY <1>11, <3>1
    <3> QED BY <1>8, <1>11, <3>1, <3>2
  <2>2. ASSUME NEW j \in 1..Len(F[q]), j > Len(G[q]), NEW x \in F[q][j].ids
        PROVE  \E i \in 1..Len(s) : x \in s[i].ids
    <3> DEFINE i == j - Len(d)
    <3>1. i \in 1..Len(s) /\ ~(j <= Len(d)) /\ j \in 1..(Len(d) + Len(s))
      BY <1>8, <1>11, <2>2
    <3>2. F[q][j] = s[i]
      BY <1>11, <3>1
    <3> QED BY <3>1, <3>2
  <2> QED BY <1>9, <2>1, <2>2
<1>14. Kept(F, discarded, accepted)
  BY <1>1 DEF F
<1>15. Kept(G, discarded \cup gone, accepted)
  BY <1>1, <1>7, <1>8, <1>12, <1>13, <1>14, ClearingKeeps
<1>16. controls' \in Nat
  BY <1>1, <1>2
<1>17. Kept(Flows(delivered', queues'), discarded', accepted')
  BY <1>2, <1>10, <1>15 DEF G
<1> QED BY <1>1, <1>2, <1>5, <1>6, <1>16, <1>17 DEF IInv, TypeInv

\* A flag or an alarm of a queue can be set without moving its items.
LEMMA FlagsKeepItems ==
    ASSUME NEW qs \in [Queues -> WorkQueueType], NEW q \in Queues, NEW b \in BOOLEAN, NEW t \in Nat, NEW rs,
           \/ rs = qs
           \/ rs = [qs EXCEPT ![q].alarm = b]
           \/ rs = [qs EXCEPT ![q].alarm = b, ![q].time = t]
           \/ rs = [qs EXCEPT ![q].shutdown = b]
           \/ rs = [qs EXCEPT ![q].attached = b]
    PROVE  rs \in [Queues -> WorkQueueType] /\ \A p \in Queues : rs[p].items = qs[p].items
<1>1. CASE rs = qs
  BY <1>1
<1>2. CASE rs = [qs EXCEPT ![q].alarm = b]
  BY <1>2 DEF WorkQueueType
<1>3. CASE rs = [qs EXCEPT ![q].alarm = b, ![q].time = t]
  <2>1. PICK ps : ps = [qs EXCEPT ![q].alarm = b]
    OBVIOUS
  <2>2. ps \in [Queues -> WorkQueueType] /\ \A p \in Queues : ps[p].items = qs[p].items
    BY ONLY <2>1 DEF WorkQueueType
  <2>3. rs = [ps EXCEPT ![q].time = t]
    BY ONLY <1>3, <2>1 DEF WorkQueueType
  <2>4. rs \in [Queues -> WorkQueueType] /\ \A p \in Queues : rs[p].items = ps[p].items
    BY ONLY <2>2, <2>3 DEF WorkQueueType
  <2> QED BY ONLY <2>2, <2>4
<1>4. CASE rs = [qs EXCEPT ![q].shutdown = b]
  BY <1>4 DEF WorkQueueType
<1>5. CASE rs = [qs EXCEPT ![q].attached = b]
  BY <1>5 DEF WorkQueueType
<1> QED BY <1>1, <1>2, <1>3, <1>4, <1>5

\* Waking for an alarm, or not, leaves the items where they are.
LEMMA ResumeInv == IInv /\ Resume => IInv'
<1> SUFFICES ASSUME IInv, Resume PROVE IInv'
  OBVIOUS
<1>1. queues \in [Queues -> WorkQueueType] /\ controls \in Nat
  BY DEF IInv, TypeInv
<1>2. /\ queues' = [queues EXCEPT ![WorkerQueue].alarm = FALSE] \/ queues' = queues
      /\ UNCHANGED <<accepted, delivered, discarded, controls>>
  BY DEF Resume
<1>3. queues' \in [Queues -> WorkQueueType] /\ \A q \in Queues : queues'[q].items = queues[q].items
  <2>1. WorkerQueue \in Queues /\ FALSE \in BOOLEAN /\ 0 \in Nat
    BY WorkQueueAssumption
  <2>2. PICK rs : rs = queues'
    OBVIOUS
  <2>3. rs = queues \/ rs = [queues EXCEPT ![WorkerQueue].alarm = FALSE]
    BY <1>2, <2>2
  <2>4. rs \in [Queues -> WorkQueueType] /\ \A q \in Queues : rs[q].items = queues[q].items
    <3>1. CASE rs = queues
      BY <1>1, <3>1
    <3>2. CASE rs = [queues EXCEPT ![WorkerQueue].alarm = FALSE]
      <4>1. PICK b \in BOOLEAN, t \in Nat : rs = [queues EXCEPT ![WorkerQueue].alarm = b]
        BY ONLY <2>1, <3>2
      <4> QED BY ONLY <1>1, <2>1, <4>1, FlagsKeepItems
    <3> QED BY <2>3, <3>1, <3>2
  <2> QED BY <2>2, <2>4
<1> QED BY <1>1, <1>2, <1>3, SameItems

\* So do the calls that change a queue's flags or its alarm.
LEMMA ControlInv ==
    IInv /\ (SetAlarm \/ ClearAlarm \/ Shutdown \/ ResetShutdown \/ Attach \/ Detach) => IInv'
<1> SUFFICES ASSUME IInv, SetAlarm \/ ClearAlarm \/ Shutdown \/ ResetShutdown \/ Attach \/ Detach PROVE IInv'
  OBVIOUS
<1>1. queues \in [Queues -> WorkQueueType] /\ controls \in Nat
  BY DEF IInv, TypeInv
<1>2. /\ controls' = controls + 1 /\ UNCHANGED <<accepted, delivered, discarded>>
      /\ \E q \in Queues : \E t \in Nat :
            \/ queues' = queues
            \/ queues' = [queues EXCEPT ![q].alarm = TRUE, ![q].time = t]
            \/ \E b \in BOOLEAN :
                  \/ queues' = [queues EXCEPT ![q].alarm = b]
                  \/ queues' = [queues EXCEPT ![q].shutdown = b]
                  \/ queues' = [queues EXCEPT ![q].attached = b]
  <2>0. 0 \in Nat /\ WorkerQueue \in Queues /\ \A t \in 0..MaxTime : t \in Nat
    BY WorkQueueAssumption
  <2>1. CASE SetAlarm
    <3>1. PICK t \in 0..MaxTime :
             /\ controls' = controls + 1 /\ UNCHANGED <<accepted, delivered, discarded>>
             /\ \/ queues' = [queues EXCEPT ![WorkerQueue].alarm = TRUE, ![WorkerQueue].time = t]
                \/ queues' = queues
      BY <2>1 DEF SetAlarm, Control
    <3> QED BY <2>0, <3>1
  <2>2. CASE ClearAlarm
    BY <2>0, <2>2 DEF ClearAlarm, Control
  <2>3. CASE Shutdown
    BY <2>0, <2>3 DEF Shutdown, Control
  <2>4. CASE ResetShutdown
    BY <2>0, <2>4 DEF ResetShutdown, Control
  <2>5. CASE Attach
    BY <2>0, <2>5 DEF Attach, Control
  <2>6. CASE Detach
    BY <2>0, <2>6 DEF Detach, Control
  <2> QED BY <2>1, <2>2, <2>3, <2>4, <2>5, <2>6
<1>3. queues' \in [Queues -> WorkQueueType] /\ \A q \in Queues : queues'[q].items = queues[q].items
  <2>1. PICK rs : rs = queues'
    OBVIOUS
  <2>2. rs \in [Queues -> WorkQueueType] /\ \A q \in Queues : rs[q].items = queues[q].items
    <3>1. PICK q \in Queues, t \in Nat, b \in BOOLEAN :
             \/ rs = queues
             \/ rs = [queues EXCEPT ![q].alarm = b, ![q].time = t]
             \/ rs = [queues EXCEPT ![q].alarm = b]
             \/ rs = [queues EXCEPT ![q].shutdown = b]
             \/ rs = [queues EXCEPT ![q].attached = b]
      BY <1>2, <2>1
    <3> QED BY ONLY <1>1, <3>1, FlagsKeepItems
  <2> QED BY <2>1, <2>2
<1>4. controls' \in Nat
  BY <1>1, <1>2
<1> QED BY <1>2, <1>3, <1>4, SameItems

\* Every step keeps the invariant.
LEMMA NextInv == IInv /\ [Next]_vars => IInv'
<1> SUFFICES ASSUME IInv, [Next]_vars PROVE IInv'
  OBVIOUS
<1>0. queues \in [Queues -> WorkQueueType] /\ controls \in Nat
  BY DEF IInv, TypeInv
<1>1. CASE Push
  BY <1>1, PushInv
<1>2. CASE WorkerTakes
  <2>1. PICK n : Take(WorkerQueue, n)
    BY <1>2 DEF WorkerTakes
  <2> QED BY <1>2, <2>1, TakeInv, WorkQueueAssumption DEF WorkerTakes
<1>3. CASE PollerTakes
  <2>1. PICK q \in Queues : Take(q, 1)
    BY <1>3 DEF PollerTakes
  <2> QED BY <1>3, <2>1, TakeInv DEF PollerTakes
<1>4. CASE Clear
  BY <1>4, ClearInv
<1>5. CASE Resume
  BY <1>5, ResumeInv
<1>6. CASE SetAlarm \/ ClearAlarm \/ Shutdown \/ ResetShutdown \/ Attach \/ Detach
  BY <1>6, ControlInv
<1>7. CASE FinishCall \/ WaitForWork \/ PollerSeesEmpty \/ WaitForSignal \/ PollerResumes \/ Tick \/ UNCHANGED vars
  <2>1. UNCHANGED <<queues, accepted, delivered, discarded, controls>>
    BY <1>7 DEF FinishCall, Notify, Signal, WaitForWork, PollerSeesEmpty, WaitForSignal, PollerResumes, Tick, vars
  <2> QED BY <1>0, <2>1, SameItems
<1>8. CASE SetDeadline \/ ClearDeadline \/ RequestShutdown \/ ResetSignal
  <2>1. UNCHANGED <<queues, accepted, delivered, discarded>> /\ controls' = controls + 1
    BY <1>8 DEF SetDeadline, ClearDeadline, RequestShutdown, ResetSignal, Control
  <2>2. controls' \in Nat
    BY <1>0, <2>1
  <2> QED BY <1>0, <2>1, <2>2, SameItems
<1> QED BY <1>1, <1>2, <1>3, <1>4, <1>5, <1>6, <1>7, <1>8 DEF Next

\* The invariant holds always.
LEMMA AlwaysIInv == Spec => []IInv
<1> QED BY InitInv, NextInv, PTL DEF Spec

----------------------------------------------------------------------------
(* The theorems.                                                           *)

\* What the flows promise is what the property says.
LEMMA KeptMeans == IInv => ItemsAreDeliveredOnceInOrder
<1> SUFFICES ASSUME IInv PROVE ItemsAreDeliveredOnceInOrder
  OBVIOUS
<1> DEFINE F == Flows(delivered, queues)
           Flow(q) == delivered[q] \o queues[q].items
           Ids(q) == UNION {Flow(q)[i].ids : i \in DOMAIN Flow(q)}
<1>1. F \in [Queues -> Seq(Item)] /\ Kept(F, discarded, accepted)
  BY FlowsType DEF IInv, TypeInv
<1>2. \A q \in Queues : F[q] = Flow(q)
  BY DEF Flows
<1>3. \A q \in Queues : DOMAIN Flow(q) = 1..Len(F[q])
  <2>1. \A q \in Queues : DOMAIN F[q] = 1..Len(F[q])
    BY <1>1, LenProperties
  <2> QED BY <1>2, <2>1
<1> HIDE DEF F
<1>4. \A q \in Queues : \A x : x \in Ids(q) <=> \E i \in 1..Len(F[q]) : x \in F[q][i].ids
  <2> HIDE DEF Flow
  <2> QED BY <1>2, <1>3
<1> HIDE DEF Ids
<1>5. (UNION {Ids(q) : q \in Queues}) \cup discarded = 1..accepted
  <2>1. UNION {Ids(q) : q \in Queues} = Members(F)
    <3>1. \A x : x \in UNION {Ids(q) : q \in Queues} <=> \E q \in Queues : x \in Ids(q)
      OBVIOUS
    <3>2. \A x : x \in UNION {Ids(q) : q \in Queues} <=> x \in Members(F)
      BY <1>4, <3>1, MembersOf
    <3> QED BY <3>2
  <2>2. Members(F) \cup discarded = 1..accepted
    BY <1>1 DEF Kept
  <2> QED BY ONLY <2>1, <2>2
<1>6. \A q \in Queues : Ids(q) \cap discarded = {}
  <2>1. \A q \in Queues : \A x \in Ids(q) : x \notin discarded
    BY <1>1, <1>4 DEF Kept
  <2> QED BY <2>1
<1>7. \A p, q \in Queues : \A i \in DOMAIN Flow(p), j \in DOMAIN Flow(q) :
         <<p, i>> # <<q, j>> => Flow(p)[i].ids \cap Flow(q)[j].ids = {}
  <2> SUFFICES ASSUME NEW p \in Queues, NEW q \in Queues, NEW i \in DOMAIN Flow(p), NEW j \in DOMAIN Flow(q),
                      <<p, i>> # <<q, j>>, NEW x \in Flow(p)[i].ids, x \in Flow(q)[j].ids
               PROVE  FALSE
    OBVIOUS
  <2> HIDE DEF Flow
  <2>1. i \in 1..Len(F[p]) /\ j \in 1..Len(F[q]) /\ x \in F[p][i].ids /\ x \in F[q][j].ids
    BY <1>2, <1>3
  <2>2. p = q /\ i = j
    BY <1>1, <2>1 DEF Kept
  <2> QED BY <2>2
<1>8. \A q \in Queues : \A i, j \in DOMAIN Flow(q) : i < j => Min(Flow(q)[i].ids) < Min(Flow(q)[j].ids)
  <2> SUFFICES ASSUME NEW q \in Queues, NEW i \in DOMAIN Flow(q), NEW j \in DOMAIN Flow(q), i < j
               PROVE  Min(Flow(q)[i].ids) < Min(Flow(q)[j].ids)
    OBVIOUS
  <2> HIDE DEF Flow
  <2>1. ASSUME NEW S, \E m : Least(S, m) PROVE Least(S, Min(S))
    BY <2>1 DEF Least, Min
  <2>2. /\ i \in 1..Len(F[q]) /\ j \in 1..Len(F[q])
        /\ Flow(q) = F[q]
    BY <1>2, <1>3
  <2>3. Least(F[q][i].ids, Min(F[q][i].ids)) /\ Least(F[q][j].ids, Min(F[q][j].ids))
    BY <1>1, <2>1, <2>2 DEF Kept
  <2>4. Min(F[q][i].ids) < Min(F[q][j].ids)
    BY <1>1, <2>2, <2>3 DEF Kept
  <2> QED BY <2>2, <2>4
<1> QED BY <1>5, <1>6, <1>7, <1>8 DEF ItemsAreDeliveredOnceInOrder, Ids

\* Every item accepted by any of the queues is delivered once, in order, alone
\* or merged, still there, or cleared, whatever the threads and callers do.
THEOREM ItemsAreDeliveredOnceInOrderAlways == Spec => []ItemsAreDeliveredOnceInOrder
<1> QED BY AlwaysIInv, KeptMeans, PTL

\* No step of a thread gives up an alarm before its time, also when the thread
\* went to sleep on another time of it.
THEOREM AlarmsAreKeptAlways == Spec => AlarmsAreKept
<1> DEFINE A == \A q \in Queues : queues[q].alarm /\ ~queues'[q].alarm /\ controls' = controls => now >= queues[q].time
<1>1. ASSUME IInv, [Next]_vars PROVE [A]_vars
  <2>0. queues \in [Queues -> WorkQueueType] /\ controls \in Nat
    BY <1>1 DEF IInv, TypeInv
  <2>1. CASE Push
    <3>1. \E q \in Queues : \E x : queues' = [queues EXCEPT ![q].items = x]
      BY <2>1 DEF Push
    <3> QED BY <2>0, <3>1 DEF WorkQueueType
  <2>2. CASE WorkerTakes \/ PollerTakes
    <3>1. \E q \in Queues : \E n : Take(q, n)
      BY <2>2, WorkQueueAssumption DEF WorkerTakes, PollerTakes
    <3>2. \E q \in Queues : \E x : queues' = [queues EXCEPT ![q].items = x]
      BY <3>1 DEF Take
    <3> QED BY <2>0, <3>2 DEF WorkQueueType
  <2>3. CASE Resume
    <3>1. queues' = queues \/ (queues' = [queues EXCEPT ![WorkerQueue].alarm = FALSE] /\ now >= queues[WorkerQueue].time)
      BY <2>3 DEF Resume, Expired
    <3> QED BY <2>0, <3>1 DEF WorkQueueType
  <2>4. CASE FinishCall \/ WaitForWork \/ PollerSeesEmpty \/ WaitForSignal \/ PollerResumes \/ Tick
    <3>1. UNCHANGED queues
      BY <2>4 DEF FinishCall, Notify, Signal, WaitForWork, PollerSeesEmpty, WaitForSignal, PollerResumes, Tick
    <3> QED BY <3>1
  <2>5. CASE SetAlarm \/ ClearAlarm \/ Clear \/ Shutdown \/ ResetShutdown \/ Attach \/ Detach \/ SetDeadline \/ ClearDeadline \/ RequestShutdown \/ ResetSignal
    <3>1. controls' = controls + 1
      BY <2>5 DEF SetAlarm, ClearAlarm, Clear, Shutdown, ResetShutdown, Attach, Detach, SetDeadline, ClearDeadline, RequestShutdown, ResetSignal, Control
    <3>2. controls' # controls
      BY <2>0, <3>1
    <3> QED BY <3>2
  <2> QED BY <1>1, <2>1, <2>2, <2>3, <2>4, <2>5 DEF Next
<1> QED BY <1>1, AlwaysIInv, PTL DEF Spec, AlarmsAreKept
=============================================================================
