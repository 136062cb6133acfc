------------------------ MODULE ColumnManager_proof ------------------------
(***************************************************************************)
(* What is true of ColumnManager for every set of positions, every cache   *)
(* capacity and every set of liberties clients take: the type invariant,   *)
(* that a column is in memory at most once, that a cached column is clean  *)
(* and unreferenced, that the cache is bounded, and that nothing is        *)
(* refused because of a save that is not under way any more.  Then what    *)
(* careful clients rely on: no edit is lost, no load overtakes a save, and *)
(* memory and disk together implement the store of module ColumnStore.     *)
(***************************************************************************)
EXTENDS ColumnManager, SequenceTheorems, FiniteSetTheorems, FunctionTheorems, TLAPS

(* What the operations of LRUCache do to a cache, for every key, value and *)
(* capacity.  Each lemma says that the result is a cache again, that every *)
(* item of it was there before (or is the one just put), that keys stay    *)
(* unique, and how many items there are.                                   *)

Items(K, V) == [key : K, value : V]

\* Every item of new is an item of old.
KeptFrom(new, old) == \A i \in 1..Len(new) : \E j \in 1..Len(old) : new[i] = old[j]

\* A prefix of a cache is a cache: used for eviction from the back.
LEMMA PrefixLemma ==
    ASSUME NEW K, NEW V, NEW items \in Seq(Items(K, V)), NEW n \in Nat, n <= Len(items)
    PROVE  /\ SubSeq(items, 1, n) \in Seq(Items(K, V))
           /\ Len(SubSeq(items, 1, n)) = n
           /\ KeptFrom(SubSeq(items, 1, n), items)
           /\ UniqueKeys(items) => UniqueKeys(SubSeq(items, 1, n))
<1> DEFINE new == SubSeq(items, 1, n)
<1>1. /\ new \in Seq(Items(K, V))
      /\ Len(new) = n
      /\ \A i \in 1..n : new[i] = items[i]
  <2>1. \A i \in 1..n : items[i] \in Items(K, V)
    BY ElementOfSeq, LenProperties
  <2>2. /\ new \in Seq(Items(K, V))
        /\ Len(new) = IF 1 <= n THEN n - 1 + 1 ELSE 0
        /\ \A i \in 1..(n - 1 + 1) : new[i] = items[1 + i - 1]
    BY <2>1, SubSeqProperties
  <2> QED BY <2>2
<1> HIDE DEF new
<1>2. KeptFrom(new, items)
  BY <1>1, LenProperties DEF KeptFrom
<1>3. UniqueKeys(items) => UniqueKeys(new)
  BY <1>1, LenProperties DEF UniqueKeys
<1> QED BY <1>1, <1>2, <1>3 DEF new

\* setCapacity() drops items from the back until the rest fits.
LEMMA TrimLemma ==
    ASSUME NEW K, NEW V, NEW items \in Seq(Items(K, V)), NEW room \in Nat
    PROVE  /\ Trim(items, room) \in Seq(Items(K, V))
           /\ Len(Trim(items, room)) <= room
           /\ KeptFrom(Trim(items, room), items)
           /\ UniqueKeys(items) => UniqueKeys(Trim(items, room))
<1>1. CASE Len(items) > room
  BY <1>1, PrefixLemma, LenProperties DEF Trim
<1>2. CASE ~(Len(items) > room)
  BY <1>2, LenProperties DEF Trim, KeptFrom
<1> QED BY <1>1, <1>2

\* Making room drops the back item of a full cache.
LEMMA MakeRoomLemma ==
    ASSUME NEW K, NEW V, NEW items \in Seq(Items(K, V)), NEW room \in Nat \ {0},
           Len(items) <= room
    PROVE  /\ MakeRoom(items, room) \in Seq(Items(K, V))
           /\ Len(MakeRoom(items, room)) < room
           /\ KeptFrom(MakeRoom(items, room), items)
           /\ UniqueKeys(items) => UniqueKeys(MakeRoom(items, room))
<1>0. Len(items) \in Nat
  BY LenProperties
<1>1. CASE Len(items) >= room
  <2>1. Len(items) - 1 \in Nat /\ Len(items) - 1 <= Len(items)
    BY <1>0, <1>1
  <2> QED BY <1>0, <1>1, <2>1, PrefixLemma DEF MakeRoom
<1>2. CASE ~(Len(items) >= room)
  BY <1>0, <1>2, LenProperties DEF MakeRoom, KeptFrom
<1> QED BY <1>1, <1>2

\* remove() takes out the item of that key and leaves the others.
LEMMA WithoutLemma ==
    ASSUME NEW K, NEW V, NEW items \in Seq(Items(K, V)), NEW k
    PROVE  /\ Without(items, k) \in Seq(Items(K, V))
           /\ Len(Without(items, k)) <= Len(items)
           /\ HasKey(items, k) => Len(Without(items, k)) < Len(items)
           /\ KeptFrom(Without(items, k), items)
           /\ UniqueKeys(items) => UniqueKeys(Without(items, k)) /\ ~HasKey(Without(items, k), k)
<1>0. Len(items) \in Nat /\ \A i \in 1..Len(items) : items[i] \in Items(K, V)
  BY ElementOfSeq, LenProperties
<1>1. CASE ~HasKey(items, k)
  BY <1>0, <1>1 DEF Without, KeptFrom
<1>2. CASE HasKey(items, k)
  <2> DEFINE n == IndexOf(items, k)
             front == SubSeq(items, 1, n - 1)
             back == SubSeq(items, n + 1, Len(items))
  <2>1. n \in 1..Len(items) /\ items[n].key = k
    BY <1>2 DEF IndexOf, HasKey
  <2> HIDE DEF n
  <2>2. /\ front \in Seq(Items(K, V)) /\ Len(front) = n - 1
        /\ \A i \in 1..(n - 1) : front[i] = items[i]
    <3>1. \A i \in 1..(n - 1) : items[i] \in Items(K, V)
      BY <1>0, <2>1
    <3>2. 1 \in Int /\ n - 1 \in Int
      BY <2>1
    <3>3. /\ front \in Seq(Items(K, V))
          /\ Len(front) = IF 1 <= n - 1 THEN (n - 1) - 1 + 1 ELSE 0
          /\ \A i \in 1..((n - 1) - 1 + 1) : front[i] = items[1 + i - 1]
      BY <3>1, <3>2, SubSeqProperties
    <3> QED BY <3>3, <2>1
  <2>3. /\ back \in Seq(Items(K, V)) /\ Len(back) = Len(items) - n
        /\ \A i \in 1..(Len(items) - n) : back[i] = items[n + i]
    <3>1. \A i \in (n + 1)..Len(items) : items[i] \in Items(K, V)
      BY <1>0, <2>1
    <3>2. n + 1 \in Int /\ Len(items) \in Int
      BY <1>0, <2>1
    <3>3. /\ back \in Seq(Items(K, V))
          /\ Len(back) = IF n + 1 <= Len(items) THEN Len(items) - (n + 1) + 1 ELSE 0
          /\ \A i \in 1..(Len(items) - (n + 1) + 1) : back[i] = items[(n + 1) + i - 1]
      BY <3>1, <3>2, SubSeqProperties
    <3> QED BY <3>3, <2>1, <1>0
  <2>4. Without(items, k) = front \o back
    BY <1>2 DEF Without, RemoveAt, n
  <2> HIDE DEF front, back
  <2>5. /\ front \o back \in Seq(Items(K, V))
        /\ Len(front \o back) = Len(items) - 1
        /\ \A i \in 1..(Len(items) - 1) :
              (front \o back)[i] = IF i <= n - 1 THEN items[i] ELSE items[i + 1]
    <3>1. /\ front \o back \in Seq(Items(K, V))
          /\ Len(front \o back) = Len(front) + Len(back)
          /\ \A i \in 1..(Len(front) + Len(back)) :
                (front \o back)[i] = IF i <= Len(front) THEN front[i] ELSE back[i - Len(front)]
      BY <2>2, <2>3, ConcatProperties
    <3> QED BY <3>1, <2>1, <2>2, <2>3, <1>0
  <2> DEFINE new == Without(items, k)
  <2>6. /\ new \in Seq(Items(K, V))
        /\ Len(new) = Len(items) - 1
        /\ \A i \in 1..(Len(items) - 1) : new[i] = IF i <= n - 1 THEN items[i] ELSE items[i + 1]
    BY <2>4, <2>5
  <2> HIDE DEF new
  <2>7. KeptFrom(new, items)
    BY <2>6, <2>1, <1>0 DEF KeptFrom
  <2>8. ASSUME UniqueKeys(items) PROVE UniqueKeys(new)
    <3>1. SUFFICES ASSUME NEW i \in 1..Len(new), NEW j \in 1..Len(new), new[i].key = new[j].key
                   PROVE  i = j
      BY ONLY <3>1 DEF UniqueKeys
    <3>2. PICK a \in 1..Len(items) : a = IF i <= n - 1 THEN i ELSE i + 1
      BY <2>1, <2>6, <1>0
    <3>3. PICK b \in 1..Len(items) : b = IF j <= n - 1 THEN j ELSE j + 1
      BY <2>1, <2>6, <1>0
    <3>4. new[i] = items[a] /\ new[j] = items[b]
      BY <2>6, <3>2, <3>3
    <3>5. a = b
      BY ONLY <2>8, <3>1, <3>4 DEF UniqueKeys
    <3> QED BY <3>2, <3>3, <3>5, <2>1, <2>6, <1>0
  <2>9. ASSUME UniqueKeys(items) PROVE ~HasKey(new, k)
    <3>1. SUFFICES ASSUME NEW i \in 1..Len(new), new[i].key = k PROVE FALSE
      BY ONLY <3>1 DEF HasKey
    <3>2. PICK a \in 1..Len(items) : a = IF i <= n - 1 THEN i ELSE i + 1
      BY <2>1, <2>6, <1>0
    <3>3. new[i] = items[a]
      BY <2>6, <3>2
    <3>4. a = n
      BY ONLY <2>9, <2>1, <3>1, <3>3 DEF UniqueKeys
    <3> QED BY <3>2, <3>4, <2>1, <2>6, <1>0
  <2> QED BY <2>6, <2>7, <2>8, <2>9, <1>0, <1>2 DEF new
<1> QED BY <1>1, <1>2

\* put() leaves a cache that fits, whose front item is the new one and whose
\* other items were there before.
LEMMA PutLemma ==
    ASSUME NEW K, NEW V, NEW items \in Seq(Items(K, V)), NEW room \in Nat \ {0},
           NEW k \in K, NEW v \in V, Len(items) <= room
    PROVE  /\ Put(items, room, k, v) \in Seq(Items(K, V))
           /\ Len(Put(items, room, k, v)) <= room
           /\ \A i \in 1..Len(Put(items, room, k, v)) :
                 \/ Put(items, room, k, v)[i] = Item(k, v)
                 \/ \E j \in 1..Len(items) : Put(items, room, k, v)[i] = items[j]
           /\ UniqueKeys(items) => UniqueKeys(Put(items, room, k, v))
<1> DEFINE rest == IF HasKey(items, k) THEN Without(items, k) ELSE MakeRoom(items, room)
           new == Put(items, room, k, v)
<1>1. /\ rest \in Seq(Items(K, V))
      /\ Len(rest) < room
      /\ KeptFrom(rest, items)
      /\ UniqueKeys(items) => UniqueKeys(rest) /\ ~HasKey(rest, k)
  <2>0. Len(items) \in Nat
    BY LenProperties
  <2>1. CASE HasKey(items, k)
    <3>1. Len(Without(items, k)) \in Nat
      BY WithoutLemma, LenProperties
    <3> QED BY <2>0, <2>1, <3>1, WithoutLemma
  <2>2. CASE ~HasKey(items, k)
    <3>1. /\ MakeRoom(items, room) \in Seq(Items(K, V))
          /\ Len(MakeRoom(items, room)) < room
          /\ KeptFrom(MakeRoom(items, room), items)
          /\ UniqueKeys(items) => UniqueKeys(MakeRoom(items, room))
      BY MakeRoomLemma
    <3>2. ~HasKey(MakeRoom(items, room), k)
      BY <3>1, <2>2 DEF KeptFrom, HasKey
    <3> QED BY <2>2, <3>1, <3>2
  <2> QED BY <2>1, <2>2
<1>2. new = <<Item(k, v)>> \o rest
  BY DEF Put
<1> HIDE DEF rest
<1>3. Len(rest) \in Nat
  BY <1>1, LenProperties
<1>4. /\ new \in Seq(Items(K, V))
      /\ Len(new) = 1 + Len(rest)
      /\ new[1] = Item(k, v)
      /\ \A i \in 2..Len(new) : new[i] = rest[i - 1]
  <2> DEFINE front == <<Item(k, v)>>
  <2>1. front \in Seq(Items(K, V)) /\ Len(front) = 1 /\ front[1] = Item(k, v)
    BY DEF Items, Item
  <2> HIDE DEF front
  <2>2. /\ front \o rest \in Seq(Items(K, V))
        /\ Len(front \o rest) = Len(front) + Len(rest)
        /\ \A i \in 1..(Len(front) + Len(rest)) :
              (front \o rest)[i] = IF i <= Len(front) THEN front[i] ELSE rest[i - Len(front)]
    BY <1>1, <2>1, ConcatProperties
  <2>3. new = front \o rest
    BY <1>2 DEF front
  <2> HIDE DEF new
  <2> QED BY <2>1, <2>2, <2>3, <1>3
<1> HIDE DEF new
<1>5. Len(new) <= room
  BY <1>1, <1>3, <1>4
<1>6. \A i \in 1..Len(new) : new[i] = Item(k, v) \/ \E j \in 1..Len(items) : new[i] = items[j]
  <2> SUFFICES ASSUME NEW i \in 1..Len(new), i # 1
               PROVE  \E j \in 1..Len(items) : new[i] = items[j]
    BY <1>4
  <2>1. i - 1 \in 1..Len(rest) /\ i \in 2..Len(new)
    BY <1>3, <1>4
  <2> QED BY <2>1, <1>1, <1>4 DEF KeptFrom
<1>7. ASSUME UniqueKeys(items) PROVE UniqueKeys(new)
  <2>1. UniqueKeys(rest) /\ ~HasKey(rest, k)
    BY <1>1, <1>7
  <2>2. new[1].key = k
    BY <1>4 DEF Item
  <2>3. \A i \in 2..Len(new) : i - 1 \in 1..Len(rest) /\ new[i].key = rest[i - 1].key /\ new[i].key # k
    BY <2>1, <1>3, <1>4 DEF HasKey
  <2>4. ASSUME NEW i \in 1..Len(new), NEW j \in 1..Len(new), new[i].key = new[j].key
        PROVE  i = j
    <3>1. CASE i = 1 \/ j = 1
      BY <2>2, <2>3, <2>4, <3>1
    <3>2. CASE i # 1 /\ j # 1
      <4>1. i - 1 = j - 1
        BY <2>1, <2>3, <2>4, <3>2 DEF UniqueKeys
      <4> QED BY <4>1
    <3> QED BY <3>1, <3>2
  <2> QED BY <2>4 DEF UniqueKeys
<1> QED BY <1>4, <1>5, <1>6, <1>7 DEF new

\* peek() of a key that is there returns the value of one of the items.
LEMMA PeekLemma ==
    ASSUME NEW K, NEW V, NEW items \in Seq(Items(K, V)), NEW k, HasKey(items, k)
    PROVE  \E i \in 1..Len(items) : items[i].key = k /\ Peek(items, k) = items[i].value
BY DEF HasKey, Peek, IndexOf
-----------------------------------------------------------------------------

\* The inductive invariant.  A new item fits only into a cache that is
\* bounded; a column taken out of the cache is gone from it only if keys are
\* unique; so the three are proved together.
IInv == TypeOK /\ SingleResidence /\ CachedAreClean /\ CacheBounded

\* A cached column: where CachedAreClean says what may be in the cache.
Evictable(col) == ~col.dirty /\ col.refs <= 0

\* The cache is a list of items, and its capacity is not 0.
LEMMA CacheLemma ==
    ASSUME TypeOK
    PROVE  /\ cache \in Seq(Items(Pos, ManagedColumn))
           /\ capacity \in Nat \ {0}
           /\ Len(cache) \in Nat
           /\ \A i \in 1..Len(cache) : cache[i] \in Items(Pos, ManagedColumn)
<1>1. cache \in Seq(Items(Pos, ManagedColumn))
  BY DEF TypeOK, Items
<1> QED BY <1>1, CapacityAssumption, ElementOfSeq, LenProperties DEF TypeOK

\* transitionToUnloadCache() of a clean, unreferenced column keeps what IInv
\* says of the columns in memory.
LEMMA UnloadLemma ==
    ASSUME IInv, NEW p \in Pos, NEW col \in ManagedColumn, NEW pinned \in BOOLEAN,
           active[p] # None, Evictable(col), TransitionToUnloadCache(p, col, pinned),
           capacity' = capacity, setup' = setup
    PROVE  /\ active' \in [Pos -> ManagedColumn \union {None}]
           /\ cache' \in Seq(Items(Pos, ManagedColumn))
           /\ saveQueue' = saveQueue
           /\ SingleResidence' /\ CachedAreClean' /\ CacheBounded'
<1> USE DEF IInv
<1>0. /\ active \in [Pos -> ManagedColumn \union {None}]
      /\ saveQueue' = saveQueue
  BY DEF TypeOK, TransitionToUnloadCache
<1>1. CASE pinned
  <2>1. cache' = cache /\ active' = [active EXCEPT ![p] = col]
    BY <1>1 DEF TransitionToUnloadCache
  <2> QED BY <1>0, <2>1, CacheLemma
          DEF SingleResidence, CachedAreClean, CacheBounded, HasKey, UniqueKeys
<1>2. CASE ~pinned
  <2> DEFINE v == [col EXCEPT !.state = "UnloadQueued"]
             new == Put(cache, capacity, p, v)
  <2>1. cache' = new /\ active' = [active EXCEPT ![p] = None]
    BY <1>2 DEF TransitionToUnloadCache
  <2>2. v \in ManagedColumn /\ Evictable(v)
    BY DEF ManagedColumn, ColumnState, Evictable
  <2> HIDE DEF v
  <2>3. /\ new \in Seq(Items(Pos, ManagedColumn))
        /\ Len(new) <= capacity
        /\ \A i \in 1..Len(new) : new[i] = Item(p, v) \/ \E j \in 1..Len(cache) : new[i] = cache[j]
        /\ UniqueKeys(cache) => UniqueKeys(new)
    BY <2>2, CacheLemma, PutLemma DEF CacheBounded
  <2> HIDE DEF new
  <2>4. SingleResidence'
    <3> SUFFICES ASSUME "add_again" \notin setup.liberties,
                        NEW q \in Pos, active'[q] # None, HasKey(new, q)
                 PROVE  FALSE
      BY <2>1 DEF SingleResidence, HasKey
    <3>1. q # p /\ active[q] # None
      BY <1>0, <2>1
    <3>2. HasKey(cache, q)
      BY <2>3, <3>1 DEF HasKey, Item
    <3> QED BY <3>1, <3>2 DEF SingleResidence
  <2>5. CachedAreClean'
    BY <2>1, <2>2, <2>3 DEF CachedAreClean, Evictable, Item
  <2> QED BY <1>0, <2>1, <2>3, <2>4, <2>5 DEF CacheBounded, UniqueKeys
<1> QED BY <1>1, <1>2

\* A step that leaves the cache alone and activates nothing new keeps the
\* rest of IInv.
LEMMA MemoryUnchanged ==
    ASSUME IInv, setup' = setup, cache' = cache, capacity' = capacity,
           \A q \in Pos : active'[q] # None => active[q] # None
    PROVE  SingleResidence' /\ CachedAreClean' /\ CacheBounded'
BY DEF IInv, SingleResidence, CachedAreClean, CacheBounded, HasKey, UniqueKeys

\* What is in active_ is a column.
LEMMA ActiveLemma ==
    ASSUME TypeOK, NEW p \in Pos, active[p] # None
    PROVE  active[p] \in ManagedColumn
BY DEF TypeOK

\* What a save pass drains was queued and is active.
LEMMA DrainedLemma ==
    ASSUME NEW s \in Drained
    PROVE  /\ s \in Seq(Pos)
           /\ \A i \in 1..Len(s) : active[s[i]] # None
           /\ ToSet(s) = {s[i] : i \in 1..Len(s)}
<1> DEFINE S == {p \in Pos : Queued(p) /\ active[p] # None}
           n == Cardinality(S)
<1>1. S \subseteq Pos /\ IsFiniteSet(S)
  BY PosAssumption, FS_Subset
<1>2. n \in Nat
  BY <1>1, FS_CardinalityType
<1>3. s \in [1..n -> S]
  BY DEF Drained, SetToSeqs
<1> HIDE DEF n
<1>4. s \in Seq(Pos) /\ Len(s) = n /\ DOMAIN s = 1..n
  <2>1. s \in [1..n -> Pos]
    BY <1>3
  <2> QED BY <2>1, <1>2
<1> QED BY <1>3, <1>4 DEF ToSet

\* Pushing a position keeps the save queue a list of positions.
LEMMA PushLemma ==
    ASSUME TypeOK, NEW p \in Pos, Push(p)
    PROVE  saveQueue' \in Seq(Pos)
BY AppendProperties DEF TypeOK, Push

\* At first both places are empty.
THEOREM InitInv == Init => IInv
<1> SUFFICES ASSUME Init PROVE IInv
  OBVIOUS
<1>1. TypeOK
  BY CapacityAssumption DEF Init, TypeOK
<1>2. capacity \in Nat /\ Len(cache) = 0
  BY CapacityAssumption DEF Init
<1>3. SingleResidence /\ CachedAreClean /\ CacheBounded
  BY <1>2 DEF Init, SingleResidence, CachedAreClean, CacheBounded, HasKey, UniqueKeys
<1> QED BY <1>1, <1>3 DEF IInv

\* Client calls.
LEMMA GetStep == ASSUME IInv, setup' = setup, NEW p \in Pos, Get(p) PROVE IInv'
<1> USE DEF IInv
<1>0. UNCHANGED <<capacity, saveQueue, saving, toSave, saveJobs, saver, loadJobs, loader,
                  disk, failing, latest, held>>
  BY DEF Get, io
<1>1. got' \in SUBSET Pos
  BY DEF Get, TypeOK
<1>2. CASE active[p] # None
  <2>1. UNCHANGED <<active, cache>>
    BY <1>2 DEF Get
  <2>2. TypeOK'
    BY <1>0, <1>1, <2>1 DEF TypeOK
  <2>3. SingleResidence' /\ CachedAreClean' /\ CacheBounded'
    BY <1>0, <2>1, MemoryUnchanged
  <2> QED BY <2>2, <2>3
<1>3. CASE active[p] = None
  <2> DEFINE col == [Peek(cache, p) EXCEPT !.state = "Active"]
             new == Without(cache, p)
  <2>1. /\ HasKey(cache, p)
        /\ active' = [active EXCEPT ![p] = col]
        /\ cache' = new
    BY <1>3 DEF Get, Resident
  <2>2. Peek(cache, p) \in ManagedColumn
    <3>1. PICK i \in 1..Len(cache) : Peek(cache, p) = cache[i].value
      BY <2>1, PeekLemma, CacheLemma
    <3> QED BY <3>1, CacheLemma DEF Items
  <2>3. col \in ManagedColumn
    BY <2>2 DEF ManagedColumn, ColumnState
  <2> HIDE DEF col
  <2>4. /\ new \in Seq(Items(Pos, ManagedColumn))
        /\ Len(new) <= Len(cache)
        /\ KeptFrom(new, cache)
        /\ UniqueKeys(new) /\ ~HasKey(new, p)
    BY CacheLemma, WithoutLemma DEF CacheBounded
  <2> HIDE DEF new
  <2>5. TypeOK'
    BY <1>0, <1>1, <2>1, <2>3, <2>4 DEF TypeOK, Items
  <2>6. SingleResidence'
    <3> SUFFICES ASSUME "add_again" \notin setup.liberties,
                        NEW q \in Pos, active'[q] # None, HasKey(new, q)
                 PROVE  FALSE
      BY <2>1 DEF SingleResidence, HasKey
    <3>1. q # p
      BY <2>4
    <3>2. HasKey(cache, q)
      BY <2>4 DEF HasKey, KeptFrom
    <3> QED BY <2>1, <3>1, <3>2 DEF SingleResidence, TypeOK
  <2>7. CachedAreClean'
    BY <2>1, <2>4 DEF CachedAreClean, KeptFrom
  <2>8. CacheBounded'
    <3>1. Len(new) \in Nat /\ Len(cache) \in Nat /\ capacity \in Nat
      BY <2>4, CacheLemma, LenProperties
    <3> QED BY <1>0, <2>1, <2>4, <3>1 DEF CacheBounded, UniqueKeys
  <2> QED BY <2>5, <2>6, <2>7, <2>8
<1> QED BY <1>2, <1>3

\* add() keeps the invariant.
LEMMA AddStep == ASSUME IInv, setup' = setup, NEW p \in Pos, Add(p) PROVE IInv'
<1> USE DEF IInv
<1>1. Fresh(0) \in ManagedColumn
  BY DEF Fresh, ManagedColumn, ColumnState
<1>2. TypeOK'
  BY <1>1 DEF Add, TypeOK, io, clients
<1>3. SingleResidence'
  BY DEF Add, SingleResidence, Resident, HasKey, TypeOK
<1>4. CachedAreClean' /\ CacheBounded'
  BY DEF Add, CachedAreClean, CacheBounded, UniqueKeys
<1> QED BY <1>2, <1>3, <1>4

\* An edit and its markDirty() keeps the invariant.
LEMMA EditStep == ASSUME IInv, setup' = setup, NEW p \in Pos, Edit(p) PROVE IInv'
<1> USE DEF IInv
<1> DEFINE col == [active[p] EXCEPT !.ver = latest[p] + 1, !.dirty = TRUE]
<1>1. active' = [active EXCEPT ![p] = col] /\ active[p] # None
  BY DEF Edit
<1>2. col \in ManagedColumn
  <2>1. latest[p] + 1 \in Nat
    BY DEF TypeOK
  <2>2. active[p] \in ManagedColumn
    BY <1>1, ActiveLemma
  <2> QED BY <2>1, <2>2 DEF ManagedColumn
<1> HIDE DEF col
<1>3. TypeOK'
  BY <1>1, <1>2 DEF Edit, TypeOK, io
<1>4. SingleResidence' /\ CachedAreClean' /\ CacheBounded'
  BY <1>1, MemoryUnchanged DEF Edit, TypeOK
<1> QED BY <1>3, <1>4

\* addRef() keeps the invariant.
LEMMA AddRefStep == ASSUME IInv, setup' = setup, NEW p \in Pos, AddRef(p) PROVE IInv'
<1> USE DEF IInv
<1>1. /\ active' \in [Pos -> ManagedColumn \union {None}]
      /\ \A q \in Pos : active'[q] # None => active[q] # None
  <2>1. CASE active[p] = None
    BY <2>1 DEF AddRef, TypeOK
  <2>2. CASE active[p] # None
    <3> DEFINE col == [active[p] EXCEPT !.refs = @ + 1]
    <3>1. col \in ManagedColumn
      BY <2>2, ActiveLemma DEF ManagedColumn
    <3>2. active' = [active EXCEPT ![p] = col]
      BY <2>2 DEF AddRef
    <3> HIDE DEF col
    <3> QED BY <2>2, <3>1, <3>2 DEF TypeOK
  <2> QED BY <2>1, <2>2
<1>2. TypeOK'
  BY <1>1 DEF AddRef, TypeOK, io
<1>3. SingleResidence' /\ CachedAreClean' /\ CacheBounded'
  BY <1>1, MemoryUnchanged DEF AddRef
<1> QED BY <1>2, <1>3

\* What TransitionToUnloadCache leaves alone is up to the caller; here is the
\* whole of IInv once the other variables are known to have their types.
LEMMA UnloadStep ==
    ASSUME IInv, setup' = setup, NEW p \in Pos, NEW col \in ManagedColumn,
           active[p] # None, Evictable(col), UNCHANGED <<capacity, loader>>,
           \E pinned \in MayPin : TransitionToUnloadCache(p, col, pinned),
           saving' \in SUBSET Pos, toSave' \in Seq(Pos), saveJobs' \in Seq(SaveJob),
           saver' \in SaveResult \union {None}, loadJobs' \in Seq(Pos),
           disk' \in [Pos -> Nat], failing' \in SUBSET Regions, latest' \in [Pos -> Nat], held' \in [Pos -> Nat],
           got' \in SUBSET Pos
    PROVE  IInv'
<1>1. PICK pinned \in BOOLEAN : TransitionToUnloadCache(p, col, pinned)
  BY BoundsAssumption
<1>2. /\ active' \in [Pos -> ManagedColumn \union {None}]
      /\ cache' \in Seq(Items(Pos, ManagedColumn))
      /\ saveQueue' = saveQueue
      /\ SingleResidence' /\ CachedAreClean' /\ CacheBounded'
  BY <1>1, UnloadLemma
<1> QED BY <1>2 DEF IInv, TypeOK, Items

\* release(), which may move the column to the cache, keeps the invariant.
LEMMA ReleaseStep == ASSUME IInv, setup' = setup, NEW p \in Pos, Release(p) PROVE IInv'
<1> USE DEF IInv
<1>0. /\ UNCHANGED <<capacity, saving, toSave, saveJobs, saver, loadJobs, loader, disk, failing,
                     latest, got>>
      /\ held' \in [Pos -> Nat]
  BY DEF Release, TypeOK, io
<1> DEFINE col == [active[p] EXCEPT !.refs = @ - 1]
<1>1. CASE active[p] = None
  <2>1. UNCHANGED <<active, cache, saveQueue>>
    BY <1>1 DEF Release
  <2> QED BY <1>0, <2>1, MemoryUnchanged DEF TypeOK
<1>2. CASE active[p] # None
  <2>0. col \in ManagedColumn
    BY <1>2, ActiveLemma DEF ManagedColumn
  <2>1. IF col.refs > 0
        THEN active' = [active EXCEPT ![p] = col] /\ UNCHANGED <<cache, saveQueue>>
        ELSE IF col.dirty
             THEN TransitionToSaveQueue(p, col)
             ELSE \E pinned \in MayPin : TransitionToUnloadCache(p, col, pinned)
    BY <1>2 DEF Release, NeedsSave
  <2> HIDE DEF col
  <2>2. CASE col.refs > 0
    <3>1. active' = [active EXCEPT ![p] = col] /\ UNCHANGED <<cache, saveQueue>>
      BY <2>1, <2>2
    <3>2. TypeOK'
      BY <1>0, <2>0, <3>1 DEF TypeOK
    <3> QED BY <1>0, <1>2, <3>1, <3>2, MemoryUnchanged DEF TypeOK
  <2>3. CASE ~(col.refs > 0) /\ col.dirty
    <3> DEFINE queued == [col EXCEPT !.state = "SaveQueued"]
    <3>1. active' = [active EXCEPT ![p] = queued] /\ Push(p) /\ UNCHANGED cache
      BY <2>1, <2>3 DEF TransitionToSaveQueue
    <3>2. queued \in ManagedColumn
      BY <2>0 DEF ManagedColumn, ColumnState
    <3> HIDE DEF queued
    <3>3. TypeOK'
      BY <1>0, <3>1, <3>2, PushLemma DEF TypeOK
    <3> QED BY <1>0, <1>2, <3>1, <3>3, MemoryUnchanged DEF TypeOK
  <2>4. CASE ~(col.refs > 0) /\ ~col.dirty
    <3>1. Evictable(col)
      BY <2>0, <2>4 DEF Evictable, ManagedColumn
    <3>2. \E pinned \in MayPin : TransitionToUnloadCache(p, col, pinned)
      BY <2>1, <2>4
    <3> QED BY <1>0, <1>2, <2>0, <3>1, <3>2, UnloadStep DEF TypeOK
  <2> QED BY <2>2, <2>3, <2>4
<1> QED BY <1>1, <1>2

\* requestLoad() keeps the invariant.
LEMMA RequestLoadStep == ASSUME IInv, setup' = setup, NEW p \in Pos, RequestLoad(p) PROVE IInv'
<1>1. loadJobs' \in Seq(Pos)
  BY AppendProperties DEF IInv, TypeOK, RequestLoad
<1>2. TypeOK'
  BY <1>1 DEF IInv, TypeOK, RequestLoad, manager, clients
<1> QED BY <1>2, MemoryUnchanged DEF IInv, RequestLoad, manager

\* setCacheCapacity(), which trims the cache, keeps the invariant.
LEMMA SetCacheCapacityStep ==
    ASSUME IInv, setup' = setup, NEW c \in Capacities, SetCacheCapacity(c) PROVE IInv'
<1> USE DEF IInv
<1> DEFINE new == Trim(cache, c)
<1>1. /\ new \in Seq(Items(Pos, ManagedColumn)) /\ Len(new) <= c
      /\ KeptFrom(new, cache) /\ UniqueKeys(new)
  BY CacheLemma, CapacityAssumption, TrimLemma DEF CacheBounded
<1>2. cache' = new /\ capacity' = c /\ UNCHANGED <<active, saveQueue, saving, io, clients>>
  BY DEF SetCacheCapacity
<1> HIDE DEF new
<1>3. TypeOK'
  BY <1>1, <1>2 DEF TypeOK, Items, io, clients
<1>4. SingleResidence'
  BY <1>1, <1>2 DEF SingleResidence, HasKey, KeptFrom
<1>5. CachedAreClean'
  BY <1>1, <1>2 DEF CachedAreClean, KeptFrom
<1>6. CacheBounded'
  BY <1>1, <1>2 DEF CacheBounded, UniqueKeys
<1> QED BY <1>3, <1>4, <1>5, <1>6

\* The game loop.
LEMMA TickStep == ASSUME IInv, setup' = setup, Tick PROVE IInv'
<1> USE DEF IInv
<1> DEFINE S == {p \in Due : ~Queued(p)}
           queued(p) == [active[p] EXCEPT !.state = "SaveQueued"]
<1>1. PICK order \in SetToSeqs(S) : saveQueue' = saveQueue \o order
  BY DEF Tick
<1>2. order \in Seq(Pos)
  <2>1. S \subseteq Pos /\ IsFiniteSet(S)
    BY PosAssumption, FS_Subset DEF Due
  <2> DEFINE n == Cardinality(S)
  <2>2. n \in Nat
    BY <2>1, FS_CardinalityType
  <2>3. order \in [1..n -> Pos]
    BY <1>1, <2>1 DEF SetToSeqs
  <2> HIDE DEF n
  <2> QED BY <2>2, <2>3
<1>3. saveQueue' \in Seq(Pos)
  BY <1>1, <1>2, ConcatProperties DEF TypeOK
<1>4. \A p \in Due : p \in Pos /\ active[p] # None /\ queued(p) \in ManagedColumn
  BY ActiveLemma DEF Due, ManagedColumn, ColumnState
<1>5. active' = [p \in Pos |-> IF p \in Due THEN queued(p) ELSE active[p]]
  BY DEF Tick
<1> HIDE DEF queued
<1>6. /\ active' \in [Pos -> ManagedColumn \union {None}]
      /\ \A p \in Pos : active'[p] # None => active[p] # None
  BY <1>4, <1>5 DEF TypeOK
<1>7. TypeOK'
  BY <1>3, <1>6 DEF Tick, TypeOK, io, clients
<1> QED BY <1>6, <1>7, MemoryUnchanged DEF Tick

\* processSaveQueue() keeps the invariant.
LEMMA ProcessSaveQueueStep == ASSUME IInv, setup' = setup, ProcessSaveQueue PROVE IInv'
<1> USE DEF IInv
<1> DEFINE S == ToSet(toSave')
           marked(p) == [active[p] EXCEPT !.state = "Saving"]
<1>1. toSave' \in Drained
  BY DEF ProcessSaveQueue
<1>2. toSave' \in Seq(Pos) /\ S \subseteq Pos /\ \A p \in S : active[p] # None
  <2>1. /\ toSave' \in Seq(Pos)
        /\ \A i \in 1..Len(toSave') : active[toSave'[i]] # None
        /\ S = {toSave'[i] : i \in 1..Len(toSave')}
    BY <1>1, DrainedLemma
  <2> QED BY <2>1, ElementOfSeq
<1>3. /\ active' = [p \in Pos |-> IF p \in S THEN marked(p) ELSE active[p]]
      /\ saving' = saving \union S
      /\ saveQueue' = <<>>
      /\ UNCHANGED <<cache, capacity, saveJobs, saver, loadJobs, loader, disk, failing, clients>>
  BY DEF ProcessSaveQueue
<1>4. \A p \in S : marked(p) \in ManagedColumn
  BY <1>2, ActiveLemma DEF ManagedColumn, ColumnState
<1> HIDE DEF S, marked
<1>5. /\ active' \in [Pos -> ManagedColumn \union {None}]
      /\ \A p \in Pos : active'[p] # None => active[p] # None
  BY <1>2, <1>3, <1>4 DEF TypeOK
<1>6. TypeOK'
  BY <1>2, <1>3, <1>5 DEF TypeOK, clients
<1> QED BY <1>3, <1>5, <1>6, MemoryUnchanged

\* The request to IOManager::queueSave() keeps the invariant.
LEMMA QueueSaveStep == ASSUME IInv, setup' = setup, QueueSave PROVE IInv'
<1> USE DEF IInv
<1>1. PICK v \in Readable(Head(toSave)) :
         saveJobs' = Append(saveJobs, [pos |-> Head(toSave), ver |-> v])
  BY DEF QueueSave
<1>2. Head(toSave) \in Pos /\ toSave' \in Seq(Pos)
  BY HeadTailProperties DEF QueueSave, TypeOK
<1>3. v \in Nat
  <2> DEFINE p == Head(toSave)
  <2>0. CASE "add_again" \in setup.liberties
    BY <1>1, <2>0, BoundsAssumption DEF Readable, TypeOK, Setup
  <2>1. CASE active[p] # None
    BY <1>1, <1>2, <2>0, <2>1, ActiveLemma DEF Readable, ManagedColumn
  <2>2. CASE active[p] = None /\ HasKey(cache, p)
    <3>1. PICK i \in 1..Len(cache) : Peek(cache, p) = cache[i].value
      BY <2>2, PeekLemma, CacheLemma
    <3>2. Peek(cache, p).ver \in Nat
      BY <3>1, CacheLemma DEF Items, ManagedColumn
    <3> QED BY <1>1, <2>0, <2>2, <3>2 DEF Readable
  <2>3. CASE active[p] = None /\ ~HasKey(cache, p)
    BY <1>1, <2>0, <2>3, BoundsAssumption DEF Readable
  <2> QED BY <2>1, <2>2, <2>3
<1>4. saveJobs' \in Seq(SaveJob)
  <2>1. [pos |-> Head(toSave), ver |-> v] \in SaveJob
    BY <1>2, <1>3 DEF SaveJob
  <2> QED BY <1>1, <2>1, AppendProperties DEF TypeOK
<1>5. TypeOK'
  BY <1>2, <1>4 DEF QueueSave, TypeOK, manager, clients
<1> QED BY <1>5, MemoryUnchanged DEF QueueSave, manager

\* The IO threads.
LEMMA WriteColumnStep == ASSUME IInv, setup' = setup, NEW ok \in BOOLEAN, WriteColumn(ok) PROVE IInv'
<1> USE DEF IInv
<1> DEFINE job == Head(saveJobs)
<1>1. job \in SaveJob /\ saveJobs' \in Seq(SaveJob)
  BY HeadTailProperties DEF WriteColumn, TypeOK
<1>2. /\ disk' = IF ok THEN [disk EXCEPT ![job.pos] = job.ver] ELSE disk
      /\ saver' = [pos |-> job.pos, ok |-> ok]
      /\ failing' \in {failing, failing \union {RegionOf[job.pos]}}
      /\ UNCHANGED <<manager, toSave, loadJobs, loader, clients>>
  BY DEF WriteColumn
<1> HIDE DEF job
<1>3. /\ disk' \in [Pos -> Nat] /\ saver' \in SaveResult
      /\ failing' \in SUBSET Regions
  BY <1>1, <1>2 DEF TypeOK, SaveJob, SaveResult, Regions
<1>4. TypeOK'
  BY <1>1, <1>2, <1>3 DEF TypeOK, manager, clients
<1> QED BY <1>2, <1>4, MemoryUnchanged DEF manager

\* The callback of a save that worked, which may move the column to the cache,
\* keeps the invariant.
LEMMA OnSaveCompleteStep == ASSUME IInv, setup' = setup, OnSaveComplete PROVE IInv'
<1> USE DEF IInv
<1> DEFINE p == saver.pos
           col == [active[p] EXCEPT !.dirty = FALSE]
<1>0. p \in Pos
  BY DEF OnSaveComplete, TypeOK, SaveResult
<1>1. /\ saving' = saving \ {p}
      /\ IF active[p] = None THEN UNCHANGED <<active, cache, saveQueue>>
         ELSE IF col.refs = 0
              THEN \E pinned \in MayPin : TransitionToUnloadCache(p, col, pinned)
              ELSE /\ active' = [active EXCEPT ![p] = [col EXCEPT !.state = "Active"]]
                   /\ UNCHANGED <<cache, saveQueue>>
      /\ saver' = None
      /\ UNCHANGED <<capacity, toSave, saveJobs, loadJobs, loader, disk, failing, clients>>
  BY DEF OnSaveComplete, Unreferenced
<1>2. saving' \in SUBSET Pos
  BY <1>1 DEF TypeOK
<1> HIDE DEF p
<1>3. CASE active[p] = None
  <2>1. UNCHANGED <<active, cache, saveQueue>>
    BY <1>1, <1>3
  <2>2. TypeOK'
    BY <1>1, <1>2, <2>1 DEF TypeOK, clients
  <2> QED BY <1>1, <2>1, <2>2, MemoryUnchanged
<1>4. CASE active[p] # None
  <2>1. col \in ManagedColumn /\ ~col.dirty
    BY <1>0, <1>4, ActiveLemma DEF ManagedColumn
  <2> DEFINE used == [col EXCEPT !.state = "Active"]
  <2>2. used \in ManagedColumn
    BY <2>1 DEF ManagedColumn, ColumnState
  <2>3. IF col.refs = 0
        THEN \E pinned \in MayPin : TransitionToUnloadCache(p, col, pinned)
        ELSE active' = [active EXCEPT ![p] = used] /\ UNCHANGED <<cache, saveQueue>>
    BY <1>1, <1>4
  <2> HIDE DEF col, used
  <2>4. CASE col.refs = 0
    <3>1. Evictable(col)
      BY <2>1, <2>4 DEF Evictable
    <3>2. \E pinned \in MayPin : TransitionToUnloadCache(p, col, pinned)
      BY <2>3, <2>4
    <3>3. UNCHANGED <<capacity, toSave, saveJobs, loadJobs, loader, disk, failing, latest, held, got>>
      BY <1>1 DEF clients
    <3> QED BY <1>0, <1>1, <1>2, <1>4, <2>1, <3>1, <3>2, <3>3, UnloadStep DEF TypeOK
  <2>5. CASE col.refs # 0
    <3>1. active' = [active EXCEPT ![p] = used] /\ UNCHANGED <<cache, saveQueue>>
      BY <2>3, <2>5
    <3>2. TypeOK'
      BY <1>1, <1>2, <2>2, <3>1 DEF TypeOK, clients
    <3> QED BY <1>1, <1>4, <3>1, <3>2, MemoryUnchanged DEF TypeOK
  <2> QED BY <2>4, <2>5
<1> QED BY <1>3, <1>4

\* The callback of a save that failed keeps the invariant.
LEMMA OnSaveFailedStep == ASSUME IInv, setup' = setup, OnSaveFailed PROVE IInv'
<1> USE DEF IInv
<1> DEFINE p == saver.pos
           queued == [active[p] EXCEPT !.state = "SaveQueued"]
<1>0. p \in Pos
  BY DEF OnSaveFailed, TypeOK, SaveResult
<1>1. /\ saving' = saving \ {p}
      /\ IF active[p] = None THEN UNCHANGED <<active, saveQueue>>
         ELSE active' = [active EXCEPT ![p] = queued] /\ Push(p)
      /\ saver' = None
      /\ UNCHANGED <<cache, capacity, toSave, saveJobs, loadJobs, loader, disk, failing, clients>>
  BY DEF OnSaveFailed
<1>2. active[p] # None => queued \in ManagedColumn
  BY <1>0, ActiveLemma DEF ManagedColumn, ColumnState
<1> HIDE DEF p, queued
<1>3. saveQueue' \in Seq(Pos)
  BY <1>0, <1>1, PushLemma DEF TypeOK
<1>4. /\ active' \in [Pos -> ManagedColumn \union {None}]
      /\ \A q \in Pos : active'[q] # None => active[q] # None
  BY <1>0, <1>1, <1>2 DEF TypeOK
<1>5. TypeOK'
  BY <1>1, <1>3, <1>4 DEF TypeOK, clients
<1> QED BY <1>1, <1>4, <1>5, MemoryUnchanged

\* The load thread reads keeps the invariant.
LEMMA ReadColumnStep == ASSUME IInv, setup' = setup, ReadColumn PROVE IInv'
<1> USE DEF IInv
<1>1. Head(loadJobs) \in Pos /\ loadJobs' \in Seq(Pos)
  BY HeadTailProperties DEF ReadColumn, TypeOK
<1>2. loader' \in SaveJob
  BY <1>1 DEF ReadColumn, SaveJob, TypeOK
<1>3. failing' \in SUBSET Regions
  <2>1. failing' = failing \/ failing' = failing \union {RegionOf[Head(loadJobs)]}
    BY DEF ReadColumn
  <2>2. RegionOf[Head(loadJobs)] \in Regions
    BY <1>1 DEF Regions
  <2> QED BY <2>1, <2>2 DEF TypeOK
<1>4. TypeOK'
  BY <1>1, <1>2, <1>3 DEF ReadColumn, TypeOK, manager, clients
<1> QED BY <1>4, MemoryUnchanged DEF ReadColumn, manager

\* Opening a region file again keeps the invariant.
LEMMA ReopenStep == ASSUME IInv, setup' = setup, NEW r, Reopen(r) PROVE IInv'
<1>1. TypeOK'
  BY DEF IInv, Reopen, TypeOK, manager, clients
<1> QED BY <1>1, MemoryUnchanged DEF IInv, Reopen, manager

\* The callback of a load keeps the invariant.
LEMMA OnLoadCompleteStep == ASSUME IInv, setup' = setup, OnLoadComplete PROVE IInv'
<1> USE DEF IInv
<1> DEFINE p == loader.pos
           col == Fresh(loader.ver)
<1>1. p \in Pos /\ col \in ManagedColumn
  BY DEF OnLoadComplete, TypeOK, SaveJob, Fresh, ManagedColumn, ColumnState
<1>2. /\ active' = IF loader.ver > 0 /\ ~Resident(p) THEN [active EXCEPT ![p] = col] ELSE active
      /\ loader' = None
      /\ UNCHANGED <<cache, capacity, saveQueue, saving,
                     toSave, saveJobs, saver, loadJobs, disk, failing, clients>>
  BY DEF OnLoadComplete
<1> HIDE DEF p, col
<1>3. TypeOK'
  BY <1>1, <1>2 DEF TypeOK, clients
<1>4. SingleResidence'
  BY <1>1, <1>2 DEF SingleResidence, Resident, HasKey, TypeOK
<1>5. CachedAreClean' /\ CacheBounded'
  BY <1>2 DEF CachedAreClean, CacheBounded, UniqueKeys
<1> QED BY <1>3, <1>4, <1>5

\* Every step keeps the invariant.
THEOREM NextInv == IInv /\ [Next]_vars => IInv'
<1> SUFFICES ASSUME IInv, [Next]_vars PROVE IInv'
  OBVIOUS
<1>0. setup' = setup /\ setup.columns \subseteq Pos
  BY BoundsAssumption DEF Next, vars, IInv, TypeOK, Setup
<1>1. ASSUME NEW p \in setup.columns, Client(p) PROVE IInv'
  BY <1>0, <1>1, GetStep, AddStep, EditStep, AddRefStep, ReleaseStep, RequestLoadStep DEF Client
<1>2. ASSUME NEW c \in Capacities, SetCacheCapacity(c) PROVE IInv'
  BY <1>0, <1>2, SetCacheCapacityStep
<1>3. CASE GameLoop
  BY <1>0, <1>3, TickStep, ProcessSaveQueueStep, QueueSaveStep DEF GameLoop
<1>4. CASE SaveThread
  BY <1>0, <1>4, WriteColumnStep, OnSaveCompleteStep, OnSaveFailedStep DEF SaveThread
<1>5. CASE LoadThread
  BY <1>0, <1>5, ReadColumnStep, OnLoadCompleteStep DEF LoadThread
<1>6. ASSUME NEW r \in Regions, Reopen(r) PROVE IInv'
  BY <1>0, <1>6, ReopenStep
<1>7. CASE UNCHANGED vars
  BY <1>7 DEF vars, state, manager, io, clients, IInv, TypeOK, SingleResidence, CachedAreClean,
              CacheBounded, HasKey, UniqueKeys
<1> QED BY <1>1, <1>2, <1>3, <1>4, <1>5, <1>6, <1>7 DEF Next

\* ColumnManager keeps its type invariant, never holds a column twice, caches
\* only clean and unreferenced columns and keeps its cache within bounds, for
\* any number of columns, any capacities and any behaviour of its clients.
THEOREM Residence ==
    Spec => [](TypeOK /\ SingleResidence /\ CachedAreClean /\ CacheBounded)
<1>1. IInv => TypeOK /\ SingleResidence /\ CachedAreClean /\ CacheBounded
  BY DEF IInv
<1> QED BY InitInv, NextInv, <1>1, PTL DEF Spec
----------------------------------------------------------------------------
\* Where the save of a position is on its way to the save thread's callback.
LEMMA SaveTravels ==
    ASSUME TypeOK, RefusedOnlyWhileSaving, [Next]_vars
    PROVE  RefusedOnlyWhileSaving'
<1> SUFFICES ASSUME NEW p \in saving' PROVE SaveOutstanding(p)'
  BY DEF RefusedOnlyWhileSaving
<1> USE DEF SaveOutstanding
<1>1. ASSUME UNCHANGED <<saving, toSave, saveJobs, saver>> PROVE SaveOutstanding(p)'
  BY <1>1 DEF RefusedOnlyWhileSaving
<1>2. CASE ProcessSaveQueue
  <2>1. /\ toSave' \in Drained /\ toSave = <<>>
        /\ saving' = saving \union ToSet(toSave')
        /\ saveJobs' = saveJobs /\ saver' = saver
    BY <1>2 DEF ProcessSaveQueue
  <2>2. ToSet(toSave') = {toSave'[i] : i \in 1..Len(toSave')}
    BY <2>1, DrainedLemma
  <2>3. CASE p \in ToSet(toSave')
    BY <2>2, <2>3
  <2>4. CASE p \in saving
    BY <2>1, <2>4 DEF RefusedOnlyWhileSaving
  <2> QED BY <2>1, <2>3, <2>4
<1>3. CASE QueueSave
  <2>1. PICK v \in Readable(Head(toSave)) :
           saveJobs' = Append(saveJobs, [pos |-> Head(toSave), ver |-> v])
    BY <1>3 DEF QueueSave
  <2> DEFINE job == [pos |-> Head(toSave), ver |-> v]
  <2>2. /\ Len(toSave') = Len(toSave) - 1
        /\ \A i \in 1..Len(toSave') : toSave'[i] = toSave[i + 1]
        /\ Head(toSave) = toSave[1]
    BY <1>3, HeadTailProperties DEF QueueSave, TypeOK
  <2>3. /\ Len(saveJobs') = Len(saveJobs) + 1
        /\ \A i \in 1..Len(saveJobs) : saveJobs'[i] = saveJobs[i]
        /\ saveJobs'[Len(saveJobs) + 1] = job
        /\ Len(saveJobs) \in Nat
    BY <2>1, AppendProperties, LenProperties DEF TypeOK, SaveJob
  <2>4. saver' = saver /\ p \in saving /\ Len(toSave) \in Nat
    BY <1>3, LenProperties DEF QueueSave, manager, TypeOK
  <2>5. SaveOutstanding(p)
    BY <2>4 DEF RefusedOnlyWhileSaving
  <2>6. CASE \E i \in 1..Len(toSave) : toSave[i] = p
    <3>1. PICK i \in 1..Len(toSave) : toSave[i] = p
      BY <2>6
    <3>2. CASE i = 1
      <4>1. saveJobs'[Len(saveJobs) + 1].pos = p /\ Len(saveJobs) + 1 \in 1..Len(saveJobs')
        BY <2>2, <2>3, <3>1, <3>2
      <4> QED BY <4>1
    <3>3. CASE i # 1
      <4>1. i - 1 \in 1..Len(toSave') /\ toSave'[i - 1] = p
        BY <2>2, <2>4, <3>1, <3>3
      <4> QED BY <4>1
    <3> QED BY <3>2, <3>3
  <2>7. CASE \E i \in 1..Len(saveJobs) : saveJobs[i].pos = p
    BY <2>3, <2>7
  <2>8. CASE saver # None /\ saver.pos = p
    BY <2>4, <2>8
  <2> QED BY <2>5, <2>6, <2>7, <2>8
<1>4. ASSUME NEW ok \in BOOLEAN, WriteColumn(ok) PROVE SaveOutstanding(p)'
  <2>1. /\ Len(saveJobs') = Len(saveJobs) - 1
        /\ \A i \in 1..Len(saveJobs') : saveJobs'[i] = saveJobs[i + 1]
        /\ Head(saveJobs) = saveJobs[1] /\ Head(saveJobs) \in SaveJob
        /\ Len(saveJobs) \in Nat
    BY <1>4, HeadTailProperties, LenProperties DEF WriteColumn, TypeOK
  <2>2. /\ saver = None /\ saver' = [pos |-> Head(saveJobs).pos, ok |-> ok]
        /\ toSave' = toSave /\ p \in saving
    BY <1>4 DEF WriteColumn, manager
  <2>3. saver' # None
    BY <2>1, <2>2, NoneAssumption DEF SaveJob, SaveResult
  <2>4. SaveOutstanding(p)
    BY <2>2 DEF RefusedOnlyWhileSaving
  <2>5. CASE \E i \in 1..Len(toSave) : toSave[i] = p
    BY <2>2, <2>5
  <2>6. CASE \E i \in 1..Len(saveJobs) : saveJobs[i].pos = p
    <3>1. PICK i \in 1..Len(saveJobs) : saveJobs[i].pos = p
      BY <2>6
    <3>2. CASE i = 1
      BY <2>1, <2>2, <2>3, <3>1, <3>2
    <3>3. CASE i # 1
      <4>1. i - 1 \in 1..Len(saveJobs') /\ saveJobs'[i - 1].pos = p
        BY <2>1, <3>1, <3>3
      <4> QED BY <4>1
    <3> QED BY <3>2, <3>3
  <2> QED BY <2>2, <2>4, <2>5, <2>6
<1>5. CASE OnSaveComplete \/ OnSaveFailed
  <2>1. /\ p \in saving /\ p # saver.pos /\ saver # None
        /\ UNCHANGED <<toSave, saveJobs>>
    BY <1>5 DEF OnSaveComplete, OnSaveFailed
  <2> QED BY <2>1 DEF RefusedOnlyWhileSaving
<1>6. CASE \E q \in setup.columns : Client(q)
  <2>1. PICK q \in setup.columns : Client(q)
    BY <1>6
  <2>2. UNCHANGED <<saving, toSave, saveJobs, saver>>
    BY <2>1 DEF Client, Get, Add, Edit, AddRef, Release, RequestLoad, manager, io
  <2> QED BY <1>1, <2>2
<1>7. CASE \/ \E c \in Capacities : SetCacheCapacity(c)
           \/ \E r \in Regions : Reopen(r)
           \/ Tick \/ LoadThread \/ UNCHANGED vars
  <2>1. UNCHANGED <<saving, toSave, saveJobs, saver>>
    BY <1>7 DEF SetCacheCapacity, Reopen, Tick, LoadThread, ReadColumn, OnLoadComplete,
                vars, state, manager, io
  <2> QED BY <1>1, <2>1
<1> QED BY <1>2, <1>3, <1>4, <1>5, <1>6, <1>7 DEF Next, GameLoop, SaveThread

\* get() and requestLoad() refuse a position because of a save only while that
\* save is on its way to a callback that lifts the refusal, whatever clients do
\* meanwhile.
THEOREM NoStuckSaves == Spec => []RefusedOnlyWhileSaving
<1>1. Init => RefusedOnlyWhileSaving
  BY DEF Init, RefusedOnlyWhileSaving
<1>2. TypeOK /\ RefusedOnlyWhileSaving /\ [Next]_vars => RefusedOnlyWhileSaving'
  BY SaveTravels
<1>3. Spec => []TypeOK
  BY Residence, PTL
<1> QED BY <1>1, <1>2, <1>3, PTL DEF Spec

\* Memory is consistent in every reachable state: what the two theorems above
\* say of active_, the unload cache and the marks of columns being saved.
THEOREM Correctness == Spec => []MemoryIsConsistent
<1>1. TypeOK /\ SingleResidence /\ CachedAreClean /\ CacheBounded /\ RefusedOnlyWhileSaving
        => MemoryIsConsistent
  BY DEF MemoryIsConsistent
<1> QED BY Residence, NoStuckSaves, <1>1, PTL

----------------------------------------------------------------------------
\* References are counted right unless clients let other threads run between
\* get() and addRef(), or add a column that is there already: a column that is not active has none, in the cache or
\* out of it.
RefsAgree ==
    Counted =>
        /\ \A p \in Pos : IF active[p] = None THEN held[p] = 0 ELSE active[p].refs = held[p]
        /\ \A i \in 1..Len(cache) : cache[i].value.refs = 0

\* One save of a position at a time is under way, in one place; its data is
\* the newest version, which a save that succeeded has put on the disk.
SavesAreSingle ==
    /\ \A i, j \in 1..Len(toSave) : toSave[i] = toSave[j] => i = j
    /\ \A i, j \in 1..Len(saveJobs) : saveJobs[i].pos = saveJobs[j].pos => i = j
    /\ \A i \in 1..Len(toSave) :
        /\ toSave[i] \in saving
        /\ \A j \in 1..Len(saveJobs) : saveJobs[j].pos # toSave[i]
        /\ saver # None => saver.pos # toSave[i]
    /\ \A j \in 1..Len(saveJobs) :
        /\ saveJobs[j].pos \in saving
        /\ saveJobs[j].ver = latest[saveJobs[j].pos]
        /\ saver # None => saver.pos # saveJobs[j].pos
    /\ saver # None =>
        /\ saver.pos \in saving
        /\ saver.ok => disk[saver.pos] = latest[saver.pos]

\* One load of a position at a time is under way, of a column that is not in
\* memory, and what it read is the newest version.
LoadsAreSingle ==
    /\ \A i, j \in 1..Len(loadJobs) : loadJobs[i] = loadJobs[j] => i = j
    /\ \A i \in 1..Len(loadJobs) :
        /\ ~Resident(loadJobs[i])
        /\ loader # None => loader.pos # loadJobs[i]
    /\ loader # None =>
        /\ ~Resident(loader.pos)
        /\ loader.ver \in {0, latest[loader.pos]}

CachedAreCurrent == \A i \in 1..Len(cache) : cache[i].value.ver = latest[cache[i].key]

\* The states a column may be in: out of active_ and stored; dirty and waiting
\* for a tick, in the save queue, or being saved; or clean and stored.
ColumnInv(p) ==
    /\ disk[p] <= latest[p]
    /\ IF active[p] = None THEN disk[p] = latest[p] /\ p \notin saving /\ ~Queued(p)
       ELSE /\ active[p].ver = latest[p]
            /\ active[p].dirty =>
                 \/ active[p].state = "Active" /\ p \notin saving /\ ~Queued(p)
                 \/ active[p].state = "SaveQueued" /\ p \notin saving /\ Queued(p)
                 \/ active[p].state = "Saving" /\ p \in saving /\ ~Queued(p)
            /\ ~active[p].dirty =>
                 /\ disk[p] = latest[p] /\ p \notin saving /\ ~Queued(p)
                 /\ active[p].state \in {"Active", "Saving"}

CarefulInv ==
    /\ SavesAreSingle
    /\ LoadsAreSingle
    /\ CachedAreCurrent
    /\ \A p \in Pos : ColumnInv(p)

\* The inductive invariant of careful clients.
EInv == IInv /\ RefsAgree /\ (Careful => CarefulInv)
----------------------------------------------------------------------------
\* SetToSeqs() lists each element of a set once.
LEMMA SeqsLemma ==
    ASSUME NEW S, IsFiniteSet(S), NEW s \in SetToSeqs(S)
    PROVE  /\ s \in Seq(S)
           /\ \A i, j \in 1..Len(s) : s[i] = s[j] => i = j
           /\ \A x \in S : \E i \in 1..Len(s) : s[i] = x
<1> DEFINE n == Cardinality(S)
<1>1. n \in Nat
  BY FS_CardinalityType
<1>2. s \in [1..n -> S] /\ \A i, j \in 1..n : i # j => s[i] # s[j]
  BY DEF SetToSeqs
<1>3. s \in Injection(1..n, S)
  BY <1>2, Fun_IsInj
<1>4. Cardinality(1..n) = n
  BY <1>1, FS_Interval
<1>5. s \in Surjection(1..n, S)
  BY <1>3, <1>4, FS_Injection
<1>6. \A x \in S : \E i \in 1..n : s[i] = x
  BY <1>5 DEF Surjection
<1> HIDE DEF n
<1>7. s \in Seq(S) /\ Len(s) = n
  BY <1>1, <1>2
<1> QED BY <1>2, <1>6, <1>7

\* What push() adds to the save queue.
LEMMA PushQueues ==
    ASSUME TypeOK, NEW p \in Pos, Push(p)
    PROVE  \A q \in Pos : Queued(q)' <=> Queued(q) \/ q = p
<1>0. Len(saveQueue) \in Nat
  BY LenProperties DEF TypeOK
<1>1. CASE Queued(p)
  BY <1>1 DEF Push, Queued
<1>2. CASE ~Queued(p)
  <2>1. saveQueue' = Append(saveQueue, p)
    BY <1>2 DEF Push
  <2>2. /\ Len(saveQueue') = Len(saveQueue) + 1
        /\ \A i \in 1..Len(saveQueue) : saveQueue'[i] = saveQueue[i]
        /\ saveQueue'[Len(saveQueue) + 1] = p
    BY <2>1, AppendProperties DEF TypeOK
  <2>3. Len(saveQueue) + 1 \in 1..Len(saveQueue')
    BY <1>0, <2>2
  <2>4. \A i \in 1..Len(saveQueue') : i \in 1..Len(saveQueue) \/ i = Len(saveQueue) + 1
    BY <1>0, <2>2
  <2>5. \A i \in 1..Len(saveQueue) : i \in 1..Len(saveQueue')
    BY <1>0, <2>2
  <2> QED BY <2>2, <2>3, <2>4, <2>5 DEF Queued
<1> QED BY <1>1, <1>2

\* Saves under way are not disturbed by a step that concerns other columns.
LEMMA SavesFrame ==
    ASSUME SavesAreSingle, UNCHANGED <<toSave, saveJobs, saver, saving>>,
           \A q \in saving : disk'[q] = disk[q] /\ latest'[q] = latest[q]
    PROVE  SavesAreSingle'
BY DEF SavesAreSingle

\* Loads under way are not disturbed by a step that brings nothing new into
\* memory and edits only what is there.
LEMMA LoadsFrame ==
    ASSUME TypeOK, LoadsAreSingle, UNCHANGED <<loadJobs, loader>>,
           \A q \in Pos : ~Resident(q) => ~Resident(q)' /\ latest'[q] = latest[q]
    PROVE  LoadsAreSingle'
<1>1. \A i \in 1..Len(loadJobs) : loadJobs[i] \in Pos
  BY ElementOfSeq DEF TypeOK
<1>2. loader # None => loader.pos \in Pos
  BY DEF TypeOK, SaveJob
<1> QED BY <1>1, <1>2 DEF LoadsAreSingle

\* Columns stay out of memory that were not there.
LEMMA ResidentFrame ==
    ASSUME KeptFrom(cache', cache), \A q \in Pos : active'[q] # None => active[q] # None
    PROVE  \A q \in Pos : ~Resident(q) => ~Resident(q)'
BY DEF Resident, HasKey, KeptFrom

\* A cache that stays has lost nothing.
LEMMA KeptSame == ASSUME cache' = cache PROVE KeptFrom(cache', cache)
BY DEF KeptFrom

\* A cache that only lost items still holds newest versions.
LEMMA CurrentFrame ==
    ASSUME CachedAreCurrent, KeptFrom(cache', cache), latest' = latest
    PROVE  CachedAreCurrent'
BY DEF CachedAreCurrent, KeptFrom

\* A column no part of which a step changes.
LEMMA ColumnFrame ==
    ASSUME NEW q \in Pos, ColumnInv(q), active'[q] = active[q], disk'[q] = disk[q],
           latest'[q] = latest[q], q \in saving' <=> q \in saving, Queued(q)' <=> Queued(q)
    PROVE  ColumnInv(q)'
BY DEF ColumnInv

\* A step that leaves a position's column, references and cache alone.
LEMMA RefsFrame ==
    ASSUME RefsAgree, setup' = setup, KeptFrom(cache', cache),
           \A q \in Pos : /\ active'[q] = None <=> active[q] = None
                          /\ active[q] # None => active'[q].refs = active[q].refs
                          /\ held'[q] = held[q]
    PROVE  RefsAgree'
BY DEF RefsAgree, Counted, KeptFrom
----------------------------------------------------------------------------
\* At first nothing is loaded, edited or referred to.
THEOREM EditsInit == Init => EInv
<1> SUFFICES ASSUME Init PROVE EInv
  OBVIOUS
<1>1. /\ active = [p \in Pos |-> None] /\ held = [p \in Pos |-> 0]
      /\ disk = [p \in Pos |-> 0] /\ latest = [p \in Pos |-> 0]
      /\ saving = {} /\ saver = None /\ loader = None
      /\ Len(cache) = 0 /\ Len(saveQueue) = 0 /\ Len(toSave) = 0
      /\ Len(saveJobs) = 0 /\ Len(loadJobs) = 0
  BY DEF Init
<1>2. RefsAgree
  BY <1>1 DEF RefsAgree
<1>3. SavesAreSingle /\ LoadsAreSingle /\ CachedAreCurrent
  BY <1>1 DEF SavesAreSingle, LoadsAreSingle, CachedAreCurrent
<1>4. \A p \in Pos : ColumnInv(p)
  BY <1>1 DEF ColumnInv, Queued
<1> QED BY <1>2, <1>3, <1>4, InitInv DEF EInv, CarefulInv

\* What a column taken out of the cache is like.
LEMMA PeekedLemma ==
    ASSUME IInv, NEW p \in Pos, HasKey(cache, p)
    PROVE  /\ Peek(cache, p) \in ManagedColumn
           /\ ~Peek(cache, p).dirty
           /\ RefsAgree /\ Counted => Peek(cache, p).refs = 0
           /\ CachedAreCurrent => Peek(cache, p).ver = latest[p]
<1>1. PICK i \in 1..Len(cache) : cache[i].key = p /\ Peek(cache, p) = cache[i].value
  BY PeekLemma, CacheLemma DEF IInv
<1>2. cache[i].value \in ManagedColumn
  BY CacheLemma DEF IInv, Items
<1> QED BY <1>1, <1>2 DEF IInv, CachedAreClean, RefsAgree, CachedAreCurrent

\* Client calls.
LEMMA GetEdits == ASSUME EInv, setup' = setup, NEW p \in Pos, Get(p) PROVE EInv'
<1> USE DEF EInv
<1>0. /\ UNCHANGED <<capacity, saveQueue, saving, toSave, saveJobs, saver, loadJobs, loader,
                     disk, latest, held>>
      /\ Queued(p)' <=> Queued(p)
      /\ \A q \in Pos : Queued(q)' <=> Queued(q)
  BY DEF Get, io, Queued
<1>1. IInv' /\ TypeOK /\ (Careful' <=> Careful)
  BY GetStep DEF Careful, IInv
<1>2. CASE active[p] # None
  <2>1. UNCHANGED <<active, cache>>
    BY <1>2 DEF Get
  <2>2. RefsAgree'
    BY <1>0, <2>1, RefsFrame, KeptSame
  <2>3. ASSUME Careful PROVE CarefulInv'
    <3>1. \A q \in Pos : ~Resident(q) => ~Resident(q)'
      BY <2>1, ResidentFrame, KeptSame
    <3>2. SavesAreSingle' /\ LoadsAreSingle' /\ CachedAreCurrent'
      BY <1>0, <1>1, <2>1, <2>3, <3>1, SavesFrame, LoadsFrame, CurrentFrame, KeptSame DEF CarefulInv
    <3>3. \A q \in Pos : ColumnInv(q)'
      BY <1>0, <2>1, <2>3, ColumnFrame DEF CarefulInv
    <3> QED BY <3>2, <3>3 DEF CarefulInv
  <2> QED BY <1>1, <2>2, <2>3
<1>3. CASE active[p] = None
  <2> DEFINE old == Peek(cache, p)
             col == [old EXCEPT !.state = "Active"]
  <2>1. /\ HasKey(cache, p)
        /\ active' = [active EXCEPT ![p] = col]
        /\ cache' = Without(cache, p)
    BY <1>3 DEF Get, Resident
  <2>2. /\ old \in ManagedColumn /\ ~old.dirty
        /\ Counted => old.refs = 0
        /\ CachedAreCurrent => old.ver = latest[p]
    BY <2>1, PeekedLemma
  <2> HIDE DEF old
  <2>3. /\ col.ver = old.ver /\ ~col.dirty /\ col.refs = old.refs
        /\ col.state = "Active" /\ col \in ManagedColumn
    BY <2>2 DEF ManagedColumn, ColumnState
  <2>4. col # None
    BY <2>3, NoneAssumption
  <2> HIDE DEF col
  <2>5. KeptFrom(cache', cache)
    BY <2>1, WithoutLemma, CacheLemma, <1>1
  <2>6. active'[p] = col /\ \A q \in Pos : q # p => active'[q] = active[q]
    BY <2>1, <1>1 DEF TypeOK
  <2>7. RefsAgree'
    BY <1>0, <1>3, <2>2, <2>3, <2>4, <2>5, <2>6 DEF RefsAgree, Counted, KeptFrom
  <2>8. ASSUME Careful PROVE CarefulInv'
    <3>1. \A q \in Pos : ~Resident(q) => ~Resident(q)'
      BY <2>1, <2>5, <2>6 DEF Resident, HasKey, KeptFrom
    <3>2. SavesAreSingle' /\ LoadsAreSingle' /\ CachedAreCurrent'
      BY <1>0, <1>1, <2>5, <2>8, <3>1, SavesFrame, LoadsFrame, CurrentFrame DEF CarefulInv
    <3>3. ColumnInv(p)'
      BY <1>0, <1>3, <2>2, <2>3, <2>4, <2>6, <2>8 DEF CarefulInv, ColumnInv
    <3>4. \A q \in Pos : q # p => ColumnInv(q)'
      BY <1>0, <2>6, <2>8, ColumnFrame DEF CarefulInv
    <3> QED BY <3>2, <3>3, <3>4 DEF CarefulInv
  <2> QED BY <1>1, <2>7, <2>8
<1> QED BY <1>2, <1>3

\* add(): a new column is dirty and queued, and no older one can be about to be
\* loaded.
LEMMA AddEdits == ASSUME EInv, setup' = setup, NEW p \in Pos, Add(p) PROVE EInv'
<1> USE DEF EInv
<1>0. /\ UNCHANGED <<cache, capacity, saveQueue, saving, toSave, saveJobs, saver, loadJobs,
                     loader, disk, latest, held>>
      /\ active' = [active EXCEPT ![p] = Fresh(0)]
      /\ "add_again" \notin setup.liberties =>
            active[p] = None /\ disk[p] = 0 /\ ~LoadOutstanding(p)
      /\ \A q \in Pos : Queued(q)' <=> Queued(q)
  BY DEF Add, io, clients, Queued, Resident
<1>1. IInv' /\ TypeOK /\ (Careful' <=> Careful)
  BY AddStep DEF Careful, IInv
<1>2. /\ active'[p].refs = 0 /\ active'[p].ver = 0 /\ ~active'[p].dirty
      /\ active'[p].state = "Active"
      /\ active'[p] # None
      /\ \A q \in Pos : q # p => active'[q] = active[q]
  <2>1. Fresh(0) \in ManagedColumn
    BY DEF Fresh, ManagedColumn, ColumnState
  <2>2. active'[p] = Fresh(0) /\ \A q \in Pos : q # p => active'[q] = active[q]
    BY <1>0, <1>1 DEF TypeOK
  <2>3. active'[p] # None
    BY <2>1, <2>2, NoneAssumption
  <2> QED BY <2>2, <2>3 DEF Fresh
<1>3. RefsAgree'
  <2>1. Counted => active[p] = None /\ (Counted' <=> Counted)
    BY <1>0 DEF Counted
  <2> QED BY <1>0, <1>2, <2>1 DEF RefsAgree, Counted
<1>4. ASSUME Careful PROVE CarefulInv'
  <2>0. active[p] = None /\ disk[p] = 0 /\ ~LoadOutstanding(p)
    BY <1>0, <1>4 DEF Careful
  <2>1. SavesAreSingle' /\ CachedAreCurrent'
    BY <1>0, <1>4, SavesFrame, CurrentFrame, KeptSame DEF CarefulInv
  <2>2. LoadsAreSingle'
    <3>1. \A i \in 1..Len(loadJobs) : loadJobs[i] \in Pos /\ loadJobs[i] # p
      BY <1>1, <2>0, ElementOfSeq DEF TypeOK, LoadOutstanding
    <3>2. loader # None => loader.pos \in Pos /\ loader.pos # p
      BY <1>1, <2>0 DEF TypeOK, SaveJob, LoadOutstanding
    <3>3. \A q \in Pos : q # p => (Resident(q)' <=> Resident(q))
      BY <1>0, <1>2 DEF Resident, HasKey
    <3> QED BY <1>0, <1>4, <3>1, <3>2, <3>3 DEF CarefulInv, LoadsAreSingle
  <2>3. ColumnInv(p)'
    BY <1>0, <1>2, <1>4, <2>0 DEF CarefulInv, ColumnInv
  <2>4. \A q \in Pos : q # p => ColumnInv(q)'
    BY <1>0, <1>2, <1>4, ColumnFrame DEF CarefulInv
  <2> QED BY <2>1, <2>2, <2>3, <2>4 DEF CarefulInv
<1> QED BY <1>1, <1>3, <1>4

\* An edit makes a newest version; the column is in memory and is queued.
LEMMA EditEdits == ASSUME EInv, setup' = setup, NEW p \in Pos, Edit(p) PROVE EInv'
<1> USE DEF EInv
<1> DEFINE v == latest[p] + 1
           col == [active[p] EXCEPT !.ver = v, !.dirty = TRUE]
<1>0. /\ UNCHANGED <<cache, capacity, saveQueue, saving, toSave, saveJobs, saver, loadJobs,
                     loader, disk, held>>
      /\ active' = [active EXCEPT ![p] = col] /\ active[p] # None
      /\ latest' = [latest EXCEPT ![p] = v]
      /\ \A q \in Pos : Queued(q)' <=> Queued(q)
  BY DEF Edit, io, Queued
<1>1. IInv' /\ TypeOK /\ (Careful' <=> Careful)
  BY EditStep DEF Careful, IInv
<1>2. v \in Nat /\ latest[p] < v /\ latest[p] \in Nat /\ disk[p] \in Nat
  BY <1>1 DEF TypeOK
<1> HIDE DEF v
<1>3. /\ col.ver = v /\ col.dirty /\ col.refs = active[p].refs
      /\ col.state = active[p].state /\ col # None
  <2>1. active[p] \in ManagedColumn
    BY <1>0, <1>1, ActiveLemma
  <2>2. col \in ManagedColumn
    BY <1>2, <2>1 DEF ManagedColumn
  <2> QED BY <2>1, <2>2, NoneAssumption DEF ManagedColumn
<1> HIDE DEF col
<1>4. active'[p] = col /\ latest'[p] = v
  BY <1>0, <1>1 DEF TypeOK
<1>5. \A q \in Pos : q # p => active'[q] = active[q] /\ latest'[q] = latest[q]
  BY <1>0, <1>1 DEF TypeOK
<1>6. RefsAgree'
  <2>1. \A q \in Pos : /\ active'[q] = None <=> active[q] = None
                       /\ active[q] # None => active'[q].refs = active[q].refs
                       /\ held'[q] = held[q]
    BY <1>0, <1>3, <1>4, <1>5
  <2> QED BY <1>0, <2>1, RefsFrame, KeptSame
<1>7. ASSUME Careful PROVE CarefulInv'
  <2>0. p \notin saving /\ active[p].state # "Saving"
    BY <1>7 DEF Edit, Careful
  <2>1. SavesAreSingle'
    BY <1>0, <1>1, <1>5, <1>7, <2>0, SavesFrame DEF CarefulInv, TypeOK
  <2>2. LoadsAreSingle'
    <3>1. \A q \in Pos : ~Resident(q) => ~Resident(q)' /\ latest'[q] = latest[q]
      BY <1>0, <1>5 DEF Resident, HasKey
    <3> QED BY <1>0, <1>1, <1>7, <3>1, LoadsFrame DEF CarefulInv
  <2>3. CachedAreCurrent'
    <3>1. \A i \in 1..Len(cache) : cache[i].key \in Pos /\ cache[i].key # p
      BY <1>0, <1>1, <1>7, CacheLemma DEF IInv, SingleResidence, Careful, HasKey, Items
    <3> QED BY <1>0, <1>5, <1>7, <3>1 DEF CarefulInv, CachedAreCurrent
  <2>4. ColumnInv(p)'
    <3>1. disk[p] <= latest[p] /\ disk'[p] = disk[p]
      BY <1>0, <1>7 DEF CarefulInv, ColumnInv
    <3>2. disk'[p] <= latest'[p]
      BY <1>2, <1>4, <3>1
    <3>3. \/ active[p].state = "Active" /\ ~Queued(p)
          \/ active[p].state = "SaveQueued" /\ Queued(p)
      BY <1>0, <1>7, <2>0 DEF CarefulInv, ColumnInv
    <3> QED BY <1>0, <1>3, <1>4, <2>0, <3>2, <3>3 DEF ColumnInv
  <2>5. \A q \in Pos : q # p => ColumnInv(q)'
    BY <1>0, <1>5, <1>7, ColumnFrame DEF CarefulInv
  <2> QED BY <2>1, <2>2, <2>3, <2>4, <2>5 DEF CarefulInv
<1> QED BY <1>1, <1>6, <1>7

\* addRef() counts a reference of a column that is there, or that is not.
LEMMA AddRefEdits == ASSUME EInv, setup' = setup, NEW p \in Pos, AddRef(p) PROVE EInv'
<1> USE DEF EInv
<1> DEFINE col == [active[p] EXCEPT !.refs = @ + 1]
<1>0. /\ UNCHANGED <<cache, capacity, saveQueue, saving, toSave, saveJobs, saver, loadJobs,
                     loader, disk, latest>>
      /\ held' = [held EXCEPT ![p] = @ + 1]
      /\ active' = IF active[p] = None THEN active ELSE [active EXCEPT ![p] = col]
      /\ \A q \in Pos : Queued(q)' <=> Queued(q)
  BY DEF AddRef, io, Queued
<1>1. IInv' /\ TypeOK /\ (Careful' <=> Careful)
  BY AddRefStep DEF Careful, IInv
<1>2. active[p] # None => /\ col.ver = active[p].ver /\ col.dirty = active[p].dirty
                          /\ col.refs = active[p].refs + 1
                          /\ col.state = active[p].state /\ col # None
  <2> SUFFICES ASSUME active[p] # None
               PROVE  /\ col.ver = active[p].ver /\ col.dirty = active[p].dirty
                      /\ col.refs = active[p].refs + 1
                      /\ col.state = active[p].state /\ col # None
    OBVIOUS
  <2>1. active[p] \in ManagedColumn
    BY <1>1, ActiveLemma
  <2>2. col \in ManagedColumn
    BY <2>1 DEF ManagedColumn
  <2> QED BY <2>1, <2>2, NoneAssumption DEF ManagedColumn
<1> HIDE DEF col
<1>3. /\ active'[p] = IF active[p] = None THEN None ELSE col
      /\ held'[p] = held[p] + 1
      /\ \A q \in Pos : q # p => active'[q] = active[q] /\ held'[q] = held[q]
  BY <1>0, <1>1 DEF TypeOK
<1>4. RefsAgree'
  <2> SUFFICES ASSUME Counted PROVE RefsAgree'
    BY DEF RefsAgree, Counted
  <2>1. active[p] # None
    BY DEF AddRef, Counted
  <2>2. \A q \in Pos : IF active[q] = None THEN held[q] = 0 ELSE active[q].refs = held[q]
    BY DEF RefsAgree
  <2>3. active'[p] # None /\ active'[p].refs = held'[p]
    BY <1>2, <1>3, <2>1, <2>2
  <2>4. \A q \in Pos : IF active'[q] = None THEN held'[q] = 0 ELSE active'[q].refs = held'[q]
    BY <1>3, <2>2, <2>3
  <2>5. \A i \in 1..Len(cache') : cache'[i].value.refs = 0
    BY <1>0 DEF RefsAgree
  <2> QED BY ONLY <2>4, <2>5 DEF RefsAgree
<1>5. ASSUME Careful PROVE CarefulInv'
  <2>1. \A q \in Pos : ~Resident(q) => ~Resident(q)'
    BY <1>0, <1>2, <1>3, ResidentFrame, KeptSame
  <2>2. SavesAreSingle' /\ LoadsAreSingle' /\ CachedAreCurrent'
    BY <1>0, <1>1, <1>5, <2>1, SavesFrame, LoadsFrame, CurrentFrame, KeptSame DEF CarefulInv
  <2>3. ColumnInv(p)'
    BY <1>0, <1>2, <1>3, <1>5 DEF CarefulInv, ColumnInv
  <2>4. \A q \in Pos : q # p => ColumnInv(q)'
    BY <1>0, <1>3, <1>5, ColumnFrame DEF CarefulInv
  <2> QED BY <2>2, <2>3, <2>4 DEF CarefulInv
<1> QED BY <1>1, <1>4, <1>5

\* What transitionToUnloadCache() may do to active_ and the cache.
LEMMA UnloadEffect ==
    ASSUME IInv, NEW p \in Pos, NEW col \in ManagedColumn, active[p] # None,
           \E pinned \in MayPin : TransitionToUnloadCache(p, col, pinned)
    PROVE  /\ saveQueue' = saveQueue
           /\ active'[p] = col \/ active'[p] = None
           /\ \A q \in Pos : q # p => active'[q] = active[q]
           /\ \A i \in 1..Len(cache') :
                 \/ \E j \in 1..Len(cache) : cache'[i] = cache[j]
                 \/ /\ cache'[i].key = p
                    /\ cache'[i].value.ver = col.ver /\ cache'[i].value.refs = col.refs
<1>0. active \in [Pos -> ManagedColumn \union {None}]
  BY DEF IInv, TypeOK
<1>1. PICK pinned \in BOOLEAN : TransitionToUnloadCache(p, col, pinned)
  BY BoundsAssumption
<1>2. CASE pinned
  BY <1>0, <1>1, <1>2 DEF TransitionToUnloadCache
<1>3. CASE ~pinned
  <2> DEFINE v == [col EXCEPT !.state = "UnloadQueued"]
             new == Put(cache, capacity, p, v)
  <2>1. cache' = new /\ active' = [active EXCEPT ![p] = None] /\ saveQueue' = saveQueue
    BY <1>1, <1>3 DEF TransitionToUnloadCache
  <2>2. v \in ManagedColumn /\ v.ver = col.ver /\ v.refs = col.refs
    BY DEF ManagedColumn, ColumnState
  <2> HIDE DEF v
  <2>3. \A i \in 1..Len(new) : new[i] = Item(p, v) \/ \E j \in 1..Len(cache) : new[i] = cache[j]
    BY <2>2, CacheLemma, PutLemma DEF IInv, CacheBounded
  <2> HIDE DEF new
  <2> QED BY <1>0, <2>1, <2>2, <2>3 DEF Item
<1> QED BY <1>2, <1>3

\* The clean column p, whose newest version is stored, leaves active_ unless it
\* is pinned: nothing of the invariant is lost.
LEMMA UnloadEdits ==
    ASSUME EInv, setup' = setup, NEW p \in Pos, NEW col \in ManagedColumn, active[p] # None,
           \E pinned \in MayPin : TransitionToUnloadCache(p, col, pinned),
           ~col.dirty, col.ver = active[p].ver,
           Counted => col.refs = 0 /\ held'[p] = 0,
           \A q \in Pos : q # p => held'[q] = held[q] /\ (q \in saving' <=> q \in saving),
           Careful => /\ disk[p] = latest[p] /\ p \notin saving' /\ ~Queued(p)
                      /\ col.state \in {"Active", "Saving"},
           UNCHANGED <<disk, latest, loadJobs, loader>>
    PROVE  /\ RefsAgree'
           /\ Careful => /\ LoadsAreSingle' /\ CachedAreCurrent'
                         /\ \A q \in Pos : ColumnInv(q)'
<1> USE DEF EInv
<1>1. /\ saveQueue' = saveQueue
      /\ active'[p] = col \/ active'[p] = None
      /\ \A q \in Pos : q # p => active'[q] = active[q]
      /\ \A i \in 1..Len(cache') :
            \/ \E j \in 1..Len(cache) : cache'[i] = cache[j]
            \/ /\ cache'[i].key = p
               /\ cache'[i].value.ver = col.ver /\ cache'[i].value.refs = col.refs
  BY UnloadEffect
<1>2. RefsAgree'
  <2> SUFFICES ASSUME Counted
               PROVE  /\ \A q \in Pos : IF active'[q] = None THEN held'[q] = 0
                                        ELSE active'[q].refs = held'[q]
                      /\ \A i \in 1..Len(cache') : cache'[i].value.refs = 0
    BY DEF RefsAgree, Counted
  <2>1. \A i \in 1..Len(cache') : cache'[i].value.refs = 0
    BY <1>1 DEF RefsAgree
  <2>2. \A q \in Pos : IF active'[q] = None THEN held'[q] = 0 ELSE active'[q].refs = held'[q]
    BY <1>1 DEF RefsAgree
  <2> QED BY <2>1, <2>2
<1>3. ASSUME Careful
      PROVE  LoadsAreSingle' /\ CachedAreCurrent' /\ \A q \in Pos : ColumnInv(q)'
  <2>1. CachedAreCurrent'
    <3>1. col.ver = latest[p]
      BY <1>3 DEF CarefulInv, ColumnInv
    <3>2. CachedAreCurrent
      BY <1>3 DEF CarefulInv
    <3> QED BY <1>1, <3>1, <3>2 DEF CachedAreCurrent
  <2>2. LoadsAreSingle'
    <3>1. \A q \in Pos : ~Resident(q) => ~Resident(q)' /\ latest'[q] = latest[q]
      BY <1>1 DEF Resident, HasKey
    <3> QED BY <1>3, <3>1, LoadsFrame DEF CarefulInv, IInv
  <2>3. Queued(p)' <=> Queued(p)
    BY <1>1 DEF Queued
  <2>4. ColumnInv(p)'
    BY <1>1, <1>3, <2>3 DEF CarefulInv, ColumnInv
  <2>5. ASSUME NEW q \in Pos, q # p PROVE ColumnInv(q)'
    <3>1. Queued(q)' <=> Queued(q)
      BY <1>1 DEF Queued
    <3>2. ColumnInv(q)
      BY <1>3 DEF CarefulInv
    <3> QED BY <1>1, <2>5, <3>1, <3>2, ColumnFrame
  <2> QED BY <2>1, <2>2, <2>4, <2>5
<1> QED BY <1>2, <1>3

\* release() of a clean column hands it to the cache; what is dirty stays and
\* is queued.
LEMMA ReleaseEdits == ASSUME EInv, setup' = setup, NEW p \in Pos, Release(p) PROVE EInv'
<1> USE DEF EInv
<1> DEFINE col == [active[p] EXCEPT !.refs = @ - 1]
<1>0. /\ UNCHANGED <<capacity, saving, toSave, saveJobs, saver, loadJobs, loader, disk, latest>>
      /\ held[p] > 0
      /\ held' = [held EXCEPT ![p] = @ - 1]
      /\ Careful => p \notin saving
  BY DEF Release, io, Careful
<1>1. IInv' /\ TypeOK /\ (Careful' <=> Careful)
  BY ReleaseStep DEF Careful, IInv
<1>2. held'[p] = held[p] - 1 /\ \A q \in Pos : q # p => held'[q] = held[q]
  BY <1>0, <1>1 DEF TypeOK
<1>3. ASSUME Careful PROVE SavesAreSingle'
  BY <1>0, <1>3, SavesFrame DEF CarefulInv
<1>4. CASE active[p] = None
  <2>1. UNCHANGED <<active, cache, saveQueue>>
    BY <1>4 DEF Release
  <2>2. \A q \in Pos : Queued(q)' <=> Queued(q)
    BY <2>1 DEF Queued
  <2>3. RefsAgree'
    <3>1. held[p] # 0
      BY <1>0, <1>1 DEF TypeOK
    <3> QED BY <1>0, <1>2, <1>4, <2>1, <3>1 DEF RefsAgree, Counted
  <2>4. ASSUME Careful PROVE CarefulInv'
    <3>1. \A q \in Pos : ~Resident(q) => ~Resident(q)'
      BY <2>1, ResidentFrame, KeptSame
    <3>2. LoadsAreSingle' /\ CachedAreCurrent'
      BY <1>0, <1>1, <2>1, <2>4, <3>1, LoadsFrame, CurrentFrame, KeptSame DEF CarefulInv
    <3>3. \A q \in Pos : ColumnInv(q)'
      BY <1>0, <2>1, <2>2, <2>4, ColumnFrame DEF CarefulInv
    <3> QED BY <1>3, <2>4, <3>2, <3>3 DEF CarefulInv
  <2> QED BY <1>1, <2>3, <2>4
<1>5. CASE active[p] # None
  <2>0. active[p] \in ManagedColumn /\ col \in ManagedColumn
    BY <1>1, <1>5, ActiveLemma DEF ManagedColumn
  <2>1. /\ col.ver = active[p].ver /\ col.dirty = active[p].dirty
        /\ col.refs = active[p].refs - 1 /\ col.state = active[p].state
    BY <2>0 DEF ManagedColumn
  <2>2. Counted => col.refs = held'[p] /\ held'[p] >= 0
    BY <1>0, <1>1, <1>2, <1>5, <2>1 DEF RefsAgree, TypeOK
  <2>3. IF col.refs > 0
        THEN active' = [active EXCEPT ![p] = col] /\ UNCHANGED <<cache, saveQueue>>
        ELSE IF col.dirty
             THEN TransitionToSaveQueue(p, col)
             ELSE \E pinned \in MayPin : TransitionToUnloadCache(p, col, pinned)
    BY <1>5 DEF Release, NeedsSave
  <2> HIDE DEF col
  <2>4. ASSUME NEW new \in ManagedColumn, new.ver = col.ver, new.dirty = col.dirty,
               new.refs = col.refs, active' = [active EXCEPT ![p] = new], cache' = cache,
               \A q \in Pos : q # p => (Queued(q)' <=> Queued(q)),
               Careful => ColumnInv(p)'
        PROVE  RefsAgree' /\ (Careful => CarefulInv')
    <3>1. /\ active'[p] = new /\ new # None
          /\ \A q \in Pos : q # p => active'[q] = active[q]
      BY <1>1, <2>4, NoneAssumption DEF TypeOK
    <3>2. RefsAgree'
      BY <1>2, <2>2, <2>4, <3>1 DEF RefsAgree, Counted
    <3>3. ASSUME Careful PROVE CarefulInv'
      <4>1. \A q \in Pos : ~Resident(q) => ~Resident(q)'
        BY <1>5, <2>4, <3>1, ResidentFrame, KeptSame
      <4>2. LoadsAreSingle' /\ CachedAreCurrent'
        BY <1>0, <1>1, <2>4, <3>3, <4>1, LoadsFrame, CurrentFrame, KeptSame DEF CarefulInv
      <4>3. \A q \in Pos : q # p => ColumnInv(q)'
        BY <1>0, <2>4, <3>1, <3>3, ColumnFrame DEF CarefulInv
      <4> QED BY <1>3, <2>4, <3>3, <4>2, <4>3 DEF CarefulInv
    <3> QED BY <3>2, <3>3
  <2>5. CASE col.refs > 0
    <3>1. active' = [active EXCEPT ![p] = col] /\ UNCHANGED <<cache, saveQueue>>
      BY <2>3, <2>5
    <3>2. active'[p] = col /\ col # None
      BY <1>1, <2>0, <3>1, NoneAssumption DEF TypeOK
    <3>3. \A q \in Pos : Queued(q)' <=> Queued(q)
      BY <3>1 DEF Queued
    <3>4. Careful => ColumnInv(p)'
      BY <1>0, <1>5, <2>1, <3>2, <3>3 DEF CarefulInv, ColumnInv
    <3> QED BY <1>1, <2>0, <2>4, <3>1, <3>3, <3>4
  <2>6. CASE ~(col.refs > 0) /\ col.dirty
    <3> DEFINE new == [col EXCEPT !.state = "SaveQueued"]
    <3>1. active' = [active EXCEPT ![p] = new] /\ Push(p) /\ cache' = cache
      BY <2>3, <2>6 DEF TransitionToSaveQueue
    <3>2. /\ new \in ManagedColumn /\ new.ver = col.ver /\ new.dirty = col.dirty
          /\ new.refs = col.refs /\ new.state = "SaveQueued"
      BY <2>0 DEF ManagedColumn, ColumnState
    <3> HIDE DEF new
    <3>3. active'[p] = new /\ new # None
      BY <1>1, <3>1, <3>2, NoneAssumption DEF TypeOK
    <3>4. \A q \in Pos : Queued(q)' <=> Queued(q) \/ q = p
      BY <1>1, <3>1, PushQueues
    <3>5. Careful => ColumnInv(p)'
      BY <1>0, <1>5, <2>1, <2>6, <3>2, <3>3, <3>4 DEF CarefulInv, ColumnInv
    <3> QED BY <1>1, <2>4, <3>1, <3>2, <3>4, <3>5
  <2>7. CASE ~(col.refs > 0) /\ ~col.dirty
    <3>1. \E pinned \in MayPin : TransitionToUnloadCache(p, col, pinned)
      BY <2>3, <2>7
    <3>2. Counted => col.refs = 0 /\ held'[p] = 0
      BY <2>0, <2>2, <2>7 DEF ManagedColumn
    <3>3. Careful => /\ disk[p] = latest[p] /\ p \notin saving' /\ ~Queued(p)
                     /\ col.state \in {"Active", "Saving"}
      BY <1>0, <1>5, <2>1, <2>7 DEF CarefulInv, ColumnInv
    <3>4. /\ RefsAgree'
          /\ Careful => /\ LoadsAreSingle' /\ CachedAreCurrent'
                        /\ \A q \in Pos : ColumnInv(q)'
      BY <1>0, <1>2, <1>5, <2>0, <2>1, <2>7, <3>1, <3>2, <3>3, UnloadEdits
    <3> QED BY <1>1, <1>3, <3>4 DEF CarefulInv
  <2> QED BY <2>5, <2>6, <2>7
<1> QED BY <1>4, <1>5

\* A careful client asks for a column that is not there and that nobody else is
\* loading.
LEMMA RequestLoadEdits ==
    ASSUME EInv, setup' = setup, NEW p \in Pos, RequestLoad(p) PROVE EInv'
<1> USE DEF EInv
<1>0. /\ UNCHANGED <<active, cache, capacity, saveQueue, saving, toSave, saveJobs, saver, loader,
                     disk, latest, held>>
      /\ loadJobs' = Append(loadJobs, p)
      /\ ~Resident(p)
      /\ Careful => ~LoadOutstanding(p)
      /\ \A q \in Pos : (Queued(q)' <=> Queued(q)) /\ (Resident(q)' <=> Resident(q))
  BY DEF RequestLoad, manager, clients, Refused, Careful, Queued, Resident, HasKey
<1>1. IInv' /\ TypeOK /\ (Careful' <=> Careful)
  BY RequestLoadStep DEF Careful, IInv
<1>2. RefsAgree'
  BY <1>0, RefsFrame, KeptSame
<1>3. ASSUME Careful PROVE CarefulInv'
  <2>1. SavesAreSingle' /\ CachedAreCurrent'
    BY <1>0, <1>3, SavesFrame, CurrentFrame, KeptSame DEF CarefulInv
  <2>2. \A q \in Pos : ColumnInv(q)'
    BY <1>0, <1>3, ColumnFrame DEF CarefulInv
  <2>3. LoadsAreSingle'
    <3>1. /\ Len(loadJobs') = Len(loadJobs) + 1 /\ Len(loadJobs) \in Nat
          /\ \A i \in 1..Len(loadJobs) : loadJobs'[i] = loadJobs[i] /\ loadJobs[i] \in Pos
          /\ loadJobs'[Len(loadJobs) + 1] = p
      BY <1>0, <1>1, AppendProperties, LenProperties, ElementOfSeq DEF TypeOK
    <3>2. \A i \in 1..Len(loadJobs') : i \in 1..Len(loadJobs) \/ i = Len(loadJobs) + 1
      BY <3>1
    <3>3. /\ \A i \in 1..Len(loadJobs) : loadJobs[i] # p
          /\ loader # None => loader.pos # p
      BY <1>0, <1>3 DEF LoadOutstanding
    <3>4. loader # None => loader.pos \in Pos
      BY <1>1 DEF TypeOK, SaveJob
    <3>5. LoadsAreSingle
      BY <1>3 DEF CarefulInv
    <3>6. \A i, j \in 1..Len(loadJobs') : loadJobs'[i] = loadJobs'[j] => i = j
      BY <3>1, <3>2, <3>3, <3>5 DEF LoadsAreSingle
    <3>7. \A i \in 1..Len(loadJobs') : /\ ~Resident(loadJobs'[i])
                                       /\ loader # None => loader.pos # loadJobs'[i]
      BY <1>0, <3>1, <3>2, <3>3, <3>5 DEF LoadsAreSingle
    <3>8. \A i \in 1..Len(loadJobs') : loadJobs'[i] \in Pos
      BY <3>1, <3>2
    <3> QED BY <1>0, <3>4, <3>5, <3>6, <3>7, <3>8 DEF LoadsAreSingle
  <2> QED BY <2>1, <2>2, <2>3 DEF CarefulInv
<1> QED BY <1>1, <1>2, <1>3

\* Trimming drops clean columns only.
LEMMA SetCacheCapacityEdits ==
    ASSUME EInv, setup' = setup, NEW c \in Capacities, SetCacheCapacity(c) PROVE EInv'
<1> USE DEF EInv
<1>0. /\ UNCHANGED <<active, saveQueue, saving, toSave, saveJobs, saver, loadJobs, loader,
                     disk, latest, held>>
      /\ \A q \in Pos : Queued(q)' <=> Queued(q)
  BY DEF SetCacheCapacity, io, clients, Queued
<1>1. IInv' /\ TypeOK /\ (Careful' <=> Careful)
  BY SetCacheCapacityStep DEF Careful, IInv
<1>2. KeptFrom(cache', cache)
  BY CacheLemma, CapacityAssumption, TrimLemma DEF SetCacheCapacity, IInv
<1>3. RefsAgree'
  BY <1>0, <1>2, RefsFrame
<1>4. ASSUME Careful PROVE CarefulInv'
  <2>1. \A q \in Pos : ~Resident(q) => ~Resident(q)'
    BY <1>0, <1>2, ResidentFrame
  <2>2. SavesAreSingle' /\ LoadsAreSingle' /\ CachedAreCurrent'
    BY <1>0, <1>1, <1>2, <1>4, <2>1, SavesFrame, LoadsFrame, CurrentFrame DEF CarefulInv
  <2>3. \A q \in Pos : ColumnInv(q)'
    BY <1>0, <1>4, ColumnFrame DEF CarefulInv
  <2> QED BY <2>2, <2>3 DEF CarefulInv
<1> QED BY <1>1, <1>3, <1>4

\* The game loop.
LEMMA TickEdits == ASSUME EInv, setup' = setup, Tick PROVE EInv'
<1> USE DEF EInv
<1> DEFINE S == {p \in Due : ~Queued(p)}
           queued(p) == [active[p] EXCEPT !.state = "SaveQueued"]
<1>0. /\ UNCHANGED <<cache, capacity, saving, toSave, saveJobs, saver, loadJobs, loader,
                     disk, latest, held>>
      /\ active' = [p \in Pos |-> IF p \in Due THEN queued(p) ELSE active[p]]
  BY DEF Tick, io, clients
<1>1. IInv' /\ TypeOK /\ (Careful' <=> Careful)
  BY TickStep DEF Careful, IInv
<1>2. PICK order \in SetToSeqs(S) : saveQueue' = saveQueue \o order
  BY DEF Tick
<1>3. \A q \in Pos : Queued(q)' <=> Queued(q) \/ q \in S
  <2>1. S \subseteq Pos /\ IsFiniteSet(S)
    BY PosAssumption, FS_Subset DEF Due
  <2>2. /\ order \in Seq(S)
        /\ \A x \in S : \E i \in 1..Len(order) : order[i] = x
    BY <2>1, SeqsLemma
  <2>3. /\ Len(order) \in Nat /\ order \in Seq(Pos)
        /\ \A i \in 1..Len(order) : order[i] \in S
    BY <2>1, <2>2, LenProperties, ElementOfSeq, SeqMonotonic
  <2>4. /\ Len(saveQueue) \in Nat
        /\ Len(saveQueue') = Len(saveQueue) + Len(order)
        /\ \A i \in 1..(Len(saveQueue) + Len(order)) :
              saveQueue'[i] = IF i <= Len(saveQueue) THEN saveQueue[i]
                              ELSE order[i - Len(saveQueue)]
    BY <1>1, <1>2, <2>3, ConcatProperties, LenProperties DEF TypeOK
  <2> HIDE DEF S
  <2> SUFFICES ASSUME NEW q \in Pos PROVE Queued(q)' <=> Queued(q) \/ q \in S
    OBVIOUS
  <2>5. ASSUME Queued(q)' PROVE Queued(q) \/ q \in S
    <3>1. PICK i \in 1..(Len(saveQueue) + Len(order)) : saveQueue'[i] = q
      BY <2>4, <2>5 DEF Queued
    <3>2. CASE i <= Len(saveQueue)
      BY <2>3, <2>4, <3>1, <3>2 DEF Queued
    <3>3. CASE ~(i <= Len(saveQueue))
      <4>1. i - Len(saveQueue) \in 1..Len(order)
        BY <2>3, <2>4, <3>1, <3>3
      <4> QED BY <2>3, <2>4, <3>1, <3>3, <4>1
    <3> QED BY <3>2, <3>3
  <2>6. ASSUME Queued(q) PROVE Queued(q)'
    <3>1. PICK i \in 1..Len(saveQueue) : saveQueue[i] = q
      BY <2>6 DEF Queued
    <3>2. i \in 1..(Len(saveQueue) + Len(order)) /\ i <= Len(saveQueue)
      BY <2>3, <2>4, <3>1
    <3> QED BY <2>4, <3>1, <3>2 DEF Queued
  <2>7. ASSUME q \in S PROVE Queued(q)'
    <3>1. PICK i \in 1..Len(order) : order[i] = q
      BY <2>2, <2>7
    <3> DEFINE k == Len(saveQueue) + i
    <3>2. k \in 1..(Len(saveQueue) + Len(order)) /\ ~(k <= Len(saveQueue)) /\ k - Len(saveQueue) = i
      BY <2>3, <2>4, <3>1
    <3> HIDE DEF k
    <3> QED BY <2>4, <3>1, <3>2 DEF Queued
  <2> QED BY <2>5, <2>6, <2>7
<1>4. \A q \in Due : /\ q \in Pos /\ active[q] # None /\ active[q].dirty
                     /\ active[q].state = "Active"
                     /\ queued(q) # None /\ queued(q).ver = active[q].ver
                     /\ queued(q).dirty = active[q].dirty /\ queued(q).refs = active[q].refs
                     /\ queued(q).state = "SaveQueued"
  <2> SUFFICES ASSUME NEW q \in Due
               PROVE  /\ q \in Pos /\ active[q] # None /\ active[q].dirty
                      /\ active[q].state = "Active"
                      /\ queued(q) # None /\ queued(q).ver = active[q].ver
                      /\ queued(q).dirty = active[q].dirty /\ queued(q).refs = active[q].refs
                      /\ queued(q).state = "SaveQueued"
    OBVIOUS
  <2>1. q \in Pos /\ active[q] # None /\ active[q].dirty /\ active[q].state = "Active"
    BY DEF Due
  <2>2. active[q] \in ManagedColumn
    BY <1>1, <2>1, ActiveLemma
  <2>3. queued(q) \in ManagedColumn
    BY <2>2 DEF ManagedColumn, ColumnState
  <2>4. queued(q) # None
    BY <2>3, NoneAssumption
  <2> QED BY <2>1, <2>2, <2>4 DEF ManagedColumn
<1> HIDE DEF queued
<1>5. \A q \in Pos : active'[q] = IF q \in Due THEN queued(q) ELSE active[q]
  BY <1>0
<1>6. RefsAgree'
  <2>1. \A q \in Pos : /\ active'[q] = None <=> active[q] = None
                       /\ active[q] # None => active'[q].refs = active[q].refs
                       /\ held'[q] = held[q]
    BY <1>0, <1>4, <1>5
  <2> QED BY <1>0, <2>1, RefsFrame, KeptSame
<1>7. ASSUME Careful PROVE CarefulInv'
  <2>1. \A q \in Pos : ~Resident(q) => ~Resident(q)'
    BY <1>0, <1>4, <1>5, ResidentFrame, KeptSame
  <2>2. SavesAreSingle' /\ LoadsAreSingle' /\ CachedAreCurrent'
    BY <1>0, <1>1, <1>7, <2>1, SavesFrame, LoadsFrame, CurrentFrame, KeptSame DEF CarefulInv
  <2>3. ASSUME NEW q \in Pos PROVE ColumnInv(q)'
    <3>1. ColumnInv(q)
      BY <1>7 DEF CarefulInv
    <3>2. CASE q \in Due
      <4>1. Queued(q)' /\ q \notin saving
        BY <1>3, <1>4, <3>1, <3>2 DEF ColumnInv
      <4> QED BY <1>0, <1>4, <1>5, <3>1, <3>2, <4>1 DEF ColumnInv
    <3>3. CASE q \notin Due
      BY <1>0, <1>3, <1>5, <3>1, <3>3, ColumnFrame
    <3> QED BY <3>2, <3>3
  <2> QED BY <2>2, <2>3 DEF CarefulInv
<1> QED BY <1>1, <1>6, <1>7

\* processSaveQueue() takes a queued column and marks it as being saved.
LEMMA ProcessSaveQueueEdits == ASSUME EInv, setup' = setup, ProcessSaveQueue PROVE EInv'
<1> USE DEF EInv
<1> DEFINE S == {p \in Pos : Queued(p) /\ active[p] # None}
           marked(p) == [active[p] EXCEPT !.state = "Saving"]
<1>0. /\ UNCHANGED <<cache, capacity, saveJobs, saver, loadJobs, loader, disk, latest, held>>
      /\ toSave = <<>> /\ toSave' \in SetToSeqs(S)
      /\ saveQueue' = <<>>
      /\ saving' = saving \union ToSet(toSave')
      /\ active' = [p \in Pos |-> IF p \in ToSet(toSave') THEN marked(p) ELSE active[p]]
  BY DEF ProcessSaveQueue, clients, Drained
<1>1. IInv' /\ TypeOK /\ (Careful' <=> Careful)
  BY ProcessSaveQueueStep DEF Careful, IInv
<1>2. /\ \A i, j \in 1..Len(toSave') : toSave'[i] = toSave'[j] => i = j
      /\ \A i \in 1..Len(toSave') : toSave'[i] \in S
      /\ ToSet(toSave') = S
  <2>1. S \subseteq Pos /\ IsFiniteSet(S)
    BY PosAssumption, FS_Subset
  <2> HIDE DEF S
  <2>2. PICK s \in SetToSeqs(S) : toSave' = s
    BY <1>0
  <2>3. /\ s \in Seq(S)
        /\ \A i, j \in 1..Len(s) : s[i] = s[j] => i = j
        /\ \A x \in S : \E i \in 1..Len(s) : s[i] = x
    BY <2>1, SeqsLemma
  <2>4. /\ DOMAIN s = 1..Len(s)
        /\ \A i \in 1..Len(s) : s[i] \in S
    BY <2>3, LenProperties, ElementOfSeq
  <2> QED BY <2>2, <2>3, <2>4 DEF ToSet
<1>3. \A q \in Pos : ~Queued(q)'
  BY <1>0 DEF Queued
<1>4. \A q \in S : /\ q \in Pos /\ active[q] # None /\ Queued(q)
                   /\ marked(q) # None /\ marked(q).ver = active[q].ver
                   /\ marked(q).dirty = active[q].dirty /\ marked(q).refs = active[q].refs
                   /\ marked(q).state = "Saving"
  <2> SUFFICES ASSUME NEW q \in Pos, active[q] # None
               PROVE  /\ marked(q) # None /\ marked(q).ver = active[q].ver
                      /\ marked(q).dirty = active[q].dirty /\ marked(q).refs = active[q].refs
                      /\ marked(q).state = "Saving"
    OBVIOUS
  <2>1. active[q] \in ManagedColumn
    BY <1>1, ActiveLemma
  <2>2. marked(q) \in ManagedColumn
    BY <2>1 DEF ManagedColumn, ColumnState
  <2>3. marked(q) # None
    BY <2>2, NoneAssumption
  <2> QED BY <2>1, <2>3 DEF ManagedColumn
<1>5. \A q \in Pos : ~(q \in S) => active[q] = None \/ ~Queued(q)
  OBVIOUS
<1> HIDE DEF S, marked
<1>6. \A q \in Pos : active'[q] = IF q \in S THEN marked(q) ELSE active[q]
  BY <1>0, <1>2
<1>7. RefsAgree'
  <2>1. \A q \in Pos : /\ active'[q] = None <=> active[q] = None
                       /\ active[q] # None => active'[q].refs = active[q].refs
                       /\ held'[q] = held[q]
    BY <1>0, <1>4, <1>6
  <2> QED BY <1>0, <2>1, RefsFrame, KeptSame
<1>8. ASSUME Careful PROVE CarefulInv'
  <2>0. \A q \in Pos : ColumnInv(q)
    BY <1>8 DEF CarefulInv
  <2>1. \A q \in Pos : ~Resident(q) => ~Resident(q)'
    BY <1>0, <1>4, <1>6, ResidentFrame, KeptSame
  <2>2. LoadsAreSingle' /\ CachedAreCurrent'
    BY <1>0, <1>1, <1>8, <2>1, LoadsFrame, CurrentFrame, KeptSame DEF CarefulInv
  <2>3. \A q \in S : q \notin saving /\ active[q].dirty
    BY <1>4, <2>0 DEF ColumnInv
  <2>4. \A q \in Pos : ColumnInv(q)'
    BY <1>0, <1>2, <1>3, <1>4, <1>5, <1>6, <2>0, <2>3 DEF ColumnInv
  <2>5. SavesAreSingle'
    <3>1. SavesAreSingle
      BY <1>8 DEF CarefulInv
    <3>2. \A i \in 1..Len(toSave') : toSave'[i] \notin saving /\ toSave'[i] \in saving'
      BY <1>0, <1>2, <2>3
    <3>3. \A q \in saving : q \in saving'
      BY <1>0
    <3> QED BY <1>0, <1>2, <3>1, <3>2, <3>3 DEF SavesAreSingle
  <2> QED BY <2>2, <2>4, <2>5 DEF CarefulInv
<1> QED BY <1>1, <1>7, <1>8

\* The version serialized is the newest of a column in memory.
LEMMA QueueSaveEdits == ASSUME EInv, setup' = setup, QueueSave PROVE EInv'
<1> USE DEF EInv
<1> DEFINE p == Head(toSave)
<1>0. /\ UNCHANGED <<active, cache, capacity, saveQueue, saving, saver, loadJobs, loader, disk,
                     latest, held>>
      /\ toSave # <<>> /\ toSave' = Tail(toSave)
      /\ \A q \in Pos : Queued(q)' <=> Queued(q)
  BY DEF QueueSave, manager, clients, Queued
<1>1. IInv' /\ TypeOK /\ (Careful' <=> Careful)
  BY QueueSaveStep DEF Careful, IInv
<1>2. RefsAgree'
  BY <1>0, RefsFrame, KeptSame
<1>3. ASSUME Careful PROVE CarefulInv'
  <2>1. \A q \in Pos : ~Resident(q) => ~Resident(q)'
    BY <1>0, ResidentFrame, KeptSame
  <2>2. LoadsAreSingle' /\ CachedAreCurrent'
    BY <1>0, <1>1, <1>3, <2>1, LoadsFrame, CurrentFrame, KeptSame DEF CarefulInv
  <2>3. \A q \in Pos : ColumnInv(q)'
    BY <1>0, <1>3, ColumnFrame DEF CarefulInv
  <2>4. SavesAreSingle'
    <3>0. SavesAreSingle /\ \A q \in Pos : ColumnInv(q)
      BY <1>3 DEF CarefulInv
    <3>1. PICK v \in Readable(p) : saveJobs' = Append(saveJobs, [pos |-> p, ver |-> v])
      BY DEF QueueSave
    <3>2. /\ p \in Pos /\ Len(toSave) \in Nat /\ Len(toSave) >= 1
          /\ Len(toSave') = Len(toSave) - 1
          /\ \A i \in 1..Len(toSave') : toSave'[i] = toSave[i + 1]
          /\ p = toSave[1]
      BY <1>0, <1>1, HeadTailProperties, LenProperties DEF TypeOK
    <3> HIDE DEF p
    <3>3. /\ 1 \in 1..Len(toSave)
          /\ \A i \in 1..Len(toSave') : i + 1 \in 1..Len(toSave) /\ i + 1 # 1
      BY <3>2
    <3>4. p \in saving /\ active[p] # None /\ active[p].ver = latest[p]
      BY <3>0, <3>2, <3>3 DEF SavesAreSingle, ColumnInv
    <3>5. v = latest[p]
      BY <1>3, <3>1, <3>4 DEF Readable, Careful
    <3> DEFINE job == [pos |-> p, ver |-> v]
    <3>6. job \in SaveJob
      BY <1>1, <3>2, <3>5 DEF TypeOK, SaveJob
    <3>7. /\ Len(saveJobs) \in Nat
          /\ Len(saveJobs') = Len(saveJobs) + 1
          /\ \A j \in 1..Len(saveJobs) : saveJobs'[j] = saveJobs[j]
          /\ saveJobs'[Len(saveJobs) + 1] = job
      BY <1>1, <3>1, <3>6, AppendProperties, LenProperties DEF TypeOK
    <3>8. job.pos = p /\ job.ver = latest[p]
      BY <3>5
    <3> HIDE DEF job
    <3>9. \A j \in 1..Len(saveJobs') : j \in 1..Len(saveJobs) \/ j = Len(saveJobs) + 1
      BY <3>7
    <3>10. /\ \A j \in 1..Len(saveJobs) : saveJobs[j].pos # p
           /\ saver # None => saver.pos # p
      BY <3>0, <3>2, <3>3 DEF SavesAreSingle
    <3>11. \A i, j \in 1..Len(toSave') : toSave'[i] = toSave'[j] => i = j
      <4> SUFFICES ASSUME NEW i \in 1..Len(toSave'), NEW j \in 1..Len(toSave'),
                          toSave'[i] = toSave'[j]
                   PROVE  i = j
        OBVIOUS
      <4>1. i + 1 = j + 1
        BY <3>0, <3>2, <3>3 DEF SavesAreSingle
      <4> QED BY <4>1
    <3>12. \A i, j \in 1..Len(saveJobs') : saveJobs'[i].pos = saveJobs'[j].pos => i = j
      BY <3>0, <3>7, <3>8, <3>9, <3>10 DEF SavesAreSingle
    <3>13. \A i \in 1..Len(toSave') :
              /\ toSave'[i] \in saving' /\ toSave'[i] # p
              /\ \A j \in 1..Len(saveJobs) : saveJobs[j].pos # toSave'[i]
              /\ saver # None => saver.pos # toSave'[i]
      BY <1>0, <3>0, <3>2, <3>3 DEF SavesAreSingle
    <3>14. \A i \in 1..Len(toSave') : \A j \in 1..Len(saveJobs') : saveJobs'[j].pos # toSave'[i]
      BY <3>7, <3>8, <3>9, <3>13
    <3>15. \A j \in 1..Len(saveJobs') :
              /\ saveJobs'[j].pos \in saving'
              /\ saveJobs'[j].ver = latest[saveJobs'[j].pos]
              /\ saver # None => saver.pos # saveJobs'[j].pos
      BY <1>0, <3>0, <3>4, <3>7, <3>8, <3>9, <3>10 DEF SavesAreSingle
    <3>16. saver # None => /\ saver.pos \in saving'
                           /\ saver.ok => disk[saver.pos] = latest[saver.pos]
      BY <1>0, <3>0 DEF SavesAreSingle
    <3> QED BY <1>0, <3>11, <3>12, <3>13, <3>14, <3>15, <3>16 DEF SavesAreSingle
  <2> QED BY <2>2, <2>3, <2>4 DEF CarefulInv
<1> QED BY <1>1, <1>2, <1>3

\* The IO threads.
LEMMA WriteColumnEdits ==
    ASSUME EInv, setup' = setup, NEW ok \in BOOLEAN, WriteColumn(ok)
    PROVE  /\ EInv'
           /\ Careful => \/ disk' = disk
                         \/ \E p \in Pos : /\ disk' = [disk EXCEPT ![p] = latest[p]]
                                           /\ disk[p] < latest[p]
<1> USE DEF EInv
<1> DEFINE job == Head(saveJobs)
<1>a. PICK p \in Pos : p = job.pos
  <2>1. job \in SaveJob
    BY HeadTailProperties DEF WriteColumn, IInv, TypeOK
  <2> QED BY <2>1 DEF SaveJob
<1>0. /\ UNCHANGED <<active, cache, capacity, saveQueue, saving, toSave, loadJobs, loader,
                     latest, held>>
      /\ saver = None /\ saveJobs # <<>> /\ saveJobs' = Tail(saveJobs)
      /\ saver' = [pos |-> p, ok |-> ok]
      /\ disk' = IF ok THEN [disk EXCEPT ![p] = job.ver] ELSE disk
      /\ \A q \in Pos : Queued(q)' <=> Queued(q)
  BY <1>a DEF WriteColumn, manager, clients, Queued
<1>1. IInv' /\ TypeOK /\ (Careful' <=> Careful)
  BY WriteColumnStep DEF Careful, IInv
<1>2. RefsAgree'
  BY <1>0, RefsFrame, KeptSame
<1>3. /\ job \in SaveJob /\ Len(saveJobs) \in Nat /\ Len(saveJobs) >= 1
      /\ Len(saveJobs') = Len(saveJobs) - 1
      /\ \A i \in 1..Len(saveJobs') : saveJobs'[i] = saveJobs[i + 1]
      /\ job = saveJobs[1]
  BY <1>0, <1>1, HeadTailProperties, LenProperties DEF TypeOK
<1>4. /\ 1 \in 1..Len(saveJobs)
      /\ \A i \in 1..Len(saveJobs') : i + 1 \in 1..Len(saveJobs) /\ i + 1 # 1
  BY <1>3
<1>5. saver'.pos = p /\ saver'.ok = ok /\ p \in Pos
  BY <1>0
<1>6. Careful => job.ver = latest[p] /\ p \in saving /\ disk[p] <= latest[p]
  BY <1>a, <1>3, <1>4, <1>5 DEF CarefulInv, SavesAreSingle, ColumnInv
<1> HIDE DEF job
<1>7. \A q \in Pos : q # p => disk'[q] = disk[q]
  BY <1>0, <1>1 DEF TypeOK
<1>8. Careful => disk'[p] = (IF ok THEN latest[p] ELSE disk[p])
  BY <1>0, <1>1, <1>5, <1>6 DEF TypeOK
<1>9. ASSUME Careful PROVE CarefulInv'
  <2>1. \A q \in Pos : ~Resident(q) => ~Resident(q)'
    BY <1>0, ResidentFrame, KeptSame
  <2>2. LoadsAreSingle' /\ CachedAreCurrent'
    BY <1>0, <1>1, <1>9, <2>1, LoadsFrame, CurrentFrame, KeptSame DEF CarefulInv
  <2>3. ColumnInv(p)'
    <3>1. ColumnInv(p)
      BY <1>5, <1>9 DEF CarefulInv
    <3>2. disk'[p] <= latest'[p]
      BY <1>0, <1>1, <1>5, <1>6, <1>8, <1>9 DEF TypeOK
    <3>3. disk[p] = latest[p] => disk'[p] = latest'[p]
      BY <1>0, <1>8, <1>9
    <3>4. Queued(p)' <=> Queued(p)
      BY <1>0, <1>5
    <3> QED BY <1>0, <3>1, <3>2, <3>3, <3>4 DEF ColumnInv
  <2>4. \A q \in Pos : q # p => ColumnInv(q)'
    BY <1>0, <1>7, <1>9, ColumnFrame DEF CarefulInv
  <2>5. SavesAreSingle'
    <3>0. SavesAreSingle
      BY <1>9 DEF CarefulInv
    <3>1. \A i, j \in 1..Len(saveJobs') : saveJobs'[i].pos = saveJobs'[j].pos => i = j
      <4> SUFFICES ASSUME NEW i \in 1..Len(saveJobs'), NEW j \in 1..Len(saveJobs'),
                          saveJobs'[i].pos = saveJobs'[j].pos
                   PROVE  i = j
        OBVIOUS
      <4>1. i + 1 = j + 1
        BY <3>0, <1>3, <1>4 DEF SavesAreSingle
      <4> QED BY <4>1
    <3>2. \A i \in 1..Len(toSave) :
             /\ toSave[i] \in saving /\ toSave[i] # p
             /\ \A j \in 1..Len(saveJobs') : saveJobs'[j].pos # toSave[i]
      BY <3>0, <1>a, <1>3, <1>4 DEF SavesAreSingle
    <3>3. \A j \in 1..Len(saveJobs') :
             /\ saveJobs'[j].pos \in saving /\ saveJobs'[j].pos # p
             /\ saveJobs'[j].ver = latest[saveJobs'[j].pos]
      BY <3>0, <1>a, <1>3, <1>4 DEF SavesAreSingle
    <3>4. /\ saver'.pos \in saving
          /\ saver'.ok => disk'[saver'.pos] = latest[saver'.pos]
      BY <1>5, <1>6, <1>8, <1>9
    <3> QED BY <1>0, <1>5, <3>0, <3>1, <3>2, <3>3, <3>4 DEF SavesAreSingle
  <2> QED BY <2>2, <2>3, <2>4, <2>5 DEF CarefulInv
<1>10. ASSUME Careful, disk' # disk
       PROVE  /\ p \in Pos /\ disk' = [disk EXCEPT ![p] = latest[p]]
              /\ disk[p] < latest[p]
  <2>1. disk' = [disk EXCEPT ![p] = latest[p]]
    BY <1>0, <1>6, <1>10
  <2>2. disk[p] # latest[p]
    BY <1>1, <1>5, <1>10, <2>1 DEF TypeOK
  <2>3. disk[p] \in Nat /\ latest[p] \in Nat
    BY <1>1, <1>5 DEF TypeOK
  <2> QED BY <1>5, <1>6, <1>10, <2>1, <2>2, <2>3
<1> QED BY <1>1, <1>2, <1>9, <1>10

\* The callback that ends a save of p takes p out of the saves under way.
LEMMA SaveEnds ==
    ASSUME SavesAreSingle, UNCHANGED <<toSave, saveJobs, disk, latest>>,
           saver # None, saver' = None, saving' = saving \ {saver.pos}
    PROVE  SavesAreSingle'
BY DEF SavesAreSingle

\* What onSaveComplete() marks clean is what was written, if nobody edited
\* meanwhile.
LEMMA OnSaveCompleteEdits == ASSUME EInv, setup' = setup, OnSaveComplete PROVE EInv'
<1> USE DEF EInv
<1>a. PICK p \in Pos : p = saver.pos
  BY DEF OnSaveComplete, OnSaveFailed, IInv, TypeOK, SaveResult
<1> DEFINE col == [active[p] EXCEPT !.dirty = FALSE]
<1>0. /\ UNCHANGED <<capacity, toSave, saveJobs, loadJobs, loader, disk, latest, held>>
      /\ saver # None /\ saver.ok /\ saver' = None /\ saving' = saving \ {p}
      /\ IF active[p] = None THEN UNCHANGED <<active, cache, saveQueue>>
         ELSE IF col.refs = 0
              THEN \E pinned \in MayPin : TransitionToUnloadCache(p, col, pinned)
              ELSE /\ active' = [active EXCEPT ![p] = [col EXCEPT !.state = "Active"]]
                   /\ UNCHANGED <<cache, saveQueue>>
  BY <1>a DEF OnSaveComplete, Unreferenced, clients
<1>1. IInv' /\ TypeOK /\ (Careful' <=> Careful)
  BY OnSaveCompleteStep DEF Careful, IInv
<1>2. p \in Pos
  OBVIOUS
<1>3. ASSUME Careful PROVE SavesAreSingle'
  BY <1>a, <1>0, <1>3, SaveEnds DEF CarefulInv
<1>4. Careful => /\ p \in saving /\ disk[p] = latest[p] /\ active[p] # None
                 /\ active[p].ver = latest[p] /\ active[p].state = "Saving" /\ ~Queued(p)
  BY <1>a, <1>0, <1>2 DEF CarefulInv, SavesAreSingle, ColumnInv
<1>5. CASE active[p] = None
  <2>1. UNCHANGED <<active, cache, saveQueue>>
    BY <1>0, <1>5
  <2>2. RefsAgree'
    BY <1>0, <2>1, RefsFrame, KeptSame
  <2> QED BY <1>1, <1>4, <1>5, <2>2
<1>6. CASE active[p] # None
  <2>1. active[p] \in ManagedColumn /\ col \in ManagedColumn
    BY <1>1, <1>2, <1>6, ActiveLemma DEF ManagedColumn
  <2>2. /\ col.ver = active[p].ver /\ ~col.dirty
        /\ col.refs = active[p].refs /\ col.state = active[p].state
    BY <2>1 DEF ManagedColumn
  <2> DEFINE used == [col EXCEPT !.state = "Active"]
  <2>3. /\ used \in ManagedColumn /\ used.ver = col.ver /\ ~used.dirty
        /\ used.refs = col.refs /\ used.state = "Active"
    BY <2>1, <2>2 DEF ManagedColumn, ColumnState
  <2>4. IF col.refs = 0
        THEN \E pinned \in MayPin : TransitionToUnloadCache(p, col, pinned)
        ELSE active' = [active EXCEPT ![p] = used] /\ UNCHANGED <<cache, saveQueue>>
    BY <1>0, <1>6
  <2>5. \A q \in Pos : q # p => held'[q] = held[q] /\ (q \in saving' <=> q \in saving)
    BY <1>0
  <2> HIDE DEF col, used
  <2>6. CASE col.refs = 0
    <3>1. \E pinned \in MayPin : TransitionToUnloadCache(p, col, pinned)
      BY <2>4, <2>6
    <3>2. Counted => col.refs = 0 /\ held'[p] = 0
      BY <1>0, <1>2, <1>6, <2>2, <2>6 DEF RefsAgree
    <3>3. Careful => /\ disk[p] = latest[p] /\ p \notin saving' /\ ~Queued(p)
                     /\ col.state \in {"Active", "Saving"}
      BY <1>0, <1>4, <2>2
    <3>4. /\ RefsAgree'
          /\ Careful => /\ LoadsAreSingle' /\ CachedAreCurrent'
                        /\ \A q \in Pos : ColumnInv(q)'
      BY <1>0, <1>2, <1>6, <2>1, <2>2, <2>5, <3>1, <3>2, <3>3, UnloadEdits
    <3> QED BY <1>1, <1>3, <3>4 DEF CarefulInv
  <2>7. CASE col.refs # 0
    <3>1. active' = [active EXCEPT ![p] = used] /\ UNCHANGED <<cache, saveQueue>>
      BY <2>4, <2>7
    <3>2. /\ active'[p] = used /\ used # None
          /\ \A q \in Pos : q # p => active'[q] = active[q]
      BY <1>1, <1>2, <2>3, <3>1, NoneAssumption DEF TypeOK
    <3>3. RefsAgree'
      <4>1. \A q \in Pos : /\ active'[q] = None <=> active[q] = None
                           /\ active[q] # None => active'[q].refs = active[q].refs
                           /\ held'[q] = held[q]
        BY <1>0, <1>6, <2>2, <2>3, <3>2
      <4> QED BY <3>1, <4>1, RefsFrame, KeptSame
    <3>4. ASSUME Careful PROVE CarefulInv'
      <4>0. \A q \in Pos : Queued(q)' <=> Queued(q)
        BY <3>1 DEF Queued
      <4>1. \A q \in Pos : ~Resident(q) => ~Resident(q)'
        BY <1>6, <3>1, <3>2, ResidentFrame, KeptSame
      <4>2. LoadsAreSingle' /\ CachedAreCurrent'
        BY <1>0, <1>1, <3>1, <3>4, <4>1, LoadsFrame, CurrentFrame, KeptSame DEF CarefulInv
      <4>3. ColumnInv(p)'
        <5>1. disk[p] <= latest[p]
          BY <1>2, <3>4 DEF CarefulInv, ColumnInv
        <5>2. Queued(p)' <=> Queued(p)
          BY <1>2, <4>0
        <5> QED BY <1>0, <1>4, <2>2, <2>3, <3>2, <3>4, <5>1, <5>2 DEF ColumnInv
      <4>4. \A q \in Pos : q # p => ColumnInv(q)'
        BY <1>0, <2>5, <3>2, <3>4, <4>0, ColumnFrame DEF CarefulInv
      <4> QED BY <1>3, <3>4, <4>2, <4>3, <4>4 DEF CarefulInv
    <3> QED BY <1>1, <3>3, <3>4
  <2> QED BY <2>6, <2>7
<1> QED BY <1>5, <1>6

\* A save that fails leaves the column dirty and queued.
LEMMA OnSaveFailedEdits == ASSUME EInv, setup' = setup, OnSaveFailed PROVE EInv'
<1> USE DEF EInv
<1>a. PICK p \in Pos : p = saver.pos
  BY DEF OnSaveComplete, OnSaveFailed, IInv, TypeOK, SaveResult
<1> DEFINE col == [active[p] EXCEPT !.state = "SaveQueued"]
<1>0. /\ UNCHANGED <<cache, capacity, toSave, saveJobs, loadJobs, loader, disk, latest, held>>
      /\ saver # None /\ saver' = None /\ saving' = saving \ {p}
      /\ IF active[p] = None THEN UNCHANGED <<active, saveQueue>>
         ELSE active' = [active EXCEPT ![p] = col] /\ Push(p)
  BY <1>a DEF OnSaveFailed, clients
<1>1. IInv' /\ TypeOK /\ (Careful' <=> Careful)
  BY OnSaveFailedStep DEF Careful, IInv
<1>2. p \in Pos
  OBVIOUS
<1>3. ASSUME Careful PROVE SavesAreSingle'
  BY <1>a, <1>0, <1>3, SaveEnds DEF CarefulInv
<1>4. Careful => active[p] # None /\ active[p].dirty
  BY <1>a, <1>0, <1>2 DEF CarefulInv, SavesAreSingle, ColumnInv
<1>5. CASE active[p] = None
  <2>1. UNCHANGED <<active, saveQueue>>
    BY <1>0, <1>5
  <2>2. RefsAgree'
    BY <1>0, <2>1, RefsFrame, KeptSame
  <2> QED BY <1>1, <1>4, <1>5, <2>2
<1>6. CASE active[p] # None
  <2>1. active[p] \in ManagedColumn /\ col \in ManagedColumn
    BY <1>1, <1>2, <1>6, ActiveLemma DEF ManagedColumn, ColumnState
  <2>2. /\ col.ver = active[p].ver /\ col.dirty = active[p].dirty
        /\ col.refs = active[p].refs /\ col.state = "SaveQueued"
    BY <2>1 DEF ManagedColumn
  <2> HIDE DEF col
  <2>3. /\ active'[p] = col /\ col # None
        /\ \A q \in Pos : q # p => active'[q] = active[q]
    BY <1>0, <1>1, <1>2, <1>6, <2>1, NoneAssumption DEF TypeOK
  <2>4. \A q \in Pos : Queued(q)' <=> Queued(q) \/ q = p
    BY <1>0, <1>1, <1>2, <1>6, PushQueues
  <2>5. RefsAgree'
    <3>1. \A q \in Pos : /\ active'[q] = None <=> active[q] = None
                         /\ active[q] # None => active'[q].refs = active[q].refs
                         /\ held'[q] = held[q]
      BY <1>0, <1>6, <2>2, <2>3
    <3> QED BY <1>0, <3>1, RefsFrame, KeptSame
  <2>6. ASSUME Careful PROVE CarefulInv'
    <3>1. \A q \in Pos : ~Resident(q) => ~Resident(q)'
      BY <1>0, <1>6, <2>3, ResidentFrame, KeptSame
    <3>2. LoadsAreSingle' /\ CachedAreCurrent'
      BY <1>0, <1>1, <2>6, <3>1, LoadsFrame, CurrentFrame, KeptSame DEF CarefulInv
    <3>3. ColumnInv(p)'
      <4>1. ColumnInv(p)
        BY <1>2, <2>6 DEF CarefulInv
      <4>2. Queued(p)' /\ p \notin saving'
        BY <1>0, <1>2, <2>4
      <4> QED BY <1>0, <1>4, <1>6, <2>2, <2>3, <2>6, <4>1, <4>2 DEF ColumnInv
    <3>4. \A q \in Pos : q # p => ColumnInv(q)'
      BY <1>0, <2>3, <2>4, <2>6, ColumnFrame DEF CarefulInv
    <3> QED BY <1>3, <2>6, <3>2, <3>3, <3>4 DEF CarefulInv
  <2> QED BY <1>1, <2>5, <2>6
<1> QED BY <1>5, <1>6

\* A load reads what is on the disk, and no save of the column is under way.
LEMMA ReadColumnEdits == ASSUME EInv, setup' = setup, ReadColumn PROVE EInv'
<1> USE DEF EInv
<1> DEFINE p == Head(loadJobs)
<1>0. /\ UNCHANGED <<active, cache, capacity, saveQueue, saving, toSave, saveJobs, saver, disk,
                     latest, held>>
      /\ loader = None /\ loadJobs # <<>> /\ loadJobs' = Tail(loadJobs)
      /\ \A q \in Pos : (Queued(q)' <=> Queued(q)) /\ (Resident(q)' <=> Resident(q))
  BY DEF ReadColumn, manager, clients, Queued, Resident, HasKey
<1>1. IInv' /\ TypeOK /\ (Careful' <=> Careful)
  BY ReadColumnStep DEF Careful, IInv
<1>2. RefsAgree'
  BY <1>0, RefsFrame, KeptSame
<1>3. ASSUME Careful PROVE CarefulInv'
  <2>1. SavesAreSingle' /\ CachedAreCurrent'
    BY <1>0, <1>3, SavesFrame, CurrentFrame, KeptSame DEF CarefulInv
  <2>2. \A q \in Pos : ColumnInv(q)'
    BY <1>0, <1>3, ColumnFrame DEF CarefulInv
  <2>3. LoadsAreSingle'
    <3>0. LoadsAreSingle /\ \A q \in Pos : ColumnInv(q)
      BY <1>3 DEF CarefulInv
    <3>1. /\ p \in Pos /\ Len(loadJobs) \in Nat /\ Len(loadJobs) >= 1
          /\ Len(loadJobs') = Len(loadJobs) - 1
          /\ \A i \in 1..Len(loadJobs') : loadJobs'[i] = loadJobs[i + 1]
          /\ \A i \in 1..Len(loadJobs) : loadJobs[i] \in Pos
          /\ p = loadJobs[1]
      BY <1>0, <1>1, HeadTailProperties, LenProperties, ElementOfSeq DEF TypeOK
    <3>2. /\ 1 \in 1..Len(loadJobs)
          /\ \A i \in 1..Len(loadJobs') : i + 1 \in 1..Len(loadJobs) /\ i + 1 # 1
      BY <3>1
    <3>3. PICK v \in {0, disk[p]} : loader' = [pos |-> p, ver |-> v]
      BY DEF ReadColumn
    <3> HIDE DEF p
    <3>4. ~Resident(p)
      BY <3>0, <3>1, <3>2 DEF LoadsAreSingle
    <3>5. disk[p] = latest[p]
      BY <3>0, <3>1, <3>4 DEF ColumnInv, Resident
    <3>6. loader'.pos = p /\ loader'.ver \in {0, latest[p]}
      BY <3>3, <3>5
    <3>7. \A i, j \in 1..Len(loadJobs') : loadJobs'[i] = loadJobs'[j] => i = j
      <4> SUFFICES ASSUME NEW i \in 1..Len(loadJobs'), NEW j \in 1..Len(loadJobs'),
                          loadJobs'[i] = loadJobs'[j]
                   PROVE  i = j
        OBVIOUS
      <4>1. i + 1 = j + 1
        BY <3>0, <3>1, <3>2 DEF LoadsAreSingle
      <4> QED BY <4>1
    <3>8. \A i \in 1..Len(loadJobs') :
             loadJobs'[i] \in Pos /\ ~Resident(loadJobs'[i]) /\ loadJobs'[i] # p
      BY <3>0, <3>1, <3>2 DEF LoadsAreSingle
    <3> QED BY <1>0, <3>1, <3>4, <3>6, <3>7, <3>8 DEF LoadsAreSingle
  <2> QED BY <2>1, <2>2, <2>3 DEF CarefulInv
<1> QED BY <1>1, <1>2, <1>3

\* What onLoadComplete() installs is the newest version.
LEMMA OnLoadCompleteEdits == ASSUME EInv, setup' = setup, OnLoadComplete PROVE EInv'
<1> USE DEF EInv
<1>a. PICK p \in Pos, v \in Nat : p = loader.pos /\ v = loader.ver
  BY DEF OnLoadComplete, IInv, TypeOK, SaveJob
<1> DEFINE col == Fresh(v)
<1>0. /\ UNCHANGED <<cache, capacity, saveQueue, saving, toSave, saveJobs, saver, loadJobs, disk,
                     latest, held>>
      /\ loader # None /\ loader' = None
      /\ active' = IF v > 0 /\ ~Resident(p) THEN [active EXCEPT ![p] = col] ELSE active
      /\ \A q \in Pos : Queued(q)' <=> Queued(q)
  BY <1>a DEF OnLoadComplete, clients, Queued
<1>1. IInv' /\ TypeOK /\ (Careful' <=> Careful)
  BY OnLoadCompleteStep DEF Careful, IInv
<1>2. p \in Pos /\ v \in Nat
  OBVIOUS
<1>3. Careful => v \in {0, latest[p]}
  BY <1>a, <1>0 DEF CarefulInv, LoadsAreSingle
<1>4. /\ \A i \in 1..Len(loadJobs) : loadJobs[i] \in Pos
      /\ Careful => \A i \in 1..Len(loadJobs) : loadJobs[i] # p
  BY <1>a, <1>0, <1>1, ElementOfSeq DEF TypeOK, CarefulInv, LoadsAreSingle
<1>5. col.ver = v /\ ~col.dirty /\ col.refs = 0 /\ col.state = "Active" /\ col # None
  <2>1. col \in ManagedColumn
    BY <1>2 DEF Fresh, ManagedColumn, ColumnState
  <2>2. col # None
    BY <2>1, NoneAssumption
  <2> QED BY <2>2 DEF Fresh
<1> HIDE DEF col
<1>6. CASE v > 0 /\ ~Resident(p)
  <2>1. /\ active'[p] = col /\ active[p] = None
        /\ \A q \in Pos : q # p => active'[q] = active[q]
    BY <1>0, <1>1, <1>2, <1>6 DEF TypeOK, Resident
  <2>2. RefsAgree'
    BY <1>0, <1>2, <1>5, <2>1 DEF RefsAgree, Counted
  <2>3. ASSUME Careful PROVE CarefulInv'
    <3>1. SavesAreSingle' /\ CachedAreCurrent'
      BY <1>0, <2>3, SavesFrame, CurrentFrame, KeptSame DEF CarefulInv
    <3>2. \A q \in Pos : q # p => (Resident(q)' <=> Resident(q))
      BY <1>0, <2>1 DEF Resident, HasKey
    <3>3. LoadsAreSingle'
      BY <1>0, <1>4, <2>3, <3>2 DEF CarefulInv, LoadsAreSingle
    <3>4. v = latest[p]
      BY <1>2, <1>3, <1>6, <2>3
    <3>5. ColumnInv(p)'
      <4>1. ColumnInv(p) /\ (Queued(p)' <=> Queued(p))
        BY <1>0, <1>2, <2>3 DEF CarefulInv
      <4> QED BY <1>0, <1>5, <2>1, <3>4, <4>1 DEF ColumnInv
    <3>6. \A q \in Pos : q # p => ColumnInv(q)'
      BY <1>0, <2>1, <2>3, ColumnFrame DEF CarefulInv
    <3> QED BY <3>1, <3>3, <3>5, <3>6 DEF CarefulInv
  <2> QED BY <1>1, <2>2, <2>3
<1>7. CASE ~(v > 0 /\ ~Resident(p))
  <2>1. active' = active
    BY <1>0, <1>7
  <2>2. RefsAgree'
    BY <1>0, <2>1, RefsFrame, KeptSame
  <2>3. ASSUME Careful PROVE CarefulInv'
    <3>1. SavesAreSingle' /\ CachedAreCurrent'
      BY <1>0, <2>3, SavesFrame, CurrentFrame, KeptSame DEF CarefulInv
    <3>2. \A q \in Pos : Resident(q)' <=> Resident(q)
      BY <1>0, <2>1 DEF Resident, HasKey
    <3>3. LoadsAreSingle'
      BY <1>0, <1>4, <2>3, <3>2 DEF CarefulInv, LoadsAreSingle
    <3>4. \A q \in Pos : ColumnInv(q)'
      BY <1>0, <2>1, <2>3, ColumnFrame DEF CarefulInv
    <3> QED BY <3>1, <3>3, <3>4 DEF CarefulInv
  <2> QED BY <1>1, <2>2, <2>3
<1> QED BY <1>6, <1>7

\* A step that leaves columns, queues and references alone.
LEMMA SameColumns ==
    ASSUME EInv, IInv',
           UNCHANGED <<setup, active, cache, saveQueue, saving, toSave, saveJobs, saver, loadJobs,
                       loader, disk, latest, held>>
    PROVE  EInv'
<1>1. Careful' <=> Careful
  BY DEF Careful
<1>2. RefsAgree'
  BY RefsFrame, KeptSame DEF EInv
<1>3. ASSUME Careful PROVE CarefulInv'
  <2>1. \A q \in Pos : (Queued(q)' <=> Queued(q)) /\ (~Resident(q) => ~Resident(q)')
    BY DEF Queued, Resident, HasKey
  <2>2. SavesAreSingle' /\ LoadsAreSingle' /\ CachedAreCurrent'
    BY <1>3, <2>1, SavesFrame, LoadsFrame, CurrentFrame, KeptSame DEF EInv, IInv, CarefulInv
  <2>3. \A q \in Pos : ColumnInv(q)'
    BY <1>3, <2>1, ColumnFrame DEF EInv, CarefulInv
  <2> QED BY <2>2, <2>3 DEF CarefulInv
<1> QED BY <1>1, <1>2, <1>3 DEF EInv

\* A region file is opened again.
LEMMA ReopenEdits == ASSUME EInv, setup' = setup, NEW r, Reopen(r) PROVE EInv'
<1>1. IInv'
  BY ReopenStep DEF EInv
<1>2. /\ UNCHANGED <<active, cache, saveQueue, saving, toSave, saveJobs, saver, loadJobs,
                     loader, disk, latest, held>>
      /\ Careful' <=> Careful
  BY DEF Reopen, manager, clients, Careful
<1> QED BY <1>1, <1>2, SameColumns

----------------------------------------------------------------------------
\* What a step of the whole system may do.
THEOREM EditsNext == EInv /\ [Next]_vars => EInv'
<1> SUFFICES ASSUME EInv, [Next]_vars PROVE EInv'
  OBVIOUS
<1>0. setup' = setup /\ setup.columns \subseteq Pos
  BY BoundsAssumption DEF Next, vars, EInv, IInv, TypeOK, Setup
<1>1. ASSUME NEW p \in setup.columns, Client(p) PROVE EInv'
  BY <1>0, <1>1, GetEdits, AddEdits, EditEdits, AddRefEdits, ReleaseEdits, RequestLoadEdits
     DEF Client
<1>2. ASSUME NEW c \in Capacities, SetCacheCapacity(c) PROVE EInv'
  BY <1>0, <1>2, SetCacheCapacityEdits
<1>3. CASE GameLoop
  BY <1>0, <1>3, TickEdits, ProcessSaveQueueEdits, QueueSaveEdits DEF GameLoop
<1>4. CASE SaveThread
  BY <1>0, <1>4, WriteColumnEdits, OnSaveCompleteEdits, OnSaveFailedEdits DEF SaveThread
<1>5. CASE LoadThread
  BY <1>0, <1>5, ReadColumnEdits, OnLoadCompleteEdits DEF LoadThread
<1>6. ASSUME NEW r \in Regions, Reopen(r) PROVE EInv'
  BY <1>0, <1>6, ReopenEdits
<1>7. CASE UNCHANGED vars
  <2>1. IInv'
    BY <1>7, NextInv DEF EInv
  <2>2. /\ UNCHANGED <<setup, active, cache, saveQueue, saving, toSave, saveJobs, saver, loadJobs,
                       loader, disk, latest, held>>
        /\ Careful' <=> Careful
    BY <1>7 DEF vars, state, manager, io, clients, Careful
  <2> QED BY <2>1, <2>2, SameColumns
<1> QED BY <1>1, <1>2, <1>3, <1>4, <1>5, <1>6, <1>7 DEF Next

\* What the inductive invariant says of what clients see.
LEMMA EditsSafe == EInv => EditsAreSafe
<1> SUFFICES ASSUME EInv PROVE EditsAreSafe
  OBVIOUS
<1> USE DEF EInv
<1>1. ASSUME Careful, NEW p \in Pos PROVE Visible(p) = latest[p]
  <2>1. ColumnInv(p) /\ CachedAreCurrent
    BY <1>1 DEF CarefulInv
  <2>2. CASE active[p] # None
    BY <2>1, <2>2 DEF Visible, ColumnInv
  <2>3. CASE active[p] = None /\ HasKey(cache, p)
    BY <2>1, <2>3, PeekedLemma DEF Visible
  <2>4. CASE active[p] = None /\ ~HasKey(cache, p)
    BY <2>1, <2>4 DEF Visible, ColumnInv
  <2> QED BY <2>2, <2>3, <2>4
<1>2. ASSUME Careful, NEW p \in Pos, LoadOutstanding(p), SaveOutstanding(p) PROVE FALSE
  <2>1. ~Resident(p)
    BY <1>2 DEF LoadOutstanding, CarefulInv, LoadsAreSingle
  <2>2. p \in saving
    BY <1>2 DEF SaveOutstanding, CarefulInv, SavesAreSingle
  <2> QED BY <1>2, <2>1, <2>2 DEF Resident, CarefulInv, ColumnInv
<1>3. ASSUME Careful, NEW p \in Pos, active[p] # None, active[p].dirty
      PROVE  active[p].state = "Active" \/ Queued(p) \/ p \in saving
  BY <1>3 DEF CarefulInv, ColumnInv
<1>4. ASSUME Counted, NEW p \in Pos, held[p] > 0
      PROVE  active[p] # None /\ active[p].refs = held[p]
  <2>1. held[p] # 0
    BY <1>4 DEF IInv, TypeOK
  <2> QED BY <1>4, <2>1 DEF RefsAgree
<1> QED BY <1>1, <1>2, <1>3, <1>4
        DEF EditsAreSafe, NoEditLost, NoLoadWhileSaving, DirtyAreScheduled, ReferencedStaysActive

\* Every reachable state satisfies the inductive invariant.
LEMMA EditsInv == Spec => []EInv
BY EditsInit, EditsNext, PTL DEF Spec

\* What careful clients rely on holds in every reachable state: every edit is
\* visible, scheduled to be saved, not overtaken by a load of an older version,
\* and a column a client refers to stays in active_.
THEOREM EditsSurvive == Spec => []EditsAreSafe
BY EditsInv, EditsSafe, PTL

\* Steps other than edits and writes change neither what clients made nor what
\* is stored.
LEMMA QuietStep ==
    ASSUME [Next]_vars
    PROVE  \/ \E p \in setup.columns : Edit(p)
           \/ \E ok \in BOOLEAN : WriteColumn(ok)
           \/ latest' = latest /\ disk' = disk
<1>1. ASSUME NEW p \in setup.columns, Client(p)
      PROVE  Edit(p) \/ (latest' = latest /\ disk' = disk)
  BY <1>1 DEF Client, Get, Add, AddRef, Release, RequestLoad, io, clients
<1>2. ASSUME NEW c \in Capacities, SetCacheCapacity(c) PROVE latest' = latest /\ disk' = disk
  BY <1>2 DEF SetCacheCapacity, io, clients
<1>3. CASE GameLoop
  BY <1>3 DEF GameLoop, Tick, ProcessSaveQueue, QueueSave, io, clients
<1>4. CASE SaveThread
  BY <1>4 DEF SaveThread, OnSaveComplete, OnSaveFailed, clients
<1>5. CASE LoadThread
  BY <1>5 DEF LoadThread, ReadColumn, OnLoadComplete, clients
<1>6. ASSUME NEW r, Reopen(r) PROVE latest' = latest /\ disk' = disk
  BY <1>6 DEF Reopen, clients
<1>7. CASE UNCHANGED vars
  BY <1>7 DEF vars, state, io, clients
<1> QED BY <1>1, <1>2, <1>3, <1>4, <1>5, <1>6, <1>7 DEF Next

\* ColumnManager with its IOManager implements ColumnStore: an edit is a Write,
\* a successful write of a newer version is a Persist, and everything else, all
\* of saving, caching, evicting and loading, is invisible.
THEOREM ImplementsColumnStore == Spec => ImplementsStore
<1> DEFINE C == [p \in Pos |-> IF Careful THEN Visible(p) ELSE 0]
           D == [p \in Pos |-> IF Careful THEN disk[p] ELSE 0]
<1>1. Init => Store!Init
  <2> SUFFICES ASSUME Init PROVE Store!Init
    OBVIOUS
  <2>1. \A p \in Pos : Visible(p) = 0 /\ disk[p] = 0
    BY DEF Init, Visible, HasKey
  <2> QED BY <2>1 DEF Store!Init
<1>2. EInv /\ EInv' /\ [Next]_vars => [Store!Next]_<<C, D>>
  <2> SUFFICES ASSUME EInv, EInv', [Next]_vars PROVE [Store!Next]_<<C, D>>
    OBVIOUS
  <2>0. setup' = setup /\ setup.columns \subseteq Pos /\ (Careful' <=> Careful)
    BY BoundsAssumption DEF Next, vars, EInv, IInv, TypeOK, Setup, Careful
  <2>1. CASE ~Careful
    <3>1. C' = C /\ D' = D
      BY <2>0, <2>1
    <3> QED BY <3>1
  <2>2. CASE Careful
    <3>1. /\ C = [p \in Pos |-> latest[p]] /\ D = [p \in Pos |-> disk[p]]
          /\ C' = [p \in Pos |-> latest'[p]] /\ D' = [p \in Pos |-> disk'[p]]
      <4>1. \A p \in Pos : Visible(p) = latest[p]
        BY <2>2, EditsSafe DEF EditsAreSafe, NoEditLost
      <4>2. (\A p \in Pos : Visible(p) = latest[p])'
        <5>1. EditsAreSafe'
          BY EditsSafe, PTL
        <5> QED BY <2>0, <2>2, <5>1 DEF EditsAreSafe, NoEditLost
      <4> QED BY <2>0, <2>2, <4>1, <4>2
    <3> HIDE DEF C, D
    <3>2. latest \in [Pos -> Nat] /\ disk \in [Pos -> Nat] /\ C = latest /\ D = disk
      BY <3>1 DEF EInv, IInv, TypeOK
    <3>3. C' = latest' /\ D' = disk'
      BY <3>1 DEF EInv, IInv, TypeOK
    <3>4. ASSUME NEW p \in setup.columns, Edit(p) PROVE Store!Next
      <4>1. latest' = [latest EXCEPT ![p] = latest[p] + 1] /\ disk' = disk
        BY <3>4 DEF Edit, io
      <4>2. C' = [C EXCEPT ![p] = @ + 1] /\ D' = D
        BY <3>2, <3>3, <4>1
      <4> QED BY <2>0, <4>2 DEF Store!Next, Store!Write, C, D
    <3>5. ASSUME NEW ok \in BOOLEAN, WriteColumn(ok) PROVE [Store!Next]_<<C, D>>
      <4>1. latest' = latest
        BY <3>5 DEF WriteColumn, clients
      <4>2. CASE disk' = disk
        BY <3>2, <3>3, <4>1, <4>2
      <4>3. CASE disk' # disk
        <5>1. PICK p \in Pos : disk' = [disk EXCEPT ![p] = latest[p]] /\ disk[p] < latest[p]
          BY <2>0, <2>2, <3>5, <4>3, WriteColumnEdits
        <5>2. C' = C /\ D' = [D EXCEPT ![p] = C[p]] /\ C[p] \in (D[p] + 1)..C[p]
          BY <3>2, <3>3, <4>1, <5>1
        <5> QED BY <5>2 DEF Store!Next, Store!Persist, C, D
      <4> QED BY <4>2, <4>3
    <3>6. CASE latest' = latest /\ disk' = disk
      BY <3>2, <3>3, <3>6
    <3> QED BY <3>4, <3>5, <3>6, QuietStep
  <2> QED BY <2>1, <2>2
<1> QED BY <1>1, <1>2, EditsInv, PTL DEF Spec, ImplementsStore, Store!Spec
=============================================================================
