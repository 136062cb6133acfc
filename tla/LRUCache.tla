------------------------------ MODULE LRUCache ------------------------------
(***************************************************************************)
(* The LRUCache container of include/finevox/core/lru_cache.hpp as pure    *)
(* operators.  A cache is its item list, a sequence of [key, value]        *)
(* records with the most recently used item first; index_ is not state of  *)
(* its own but the map from keys to list positions, here IndexOf.          *)
(***************************************************************************)
EXTENDS Naturals, Sequences, SequencesExt

Item(k, v) == [key |-> k, value |-> v]

HasKey(items, k) == \E i \in 1..Len(items) : items[i].key = k

UniqueKeys(items) == \A i, j \in 1..Len(items) : items[i].key = items[j].key => i = j

IndexOf(items, k) == CHOOSE i \in 1..Len(items) : items[i].key = k

\* peek(): the value, the order is left alone.
Peek(items, k) == items[IndexOf(items, k)].value

\* Mutant: the item is looked up and left in the list.
Without_KeepsItem(items, k) == items

\* remove(): the item leaves the list and the index.
Without(items, k) ==
    IF HasKey(items, k) THEN RemoveAt(items, IndexOf(items, k)) ELSE items

\* put() of a key that is not there yet makes room by dropping the back item.
MakeRoom(items, capacity) ==
    IF Len(items) >= capacity THEN SubSeq(items, 1, Len(items) - 1) ELSE items

\* put(): an existing key is updated and moved to the front.
Put(items, capacity, k, v) ==
    <<Item(k, v)>> \o
        (IF HasKey(items, k) THEN Without(items, k) ELSE MakeRoom(items, capacity))

\* setCapacity(): items are dropped from the back until the rest fits.
Trim(items, capacity) ==
    IF Len(items) > capacity THEN SubSeq(items, 1, capacity) ELSE items
=============================================================================
