------------------------------ MODULE Inventory ------------------------------
(***************************************************************************)
(* An inventory kept in a data container (inventory.cpp, item_stack.hpp)   *)
(* with item names stored as numbers of a NameRegistry (name_registry.cpp).*)
(* A slot is [t, c, d, m]: number of the name, count, durability and       *)
(* metadata; d is 0 and m is <<>> when the container has no such key.      *)
(***************************************************************************)
EXTENDS Integers, Sequences, FiniteSets, SequencesExt, FiniteSetsExt, Functions, TLC

CONSTANTS ItemTypes, MaxStackSize, Counts, SlotCounts, MaxInventoryCalls

NoType == ""
ASSUME InventoryAssumption ==
    /\ NoType \notin ItemTypes /\ MaxStackSize \in [ItemTypes -> Nat \ {0}]
    /\ Counts \subseteq Nat /\ SlotCounts \subseteq Nat

VARIABLES inventory,  \* size, and slots by index (sparse; also beyond the size)
          names,      \* NameRegistry::names_ after the reserved number 0
          ledger,     \* ghost: items of each type put in and not taken out
          refused,    \* what the last addItem could not place: [type, count]
          itemCalls

inventoryVars == <<inventory, names, ledger, refused, itemCalls>>

EmptyStack == [type |-> NoType, count |-> 0, durability |-> 0, metadata |-> <<>>]
StackIsEmpty(stack) == stack.type = NoType \/ stack.count <= 0
Stack(type, count) == [EmptyStack EXCEPT !.type = type, !.count = count]

\* NameRegistry::getName, getOrAssign; 0 is no name.
NameOf(ns, id) == IF id \in DOMAIN ns THEN ns[id] ELSE NoType
Assigned(ns, type) == IF Contains(ns, type) THEN ns ELSE Append(ns, type)
IdIn(ns, type) == CHOOSE i \in DOMAIN ns : ns[i] = type

\* InventoryView::getSlot.
GetSlot(inv, ns, i) ==
    IF i \notin DOMAIN inv.slots \/ NameOf(ns, inv.slots[i].t) = NoType THEN EmptyStack
    ELSE LET s == inv.slots[i]
         IN  [type |-> NameOf(ns, s.t), count |-> s.c, durability |-> s.d, metadata |-> s.m]

\* InventoryView::setSlot, on [inv, names]: an empty stack removes the slot.
SetSlot(st, i, stack) ==
    IF StackIsEmpty(stack) THEN [st EXCEPT !.inv.slots = Restrict(@, DOMAIN @ \ {i})]
    ELSE LET ns == Assigned(st.names, stack.type)
             slot == [t |-> IdIn(ns, stack.type), c |-> stack.count, d |-> stack.durability, m |-> stack.metadata]
         IN  [inv |-> [st.inv EXCEPT !.slots = [j \in DOMAIN @ \cup {i} |-> IF j = i THEN slot ELSE @[j]]], names |-> ns]

\* ItemStack::split: durability and metadata stay behind.
Split(stack, amount) ==
    LET taken == Min({amount, stack.count})
    IN  IF amount <= 0 \/ StackIsEmpty(stack) THEN [taken |-> EmptyStack, left |-> stack]
        ELSE [taken |-> Stack(stack.type, taken),
              left |-> IF stack.count = taken THEN EmptyStack ELSE [stack EXCEPT !.count = @ - taken]]

\* Mutant: a plain stack takes items until it is over the limit.
Room_Counts(stack, type) == MaxStackSize[type]
Room(stack, type) ==
    IF stack.type = type /\ stack.durability = 0 /\ stack.metadata = <<>> /\ stack.count < MaxStackSize[type]
    THEN MaxStackSize[type] - stack.count ELSE 0

NewStackCount(remaining, type) == Min({remaining, MaxStackSize[type]})

\* How many items move between the caller and a slot in a pass of addItem or
\* removeItem, and what the slot holds then.  removeItem also takes tools and
\* stacks with metadata.
ItemsMoved(pass, stack, remaining, type) ==
    CASE pass = "fill" -> Min({remaining, Room(stack, type)})
      [] pass = "place" -> IF StackIsEmpty(stack) THEN NewStackCount(remaining, type) ELSE 0
      [] pass = "remove" -> IF stack.type = type THEN Min({remaining, stack.count}) ELSE 0
SlotAfter(pass, stack, n, type) ==
    CASE pass = "fill" -> [stack EXCEPT !.count = @ + n]
      [] pass = "place" -> Stack(type, n)
      [] pass = "remove" -> [stack EXCEPT !.count = @ - n]

\* One turn of the loop over the slots, and the loop.
VisitSlot(pass, acc, i, type) ==
    LET stack == GetSlot(acc.st.inv, acc.st.names, i)
        n == ItemsMoved(pass, stack, acc.remaining, type)
    IN  IF n = 0 THEN acc
        ELSE [st |-> SetSlot(acc.st, i, SlotAfter(pass, stack, n, type)), remaining |-> acc.remaining - n]
EachSlot(pass, st, type, count) ==
    LET after[n \in 0..st.inv.size] ==
            IF n = 0 THEN [st |-> st, remaining |-> count] ELSE VisitSlot(pass, after[n - 1], n - 1, type)
    IN  after[st.inv.size]

\* InventoryView::addItem: existing stacks first, then empty slots.
AddedItem(st, type, count) ==
    LET filled == EachSlot("fill", st, type, count) IN EachSlot("place", filled.st, type, filled.remaining)

\* InventoryView::removeItem.
RemovedItem(st, type, count) == EachSlot("remove", st, type, count)

\* countItem: of the slots within the size.
Held(stack, type) == IF stack.type = type THEN stack.count ELSE 0
CountItem(inv, ns, type) ==
    LET counted[n \in 0..inv.size] == IF n = 0 THEN 0 ELSE counted[n - 1] + Held(GetSlot(inv, ns, n - 1), type)
    IN  counted[inv.size]

\* NameRegistry::saveTo, loadFrom: the list without its reserved entry.
LoadFrom(list) ==
    LET loaded[n \in 0..Len(list)] == IF n = 0 THEN <<>> ELSE Append(loaded[n - 1], list[n]) IN loaded[Len(list)]

----------------------------------------------------------------------------

State == [inv |-> inventory, names |-> names]
Becomes(st) == inventory' = st.inv /\ names' = st.names
NoRefusal == [type |-> NoType, count |-> 0]
ItemCall == itemCalls < MaxInventoryCalls /\ itemCalls' = itemCalls + 1
Visible == 0..inventory.size - 1

InventoryInit == /\ inventory = [size |-> 0, slots |-> <<>>]
                 /\ names = <<>>
                 /\ ledger = [t \in ItemTypes |-> 0]
                 /\ refused = NoRefusal
                 /\ itemCalls = 0

SetSlotCount(n) == /\ ItemCall
                   /\ inventory' = [inventory EXCEPT !.size = n]
                   /\ refused' = NoRefusal
                   /\ UNCHANGED <<names, ledger>>

AddItem(type, count) == /\ ItemCall
                        /\ LET r == AddedItem(State, type, count)
                           IN  /\ Becomes(r.st)
                               /\ ledger' = [ledger EXCEPT ![type] = @ + count - r.remaining]
                               /\ refused' = [type |-> type, count |-> r.remaining]

RemoveItem(type, count) == /\ ItemCall
                           /\ LET r == RemovedItem(State, type, count)
                              IN  Becomes(r.st) /\ ledger' = [ledger EXCEPT ![type] = @ - (count - r.remaining)]
                           /\ refused' = NoRefusal

\* A tool, with durability or metadata, put into an empty slot.
PutTool(i, tool) == /\ ItemCall
                    /\ i \in Visible /\ StackIsEmpty(GetSlot(inventory, names, i))
                    /\ Becomes(SetSlot(State, i, tool))
                    /\ ledger' = [ledger EXCEPT ![tool.type] = @ + tool.count]
                    /\ refused' = NoRefusal

TakeItem(i, count) == /\ ItemCall
                      /\ i \in Visible
                      /\ LET s == GetSlot(inventory, names, i)
                         IN  /\ ~StackIsEmpty(s)
                             /\ Becomes(SetSlot(State, i, Split(s, count).left))
                             /\ ledger' = [ledger EXCEPT ![s.type] = @ - Split(s, count).taken.count]
                      /\ refused' = NoRefusal

SwapSlots(a, b) == /\ ItemCall
                   /\ a # b /\ {a, b} \subseteq Visible
                   /\ Becomes(SetSlot(SetSlot(State, a, GetSlot(inventory, names, b)), b, GetSlot(inventory, names, a)))
                   /\ refused' = NoRefusal
                   /\ UNCHANGED ledger

Reload == ItemCall /\ names' = LoadFrom(names) /\ refused' = NoRefusal /\ UNCHANGED <<inventory, ledger>>

Tools == {[Stack(t, 1) EXCEPT !.durability = 5] : t \in ItemTypes} \cup {[Stack(t, 1) EXCEPT !.metadata = <<"named">>] : t \in ItemTypes}

InventoryNext == \/ \E n \in SlotCounts : SetSlotCount(n)
                 \/ \E type \in ItemTypes, count \in Counts : AddItem(type, count) \/ RemoveItem(type, count)
                 \/ \E i \in Visible, tool \in Tools : PutTool(i, tool)
                 \/ \E i \in Visible, count \in Counts : TakeItem(i, count)
                 \/ \E a, b \in Visible : SwapSlots(a, b)
                 \/ Reload

InventorySpec == InventoryInit /\ [][InventoryNext]_inventoryVars

----------------------------------------------------------------------------
(* Properties *)

\* Items are neither lost nor doubled: what countItem would find, were the size
\* one that hides no slot, is what was put in and not taken out.
ShowsAll(inv, n) == \A i \in DOMAIN inv.slots : i < n
ItemsAreConserved ==
    \A n \in SlotCounts \cup {0} : ShowsAll(inventory, n) =>
        \A type \in ItemTypes : ledger[type] = CountItem([inventory EXCEPT !.size = n], names, type)

\* Items are refused only when there is no room: then no slot is empty and
\* every plain stack of the type is full; and no stack is over its limit.
RefusedOnlyWithoutRoom ==
    /\ refused.count > 0 =>
          \A i \in Visible : LET s == GetSlot(inventory, names, i) IN ~StackIsEmpty(s) /\ Room(s, refused.type) = 0
    /\ \A i \in DOMAIN inventory.slots : LET s == GetSlot(inventory, names, i) IN s.count \in 1..MaxStackSize[s.type]

\* No item is lost, made or refused without reason, whatever is added, taken,
\* split, moved and hidden, and however names are numbered.
InventoryIsSound ==
    /\ ItemsAreConserved
    /\ RefusedOnlyWithoutRoom
=============================================================================
