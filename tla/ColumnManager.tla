--------------------------- MODULE ColumnManager ---------------------------
(***************************************************************************)
(* The life of chunk columns: ColumnManager (column_manager.cpp) bound to  *)
(* an IOManager (io_manager.cpp), used by a client that gets, references,  *)
(* edits and releases columns.                                             *)
(*                                                                         *)
(* A column's contents are a version number: 0 is the content the world    *)
(* generator produces, and every edit makes the next one.  latest[p] is    *)
(* the newest version a client has made of p, wherever it is now.          *)
(*                                                                         *)
(* Each member function runs under mutex_ and is one action.  What does    *)
(* not run under it is split where the code drops the lock: the save pass  *)
(* first drains the queue and then hands the columns one by one to         *)
(* IOManager::queueSave, which serializes them; the save thread writes and *)
(* then calls back; the load thread reads and then calls back.             *)
(*                                                                         *)
(* setup.liberties names what clients may do beyond the calling pattern    *)
(* under which the class keeps every edit:                                 *)
(*   "edit_in_save"     edit through a kept pointer while p is saved       *)
(*   "release_in_save"  drop a reference while p is saved                  *)
(*   "edit_pinned"      edit a column that stayed only because it was      *)
(*                      pinned when its save completed                     *)
(*   "late_addref"      let other threads run between get() and addRef()   *)
(*   "duplicate_load"   ask for p again before the first load answered     *)
(*   "add_again"        add() a column that is in memory, stored, or being *)
(*                      loaded or saved: add() itself looks at none of it  *)
(* MayPin is the set of answers transitionToUnloadCache may get when it    *)
(* asks whether recent activity or a force loader pins the column.         *)
(*                                                                         *)
(* Columns are stored in region files (RegionFile).  A file whose stream   *)
(* has failed serves no write until IOManager closes it, to make room for  *)
(* another, and opens it again.                                            *)
(***************************************************************************)
EXTENDS Integers, Sequences, FiniteSets, SequencesExt, LRUCache

CONSTANTS Pos, None, Capacities, MayPin, MaxJobs,
    RegionOf, \* the region file of a column
    Setups  \* the liberties clients take, and bounds, see Setup

\* columns: those clients use; maxVersion, maxRefs: edits and references of a
\* column; maxLoads: loads asked for at a time.
Setup == [liberties : SUBSET {"edit_in_save", "release_in_save", "edit_pinned", "late_addref", "duplicate_load",
                              "add_again"},
          columns : SUBSET Pos, maxVersion : Nat, maxRefs : Nat, maxLoads : Nat]

ASSUME PosAssumption == IsFiniteSet(Pos)

\* A cache of capacity 0 has no item to drop when the first one comes.
ASSUME CapacityAssumption == Capacities \subseteq Nat \ {0}

ASSUME BoundsAssumption ==
    /\ Setups \subseteq Setup
    /\ MaxJobs \in Nat
    /\ MayPin \subseteq BOOLEAN

VARIABLES
    setup,      \* chosen once
    active,     \* active_: position -> ManagedColumn, None if not there
    cache,      \* unloadCache_
    capacity,   \* its capacity_
    saveQueue,  \* saveQueue_, a queue without duplicates
    saving,     \* currentlySaving_
    toSave,     \* the columns a save pass drained and has not handed over yet
    saveJobs,   \* IOManager::saveQueue_: serialized columns
    saver,      \* the save written (or failed) whose callback is still to run
    loadJobs,   \* IOManager::loadQueue_
    loader,     \* the column read whose callback is still to run
    disk,       \* version stored in the region file, 0 if none
    failing,    \* region files whose stream has failed
    latest,     \* newest version a client made
    held,       \* references clients hold
    got         \* columns get() returned that a late addRef() may follow

manager == <<active, cache, capacity, saveQueue, saving>>
io      == <<toSave, saveJobs, saver, loadJobs, loader, disk, failing>>
clients == <<latest, held, got>>
state   == <<manager, io, clients>>
vars    == <<setup, state>>

ColumnState == {"Active", "SaveQueued", "Saving", "UnloadQueued"}

ManagedColumn == [ver : Nat, dirty : BOOLEAN, state : ColumnState, refs : Int]

SaveJob == [pos : Pos, ver : Nat]

SaveResult == [pos : Pos, ok : BOOLEAN]

Regions == {RegionOf[p] : p \in Pos}

ASSUME NoneAssumption == None \notin ManagedColumn \union SaveJob \union SaveResult

\* A column just generated or loaded.
Fresh(v) == [ver |-> v, dirty |-> FALSE, state |-> "Active", refs |-> 0]

\* Mutant: the dirty flag is not looked at.
NeedsSave_Never(col) == FALSE

\* Where release() sends a column nobody refers to any more.
NeedsSave(col) == col.dirty

\* When onSaveComplete() lets a column go.
Unreferenced(col) == col.refs = 0

\* When get() and requestLoad() return nothing.
Refused(p) == p \in saving

Resident(p) == active[p] # None \/ HasKey(cache, p)

SaveOutstanding(p) ==
    \/ \E i \in 1..Len(toSave) : toSave[i] = p
    \/ \E i \in 1..Len(saveJobs) : saveJobs[i].pos = p
    \/ saver # None /\ saver.pos = p

LoadOutstanding(p) ==
    \/ \E i \in 1..Len(loadJobs) : loadJobs[i] = p
    \/ loader # None /\ loader.pos = p

Queued(p) == \E i \in 1..Len(saveQueue) : saveQueue[i] = p

\* BlockingQueue::push(): a key that is already there is not queued twice.
Push(p) == saveQueue' = IF Queued(p) THEN saveQueue ELSE Append(saveQueue, p)
----------------------------------------------------------------------------
Init ==
    /\ setup \in Setups
    /\ active = [p \in Pos |-> None]
    /\ cache = <<>>
    /\ capacity \in Capacities
    /\ saveQueue = <<>>
    /\ saving = {}
    /\ toSave = <<>>
    /\ saveJobs = <<>>
    /\ saver = None
    /\ loadJobs = <<>>
    /\ loader = None
    /\ disk = [p \in Pos |-> 0]
    /\ failing = {}
    /\ latest = [p \in Pos |-> 0]
    /\ held = [p \in Pos |-> 0]
    /\ got = {}

\* col, already updated, is dirty and unreferenced.
TransitionToSaveQueue(p, col) ==
    /\ active' = [active EXCEPT ![p] = [col EXCEPT !.state = "SaveQueued"]]
    /\ Push(p)
    /\ UNCHANGED cache

\* col, already updated, is clean and unreferenced; a pinned column stays
\* where it is, with the state it has.
TransitionToUnloadCache(p, col, pinned) ==
    /\ IF pinned
       THEN /\ active' = [active EXCEPT ![p] = col]
            /\ UNCHANGED cache
       ELSE /\ active' = [active EXCEPT ![p] = None]
            /\ cache' = Put(cache, capacity, p, [col EXCEPT !.state = "UnloadQueued"])
    /\ UNCHANGED saveQueue
----------------------------------------------------------------------------
(* Client calls.                                                           *)

\* get() of a cached column makes it active again; of an active one it only
\* touches a time stamp; of one being saved it returns nullptr.
Get(p) ==
    /\ ~Refused(p)
    /\ Resident(p)
    /\ IF active[p] = None
       THEN /\ active' = [active EXCEPT ![p] = [Peek(cache, p) EXCEPT !.state = "Active"]]
            /\ cache' = Without(cache, p)
       ELSE UNCHANGED <<active, cache>>
    /\ got' = IF "late_addref" \in setup.liberties THEN got \union {p} ELSE got
    /\ UNCHANGED <<capacity, saveQueue, saving, io, latest, held>>

\* add() of a generated column, by a client that knows that there is none, or
\* over the one there is.
Add(p) ==
    /\ \/ ~Resident(p) /\ disk[p] = 0 /\ ~LoadOutstanding(p) /\ ~SaveOutstanding(p)
       \/ "add_again" \in setup.liberties
    /\ active' = [active EXCEPT ![p] = Fresh(0)]
    /\ UNCHANGED <<cache, capacity, saveQueue, saving, io, clients>>

\* A client changes blocks of p and calls markDirty(p).
Edit(p) ==
    /\ active[p] # None
    /\ p \in saving => "edit_in_save" \in setup.liberties /\ held[p] > 0
    /\ active[p].state = "Saving" /\ p \notin saving => "edit_pinned" \in setup.liberties
    /\ latest[p] < setup.maxVersion
    /\ latest' = [latest EXCEPT ![p] = @ + 1]
    /\ active' = [active EXCEPT ![p] = [@ EXCEPT !.ver = latest[p] + 1, !.dirty = TRUE]]
    /\ UNCHANGED <<cache, capacity, saveQueue, saving, io, held, got>>

\* addRef() of a column get() returned: at once, or after other threads ran.
AddRef(p) ==
    /\ IF "late_addref" \in setup.liberties THEN p \in got
       ELSE active[p] # None /\ p \notin saving
    /\ held[p] < setup.maxRefs
    /\ held' = [held EXCEPT ![p] = @ + 1]
    /\ got' = got \ {p}
    /\ active' = IF active[p] = None THEN active
                 ELSE [active EXCEPT ![p].refs = @ + 1]
    /\ UNCHANGED <<cache, capacity, saveQueue, saving, io, latest>>

\* release(): the last reference sends a dirty column to the save queue and a
\* clean one to the unload cache.
Release(p) ==
    /\ held[p] > 0
    /\ p \in saving => "release_in_save" \in setup.liberties
    /\ held' = [held EXCEPT ![p] = @ - 1]
    /\ IF active[p] = None THEN UNCHANGED <<active, cache, saveQueue>>
       ELSE LET col == [active[p] EXCEPT !.refs = @ - 1] IN
            IF col.refs > 0
            THEN active' = [active EXCEPT ![p] = col] /\ UNCHANGED <<cache, saveQueue>>
            ELSE IF NeedsSave(col)
                 THEN TransitionToSaveQueue(p, col)
                 ELSE \E pinned \in MayPin : TransitionToUnloadCache(p, col, pinned)
    /\ UNCHANGED <<capacity, saving, io, latest, got>>

\* requestLoad(), by a client that get() gave nothing, because p is being
\* saved or because it is not in memory: refused while p is saved.
RequestLoad(p) ==
    /\ p \in saving \/ ~Resident(p)
    /\ ~Refused(p)
    /\ Len(loadJobs) < setup.maxLoads
    /\ LoadOutstanding(p) => "duplicate_load" \in setup.liberties
    /\ loadJobs' = Append(loadJobs, p)
    /\ UNCHANGED <<manager, toSave, saveJobs, saver, loader, disk, failing, clients>>

\* setCacheCapacity(): what no longer fits is evicted.
SetCacheCapacity(c) ==
    /\ c # capacity
    /\ capacity' = c
    /\ cache' = Trim(cache, c)
    /\ UNCHANGED <<active, saveQueue, saving, io, clients>>
----------------------------------------------------------------------------
(* The game loop.                                                          *)

\* What a periodic tick queues; active_ is walked in no particular order.
Due == {p \in Pos : active[p] # None /\ active[p].dirty /\ active[p].state = "Active"}

Tick ==
    /\ Due # {}
    /\ active' = [p \in Pos |-> IF p \in Due THEN [active[p] EXCEPT !.state = "SaveQueued"]
                                             ELSE active[p]]
    /\ \E order \in SetToSeqs({p \in Due : ~Queued(p)}) : saveQueue' = saveQueue \o order
    /\ UNCHANGED <<cache, capacity, saving, io, clients>>

\* The columns of the save queue that are still active, in queue order.
IndexInQueue(p) == CHOOSE i \in 1..Len(saveQueue) : saveQueue[i] = p

Drained ==
    {s \in SetToSeqs({p \in Pos : Queued(p) /\ active[p] # None}) :
        \A i, j \in 1..Len(s) : i < j => IndexInQueue(s[i]) < IndexInQueue(s[j])}

\* processSaveQueue(), under the lock: the whole queue is drained, and what
\* is still active is marked as being saved.
ProcessSaveQueue ==
    /\ saveQueue # <<>>
    /\ toSave = <<>>
    /\ Len(saveJobs) < MaxJobs
    /\ saveQueue' = <<>>
    /\ toSave' \in Drained
    /\ saving' = saving \union ToSet(toSave')
    /\ active' = [p \in Pos |-> IF p \in ToSet(toSave')
                                THEN [active[p] EXCEPT !.state = "Saving"] ELSE active[p]]
    /\ UNCHANGED <<cache, capacity, saveJobs, saver, loadJobs, loader, disk, failing, clients>>

\* What a save pass may read through its ChunkColumn pointer: the object may
\* have been moved to the cache meanwhile, or replaced or freed, and then
\* anything goes.
Readable(p) ==
    IF "add_again" \in setup.liberties THEN 0..setup.maxVersion
    ELSE IF active[p] # None THEN {active[p].ver}
    ELSE IF HasKey(cache, p) THEN {Peek(cache, p).ver}
    ELSE 0..setup.maxVersion

\* IOManager::queueSave(), outside the manager's lock: serializes and queues.
QueueSave ==
    /\ toSave # <<>>
    /\ \E v \in Readable(Head(toSave)) :
          saveJobs' = Append(saveJobs, [pos |-> Head(toSave), ver |-> v])
    /\ toSave' = Tail(toSave)
    /\ UNCHANGED <<manager, saver, loadJobs, loader, disk, failing, clients>>
----------------------------------------------------------------------------
(* The save thread and the load thread.                                    *)

\* The save thread takes a job and writes it, or fails to, and once it failed
\* goes on failing.
WriteColumn(ok) ==
    /\ saver = None
    /\ saveJobs # <<>>
    /\ LET job == Head(saveJobs) IN
       /\ IF ok THEN RegionOf[job.pos] \notin failing /\ UNCHANGED failing
          ELSE failing' = failing \union {RegionOf[job.pos]}
       /\ disk' = IF ok THEN [disk EXCEPT ![job.pos] = job.ver] ELSE disk
       /\ saver' = [pos |-> job.pos, ok |-> ok]
    /\ saveJobs' = Tail(saveJobs)
    /\ UNCHANGED <<manager, toSave, loadJobs, loader, clients>>

\* onSaveComplete(), called back on the save thread.
OnSaveComplete ==
    /\ saver # None /\ saver.ok
    /\ LET p   == saver.pos
           col == [active[p] EXCEPT !.dirty = FALSE] IN
       /\ saving' = saving \ {p}
       /\ IF active[p] = None THEN UNCHANGED <<active, cache, saveQueue>>
          ELSE IF Unreferenced(col)
               THEN \E pinned \in MayPin : TransitionToUnloadCache(p, col, pinned)
               ELSE /\ active' = [active EXCEPT ![p] = [col EXCEPT !.state = "Active"]]
                    /\ UNCHANGED <<cache, saveQueue>>
    /\ saver' = None
    /\ UNCHANGED <<capacity, toSave, saveJobs, loadJobs, loader, disk, failing, clients>>

\* Mutant: a column whose save failed is not queued again.
OnSaveFailed_Forgets ==
    /\ saver # None /\ ~saver.ok
    /\ saving' = saving \ {saver.pos}
    /\ saver' = None
    /\ UNCHANGED <<active, cache, capacity, saveQueue,
                   toSave, saveJobs, loadJobs, loader, disk, failing, clients>>

\* The same callback after a failed save: the column is queued again.
OnSaveFailed ==
    /\ saver # None /\ ~saver.ok
    /\ LET p == saver.pos IN
       /\ saving' = saving \ {p}
       /\ IF active[p] = None THEN UNCHANGED <<active, saveQueue>>
          ELSE /\ active' = [active EXCEPT ![p].state = "SaveQueued"]
               /\ Push(p)
    /\ saver' = None
    /\ UNCHANGED <<cache, capacity, toSave, saveJobs, loadJobs, loader, disk, failing, clients>>

\* evictOldestRegion() closes a region file, which is opened afresh when it is
\* needed again.
Reopen(r) ==
    /\ r \in failing
    /\ failing' = failing \ {r}
    /\ UNCHANGED <<manager, toSave, saveJobs, saver, loadJobs, loader, disk, clients>>

\* A column that cannot be read is reported like one that is not there; its file
\* may have failed by that, if it had not before.  (One with an unwritable
\* journal still reads.)
ReadColumn ==
    /\ loader = None
    /\ loadJobs # <<>>
    /\ LET p == Head(loadJobs) IN
       \/ loader' = [pos |-> p, ver |-> disk[p]] /\ UNCHANGED failing
       \/ loader' = [pos |-> p, ver |-> 0] /\ failing' \in {failing, failing \union {RegionOf[p]}}
    /\ loadJobs' = Tail(loadJobs)
    /\ UNCHANGED <<manager, toSave, saveJobs, saver, disk, clients>>

\* requestLoad()'s callback: a column that was found is taken over unless one
\* appeared in memory meanwhile.
OnLoadComplete ==
    /\ loader # None
    /\ active' = IF loader.ver > 0 /\ ~Resident(loader.pos)
                 THEN [active EXCEPT ![loader.pos] = Fresh(loader.ver)]
                 ELSE active
    /\ loader' = None
    /\ UNCHANGED <<cache, capacity, saveQueue, saving,
                   toSave, saveJobs, saver, loadJobs, disk, failing, clients>>
----------------------------------------------------------------------------
Client(p) ==
    Get(p) \/ Add(p) \/ Edit(p) \/ AddRef(p) \/ Release(p) \/ RequestLoad(p)

GameLoop == Tick \/ ProcessSaveQueue \/ QueueSave

SaveThread == (\E ok \in BOOLEAN : WriteColumn(ok)) \/ OnSaveComplete \/ OnSaveFailed

LoadThread == ReadColumn \/ OnLoadComplete

Next ==
    /\ setup' = setup
    /\ \/ \E p \in setup.columns : Client(p)
       \/ \E c \in Capacities : SetCacheCapacity(c)
       \/ GameLoop
       \/ SaveThread
       \/ LoadThread
       \/ \E r \in Regions : Reopen(r)

Spec == Init /\ [][Next]_vars

\* The game loop and both IO threads keep running.  Nothing is owed by the disk,
\* nor by those whose requests make IOManager open a failed file again.
Fairness ==
    /\ WF_state(Tick)
    /\ WF_state(ProcessSaveQueue)
    /\ WF_state(QueueSave)
    /\ WF_state(\E ok \in BOOLEAN : WriteColumn(ok))
    /\ WF_state(OnSaveComplete)
    /\ WF_state(OnSaveFailed)
    /\ WF_state(ReadColumn)
    /\ WF_state(OnLoadComplete)

FairSpec == Spec /\ Fairness
----------------------------------------------------------------------------
(* What holds whatever clients do.                                         *)

\* Every variable has its type.
TypeOK ==
    /\ setup \in Setups
    /\ active \in [Pos -> ManagedColumn \union {None}]
    /\ cache \in Seq([key : Pos, value : ManagedColumn])
    /\ capacity \in Capacities
    /\ saveQueue \in Seq(Pos)
    /\ saving \in SUBSET Pos
    /\ toSave \in Seq(Pos)
    /\ saveJobs \in Seq(SaveJob)
    /\ saver \in SaveResult \union {None}
    /\ loadJobs \in Seq(Pos)
    /\ loader \in SaveJob \union {None}
    /\ disk \in [Pos -> Nat]
    /\ failing \in SUBSET Regions
    /\ latest \in [Pos -> Nat]
    /\ held \in [Pos -> Nat]
    /\ got \in SUBSET Pos

\* There is never a second copy of a column in memory: what get(), a load's
\* callback, a release and a finished save do to active_ and unloadCache_
\* never leaves a position in both.  (add() of a cached column does.)
SingleResidence ==
    "add_again" \notin setup.liberties =>
        \A p \in Pos : ~(active[p] # None /\ HasKey(cache, p))

\* A column waits for eviction only when no edit of it is marked unsaved and
\* nobody the manager knows of refers to it.
CachedAreClean ==
    \A i \in 1..Len(cache) : ~cache[i].value.dirty /\ cache[i].value.refs <= 0

\* The cache never outgrows its capacity, also after setCacheCapacity(), and
\* holds a position once.
CacheBounded ==
    /\ Len(cache) <= capacity
    /\ UniqueKeys(cache)

\* A position get() and requestLoad() refuse because it is being saved has a
\* save under way whose callback will lift the refusal: none is stuck.
RefusedOnlyWhileSaving == \A p \in saving : SaveOutstanding(p)

\* Memory stays consistent, whatever liberties clients take: a cache that is
\* clean and bounded, no refusal left behind and, if none is added again, one
\* copy of a column.
MemoryIsConsistent ==
    /\ TypeOK
    /\ SingleResidence
    /\ CachedAreClean
    /\ CacheBounded
    /\ RefusedOnlyWhileSaving
----------------------------------------------------------------------------
(* What holds as long as clients take no liberties.                        *)

Careful == setup.liberties = {}

\* The references clients hold are those the manager counts.
Counted == setup.liberties \intersect {"late_addref", "add_again"} = {}

\* The version a client that gets or loads p would see.
Visible(p) ==
    IF active[p] # None THEN active[p].ver
    ELSE IF HasKey(cache, p) THEN Peek(cache, p).ver
    ELSE disk[p]

\* No edit is lost on the way through active_, the save queue, the save
\* thread, the unload cache, eviction, the region file and a later load.
NoEditLost == Careful => \A p \in Pos : Visible(p) = latest[p]

\* The header's claim that cached columns are clean (column_manager.hpp): a
\* column that may be evicted unsaved is on disk as it is in memory.
CachedAreSaved == \A i \in 1..Len(cache) : disk[cache[i].key] = cache[i].value.ver

\* A column is not read from disk, and no read of it is waiting, while a save
\* of it is under way.
NoLoadWhileSaving == Careful => \A p \in Pos : ~(LoadOutstanding(p) /\ SaveOutstanding(p))

\* Every dirty column is where the next tick or save pass finds it.
DirtyAreScheduled ==
    Careful => \A p \in Pos : active[p] # None /\ active[p].dirty =>
        active[p].state = "Active" \/ Queued(p) \/ p \in saving

\* A column a client holds a reference to is neither cached nor evicted, if
\* no other thread runs between get() and addRef() and it is not replaced.
ReferencedStaysActive ==
    Counted => \A p \in Pos : held[p] > 0 => active[p] # None /\ active[p].refs = held[p]

\* What careful clients rely on: their edits are visible, scheduled to be saved
\* and not overtaken by a load, and what they hold stays in active_.
EditsAreSafe ==
    /\ NoEditLost
    /\ NoLoadWhileSaving
    /\ DirtyAreScheduled
    /\ ReferencedStaysActive

\* As long as its region file works, every edit reaches the disk, over evictions
\* and also after saves that failed before the file was opened again: what is
\* not on disk is on its way there until it is, or its file fails (once more).
\* And get() does not fail for ever because a save of the column never ends.
EditsReachDisk ==
    \A p \in Pos :
        /\ Careful /\ disk[p] < latest[p] ~> disk[p] = latest[p] \/ RegionOf[p] \in failing
        /\ p \in saving ~> p \notin saving

\* Memory and disk together behave as one store that loses nothing: a reader
\* sees a position's last write, and the disk only moves forward.  (To clients
\* that take liberties nothing is promised.)
Store == INSTANCE ColumnStore WITH
    contents <- [p \in Pos |-> IF Careful THEN Visible(p) ELSE 0],
    durable  <- [p \in Pos |-> IF Careful THEN disk[p] ELSE 0]

ImplementsStore == Store!Spec
=============================================================================
