# Specifications of FineStructureVoxel

TLA+ models of the engine's core, from its threads and files to its algorithms
on blocks, the TLC runs that check them, and TLAPS proofs: about the parts with
threads and files (columns, region files, IO, meshes, the game session, frames
and queues) and about entities, inventories, modules and the palettes of blocks.
Every definition is translated from the C++ under `include/finevox` and `src`
(and `examples/render_demo.cpp` for the main loop); `PROJECT.json` says for each
one which lines it stands for. Comments of the form "Mutant: ..." mark variants
of a definition with a plausible bug; they are used by no specification and show
that the property named with them in `PROJECT.json` can fail.

    tlc -workers 2 -config GameSession_any.cfg MC_GameSession
    tlapm ColumnManager_proof.tla

## 1. The system

The engine is a set of libraries (core, worldgen, render, audio, script). Its
own logic, and nearly all of its concurrency, is in core and in the world
renderer. These are its threads:

| thread | owned by | works off |
| --- | --- | --- |
| game thread | `GameSession` | the command queue, then `UpdateScheduler` (events and ticks) |
| lighting thread | `LightEngine` | `LightingQueue` |
| mesh workers | `MeshWorkerPool` | `MeshRebuildQueue` |
| load and save thread | `IOManager` | `loadQueue_` and `saveQueue_` |
| graphics thread | the application | `WorldRenderer::updateMeshes()`, upload queue, commands it issues |
| fence waiter | `FrameFenceWaiter` | one fence per frame |

They meet at queues (`Queue`, `KeyedQueue`, `BlockingQueue`, `WakeSignal`), at
the world's columns (`SubChunk`, whose block and light versions are atomic and
whose contents are not), and in callbacks that run on the IO threads.

### Components, their state and what is hard about them

**Columns in memory** (`ColumnManager`, `LRUCache`, `BlockingQueue`).
State: `active_`, the LRU `unloadCache_`, `saveQueue_`, `currentlySaving_`,
reference counts. Operations: get, add, markDirty, addRef, release, tick,
processSaveQueue, requestLoad, setCacheCapacity, and the callbacks of finished
saves and loads. Hard: every operation is a critical section of its own, a save
is five of them on two threads, and clients keep pointers across them. Correct
means: one copy of a column in memory, no edit lost through queue, save, cache,
eviction and reload, no column refused for ever, a bounded cache.

**Region files** (`RegionFile`). State: the data file, an append-only journal,
the index and free list rebuilt from it. Hard: the free list is not stored; four
writes may each fail, or the process end after them; time stamps decide which
version wins. Correct means: a column reads as last saved, space is handed out
once, the journal replays to the index. A torn journal entry shifts all that is
appended behind it, and a stream that failed once serves no read or write until
the file is opened again.

**IOManager.** State: two queues, two threads, the table of open region files,
`running_`. Hard: lost wake-ups between stop, start and the threads' tests,
eviction of a file in use, two threads in one file. Correct means: requests are
carried out once, in order, and answered; what is acknowledged is stored.

**Mesh pipeline** (`World`'s remesh requests, `MeshRebuildQueue`,
`MeshWorkerPool`, `WorldRenderer`, `SubChunkView`). State: versions of a
subchunk, versions a mesh claims, the rebuild and upload queues, the set of
dirty chunks. Hard: contents change while a worker reads them, builds overtake
each other, requests merge, light comes later than blocks, neighbours' borders
have no version. Correct means: a mesh claims no more than it shows, and views
catch up.

**LightEngine.** State: light of every cell, updates consolidated by position,
the thread. Hard: searches read blocks that are newer than the update they work
off; removal and spreading must agree. Correct means: once the queue is empty
the light is that of the blocks; `stop()` returns.

**UpdateScheduler and GameSession.** State: command queue, external input,
inbox, outbox that merges by position and type, deferred events, scheduled
ticks, game-tick registries. Hard: a command is checked when issued and executed
later; the inbox is a stack; merging; ticks for blocks that are gone. Correct
means: light updates chain, ticks reach who asked for them, no face of a
neighbour change is lost, every command is served.

**Frames** (`WakeSignal`, `FrameFenceWaiter`, the threads of `MeshWorkerPool`,
the main loop of `examples/render_demo.cpp`). State: one signal with a deadline,
the fence waiter's flags (`waitPending_`, `fenceReady_`, `running_`, its attached
signal), the rebuild and upload queues, where each thread is. Hard: everything
that wakes the graphics thread is another thread's; `useFenceThread` is read
once per frame and F6 changes what it says in the middle; stopping races a wait
for the GPU; members are destroyed one by one while threads run. Correct means:
no frame begins before its fence is free, no wake-up is lost, frames go on, the
program ends when told to.

**Queues and signals** (`Queue`, `KeyedQueue`, `WakeSignal`). State: items,
shutdown flag, alarm, the attached signal; the signal's flag and deadline. Hard:
the signal is notified after the lock of the queue is let go; a sleeper reads
the alarm while callers move it; shutdown, reset and attach race with both.
Correct means: items arrive once and in order, alarms are kept, nobody sleeps on
something to do.

**Storage** (`World`, `ChunkColumn`, `SubChunk`, palettes, serialization, LOD,
batches). State: columns of subchunks whose cells index a palette with reference
counts, a heightmap with a dirty flag, light, block data, force loaders. Hard:
slots of a palette are freed, used again and compacted; what is derived
(heightmap, counts, levels of detail) is kept beside the blocks and goes stale;
a batch is many critical sections; a column is stored with its palette and read
back with another. Correct means: every position shows what it was last given,
what is derived agrees, and a column that is loaded is the one that was stored.

**Entities and player** (`EntityManager`, `GraphicsEventQueue`,
`PlayerController`, `Physics`). State: entities with ids and bodies, authorities
that may correct the player, the events sent, the player's own body on the main
thread. Hard: two copies of the player move in two threads and report late;
collisions at boundaries; ids and events outlive what they speak of. Correct
means: a reader of the events knows the entities, no body enters a block it was
clear of, rays and sweeps find the first thing they touch.

**Content** (`MeshBuilder`, tags and unification, module loader, schematics and
clipboard, world generation, inventory, configuration). Sequential algorithms,
hard for their case distinctions: greedy merging against single faces, tables
that are rebuilt over cyclic includes, modules that throw half-way, repeated
turning and storing of structures, features over the border of two columns,
stacks that are split and merged, files that keep their lines under edits, failing
saves and restarts.

`PROJECT.json` lists every component with what is left out of it, and, under
"hazards", what is hard to test in all of it with the line where it bites.

## 2. Modules

| module | models | state and actions |
| --- | --- | --- |
| `LRUCache` | `lru_cache.hpp` | a cache as its item list; put, remove, peek, trim |
| `ColumnManager` | `column_manager.cpp` with its clients and IO | one action per critical section; `toSave`, `saver`, `loader` are the moments between them |
| `ColumnStore` | what columns promise | contents and a durable version that follows |
| `RegionFile` | `region_file.cpp` | cells of the data file, journal, index, free spans; `Save` in four outcomes, `Close`, `Open`, `CompactToc` |
| `IOManager` | `io_manager.cpp` | one program counter per thread; start, stop, flush, eviction |
| `ColumnIO` | what IOManager promises | two queues that answer in order |
| `MeshPipeline` | worker pool, renderer, remesh requests, `keyed_queue.hpp` | a `KeyedQueue` as a sequence without repeated keys; steps of the game, lighting, worker and graphics threads |
| `LightEngine` | `light_engine.cpp` | the two searches as functions on a record of light and queue; update queue; thread |
| `UpdateScheduler` | `event_queue.cpp`, `block_event.cpp`, `block_handler.cpp` | the queues, one action per event processed |
| `GameSession` | `game_session.cpp`, `queue.hpp` | the loop of the game thread; composes `UpdateScheduler` (EXTENDS) |
| `FrameLoop` | `render_demo.cpp`, `frame_fence_waiter.cpp`, `wake_signal.hpp`, `mesh_worker_pool.cpp` | one program counter each for the main loop, the fence waiter and every worker; the GPU as an environment |
| `WorkQueue` | `queue.hpp`, `keyed_queue.hpp`, `wake_signal.hpp` | callers between the lock and its notifications (`calls`), a thread waiting on one queue, a thread waiting on the signal of both |
| `Position`, `SubChunk`, `ChunkColumn` | `position.hpp`, `subchunk.cpp`, `palette.cpp`, `chunk_column.cpp`, `serialization.cpp` | operators on records: packing, palette, blocks, heightmap, stored form |
| `Cbor` | `data_container.cpp`, `cbor.hpp` | values to bytes and back, and how unknown items are skipped |
| `Lod` | `lod.cpp` | down-sampling as an operator on a subchunk |
| `WorldStore` | `world.cpp`, `batch_builder.cpp` | one action per call on the world; a batch is committed call by call; storing and loading |
| `MeshBuilder`, `LodMesh` | `mesh.cpp` | a mesh as a set of quads computed from a scene |
| `Rotation`, `Physics` | `rotation.cpp`, `physics.cpp` | the 24 matrices; boxes, sweeps, stepping and ray casts over integers |
| `PlayerController`, `EntityManager` | `player_controller.cpp`, `entity_manager.cpp`, the player part of `render_demo.cpp` | main thread with its body, commands, game thread with its ticks, the graphics events |
| `Tags` | `tag_registry.cpp`, `unification.cpp`, `item_match.hpp` | calls and loading of `.tag` files as lines |
| `ModuleLoader` | `module.cpp` | calls; modules that fail or throw |
| `Schematic` | `schematic.cpp`, `schematic_io.cpp`, `clipboard_manager.cpp` | transformations and copies of one piece, the clipboard, files |
| `WorldGen` | `worldgen/` | the passes in order over columns in any order |
| `Inventory` | `inventory.cpp`, `name_registry.cpp` | calls on stacks in a data container |
| `Settings` | `config.cpp`, `config_file.cpp`, `config_parser.cpp` | files as lines, the two managers, failing saves, restarts, includes |
| `*_proof` | | theorems about the module of that name, see section 4 (`ColumnManager_proof` with the lemmas about `LRUCache`; `Content_proof` about `EntityManager`, `Inventory`, `ModuleLoader` and `SubChunk`) |

`ColumnManager` contains the IO threads as `IOManager` presents them to it
(requests carried out in order, then a callback); that `IOManager` does present
them so is the property `ImplementsIO`, checked against `ColumnIO`. What a
region file holds is one version per column there, and cells in `RegionFile`.
`FrameLoop` counts the meshes that `MeshPipeline` gives contents to: the one asks
when the graphics thread looks at its queue, the other what it finds there.
`WorkQueue` models the queues that `GameSession`, `FrameLoop` and `MeshPipeline`
use, with every caller their interface allows; `WorldStore` gives the contents to
the columns whose coming and going is `ColumnManager`'s. `MC_Content` puts seven
components that share nothing into one run: its variable `topic` says which one
takes its steps, the others stay as they started.
`MC_*` modules give constants their values; `IOManager`, `RegionFile` and
`WorkQueue`, whose constants are names and numbers, are checked themselves. Where a component can be set up in
several ways, the specification has a variable `setup` (`events` in
`RegionFile`) that is chosen in `Init` from a constant set of setups and never
changes, so that one run covers several small worlds, each bounded on its own.

Abstractions used throughout: in the modules about threads a column's contents
are a version number and a mesh is the versions it claims and those it shows;
time is counted in tick intervals; compression, vertex data and logging are left
out. Lengths are integers (2000 to the block in the runs), chosen so that
comparisons of the code are exact; noise and random numbers are values a set-up
gives. Hash tables are walked in any order. Text is a name or a line; CBOR, whose
skipping of items depends on single bytes, is modelled byte by byte. Counters of the
environment (edits, stops, failures) are bounded by named constants in guards,
and only actions of the environment are so bounded: no thread of the program
stops because a bound is reached.

## 3. Runs

Passing runs check all their properties on every reachable state; the one
"violation" run shows a disagreement between the code and its documentation.
Several properties are conjunctions of named parts; the parts are listed below.

| run | bounds | what it shows |
| --- | --- | --- |
| `cm_any` | capacities 1-2, one region file that fails and is opened again, pins; careful clients (2 positions, 3 edits, 2 references, 1 load); edits during a save or of a pinned column and double loads (2 positions, 1 edit, 1 reference, 2 loads); these and release during a save (1 column, 2 edits, 2 references, 2 loads); columns added again, with edits and releases during a save (1 column, 1 edit, 1 reference, 1 load) | memory stays consistent whatever clients do; with careful clients no edit is lost, everything dirty is scheduled, edits reach the disk while the region file works, saves end, and `ColumnStore` is implemented |
| `rf_space` | 2 columns of 1 or 2 cells, 5 cells, 4 saves, 4 stamps, one misread entry; failures of the data file with a clock set back or gone round and compaction, or compaction that fails half way, or reopening with crashes, torn journal entries and failures of either file | in one session space is owned, disjoint and accounted for and columns read as last saved; replay gives the index; no read leaves the file |
| `rf_reopen` | 8 cells, 6 saves, only closing and opening | violation: `loadToc()` lists a live column's space as free |
| `io_base` | 2 regions, 1-2 open files, 2 saves per column, one load, one stop | order, at most once, answers, stop returns; refinement of `ColumnIO` |
| `mesh_any` | one or two chunks, one or two workers, one edit, one change of light, camera moves, a failing build, a late chunk; asynchronous and synchronous | claims are floors, views catch up; borders too with one worker and deferral |
| `light_block` | sections up to 2x3 and 1x4, one with water, 4 edits, 4 levels of light (0-3) | block light exact, sky light follows blocks, stop returns |
| `session_any` | 2 positions (one alone in its subchunk), 2 faces, 2 commands, up to 2 ticks, 2 effects of handlers (ticks, events with or without a face, blocks set past the queues), one stop | chain of light updates, no orphan ticks, no forgotten face, commands served |
| `frame_any` | 2 workers; started asynchronously or with `--sync` with 2 presses of F6 and 2 requests for meshes; uploads that throw with 1 request, a GPU that hangs or not, a session that ends or not | no lost wake-up, no frame before its fence, frames go on, the fence waiter ends and, if nothing hangs, the program |
| `store_any` | subchunks of 2x2x2; seven scenarios of 3 to 6 calls over up to 7 positions and 3 types: palette, tall columns, generator and batch against another writer, rotation, light, data, force loaders, LOD | writes are kept, what is derived agrees, loading gives what was stored, versions grow with every change |
| `entities_any` | a course of slabs, a wall, a post and a low ceiling, 4 to 6 steps per scenario; up to two blocks of three shapes with 27 rays: from inside cells, along faces, through edges and corners (ties of two and three axes), and from faces, edges and corners | entities and events agree, bodies stay clear, rays and sweeps find the first hit |
| `queues_any` | two queues, one keyed, 2 keys, 3 calls, 2 moments of time | once and in order, alarms, no sleeper left |
| `content_any` | all 729 patterns of 3x2 cells in three planes and 1024 LOD scenes; six tag files, 4 items, 4 calls; 3 modules, 6 calls; two designs of schematics, 3 steps; two lands over 2 columns; inventories of 2 types; settings over no or hand-written files, 4 calls | one property per component, see below |

What the conjunctions say:

- `MemoryIsConsistent` (cm): types, one residence per column, cached columns are
  clean, the cache is bounded, a load is refused only while the save runs.
  `EditsAreSafe`: no edit lost, no load while saving, dirty columns are
  scheduled, referenced ones stay active.
- `FileIsConsistent` (rf): types, reads stay in the file, the journal gives the
  index, and, in one session, every cell is owned once.
- `WritesAreKept` (store): the palette counts exactly what cells use, the world
  shows the last write, a batch that no other writer disturbed and its undo are
  one edit. `DerivedFactsAgree`: heightmaps are the tops of columns told of every
  change, a level of detail is that of its source, counts and bounds of a column
  are those of its blocks, and the rules about chunks agree with those about
  blocks and columns.
- `EntitiesAreConsistent`: a reader of all events knows the entities; authorities
  belong to live ones. `BodiesMoveByTheRules`: no body enters a block, it rises
  only from the ground or a step, and changing mode does not move the eye.
  `RaysFindFirst` includes how shapes turn (`ShapesTurn`).
- `NoWakeupIsLost` (queues): what lies in a queue is taken, and no sleeper
  sleeps with something to do.
- content: `MeshesShowTheChunk` (greedy quads cover exactly the visible faces;
  levels of detail are stretched faces; corners are shaded by their neighbours),
  `TagsAreConsistent` (tables are closed under includes, equivalent items match
  alike), `DependenciesOutlive` (a module that runs has its dependencies),
  `CopiesAreFaithful` (turning, mirroring, copying and storing keep a piece),
  `LandIsSound` (trees stand, features change what they may, caves stay below
  their ceiling), `InventoryIsSound` (items are neither made nor lost; an item is
  refused only without room), `SettingsAreKept` (what was set is read after
  saving and restarting; comments and foreign lines stay; the readers agree).

*Why these bounds suffice to be of use.* The interleavings at issue need two
columns to compete for the cache and the single save thread, three free spans
(a freed one, a split one, a neighbour) of two sizes, a second thread in the
same file, a second worker for overtaking, a path of light with a detour around
a block (2x3), and one event already in the inbox while another of its position
is merged. A palette of 2x2x2 cells is filled, freed, used again and compacted
within five calls; three by two cells hold every neighbourhood the greedy builder
tells apart; a subchunk is halved once. Each mutant listed is caught within them. They do not reach the
bounds of the code itself (10000 nodes, 16 cells of shadow, 32x32 columns in a
region, 255 heights), which the hazards name.

`CHECK_DEADLOCK FALSE` is set in every configuration: once the bounded
environment has done all it does and queues are empty, the threads rightly
wait. That nothing waits too early is what the liveness properties say.

### Conditions under which properties are claimed

Some properties hold only while callers keep to a pattern the interface does
not enforce. The models have these departures as switches, so that the claim and
its limit are both explicit:

- `ColumnManager` `setup.liberties`: `NoEditLost`, `CachedAreSaved` and
  `NoLoadWhileSaving` need clients that neither edit nor release a column while
  it is saved, take their reference at once, do not edit a column that stayed
  only because it was pinned, do not ask for a column twice, and add only
  columns that are neither in memory nor stored nor on their way (`add()` looks
  at none of this and replaces what is there; `SingleResidence` needs this
  too). Each liberty alone breaks at least one of them. What two saves of one
  column under way do to its saving mark (the first callback erases it) is
  excluded with these liberties: `RefusedOnlyWhileSaving` says that a mark has
  a save, not that a save has its mark; that is `SavesAreSingle`, of careful
  clients, in the proof. ("late_addref", a reference taken after a
  release may have moved the column on, is in no run: counts then fall below 0
  without bound.)
- `IOManager` `Hazards`: nothing in the code keeps both threads out of one
  region file ("overlap") or a thread from evicting the file the other is using
  ("evict_in_use").
- `RegionFile` `events`: the session properties exclude reopening and a journal
  that cannot be written, compaction interrupted by a crash included. That a
  column *loads* as last saved is claimed until the data file's stream fails: the
  code then loads nothing, though all is stored. Nothing is claimed of the
  journal with a clock set back or stamps gone round (`TimeIsRight`; the shift in
  `currentTimestamp()` leaves 44 bits of microseconds), behind a torn entry
  (`AllReal`, `behind`) or after a compaction that failed half way.
- `LightEngine` `hazards`: two changes of one block while its update is pending
  lose the oldest type ("overwrite"); an opaque block replaced by a lamp in one
  step never emits ("direct"); `stop()` between a test and a wait is not heard
  ("stop_in_test"); a block that dims light without stopping it is placed or
  removed ("dim"). Each breaks the property it concerns. Attenuations are 1, 2 and
  the full one, for the code's 1 to 15.
- `UpdateScheduler` `habits`: placing over a block ("replace"), several commands
  for one position at a time ("races"), scheduling a tick in `onBreak`
  ("tick_in_break") and blocks that handlers set past the queues ("set_block")
  each break `NoOrphanTicks`: such a block keeps the ticks of the one before.
  "races" and "set_block", of which the light engine never hears, break
  `LightUpdatesChain`, and so does air placed over a block ("place_air"):
  `ChunkColumn::setBlock()` may destroy the subchunk that `processEvent()` goes on
  to read. What needs no habit is that `onPlace()` sets its own block, to undo a
  placement, as `block_handler.hpp` describes it, and asks for no tick in the same
  call. `session_any` has a setup with all five, for which `FacesAreNotForgotten`
  and `CommandsAreServed` are still claimed. `FacesAreNotForgotten` speaks of the
  faces in masks; an event without any reaches nobody.
- `FrameLoop` `setup.async`, `setup.hangs` and `setup.deaf`: `FramesGoOn` is
  claimed for a program started without `--sync` and a GPU that works. With
  `--sync` nobody starts the fence waiter, and the first frame after F6 waits for
  it for ever; `StopReturns` still holds there, because it speaks of a loop that
  has left its frames. A GPU that hangs holds `beginFrame()` and, on every way out
  of `main()`, `waitIdle()`, which have no timeout here: `StopReturns` then claims
  only that the fence waiter's thread ends, the wait of `FrameFenceWaiter` being
  the one that gives up. That the program ends is claimed if the GPU works and the
  session's threads hear their stop, which the light engine's may not
  ("stop_in_test" above).
- `WorldStore` `told`: nothing in the engine tells a heightmap of edits
  (`updateHeight()` and `markHeightmapDirty()` have no caller), so
  `HeightmapIsTop` speaks of columns whose caller does; `ReloadKeeps` of data
  without texts with a tag and without doubles whose last byte looks like the
  head of an item (`MC_WorldStore!DataSetups` has both and breaks it); batches
  that nobody disturbs are one edit, others are not.
- `EntityManager`: `BodiesStayClear` speaks of walking bodies that touched no
  block before the step (`Apart`): a collider that is exactly touched is passed
  over by the code. `RaysFindFirst` asks nothing of a block in another cell that
  the ray enters exactly where it starts (`MustFind`): `raycastBlocks()` wants
  `tMin > 0` and passes through it.
- `WorkQueue`: `NoWakeupIsLost` speaks of items, of alarms and of the deadline a
  thread went to sleep with; not of a shutdown that is reset before the sleeper
  has run, nor of a deadline set while it sleeps (`DeadlinesWake`, in no run).
- `LodMesh` `Overhang`: the greedy builder merges limited cells that lie on top
  of each other; `GreedyDrawsTheSame` excludes these scenes.
- `Tags`, `Schematic`, `Settings`: the parts of the properties name what they
  leave out (groups declared twice, data under blocks replaced by air, words
  that read back as numbers); section 5 says why.

### Fairness

A thread that can take a step eventually does (weak fairness of each thread's
steps); the environment owes nothing: no edit, stop, tick of the clock or camera
move is fair. In particular:

- `ColumnManager`: the game loop keeps calling tick and processSaveQueue, as the
  header asks, and both IO threads run. Of the disk nothing is assumed: a region
  file may fail at any save or load, and its stream then stays in its error state,
  so that every save fails until `evictOldestRegion()` closes the file and it is
  opened again, which nothing makes happen. `EditsReachDisk` therefore says that
  what is not on disk gets there unless the file fails (once more) first.
- `IOManager`: weak fairness of each thread and of the caller inside `stop()`.
- `MeshPipeline`: game, lighting, frames and each builder. Frames are drawn for
  ever; a build that throws may do so only `maxFails` times.
- `LightEngine`: the thread, and the game thread between changing a block and
  enqueueing the update. Fairness of the end of an update is stated on the
  variable `current` alone, which is equivalent, because Process is the only
  step that ends one, and spares TLC searches.
- `GameSession`: only the game thread. Time is not fair.
- `WorkQueue`: both waiting threads, callers between the lock and their
  notifications, and time. New calls are not fair.
- `WorldStore`, `EntityManager` and the content modules claim safety only: their
  callers owe nothing.
- `FrameLoop`: the main loop, the fence waiter and each worker, as the operating
  system schedules threads; time, because the deadlines are of the steady clock;
  the GPU, unless the setup lets it hang. Closing the window, F6, exceptions
  and requests are not fair.

## 4. Proofs

Each `*_proof` module states theorems for every value of the constants, under the
named assumptions of the module it extends, and proves them from an inductive
invariant: one lemma per action or per part of the invariant, then the theorem
that every step keeps it, then the temporal theorem. TLC has checked each of these
invariants on the component's run before it was proved. The listed theorems are
in `PROJECT.json`; what a run checks and a theorem states is the same definition.

### Columns in memory

Assumptions: `PosAssumption` (finitely many positions), `CapacityAssumption` (no
capacity 0: `put()` into such a cache reads the back of an empty list),
`BoundsAssumption` (the setups are setups, the bounds are numbers),
`NoneAssumption`. The module begins with lemmas about the cache operators for
every list and capacity: what put, remove and trim keep of the length, the keys
and the items.

- `Residence`: `Spec => [](TypeOK /\ SingleResidence /\ CachedAreClean /\ CacheBounded)`,
  and with `NoStuckSaves` `Correctness`: `Spec => []MemoryIsConsistent`. The four
  are inductive together (`IInv`), and not alone: that a column taken out of the
  cache is gone from it needs unique keys, that a new item fits needs the bound,
  and that eviction brings nothing back needs both.
- `NoStuckSaves`: `Spec => []RefusedOnlyWhileSaving`. Each action either leaves
  `saving` smaller or starts a save; a save moves from `toSave` to `saveJobs` to
  `saver` without a gap, and only its callback takes the mark away.
- `EditsSurvive`: `Spec => []EditsAreSafe`, of clients that take no liberties.
  The invariant `EInv` adds to `IInv`: references are those the clients hold
  (`RefsAgree`); at most one save of a column is under way and it carries the
  newest version (`SavesAreSingle`), which needs that nobody edits meanwhile; a
  load is of a column that is not in memory and reads the newest version or fails
  (`LoadsAreSingle`); what is cached is what the disk has (`CachedAreCurrent`);
  and per column that dirt is scheduled (`ColumnInv`).
- `ImplementsColumnStore`: `Spec => ImplementsStore`, the refinement, from the
  same invariant: an edit is a Write, a successful save of something newer is a
  Persist, every other step is invisible.

### Region files

`RegionFile_proof`, from `SizesAssumption` (no empty chunk), `KeysAssumption`
(finitely many columns), `RegionBounds`, `WidthsAssumption` (an entry has a
length, a stamp some values) and `NoneAssumption`:

- `FileStaysConsistent`: `Spec => []FileIsConsistent`. `IInv` holds whatever
  fails, is torn, crashes or reopens: every entry of journal and index that was
  not misread lies in space written to its last cell (`EntriesAreWritten`), which
  is why no read of a saved column leaves the file, and the journal replays to
  the index (`JournalMatchesIndex`); the latter unless an entry was appended to
  a torn one or the clock went back or round, because replay goes by time stamps.
  That a new entry wins needs the stamps before it to be no later than the
  clock (`StampsAreKept`).
- `SInv` adds, in one session with a journal that can be written (`Peaceful`): the
  spans of the index and the free list share no cell (`Divides`) and, as long as
  the stream of the data file is good, make up the file (`Covers`), wherever the
  clock goes. The spans of both have to be kept apart together: first fit
  stays clear of columns only if the free spans do.
- `LastSaveIsRead`: `Spec => []SessionStoresLastSave`, from `SInv`: a column's
  cells hold what was saved last (`Holds`), because every later save took a place
  that was clear of them; while the stream is good, that is what a load returns.

### IOManager

`IOManager_proof`, from `OpenLimitsAssumption` (at least one file may be open),
`IOBounds` and `NoneAssumption`:

- `IOTypes`: types, the limit of open files and the agreement of each thread with
  its request, whatever races.
- `AcknowledgedUnlessRaced`: `Spec /\ [](raced = {}) => []AcknowledgedIsStored`,
  of the behaviours that had no race, not of a code without any. `SInv` says that
  the saves of a column stand in the queue in the order of their versions, all
  newer than what is stored, and that the one in hand precedes them until it is
  stored (`SavesAscend`): so nothing older is written after what was
  acknowledged.
- `ImplementsUnlessRaced`: `Spec /\ [](raced = {}) => ImplementsIO`. Both threads
  with their wake-ups, stops, restarts and evictions implement the two ordered
  queues of `ColumnIO`. The abstract queue is the request in hand followed by the queue; the
  step that answers is the abstract one, all others stutter.

The hypothesis `raced = {}` is the one the code does not enforce: nothing keeps
both threads out of one file (section 3).

### Mesh pipeline

`MeshPipeline_proof`, from `SetupAssumption`, `ChunksAssumption` and
`NoneAssumption`, without any condition on the setup:

- `MeshTypes`: `Spec => []TypeOK`.
- `MeshesShowWhatTheyClaim`: `Spec => []VersionsAreFloors`.

The invariant follows a version from the writer to the screen. A write is two
steps, so a version lags its contents by the half that is done (`Writers`). A
builder takes the versions it will claim before it reads, so its claims are at
most what was there when it read, and contents only grow. What is finished, in
the upload queue or on the screen is such a mesh (`MeshesAreFloors`); and
without a pool nothing is queued (`SyncIsDirect`), which is needed because a
renderer that builds directly skips the queues.

### Game session

`GameSession_proof`, from `SchedulerAssumption` (finitely many positions; the
outbox is swapped into a sequence) and `SessionAssumption`, for all setups; the
habits of callers and handlers that break a property are excluded inside it.

- `LightIsToldInOrder`: `Spec => []LightUpdatesChain`.
- `TicksAreNotOrphaned`: `Spec => []NoOrphanTicks`.
- `FacesArrive`: `Spec => []FacesAreNotForgotten`.
- `SessionTypes`: `Spec => []TypeOK`.

The first needs `OnceInv`, that no position is the subject of two changes in
commands, batch, external input and inbox together (each disjoint from the
others), that a placement on its way names the type that is still there and is
no air (`LightInv`), and that every block is in a subchunk (`ExistInv`), so that
what is read again after `onPlace()` is what that left. The second adds that changes are processed only in the stage
`events` and ticks are under way only in a tick (`StageInv`): so breaking a
block meets its ticks in `scheduledTicks_` alone, where they are cancelled, and
never in the outbox. `TickInv` then says that every tick on its way was asked
for by the block that is there now, and that a placement meets air. The third
needs only that a face that is owed is carried by the inbox or the outbox
(`OwedInv`), which merging preserves because it joins the masks. `LoopInv` is about the
catch-up loop: a tick is run only if the loop saw it to be late. The queues are
used through lemmas on appending, joining and taking from either end, and the
outbox through what a push keeps of it.

### Frames

`FrameLoop_proof`, for every set of workers and all setups (any number of
requests and presses of F6), from `SetupAssumption` alone:

- `WakeUpsArrive`: `Spec => []NoMissedWake`.
- `FramesFollowFences`: `Spec => FenceBeforeFrame`.

Both rest on `LoopInv`. `NoMissedWake` speaks of the moment of sleeping only; to
be inductive it is extended to the whole time between two takings of meshes
(`Unseen`: the signal may be raised long before the wait), and it needs that
the pool is attached while the inner loops run (`AttachedInv`). That a frame's
fence is free when it begins has to be carried from the kick's answer through the
drain, the events, F6 and the second phase (`FenceInv`); it holds because
`useFenceThread` was read when the kick was made and `kickWait()` takes `ready_`
back. There is one lemma per part of the invariant and one step per action.

### Queues

`WorkQueue_proof`, from `WorkQueueAssumption`, for any queues, keyed or not:

- `ItemsAreDeliveredOnceInOrderAlways`: `Spec => []ItemsAreDeliveredOnceInOrder`.
- `AlarmsAreKeptAlways`: `Spec => AlarmsAreKept`.

The invariant joins what a queue gave out to what it holds (`Flows`): taking
leaves this flow as it is, however many items go at once, a push appends to it or
merges into an item of it that is still in the queue, and clearing cuts its end
off. Order needs that the items are pairwise disjoint, that none is empty and that
a new number is greater than all; a merge goes to one place because a keyed queue
holds a key once (`KeyedOnce`).

### Entities, inventories, modules, palettes

`Content_proof` is about four components that share nothing but the lemmas on
recursive functions. tlapm cannot instantiate the induction theorems of the
library, whose parameters are operators; so the loops of the code are recursive
functions, and induction over their turns is on the set of numbers for which a
claim holds: the least number missing from it would contradict the step
(`LeastNatural`, `UpTo`). The existence of each function is shown the same way.

- `Consistency`: `Spec => []EntitiesAreConsistent`, from `EntityAssumption`.
  `EntityInv` says that whoever applies the whole queue to what it has applied so
  far knows the entities there are, and the place of each that is no player
  (`ViewInv`). Events are taken in any portions (`ViewedConcat`); a tick that
  despawns tells of each entity once, and a snapshot never comes after the
  despawning of its entity. Ids in the table are below the next one to be given
  or among those of the set-up (`TablesInv`), which is why spawning tells of
  something new; a command for the player never names another entity (`PlayerInv`).
- `ItemsAreSafe`: `InventorySpec => []InventoryIsSound`, from
  `InventoryAssumption`. That items are conserved is said of what `countItem` finds
  in some number of slots that hides none, since shrinking hides items without
  losing them (`Accounted`). One turn of a loop of `addItem()` or `removeItem()`
  moves what it counts (`Turned`); the loop invariant is `Kept`, with, for each
  pass, what is true of the slots already visited when something remains: full in
  the first pass, taken in the second (`LoopKeeps`). That is why a refusal proves
  that there is no room.
- `DependenciesHold`: `ModuleSpec => []DependenciesOutlive`, from
  `ModuleAssumption`. Whatever Kahn's algorithm lists comes after its
  dependencies, and it lists everything or nothing (`OrderIs`); its invariant
  (`Sound`) is that list and queue together hold nothing twice and that what is
  queued has its dependencies listed. `ModuleInv` adds that the order in force, if
  there is one, has every initialized module in it (`OrderHolds`): it would be
  lost if `initializeAll()` replaced the order by one without modules started
  earlier, and after a failed resolution there is no order and nothing is
  unloaded. What counts as initialized is running or failed to stop, and what
  runs counts as initialized (`MarksHold`).
- `SubChunkHistories`: for every history of calls on a subchunk that starts empty
  (a block set, a fill, a clearing, a compaction, anything that touches rotations,
  light, extra data or ticks), each cell shows the type it was last given and
  `PaletteAgrees` holds; from `PositionAssumption`, for every size and any types.
  `SubChunk` has operators and no variables, so the theorem speaks of sequences
  of states in which each is made from the one before by a call (`Edits`).
  `SubChunkInv` is stated of the table of counts wherever it ends, for it is
  shorter than the palette until a cell uses its last entry. `setBlock()` gives
  the new type its slot before it counts the old one down (`AddTypeKeeps`,
  `RemoveTypeKeeps`): the old type leaves the palette only when its count was 1,
  and then no other cell holds its index, because moving one cell moves two counts
  by one (`CountMoves`). `CompactionKeepsBlocks` is the same for `compact()`: every
  index some cell holds is kept, air keeps the first, and no two kept entries are
  of one type, so that old and new indices name the same blocks. `WritesAreKept`
  says this of whole columns, together with batches, pruning and reloading, and
  asks also that the bits a stored cell gets hold its index: that stays with TLC.

### What the attempts corrected

Two definitions were wrong and no run had shown it. `ProcessBroken` let an
`onBreak()` that schedules nothing put a cancelled tick back if it was identical to
the one asked for; the guard now speaks of all ticks of the position. And the
clause of `FileIsConsistent` on replay was claimed with a clock set back.
`GameSession`'s `TypeOK` bounded the lateness by `MaxCatchup`, which holds only if
`MaxLate` does not exceed it. `InventoryAssumption` did not say that stack sizes
are positive: every item type has such a `maxStackSize` (64 unless it says
otherwise), but nothing checks it, and a stack of none is an empty slot.

### Only model-checked

Every liveness property (fairness and ENABLED are beyond the prover), the bounds
in `FrameLoop`'s `TypeOK`, the rules of movement and of rays in `EntityManager`,
and the modules without a proof: `LightEngine`, `WorldStore`, and `LodMesh`,
`Tags`, `Schematic`, `WorldGen` and `Settings` of `content_any`. Induction over
the turns of a bounded loop is proved by hand, as above; RECURSIVE operators are
beyond tlapm (bytes in `Cbor`, and with it `Schematic` and `WorldGen`), and so is
what a computation yields on the whole: that the searches of `LightEngine` find
the right light, that a stored column is read back, that greedy quads cover the
faces, stays with TLC on bounded inputs.

## 5. Disagreements found

One has a run, `rf_reopen`, and is listed in `PROJECT.json` under "findings".
Others can be reproduced by putting the definition named here as INVARIANT or
PROPERTY, and the set-up named here as `Setups`, into the configuration of the
component:

- an edit during a save is marked clean by `onSaveComplete()`
  (`column_manager.cpp:145`; `column_manager.hpp:31`: "Clean, in LRU cache waiting
  for eviction"): `CachedAreSaved` with `EditInSave`;
- the load and the save thread use one `RegionFile` without a lock
  (`io_manager.cpp:194`; `io_manager.hpp:37`: "Thread safety: All public methods
  are thread-safe"): `AcknowledgedIsStored` with `Hazards = {"overlap"}`;
- with a lighting backlog an edit on a border never remeshes the other side
  (`world.cpp:340`; `world.hpp:132`: "Includes the containing subchunk and any
  adjacent subchunks affected"): `NeighboursCatchUp` with `NotDeferred`;
- the main loop's `WakeSignal` is destroyed before the threads of the pool stop
  (`world_renderer.hpp:719`; `queue.hpp:97`: "must outlive queue or be
  detached"): `SignalOutlivesQueue` with `PlainSetups`;
- `skipValue()` knows no tags and mistakes some doubles (`cbor.hpp:213`;
  `data_container.cpp:287`: "Interned strings are tagged so they get
  re-interned"): `ReloadKeeps` with `DataSetups`; schematics have it too;
- a block is placed into the player when it moves before the game thread gets to
  the command (`game_session.cpp:94`, `physics.hpp`, `BlockIfIntersects`):
  `PlacedOutsideBody` with `PlaceSetups`;
- `setDeadline()` does not wake a thread already waiting without a deadline
  (`wake_signal.hpp`: "Notify in case someone is already waiting with no
  deadline"): `DeadlinesWake`;
- the order of columns matters to what is generated
  (`docs/27-world-generation.md:448`: "Column order doesn't matter"):
  `OrderDoesNotMatter`;
- corners on three of the six faces are shaded by the wrong neighbours (`mesh.cpp`,
  `getFaceAO`: "Corners are in CCW order"): `EveryCornerShade`.

Met while modelling, without a definition of their own:

- `ColumnManager`: releasing the last reference during a save, editing a column
  that stayed because it was pinned, and a second load of a column each lose an
  edit (the liberties above). A pinned column keeps the state it had.
- `RegionFile`: an append to the journal that fails after the old span was freed
  leaves the index pointing into free space; between `remove` and `rename` in
  `compactToc()` there is no journal, and it replaces the old one also when it
  could not be written. After a torn entry `loadToc()` misreads all later ones
  (nothing marks where an entry begins), so that saves acknowledged from then on
  are lost or land elsewhere on the next start. Stamps lose the upper 20 bits of
  the time. One failed write makes every later save and load of the region fail.
- `IOManager::flush()` waits until the queue is empty, not until the save taken
  from it is written (`io_manager.hpp:81`: "blocks until complete").
- Mesh pipeline: two workers may put an older view of a neighbour's border in
  place of a newer one; a chunk that appears does not remesh its neighbours.
- `UpdateScheduler`: the inbox is worked off from its end, so commands of one
  drain take effect in reverse (`event_queue.cpp:180`); a placement into a
  missing subchunk is dropped though `placeBlock()` returned true (line 249); a
  block placed over a ticking one leaves it registered; an event made by
  `BlockEvent::neighborChanged()` has an empty face mask, and nothing is
  delivered for it unless a face is added; a block that a handler sets through
  its context keeps the ticks and the registration of the one before, and the
  light engine does not hear of it, except in `onPlace()`; placing air as a block
  may destroy the subchunk that is read next (lines 298-320); `notifyNeighbors()` builds contexts
  without a scheduler, so that `scheduleTick()` there does nothing; placing and
  breaking push no neighbour notifications although `world.hpp` says they do;
  `docs/24-event-system.md:639` gives the input queue the highest priority,
  while the code drains it once, before the first event.
- `GameSession`: commands pushed while the queue is shut down are dropped though
  the action returns true.
- `LightEngine`: a shaft dug under the open sky loses one level of sky light
  with every block dug, where light falling straight down through air should
  lose none (`light_engine.cpp:311`, against the comment at line 490).
- `LightEngine`: a block of attenuation 2 to 14 dims light that spreads through
  it, but placing one leaves the light as it was and removing one does not let more
  in: `onBlockPlaced()` and `onBlockRemoved()` look only for attenuation 15
  (`light_engine.cpp:231`, `280`).
- `LightEngine::recalculateColumn()` computes the sky light of a column and then
  calls `recalculateSubChunk()`, which clears it again; only tests call it.
- `SubChunk`: versions begin at 1 again when a chunk is loaded anew, so that a
  claim kept from before may look current; `MeshPipeline` loads a chunk once.
- `Queue` and `KeyedQueue`: an untimed `waitForWork()` keeps an alarm that was moved
  while it slept only because `wait_until()` takes `alarmTime_` by reference and
  looks at it again (`queue.hpp:333`, `keyed_queue.hpp:455`).
- The main loop: after a frame that could not be drawn the fence waiter is not
  attached again, and only the 5 ms deadline wakes the loop for its fence; F6
  off destroys the rebuild queue while `World` and `LightEngine` keep a pointer
  to it (the model lets nobody else push after the first F6).
- Queues: an untimed `waitForWork()` may return true after a shutdown;
  `clearAlarm()` leaves a sleeper asleep until the old time; a shutdown followed
  by `resetShutdown()` before the sleeper runs is not noticed.
- Storage: `setBlock()` keeps rotation and data of the block it replaces; empty
  subchunks' light and data and all heightmaps are not stored; empty arrays of
  doubles or texts come back as arrays of integers; `BlockPos::pack()` keeps 12
  bits of y where `position.hpp:121` says 21; "Atomic commit" of a batch is one
  call per block.
- Rotation: the two `applyHorizontalRotation()` turn in opposite senses: `CW_90`
  takes the vector of `NegX` to that of `NegZ`, and the face `NegX` to `PosZ`.
- Physics and entities: a body exactly on a block boundary falls through,
  although `physics.hpp` shrinks blocks "so entities can stand exactly at block
  boundaries"; resting entities keep their velocity; a ray that begins in a block
  of several boxes returns the first of them; a ray that begins exactly on the upper
  face of a block in another cell and leads into it passes through it, and one that
  begins on a lower face finds that block at distance 0 even when it leads away; `spawnEntity()` with a ready entity does not advance the
  next id; `setCorrectionThreshold()` leaves existing authorities as they are;
  `registerEntityEventHandlers()` is empty; the demo throws graphics events away
  and reports its standing body while it flies.
- Meshes: the winding that `FACE_DATA` calls counter-clockwise is clockwise from
  outside for all six faces, while custom faces compute their normals; merged
  quads of equal but uneven shade stretch its gradient; the workers build with
  all blocks opaque, the split by transparency has no caller.
- Tags: with cyclic includes the result of an include depends on the order of
  a hash table; the conflict check of `autoResolve()` can never be true
  (`unification.cpp`: "Only flag as conflict if families are truly
  incompatible"); an item listed in a second group stays in that group's list; an
  error in a file leaves what came before it applied.
- Modules: a failing order in a second `initializeAll()` replaces `initOrder_` by
  nothing, so that running modules are never unloaded; handles are closed before
  the objects of their modules are destroyed; a module whose `onRegister()` throws
  gets no `onUnload()`.
- Schematics: turning composes a block's rotation on the wrong side, displacements
  are not turned, mirroring leaves rotations; cropping to nothing loses the name;
  pointers of the clipboard dangle after it changes.
- World generation: `generateColumn()` cannot be the column generator, as passes
  call `setBlock()` under the lock of the table; `OrePass` takes the biome of the
  centre and places at least one vein; `maxHeight < minHeight` divides by zero.
- Inventory: `takeItem()` of a whole stack loses wear and metadata ("Durability/
  metadata stay with the original stack"); `isFull()` asks for full stacks where
  its comment asks for no empty slot; shrinking hides items.
- Settings: custom settings, key bindings among them, are never written
  (`config.hpp:27`: "Changes are persisted to disk on save()"); a world's removed
  override comes back on reload; a name with a colon changes its key and one that
  reads as a number is lost; whole doubles read back as integers; `remove()` of a
  duplicated key revives the older line; `reload()` of a missing file resets to
  defaults silently; includes may include themselves; the two parsers differ on
  what is true; all typed keys are equal before `init()`, and the demo reads one.

## 6. Not modelled

Light levels of a whole column from nothing, `LightData`, the resource locator,
registries of types, world time and sky colours, sound, textures and drawing,
scripts, and the deprecated queues; see the notes in `PROJECT.json`. Numbers are
integers everywhere: what rounding does to physics, noise or colours is not shown,
nor what the camera's position loses when `setFlyMode()` turns doubles into floats.
Text inside a line, compression and operating system calls are abstracted.
`RegionFile`, `IOManager` and `ColumnManager` are joined by the promises they make
to each other and not by one run.

## 7. Plan

Done: all components with logic of their own, and proved the safety of those with
threads and files and of entities, inventories, modules and palettes. What adds
most next:

1. proofs: the height map of `ChunkColumn` over `SubChunkHistories`, which needs
   its stored form in a module of its own; `TagsAreConsistent`, that rebuilding
   reaches the closure of the includes.
2. models: force loaders joined with the eviction of `ColumnManager`; the light
   of a whole column; input contexts.
