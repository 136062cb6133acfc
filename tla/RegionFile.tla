----------------------------- MODULE RegionFile -----------------------------
(***************************************************************************)
(* One region file (region_file.cpp): the data file, the journal of table  *)
(* of contents entries, the in-memory index rebuilt from it, and the list  *)
(* of free spans.  One thread uses it at a time.                           *)
(*                                                                         *)
(* The data file is a sequence of cells.  A chunk of size n written at off *)
(* fills the cells off..off+n-1, the first being its header; a cell names  *)
(* the chunk it belongs to, so that a read can tell whether it got one     *)
(* whole chunk, and whose.  A column's contents are a version number.      *)
(*                                                                         *)
(* The journal is kept as loadToc() would read it: the entries that its    *)
(* bytes make up, and how many bytes are left over after them.  An append  *)
(* that fails or is cut short leaves a part of an entry, and since nothing *)
(* marks where an entry begins, all that is appended behind it is misread: *)
(* as entries whose fields may be anything, real being FALSE.              *)
(*                                                                         *)
(* Every write is flushed before the call goes on, so that closing the     *)
(* file and a crash of the process leave the same bytes behind; a crash    *)
(* inside a call leaves what the call has written so far.  What a failed   *)
(* write leaves in a stream's buffer may be written when the stream is     *)
(* closed: the same file as if it had been written at once, because the    *)
(* stream is not used in between.  Left out are files that cannot be       *)
(* opened, removed or renamed.                                             *)
(*                                                                         *)
(* events says what may happen besides saves that work:                    *)
(*   "reopen"      the file is closed, or the process ends, and opened     *)
(*   "crash"       the process ends inside a save                          *)
(*   "dat_fails"   writing the data file fails                             *)
(*   "toc_fails"   appending to the journal fails                          *)
(*   "clock_back"  the system clock is set back between two saves          *)
(*   "compact"     compactToc() is called                                  *)
(*   "compact_fails"  writing compactToc()'s file fails                    *)
(*   "compact_crash"  the process ends inside compactToc()                 *)
(***************************************************************************)
EXTENDS Integers, Sequences, SequencesExt, FiniteSetsExt

CONSTANTS Keys, None, Sizes, MaxEnd, MaxSaves,
    MaxMisread,   \* the misread entries of a journal, a bound
    EntryBytes,   \* the length of a journal entry, 24 bytes in the code
    StampRange,   \* the times that a stamp tells apart, 2^44 microseconds in the code
    MisreadOffs,  \* offsets that misread entries may name
    EventSets     \* what may happen, one of the sets in each behaviour

ASSUME SizesAssumption == Sizes \subseteq Nat \ {0}
ASSUME KeysAssumption == IsFiniteSet(Keys)
ASSUME RegionBounds == MaxEnd \in Nat /\ MaxSaves \in Nat /\ MaxMisread \in Nat /\ MisreadOffs \subseteq Nat
ASSUME WidthsAssumption == EntryBytes \in Nat \ {0} /\ StampRange \in Nat \ {0}

VARIABLES
    events,     \* what may happen, chosen once
    dat,        \* the data file: cell -> what is in it, None if never written
    toc,        \* the journal's entries, as loadToc() would read them
    tail,       \* the bytes after them, NoHeader if it would not accept the file
    isOpen,     \* the RegionFile object exists
    index,      \* index_: key -> TocEntry, None if the column is not there
    free,       \* freeSpans_, a multiset: span -> how often it is listed
    dataEnd,    \* dataFileEnd_
    datBad,     \* datFile_ has failed: no stream clears its error state
    tocBad,     \* tocFile_ has failed
    clock,      \* the system clock when a save last looked at it
    saved,      \* key -> newest version whose save returned true
    tried,      \* key -> newest version handed to saveColumnRaw()
    behind      \* the journal was not written as the index was

disk   == <<dat, toc, tail>>
memory == <<isOpen, index, free, dataEnd, datBad, tocBad>>
ghosts == <<saved, tried, behind>>
vars   == <<events, disk, memory, clock, ghosts>>

NoHeader == -1

Cells == 0..(MaxEnd - 1)

Span == {s \in [off : 0..MaxEnd, size : 1..MaxEnd] : s.off + s.size <= MaxEnd}

TocEntry == [key : Keys, off : Nat, size : Nat, stamp : Nat, real : BOOLEAN]

Cell == [key : Keys, ver : Nat, size : Nat, at : Nat]

ASSUME NoneAssumption == None \notin TocEntry \union Cell

SpanOf(e) == [off |-> e.off, size |-> e.size]

\* What fromBytes() may make of shifted bytes, within the bounds.
Misread ==
    {e \in [key : Keys, off : MisreadOffs, size : Sizes, stamp : {0, StampRange - 1}, real : {FALSE}] :
        SpanOf(e) \in Span}

CellsOf(s) == s.off..(s.off + s.size - 1)

Listed(s) == free[s] > 0

\* addFreeSpan(): the span is put on the list, whatever it overlaps.
AddFree(f, s) == [f EXCEPT ![s] = @ + 1]

NoFree == [s \in Span |-> 0]
----------------------------------------------------------------------------
\* findFreeSpan(): the smallest span that fits, the lowest of those.
Fitting(size) == {s \in Span : Listed(s) /\ s.size >= size}

BestFit(size) ==
    CHOOSE s \in Fitting(size) : \A t \in Fitting(size) :
        s.size < t.size \/ (s.size = t.size /\ s.off <= t.off)

\* Mutant: the rest of the span goes back to the list a cell too early.
Carve_Overlapping(s, size) ==
    LET f == [free EXCEPT ![s] = @ - 1] IN
    IF s.size > size
    THEN AddFree(f, [off |-> s.off + size - 1, size |-> s.size - size + 1]) ELSE f

\* Mutant: the rest of the span is forgotten.
Carve_Drops(s, size) == [free EXCEPT ![s] = @ - 1]

\* removeFreeSpan(): what the chunk does not need of the span stays free.
Carve(s, size) ==
    LET f == [free EXCEPT ![s] = @ - 1] IN
    IF s.size > size
    THEN AddFree(f, [off |-> s.off + size, size |-> s.size - size]) ELSE f

\* Where a chunk goes, and the free list and end of file after that.
Place(size) ==
    IF Fitting(size) # {}
    THEN [off |-> BestFit(size).off, free |-> Carve(BestFit(size), size), end |-> dataEnd]
    ELSE [off |-> dataEnd, free |-> free, end |-> dataEnd + size]

\* writeChunkData() of the first n cells of a chunk.
Written(k, v, size, off, n) ==
    [c \in Cells |-> IF c \in off..(off + n - 1)
                     THEN [key |-> k, ver |-> v, size |-> size, at |-> c - off]
                     ELSE dat[c]]

\* currentTimestamp() shifts the clock's upper bits out, so that stamps start
\* again after StampRange.
StampAt(time) == time % StampRange

\* Time passes between two saves, unless the clock is set back.
Times == {clock + 1} \union (IF "clock_back" \in events THEN 0..clock ELSE {})
----------------------------------------------------------------------------
\* loadToc() reads the entries in order: one with a later time stamp replaces
\* the one before it and frees its span, any other only frees its own.  So of
\* the entries of a column the first with its latest stamp stays.
Stays(journal, i) ==
    \A j \in DOMAIN journal : journal[j].key = journal[i].key =>
        \/ journal[j].stamp < journal[i].stamp
        \/ journal[j].stamp = journal[i].stamp /\ i <= j

Staying(journal, k) == {i \in DOMAIN journal : journal[i].key = k /\ Stays(journal, i)}

Replay(journal) ==
    [index |-> [k \in Keys |-> IF Staying(journal, k) = {} THEN None
                               ELSE journal[CHOOSE i \in Staying(journal, k) : TRUE]],
     free  |-> [s \in Span |-> Cardinality({i \in DOMAIN journal :
                                   ~Stays(journal, i) /\ SpanOf(journal[i]) = s})]]

\* The size of the data file.
DatSize == Max({c + 1 : c \in {d \in Cells : dat[d] # None}} \union {0})

Init ==
    /\ events \in EventSets
    /\ dat = [c \in Cells |-> None]
    /\ toc = <<>> /\ tail = 0
    /\ isOpen = TRUE
    /\ index = [k \in Keys |-> None]
    /\ free = NoFree
    /\ dataEnd = 0
    /\ datBad = FALSE
    /\ tocBad = FALSE
    /\ clock = 0
    /\ saved = [k \in Keys |-> 0]
    /\ tried = [k \in Keys |-> 0]
    /\ behind = FALSE

\* The object and its file handles are gone.
Gone == isOpen' = FALSE /\ UNCHANGED <<index, free, dataEnd, datBad, tocBad>>

\* appendTocEntry() writes the first n bytes of e at the end of the journal.
AppendToc(e, n) ==
    \/ tail = NoHeader /\ UNCHANGED <<toc, tail>>
    \/ tail # NoHeader /\ tail + n < EntryBytes /\ tail' = tail + n /\ UNCHANGED toc
    \/ /\ tail # NoHeader /\ tail + n >= EntryBytes
       /\ tail' = tail + n - EntryBytes
       /\ Cardinality({i \in DOMAIN toc : ~toc[i].real}) < MaxMisread \/ tail = 0
       /\ \E read \in IF tail = 0 THEN {e} ELSE Misread : toc' = Append(toc, read)

EntryFor(k, size) ==
    [key |-> k, off |-> Place(size).off, size |-> size, stamp |-> StampAt(clock'), real |-> TRUE]

\* The free list once the place has been taken and k's old one is given back.
Exchanged(k, size) ==
    IF index[k] = None THEN Place(size).free ELSE AddFree(Place(size).free, SpanOf(index[k]))

\* saveColumnRaw() that works: data, then the old span is freed, then the
\* journal, then the index.
SaveOk(k, size) ==
    /\ ~datBad /\ ~tocBad
    /\ dat' = Written(k, tried[k] + 1, size, Place(size).off, size)
    /\ dataEnd' = Place(size).end
    /\ free' = Exchanged(k, size)
    /\ AppendToc(EntryFor(k, size), EntryBytes)
    /\ index' = [index EXCEPT ![k] = EntryFor(k, size)]
    /\ saved' = [saved EXCEPT ![k] = tried[k] + 1]
    /\ behind' = (behind \/ tail # 0)
    /\ UNCHANGED <<isOpen, datBad, tocBad>>

\* The data file cannot be written: the place is taken all the same, and
\* nothing clears the stream's error state.
SaveDatFails(k, size) ==
    /\ datBad \/ "dat_fails" \in events
    /\ \E n \in IF datBad THEN {0} ELSE 0..size :
          dat' = Written(k, tried[k] + 1, size, Place(size).off, n)
    /\ free' = Place(size).free
    /\ dataEnd' = Place(size).end
    /\ datBad' = TRUE
    /\ UNCHANGED <<toc, tail, isOpen, index, tocBad, saved, behind>>

\* The journal cannot be written, though some or all of the entry may get into
\* it: the old span has been freed by then, and the index still refers to it.
SaveTocFails(k, size) ==
    /\ ~datBad
    /\ tocBad \/ "toc_fails" \in events
    /\ dat' = Written(k, tried[k] + 1, size, Place(size).off, size)
    /\ free' = Exchanged(k, size)
    /\ dataEnd' = Place(size).end
    /\ \E n \in IF tocBad THEN {0} ELSE 0..EntryBytes : AppendToc(EntryFor(k, size), n)
    /\ tocBad' = TRUE
    /\ behind' = (behind \/ toc' # toc)
    /\ UNCHANGED <<isOpen, index, datBad, saved>>

\* The process ends when n cells, or all of them and m bytes of the journal's
\* entry, have been written.
SaveCrash(k, size) ==
    /\ "crash" \in events
    /\ ~datBad
    /\ \E n \in 0..size, m \in IF tocBad THEN {0} ELSE 0..EntryBytes :
          /\ m > 0 => n = size
          /\ dat' = Written(k, tried[k] + 1, size, Place(size).off, n)
          /\ AppendToc(EntryFor(k, size), m)
    /\ Gone
    /\ UNCHANGED <<saved, behind>>

Save(k, size) ==
    /\ isOpen
    /\ Place(size).end <= MaxEnd
    /\ FoldFunction(+, 0, tried) < MaxSaves
    /\ tried' = [tried EXCEPT ![k] = @ + 1]
    /\ clock' \in Times
    /\ \/ SaveOk(k, size)
       \/ SaveDatFails(k, size)
       \/ SaveTocFails(k, size)
       \/ SaveCrash(k, size)

\* The data that e names begins past the end of the file, or goes on past it.
ReadsPastEnd(e) ==
    \/ e.off >= DatSize
    \/ dat[e.off] # None /\ dat[e.off].at = 0 /\ e.off + Min({dat[e.off].size, e.size}) > DatSize

\* A loadColumn() that reaches the end of the data file puts the stream into its
\* error state, too.  All others change nothing.
LoadFails(k) ==
    /\ isOpen /\ ~datBad
    /\ index[k] # None /\ ReadsPastEnd(index[k])
    /\ datBad' = TRUE
    /\ UNCHANGED <<disk, isOpen, index, free, dataEnd, tocBad, clock, ghosts>>

\* ~RegionFile(), or the end of the process between two calls.
Close ==
    /\ "reopen" \in events \/ "crash" \in events
    /\ isOpen
    /\ Gone
    /\ UNCHANGED <<disk, clock, ghosts>>

\* RegionFile(): openFiles() measures the data file, loadToc() replays.
Open ==
    /\ ~isOpen
    /\ isOpen' = TRUE
    /\ index' = Replay(toc).index
    /\ free' = Replay(toc).free
    /\ dataEnd' = DatSize
    /\ datBad' = FALSE
    /\ tocBad' = FALSE
    /\ behind' = FALSE
    /\ UNCHANGED <<disk, clock, saved, tried>>

Entries == {index[k] : k \in Keys} \ {None}

\* compactToc(): the journal is rewritten from the index, by way of a second
\* file that replaces it, also when not all of it could be written; the
\* journal's handle is opened afresh. (A header that was cut short makes the file
\* unreadable; that later appends complete it by chance is left out.)
CompactToc ==
    /\ "compact" \in events
    /\ isOpen
    /\ \/ toc' = SetToSeq(Entries) /\ tail' = 0 /\ behind' = FALSE
       \/ /\ "compact_fails" \in events
          /\ \/ (\E part \in SUBSET Entries : toc' = SetToSeq(part)) /\ tail' \in 0..(EntryBytes - 1)
             \/ toc' = <<>> /\ tail' = NoHeader
          /\ behind' = TRUE
    /\ tocBad' = FALSE
    /\ UNCHANGED <<dat, isOpen, index, free, dataEnd, datBad, clock, saved, tried>>

\* The process ends when the old journal is removed and the new one not yet
\* renamed: the next openFiles() makes an empty one.
CompactCrash ==
    /\ "compact_crash" \in events
    /\ isOpen
    /\ toc' = <<>> /\ tail' = 0
    /\ Gone
    /\ UNCHANGED <<dat, clock, ghosts>>

Next ==
    /\ events' = events
    /\ \/ \E k \in Keys, size \in Sizes : Save(k, size)
       \/ \E k \in Keys : LoadFails(k)
       \/ Close
       \/ Open
       \/ CompactToc
       \/ CompactCrash

Spec == Init /\ [][Next]_vars
----------------------------------------------------------------------------
\* Every variable has its type.
TypeOK ==
    /\ events \in EventSets
    /\ dat \in [Cells -> Cell \union {None}]
    /\ toc \in Seq(TocEntry)
    /\ tail \in NoHeader..(EntryBytes - 1) /\ (tail = NoHeader => toc = <<>>)
    /\ isOpen \in BOOLEAN
    /\ index \in [Keys -> TocEntry \union {None}]
    /\ free \in [Span -> Nat]
    /\ dataEnd \in 0..MaxEnd
    /\ datBad \in BOOLEAN /\ tocBad \in BOOLEAN
    /\ clock \in Nat
    /\ saved \in [Keys -> Nat]
    /\ tried \in [Keys -> Nat]
    /\ behind \in BOOLEAN

\* The version found at an entry's place, None if there is no header, a torn
\* chunk or another column's.
ChunkAt(e) ==
    IF /\ e.off \in Cells
       /\ dat[e.off] # None /\ dat[e.off].key = e.key /\ dat[e.off].at = 0 /\ dat[e.off].size = e.size
       /\ \A c \in CellsOf(SpanOf(e)) : c \in Cells /\ dat[c] = [dat[e.off] EXCEPT !.at = c - e.off]
    THEN dat[e.off].ver ELSE None

Stored(k) == IF index[k] = None THEN 0 ELSE ChunkAt(index[k])

\* readChunkData() returns nothing once the stream has failed.
ReadChunk(e) == IF datBad THEN None ELSE ChunkAt(e)

\* loadColumn().
Loaded(k) == IF index[k] = None THEN 0 ELSE ReadChunk(index[k])

\* Where the index says a column is, there is what its last successful save
\* stored: nothing torn, no other column's chunk and no older version.
StoresLastSave == isOpen => \A k \in Keys : Stored(k) = saved[k]

\* The file was not reopened and its journal kept up.
OneSession == isOpen /\ events \intersect {"reopen", "crash", "toc_fails", "compact_crash"} = {}

\* In one session a column is never lost or overwritten, though data writes
\* fail, the journal is compacted, in whole or in part, and the clock goes back
\* or round; and until a data write fails, that is what loadColumn() returns.
SessionStoresLastSave ==
    OneSession => StoresLastSave /\ (~datBad => \A k \in Keys : Loaded(k) = saved[k])

StoredIn(c) == {k \in Keys : index[k] # None /\ c \in CellsOf(SpanOf(index[k]))}

FreeIn(c) == {s \in Span : Listed(s) /\ c \in CellsOf(s)}

\* In one session space is handed out once, so that no save overwrites another
\* column, and none leaks until a write fails: each cell of the data file is a
\* stored column's or listed as free, and that once; beyond the end is nothing.
SpaceIsOwnedOnce ==
    OneSession =>
        /\ \A s \in Span : free[s] <= 1
        /\ \A c \in Cells :
              LET owners == Cardinality(StoredIn(c)) + Cardinality(FreeIn(c)) IN
              /\ owners <= IF c < dataEnd THEN 1 ELSE 0
              /\ c < dataEnd /\ ~datBad => owners = 1

\* No stamp is older than one before: the clock was not set back, and has not
\* gone round what stamps can tell.
TimeIsRight == "clock_back" \notin events /\ clock < StampRange

AllReal(journal) == \A i \in DOMAIN journal : journal[i].real

\* Closing and opening at any moment gives the index back as it is, also after
\* saves that failed and compaction: as long as no entry was appended to a torn
\* one, no compaction was cut short and no stamp ran backwards, the journal
\* says of every column what the index says.
JournalMatchesIndex ==
    isOpen /\ ~behind /\ TimeIsRight /\ AllReal(toc) => Replay(toc).index = index

\* No load of a column that was saved reads beyond the end of the data file,
\* which would leave the stream in its error state for good, whatever failed or
\* ended before. (Of an entry that was misread that can be said of none.)
ReadsStayInFile ==
    isOpen => \A k \in Keys : index[k] # None /\ index[k].real => index[k].off + index[k].size <= DatSize

\* The three views of the file agree: the index, the journal it is replayed
\* from, and the spans it and the free list own.
FileIsConsistent ==
    /\ TypeOK
    /\ ReadsStayInFile
    /\ JournalMatchesIndex
    /\ SpaceIsOwnedOnce
=============================================================================
