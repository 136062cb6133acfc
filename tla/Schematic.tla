------------------------------ MODULE Schematic ------------------------------
(***************************************************************************)
(* Schematics (schematic.cpp, schematic_io.cpp) and the session clipboard  *)
(* (clipboard_manager.cpp).  A schematic is a box of snapshots, a snapshot *)
(* a block's type, rotation matrix, displacement and data (<<>> or         *)
(* <<container>>).  Names, authors and LZ4 are left out; a file is the     *)
(* record of the fields of its CBOR map, with the data of a block in bytes.*)
(***************************************************************************)
EXTENDS Rotation, Cbor

CONSTANTS ByteValues,     \* values of one byte of the block array (256)
          Designs,        \* the schematics somebody draws
          Swaps,          \* replacement maps
          MaxEdits

ASSUME SchematicAssumption == {ByteValues, MaxEdits} \subseteq Nat \ {0}

VARIABLES drawn,     \* ghost: the design behind piece, with the same replacements
          piece,     \* the schematic at hand
          clips,     \* the ClipboardManager: schematics with their ghosts
          edits

schematicVars == <<drawn, piece, clips, edits>>

NoBlock == ""
NoOffset == <<0, 0, 0>>
Nothing == [type |-> NoBlock, rotation |-> Identity, displacement |-> NoOffset, data |-> <<>>]

\* BlockSnapshot::isAir, hasMetadata.
SnapIsAir(snap) == snap.type \in {NoBlock, "air"}
HasMetadata(snap) == snap.rotation # Identity \/ snap.displacement # NoOffset \/ snap.data # <<>>

Box(size) == (0..size[1] - 1) \X (0..size[2] - 1) \X (0..size[3] - 1)
Solids(s) == {p \in Box(s.size) : ~SnapIsAir(s.at[p])}

\* A schematic of this size with these <<position, snapshot>> pairs.
Filled(size, pairs) ==
    [size |-> size,
     at |-> [p \in Box(size) |-> IF \E x \in pairs : x[1] = p THEN (CHOOSE x \in pairs : x[1] = p)[2] ELSE Nothing]]

Sum3(p, q) == Each(LAMBDA i : p[i] + q[i])
LowCorner(ps) == Each(LAMBDA i : Min({p[i] : p \in ps}))
HighCorner(ps) == Each(LAMBDA i : Max({p[i] : p \in ps}))
Less3(p, q) == Each(LAMBDA i : p[i] - q[i])

----------------------------------------------------------------------------
(* Transformations *)

\* rotateSchematic: the box of the turned corners moves to the origin; the
\* displacement of a block stays as it was.
RotateSchematic(s, r) ==
    LET corners == {Apply(r, c) : c \in {0, s.size[1] - 1} \X {0, s.size[2] - 1} \X {0, s.size[3] - 1}}
    IN  Filled(Sum3(Less3(HighCorner(corners), LowCorner(corners)), <<1, 1, 1>>),
               {<<Less3(Apply(r, p), LowCorner(corners)), [s.at[p] EXCEPT !.rotation = Compose(@, r)]>> : p \in Solids(s)})

\* mirrorSchematic: the rotation of a block stays as it was.
MirrorSchematic(s, axis) ==
    Filled(s.size, {<<[p EXCEPT ![axis] = s.size[axis] - 1 - @], [s.at[p] EXCEPT !.displacement[axis] = -@]>> : p \in Solids(s)})

CropSchematic(s) ==
    LET ps == Solids(s)
    IN  IF ps = {} THEN Filled(<<1, 1, 1>>, {})
        ELSE Filled(Sum3(Less3(HighCorner(ps), LowCorner(ps)), <<1, 1, 1>>), {<<Less3(p, LowCorner(ps)), s.at[p]>> : p \in ps})

\* replaceBlocks: a block replaced by air keeps its other fields.
ReplaceBlocks(s, swap) ==
    [s EXCEPT !.at = [p \in Box(s.size) |->
        IF p \in Solids(s) /\ @[p].type \in DOMAIN swap THEN [@[p] EXCEPT !.type = swap[@]] ELSE @[p]]]

----------------------------------------------------------------------------
(* Files *)

\* Schematic::index, inverted: y fastest, then z, then x.
Volume3(size) == size[1] * size[2] * size[3]
CellAt(size, i) == <<i \div (size[2] * size[3]), i % size[2], (i \div size[2]) % size[3]>>
InOrder(size) == [i \in 1..Volume3(size) |-> CellAt(size, i - 1)]

TypesOf(s) ==
    FoldLeft(LAMBDA palette, p : IF SnapIsAir(s.at[p]) \/ Contains(palette, s.at[p].type) THEN palette
                                 ELSE Append(palette, s.at[p].type), <<"air">>, InOrder(s.size))

\* Mutant: one byte also for one type too many.
Use16Bit_TooLate(palette) == Len(palette) > ByteValues + 1
Use16Bit(palette) == Len(palette) > ByteValues

\* The bytes of one palette index.
IndexBytes(n, wide) == IF wide THEN <<(n \div ByteValues) % ByteValues, n % ByteValues>> ELSE <<n % ByteValues>>

Maybe(cond, x) == IF cond THEN <<x>> ELSE <<>>

\* serializeSchematic: metadata by linear index, also of air.
SerializeSchematic(s) ==
    LET palette == TypesOf(s)
        wide == Use16Bit(palette)
        cells == InOrder(s.size)
        paletteIdx(p) == IF SnapIsAir(s.at[p]) THEN 0 ELSE SelectInSeq(palette, LAMBDA t : t = s.at[p].type) - 1
        sub(snap) == [rotation |-> Maybe(snap.rotation # Identity, IndexOf(snap.rotation)),
                      displacement |-> Maybe(snap.displacement # NoOffset, snap.displacement),
                      data |-> IF snap.data = <<>> THEN <<>> ELSE <<EncodeContainer(snap.data[1])>>]
    IN  [size |-> s.size, palette |-> palette, use16bit |-> wide,
         blocks |-> FlattenSeq([i \in DOMAIN cells |-> IndexBytes(paletteIdx(cells[i]), wide)]),
         metadata |-> [i \in {i \in DOMAIN cells : HasMetadata(s.at[cells[i]])} |-> sub(s.at[cells[i]])]]

\* One metadata entry, on a block of the palette.
Restored(type, sub) ==
    [type |-> type, rotation |-> ByIndex(IF sub.rotation = <<>> THEN 0 ELSE sub.rotation[1]),
     displacement |-> IF sub.displacement = <<>> THEN NoOffset ELSE sub.displacement[1],
     data |-> IF sub.data = <<>> THEN <<>> ELSE <<ReadContainer(sub.data[1])>>]

\* deserializeSchematic: air has no metadata.
DeserializeSchematic(f) ==
    LET cells == InOrder(f.size)
        paletteIdx(i) == IF f.use16bit THEN f.blocks[2 * i - 1] * ByteValues + f.blocks[2 * i] ELSE f.blocks[i]
        type(i) == IF paletteIdx(i) < Len(f.palette) THEN f.palette[paletteIdx(i) + 1] ELSE "air"
    IN  Filled(f.size, {<<cells[i], IF i \in DOMAIN f.metadata THEN Restored(type(i), f.metadata[i])
                                    ELSE [Nothing EXCEPT !.type = type(i)]>> : i \in {i \in DOMAIN cells : type(i) # "air"}})

----------------------------------------------------------------------------
(* The session *)

NoClips == [clipboard |-> <<>>, named |-> <<>>, history |-> <<>>, max |-> 2]
Clip == [drawn |-> drawn, piece |-> piece]

SchematicInit == /\ drawn \in Designs
                 /\ piece = drawn
                 /\ clips = NoClips
                 /\ edits = 0

SchematicIdle == drawn = Filled(<<1, 1, 1>>, {}) /\ piece = drawn /\ clips = NoClips /\ edits = 0

Edit == edits < MaxEdits /\ edits' = edits + 1

\* Of the turns, the quarters of which all others are made.
Transform == /\ Edit
             /\ \/ \E r \in {RotateX90, RotateY90, RotateZ90} : piece' = RotateSchematic(piece, r)
                \/ \E axis \in 1..3 : piece' = MirrorSchematic(piece, axis)
                \/ piece' = CropSchematic(piece)
                \/ piece' = DeserializeSchematic(SerializeSchematic(piece))
             /\ UNCHANGED <<drawn, clips>>

Replace(swap) == /\ Edit
                 /\ piece' = ReplaceBlocks(piece, swap)
                 /\ drawn' = ReplaceBlocks(drawn, swap)
                 /\ UNCHANGED clips

\* pushHistory, setMaxHistorySize: the oldest are dropped.
Shortened(history, max) == SubSeq(history, 1, Min({Len(history), max}))
PushHistory == clips' = [clips EXCEPT !.history = Shortened(<<Clip>> \o @, clips.max)]
SetMaxHistorySize(max) == clips' = [clips EXCEPT !.max = max, !.history = Shortened(@, max)]

Copy == /\ Edit
        /\ \/ clips' = [clips EXCEPT !.clipboard = <<Clip>>]
           \/ clips' = [clips EXCEPT !.named = ("name" :> Clip) @@ @]
           \/ PushHistory
           \/ \E max \in {0, 1} : SetMaxHistorySize(max)
           \/ clips' = [NoClips EXCEPT !.max = clips.max]  \* clearAll
        /\ UNCHANGED <<drawn, piece>>

\* What the clipboard, a name or the history hands out.
Paste == /\ Edit
         /\ \E clip \in {clips.clipboard[i] : i \in DOMAIN clips.clipboard} \cup {clips.named[n] : n \in DOMAIN clips.named}
                        \cup {clips.history[i] : i \in DOMAIN clips.history} :
                drawn' = clip.drawn /\ piece' = clip.piece
         /\ UNCHANGED clips

SchematicNext == Transform \/ (\E swap \in Swaps : Replace(swap)) \/ Copy \/ Paste

----------------------------------------------------------------------------
(* Properties *)

\* Blocks by their place relative to the lowest corner of all.
Outline(s) == {<<Less3(p, LowCorner(Solids(s))), s.at[p].type>> : p \in Solids(s)}
Shifted(pairs) == LET low == LowCorner({x[1] : x \in pairs}) IN {<<Less3(x[1], low), x[2]>> : x \in pairs}

\* Whatever was turned, mirrored, cropped, stored, copied and pasted is the
\* design as drawn, seen from somewhere: no block lost, moved or exchanged.
ShapeIsKept ==
    IF Solids(drawn) = {} THEN Solids(piece) = {}
    ELSE \E r \in 1..24, side \in {1, -1} :
            Outline(piece) = Shifted({<<Apply(AllRotations[r], [x[1] EXCEPT ![1] = side * @]), x[2]>> : x \in Outline(drawn)})

\* A schematic read back from its file has the blocks it was saved with,
\* with their rotation, displacement and data.
FilesKeepSchematics ==
    LET back == DeserializeSchematic(SerializeSchematic(piece))
    IN  Solids(back) = Solids(piece) /\ \A p \in Solids(piece) : back.at[p] = piece.at[p]

\* A turn and its inverse, or a mirror twice, leave every block as it was,
\* and where it was.
TransformsUndo ==
    LET start == [piece EXCEPT !.at = [p \in Box(piece.size) |-> IF p \in Solids(piece) THEN @[p] ELSE Nothing]]
    IN  Solids(piece) # {} =>
        /\ \A r \in 1..24 : RotateSchematic(RotateSchematic(piece, AllRotations[r]), InverseOf(AllRotations[r])) = start
        /\ \A axis \in 1..3 : MirrorSchematic(MirrorSchematic(piece, axis), axis) = start

\* Copies are faithful: turned, mirrored, cropped, kept as clips, written to a
\* file and read back, a schematic keeps its blocks and their arrangement.
CopiesAreFaithful ==
    /\ ShapeIsKept
    /\ FilesKeepSchematics
    /\ TransformsUndo
=============================================================================
