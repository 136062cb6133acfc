-------------------------------- MODULE Cbor --------------------------------
(***************************************************************************)
(* Data containers as bytes: the encoder and decoder of data_container.cpp *)
(* and the skipValue of cbor.hpp, with which the column format measures a  *)
(* container before it decodes it.  Bytes are 0..255, text is a sequence   *)
(* of bytes, a key is one byte of text, a double is its eight bytes.       *)
(* Arguments above 65535 are left out; a decoded one is Huge.              *)
(***************************************************************************)
EXTENDS Integers, Sequences, FiniteSets, SequencesExt, FiniteSetsExt, TLC

Unsigned == 0
Negative == 1
Bytes == 2
Text == 3
Array == 4
Map == 5
Tag == 6
Simple == 7
FalseValue == 20
TrueValue == 21
NullValue == 22
Float64 == 27
TagInternedString == 39
Huge == 2^20

Null == [kind |-> "null"]
Integer(n) == [kind |-> "int", n |-> n]
Double(bits) == [kind |-> "double", bits |-> bits]
String(text) == [kind |-> "string", text |-> text]
Interned(text) == [kind |-> "interned", text |-> text]
Blob(text) == [kind |-> "bytes", text |-> text]
List(items) == [kind |-> "array", items |-> items]
Container(map) == [kind |-> "map", map |-> map]

----------------------------------------------------------------------------
(* Encoding *)

\* encodeHeader: major type and argument, one to three bytes.
Header(major, n) ==
    IF n < 24 THEN <<major * 32 + n>>
    ELSE IF n < 256 THEN <<major * 32 + 24, n>>
    ELSE <<major * 32 + 25, n \div 256, n % 256>>

EncodeText(major, text) == Header(major, Len(text)) \o text

RECURSIVE EncodeValue(_)

\* encodeContainer: a map header, then keys and values.
EncodeContainer(map) ==
    Header(Map, Cardinality(DOMAIN map)) \o
    FlattenSeq([i \in 1..Cardinality(DOMAIN map) |->
        LET k == SetToSeq(DOMAIN map)[i] IN EncodeText(Text, <<k>>) \o EncodeValue(map[k])])

\* encodeValue.
EncodeValue(v) ==
    CASE v.kind = "null" -> <<Simple * 32 + NullValue>>
      [] v.kind = "int" -> IF v.n >= 0 THEN Header(Unsigned, v.n) ELSE Header(Negative, -1 - v.n)
      [] v.kind = "double" -> <<Simple * 32 + Float64>> \o v.bits
      [] v.kind = "string" -> EncodeText(Text, v.text)
      [] v.kind = "interned" -> Header(Tag, TagInternedString) \o EncodeText(Text, v.text)
      [] v.kind = "bytes" -> EncodeText(Bytes, v.text)
      [] v.kind = "array" -> Header(Array, Len(v.items)) \o
                             FlattenSeq([i \in DOMAIN v.items |-> EncodeValue(v.items[i])])
      [] v.kind = "map" -> EncodeContainer(v.map)

----------------------------------------------------------------------------
(* Decoding: at is the number of bytes read so far *)

\* read: past the end there are only zeros.
Byte(data, at) == IF at < Len(data) THEN data[at + 1] ELSE 0
After(data, at, n) == Max({at, Min({at + n, Len(data)})})

\* readHeader: low is the lowest byte of the argument.
ReadHeader(data, at) ==
    LET extra == Byte(data, at) % 32
        n == CASE extra = 24 -> 1 [] extra = 25 -> 2 [] extra = 26 -> 4 [] extra = 27 -> 8 [] OTHER -> 0
        arg == [i \in 1..n |-> Byte(data, at + i)]
    IN  [major |-> Byte(data, at) \div 32,
         arg |-> IF n = 0 THEN (IF extra < 24 THEN extra ELSE 0)
                 ELSE IF \E i \in 1..n - 2 : arg[i] # 0 THEN Huge
                 ELSE IF n = 1 THEN arg[1] ELSE 256 * arg[n - 1] + arg[n],
         low |-> IF n = 0 THEN extra ELSE arg[n],
         at |-> After(data, at, n + 1)]

\* readString, readBytes.
Taken(data, at, n) == SubSeq(data, at + 1, After(data, at, n))

RECURSIVE SkipValue(_, _), SkipValues(_, _, _)
SkipValues(data, at, n) == IF n = 0 THEN at ELSE SkipValues(data, SkipValue(data, at), n - 1)

\* skipValue: readHeader() has already read the eight bytes of a double, and
\* what is compared with FLOAT64 is the low bits of the double; a tag is
\* skipped without what it tags.
SkipValue(data, at) ==
    LET h == ReadHeader(data, at)
    IN  CASE h.major \in {Bytes, Text} -> h.at + h.arg
          [] h.major = Array -> SkipValues(data, h.at, h.arg)
          [] h.major = Map -> SkipValues(data, h.at, 2 * h.arg)
          [] h.major = Simple /\ h.low % 32 = Float64 -> h.at + 8
          [] OTHER -> h.at

RECURSIVE DecodeValue(_, _), DecodePairs(_, _, _, _), DecodeItems(_, _, _)

\* decodeContainer: a key that is no text is skipped with its length only.
DecodePairs(data, at, n, map) ==
    IF n = 0 THEN [v |-> Container(map), at |-> at]
    ELSE LET k == ReadHeader(data, at)
             value == DecodeValue(data, After(data, k.at, k.arg))
         IN  IF k.major # Text
             THEN DecodePairs(data, After(data, k.at, k.arg), n - 1, map)
             ELSE DecodePairs(data, value.at, n - 1, (Byte(data, k.at) :> value.v) @@ map)

DecodeItems(data, at, n) ==
    IF n = 0 THEN [items |-> <<>>, at |-> at]
    ELSE LET first == DecodeValue(data, at)
             rest == DecodeItems(data, first.at, n - 1)
         IN  [items |-> <<first.v>> \o rest.items, at |-> rest.at]

\* An array takes the type of its first item and drops items of another.
DecodeArray(data, h) ==
    LET all == DecodeItems(data, h.at, h.arg)
    IN  [v |-> IF h.arg = 0 THEN List(<<>>)
               ELSE IF all.items[1].kind \in {"int", "double", "string"}
               THEN List(SelectSeq(all.items, LAMBDA v : v.kind = all.items[1].kind))
               ELSE Null,
         at |-> all.at]

\* Only the interned string is a known tag.
DecodeTag(data, h) ==
    LET t == ReadHeader(data, h.at)
    IN  IF h.arg = TagInternedString /\ t.major = Text
        THEN [v |-> Interned(Taken(data, t.at, t.arg)), at |-> After(data, t.at, t.arg)]
        ELSE [v |-> Null, at |-> DecodeValue(data, IF h.arg = TagInternedString THEN t.at ELSE h.at).at]

\* decodeValue.
DecodeValue(data, at) ==
    LET h == ReadHeader(data, at)
        extra == Byte(data, at) % 32
    IN  CASE h.major = Unsigned -> [v |-> Integer(h.arg), at |-> h.at]
          [] h.major = Negative -> [v |-> Integer(-1 - h.arg), at |-> h.at]
          [] h.major = Bytes -> [v |-> Blob(Taken(data, h.at, h.arg)), at |-> After(data, h.at, h.arg)]
          [] h.major = Text -> [v |-> String(Taken(data, h.at, h.arg)), at |-> After(data, h.at, h.arg)]
          [] h.major = Array -> DecodeArray(data, h)
          [] h.major = Map -> DecodePairs(data, h.at, h.arg, <<>>)
          [] h.major = Tag -> DecodeTag(data, h)
          [] h.major = Simple /\ extra = Float64 ->
                [v |-> Double([i \in 1..8 |-> Byte(data, at + i)]), at |-> After(data, at, 9)]
          [] h.major = Simple /\ extra \in {FalseValue, TrueValue} ->
                [v |-> Integer(extra - FalseValue), at |-> After(data, at, 1)]
          [] OTHER -> [v |-> Null, at |-> After(data, at, 1)]

\* How the column format reads an embedded container: skipValue() measures
\* it, fromCBOR() decodes the bytes measured.
ReadContainer(bytes) ==
    LET h == ReadHeader(bytes, 0)
        span == SubSeq(bytes, 1, Min({SkipValue(bytes, 0), Len(bytes)}))
    IN  IF h.major # Map THEN <<>> ELSE DecodePairs(span, h.at, h.arg, <<>>).v.map
=============================================================================
