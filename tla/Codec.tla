------------------------------- MODULE Codec -------------------------------
(***************************************************************************)
(* How values become bytes and bytes become values again: the structures   *)
(* of zigpy.types, zigpy.zcl.foundation and zigpy.zdo.types, which are     *)
(* made of BasicTypes.  A value is serialized, the bytes arrive whole,     *)
(* followed by others, or cut off, and are deserialized.                   *)
(***************************************************************************)
EXTENDS BasicTypes

LOCAL INSTANCE SequencesExt

CONSTANTS
  Lengths,      \* bound: the lengths of byte strings and texts
  ItemCounts,   \* bound: the lengths of lists
  Types         \* the types whose values are sent

ASSUME CodecBounds ==
  /\ Lengths \subseteq Nat /\ ItemCounts \subseteq Nat

VARIABLES
  type, original,  \* what is sent
  transfer,     \* "new", "refused" by serialize(), "sent", "whole" or "cut"
  wire,         \* the bytes
  following,    \* the bytes that arrive behind them
  received      \* what deserialize() has returned

codecVars == <<type, original, transfer, wire, following, received>>

-----------------------------------------------------------------------------
(* Every value of an enumeration or a bitmap has a member: enum_factory and *)
(* bitmap_factory make those that are not defined.                          *)

Enum(bytes)   == UInt(bytes)
Bitmap(bytes) == UInt(bytes)

\* Floats with 3 and 4 bits of exponent in the place of 5 to 11; a value is the
\* pattern of the Double that holds it.
Half   == Float(3, 2)
Double == Float(4, 3)

-----------------------------------------------------------------------------
(* The types that are made of others.                                      *)

Octets(prefix)      == [kind |-> "octets", prefix |-> prefix]
Text(prefix)        == [kind |-> "text", prefix |-> prefix]
List(item)          == [kind |-> "list", item |-> item]
LVList(item, bytes) == [kind |-> "counted", item |-> item, prefix |-> bytes]
FixedList(item, n)  == [kind |-> "fixed", item |-> item, length |-> n]
Struct(fields)      == [kind |-> "struct", fields |-> fields]
SizePrefixed(t)     == [kind |-> "sized", item |-> t]
By(field, table)    == [kind |-> "by", field |-> field, table |-> table]
Response(name)      == [kind |-> name]
Limited(t, max)     == [kind |-> "limited", item |-> t, max |-> max]
OneOf(first, t)     == [kind |-> "oneof", first |-> first, item |-> t]
DataBytes(n)        == FixedList(UInt(1), n)

\* A ZDO message: its sequence number, and parameters that may be missing.
ZDOMessage(schema)  == [kind |-> "zdo", schema |-> schema]
Tsn == 1

\* StructField: `needs' are pairs of an earlier field and the values of it for
\* which requires() holds.
Field(t)        == [type |-> t, needs |-> {}, optional |-> FALSE]
If(needs, t)    == [type |-> t, needs |-> needs, optional |-> FALSE]
Optional(t)     == [type |-> t, needs |-> {}, optional |-> TRUE]

\* The value of a structure is a function from its assigned fields.
Required(field, v) == \A need \in field.needs : need[1] \in DOMAIN v /\ v[need[1]] \in need[2]

\* StructField.get_type: fields with a dynamic type look at a field before them.
TypeIn(t, v) ==
  IF t.kind # "by" THEN t
  ELSE IF v[t.field] \in DOMAIN t.table THEN t.table[v[t.field]] ELSE [kind |-> "unknown"]

IsBitfield(t, offset) == t.kind = "int" /\ ~(Aligned(t) /\ offset % ByteBits = 0)

-----------------------------------------------------------------------------
(* serialize(): the bytes, or an exception.                                 *)

Joined(a, b) == IF a.ok /\ b.ok THEN Good(a.bytes \o b.bytes) ELSE Refused

Failed(v) == SelectSeq(v, LAMBDA r : r[1] # 0)

StatusRecord == Struct(<<Field(Enum(1)), If({<<1, Byte \ {0}>>}, UInt(2))>>)
\* Of a success only the status is written; direction and attribute are read if they
\* are there.
ConfigureRecord == [kind |-> "configure"]
ConfigureSchema(status) ==
  LET Given(t) == IF status = 0 THEN Optional(t) ELSE Field(t)
  IN  <<Field(Enum(1)), Given(UInt(1)), Given(UInt(2))>>

\* The file identifier, the length of the header, flags, the manufacturer, the size
\* of the image, and what a flag adds.
Magic == Power(Base, 3) - 1
OTAImageHeader ==
  Struct(<<Field(UInt(3)), Field(UInt(2)), Field(Bitmap(1)), Field(UInt(1)), Field(UInt(3)),
           If({<<3, {1, 3}>>}, UInt(1))>>)
SubElement == Struct(<<Field(UInt(1)), Field(Octets(1))>>)
OTAImage   == [kind |-> "image"]
UpgradeImage == 0   \* the tag of the element that holds the firmware

\* Hue's images have the header of an image and data of their own.
HueSBLOTAImage   == [kind |-> "hue"]
SubelementsMagic == <<2, 0, 1>>
Hue == Base - 1

\* A file of a manufacturer, which parse_ota_image unwraps.
OTAFile(by) == [kind |-> "file", by |-> by]
NGIS == <<2, 2, 2>>

\* A hash in three bytes, which are no length, nor the start of any file.
Digest(bytes) ==
  <<Base + FoldLeft(LAMBDA h, b : (7 * h + b + 1) % 1009, 0, bytes), Base - 1, Base - 1>>

\* The containers: Legrand's prefix and suffix, Third Reality's header with hash and
\* length, and IKEA's with offset and size, with a signature behind the image.
Wrapped(by, bytes) ==
  LET Length(n) == ToBytes(UInt(3), n)
      hashed == <<0>> \o Length(Len(bytes) + 5) \o <<0>> \o bytes
  IN  CASE by = "legrand"      -> Length(Len(bytes)) \o bytes \o <<0, 0>>
        [] by = "thirdreality" -> Digest(hashed) \o hashed
        [] by = "ikea" -> NGIS \o Length(10) \o Length(Len(bytes)) \o <<0>> \o bytes \o <<1>>
        [] OTHER -> bytes

\* Firmware of Silicon Labs: tags with their lengths and data, of which the first one
\* starts the file, and an end tag with a checksum.  An EBL file is filled up to whole
\* blocks; of the GBL files, Hue's are padded.
Firmware(by) == [kind |-> "firmware", by |-> by]
GBLStart == <<2>>
EBLStart == <<0, 1>>
EndTag   == 3
Padding  == Base - 1
Block    == 4

TagBytes(tag) == <<tag[1], Len(tag[2])>> \o tag[2]
Written(by, tags) ==
  LET body == FlattenSeq([i \in DOMAIN tags |-> TagBytes(tags[i])]) \o <<EndTag, 1>>
      all  == Append(body, Digest(body)[1])
      fill == CASE by = "ebl" -> -Len(all) % Block [] by = "padded" -> 2 [] OTHER -> 0
  IN  all \o [i \in 1 .. fill |-> Padding]

\* The types of the fields of a segment, which are bit fields.
TypesOf(fields, segment) == [k \in DOMAIN segment |-> fields[segment[k]].type]

RECURSIVE Serialize(_, _), SerializeFields(_, _, _, _)

\* zigpy.types.serialize stops at the last parameter it was given.
SerializeSchema(schema, v) ==
  FoldLeft(LAMBDA bytes, i : Joined(bytes, Serialize(schema[i].type, v[i])),
           Good(<<Tsn>>), [i \in DOMAIN v |-> i])

SerializeItems(item, v) ==
  FoldLeft(LAMBDA bytes, x : Joined(bytes, Serialize(item, x)), Good(<<>>), v)

\* WriteAttributesResponse and ConfigureReportingResponse list what has failed, or
\* say once that nothing has.
SerializeFailed(record, v) ==
  IF v = <<>> \/ Failed(v) = <<>> THEN Good(<<0>>) ELSE SerializeItems(record, Failed(v))

Serialize(t, v) ==
  CASE t.kind = "int"     -> Good(ToBytes(t, v))
    [] t.kind = "float"   -> Good(ToBytes(AsUInt(t), Convert(Double, t, v)))
    [] t.kind = "octets"  -> WithLength(t.prefix, v)
    [] t.kind = "text"    -> TextWithLength(t.prefix, v)
    [] t.kind = "list"    -> SerializeItems(t.item, v)
    [] t.kind = "counted" ->
         IF Len(v) >= Power(Base, t.prefix) THEN Refused
         ELSE Joined(Good(ToBytes(UInt(t.prefix), Len(v))), SerializeItems(t.item, v))
    [] t.kind = "fixed"   -> IF Len(v) # t.length THEN Refused ELSE SerializeItems(t.item, v)
    [] t.kind = "sized"   ->
         LET body == Serialize(t.item, v)
         IN  IF body.ok /\ Len(body.bytes) \in Byte
             THEN Good(<<Len(body.bytes)>> \o body.bytes) ELSE Refused
    [] t.kind = "written"    -> SerializeFailed(StatusRecord, v)
    [] t.kind = "configured" ->
         IF v = <<>> THEN Refused ELSE SerializeFailed(ConfigureRecord, v)
    [] t.kind = "configure"  ->
         SerializeFields(ConfigureSchema(v[1]), IF v[1] = 0 THEN <<0>> ELSE v, 1, <<>>)
    [] t.kind = "image"   ->
         LET all == Joined(Serialize(OTAImageHeader, v[1]), SerializeItems(SubElement, v[2]))
         IN  IF all.ok /\ Len(all.bytes) = v[1][5] THEN all ELSE Refused
    [] t.kind = "hue"     -> Joined(Serialize(OTAImageHeader, v[1]), Good(v[2]))
    [] t.kind = "file"    ->
         LET image == Serialize(IF t.by = "hue" THEN HueSBLOTAImage ELSE OTAImage, v.image)
         IN  IF image.ok THEN Good(Wrapped(t.by, image.bytes \o v.trailing)) ELSE Refused
    [] t.kind = "firmware" -> Good(Written(t.by, v))
    [] t.kind = "limited" -> IF Len(v) > t.max THEN Refused ELSE Serialize(t.item, v)
    [] t.kind = "oneof"   -> IF v[1] \in t.first THEN Serialize(t.item, v) ELSE Refused
    [] t.kind = "zdo"     -> SerializeSchema(t.schema, v)
    [] t.kind = "struct"  -> SerializeFields(t.fields, v, 1, <<>>)
    [] OTHER              -> Refused

\* Struct.serialize from field i on, with the bit fields that wait for a full byte.
SerializeFields(fields, v, i, segment) ==
  IF i > Len(fields) THEN IF segment = <<>> THEN Good(<<>>) ELSE Refused
  ELSE LET f == fields[i]
           t == TypeIn(f.type, v)
           all   == Append(segment, i)
           types == TypesOf(fields, all)
           bits  == FromBitfields(types, [k \in DOMAIN all |-> v[all[k]]])
       IN  IF ~Required(f, v) \/ (f.optional /\ i \notin DOMAIN v)
           THEN SerializeFields(fields, v, i + 1, segment)
           ELSE IF i \notin DOMAIN v THEN Refused
           ELSE IF IsBitfield(t, BitLength(TypesOf(fields, segment)))
           THEN IF BitLength(types) % ByteBits # 0 THEN SerializeFields(fields, v, i + 1, all)
                ELSE Joined(Good(BytesOfBits(bits)), SerializeFields(fields, v, i + 1, <<>>))
           ELSE IF segment # <<>> THEN Refused
           ELSE Joined(Serialize(t, v[i]), SerializeFields(fields, v, i + 1, <<>>))

-----------------------------------------------------------------------------
(* deserialize(): a value and the bytes behind it, or an exception.          *)

\* data[:n] and data[n:] of OTAImage.deserialize, where n may be negative.
Slice(bytes, n) ==
  IF n >= 0 THEN Take(bytes, n)
  ELSE LET m == IF Len(bytes) + n < 0 THEN 0 ELSE Len(bytes) + n
       IN  Read(First(bytes, m), Behind(bytes, m))

\* An image whose last bytes are trailing is made one element longer (IKEA).
Lengthened(image, trailing) ==
  [image EXCEPT ![1][5] = @ + Len(trailing), ![2][1][2] = @ \o trailing]

\* data[a:b], and int.from_bytes of three bytes there.
Cut(bytes, a, b) == SubSeq(bytes, a + 1, b)
LengthAt(bytes, a) == FromBytes(UInt(3), Cut(bytes, a, a + 3))

\* zlib.crc32 of a file that ends with the checksum of the rest is a constant.
ChecksumFits(bytes) == Digest(Front(bytes))[1] = Last(bytes)

RECURSIVE TagsOf(_, _)

\* The tags before the end tag, and what is behind it.
TagsOf(bytes, tags) ==
  LET tag == Take(bytes, 1)
      value == TakeCounted(tag.rest, 1)
  IN  IF ~tag.ok \/ ~value.ok THEN Error
      ELSE IF tag.value[1] = EndTag THEN Read(tags, value.rest)
      ELSE TagsOf(value.rest, Append(tags, <<tag.value[1], value.value>>))

FirmwareStart(by) == IF by = "ebl" THEN EBLStart ELSE GBLStart

\* validate_firmware: what starts like neither kind of firmware is UNKNOWN, has no
\* tags, and is none of the images that check_invalid() finds invalid.
ValidateFirmware(bytes) ==
  LET tags     == TagsOf(bytes, <<>>)
      unpadded == First(bytes, Len(bytes) - Len(tags.rest))
      ebl      == /\ Len(bytes) % Block = 0
                  /\ \A i \in DOMAIN tags.rest : tags.rest[i] = Padding
  IN  IF ~IsPrefix(GBLStart, bytes) /\ ~IsPrefix(EBLStart, bytes) THEN Read(<<>>, <<>>)
      ELSE IF /\ IsPrefix(EBLStart, bytes) => ebl
              /\ tags.ok /\ ChecksumFits(unpadded)
      THEN Read(tags.value, <<>>) ELSE Error

With(v, more) ==
  [i \in DOMAIN v \cup DOMAIN more |-> IF i \in DOMAIN more THEN more[i] ELSE v[i]]

RECURSIVE Deserialize(_, _), DeserializeFields(_, _, _, _, _),
          DeserializeItems(_, _, _, _), DeserializeAll(_, _, _, _),
          ReadImage(_), ReadHue(_), ParseOtaImage(_), DeserializeSchema(_, _, _, _)

Deserialize(t, bytes) ==
  CASE t.kind = "int"     -> ReadInt(t, bytes)
    [] t.kind = "float"   ->
         LET n == ReadInt(AsUInt(t), bytes)
         IN  IF n.ok THEN Read(Convert(t, Double, n.value), n.rest) ELSE Error
    [] t.kind = "octets"  -> TakeCounted(bytes, t.prefix)
    [] t.kind = "text"    -> ReadText(t.prefix, bytes)
    [] t.kind = "list"    -> DeserializeAll(t.item, bytes, 1, <<>>)
    [] t.kind = "counted" ->
         LET n == ReadInt(UInt(t.prefix), bytes)
         IN  IF n.ok THEN DeserializeItems(t.item, n.rest, n.value, <<>>) ELSE Error
    [] t.kind = "fixed"   -> DeserializeItems(t.item, bytes, t.length, <<>>)
    [] t.kind = "sized"   ->
         IF bytes = <<>> \/ bytes[1] = 0 THEN Read(<<>>, Behind(bytes, 1))
         ELSE Deserialize(t.item, Behind(bytes, 1))
    [] t.kind = "written" ->
         LET first == Deserialize(StatusRecord, bytes)
         IN  IF ~first.ok THEN Error
             ELSE IF first.value[1] = 0 THEN Read(<<first.value>>, first.rest)
             ELSE DeserializeAll(StatusRecord, first.rest, 3, <<first.value>>)
    [] t.kind = "configured" -> DeserializeAll(ConfigureRecord, bytes, 1, <<>>)
    [] t.kind = "configure"  ->
         IF bytes = <<>> THEN Error
         ELSE DeserializeSchema(ConfigureSchema(bytes[1]), bytes, 1, <<>>)
    [] t.kind = "image"   -> ReadImage(bytes)
    [] t.kind = "hue"     -> ReadHue(bytes)
    [] t.kind = "file"    -> ParseOtaImage(bytes)
    [] t.kind = "firmware" -> ValidateFirmware(bytes)
    [] t.kind = "limited" -> Deserialize(t.item, bytes)
    [] t.kind = "oneof"   ->
         LET x == Deserialize(t.item, bytes)
         IN  IF x.ok /\ x.value[1] \in t.first THEN x ELSE Error
    [] t.kind = "zdo"     ->
         IF bytes = <<>> THEN Error ELSE DeserializeSchema(t.schema, Behind(bytes, 1), 1, <<>>)
    [] t.kind = "struct"  -> DeserializeFields(t.fields, bytes, 1, <<>>, <<>>)
    [] OTHER              -> Error

ReadImage(bytes) ==
  LET header   == Deserialize(OTAImageHeader, bytes)
      elements == Slice(header.rest, header.value[5] - header.value[2])
      list == DeserializeAll(SubElement, elements.value, 1, <<>>)
  IN  IF ~header.ok \/ header.value[1] # Magic \/ ~elements.ok \/ ~list.ok THEN Error
      ELSE Read(<<header.value, list.value>>, elements.rest)

ReadHue(bytes) ==
  LET header == Deserialize(OTAImageHeader, bytes)
      size   == header.value[5]
      data   == Cut(bytes, Len(bytes) - Len(header.rest), size)
  IN  IF \/ ~header.ok \/ header.value[1] # Magic \/ Len(bytes) < size
         \/ ~IsPrefix(SubelementsMagic, data) \/ header.value[4] # Hue THEN Error
      ELSE Read(<<header.value, data>>, Behind(bytes, size))

\* parse_ota_image: the containers are told by their lengths, hashes and marks.
ParseOtaImage(bytes) ==
  LET n      == Len(bytes)
      offset == LengthAt(bytes, 3)
      end    == offset + LengthAt(bytes, 6)
      ikea   == ReadImage(Cut(bytes, offset, end))
  IN  IF n > 3 /\ LengthAt(bytes, 0) + 5 = n THEN ReadImage(Cut(bytes, 3, n - 2))
      ELSE IF n > 8 /\ LengthAt(bytes, 4) + 3 = n /\ IsPrefix(Digest(Behind(bytes, 3)), bytes)
      THEN ReadImage(Behind(bytes, 8))
      ELSE IF IsPrefix(NGIS, bytes)
      THEN IF n <= 9 \/ n <= end \/ ~ikea.ok THEN Error
           ELSE IF ikea.rest = <<>> THEN ikea
           ELSE IF Len(ikea.value[2]) # 1 \/ ikea.value[2][1][1] # UpgradeImage THEN Error
           ELSE Read(Lengthened(ikea.value, ikea.rest), <<>>)
      ELSE IF ReadHue(bytes).ok THEN ReadHue(bytes) ELSE ReadImage(bytes)

\* n items.
DeserializeItems(item, bytes, n, items) ==
  LET x == Deserialize(item, bytes)
  IN  IF n = 0 THEN Read(items, bytes)
      ELSE IF ~x.ok THEN Error
      ELSE DeserializeItems(item, x.rest, n - 1, Append(items, x.value))

\* Items as long as there are `least' bytes for one.
DeserializeAll(item, bytes, least, items) ==
  LET x == Deserialize(item, bytes)
  IN  IF Len(bytes) < least THEN Read(items, bytes)
      ELSE IF ~x.ok THEN Error
      ELSE DeserializeAll(item, x.rest, least, Append(items, x.value))

\* An optional parameter that raises is missing, and takes the rest of the frame.
DeserializeSchema(schema, bytes, i, v) ==
  LET x == Deserialize(schema[i].type, bytes)
  IN  IF i > Len(schema) THEN Read(v, bytes)
      ELSE IF x.ok THEN DeserializeSchema(schema, x.rest, i + 1, With(v, [j \in {i} |-> x.value]))
      ELSE IF schema[i].optional THEN DeserializeSchema(schema, <<>>, i + 1, v)
      ELSE Error

\* The fields of a segment that has arrived.
FieldsOf(fields, segment, bits) ==
  LET values == ToBitfields(TypesOf(fields, segment), bits)
  IN  [i \in {segment[k] : k \in DOMAIN segment} |->
         values[CHOOSE k \in DOMAIN segment : segment[k] = i]]

\* Struct.deserialize from field i on, with the bit fields of the segment that is
\* not complete.
DeserializeFields(fields, bytes, i, v, segment) ==
  IF i > Len(fields) THEN IF segment = <<>> THEN Read(v, bytes) ELSE Error
  ELSE LET f == fields[i]
           t == TypeIn(f.type, v)
           all  == Append(segment, i)
           bits == BitLength(TypesOf(fields, all))
           s == Take(bytes, bits \div ByteBits)
           x == Deserialize(t, bytes)
       IN  IF ~Required(f, v) \/ (bytes = <<>> /\ f.optional)
           THEN DeserializeFields(fields, bytes, i + 1, v, segment)
           ELSE IF IsBitfield(t, BitLength(TypesOf(fields, segment)))
           THEN IF bits % ByteBits # 0 THEN DeserializeFields(fields, bytes, i + 1, v, all)
                ELSE IF ~s.ok THEN Error
                ELSE DeserializeFields(fields, s.rest, i + 1,
                       With(v, FieldsOf(fields, all, BitsOfBytes(s.value))), <<>>)
           ELSE IF segment # <<>> \/ ~x.ok THEN Error
           ELSE DeserializeFields(fields, x.rest, i + 1, With(v, [j \in {i} |-> x.value]), <<>>)

-----------------------------------------------------------------------------
(* The structures.  Tags, statuses and modes are bytes: 0 is a type that is *)
(* a number and SUCCESS, 1 a type that is not, 2 a collection, 3 unknown.   *)

DataTypes       == [d \in {0, 1} |-> IF d = 0 THEN UInt(1) ELSE Octets(1)]
TypedCollection ==
  Struct(<<Field(UInt(1)), Field(By(1, [d \in {0, 1} |-> LVList(DataTypes[d], 2)]))>>)
TypeValue ==
  Struct(<<Field(UInt(1)),
           Field(By(1, [d \in {0, 1, 2} |-> IF d = 2 THEN TypedCollection ELSE DataTypes[d]]))>>)

Attribute == Struct(<<Field(UInt(2)), Field(TypeValue)>>)
ReadAttributeRecord ==
  Struct(<<Field(UInt(2)), Field(UInt(1)), If({<<2, {0}>>}, TypeValue)>>)

\* Status, direction and attribute; the timeout of one direction, or the type, the
\* intervals and, if it is a number, the change of the other.
ReportingConfig ==
  LET sends == {<<1, {0}>>, <<2, Byte \ {1}>>}
  IN  Struct(<<Field(UInt(1)), Field(UInt(1)), Field(UInt(2)),
               If({<<1, {0}>>, <<2, {1}>>}, UInt(2)),
               If(sends, UInt(1)), If(sends, UInt(2)), If(sends, UInt(2)),
               If(sends \cup {<<5, {0}>>}, By(5, DataTypes))>>)

\* FrameControl's flag, the manufacturer it announces, TSN and command.
ZCLHeader ==
  Struct(<<Field(Bit(1)), Field(Bit(ByteBits - 1)), If({<<1, {1}>>}, UInt(2)),
           Field(UInt(1)), Field(UInt(1))>>)

\* with_compiled_schema: parameters whose names end in "?" are optional.
CommandWithOptional == Struct(<<Field(UInt(1)), Optional(UInt(2)), Optional(Octets(1))>>)

SimpleDescriptor ==
  SizePrefixed(Struct(<<Field(UInt(1)), Field(LVList(UInt(1), 1)), Field(LVList(UInt(1), 1))>>))
\* The address of a group, or of an endpoint.
MultiAddress ==
  OneOf({1, 3}, Struct(<<Field(UInt(1)), If({<<1, {1}>>}, UInt(2)),
                         If({<<1, {3}>>}, FixedList(UInt(1), 3)), If({<<1, {3}>>}, UInt(1))>>))
Binding == Struct(<<Field(UInt(1)), Field(MultiAddress)>>)
NwkUpdate ==
  Struct(<<Field(UInt(2)), Field(UInt(1)), If({<<2, {0}>>}, UInt(1)),
           If({<<2, {2, 3}>>}, UInt(1)), If({<<2, {3}>>}, UInt(2))>>)
NodeDescriptor ==
  Struct(<<Field(Bit(1)), Field(Bit(ByteBits - 1)), Field(Bit(ByteBits - 1)), Field(Bit(1)),
           Field(Bitmap(1)), Field(UInt(2)), Field(Bitmap(1))>>)
PowerDescriptor == Struct([i \in 1 .. 4 |-> Field(Bit(1))])
Route == Struct(<<Field(UInt(2)), Field(Bit(1)), Field(Bit(2 * ByteBits - 1)), Field(UInt(2))>>)
\* Two segments of bit fields, the second across the border of its bytes.
Neighbor ==
  Struct(<<Field(UInt(1)), Field(Bit(1)), Field(Bit(ByteBits - 1)),
           Field(Bit(ByteBits + 1)), Field(Bit(ByteBits - 1)), Field(UInt(1))>>)

\* Responses and a request of ZDO by the shape of their parameters: required ones,
\* optional numbers before an optional list, descriptors and tables.
CLUSTERS ==
  LET Status  == Field(UInt(1))
      Address == Field(UInt(1))
      Count   == Field(UInt(1))
      Table(entry) == Struct(<<Count, Count, Field(LVList(entry, 1))>>)
  IN  [Discovery_Cache_rsp |-> <<Status>>,
       Device_annce        |-> <<Address, Address, Field(Bitmap(1))>>,
       Bind_req            |-> <<Address, Count, Field(MultiAddress)>>,
       Active_EP_rsp       |-> <<Status, Address, Field(LVList(UInt(1), 1))>>,
       Extended_Active_EP_rsp |-> <<Status, Count, Field(List(UInt(1)))>>,
       NWK_addr_rsp        |-> <<Status, Optional(UInt(1)), Optional(UInt(1)),
                                 Optional(List(UInt(2)))>>,
       Node_Desc_rsp       |-> <<Status, Optional(PowerDescriptor)>>,
       Simple_Desc_rsp     |-> <<Status, Optional(SimpleDescriptor)>>,
       User_Desc_rsp       |-> <<Status, Count, Optional(DataBytes(3))>>,
       Mgmt_Rtg_rsp        |-> <<Status, Optional(Table(UInt(1)))>>,
       Mgmt_Bind_rsp       |-> <<Status, Count, Field(LVList(UInt(2), 1))>>,
       Mgmt_NWK_Update_rsp |-> <<Status, Field(UInt(2)), Field(LVList(UInt(1), 1))>>]
ZDOMessages == {ZDOMessage(CLUSTERS[command]) : command \in DOMAIN CLUSTERS}

AllTypes ==
  ZDOMessages \cup
  {UInt(1), UInt(2), FixedInt(ByteBits, TRUE, FALSE), FixedInt(2 * ByteBits, TRUE, FALSE),
   FixedInt(2 * ByteBits, FALSE, TRUE), FixedInt(2 * ByteBits, TRUE, TRUE),
   Half, Double,
   Octets(1), Octets(2), Text(1), Text(2), Limited(Octets(1), 1), Limited(Text(1), 1),
   List(UInt(2)), LVList(Octets(1), 1), FixedList(UInt(1), 2),
   TypeValue, Attribute, ReadAttributeRecord, ReportingConfig, ZCLHeader,
   CommandWithOptional, SimpleDescriptor, Binding, Neighbor, NwkUpdate, NodeDescriptor,
   PowerDescriptor, Route, OTAImage, HueSBLOTAImage,
   OTAFile("plain"), OTAFile("hue"), OTAFile("legrand"), OTAFile("thirdreality"),
   OTAFile("ikea"), Firmware("gbl"), Firmware("padded"), Firmware("ebl"),
   Response("written"), Response("configured")}

-----------------------------------------------------------------------------
(* The values that are sent.                                               *)

SeqsOver(S, lengths) == UNION {[1 .. n -> S] : n \in lengths}

\* The ends of the range, and what needs another byte.
IntValues(t) ==
  {MinValue(t), MaxValue(t)} \cup ({-1, 0, 1, Base} \cap MinValue(t) .. MaxValue(t))

\* Images whose header has the sizes they have, and some whose size is wrong.
HeaderValue(credential, maker, size, length) ==
  [i \in IF credential = {} THEN 1 .. 5 ELSE 1 .. 6 |->
     CASE i = 1 -> Magic [] i = 2 -> length [] i = 3 -> IF credential = {} THEN 0 ELSE 1
       [] i = 4 -> maker [] i = 5 -> size [] i = 6 -> CHOOSE c \in credential : TRUE]

ImageValue(credential, maker, elements, wrong) ==
  LET length == Len(Serialize(OTAImageHeader, HeaderValue(credential, maker, 0, 0)).bytes)
      body   == Len(SerializeItems(SubElement, elements).bytes)
  IN  <<HeaderValue(credential, maker, length + body + wrong, length), elements>>

ElementValues ==
  SeqsOver({[i \in {1, 2} |-> IF i = 1 THEN tag ELSE data] :
              tag \in {0, 1}, data \in {<<>>, <<2>>, <<0, 3>>}}, ItemCounts)

ImageValues ==
  {ImageValue(credential, 1, elements, wrong) :
     credential \in {{}, {0}, {Base - 1}}, elements \in ElementValues, wrong \in {0, 1}}

HueValues ==
  {<<HeaderValue({}, Hue, 10 + Len(data), 10), data>> :
     data \in {SubelementsMagic, SubelementsMagic \o <<3, 0>>}}

\* Images that end where they say in any file, and a longer one in IKEA's.
FileValues(by) ==
  LET File(image, trailing) == [image |-> image, trailing |-> trailing]
      images == {ImageValue({}, maker, elements, 0) : maker \in {1, Hue}, elements \in ElementValues}
  IN  IF by = "hue" THEN {File(image, <<>>) : image \in HueValues}
      ELSE {File(image, <<>>) : image \in images} \cup
           (IF by # "ikea" THEN {}
            ELSE {File(image, <<3, 1>>) : image \in {v \in images : Len(v[2]) = 1}})

FirmwareValues(by) ==
  LET first == IF by = "ebl" THEN {<<0, <<n>>>> : n \in Byte} ELSE {<<2, <<>>>>, <<2, <<0, 3>>>>}
      others == SeqsOver({<<tag, data>> : tag \in {1, 2}, data \in {<<>>, <<3, 3, 3>>}}, {0, 1, 2})
  IN  {<<tag>> \o more : tag \in first, more \in others}

RECURSIVE Values(_), StructValues(_, _, _)

Values(t) ==
  CASE t.kind = "int"    -> IntValues(t)
    [] t.kind = "float"  -> {Convert(t, Double, n) : n \in 0 .. Power(2, t.bits) - 1}
    [] t.kind = "octets" -> SeqsOver({0, Base - 1}, Lengths)
    [] t.kind = "text"   -> SeqsOver({0, 1, Base \div 2}, Lengths)
    [] t.kind \in {"list", "counted"} -> SeqsOver(Values(t.item), ItemCounts)
    [] t.kind = "fixed"  -> SeqsOver(Values(t.item), {t.length})
    [] t.kind = "sized"  -> Values(t.item)
    [] t.kind = "written"    -> SeqsOver(Values(StatusRecord), {1, 2})
    [] t.kind = "configured" -> SeqsOver(Values(ConfigureRecord), {1, 2})
    [] t.kind = "image"  -> ImageValues
    [] t.kind = "hue"    -> HueValues
    [] t.kind = "file"   -> FileValues(t.by)
    [] t.kind = "firmware" -> FirmwareValues(t.by)
    [] t.kind = "configure"  ->
         {v \in StructValues(ConfigureSchema(0), 1, <<>>) : v[1] # 0 => DOMAIN v = 1 .. 3}
    [] t.kind \in {"limited", "oneof"} -> Values(t.item)
    [] t.kind = "zdo"    -> StructValues(t.schema, 1, <<>>)
    [] t.kind = "struct" -> StructValues(t.fields, 1, <<>>)
    [] OTHER             -> {}

\* An optional field is only given when those before it are.
StructValues(fields, i, v) ==
  IF i > Len(fields) THEN {v}
  ELSE LET f == fields[i]
           given == UNION {StructValues(fields, i + 1, With(v, [j \in {i} |-> x])) :
                             x \in Values(TypeIn(f.type, v))}
       IN  IF ~Required(f, v) THEN StructValues(fields, i + 1, v)
           ELSE IF f.optional THEN {v} \cup given ELSE given

\* Types that read on as long as there are bytes; they are the last of a message.
ReadsOn(t) ==
  \/ t.kind \in {"list", "written", "configured"}
  \/ t.kind = "struct" /\ \E i \in DOMAIN t.fields : t.fields[i].optional
  \/ t.kind = "zdo" /\ \E i \in DOMAIN t.schema :
       t.schema[i].optional \/ t.schema[i].type.kind = "list"

-----------------------------------------------------------------------------
CodecInit ==
  /\ type \in Types
  /\ original \in Values(type)
  /\ transfer = "new"
  /\ wire = <<>>
  /\ following = <<>>
  /\ received = Error

Send ==
  /\ transfer = "new"
  /\ LET s == Serialize(type, original)
     IN  /\ transfer' = IF s.ok THEN "sent" ELSE "refused"
         /\ wire' = s.bytes
  /\ UNCHANGED <<type, original, following, received>>

Receive(more) ==
  /\ transfer = "sent"
  \* A file is parsed as a whole.
  /\ ReadsOn(type) \/ type.kind \in {"file", "firmware"} => more = <<>>
  /\ transfer' = "whole"
  /\ following' = more
  /\ received' = Deserialize(type, wire \o more)
  /\ UNCHANGED <<type, original, wire>>

ReceiveCut(n) ==
  /\ transfer = "sent"
  /\ transfer' = "cut"
  /\ wire' = First(wire, n)
  /\ received' = Deserialize(type, wire')
  /\ UNCHANGED <<type, original, following>>

CodecNext ==
  \/ Send
  \/ \E more \in {<<>>, <<0>>, <<1, 1>>} : Receive(more)
  \/ \E n \in 0 .. Len(wire) - 1 : ReceiveCut(n)

CodecSpec == CodecInit /\ [][CodecNext]_codecVars

-----------------------------------------------------------------------------
(* Properties.                                                             *)

\* A list and a descriptor with a size are empty where there are no bytes.
EmptyWithoutBytes(t) == t.kind \in {"list", "sized"}
Missing(t, v) ==
  {i \in DOMAIN t.schema \ DOMAIN v : EmptyWithoutBytes(t.schema[i].type)}

Inner(t) == IF t.kind = "limited" THEN t.item ELSE t

\* The successes are left out of a response unless there is nothing else, what IKEA
\* writes behind an image is taken into it, and a text ends before its first null.
Meant(t, v) ==
  IF t.kind = "file" THEN
    IF v.trailing = <<>> THEN v.image ELSE Lengthened(v.image, v.trailing)
  ELSE IF Inner(t).kind = "text" THEN UpToNull(v)
  ELSE IF t.kind = "zdo" THEN With(v, [i \in Missing(t, v) |-> <<>>])
  ELSE IF t.kind \notin {"written", "configured"} THEN v
  ELSE IF Failed(v) = <<>> THEN <<[i \in {1} |-> 0]>> ELSE Failed(v)

\* What does not come back: a text whose bytes are more than its characters, a long text
\* of just the length that marks an invalid short one, and a float of the least exponent
\* that is not zero, which comes back with the next one.
Mistaken(t, v) ==
  \/ Inner(t).kind = "text" /\ (~OneByteEach(v) \/ Len(v) = InvalidLength)
  \/ t.kind = "float" /\ Exponent(Double, v) =
                          1 - Power(2, t.exp - 1) + Power(2, Double.exp - 1)

\* IKEA's trailing bytes belong to the firmware, and to no other element.
NeverObserved(t, v) ==
  t.kind = "file" /\ v.trailing # <<>> /\ v.image[2][1][1] # UpgradeImage

\* What was sent is what is received, and nothing of what follows it is touched:
\* a parameter that takes a byte too many, or too few, shifts all the others.
ArrivesWhole ==
  transfer = "whole" /\ ~Mistaken(type, original) =>
    IF NeverObserved(type, original) THEN ~received.ok
    ELSE received.ok /\ received.value = Meant(type, original) /\ received.rest = following

\* What is left of a message or a command that was cut: each parameter is as it was
\* sent, or a shorter list, and only optional ones and lists are missing.
OnlyLess(fields, v, sent) ==
  /\ \A i \in DOMAIN v :
       \/ i \in DOMAIN sent /\ v[i] = sent[i]
       \/ /\ EmptyWithoutBytes(fields[i].type)
          /\ IF i \in DOMAIN sent THEN v[i] = <<>> \/ IsPrefix(v[i], sent[i]) ELSE v[i] = <<>>
  /\ \A i \in DOMAIN sent \ DOMAIN v : fields[i].optional

PartOf(t, v, sent) ==
  CASE t.kind = "zdo"    -> OnlyLess(t.schema, v, sent)
    [] t.kind = "struct" -> OnlyLess(t.fields, v, sent)
    [] OTHER             -> IsPrefix(v, Meant(t, sent))

\* Firmware that was cut is noticed unless it lost nothing but its padding, or so much
\* that it does not look like firmware any more.
FirmwareUnnoticed ==
  /\ type.kind = "firmware"
  /\ received.value = original \/ Len(wire) < Len(FirmwareStart(type.by))

\* A frame that was cut off is an error, never another value: of types that read on it
\* is a part of what was sent, and a descriptor may be missing altogether.
CutIsNoticed ==
  transfer = "cut" =>
    \/ ~received.ok
    \/ ReadsOn(type) /\ PartOf(type, received.value, original)
    \/ type.kind = "sized" /\ wire = <<>>
    \/ FirmwareUnnoticed
    \/ Mistaken(type, original)

\* What serialize() writes, deserialize() reads, or it raises.
RoundTrip == ArrivesWhole /\ CutIsNoticed

\* The length check of test_long_char_string, "assert len(des) == orig_len", for a
\* text of any length that serialize() accepts, of ASCII characters without null as in
\* the test.
LongTextsArrive ==
  /\ transfer = "whole" /\ type.kind = "text"
  /\ OneByteEach(original) /\ UpToNull(original) = original
  => Len(received.value) = Len(original)
=============================================================================
