---------------------------- MODULE MCDatabase ----------------------------
(***************************************************************************)
(* Files for IPDB: documents as a database has them, with and without      *)
(* pointers; trees with every record; data and metadata that are odd.      *)
(***************************************************************************)
EXTENDS IPDB

\* One is the beginning of another, one has a size in a byte of its own.
ShortKeys ==
  ("city" :> <<1>>) @@ ("country" :> <<1, 2>>) @@ ("names" :> <<2>>)
    @@ ("zh-CN" :> <<3>>) @@ ("en" :> <<3, 4>>) @@ ("location" :> <<4>>)
    @@ ("latitude" :> <<5>>) @@ ("longitude" :> <<5, 6>>) @@ ("accuracy_radius" :> <<6>>)
    @@ ("isp" :> <<7>>) @@ ("organization" :> <<8>>)
    @@ ("autonomous_system_number" :> <<9>>)
    @@ ("autonomous_system_organization" :> [i \in 1 .. 30 |-> 9])
    @@ ("node_count" :> <<1>>) @@ ("record_size" :> <<2>>) @@ ("ip_version" :> <<3>>)
    @@ ("database_type" :> <<4>>) @@ ("languages" :> <<5>>)
    @@ ("binary_format_major_version" :> <<6>>) @@ ("binary_format_minor_version" :> <<7>>)
    @@ ("build_epoch" :> <<8>>) @@ ("description" :> <<9>>)

SmallMarker == <<171, 205>>

-----------------------------------------------------------------------------
(* Documents and their bytes.                                              *)

Short(n)   == [type |-> UInt16, bytes |-> <<n>>]
Long(n)    == [type |-> UInt32, bytes |-> <<n>>]
Degrees(n) == [type |-> Double, bytes |-> <<n, 0, 0, 0, 0, 0, 0, n>>]
MapOf(s)   == [map |-> [i \in DOMAIN s |-> <<Key[s[i][1]], s[i][2]>>]]
ArrayOf(s) == [array |-> s]

Sized(type, n) ==
  LET size == IF n < 29 THEN n ELSE 29
  IN  (IF type > 7 THEN <<size, type - 7>> ELSE <<type * 32 + size>>)
        \o (IF n < 29 THEN <<>> ELSE <<n - 29>>)

\* With a pointer for everything that `table' has an offset of.
RECURSIVE Encode(_, _)
Encode(doc, table) ==
  IF doc \in DOMAIN table THEN <<32 + table[doc] \div 256, table[doc] % 256>>
  ELSE IF "map" \in DOMAIN doc
    THEN Sized(Map, Len(doc.map))
           \o FlattenSeq([i \in DOMAIN doc.map |->
                Encode(Text(doc.map[i][1]), table) \o Encode(doc.map[i][2], table)])
  ELSE IF "array" \in DOMAIN doc
    THEN Sized(Array, Len(doc.array))
           \o FlattenSeq([i \in DOMAIN doc.array |-> Encode(doc.array[i], table)])
  ELSE Sized(doc.type, Len(doc.bytes)) \o doc.bytes

None == [d \in {} |-> 0]

Length(docs, table) == Len(FlattenSeq([i \in DOMAIN docs |-> Encode(docs[i], table)]))

\* Member by member, a key with its value.
Groups(doc, table) ==
  IF doc \in DOMAIN table THEN <<>>
  ELSE IF "map" \in DOMAIN doc THEN [i \in DOMAIN doc.map |-> <<Text(doc.map[i][1]), doc.map[i][2]>>]
  ELSE IF "array" \in DOMAIN doc THEN [i \in DOMAIN doc.array |-> <<doc.array[i]>>]
  ELSE <<>>

\* The layout of documents one after the other, from `at', with all members.
RECURSIVE Lay(_, _, _)
Lay(docs, at, table) ==
  UNION {LET groups == Groups(docs[i], table)
             next == at + Length(SubSeq(docs, 1, i), table)
             parts == [j \in 1 .. Len(groups) + 1 |->
                         next - Length(FlattenSeq(SubSeq(groups, j, Len(groups))), table)]
         IN  {[at |-> at + Length(SubSeq(docs, 1, i - 1), table), doc |-> docs[i],
               next |-> next, parts |-> parts]}
               \union UNION {Lay(groups[j], parts[j], table) : j \in DOMAIN groups}
         : i \in DOMAIN docs}

Names(s) == MapOf(<< <<"names", MapOf(s)>> >>)

Both     == Names(<< <<"en", Text(<<11>>)>>, <<"zh-CN", Text(<<12, 13>>)>> >>)
OnlyEn   == Names(<< <<"en", Text(<<14>>)>> >>)
NoNames  == Names(<<>>)
Location == MapOf(<< <<"accuracy_radius", Short(20)>>, <<"latitude", Degrees(21)>>,
                     <<"longitude", Degrees(22)>> >>)
HalfLocation == MapOf(<< <<"latitude", Degrees(21)>> >>)
Regions  == ArrayOf(<<Both, Text(<<>>), ArrayOf(<<OnlyEn>>)>>)

Cities ==
  { MapOf(<< <<"organization", Regions>>, <<"city", Both>>, <<"country", OnlyEn>>,
             <<"location", Location>> >>),
    MapOf(<< <<"country", Both>>, <<"city", OnlyEn>>, <<"location", HalfLocation>> >>),
    MapOf(<< <<"city", NoNames>>, <<"location", Location>> >>),
    Regions }

Providers ==
  { MapOf(<< <<"autonomous_system_organization", Text(<<31>>)>>,
             <<"autonomous_system_number", Long(32)>>,
             <<"isp", Text(<<33>>)>>, <<"organization", Text(<<34, 35>>)>> >>),
    MapOf(<< <<"organization", Text(<<>>)>>, <<"isp", Text(SmallMarker)>> >>) }

\* What a file keeps once, at its beginning.
Shared == <<Text(Key["names"]), Both, Location, Text(Key["organization"])>>

SharedBytes(n) == FlattenSeq([i \in 1 .. n |-> Encode(Shared[i], None)])

SharedTable ==
  [d \in Range(Shared) |-> Len(SharedBytes((CHOOSE i \in DOMAIN Shared : Shared[i] = d) - 1))]

-----------------------------------------------------------------------------
(* Metadata: a value for each key, and as bytes.                           *)

About(count, size, version) ==
  << <<"node_count", Long(count)>>, <<"record_size", Short(size)>>,
     <<"ip_version", Short(version)>>, <<"database_type", Text(<<9>>)>>,
     <<"languages", ArrayOf(<<Text(<<8>>)>>)>>,
     <<"binary_format_major_version", Short(2)>>, <<"binary_format_minor_version", Short(0)>>,
     <<"build_epoch", [type |-> UInt64, bytes |-> <<1>>]>>,
     <<"description", [map |-> << <<<<7>>, Text(<<8>>)>> >>]>> >>

Usual(count, size, version) ==
  LET about == About(count, size, version)
  IN  [i \in DOMAIN about |-> <<about[i][1], Encode(about[i][2], None)>>]

UsualLayout(count, size, version) == Lay(<<MapOf(About(count, size, version))>>, 0, None)

EncodeMetadata(m) ==
  SmallMarker \o Sized(Map, Len(m))
    \o FlattenSeq([i \in DOMAIN m |-> Encode(Text(Key[m[i][1]]), None) \o m[i][2]])

Records(size, left, right) ==
  CASE size = 24 -> <<0, left \div 256, left % 256, 0, right \div 256, right % 256>>
    [] size = 28 -> <<0, left \div 256, left % 256, 0, 0, right \div 256, right % 256>>
    [] size = 32 -> <<0, 0, left \div 256, left % 256, 0, 0, right \div 256, right % 256>>

\* `docs' is the layout of its documents, `meta' of its metadata.
File(db, bytes, docs, meta) ==
  [database |-> db, content |-> bytes, documents |-> docs, metadata |-> meta]

\* A file that may be anything.
OddFile(db, bytes) == File(db, bytes, {}, {})

\* The file of one document, behind the first n that it shares: addresses
\* that begin with 0 have it.
OneDocument(db, doc, n, table, size, version) ==
  LET start == SharedBytes(n)
  IN  File(db,
           Records(size, 2 + Len(start), 1) \o <<0>> \o start \o Encode(doc, table)
             \o EncodeMetadata(Usual(1, size, version)),
           Lay(SubSeq(Shared, 1, n), 0, None) \union Lay(<<doc>>, Len(start), table),
           UsualLayout(1, size, version))

DocumentFiles ==
  UNION {
    {OneDocument("city", doc, 0, None, 24, 6), OneDocument("isp", doc, 0, None, 28, 4),
     OneDocument("city", doc, 4, SharedTable, 28, 4)} : doc \in Cities}
  \union UNION {
    {OneDocument("isp", doc, 0, None, 24, 6),
     OneDocument("isp", doc, 4, SharedTable, 32, 6)} : doc \in Providers}

\* Two nodes with records of all kinds, and two documents.
Isp(n) == MapOf(<< <<"isp", Text(<<n>>)>> >>)

TreeFile(size, version, r) ==
  File("isp",
       Records(size, r[1], r[2]) \o Records(size, r[3], r[4]) \o <<0>>
         \o Encode(Isp(41), None) \o Encode(Isp(42), None)
         \o EncodeMetadata(Usual(2, size, version)),
       Lay(<<Isp(41), Isp(42)>>, 0, None), UsualLayout(2, size, version))

TreeFiles ==
  {TreeFile(24, 6, r) : r \in [1 .. 4 -> {0, 1, 2, 3, 8}]}
    \union {TreeFile(size, version, <<1, 8, 3, last>>) :
              size \in {24, 28, 32}, version \in {4, 6}, last \in {2, 1, 900}}

\* The high bits of two records share a byte.
SharedBits ==
  {File("isp", <<0, 0, 2 + n, high, 0, 0, 2>> \o <<0>> \o Encode(Isp(41), None)
                 \o EncodeMetadata(Usual(1, 28, 4)),
        Lay(<<Isp(41)>>, 0, None), UsualLayout(1, 28, 4)) : n \in {0, 5}, high \in {0, 16, 1}}

\* Bytes at the end of the file and a record that points there.
OddData(bytes) ==
  LET metadata == EncodeMetadata(Usual(1, 24, 4))
  IN  OddFile("isp", Records(24, 2 + Len(metadata), 1) \o <<0>> \o metadata \o bytes)

DataFiles ==
  {OddData(bytes) :
     bytes \in [1 .. 3 -> {0, 4, 7, 29, 32, 65, 94, 193, 225, 227}]}
  \union {OddData(<<225, 65, 7>> \o bytes) : bytes \in [1 .. 2 -> {0, 40, 65, 93, 95}]}
  \union {OddData(bytes) : bytes \in {<<95, 0, 0, 0>>, <<48, 0, 0, 0>>,
                                      <<56, 0, 0, 0, 2>>, <<56, 0, 0, 0, 100>>}}

\* A key with another value, or without the key.
WithValue(k, bytes) ==
  LET usual == Usual(1, 24, 6)
      i == CHOOSE j \in DOMAIN usual : usual[j][1] = k
  IN  IF bytes = <<>> THEN SubSeq(usual, 1, i - 1) \o SubSeq(usual, i + 1, Len(usual))
      ELSE [usual EXCEPT ![i] = <<k, bytes>>]

MetadataFile(m, more) ==
  OddFile("city", Records(24, 0, 1) \o <<0>> \o EncodeMetadata(m) \o more)

MetadataFiles ==
  {MetadataFile(WithValue(k, bytes), <<>>) :
     k \in {Usual(1, 24, 6)[i][1] : i \in 1 .. 9},
     bytes \in {<<>>, <<160>>, <<161, 9>>, <<65, 0>>, <<32, 0>>, <<1, 4, 161, 1>>,
                <<2, 4, 65, 1, 32, 0>>, <<225, 65, 1, 161, 1>>, <<224>>, <<0, 4>>}}
  \union {MetadataFile(Usual(count, 24, 6), more) :
            count \in {1, 9, 200}, more \in {<<>>, <<0, 0, 0, 0>>, SmallMarker \o <<224, 0, 0>>}}
  \union {OddFile("isp", bytes) :
            bytes \in {<<1, 2, 3>>, SmallMarker \o <<225, 65, 1>>,
                        \* A record points beyond the file, to a node of the tree.
                        Records(24, 100, 100) \o <<0>> \o EncodeMetadata(Usual(200, 24, 4))}}

Files == DocumentFiles \union TreeFiles \union SharedBits \union DataFiles \union MetadataFiles

MetadataContents == {file.content : file \in MetadataFiles}

\* The members before the metadata are read matter for few files.
MCInit ==
  /\ \E file \in Files :
       /\ content = file.content /\ documents = file.documents
       /\ database = file.database
       /\ Assert(documents = {} \/ WellMade(file.metadata), "a file is not well made")
  /\ IPDBInit
  /\ isLocationValid => database = "city"
  /\ content \in MetadataContents \/ (recordLength = 0 /\ ipVersion = 0)

MCSpec == MCInit /\ [][IPDBNext]_ipdbAll /\ WF_ipdbAll(Searches)
=============================================================================
