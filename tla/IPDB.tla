-------------------------------- MODULE IPDB --------------------------------
(***************************************************************************)
(* What the program asks its databases (ipdb.cpp): LookUpIPCityInfo and    *)
(* LookUpIPISPInfo look an address up and read fields of what is found by  *)
(* their paths, each with something to show when it is missing.  One       *)
(* action per call of libmaxminddb.  An allocation of the code may fail    *)
(* (one of Qt ends the program).  Calls of several threads share the open  *)
(* database and change nothing of it, so one at a time is modelled.        *)
(***************************************************************************)
EXTENDS MaxMindDB, Documents, FiniteSets

CONSTANTS
  Unknown,  \* "未知"
  Private,  \* "私有地址"
  Wild,     \* text at an address that is no string's
  MaxCalls  \* bound: calls of LookUp...

VARIABLES
  database,  \* "city" or "isp": CityDB or ISPDB
  documents, \* history: what the file was made to say, a layout of its data
  asking,    \* the fields that are still to be read
  info,      \* the output parameters of the call, by field
  isLocationValid,
  starved,   \* history: the fields that this call had no memory for
  calls      \* LookUp... calls so far

ipdbVars == <<asking, info, isLocationValid, starved, calls>>
ipdbAll == <<dbAll, database, documents, ipdbVars>>

-----------------------------------------------------------------------------
(* A field: its kind, the path of its value, and the last part of the path *)
(* to try when there is no such value, or none.                            *)

Field(name, kind, path, instead) ==
  [name |-> name, kind |-> kind, path |-> path, instead |-> instead]

Fields(db) ==
  IF db = "city"
    THEN << Field("cityName", "text", <<"city", "names", "zh-CN">>, "en"),
            Field("countryName", "text", <<"country", "names", "zh-CN">>, "en"),
            Field("latitude", "place", <<"location", "latitude">>, ""),
            Field("longitude", "place", <<"location", "longitude">>, ""),
            Field("accuracyRadius", "place", <<"location", "accuracy_radius">>, "") >>
    ELSE << Field("isp", "text", <<"isp">>, ""),
            Field("org", "text", <<"organization">>, ""),
            Field("asn", "number", <<"autonomous_system_number">>, ""),
            Field("asOrg", "text", <<"autonomous_system_organization">>, "") >>

NoInfo == [name \in {} |-> <<>>]

Keys(path) == [i \in DOMAIN path |-> Key[path[i]]]

\* strndup: up to a NUL.
UpToNul(bytes) ==
  SubSeq(bytes, 1, Min({Len(bytes)} \union {i - 1 : i \in {j \in DOMAIN bytes : bytes[j] = 0}}))

\* The program reads the member of the union that the field calls for.  Of
\* an entry of another type a string is at no address; a number is some
\* number.
Shown(field, e) ==
  CASE field.kind = "text" -> IF e.type = String THEN UpToNul(e.data) ELSE Wild
    [] OTHER -> e.data

\* Of a missing number 0.
Missing(field) == IF field.kind = "text" THEN Unknown ELSE <<>>

-----------------------------------------------------------------------------
\* A call begins.
Call ==
  /\ calls < MaxCalls
  /\ calls' = calls + 1
  /\ starved' = {}

\* Up to find_address_in_search_tree.  The documents of a database of IPv4
\* are not asked for an address of IPv6.
LookUp(f, a) ==
  /\ asking = <<>> /\ Call
  /\ Lookup(f, a) \/ RefuseLookup(f)
  /\ info' = NoInfo
  /\ UNCHANGED <<openVars, database, documents, asking, isLocationValid>>

\* Of the city: valid until something of it is missing.
ValidAtFirst(found) == IF database = "city" THEN found ELSE isLocationValid

\* asn stays as the caller made it.
NothingFound ==
  /\ info' = [name \in IF database = "city" THEN {"cityName", "countryName"}
                        ELSE {"isp", "org", "asOrg"} |->
                IF name \in {"cityName", "isp"} THEN Private ELSE <<>>]
  /\ isLocationValid' = ValidAtFirst(FALSE)

Refused(status) ==
  /\ result' = [NoResult EXCEPT !.status = status]
  /\ info' = NoInfo
  /\ UNCHANGED isLocationValid

\* The start of IPv4 in a tree that nobody has walked is anything, and so is
\* every member of a database whose metadata were not read to the end.
Unset(f) == ~mmdb.placed \/ (ipVersion = 6 /\ f = 4)

\* A database that failed to open.  The tree and the data are read where the
\* file was mapped or never was, but for the searches that the members end.
LookUpUnopened(f) ==
  /\ pc = "failed" /\ Call
  /\ IF ipVersion = 4 /\ f = 6 THEN Refused("ipv6_in_ipv4") /\ UNCHANGED faults
     ELSE IF recordLength \notin {6, 7, 8} THEN Refused("unknown_format") /\ UNCHANGED faults
     ELSE \/ Unset(f) /\ Refused("corrupt") /\ UNCHANGED faults
          \/ Unset(f) /\ NothingFound /\ UNCHANGED <<result, faults>>
          \/ /\ faults' = faults \union {"tree"} /\ info' = NoInfo
             /\ UNCHANGED <<result, isLocationValid>>
  /\ UNCHANGED <<databaseVars, startVars, walkVars, pc, family, address, mmdb, held>>
  /\ UNCHANGED <<furthest, database, documents, asking>>

\* The end of the search: the fields of what is found are to be read.
Found ==
  /\ EndWalk
  /\ IF result'.status # "ok"
       THEN UNCHANGED <<asking, info, isLocationValid>>
     ELSE IF result'.found
       THEN /\ asking' = Fields(database)
            /\ isLocationValid' = ValidAtFirst(TRUE)
            /\ UNCHANGED info
       ELSE NothingFound /\ UNCHANGED asking
  /\ UNCHANGED <<openVars, database, documents, starved, calls>>

\* The output parameters when one of them has been set.
InfoWith(name, shown) ==
  [x \in DOMAIN info \union {name} |-> IF x = name THEN shown ELSE info[x]]

ValidWithout(field) == isLocationValid /\ field.kind # "place"

Starved(field, e) ==
  IF e.status = "out_of_memory" THEN starved \union {field.name} ELSE starved

\* MMDB_get_value for the next field, and the copy of a text.  Of a copy
\* there is no memory for QString makes an empty text.
Ask ==
  /\ asking # <<>>
  /\ LET field == Head(asking)
     IN \E e \in GetValue(Data, result.offset, Keys(field.path)) :
        /\ ReadOf(e, Data)
        /\ \/ /\ e.status = "ok"
              /\ \/ info' = InfoWith(field.name, Shown(field, e)) /\ UNCHANGED starved
                 \/ /\ field.kind = "text"
                    /\ info' = InfoWith(field.name, <<>>)
                    /\ starved' = starved \union {field.name}
              /\ asking' = Tail(asking)
              /\ UNCHANGED isLocationValid
           \/ /\ e.status # "ok" /\ field.instead # ""
              /\ asking' = <<[field EXCEPT !.path = Append(Front(@), field.instead),
                                           !.instead = ""]>> \o Tail(asking)
              /\ starved' = Starved(field, e)
              /\ UNCHANGED <<info, isLocationValid>>
           \/ /\ e.status # "ok" /\ field.instead = ""
              /\ info' = InfoWith(field.name, Missing(field))
              /\ isLocationValid' = ValidWithout(field)
              /\ asking' = Tail(asking)
              /\ starved' = Starved(field, e)
  /\ UNCHANGED <<treeVars, mmdb, held, faults, database, documents, calls>>

IPDBInit ==
  /\ OpenInit
  /\ database \in {"city", "isp"}
  /\ asking = <<>> /\ info = NoInfo /\ starved = {} /\ calls = 0
  /\ isLocationValid \in BOOLEAN

IPDBNext ==
  \/ Open /\ UNCHANGED <<database, documents, ipdbVars>>
  \/ \E a \in Bits(V4Bits) : LookUp(4, a)
  \/ \E a \in Bits(V6Bits) : LookUp(6, a)
  \/ \E f \in {4, 6} : LookUpUnopened(f)
  \/ Walk /\ UNCHANGED <<openVars, database, documents, ipdbVars>>
  \/ Found \/ Ask

\* The file holds any bytes, and nothing is known of what they were made of.
IPDBSpec == IPDBInit /\ content \in Seq(Byte) /\ [][IPDBNext]_ipdbAll

\* A thread that searches a tree goes on.
Searches ==
  \/ StartOfIPv4 /\ UNCHANGED <<database, documents, ipdbVars>>
  \/ Walk /\ UNCHANGED <<openVars, database, documents, ipdbVars>>
  \/ Found

-----------------------------------------------------------------------------
(* What the documents of a file are to be shown as.  A file without        *)
(* documents may hold anything.                                            *)

\* The type is not checked.
ShownOf(field, doc) ==
  LET plain == DOMAIN doc = {"type", "bytes"}
  IN  IF field.kind # "text" THEN IF plain THEN doc.bytes ELSE <<>>
      ELSE IF plain /\ doc.type = String THEN UpToNul(doc.bytes) ELSE Wild

\* What the document has of a field, by its path and by the other one.
First(doc, field) == InDocument(doc, Keys(field.path))

Second(doc, field) ==
  IF field.instead = "" THEN Nothing
    ELSE InDocument(doc, Keys(Append(Front(field.path), field.instead)))

Expected(doc, field) ==
  IF First(doc, field) # Nothing THEN ShownOf(field, First(doc, field))
  ELSE IF Second(doc, field) # Nothing THEN ShownOf(field, Second(doc, field))
  ELSE Missing(field)

\* What a field may show that there was no memory for.
Degraded(doc, field) ==
  {Missing(field)}
    \union (IF field.kind = "text" THEN {<<>>} ELSE {})
    \union (IF Second(doc, field) # Nothing THEN {ShownOf(field, Second(doc, field))} ELSE {})

(* What the metadata of a database say; they are a document too.           *)

IsPlain(doc, type) == DOMAIN doc = {"type", "bytes"} /\ doc.type = type

AllText(docs) == \A i \in DOMAIN docs : IsPlain(docs[i], String)

SaidNumber(about, k) == NumberOf(Member(about, Key[k]).bytes)

\* What the metadata keep for a key, but for the languages and descriptions.
KeyTypes ==
  [node_count |-> UInt32, record_size |-> UInt16, ip_version |-> UInt16,
   database_type |-> String, binary_format_major_version |-> UInt16,
   binary_format_minor_version |-> UInt16, build_epoch |-> UInt64]

Describes(about) ==
  /\ \A k \in DOMAIN KeyTypes : IsPlain(Member(about, Key[k]), KeyTypes[k])
  /\ SaidNumber(about, "node_count") # 0 /\ SaidNumber(about, "build_epoch") # 0
  /\ SaidNumber(about, "record_size") \in {24, 28, 32}
  /\ SaidNumber(about, "ip_version") \in {4, 6}
  /\ SaidNumber(about, "binary_format_major_version") = 2
  /\ \E languages \in {Member(about, Key["languages"])} :
       DOMAIN languages = {"array"} /\ AllText(languages.array)
  /\ \E description \in {Member(about, Key["description"])} :
       DOMAIN description = {"map"}
         /\ AllText([i \in DOMAIN description.map |-> description.map[i][2]])

\* Where the data begin: behind the tree of that many nodes of that size.
DataAt(about) ==
  SaidNumber(about, "node_count") * ((SaidNumber(about, "record_size") * 2) \div 8) + Separator

FileFrom(i) == SubSeq(content, i + 1, Len(content))

\* The file has a marker, behind the last one metadata, laid out as `meta',
\* and where these say the data, in which the documents are.
WellMade(meta) ==
  /\ MarkerEnds # {}
  /\ \E section \in {FileFrom(LastMarker)} : section # <<>> /\ LaidOut(section, meta)
  /\ \E v \in meta :
       /\ v.at = 0 /\ Describes(v.doc)
       /\ Len(content) - DataAt(v.doc) \in 3 .. Word - 1
       /\ \E data \in {FileFrom(DataAt(v.doc))} : LaidOut(data, documents)

(* A file that was made as a database opens when the system lets it, and   *)
(* what it is asked of is the section in which its documents are.          *)
WellMadeOpens ==
  documents # {} =>
    /\ pc = "failed" => mmdb.status \in {"out_of_memory", "file_open", "io"}
    /\ pc = "ready" => LaidOut(Data, documents)

(* The call shows what the file was made to say of the network that the    *)
(* address is in, through the pointers, past the members it does not read, *)
(* and with the replacements for what is missing.  The location is valid   *)
(* exactly when all three parts of it are there.  A field the call had no  *)
(* memory for shows the other name, what a missing one shows or nothing,   *)
(* and harms no other field; a location without a part of it is not valid. *)
AnswerOfDocument ==
  pc = "answered" /\ result.found /\ asking = <<>> =>
    \A v \in documents : v.at = result.offset =>
      LET fields == Range(Fields(database))
      IN  /\ \A field \in fields :
               info[field.name] \in IF field.name \in starved THEN Degraded(v.doc, field)
                                     ELSE {Expected(v.doc, field)}
          /\ database = "city" =>
               (isLocationValid <=>
                  \A field \in fields : field.kind = "place" =>
                    First(v.doc, field) # Nothing /\ field.name \notin starved)

(* Every search ends, of the start of IPv4 and of an address, also in a    *)
(* tree whose records point in a circle.                                   *)
EverySearchEnds == pc \in {"start", "walk"} ~> pc \in {"ready", "answered"}
=============================================================================
