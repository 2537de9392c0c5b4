----------------------------- MODULE MaxMindDB -----------------------------
(***************************************************************************)
(* MMDB_open (libmaxminddb/maxminddb.c, the Windows build): the file is    *)
(* mapped, its metadata found and read key by key, the sizes checked, the  *)
(* start of IPv4 looked for (module SearchTree).  Every call of the system *)
(* and every allocation may fail, and the file holds anything; after a     *)
(* failure all that was taken is to be released, and nothing else.  No     *)
(* database is closed: the program ends without deleting its window.       *)
(***************************************************************************)
EXTENDS SearchTree, DataSection

CONSTANTS
  Marker,      \* METADATA_MARKER; it begins at none of its other bytes
  MaxMetadata, \* METADATA_BLOCK_MAX_SIZE, 131072
  Key          \* the names the program looks for, as bytes

ASSUME MarkerAssumption ==
  /\ Marker \in Seq(Byte) \ {<<>>}
  /\ MaxMetadata \in 1 .. Word - 1

VARIABLES
  mmdb,    \* what else it knows of the database, see HandleType
  held,    \* what it has allocated or opened and not released
  faults,  \* what was released or used and was not held
  furthest \* history: the end of what the last call read of a section, its size

openVars == <<mmdb, held, faults, furthest>>
dbAll == <<treeVars, openVars>>

(***************************************************************************)
(* status: what MMDB_open returns; mapped: file_content # NULL; described: *)
(* metadata.description.count # 0; placed: data_section # NULL; metadata:  *)
(* metadata_section, an offset into the file; recordSize, major: of the    *)
(* metadata.                                                               *)
(***************************************************************************)
Statuses ==
  {"ok", "out_of_memory", "file_open", "io", "invalid_metadata",
   "unknown_format", "invalid_data", "mismatch"}

HandleType ==
  [status : Statuses, mapped : BOOLEAN, described : BOOLEAN, placed : BOOLEAN,
   metadata : Nat, recordSize : Nat, major : Nat]

Metadata == SubSeq(content, mmdb.metadata + 1, Len(content))

\* All of the file behind the tree, the metadata included.
Data == SubSeq(content, Len(content) - dataSize + 1, Len(content))

OtherVars == <<content, startVars, lookupVars, walkVars>>

-----------------------------------------------------------------------------
(* free_mmdb_struct.  What it releases it sees in the members.             *)

Mapping == {"view", "winsock"}

Releases(m) ==
  {"filename", "database_type", "languages"}
    \union (IF m.mapped THEN Mapping ELSE {})
    \union (IF m.described THEN {"descriptions"} ELSE {})

NeedsHeld(m) == Releases(m) \ {"filename", "database_type", "languages"}

\* When h is held.
Free(m, h) ==
  /\ held' = h \ Releases(m)
  /\ faults' = faults \union (NeedsHeld(m) \ h)

\* goto cleanup, when the step made the handle m and has taken something.
Fail(m, status, taken) ==
  /\ mmdb' = [m EXCEPT !.status = status]
  /\ pc' = "failed"
  /\ Free(m, held \union taken)

Proceed(m, next, taken) ==
  /\ mmdb' = m
  /\ pc' = next
  /\ held' = held \union taken
  /\ UNCHANGED faults

-----------------------------------------------------------------------------
(* MMDB_open up to the metadata.                                           *)

\* Faulty: the members of a handle that `new' gave are not reset.
KeepMembers == mmdb

ResetMembers ==
  [mmdb EXCEPT !.status = "ok", !.mapped = FALSE, !.described = FALSE, !.placed = FALSE]

Begin ==
  /\ pc = "open"
  /\ \/ Proceed(ResetMembers, "map", {"filename"})
     \/ Fail(ResetMembers, "out_of_memory", {})
  /\ UNCHANGED <<databaseVars, OtherVars, furthest>>

\* Faulty: the handles are closed when the view is there, not in any case.
CloseIfMapped(stage) == IF stage = "done" THEN {"utf16", "file", "mapping"} ELSE {}

ClosedByMap(stage) == {"utf16", "file", "mapping"}

\* What map_file has when the call for `stage' fails, or none does.
OpenAt(stage) ==
  CASE stage = "utf16" -> {}
    [] stage = "file" -> {"utf16"}
    [] stage \in {"size", "mapping"} -> {"utf16", "file"}
    [] stage = "view" -> {"utf16", "file", "mapping"}
    [] OTHER -> {"utf16", "file", "mapping", "view"}

MapFile ==
  /\ pc = "map"
  /\ \/ Proceed([mmdb EXCEPT !.mapped = TRUE], "marker", OpenAt("done") \ ClosedByMap("done"))
     \/ \E stage \in {"utf16", "file", "size"} :
          Fail(mmdb, "file_open", OpenAt(stage) \ ClosedByMap(stage))
     \/ \E stage \in {"mapping", "view"} :
          Fail(mmdb, "io", OpenAt(stage) \ ClosedByMap(stage))
  /\ UNCHANGED <<databaseVars, OtherVars, furthest>>

\* find_metadata: the ends of the markers in the last part of the file.
MarkerEnds ==
  {e \in Len(Marker) .. Len(content) :
     /\ e - Len(Marker) >= Len(content) - MaxMetadata
     /\ SubSeq(content, e - Len(Marker) + 1, e) = Marker}

LastMarker == CHOOSE e \in MarkerEnds : \A f \in MarkerEnds : f <= e

\* WSAStartup, and then the marker.
FindMetadata ==
  /\ pc = "marker"
  /\ IF MarkerEnds = {}
       THEN Fail(mmdb, "invalid_metadata", {"winsock"})
       ELSE Proceed([mmdb EXCEPT !.metadata = LastMarker], "node_count", {"winsock"})
  /\ UNCHANGED <<databaseVars, OtherVars, furthest>>

-----------------------------------------------------------------------------
(* read_metadata.  \E e \in {...} names what a call has returned.          *)

Value(k) == AGet(Metadata, 0, <<Key[k]>>)

NumberOf(bytes) ==
  LET number[i \in 0 .. Len(bytes)] ==
        IF i = 0 THEN 0 ELSE number[i - 1] * 256 + bytes[i]
  IN  number[Len(bytes)]

Number(e) == NumberOf(e.data)

\* value_for_key_as_uint16, _uint32, _uint64, _string
TypedStatus(e, type) ==
  IF e.status = "ok" /\ e.type # type THEN "invalid_metadata" ELSE e.status

\* Of a number that must not be 0.
NumberStatus(e, type) ==
  IF TypedStatus(e, type) = "ok" /\ Number(e) = 0
    THEN "invalid_metadata" ELSE TypedStatus(e, type)

Step(status, m, next) ==
  IF status = "ok" THEN Proceed(m, next, {}) ELSE Fail(mmdb, status, {})

ReadOf(e, section) == furthest' = <<e.end, Len(section)>>

ReadNodeCount ==
  /\ pc = "node_count"
  /\ \E e \in {Value("node_count")} :
        /\ ReadOf(e, Metadata)
        /\ nodeCount' = Number(e)
        /\ Step(NumberStatus(e, UInt32), mmdb, "record_size")
  /\ UNCHANGED <<recordLength, ipVersion, dataSize, OtherVars>>

KnownSize(n) == n \in {24, 28, 32}

ReadRecordSize ==
  /\ pc = "record_size"
  /\ \E e \in {Value("record_size")} :
     LET status == NumberStatus(e, UInt16)
     IN /\ ReadOf(e, Metadata)
        /\ Step(IF status = "ok" /\ ~KnownSize(Number(e)) THEN "unknown_format" ELSE status,
                [mmdb EXCEPT !.recordSize = Number(e)], "ip_version")
  /\ UNCHANGED <<databaseVars, OtherVars>>

ReadIPVersion ==
  /\ pc = "ip_version"
  /\ \E e \in {Value("ip_version")} :
     LET status == NumberStatus(e, UInt16)
     IN /\ ReadOf(e, Metadata)
        /\ ipVersion' = Number(e)
        /\ Step(IF status = "ok" /\ Number(e) \notin {4, 6} THEN "invalid_metadata" ELSE status,
                mmdb, "database_type")
  /\ UNCHANGED <<content, nodeCount, recordLength, dataSize, OtherVars>>

ReadDatabaseType ==
  /\ pc = "database_type"
  /\ \E e \in {Value("database_type")} :
     LET status == TypedStatus(e, String)
     IN /\ ReadOf(e, Metadata)
        /\ \/ status = "ok" /\ Proceed(mmdb, "languages", {"database_type"})
           \/ status = "ok" /\ Fail(mmdb, "out_of_memory", {})
           \/ status # "ok" /\ Fail(mmdb, status, {})
  /\ UNCHANGED <<databaseVars, OtherVars>>

AllStrings(list, n) == \A i \in 2 .. n + 1 : list.members[i].type = String

\* populate_languages_metadata.  It releases its list when all went well.
ReadLanguages ==
  /\ pc = "languages"
  /\ \E e \in {Value("languages")} :
     LET status == TypedStatus(e, Array)
     IN IF status # "ok"
          THEN ReadOf(e, Metadata) /\ Fail(mmdb, status, {})
        ELSE \E list \in {DataList(Metadata, e.offset)} :
             /\ ReadOf(list, Metadata)
             /\ \/ list.status # "ok" /\ Fail(mmdb, list.status, {"list"})
                \/ /\ list.status = "ok"
                   /\ \/ AllStrings(list, e.size) /\ Proceed(mmdb, "major", {"languages"})
                      \/ ~AllStrings(list, e.size) /\ Fail(mmdb, "invalid_metadata", {"languages", "list"})
                      \/ \E taken \in {{}, {"list"}, {"languages", "list"}} :
                           Fail(mmdb, "out_of_memory", taken)
  /\ UNCHANGED <<databaseVars, OtherVars>>

ReadMajorVersion ==
  /\ pc = "major"
  /\ \E e \in {Value("binary_format_major_version")} :
        /\ ReadOf(e, Metadata)
        /\ Step(NumberStatus(e, UInt16), [mmdb EXCEPT !.major = Number(e)], "minor")
  /\ UNCHANGED <<databaseVars, OtherVars>>

ReadMinorVersion ==
  /\ pc = "minor"
  /\ \E e \in {Value("binary_format_minor_version")} :
        /\ ReadOf(e, Metadata)
        /\ Step(TypedStatus(e, UInt16), mmdb, "epoch")
  /\ UNCHANGED <<databaseVars, OtherVars>>

ReadBuildEpoch ==
  /\ pc = "epoch"
  /\ \E e \in {Value("build_epoch")} :
        /\ ReadOf(e, Metadata)
        /\ Step(NumberStatus(e, UInt64), mmdb, "description")
  /\ UNCHANGED <<databaseVars, OtherVars>>

\* populate_description_metadata.  It releases its list once it has one.
\* The array is lost when there is no memory for its first element.
ReadDescription ==
  /\ pc = "description"
  /\ \E e \in {Value("description")} :
     LET status == TypedStatus(e, Map)
         counted == [mmdb EXCEPT !.described = TRUE]
     IN IF status # "ok"
          THEN /\ ReadOf(e, Metadata)
               /\ Fail(mmdb, status, {})
               /\ UNCHANGED recordLength
        ELSE \E list \in {DataList(Metadata, e.offset)} :
             /\ ReadOf(list, Metadata)
             /\ \/ /\ list.status # "ok"
                   /\ Fail(mmdb, list.status, {"list"})
                   /\ UNCHANGED recordLength
                \/ /\ list.status = "ok"
                   /\ IF e.size = 0
                        THEN Proceed(mmdb, "sizes", {})
                        ELSE /\ AllStrings(list, 2 * e.size)
                             /\ Proceed(counted, "sizes", {"descriptions"})
                   /\ recordLength' = (mmdb.recordSize * 2) \div 8
                \/ /\ list.status = "ok" /\ e.size # 0 /\ ~AllStrings(list, 2 * e.size)
                   /\ Fail(counted, "invalid_metadata", {"descriptions"})
                   /\ UNCHANGED recordLength
                \/ /\ list.status = "ok"
                   /\ \/ Fail(mmdb, "out_of_memory", {})
                      \/ Fail(mmdb, "out_of_memory", {"list"})
                      \/ e.size # 0 /\ Fail(mmdb, "out_of_memory", {"descriptions"})
                      \/ e.size # 0 /\ Fail(counted, "out_of_memory", {"descriptions"})
                   /\ UNCHANGED recordLength
  /\ UNCHANGED <<content, nodeCount, ipVersion, dataSize, OtherVars>>

-----------------------------------------------------------------------------
(* The rest of MMDB_open.                                                  *)

TreeSize == nodeCount * recordLength

HasRoom == TreeSize + Separator <= Len(content)

\* data_section is set before it is known to be in the file.
Placed == [mmdb EXCEPT !.placed = TRUE]

\* can_multiply refuses nothing that is not too large for the file.
CheckSizes ==
  /\ pc = "sizes"
  /\ dataSize' = Len(content) - TreeSize - Separator
  /\ \/ /\ mmdb.major = 2 /\ HasRoom /\ dataSize' \in 3 .. Word - 1
        /\ Proceed(Placed, IF ipVersion = 6 THEN "start" ELSE "ready", {})
     \/ mmdb.major # 2 /\ Fail(mmdb, "unknown_format", {})
     \/ /\ mmdb.major = 2
        /\ ~HasRoom \/ dataSize' \notin 1 .. Word - 1
        /\ Fail(Placed, "invalid_metadata", {})
     \/ mmdb.major = 2 /\ HasRoom /\ dataSize' \in {1, 2} /\ Fail(Placed, "invalid_data", {})
  /\ UNCHANGED <<content, nodeCount, recordLength, ipVersion, OtherVars, furthest>>

StartOfIPv4 ==
  /\ FindStartNode \/ FoundStartNode
  /\ UNCHANGED openVars

\* What `new IPDB' leaves in the members is anything, told apart where it
\* makes a difference.
OpenInit ==
  /\ recordLength \in {0, 6} /\ ipVersion \in {0, 4} /\ nodeCount = 0 /\ dataSize = 0
  /\ WalkFromRoot
  /\ pc = "open"
  /\ mmdb \in [status : {"ok"}, mapped : BOOLEAN, described : BOOLEAN, placed : BOOLEAN,
               metadata : {0}, recordSize : {0}, major : {0}]
  /\ held = {} /\ faults = {} /\ furthest = <<0, 0>>

Open ==
  \/ Begin \/ MapFile \/ FindMetadata
  \/ ReadNodeCount \/ ReadRecordSize \/ ReadIPVersion \/ ReadDatabaseType
  \/ ReadLanguages \/ ReadMajorVersion \/ ReadMinorVersion \/ ReadBuildEpoch
  \/ ReadDescription \/ CheckSizes \/ StartOfIPv4
-----------------------------------------------------------------------------
(* When MMDB_open fails, at whatever call or byte, it holds nothing but a  *)
(* list of members it could not decode or use; and, when memory runs out,  *)
(* an array of descriptions without an element.  An open database holds    *)
(* what MMDB_close releases.                                               *)
OpenReleases ==
  /\ pc = "failed" =>
       held \subseteq {"list"} \union (IF mmdb.status = "out_of_memory" THEN {"descriptions"} ELSE {})
  /\ pc \in {"start", "ready", "walk", "answered"} =>
       /\ NeedsHeld(mmdb) \subseteq held
       /\ held \subseteq Releases(mmdb)

(* The cleanup of MMDB_open goes by members that `new' left as they were.  *)
(* Wherever it fails it unmaps, cleans up and frees nothing but what it    *)
(* has taken.                                                              *)
ReleasesOnlyTaken == faults \subseteq {"tree"}

(* No byte is read beyond the end of the metadata or of the data, whatever *)
(* the sizes and pointers in them say; but for metadata of less than three *)
(* bytes, of which the bound of decode_one wraps: the code checks only the *)
(* data to be so long, and such files are left out.                        *)
ReadsInsideSection == furthest[1] <= furthest[2]
=============================================================================
