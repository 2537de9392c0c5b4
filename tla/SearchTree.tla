----------------------------- MODULE SearchTree -----------------------------
(***************************************************************************)
(* The search tree of an open MaxMind database (libmaxminddb/maxminddb.c): *)
(* a binary tree over the bits of an address, as bytes of a mapped file.   *)
(* MMDB_open walks it once for the node at which every IPv4 address        *)
(* starts, MMDB_lookup_sockaddr walks it for an address.  One action per   *)
(* turn of a loop.  Nothing is assumed of the records: they may point      *)
(* back, or anywhere.                                                      *)
(***************************************************************************)
EXTENDS Bytes

CONSTANTS
  V4Bits,    \* 32
  V6Bits,    \* 128
  Separator  \* MMDB_DATA_SECTION_SEPARATOR, 16

ASSUME TreeAssumption ==
  /\ V4Bits \in Nat /\ V6Bits \in Nat /\ V4Bits <= V6Bits
  /\ Separator \in Nat

VARIABLES
  content,      \* the bytes of the file
  nodeCount,    \* metadata.node_count
  recordLength, \* full_record_byte_size
  ipVersion,    \* metadata.ip_version
  dataSize,     \* data_section_size
  startNode,    \* ipv4_start_node.node_value
  startMask,    \* ipv4_start_node.netmask
  pc,           \* where the thread is
  family,       \* sa_family of the address that is looked up: 4 or 6
  address,      \* its bits, of IPv6 in a database of IPv6
  value,        \* the record that was read last
  bit,          \* current_bit, netmask
  result,       \* MMDB_lookup_result_s and mmdb_error
  startTrail,    \* history: the records read by find_ipv4_start_node
  trail          \* history: the records read from the root for this address

databaseVars == <<content, nodeCount, recordLength, ipVersion, dataSize>>
startVars == <<startNode, startMask, startTrail>>
lookupVars == <<family, address, result>>
walkVars == <<value, bit, trail>>
treeVars == <<databaseVars, startVars, pc, lookupVars, walkVars>>

Depth == IF ipVersion = 4 THEN V4Bits ELSE V6Bits

Prefix == V6Bits - V4Bits

NoResult == [status |-> "none", found |-> FALSE, netmask |-> 0, offset |-> 0]

-----------------------------------------------------------------------------
(* The records of a node: 24, 28 or 32 bits wide.                          *)

LeftRecord(o) ==
  IF recordLength = 6 THEN Get24(content, o)
  ELSE IF recordLength = 7
    THEN Get24(content, o) + (At(content, o + 3) \div 16) * 16777216
  ELSE Get32(content, o)

RightRecord(o) ==
  IF recordLength = 6 THEN Get24(content, o + 3)
  ELSE IF recordLength = 7
    THEN (At(content, o + 3) % 16) * 16777216 + Get24(content, o + 4)
  ELSE Get32(content, o + 4)

\* A product of 32 bits: beyond 4 GiB it wraps.
RecordOffset(node) == (node * recordLength) % Word

Child(node, b) ==
  IF b = 1 THEN RightRecord(RecordOffset(node)) ELSE LeftRecord(RecordOffset(node))

\* Faulty: the record that stands for nothing is taken for a node.
NodeOrEmpty(v) == v <= nodeCount

\* Else it is data, or nothing when equal.
IsNode(v) == v < nodeCount

-----------------------------------------------------------------------------
\* find_ipv4_start_node: left for each leading zero of an IPv4 address.
FindStartNode ==
  /\ pc = "start"
  /\ bit < Prefix /\ IsNode(value)
  /\ value' = Child(value, 0)
  /\ bit' = bit + 1
  /\ trail' = Append(trail, value')
  /\ UNCHANGED <<databaseVars, startVars, pc, lookupVars>>

FoundStartNode ==
  /\ pc = "start"
  /\ ~(bit < Prefix /\ IsNode(value))
  /\ startNode' = value
  /\ startMask' = bit
  /\ startTrail' = trail
  /\ pc' = "ready"
  /\ UNCHANGED <<databaseVars, lookupVars, walkVars>>

\* The 16 bytes of an address in a database of IPv6.
Mapped(f, a) ==
  IF ipVersion = 6 /\ f = 4
    THEN [i \in 0 .. V6Bits - 1 |-> IF i < Prefix THEN 0 ELSE a[i - Prefix]]
    ELSE a

\* An IPv6 address in a database of IPv4.
RefuseLookup(f) ==
  /\ pc \in {"ready", "answered"}
  /\ ipVersion = 4 /\ f = 6
  /\ result' = [NoResult EXCEPT !.status = "ipv6_in_ipv4"]
  /\ pc' = "answered"
  /\ UNCHANGED <<databaseVars, startVars, family, address, walkVars>>

\* Faulty: the bits that the start node stands for are walked again.
SkipNothing == 0

SkippedBits == startMask

\* MMDB_lookup_sockaddr, up to the loop.
Lookup(f, a) ==
  /\ pc \in {"ready", "answered"}
  /\ ~(ipVersion = 4 /\ f = 6)
  /\ family' = f
  /\ address' = Mapped(f, a)
  /\ IF ipVersion = 6 /\ f = 4
       THEN value' = startNode /\ bit' = SkippedBits /\ trail' = startTrail
       ELSE value' = 0 /\ bit' = 0 /\ trail' = <<0>>
  /\ result' = NoResult
  /\ pc' = "walk"
  /\ UNCHANGED <<databaseVars, startVars>>

\* Faulty: the next bit is not gone to.
WalkInPlace ==
  /\ pc = "walk"
  /\ bit < Depth /\ IsNode(value)
  /\ value' = Child(value, address[bit])
  /\ UNCHANGED <<databaseVars, startVars, pc, lookupVars, bit, trail>>

Walk ==
  /\ pc = "walk"
  /\ bit < Depth /\ IsNode(value)
  /\ value' = Child(value, address[bit])
  /\ bit' = bit + 1
  /\ trail' = Append(trail, value')
  /\ UNCHANGED <<databaseVars, startVars, pc, lookupVars>>

\* data_section_offset_for_record: a uint32_t, so it may wrap.
DataOffset(v) == (v - nodeCount - Separator) % Word

\* The end of find_address_in_search_tree.  A record that is a node after
\* the last bit is taken for data, with an offset that wraps.
Outcome ==
  IF value >= (nodeCount + dataSize) % Word
    THEN [NoResult EXCEPT !.status = "corrupt", !.netmask = bit]
  ELSE IF value = nodeCount
    THEN [NoResult EXCEPT !.status = "ok", !.netmask = bit]
  ELSE [status |-> "ok", found |-> TRUE, netmask |-> bit, offset |-> DataOffset(value)]

EndWalk ==
  /\ pc = "walk"
  /\ ~(bit < Depth /\ IsNode(value))
  /\ result' = Outcome
  /\ pc' = "answered"
  /\ UNCHANGED <<databaseVars, startVars, family, address, walkVars>>

-----------------------------------------------------------------------------
Bits(n) == [0 .. n - 1 -> {0, 1}]

\* What MMDB_open has checked of the sizes.
SizesChecked ==
  /\ recordLength \in {6, 7, 8}
  /\ ipVersion \in {4, 6}
  /\ nodeCount \in Nat \ {0}
  /\ dataSize \in Nat \ {0}
  /\ Len(content) = nodeCount * recordLength + Separator + dataSize

\* MMDB_open before the start node.
WalkFromRoot ==
  /\ startNode = 0 /\ startMask = 0 /\ startTrail = <<0>>
  /\ family = 4
  /\ address = [i \in 0 .. V6Bits - 1 |-> 0]
  /\ value = 0 /\ bit = 0 /\ trail = <<0>>
  /\ result = NoResult

TreeInit ==
  /\ content \in Seq(0 .. 255)
  /\ SizesChecked
  /\ WalkFromRoot
  /\ pc = IF ipVersion = 6 THEN "start" ELSE "ready"

TreeNext ==
  \/ FindStartNode \/ FoundStartNode
  \/ \E a \in Bits(V4Bits) : Lookup(4, a)
  \/ \E a \in Bits(V6Bits) : Lookup(6, a)
  \/ RefuseLookup(6)
  \/ Walk \/ EndWalk

TreeSpec == TreeInit /\ [][TreeNext]_treeVars
-----------------------------------------------------------------------------
(* Every record that a lookup or the search for the start of IPv4 has      *)
(* read, each of a trail but the last, lies inside the tree and inside the *)
(* file, wherever the records of the tree point.  So the loops' own tests  *)
(* of record_pointer never come true, and are no step of the model.        *)
ReadsInsideTree ==
  \A p \in {startTrail, trail} : \A i \in 1 .. Len(p) - 1 :
    \A size \in {nodeCount * recordLength, Len(content)} :
      RecordOffset(p[i]) + recordLength <= size

\* The record of a node, by the format: the n-th has its records at n sizes.
RecordOf(node, b) ==
  IF b = 1 THEN RightRecord(node * recordLength) ELSE LeftRecord(node * recordLength)

\* The records `p' are what one reads from the root for the bits `a'.
LeadsTo(p, a) ==
  /\ Len(p) >= 1 /\ p[1] = 0
  /\ \A i \in 1 .. Len(p) - 1 :
       IsNode(p[i]) /\ i - 1 \in DOMAIN a /\ p[i + 1] = RecordOf(p[i], a[i - 1])

(* The answer to a lookup belongs to a network the address is in: from the *)
(* root, each of its first netmask bits leads to a node or to the record   *)
(* that is the answer.  Of an IPv4 address in a database of IPv6 that      *)
(* includes the zeros that MMDB_open skipped for it.  (In a tree beyond    *)
(* 4 GiB the offsets of records wrap and it is not so.)                    *)
AnswerOfNetwork ==
  pc = "answered" /\ result.status # "ipv6_in_ipv4" /\ nodeCount * recordLength <= Word =>
    /\ LeadsTo(trail, address)
    /\ Len(trail) = result.netmask + 1
    /\ result.found => result.offset = DataOffset(trail[Len(trail)])
    /\ ~IsNode(trail[Len(trail)]) \/ result.netmask = Depth
=============================================================================
