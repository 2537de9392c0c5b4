-------------------------- MODULE SearchTreeProofs --------------------------
(***************************************************************************)
(* Proofs about SearchTree, for every file, every number of nodes, every   *)
(* record size and every length of the addresses: no record is read beyond *)
(* the tree, and an answer belongs to a network the address is in.  The    *)
(* walks are followed by the offsets the code computes; that these are the *)
(* places of the nodes, and lie in the tree, comes last.                   *)
(***************************************************************************)
EXTENDS SearchTree, SequenceTheorems, TLAPS

\* As LeadsTo, by the offsets that wrap.
Follows(p, a) ==
  /\ Len(p) >= 1 /\ p[1] = 0
  /\ \A i \in 1 .. Len(p) - 1 :
       IsNode(p[i]) /\ i - 1 \in DOMAIN a /\ p[i + 1] = Child(p[i], a[i - 1])

\* From the root, the first n bits of `a' lead along the trail t to v.
Reaches(t, v, n, a) ==
  /\ t \in Seq(Nat)
  /\ Len(t) = n + 1
  /\ t[n + 1] = v
  /\ Follows(t, a)

Zeros == [i \in 0 .. V6Bits - 1 |-> 0]

DatabaseOK == content \in Seq(0 .. 255) /\ SizesChecked

\* The loop of find_ipv4_start_node.
StartLoop ==
  pc = "start" =>
    /\ ipVersion = 6
    /\ bit \in 0 .. Prefix
    /\ value \in Nat
    /\ Reaches(trail, value, bit, Zeros)

\* What it leaves: a node or record that `startMask' zeros lead to.
StartFound ==
  pc # "start" /\ ipVersion = 6 =>
    /\ startMask \in 0 .. Prefix
    /\ startNode \in Nat
    /\ Reaches(startTrail, startNode, startMask, Zeros)

\* The loop of find_address_in_search_tree.
WalkLoop ==
  pc = "walk" =>
    /\ bit \in 0 .. Depth
    /\ value \in Nat
    /\ address \in [0 .. Depth - 1 -> {0, 1}]
    /\ Reaches(trail, value, bit, address)

\* What the thread has found.
Answered ==
  pc = "answered" /\ result.status # "ipv6_in_ipv4" =>
    /\ Reaches(trail, trail[Len(trail)], result.netmask, address)
    /\ result.netmask \in Nat
    /\ result.found => result.offset = DataOffset(trail[Len(trail)])
    /\ ~IsNode(trail[Len(trail)]) \/ result.netmask = Depth

\* A trail of records that were read: of nodes, but for the last.
OfNodes(t) == t \in Seq(Nat) /\ \A i \in 1 .. Len(t) - 1 : IsNode(t[i])

TreeInv ==
  /\ DatabaseOK
  /\ pc \in {"start", "ready", "walk", "answered"}
  /\ StartLoop
  /\ StartFound
  /\ WalkLoop
  /\ Answered
  /\ OfNodes(startTrail) /\ OfNodes(trail)

-----------------------------------------------------------------------------
(* Records.                                                                *)

LEMMA Remainder ==
  ASSUME NEW a \in Int, NEW b \in Nat, b > 0
  PROVE  a % b \in Nat
OBVIOUS

LEMMA Quotient ==
  ASSUME NEW a \in Nat, a >= 256
  PROVE  a \div 256 \in Nat /\ a \div 256 > 0
OBVIOUS

LEMMA ByteRange ==
  ASSUME NEW mem \in Seq(0 .. 255), NEW o \in Int
  PROVE  At(mem, o) \in 0 .. 255
<1>1. CASE o + 1 \in DOMAIN mem
  <2>1. o + 1 \in 1 .. Len(mem)
    BY <1>1
  <2>2. \A i \in 1 .. Len(mem) : mem[i] \in 0 .. 255
    BY ElementOfSeq
  <2>3. mem[o + 1] \in 0 .. 255
    BY <2>1, <2>2, Zenon
  <2> QED
    BY <2>3, <1>1 DEF At
<1>2. CASE o + 1 \notin DOMAIN mem
  BY <1>2 DEF At
<1> QED
  BY <1>1, <1>2

LEMMA Get24Nat ==
  ASSUME NEW mem \in Seq(0 .. 255), NEW o \in Int
  PROVE  Get24(mem, o) \in Nat
<1>1. /\ At(mem, o) \in 0 .. 255
      /\ At(mem, o + 1) \in 0 .. 255
      /\ At(mem, o + 2) \in 0 .. 255
  <2>1. o + 1 \in Int /\ o + 2 \in Int
    OBVIOUS
  <2> QED
    BY <2>1, ByteRange, Zenon
<1> QED
  <2>1. PICK a \in 0 .. 255, b \in 0 .. 255, c \in 0 .. 255 :
          a = At(mem, o) /\ b = At(mem, o + 1) /\ c = At(mem, o + 2)
    BY <1>1, Zenon
  <2>2. Get24(mem, o) = a * 65536 + b * 256 + c
    BY <2>1 DEF Get24
  <2>3. a * 65536 + b * 256 + c \in Nat
    OBVIOUS
  <2> QED
    BY <2>2, <2>3

LEMMA Get32Nat ==
  ASSUME NEW mem \in Seq(0 .. 255), NEW o \in Int
  PROVE  Get32(mem, o) \in Nat
<1>1. Get24(mem, o) \in Nat
  BY Get24Nat
<1>2. At(mem, o + 3) \in 0 .. 255
  <2>1. o + 3 \in Int
    OBVIOUS
  <2> QED
    BY <2>1, ByteRange, Zenon
<1>3. /\ Word \div 256 \in Nat /\ Word \div 256 > 0
      /\ Word \in Nat /\ Word > 0
  <2>1. Word \in Nat /\ Word >= 256 /\ Word > 0
    BY WordAssumption
  <2> QED
    BY <2>1, Quotient, Zenon
<1> DEFINE high == Get24(mem, o) % (Word \div 256)
<1>4. high \in Nat
  <2>1. Get24(mem, o) \in Int
    BY <1>1
  <2>2. \A a \in Int, b \in Nat : b > 0 => a % b \in Nat
    BY Remainder
  <2> QED
    BY <2>1, <2>2, <1>3, Zenon
<1> DEFINE n == high * 256 + At(mem, o + 3)
<1>5. n \in Int
  <2>1. PICK a \in Nat, b \in 0 .. 255 : a = high /\ b = At(mem, o + 3)
    BY <1>2, <1>4, Zenon
  <2>2. a * 256 + b \in Int
    OBVIOUS
  <2>3. n = a * 256 + b
    BY <2>1, Zenon
  <2> QED
    BY <2>2, <2>3, Zenon
<1>6. n % Word \in Nat
  <2> HIDE DEF n
  <2> QED
    BY <1>3, <1>5, Remainder, Zenon
<1> QED
  BY <1>6 DEF Get32

LEMMA HalfBytes ==
  ASSUME NEW b \in 0 .. 255
  PROVE  b \div 16 \in Nat /\ b % 16 \in Nat
OBVIOUS

LEMMA OffsetNat ==
  ASSUME DatabaseOK, NEW node \in Nat
  PROVE  RecordOffset(node) \in Nat
<1>1. node * recordLength \in Int
  BY DEF DatabaseOK, SizesChecked
<1>2. Word \in Nat /\ Word > 0
  BY WordAssumption
<1> DEFINE product == node * recordLength
<1> HIDE DEF product
<1>3. product % Word \in Nat
  BY <1>1, <1>2, Remainder, Zenon DEF product
<1> QED BY <1>3 DEF RecordOffset, product

LEMMA ChildNat ==
  ASSUME DatabaseOK, NEW node \in Nat, NEW b
  PROVE  Child(node, b) \in Nat
<1> DEFINE o == RecordOffset(node)
<1>1. recordLength \in {6, 7, 8} /\ content \in Seq(0 .. 255)
  BY DEF DatabaseOK, SizesChecked
<1>2. o \in Int
  BY OffsetNat
<1>3. o + 3 \in Int /\ o + 4 \in Int
  BY <1>2
<1> HIDE DEF o
<1>4. /\ Get24(content, o) \in Nat /\ Get32(content, o) \in Nat
      /\ Get24(content, o + 3) \in Nat
      /\ Get24(content, o + 4) \in Nat /\ Get32(content, o + 4) \in Nat
  BY <1>1, <1>2, <1>3, Get24Nat, Get32Nat, Zenon
<1>5. At(content, o + 3) \div 16 \in Nat /\ At(content, o + 3) % 16 \in Nat
  BY <1>1, <1>3, ByteRange, HalfBytes, Zenon
<1>6. LeftRecord(o) \in Nat
  BY <1>1, <1>4, <1>5 DEF LeftRecord
<1>7. RightRecord(o) \in Nat
  BY <1>1, <1>4, <1>5 DEF RightRecord
<1> QED
  BY <1>6, <1>7, Zenon DEF Child, o

-----------------------------------------------------------------------------
(* Trails.                                                                 *)

LEMMA RootReaches ==
  ASSUME NEW a
  PROVE  Reaches(<<0>>, 0, 0, a)
<1>1. <<0>> \in Seq(Nat) /\ Len(<<0>>) = 1 /\ <<0>>[1] = 0
  OBVIOUS
<1>2. 1 .. Len(<<0>>) - 1 = {}
  BY <1>1
<1> QED
  BY <1>1, <1>2 DEF Reaches, Follows

LEMMA OneMore ==
  ASSUME NEW t, NEW v \in Nat, NEW n \in Nat, NEW a, NEW w \in Nat,
         Reaches(t, v, n, a), IsNode(v), n \in DOMAIN a, w = Child(v, a[n])
  PROVE  Reaches(Append(t, w), w, n + 1, a)
<1> DEFINE u == Append(t, w)
<1>1. /\ t \in Seq(Nat) /\ Len(t) = n + 1 /\ t[n + 1] = v /\ t[1] = 0
      /\ \A i \in 1 .. Len(t) - 1 :
           IsNode(t[i]) /\ i - 1 \in DOMAIN a /\ t[i + 1] = Child(t[i], a[i - 1])
  BY DEF Reaches, Follows
<1>2. /\ u \in Seq(Nat) /\ Len(u) = n + 2 /\ u[n + 2] = w
      /\ \A i \in 1 .. n + 1 : u[i] = t[i]
  BY <1>1
<1>3. ASSUME NEW i \in 1 .. Len(u) - 1
      PROVE  IsNode(u[i]) /\ i - 1 \in DOMAIN a /\ u[i + 1] = Child(u[i], a[i - 1])
  <2>1. CASE i = n + 1
    BY <2>1, <1>1, <1>2
  <2>2. CASE i # n + 1
    <3>1. i \in 1 .. Len(t) - 1 /\ i \in 1 .. n + 1 /\ i + 1 \in 1 .. n + 1
      BY <2>2, <1>1, <1>2
    <3> QED
      BY <3>1, <1>1, <1>2
  <2> QED
    BY <2>1, <2>2
<1> HIDE DEF u
<1>4. Len(u) >= 1 /\ u[1] = 0 /\ (n + 1) + 1 = n + 2
  BY <1>1, <1>2
<1>5. Reaches(u, w, n + 1, a)
  BY <1>2, <1>3, <1>4 DEF Reaches, Follows
<1> QED
  BY <1>5 DEF u

LEMMA ReadsNodes ==
  ASSUME NEW t, NEW v, NEW n, NEW a, Reaches(t, v, n, a)
  PROVE  OfNodes(t)
BY DEF Reaches, Follows, OfNodes

\* Bits behind the trail do not matter.
LEMMA SameBits ==
  ASSUME NEW t, NEW v, NEW n \in Nat, NEW a, NEW b, Reaches(t, v, n, a),
         \A i \in 0 .. n - 1 : i \in DOMAIN b /\ a[i] = b[i]
  PROVE  Reaches(t, v, n, b)
<1>1. /\ t \in Seq(Nat) /\ Len(t) = n + 1 /\ t[n + 1] = v /\ t[1] = 0
      /\ \A i \in 1 .. Len(t) - 1 :
           IsNode(t[i]) /\ i - 1 \in DOMAIN a /\ t[i + 1] = Child(t[i], a[i - 1])
  BY DEF Reaches, Follows
<1>2. ASSUME NEW i \in 1 .. Len(t) - 1
      PROVE  IsNode(t[i]) /\ i - 1 \in DOMAIN b /\ t[i + 1] = Child(t[i], b[i - 1])
  <2>1. i - 1 \in 0 .. n - 1
    BY <1>1
  <2>2. i - 1 \in DOMAIN b /\ a[i - 1] = b[i - 1]
    BY <2>1
  <2> QED
    BY <2>2, <1>1
<1>3. Len(t) >= 1
  BY <1>1
<1> QED
  BY <1>1, <1>2, <1>3 DEF Reaches, Follows

\* No action writes to the file.
LEMMA StillReaches ==
  ASSUME UNCHANGED databaseVars, NEW t, NEW v, NEW n, NEW a, Reaches(t, v, n, a)
  PROVE  Reaches(t, v, n, a)'
BY DEF Reaches, Follows, databaseVars, Child, RecordOffset, LeftRecord, RightRecord, IsNode,
       Get24, Get32, At

LEMMA StillOfNodes ==
  ASSUME UNCHANGED databaseVars, NEW t, OfNodes(t)
  PROVE  OfNodes(t)'
BY DEF OfNodes, databaseVars, IsNode

-----------------------------------------------------------------------------
(* The invariant.                                                          *)

LEMMA TreeInitInv ==
  TreeInit => TreeInv
<1> SUFFICES ASSUME TreeInit PROVE TreeInv
  OBVIOUS
<1> USE DEF TreeInit, SizesChecked, WalkFromRoot
<1>1. DatabaseOK /\ pc \in {"start", "ready", "walk", "answered"}
  BY DEF DatabaseOK
<1>2. StartLoop
  <2>1. Reaches(<<0>>, 0, 0, Zeros)
    BY RootReaches
  <2>2. 0 \in 0 .. Prefix /\ 0 \in Nat
    BY TreeAssumption DEF Prefix
  <2> QED
    BY <2>1, <2>2 DEF StartLoop
<1>3. StartFound /\ WalkLoop /\ Answered
  BY DEF StartFound, WalkLoop, Answered
<1>4. OfNodes(<<0>>)
  BY RootReaches, ReadsNodes
<1> QED
  BY <1>1, <1>2, <1>3, <1>4 DEF TreeInv

LEMMA SameDatabase ==
  ASSUME DatabaseOK, UNCHANGED databaseVars
  PROVE  DatabaseOK' /\ Prefix' = Prefix /\ Depth' = Depth
BY DEF DatabaseOK, SizesChecked, databaseVars, Prefix, Depth

LEMMA SameStart ==
  ASSUME StartFound, pc # "start", UNCHANGED <<databaseVars, startVars>>
  PROVE  StartFound'
<1>1. CASE ipVersion = 6
  <2>1. Reaches(startTrail, startNode, startMask, Zeros)
    BY <1>1 DEF StartFound
  <2>2. Reaches(startTrail, startNode, startMask, Zeros)'
    BY <2>1, StillReaches DEF startVars, Zeros
  <2> QED
    BY <1>1, <2>2 DEF StartFound, startVars, Prefix
<1>2. CASE ipVersion # 6
  BY <1>2 DEF StartFound, databaseVars
<1> QED
  BY <1>1, <1>2

LEMMA FindStartNodeInv ==
  ASSUME TreeInv, FindStartNode
  PROVE  TreeInv'
<1> USE DEF FindStartNode
<1>1. DatabaseOK /\ DatabaseOK' /\ Prefix' = Prefix
  BY SameDatabase DEF TreeInv
<1>2. /\ ipVersion = 6 /\ bit \in 0 .. Prefix /\ value \in Nat
      /\ Reaches(trail, value, bit, Zeros)
  BY DEF TreeInv, StartLoop
<1>3. Prefix \in Nat /\ bit \in Nat /\ bit + 1 \in 0 .. Prefix
      /\ bit \in 0 .. V6Bits - 1
  BY <1>2, TreeAssumption DEF Prefix
<1>4. bit \in DOMAIN Zeros /\ Zeros[bit] = 0
  BY <1>3 DEF Zeros
<1>5. value' \in Nat /\ value' = Child(value, Zeros[bit])
  BY <1>1, <1>2, <1>4, ChildNat
<1>6. Reaches(Append(trail, value'), value', bit + 1, Zeros)
  BY <1>2, <1>3, <1>4, <1>5, OneMore
<1>7. Reaches(trail, value, bit, Zeros)'
  BY <1>6, StillReaches DEF Zeros
<1>8. StartLoop'
  BY <1>1, <1>2, <1>3, <1>5, <1>7 DEF StartLoop, databaseVars
<1>9. OfNodes(trail)' /\ OfNodes(startTrail)'
  BY <1>7, ReadsNodes, StillOfNodes, <1>6 DEF TreeInv, startVars
<1> QED
  BY <1>1, <1>8, <1>9 DEF TreeInv, StartFound, WalkLoop, Answered

LEMMA FoundStartNodeInv ==
  ASSUME TreeInv, FoundStartNode
  PROVE  TreeInv'
<1> USE DEF FoundStartNode
<1>1. DatabaseOK' /\ Prefix' = Prefix
  BY SameDatabase DEF TreeInv
<1>2. /\ ipVersion = 6 /\ bit \in 0 .. Prefix /\ value \in Nat
      /\ Reaches(trail, value, bit, Zeros)
  BY DEF TreeInv, StartLoop
<1>3. Reaches(startTrail, startNode, startMask, Zeros)'
  BY <1>2, StillReaches DEF Zeros
<1>4. StartFound'
  BY <1>1, <1>2, <1>3 DEF StartFound
<1>5. OfNodes(trail)' /\ OfNodes(startTrail)'
  BY StillOfNodes DEF TreeInv, walkVars
<1> QED
  BY <1>1, <1>4, <1>5 DEF TreeInv, StartLoop, WalkLoop, Answered

LEMMA RefuseLookupInv ==
  ASSUME TreeInv, RefuseLookup(6)
  PROVE  TreeInv'
<1> USE DEF RefuseLookup
<1>1. DatabaseOK' /\ StartFound'
  BY SameDatabase, SameStart DEF TreeInv
<1>2. OfNodes(trail)' /\ OfNodes(startTrail)'
  BY StillOfNodes DEF TreeInv, walkVars, startVars
<1> QED
  BY <1>1, <1>2 DEF TreeInv, StartLoop, WalkLoop, Answered, NoResult

LEMMA LookupInv ==
  ASSUME TreeInv, NEW f \in {4, 6},
         NEW a \in Bits(IF f = 4 THEN V4Bits ELSE V6Bits), Lookup(f, a)
  PROVE  TreeInv'
<1> USE DEF Lookup
<1>1. DatabaseOK' /\ StartFound' /\ Prefix' = Prefix /\ Depth' = Depth
  BY SameDatabase, SameStart DEF TreeInv
<1>2. /\ ipVersion \in {4, 6} /\ ~(ipVersion = 4 /\ f = 6)
      /\ V4Bits \in Nat /\ V6Bits \in Nat /\ V4Bits <= V6Bits
  BY TreeAssumption DEF TreeInv, DatabaseOK, SizesChecked
<1>5. OfNodes(trail)' /\ OfNodes(startTrail)'
  <2>1. OfNodes(<<0>>) /\ OfNodes(startTrail)
    BY RootReaches, ReadsNodes DEF TreeInv
  <2>2. OfNodes(<<0>>)' /\ OfNodes(startTrail)'
    BY <2>1, StillOfNodes DEF startVars
  <2>3. trail' = <<0>> \/ trail' = startTrail'
    BY DEF startVars
  <2> QED BY <2>2, <2>3
<1>3. CASE ipVersion = 6 /\ f = 4
  <2> DEFINE b == [i \in 0 .. V6Bits - 1 |-> IF i < Prefix THEN 0 ELSE a[i - Prefix]]
  <2>1. address' = b /\ value' = startNode /\ bit' = startMask /\ trail' = startTrail
    BY <1>3 DEF Mapped, SkippedBits
  <2>2. /\ startMask \in 0 .. Prefix /\ startNode \in Nat
        /\ Reaches(startTrail, startNode, startMask, Zeros)
    BY <1>3 DEF TreeInv, StartFound
  <2>3. Prefix = V6Bits - V4Bits /\ Prefix \in Nat /\ Prefix <= V6Bits /\ Depth = V6Bits
    BY <1>2, <1>3 DEF Prefix, Depth
  <2>4. b \in [0 .. V6Bits - 1 -> {0, 1}]
    <3> SUFFICES ASSUME NEW i \in 0 .. V6Bits - 1, ~(i < Prefix)
                 PROVE  a[i - Prefix] \in {0, 1}
      OBVIOUS
    <3>1. i - Prefix \in 0 .. V4Bits - 1
      BY <1>2, <2>3
    <3>2. a \in [0 .. V4Bits - 1 -> {0, 1}]
      BY <1>3 DEF Bits
    <3> QED
      BY <3>1, <3>2
  <2>5. startMask \in Nat /\ \A i \in 0 .. startMask - 1 :
          i \in 0 .. V6Bits - 1 /\ i < Prefix
    BY <1>2, <2>2, <2>3
  <2>6. \A i \in 0 .. startMask - 1 : i \in DOMAIN b /\ Zeros[i] = b[i]
    BY <2>5 DEF Zeros
  <2> HIDE DEF b
  <2>7. Reaches(startTrail, startNode, startMask, b)
    BY <2>2, <2>5, <2>6, SameBits
  <2>8. Reaches(trail, value, bit, address)'
    BY <2>1, <2>7, StillReaches
  <2>9. bit' \in 0 .. Depth' /\ value' \in Nat /\ address' \in [0 .. Depth' - 1 -> {0, 1}]
    BY <1>1, <1>2, <2>1, <2>2, <2>3, <2>4
  <2>10. WalkLoop'
    BY <2>8, <2>9 DEF WalkLoop
  <2> QED
    BY <1>1, <1>5, <2>10 DEF TreeInv, StartLoop, Answered
<1>4. CASE ~(ipVersion = 6 /\ f = 4)
  <2>1. address' = a /\ value' = 0 /\ bit' = 0 /\ trail' = <<0>>
    BY <1>4 DEF Mapped
  <2>2. Depth \in Nat /\ a \in [0 .. Depth - 1 -> {0, 1}]
    BY <1>2, <1>4 DEF Depth, Bits
  <2>3. Reaches(<<0>>, 0, 0, a)
    BY RootReaches
  <2>4. Reaches(trail, value, bit, address)'
    BY <2>1, <2>3, StillReaches
  <2>5. WalkLoop'
    BY <1>1, <2>1, <2>2, <2>4 DEF WalkLoop
  <2> QED
    BY <1>1, <1>5, <2>5 DEF TreeInv, StartLoop, Answered
<1> QED
  BY <1>3, <1>4

LEMMA WalkInv ==
  ASSUME TreeInv, Walk
  PROVE  TreeInv'
<1> USE DEF Walk
<1>1. DatabaseOK /\ DatabaseOK' /\ StartFound' /\ Depth' = Depth
  BY SameDatabase, SameStart DEF TreeInv
<1>2. /\ bit \in 0 .. Depth /\ value \in Nat
      /\ address \in [0 .. Depth - 1 -> {0, 1}]
      /\ Reaches(trail, value, bit, address)
  BY DEF TreeInv, WalkLoop
<1>3. Depth \in Nat
  BY <1>1, TreeAssumption DEF Depth
<1>4. bit \in Nat /\ bit + 1 \in 0 .. Depth /\ bit \in DOMAIN address
  BY <1>2, <1>3
<1>5. value' \in Nat
  BY <1>1, <1>2, ChildNat
<1>6. Reaches(Append(trail, value'), value', bit + 1, address)
  BY <1>2, <1>4, <1>5, OneMore
<1>7. address' = address
  BY DEF lookupVars
<1>8. Reaches(trail, value, bit, address)'
  BY <1>6, <1>7, StillReaches
<1>9. WalkLoop'
  BY <1>1, <1>2, <1>4, <1>5, <1>7, <1>8 DEF WalkLoop
<1>10. OfNodes(trail)' /\ OfNodes(startTrail)'
  BY <1>8, ReadsNodes, StillOfNodes, <1>6 DEF TreeInv, startVars
<1> QED
  BY <1>1, <1>9, <1>10 DEF TreeInv, StartLoop, Answered

LEMMA EndWalkInv ==
  ASSUME TreeInv, EndWalk
  PROVE  TreeInv'
<1> USE DEF EndWalk
<1>1. DatabaseOK' /\ StartFound' /\ Depth' = Depth
  BY SameDatabase, SameStart DEF TreeInv
<1>2. /\ bit \in 0 .. Depth /\ value \in Nat
      /\ Reaches(trail, value, bit, address)
  BY DEF TreeInv, WalkLoop
<1>3. UNCHANGED <<nodeCount, trail, value, bit, address>>
  BY DEF databaseVars, walkVars
<1>4. Reaches(trail, value, bit, address)'
  BY <1>2, <1>3, StillReaches
<1>5. Len(trail) = bit + 1 /\ trail[bit + 1] = value /\ trail[Len(trail)] = value
      /\ Depth \in Nat /\ bit \in Nat
  BY <1>2, TreeAssumption DEF Reaches, Depth
<1>6. /\ result'.netmask = bit
      /\ result'.found => result'.offset = DataOffset(value)
  BY DEF Outcome, NoResult
<1>7. ~IsNode(value) \/ bit = Depth
  BY <1>2, <1>5
<1>8. DataOffset(value)' = DataOffset(value) /\ (IsNode(value)' <=> IsNode(value))
  BY <1>3 DEF DataOffset, IsNode
<1>9. trail'[Len(trail')] = value /\ value' = value
  BY <1>3, <1>5
<1>10. Answered'
  <2>1. Reaches(trail, value, bit, address)'
    BY <1>4
  <2>2. result'.found => result'.offset = DataOffset(trail[Len(trail)])'
    BY <1>6, <1>8, <1>9 DEF DataOffset
  <2>3. ~IsNode(trail[Len(trail)])' \/ result'.netmask = Depth'
    BY <1>1, <1>6, <1>7, <1>8, <1>9 DEF IsNode
  <2>4. Reaches(trail, trail[Len(trail)], result.netmask, address)'
    BY <1>3, <1>6, <1>9, <2>1
  <2> QED
    BY <1>5, <1>6, <2>2, <2>3, <2>4 DEF Answered
<1>11. OfNodes(trail)' /\ OfNodes(startTrail)'
  BY StillOfNodes, <1>3 DEF TreeInv, startVars
<1> QED
  BY <1>1, <1>10, <1>11 DEF TreeInv, StartLoop, WalkLoop

LEMMA TreeStep ==
  ASSUME TreeInv, [TreeNext]_treeVars
  PROVE  TreeInv'
<1>1. CASE FindStartNode
  BY <1>1, FindStartNodeInv
<1>2. CASE FoundStartNode
  BY <1>2, FoundStartNodeInv
<1>3. CASE \E a \in Bits(V4Bits) : Lookup(4, a)
  BY <1>3, LookupInv
<1>4. CASE \E a \in Bits(V6Bits) : Lookup(6, a)
  BY <1>4, LookupInv
<1>5. CASE RefuseLookup(6)
  BY <1>5, RefuseLookupInv
<1>6. CASE Walk
  BY <1>6, WalkInv
<1>7. CASE EndWalk
  BY <1>7, EndWalkInv
<1>8. CASE UNCHANGED treeVars
  <2> USE <1>8 DEF treeVars, startVars, lookupVars, walkVars
  <2>1. DatabaseOK' /\ Prefix' = Prefix /\ Depth' = Depth
    BY SameDatabase DEF TreeInv
  <2>2. StartLoop'
    <3>1. CASE pc = "start"
      <4>1. Reaches(trail, value, bit, Zeros)
        BY <3>1 DEF TreeInv, StartLoop
      <4>2. Reaches(trail, value, bit, Zeros)'
        BY <4>1, StillReaches DEF Zeros
      <4> QED
        BY <2>1, <4>2 DEF TreeInv, StartLoop, databaseVars
    <3> QED
      BY <3>1 DEF StartLoop
  <2>3. StartFound'
    <3>1. CASE pc # "start"
      BY <3>1, SameStart DEF TreeInv
    <3> QED
      BY <3>1 DEF StartFound
  <2>4. WalkLoop'
    <3>1. CASE pc = "walk"
      <4>1. Reaches(trail, value, bit, address)
        BY <3>1 DEF TreeInv, WalkLoop
      <4>2. Reaches(trail, value, bit, address)'
        BY <4>1, StillReaches
      <4> QED
        BY <2>1, <4>2 DEF TreeInv, WalkLoop
    <3> QED
      BY <3>1 DEF WalkLoop
  <2>5. Answered'
    <3>1. CASE pc = "answered" /\ result.status # "ipv6_in_ipv4"
      <4> DEFINE last == trail[Len(trail)]
      <4>1. /\ Reaches(trail, last, result.netmask, address)
            /\ result.netmask \in Nat
            /\ result.found => result.offset = DataOffset(last)
            /\ ~IsNode(last) \/ result.netmask = Depth
        BY <3>1 DEF TreeInv, Answered
      <4>2. Reaches(trail, last, result.netmask, address)'
        BY <4>1, StillReaches
      <4> QED
        BY <2>1, <4>1, <4>2 DEF Answered, DataOffset, IsNode, databaseVars
    <3> QED
      BY <3>1 DEF Answered
  <2>6. OfNodes(trail)' /\ OfNodes(startTrail)'
    BY StillOfNodes DEF TreeInv
  <2> QED
    BY <2>1, <2>2, <2>3, <2>4, <2>5, <2>6 DEF TreeInv
<1> QED
  BY <1>1, <1>2, <1>3, <1>4, <1>5, <1>6, <1>7, <1>8 DEF TreeNext

-----------------------------------------------------------------------------
(* Where the records are.                                                  *)

\* A product that wraps is no larger.
LEMMA SmallRemainder ==
  ASSUME NEW a \in Nat, NEW b \in Nat, b > 0
  PROVE  a % b <= a /\ (a < b => a % b = a)
OBVIOUS

LEMMA NodeInTree ==
  ASSUME DatabaseOK, NEW node \in Nat, IsNode(node)
  PROVE  /\ RecordOffset(node) + recordLength <= nodeCount * recordLength
         /\ nodeCount * recordLength <= Word => RecordOffset(node) = node * recordLength
<1>1. /\ nodeCount \in Nat /\ node + 1 <= nodeCount
      /\ recordLength \in {6, 7, 8} /\ Word \in Nat /\ Word > 0
  BY WordAssumption DEF DatabaseOK, SizesChecked, IsNode
<1>2. PICK product \in Nat : product = node * recordLength
  BY <1>1
<1>3. product + recordLength <= nodeCount * recordLength /\ nodeCount * recordLength \in Nat
  <2>1. CASE recordLength = 6
    BY <1>1, <1>2, <2>1
  <2>2. CASE recordLength = 7
    BY <1>1, <1>2, <2>2
  <2>3. CASE recordLength = 8
    BY <1>1, <1>2, <2>3
  <2> QED
    BY <1>1, <2>1, <2>2, <2>3
<1>4. PICK size \in Nat : size = nodeCount * recordLength
  BY <1>3
<1>5. PICK offset \in Nat : offset = RecordOffset(node)
  BY OffsetNat
<1>6. offset <= product /\ (product < Word => offset = product)
  BY <1>1, <1>2, <1>5, SmallRemainder DEF RecordOffset
<1> QED
  <2>1. offset + recordLength <= size /\ (size <= Word => offset = product)
    BY <1>1, <1>3, <1>4, <1>6
  <2> QED BY <1>2, <1>4, <1>5, <2>1

LEMMA NodesRead ==
  ASSUME DatabaseOK, OfNodes(startTrail), OfNodes(trail)
  PROVE  ReadsInsideTree
<1> SUFFICES ASSUME NEW p \in {startTrail, trail}, NEW i \in 1 .. Len(p) - 1,
                    NEW size \in {nodeCount * recordLength, Len(content)}
             PROVE  RecordOffset(p[i]) + recordLength <= size
  BY DEF ReadsInsideTree
<1>1. p \in Seq(Nat) /\ IsNode(p[i])
  BY DEF OfNodes
<1>2. i \in 1 .. Len(p)
  BY <1>1
<1>3. p[i] \in Nat
  BY <1>1, <1>2
<1>4. RecordOffset(p[i]) + recordLength <= nodeCount * recordLength
  BY <1>1, <1>3, NodeInTree
<1>5. nodeCount * recordLength <= Len(content)
  <2>1. PICK tree \in Nat : tree = nodeCount * recordLength
    BY DEF DatabaseOK, SizesChecked
  <2>2. Len(content) = tree + Separator + dataSize /\ Separator \in Nat /\ dataSize \in Nat
    BY <2>1, TreeAssumption DEF DatabaseOK, SizesChecked
  <2> QED BY <2>1, <2>2
<1>6. PICK offset \in Nat : offset = RecordOffset(p[i])
  BY <1>3, OffsetNat
<1>7. PICK tree \in Nat : tree = nodeCount * recordLength
  BY DEF DatabaseOK, SizesChecked
<1>8. Len(content) \in Nat /\ recordLength \in Nat
  BY DEF DatabaseOK, SizesChecked
<1>9. offset + recordLength <= Len(content)
  BY <1>4, <1>5, <1>6, <1>7, <1>8
<1> QED BY <1>4, <1>6, <1>9

\* In a tree of at most 4 GiB.
LEMMA PlacesOfNodes ==
  ASSUME DatabaseOK, nodeCount * recordLength <= Word, NEW t \in Seq(Nat), NEW a, Follows(t, a)
  PROVE  LeadsTo(t, a)
<1>1. /\ Len(t) >= 1 /\ t[1] = 0
      /\ \A i \in 1 .. Len(t) - 1 :
           IsNode(t[i]) /\ i - 1 \in DOMAIN a /\ t[i + 1] = Child(t[i], a[i - 1])
  BY DEF Follows
<1>2. ASSUME NEW i \in 1 .. Len(t) - 1
      PROVE  IsNode(t[i]) /\ i - 1 \in DOMAIN a /\ t[i + 1] = RecordOf(t[i], a[i - 1])
  <2>1. t[i] \in Nat
    <3>1. i \in 1 .. Len(t)
      OBVIOUS
    <3> QED BY <3>1
  <2>2. RecordOffset(t[i]) = t[i] * recordLength
    BY <1>1, <2>1, NodeInTree
  <2>3. Child(t[i], a[i - 1]) = RecordOf(t[i], a[i - 1])
    BY <2>2, Zenon DEF Child, RecordOf
  <2> QED BY <1>1, <2>3
<1> QED BY <1>1, <1>2 DEF LeadsTo

LEMMA AnswersFollow ==
  ASSUME DatabaseOK, Answered
  PROVE  AnswerOfNetwork
<1> SUFFICES ASSUME pc = "answered", result.status # "ipv6_in_ipv4",
                    nodeCount * recordLength <= Word
             PROVE  /\ LeadsTo(trail, address)
                    /\ Len(trail) = result.netmask + 1
                    /\ result.found => result.offset = DataOffset(trail[Len(trail)])
                    /\ ~IsNode(trail[Len(trail)]) \/ result.netmask = Depth
  BY DEF AnswerOfNetwork
<1>1. /\ trail \in Seq(Nat) /\ Follows(trail, address) /\ Len(trail) = result.netmask + 1
      /\ result.found => result.offset = DataOffset(trail[Len(trail)])
      /\ ~IsNode(trail[Len(trail)]) \/ result.netmask = Depth
  BY DEF Answered, Reaches
<1>2. LeadsTo(trail, address)
  BY <1>1, PlacesOfNodes
<1> QED BY <1>1, <1>2

-----------------------------------------------------------------------------
(* The invariant of the two walks holds of every behaviour, over every     *)
(* file whose sizes MMDB_open has accepted: the loops of                   *)
(* find_ipv4_start_node and find_address_in_search_tree.                   *)
THEOREM TreeInductive ==
  TreeSpec => []TreeInv
<1>1. TreeInit => TreeInv
  BY TreeInitInv
<1>2. TreeInv /\ [TreeNext]_treeVars => TreeInv'
  BY TreeStep
<1> QED
  BY <1>1, <1>2, PTL DEF TreeSpec

(* Every record that a search reads lies inside the tree and inside the    *)
(* file, whatever the records of the tree point to and also where offsets  *)
(* wrap: the loops' `value < node_count' keeps every trail to nodes, and   *)
(* MMDB_open has checked that all nodes are in the file.                   *)
THEOREM NothingReadBeyond ==
  TreeSpec => []ReadsInsideTree
<1>1. TreeInv => ReadsInsideTree
  BY NodesRead DEF TreeInv
<1> QED
  BY <1>1, TreeInductive, PTL

(* The answer to every lookup belongs to a network the address is in,      *)
(* although the walk of an IPv4 address starts below the root.             *)
THEOREM AnswersBelong ==
  TreeSpec => []AnswerOfNetwork
<1>1. TreeInv => AnswerOfNetwork
  BY AnswersFollow DEF TreeInv
<1> QED
  BY <1>1, TreeInductive, PTL
=============================================================================
