---------------------------- MODULE DataSection ----------------------------
(***************************************************************************)
(* The values in the data section of a MaxMind database, and in its        *)
(* metadata (libmaxminddb/maxminddb.c): a control byte, a size and a       *)
(* payload each; maps and arrays are followed by their members, a pointer  *)
(* stands for a value elsewhere.  `mem' is the section: any bytes.         *)
(* Offsets are of type uint32_t.                                           *)
(***************************************************************************)
EXTENDS Bytes, SequencesExt

CONSTANT
  MaxDepth \* MAXIMUM_DATA_STRUCTURE_DEPTH, 512

ASSUME DepthAssumption == MaxDepth \in Nat \ {0, 1}

\* MMDB_DATA_TYPE_..., the ones the code tells apart.
Pointer == 1
String  == 2
Double  == 3
UInt16  == 5
UInt32  == 6
Map     == 7
Int32   == 8
UInt64  == 9
UInt128 == 10
Array   == 11
Boolean == 14
Float   == 15

(***************************************************************************)
(* MMDB_entry_data_s.  `data' are the bytes of the payload; `size' is of   *)
(* maps and arrays, of other types no caller uses it but for the length of *)
(* `data'.  `next' is offset_to_next.  History: `end', the end of what was *)
(* read of the section so far, the payload included.                       *)
(***************************************************************************)
Entry(status, end) ==
  [status |-> status, type |-> 0, size |-> 0, data |-> <<>>, offset |-> 0,
   pointer |-> 0, next |-> 0, end |-> end]

Entries ==
  [status : {"ok", "invalid_data", "mismatch"}, type : Nat, size : Nat, data : Seq(Byte),
   offset : Nat, pointer : Nat, next : Nat, end : Nat]

\* What a caller has read before, and this.
After(end, e) == IF e.end < end THEN [e EXCEPT !.end = end] ELSE e

-----------------------------------------------------------------------------
(* decode_one.                                                             *)

\* Faulty: nothing is subtracted for the byte that is read.
PastEnd(mem, o, n) == o > Len(mem)

\* n bytes at o are not in the section.  Bytes are subtracted from its size
\* rather than added to the offset, and that may wrap.
Past(mem, o, n) == o > (Len(mem) - n) % Word

\* get_ptr_from
PtrFrom(mem, ctrl, o, psize) ==
  CASE psize = 1 -> (ctrl % 8) * 256 + At(mem, o)
    [] psize = 2 -> 2048 + (ctrl % 8) * 65536 + Get16(mem, o)
    [] psize = 3 -> 2048 + 524288 + (ctrl % 8) * 16777216 + Get24(mem, o)
    [] OTHER -> Get32(mem, o)

DecodePointer(mem, o, ctrl, from) ==
  LET psize == ((ctrl \div 8) % 4) + 1
  IN  IF Past(mem, from, psize) \/ Len(mem) < psize
        THEN Entry("invalid_data", from)
        ELSE [Entry("ok", from + psize) EXCEPT
                !.type = Pointer, !.offset = o, !.next = from + psize,
                !.pointer = PtrFrom(mem, ctrl, from, psize)]

\* The sizes a payload may have.
Fits(type, size) ==
  CASE type = UInt16 -> size <= 2
    [] type \in {UInt32, Int32} -> size <= 4
    [] type = UInt64 -> size <= 8
    [] type = UInt128 -> size <= 16
    [] type = Float -> size = 4
    [] type = Double -> size = 8
    [] OTHER -> TRUE

\* The bytes after the control byte that hold the rest of the size.
SizeBytes(ctrl) == IF ctrl % 32 > 28 THEN (ctrl % 32) - 28 ELSE 0

Size(mem, ctrl, o) ==
  CASE ctrl % 32 = 29 -> 29 + At(mem, o)
    [] ctrl % 32 = 30 -> 285 + Get16(mem, o)
    [] ctrl % 32 = 31 -> 65821 + Get24(mem, o)
    [] OTHER -> ctrl % 32

\* The payload of `decoded', which has its size.
Payload(mem, decoded) ==
  IF decoded.type \in {Map, Array, Boolean}
    THEN decoded
  ELSE IF \/ Past(mem, decoded.next, decoded.size) \/ Len(mem) < decoded.size
          \/ ~Fits(decoded.type, decoded.size)
    THEN Entry("invalid_data", decoded.next)
  ELSE [decoded EXCEPT !.data = SubSeq(mem, decoded.next + 1, decoded.next + decoded.size),
                       !.next = @ + decoded.size, !.end = @ + decoded.size]

DecodeSized(mem, o, ctrl, type, at) ==
  IF SizeBytes(ctrl) > 0 /\ Past(mem, at, SizeBytes(ctrl))
    THEN Entry("invalid_data", at)
    ELSE Payload(mem, [Entry("ok", at + SizeBytes(ctrl)) EXCEPT
                         !.type = type, !.offset = o, !.size = Size(mem, ctrl, at),
                         !.next = at + SizeBytes(ctrl)])

\* With the control byte.
DecodeFrom(mem, o, ctrl) ==
  IF ctrl \div 32 = 0
    THEN IF Past(mem, o + 1, 1)
           THEN Entry("invalid_data", o + 1)
           ELSE DecodeSized(mem, o, ctrl, 7 + At(mem, o + 1), o + 2)
  ELSE IF ctrl \div 32 = Pointer
    THEN DecodePointer(mem, o, ctrl, o + 1)
    ELSE DecodeSized(mem, o, ctrl, ctrl \div 32, o + 1)

DecodeOne(mem, o) ==
  IF Past(mem, o, 1)
    THEN Entry("invalid_data", 0)
    ELSE DecodeFrom(mem, o, At(mem, o))

\* The value at e.next, when there is one.
DecodeNext(mem, e) ==
  IF e.status # "ok" THEN e ELSE After(e.end, DecodeOne(mem, e.next))

-----------------------------------------------------------------------------
\* Faulty: after a pointer the next value is the one behind its target.
TargetAndStay(e, target) ==
  IF target.type = Pointer THEN Entry("invalid_data", target.end) ELSE target

\* Of a map or array the next value is its first member, else it is the one
\* after the pointer `e'.
Target(e, target) ==
  IF target.type = Pointer
    THEN Entry("invalid_data", target.end)
  ELSE IF target.type \in {Map, Array} \/ target.status # "ok"
    THEN target
  ELSE [target EXCEPT !.next = e.next]

Followed(mem, e) ==
  IF e.status # "ok" \/ e.type # Pointer
    THEN e
    ELSE Target(e, After(e.end, DecodeOne(mem, e.pointer)))

\* decode_one_follow
Follow(mem, o) == Followed(mem, DecodeOne(mem, o))

\* The value at e.next, followed.
FollowNext(mem, e) == Followed(mem, DecodeNext(mem, e))

\* The loop over n more members from where e ends, by n and e.  The key of a
\* map is decoded; the value of a key, or of an array, is passed by with `skip'.
SkipMembers(mem, isMap, skip) ==
  LET rest[n \in Nat] ==
        [e \in Entries |->
           IF n = 0 \/ e.status # "ok"
             THEN e
             ELSE rest[n - 1][skip[DecodeNext(mem, IF isMap THEN DecodeNext(mem, e) ELSE e)]]]
  IN  rest

\* Faulty: a map or array in a map is passed by without its members.
SkipShallow(mem, e) == e

\* skip_map_or_array: the last value in e, itself or at any depth.  No pointer
\* is followed.  A member begins behind the control byte of what it is in, so
\* no more are in each other than the section has bytes.  The code sets the
\* recursion no limit; the stack of the thread is taken to be large enough.
Skip(mem, e) ==
  LET skip[depth \in Nat] ==
        [v \in Entries |->
           IF depth = 0 \/ v.type \notin {Map, Array}
             THEN v
             ELSE SkipMembers(mem, v.type = Map, skip[depth - 1])[v.size][v]]
  IN  skip[Len(mem) + 1][e]

\* What the loop of lookup_path_in_map does with a key, when it has `others'
\* for the keys after it.
LookupFromKey(mem, wanted, key, others) ==
  IF key.status # "ok" THEN key
  ELSE IF key.type # String THEN Entry("invalid_data", key.end)
  ELSE IF key.data = wanted THEN FollowNext(mem, key)
  ELSE others[Skip(mem, DecodeNext(mem, key))]

\* lookup_path_in_map: the value of the first of the n keys after `e' that
\* matches.
LookupInMap(mem, wanted, n, e) ==
  LET lookup[m \in Nat] ==
        [v \in Entries |->
           IF v.status # "ok" THEN v
           ELSE IF m = 0 THEN Entry("mismatch", v.end)
           ELSE LookupFromKey(mem, wanted, FollowNext(mem, v), lookup[m - 1])]
  IN  lookup[n][e]

\* One element of a path.  No key of the program is a number, so none is
\* found in an array (lookup_path_in_array).
Descend(mem, e, key) ==
  IF e.status # "ok" THEN e
  ELSE IF e.type = Map THEN LookupInMap(mem, key, e.size, e)
  ELSE Entry("mismatch", e.end)

\* MMDB_aget_value
AGet(mem, o, path) ==
  LET get[i \in 0 .. Len(path)] ==
        IF i = 0 THEN Follow(mem, o) ELSE Descend(mem, get[i - 1], path[i])
  IN  get[Len(path)]

\* MMDB_get_value and MMDB_vget_value gather the path first, in memory that
\* there may not be.
GetValue(mem, o, path) == {AGet(mem, o, path), Entry("out_of_memory", 0)}

-----------------------------------------------------------------------------
(* get_entry_data_list: a value with its members, in order, pointers       *)
(* followed.                                                               *)

NoList(e) == [status |-> e.status, members |-> <<>>, next |-> 0, end |-> e.end]

Single(e) == [status |-> "ok", members |-> <<e>>, next |-> e.next, end |-> e.end]

Lists == [status : {"ok", "invalid_data", "mismatch"}, members : Seq(Entries), next : Nat, end : Nat]

\* `list' and then what is in `more'.
Join(list, more) == After(list.end, [more EXCEPT !.members = list.members \o @])

\* n more values from where `list' ends; `value' has the list of a value, by
\* its offset.
DataListOf(value, n, list) ==
  LET rest[m \in Nat] ==
        [l \in Lists |->
           IF m = 0 \/ l.status # "ok" THEN l ELSE rest[m - 1][Join(l, value[l.next])]]
  IN  rest[n][list]

\* The target of the pointer `e'.
TargetList(e, target, value) ==
  IF target.status # "ok" \/ target.type = Pointer
    THEN NoList([target EXCEPT !.status = "invalid_data"])
  ELSE IF target.type \in {Map, Array}
    THEN After(target.end, [value[e.pointer] EXCEPT !.next = e.next])
  ELSE Single([target EXCEPT !.next = e.next])

MemberCount(e) ==
  CASE e.type = Array -> e.size [] e.type = Map -> 2 * e.size [] OTHER -> 0

ListFrom(mem, e, value) ==
  IF e.status # "ok" THEN NoList(e)
  ELSE IF e.type = Pointer
    THEN TargetList(e, After(e.end, DecodeOne(mem, e.pointer)), value)
  ELSE DataListOf(value, MemberCount(e), Single(e))

\* The list of the value at o.
DataList(mem, o) ==
  LET list[levels \in Nat] ==
        [at \in Nat |->
           IF levels = 0
             THEN NoList(Entry("invalid_data", 0))
             ELSE ListFrom(mem, DecodeOne(mem, at), list[levels - 1])]
  IN  list[MaxDepth][o]
=============================================================================
