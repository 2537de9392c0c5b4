--------------------------- MODULE DatabaseProofs ---------------------------
(***************************************************************************)
(* What holds of a database whatever bytes its file has: nothing is read   *)
(* beyond the tree or beyond the section a value is in; an answer belongs  *)
(* to a network of the address; opening releases what it took, no more.    *)
(***************************************************************************)
EXTENDS IPDB, SearchTreeProofs, Rounds

\* A section: its size is a uint32_t.
Section(mem) == mem \in Seq(Byte) /\ Len(mem) \in 0 .. Word - 1

\* The bound checks of decode_one assume that a section is large enough for
\* the bytes of a size.
Within(mem, end) == Len(mem) >= 3 => end <= Len(mem)

\* What was decoded without reading beyond the section.
Inside(mem) == {e \in Entries : Within(mem, e.end)}

-----------------------------------------------------------------------------
(* decode_one.                                                             *)

LEMMA NotPast ==
  ASSUME NEW mem, Section(mem), NEW o \in Nat, NEW n \in Nat, n <= Len(mem), ~Past(mem, o, n)
  PROVE  o + n <= Len(mem)
<1>1. Len(mem) \in Nat /\ Len(mem) - n \in 0 .. Word - 1 /\ Word \in Nat
  BY WordAssumption DEF Section
<1>2. (Len(mem) - n) % Word = Len(mem) - n
  BY <1>1
<1> QED BY <1>1, <1>2 DEF Past

LEMMA BytesNat ==
  ASSUME NEW mem, Section(mem), NEW o \in Nat
  PROVE  At(mem, o) \in Byte /\ Get16(mem, o) \in Nat /\ Get24(mem, o) \in Nat /\ Get32(mem, o) \in Nat
<1>1. mem \in Seq(0 .. 255) /\ o \in Int /\ o + 1 \in Int
  BY DEF Section, Byte
<1>2. At(mem, o) \in 0 .. 255 /\ At(mem, o + 1) \in 0 .. 255
  BY <1>1, ByteRange
<1>3. Get16(mem, o) \in Nat
  <2>1. \A a, b \in 0 .. 255 : a * 256 + b \in Nat
    OBVIOUS
  <2>2. At(mem, o) * 256 + At(mem, o + 1) \in Nat
    BY <1>2, <2>1, Zenon
  <2> QED BY <2>2 DEF Get16
<1> QED BY <1>1, <1>2, <1>3, Get24Nat, Get32Nat DEF Byte

LEMMA EntryInside ==
  ASSUME NEW mem, Section(mem), NEW end \in Nat, Within(mem, end),
         NEW status \in {"ok", "invalid_data", "mismatch"}
  PROVE  Entry(status, end) \in Inside(mem)
BY DEF Entry, Entries, Inside

LEMMA PointerNat ==
  ASSUME NEW mem, Section(mem), NEW ctrl \in Byte, NEW o \in Nat, NEW psize
  PROVE  PtrFrom(mem, ctrl, o, psize) \in Nat
<1>1. /\ At(mem, o) \in 0 .. 255 /\ Get16(mem, o) \in Nat
      /\ Get24(mem, o) \in Nat /\ Get32(mem, o) \in Nat
  BY BytesNat DEF Byte
<1>2. ctrl % 8 \in Nat
  BY DEF Byte
<1>3. \A a, b \in Nat : a * 256 + b \in Nat /\ 2048 + a * 65536 + b \in Nat
                        /\ 2048 + 524288 + a * 16777216 + b \in Nat
  OBVIOUS
<1>4. At(mem, o) \in Nat
  BY <1>1
<1> HIDE DEF PtrFrom
<1>5. CASE psize = 1
  BY <1>2, <1>3, <1>4, <1>5 DEF PtrFrom
<1>6. CASE psize = 2
  BY <1>1, <1>2, <1>3, <1>6 DEF PtrFrom
<1>7. CASE psize = 3
  BY <1>1, <1>2, <1>3, <1>7 DEF PtrFrom
<1>8. CASE psize \notin {1, 2, 3}
  BY <1>1, <1>8 DEF PtrFrom
<1> QED BY <1>5, <1>6, <1>7, <1>8

LEMMA PointerInside ==
  ASSUME NEW mem, Section(mem), NEW o \in Nat, NEW ctrl \in Byte, NEW from \in Nat,
         Within(mem, from)
  PROVE  DecodePointer(mem, o, ctrl, from) \in Inside(mem)
<1> DEFINE psize == ((ctrl \div 8) % 4) + 1
<1>1. psize \in 1 .. 4
  BY DEF Byte
<1> HIDE DEF psize
<1>2. CASE Past(mem, from, psize) \/ Len(mem) < psize
  <2>1. DecodePointer(mem, o, ctrl, from) = Entry("invalid_data", from)
    BY <1>2 DEF DecodePointer, psize
  <2> QED BY <2>1, EntryInside
<1>3. CASE ~(Past(mem, from, psize) \/ Len(mem) < psize)
  <2>1. Len(mem) \in Nat
    BY DEF Section
  <2>2. from + psize \in Nat /\ Within(mem, from + psize)
    BY <1>1, <1>3, <2>1, NotPast DEF Within
  <2>3. PtrFrom(mem, ctrl, from, psize) \in Nat
    BY PointerNat
  <2>4. DecodePointer(mem, o, ctrl, from) =
          [Entry("ok", from + psize) EXCEPT
             !.type = Pointer, !.offset = o, !.next = from + psize,
             !.pointer = PtrFrom(mem, ctrl, from, psize)]
    BY <1>3 DEF DecodePointer, psize
  <2>5. Entry("ok", from + psize) \in Inside(mem)
    BY <2>2, EntryInside
  <2>6. \A e \in Inside(mem), p \in Nat, n \in Nat :
          [e EXCEPT !.type = Pointer, !.offset = o, !.next = n, !.pointer = p] \in Inside(mem)
    BY DEF Inside, Within, Entries, Pointer
  <2>7. [Entry("ok", from + psize) EXCEPT
           !.type = Pointer, !.offset = o, !.next = from + psize,
           !.pointer = PtrFrom(mem, ctrl, from, psize)] \in Inside(mem)
    BY <2>2, <2>3, <2>5, <2>6, Zenon
  <2> QED BY <2>4, <2>7, Zenon
<1> QED BY <1>2, <1>3

LEMMA SizeNat ==
  ASSUME NEW mem, Section(mem), NEW ctrl \in Byte, NEW o \in Nat
  PROVE  SizeBytes(ctrl) \in 0 .. 3 /\ Size(mem, ctrl, o) \in Nat
<1>1. At(mem, o) \in 0 .. 255 /\ Get16(mem, o) \in Nat /\ Get24(mem, o) \in Nat
  BY BytesNat DEF Byte
<1>2. ctrl % 32 \in 0 .. 31
  BY DEF Byte
<1>3. SizeBytes(ctrl) \in 0 .. 3
  BY <1>2 DEF SizeBytes
<1>4. Size(mem, ctrl, o) \in Nat
  <2>1. CASE ctrl % 32 = 29
    BY <1>1, <2>1 DEF Size
  <2>2. CASE ctrl % 32 = 30
    BY <1>1, <2>2 DEF Size
  <2>3. CASE ctrl % 32 = 31
    BY <1>1, <2>3 DEF Size
  <2>4. CASE ctrl % 32 \notin {29, 30, 31}
    BY <1>2, <2>4 DEF Size
  <2> QED BY <2>1, <2>2, <2>3, <2>4
<1> QED BY <1>3, <1>4

LEMMA PayloadInside ==
  ASSUME NEW mem, Section(mem), NEW d \in Inside(mem), d.next = d.end
  PROVE  Payload(mem, d) \in Inside(mem)
<1>0. d \in Entries /\ d.next \in Nat /\ d.size \in Nat /\ Within(mem, d.end) /\ d.end \in Nat
  BY DEF Inside, Entries
<1>00. Len(mem) \in Nat /\ mem \in Seq(Byte)
  BY DEF Section
<1>1. CASE d.type \in {Map, Array, Boolean}
  BY <1>1 DEF Payload
<1> DEFINE bad == \/ Past(mem, d.next, d.size) \/ Len(mem) < d.size \/ ~Fits(d.type, d.size)
<1>2. CASE d.type \notin {Map, Array, Boolean} /\ bad
  <2>1. Payload(mem, d) = Entry("invalid_data", d.next)
    BY <1>2 DEF Payload
  <2> QED BY <1>0, <2>1, EntryInside
<1>3. CASE d.type \notin {Map, Array, Boolean} /\ ~bad
  <2>1. d.next + d.size \in Nat /\ d.next + d.size <= Len(mem)
    BY <1>0, <1>00, <1>3, NotPast
  <2>2. SubSeq(mem, d.next + 1, d.next + d.size) \in Seq(Byte)
    <3>1. \A i \in d.next + 1 .. d.next + d.size : i \in 1 .. Len(mem)
      BY <1>0, <1>00, <2>1
    <3> QED BY <1>0, <1>00, <2>1, <3>1
  <2>3. Payload(mem, d) =
          [d EXCEPT !.data = SubSeq(mem, d.next + 1, d.next + d.size),
                    !.next = @ + d.size, !.end = @ + d.size]
    BY <1>3 DEF Payload
  <2>4. \A data \in Seq(Byte), n, m \in Nat :
          m <= Len(mem) => [d EXCEPT !.data = data, !.next = n, !.end = m] \in Inside(mem)
    BY <1>0 DEF Inside, Within, Entries
  <2> HIDE DEF bad
  <2>5. Payload(mem, d) =
          [d EXCEPT !.data = SubSeq(mem, d.next + 1, d.next + d.size),
                    !.next = d.next + d.size, !.end = d.end + d.size]
    BY <2>3
  <2>6. d.end + d.size \in Nat /\ d.end + d.size <= Len(mem)
    BY <1>0, <2>1
  <2>7. [d EXCEPT !.data = SubSeq(mem, d.next + 1, d.next + d.size),
                  !.next = d.next + d.size, !.end = d.end + d.size] \in Inside(mem)
    BY <2>1, <2>2, <2>4, <2>6, Zenon
  <2> QED BY <2>5, <2>7, Zenon
<1> QED BY <1>1, <1>2, <1>3

LEMMA SizedInside ==
  ASSUME NEW mem, Section(mem), NEW o \in Nat, NEW ctrl \in Byte, NEW type \in Nat,
         NEW at \in Nat, Within(mem, at)
  PROVE  DecodeSized(mem, o, ctrl, type, at) \in Inside(mem)
<1>0. Len(mem) \in Nat
  BY DEF Section
<1>1. SizeBytes(ctrl) \in 0 .. 3 /\ Size(mem, ctrl, at) \in Nat
  BY SizeNat
<1>2. CASE SizeBytes(ctrl) > 0 /\ Past(mem, at, SizeBytes(ctrl))
  <2>1. DecodeSized(mem, o, ctrl, type, at) = Entry("invalid_data", at)
    BY <1>2 DEF DecodeSized
  <2> QED BY <2>1, EntryInside
<1>3. CASE ~(SizeBytes(ctrl) > 0 /\ Past(mem, at, SizeBytes(ctrl)))
  <2>1. at + SizeBytes(ctrl) \in Nat /\ Within(mem, at + SizeBytes(ctrl))
    <3>1. CASE SizeBytes(ctrl) = 0 \/ ~(Len(mem) >= 3)
      BY <1>1, <3>1 DEF Within
    <3>2. CASE SizeBytes(ctrl) # 0 /\ Len(mem) >= 3
      BY <1>0, <1>1, <1>3, <3>2, NotPast DEF Within
    <3> QED BY <3>1, <3>2
  <2> DEFINE d == [Entry("ok", at + SizeBytes(ctrl)) EXCEPT
                     !.type = type, !.offset = o, !.size = Size(mem, ctrl, at),
                     !.next = at + SizeBytes(ctrl)]
  <2>2. Entry("ok", at + SizeBytes(ctrl)) \in Inside(mem)
    BY <2>1, EntryInside
  <2>3. Entry("ok", at + SizeBytes(ctrl)).end = at + SizeBytes(ctrl)
    BY DEF Entry
  <2>4. d \in Inside(mem) /\ d.next = d.end
    BY <1>1, <2>1, <2>2, <2>3 DEF Inside, Entries
  <2>5. DecodeSized(mem, o, ctrl, type, at) = Payload(mem, d)
    BY <1>3 DEF DecodeSized
  <2> HIDE DEF d
  <2> QED BY <2>4, <2>5, PayloadInside
<1> QED BY <1>2, <1>3

LEMMA DecodeOneInside ==
  ASSUME NEW mem, Section(mem), NEW o \in Nat
  PROVE  DecodeOne(mem, o) \in Inside(mem)
<1>0. Len(mem) \in Nat /\ Within(mem, 0)
  BY DEF Section, Within
<1>1. CASE Past(mem, o, 1)
  <2>1. DecodeOne(mem, o) = Entry("invalid_data", 0)
    BY <1>1 DEF DecodeOne
  <2> QED BY <1>0, <2>1, EntryInside
<1>2. CASE ~Past(mem, o, 1)
  <2> DEFINE ctrl == At(mem, o)
  <2>1. o + 1 \in Nat /\ Within(mem, o + 1) /\ o + 2 \in Nat
    BY <1>0, <1>2, NotPast DEF Within
  <2>2. ctrl \in Byte /\ At(mem, o + 1) \in Byte
    BY <2>1, BytesNat
  <2>3. ctrl \div 32 \in Nat /\ 7 + At(mem, o + 1) \in Nat
    BY <2>2 DEF Byte
  <2>4. DecodeOne(mem, o) = DecodeFrom(mem, o, ctrl)
    BY <1>2 DEF DecodeOne
  <2> HIDE DEF ctrl
  <2>5. CASE ctrl \div 32 = 0 /\ Past(mem, o + 1, 1)
    <3>1. DecodeFrom(mem, o, ctrl) = Entry("invalid_data", o + 1)
      BY <2>5 DEF DecodeFrom
    <3> QED BY <2>1, <2>4, <3>1, EntryInside
  <2>6. CASE ctrl \div 32 = 0 /\ ~Past(mem, o + 1, 1)
    <3>1. Len(mem) >= 3 => (o + 1) + 1 <= Len(mem)
      BY <1>0, <2>1, <2>6, NotPast
    <3>2. Within(mem, o + 2)
      BY <3>1 DEF Within
    <3>3. DecodeFrom(mem, o, ctrl) = DecodeSized(mem, o, ctrl, 7 + At(mem, o + 1), o + 2)
      BY <2>6 DEF DecodeFrom
    <3> QED BY <2>1, <2>2, <2>3, <2>4, <3>2, <3>3, SizedInside
  <2>7. CASE ctrl \div 32 = Pointer
    <3>1. DecodeFrom(mem, o, ctrl) = DecodePointer(mem, o, ctrl, o + 1)
      BY <2>7 DEF DecodeFrom, Pointer
    <3> QED BY <2>1, <2>2, <2>4, <3>1, PointerInside
  <2>8. CASE ctrl \div 32 \notin {0, Pointer}
    <3>1. DecodeFrom(mem, o, ctrl) = DecodeSized(mem, o, ctrl, ctrl \div 32, o + 1)
      BY <2>8 DEF DecodeFrom
    <3> QED BY <2>1, <2>2, <2>3, <2>4, <3>1, SizedInside
  <2> QED BY <2>5, <2>6, <2>7, <2>8
<1> QED BY <1>1, <1>2

-----------------------------------------------------------------------------
(* Values after one another, and in one another.                           *)

LEMMA AfterInside ==
  ASSUME NEW mem, Section(mem), NEW end \in Nat, NEW e \in Inside(mem)
  PROVE  After(end, e) \in Entries /\ (Within(mem, end) => After(end, e) \in Inside(mem))
<1>1. e \in Entries
  BY DEF Inside
<1>2. [e EXCEPT !.end = end] \in Entries /\ [e EXCEPT !.end = end].end = end
  BY <1>1 DEF Entries
<1> QED BY <1>1, <1>2 DEF After, Inside

LEMMA NextInside ==
  ASSUME NEW mem, Section(mem), NEW e \in Entries
  PROVE  /\ DecodeNext(mem, e) \in Entries
         /\ e \in Inside(mem) => DecodeNext(mem, e) \in Inside(mem)
<1>1. e.next \in Nat /\ e.end \in Nat
  BY DEF Entries
<1>2. DecodeOne(mem, e.next) \in Inside(mem)
  BY <1>1, DecodeOneInside
<1> QED BY <1>1, <1>2, AfterInside DEF DecodeNext, Inside

LEMMA FollowedInside ==
  ASSUME NEW mem, Section(mem), NEW e \in Entries
  PROVE  /\ Followed(mem, e) \in Entries
         /\ e \in Inside(mem) => Followed(mem, e) \in Inside(mem)
<1> DEFINE t == After(e.end, DecodeOne(mem, e.pointer))
<1>1. e.pointer \in Nat /\ e.end \in Nat /\ e.next \in Nat
  BY DEF Entries
<1>2. t \in Entries /\ (e \in Inside(mem) => t \in Inside(mem))
  BY <1>1, DecodeOneInside, AfterInside DEF Inside
<1>3. Followed(mem, e) = IF e.status # "ok" \/ e.type # Pointer THEN e ELSE Target(e, t)
  BY DEF Followed
<1> HIDE DEF t
<1>4. Entry("invalid_data", t.end) \in Entries
      /\ (t \in Inside(mem) => Entry("invalid_data", t.end) \in Inside(mem))
  BY <1>2 DEF Entry, Entries, Inside
<1>5. [t EXCEPT !.next = e.next] \in Entries /\ [t EXCEPT !.next = e.next].end = t.end
  BY <1>1, <1>2 DEF Entries
<1>6. /\ Target(e, t) \in Entries
      /\ e \in Inside(mem) => Target(e, t) \in Inside(mem)
  BY <1>2, <1>4, <1>5 DEF Target, Inside
<1> QED BY <1>3, <1>6

LEMMA FollowInside ==
  ASSUME NEW mem, Section(mem), NEW o \in Nat
  PROVE  Follow(mem, o) \in Inside(mem)
BY DecodeOneInside, FollowedInside DEF Follow, Inside

LEMMA FollowNextInside ==
  ASSUME NEW mem, Section(mem), NEW e \in Entries
  PROVE  /\ FollowNext(mem, e) \in Entries
         /\ e \in Inside(mem) => FollowNext(mem, e) \in Inside(mem)
BY NextInside, FollowedInside DEF FollowNext

\* What stays inside the section when it begins there.
Staying(mem) ==
  {f \in [Entries -> Entries] : \A e \in Inside(mem) : f[e] \in Inside(mem)}

\* To compute something else first.
LEMMA StayingAfter ==
  ASSUME NEW mem, NEW f \in Staying(mem), NEW g \in Staying(mem)
  PROVE  /\ [e \in Entries |-> e] \in Staying(mem)
         /\ [e \in Entries |-> f[g[e]]] \in Staying(mem)
<1>1. f \in [Entries -> Entries] /\ g \in [Entries -> Entries] /\ Inside(mem) \subseteq Entries
  BY DEF Staying, Inside
<1>2. \A e \in Inside(mem) : g[e] \in Inside(mem) /\ f[g[e]] \in Inside(mem)
  BY DEF Staying
<1>3. [e \in Entries |-> f[g[e]]] \in [Entries -> Entries]
  BY <1>1
<1> QED BY <1>1, <1>2, <1>3 DEF Staying

\* The rounds of the loop over members: how many are left.
MemberRounds(mem, isMap, skip, rest) ==
  \A n \in Nat :
    /\ rest[n] \in Staying(mem)
    /\ \A e \in Entries :
         rest[n][e] =
           IF n = 0 \/ e.status # "ok" THEN e
           ELSE rest[n - 1][skip[DecodeNext(mem, IF isMap THEN DecodeNext(mem, e) ELSE e)]]

LEMMA MembersStay ==
  ASSUME NEW mem, Section(mem), NEW isMap \in BOOLEAN, NEW skip \in Staying(mem)
  PROVE  MemberRounds(mem, isMap, skip, SkipMembers(mem, isMap, skip))
<1> DEFINE nextOne(e) == DecodeNext(mem, IF isMap THEN DecodeNext(mem, e) ELSE e)
           first == [e \in Entries |-> e]
           next(f) == [e \in Entries |-> IF e.status # "ok" THEN e ELSE f[skip[nextOne(e)]]]
           round == [f \in Staying(mem) |-> next(f)]
           rest[n \in Nat] == [e \in Entries |->
             IF n = 0 \/ e.status # "ok" THEN e ELSE rest[n - 1][skip[nextOne(e)]]]
<1>1. \A e \in Entries : nextOne(e) \in Entries /\ (e \in Inside(mem) => nextOne(e) \in Inside(mem))
  BY NextInside
<1> HIDE DEF nextOne
<1>2. first \in Staying(mem)
  BY DEF Staying, Inside
<1>3. round \in Turns(Staying(mem))
  <2>1. ASSUME NEW f \in Staying(mem) PROVE next(f) \in Staying(mem)
    <3>1. /\ f \in [Entries -> Entries] /\ skip \in [Entries -> Entries]
          /\ \A e \in Inside(mem) : f[e] \in Inside(mem) /\ skip[e] \in Inside(mem)
      BY DEF Staying
    <3>2. next(f) \in [Entries -> Entries]
      BY <1>1, <3>1
    <3>3. \A e \in Inside(mem) : next(f)[e] \in Inside(mem)
      BY <1>1, <3>1 DEF Inside
    <3> HIDE DEF next
    <3> QED BY <3>2, <3>3 DEF Staying
  <2> HIDE DEF next
  <2> QED BY <2>1 DEF Turns
<1>4. PICK f \in [Nat -> Staying(mem)] : f[0] = first /\ \A n \in Nat \ {0} : f[n] = round[f[n - 1]]
  <2> HIDE DEF round, first
  <2> QED BY <1>2, <1>3, LoopExists
<1>5. f = [n \in Nat |-> [e \in Entries |->
            IF n = 0 \/ e.status # "ok" THEN e ELSE f[n - 1][skip[nextOne(e)]]]]
  <2>1. \A n \in Nat \ {0} : f[n] = next(f[n - 1])
    <3>1. \A n \in Nat \ {0} : f[n - 1] \in Staying(mem)
      OBVIOUS
    <3>2. \A g \in Staying(mem) : round[g] = next(g)
      OBVIOUS
    <3> HIDE DEF round, next
    <3> QED BY <1>4, <3>1, <3>2
  <2>2. ASSUME NEW n \in Nat
        PROVE  f[n] = [e \in Entries |-> IF n = 0 \/ e.status # "ok" THEN e ELSE f[n - 1][skip[nextOne(e)]]]
    BY <1>4, <2>1
  <2> QED BY <2>2
<1>6. rest = [n \in Nat |-> [e \in Entries |->
               IF n = 0 \/ e.status # "ok" THEN e ELSE rest[n - 1][skip[nextOne(e)]]]]
  BY <1>5, Zenon
<1>7. SkipMembers(mem, isMap, skip) = rest
  BY DEF SkipMembers, nextOne
<1> HIDE DEF rest
<1>8. ASSUME NEW n \in Nat
      PROVE rest[n] = [e \in Entries |->
               IF n = 0 \/ e.status # "ok" THEN e ELSE rest[n - 1][skip[nextOne(e)]]]
  BY <1>6
<1>9. rest[0] = first /\ \A n \in Nat \ {0} : rest[n - 1] \in Staying(mem) => rest[n] = round[rest[n - 1]]
  <2>1. rest[0] = first
    BY <1>8
  <2>2. ASSUME NEW n \in Nat \ {0} PROVE rest[n] = next(rest[n - 1])
    BY <1>8
  <2>3. \A g \in Staying(mem) : round[g] = next(g)
    OBVIOUS
  <2> HIDE DEF first, round, next
  <2> QED BY <2>1, <2>2, <2>3
<1> HIDE DEF round, first
<1>10. \A n \in Nat : rest[n] \in Staying(mem)
  BY <1>2, <1>3, <1>9, LoopTyped
<1>11. ASSUME NEW n \in Nat, NEW e \in Entries
       PROVE  rest[n][e] = IF n = 0 \/ e.status # "ok" THEN e ELSE rest[n - 1][skip[nextOne(e)]]
  <2>1. rest[n] = [v \in Entries |->
                     IF n = 0 \/ v.status # "ok" THEN v ELSE rest[n - 1][skip[nextOne(v)]]]
    BY <1>8, Zenon
  <2> QED BY <2>1
<1> QED BY <1>7, <1>10, <1>11 DEF nextOne, MemberRounds

\* The rounds of skip_map_or_array: how deep it may still go.
SkipRounds(mem, skip) ==
  /\ \A n \in Nat :
       /\ skip[n] \in Staying(mem)
       /\ \A v \in Entries :
            skip[n][v] = IF n = 0 \/ v.type \notin {Map, Array}
                           THEN v ELSE SkipMembers(mem, v.type = Map, skip[n - 1])[v.size][v]
  /\ \A e : Skip(mem, e) = skip[Len(mem) + 1][e]

LEMMA SkipSteps ==
  ASSUME NEW mem, Section(mem)
  PROVE  \E skip : SkipRounds(mem, skip)
<1> DEFINE first == [v \in Entries |-> v]
           next(f) == [v \in Entries |->
             IF v.type \notin {Map, Array} THEN v ELSE SkipMembers(mem, v.type = Map, f)[v.size][v]]
           round == [f \in Staying(mem) |-> next(f)]
           skip[depth \in Nat] == [v \in Entries |->
             IF depth = 0 \/ v.type \notin {Map, Array}
               THEN v ELSE SkipMembers(mem, v.type = Map, skip[depth - 1])[v.size][v]]
<1>1. first \in Staying(mem)
  BY DEF Staying, Inside
<1>2. round \in Turns(Staying(mem))
  <2>1. ASSUME NEW f \in Staying(mem) PROVE next(f) \in Staying(mem)
    <3>1. \A isMap \in BOOLEAN, n \in Nat : SkipMembers(mem, isMap, f)[n] \in Staying(mem)
      BY MembersStay DEF MemberRounds
    <3>2. \A v \in Entries : v.size \in Nat /\ (v.type = Map) \in BOOLEAN
      BY DEF Entries
    <3>3. \A v \in Entries : /\ SkipMembers(mem, v.type = Map, f)[v.size][v] \in Entries
                             /\ v \in Inside(mem) =>
                                  SkipMembers(mem, v.type = Map, f)[v.size][v] \in Inside(mem)
      BY <3>1, <3>2 DEF Staying
    <3>4. next(f) \in [Entries -> Entries]
      BY <3>3
    <3>5. \A v \in Inside(mem) : next(f)[v] \in Inside(mem)
      BY <3>3 DEF Inside
    <3> HIDE DEF next
    <3> QED BY <3>4, <3>5 DEF Staying
  <2> HIDE DEF next
  <2> QED BY <2>1 DEF Turns
<1>3. PICK f \in [Nat -> Staying(mem)] : f[0] = first /\ \A n \in Nat \ {0} : f[n] = round[f[n - 1]]
  <2> HIDE DEF round, first
  <2> QED BY <1>1, <1>2, LoopExists
<1>4. f = [depth \in Nat |-> [v \in Entries |->
            IF depth = 0 \/ v.type \notin {Map, Array}
              THEN v ELSE SkipMembers(mem, v.type = Map, f[depth - 1])[v.size][v]]]
  <2>1. \A n \in Nat \ {0} : f[n] = next(f[n - 1])
    <3>1. \A n \in Nat \ {0} : f[n - 1] \in Staying(mem)
      OBVIOUS
    <3>2. \A g \in Staying(mem) : round[g] = next(g)
      OBVIOUS
    <3> HIDE DEF round, next
    <3> QED BY <1>3, <3>1, <3>2
  <2>2. ASSUME NEW n \in Nat
        PROVE  f[n] = [v \in Entries |->
                 IF n = 0 \/ v.type \notin {Map, Array}
                   THEN v ELSE SkipMembers(mem, v.type = Map, f[n - 1])[v.size][v]]
    BY <1>3, <2>1
  <2> QED BY <2>2
<1>5. skip = [depth \in Nat |-> [v \in Entries |->
               IF depth = 0 \/ v.type \notin {Map, Array}
                 THEN v ELSE SkipMembers(mem, v.type = Map, skip[depth - 1])[v.size][v]]]
  BY <1>4, Zenon
<1>6. \A e : Skip(mem, e) = skip[Len(mem) + 1][e]
  BY DEF Skip
<1> HIDE DEF skip
<1>7. ASSUME NEW n \in Nat
      PROVE  skip[n] = [v \in Entries |->
               IF n = 0 \/ v.type \notin {Map, Array}
                 THEN v ELSE SkipMembers(mem, v.type = Map, skip[n - 1])[v.size][v]]
  BY <1>5
<1>8. skip[0] = first /\ \A n \in Nat \ {0} : skip[n - 1] \in Staying(mem) => skip[n] = round[skip[n - 1]]
  <2>1. skip[0] = first
    BY <1>7
  <2>2. ASSUME NEW n \in Nat \ {0} PROVE skip[n] = next(skip[n - 1])
    BY <1>7
  <2>3. \A g \in Staying(mem) : round[g] = next(g)
    OBVIOUS
  <2> HIDE DEF first, round, next
  <2> QED BY <2>1, <2>2, <2>3
<1> HIDE DEF round, first
<1>9. \A n \in Nat : skip[n] \in Staying(mem)
  BY <1>1, <1>2, <1>8, LoopTyped
<1>10. ASSUME NEW n \in Nat, NEW v \in Entries
       PROVE  skip[n][v] = IF n = 0 \/ v.type \notin {Map, Array}
                             THEN v ELSE SkipMembers(mem, v.type = Map, skip[n - 1])[v.size][v]
  <2>1. skip[n] = [u \in Entries |->
                     IF n = 0 \/ u.type \notin {Map, Array}
                       THEN u ELSE SkipMembers(mem, u.type = Map, skip[n - 1])[u.size][u]]
    BY <1>7, Zenon
  <2> QED BY <2>1
<1> QED BY <1>6, <1>9, <1>10 DEF SkipRounds

LEMMA SkipInside ==
  ASSUME NEW mem, Section(mem), NEW e \in Entries
  PROVE  /\ Skip(mem, e) \in Entries
         /\ e \in Inside(mem) => Skip(mem, e) \in Inside(mem)
<1>1. PICK skip : SkipRounds(mem, skip)
  BY SkipSteps
<1>2. Len(mem) + 1 \in Nat
  BY DEF Section
<1>3. Skip(mem, e) = skip[Len(mem) + 1][e] /\ skip[Len(mem) + 1] \in Staying(mem)
  BY <1>1, <1>2, Zenon DEF SkipRounds
<1> QED BY <1>3 DEF Staying

\* A key, when the keys after it stay inside.
LEMMA KeyInside ==
  ASSUME NEW mem, Section(mem), NEW wanted, NEW key \in Entries, NEW others \in Staying(mem)
  PROVE  /\ LookupFromKey(mem, wanted, key, others) \in Entries
         /\ key \in Inside(mem) => LookupFromKey(mem, wanted, key, others) \in Inside(mem)
<1>1. Entry("invalid_data", key.end) \in Entries
      /\ (key \in Inside(mem) => Entry("invalid_data", key.end) \in Inside(mem))
  BY DEF Entry, Entries, Inside
<1>2. FollowNext(mem, key) \in Entries
      /\ (key \in Inside(mem) => FollowNext(mem, key) \in Inside(mem))
  BY FollowNextInside
<1>3. LET v == Skip(mem, DecodeNext(mem, key))
      IN  v \in Entries /\ (key \in Inside(mem) => v \in Inside(mem))
  BY NextInside, SkipInside
<1>4. LET v == others[Skip(mem, DecodeNext(mem, key))]
      IN  v \in Entries /\ (key \in Inside(mem) => v \in Inside(mem))
  BY <1>3 DEF Staying
<1> QED BY <1>1, <1>2, <1>4 DEF LookupFromKey

\* The rounds of lookup_path_in_map: how many keys are left.
LookupRounds(mem, wanted, lookup) ==
  /\ \A m \in Nat :
       /\ lookup[m] \in Staying(mem)
       /\ \A v \in Entries :
            lookup[m][v] = IF v.status # "ok" THEN v
                           ELSE IF m = 0 THEN Entry("mismatch", v.end)
                           ELSE LookupFromKey(mem, wanted, FollowNext(mem, v), lookup[m - 1])
  /\ \A n, e : LookupInMap(mem, wanted, n, e) = lookup[n][e]

LEMMA InMapSteps ==
  ASSUME NEW mem, Section(mem), NEW wanted
  PROVE  \E lookup : LookupRounds(mem, wanted, lookup)
<1> DEFINE none(v) == IF v.status # "ok" THEN v ELSE Entry("mismatch", v.end)
           first == [v \in Entries |-> none(v)]
           next(f) == [v \in Entries |->
             IF v.status # "ok" THEN v ELSE LookupFromKey(mem, wanted, FollowNext(mem, v), f)]
           round == [f \in Staying(mem) |-> next(f)]
           lookup[m \in Nat] == [v \in Entries |->
             IF v.status # "ok" THEN v
             ELSE IF m = 0 THEN Entry("mismatch", v.end)
             ELSE LookupFromKey(mem, wanted, FollowNext(mem, v), lookup[m - 1])]
<1>1. first \in Staying(mem)
  <2>1. \A v \in Entries : none(v) \in Entries /\ (v \in Inside(mem) => none(v) \in Inside(mem))
    BY DEF Entry, Entries, Inside
  <2>2. first \in [Entries -> Entries]
    BY <2>1
  <2>3. \A v \in Inside(mem) : first[v] \in Inside(mem)
    BY <2>1 DEF Inside
  <2> HIDE DEF first
  <2> QED BY <2>2, <2>3 DEF Staying
<1>2. round \in Turns(Staying(mem))
  <2>1. ASSUME NEW f \in Staying(mem) PROVE next(f) \in Staying(mem)
    <3>1. \A v \in Entries :
            LET w == LookupFromKey(mem, wanted, FollowNext(mem, v), f)
            IN  w \in Entries /\ (v \in Inside(mem) => w \in Inside(mem))
      BY FollowNextInside, KeyInside
    <3>2. next(f) \in [Entries -> Entries]
      BY <3>1
    <3>3. \A v \in Inside(mem) : next(f)[v] \in Inside(mem)
      BY <3>1 DEF Inside
    <3> HIDE DEF next
    <3> QED BY <3>2, <3>3 DEF Staying
  <2> HIDE DEF next
  <2> QED BY <2>1 DEF Turns
<1>3. PICK f \in [Nat -> Staying(mem)] : f[0] = first /\ \A m \in Nat \ {0} : f[m] = round[f[m - 1]]
  <2> HIDE DEF round, first
  <2> QED BY <1>1, <1>2, LoopExists
<1>4. f = [m \in Nat |-> [v \in Entries |->
            IF v.status # "ok" THEN v
            ELSE IF m = 0 THEN Entry("mismatch", v.end)
            ELSE LookupFromKey(mem, wanted, FollowNext(mem, v), f[m - 1])]]
  <2>1. \A m \in Nat \ {0} : f[m] = next(f[m - 1])
    <3>1. \A m \in Nat \ {0} : f[m - 1] \in Staying(mem)
      OBVIOUS
    <3>2. \A g \in Staying(mem) : round[g] = next(g)
      OBVIOUS
    <3> HIDE DEF round, next
    <3> QED BY <1>3, <3>1, <3>2
  <2>2. ASSUME NEW m \in Nat
        PROVE  f[m] = [v \in Entries |->
                 IF v.status # "ok" THEN v
                 ELSE IF m = 0 THEN Entry("mismatch", v.end)
                 ELSE LookupFromKey(mem, wanted, FollowNext(mem, v), f[m - 1])]
    BY <1>3, <2>1
  <2> QED BY <2>2
<1>5. lookup = [m \in Nat |-> [v \in Entries |->
                 IF v.status # "ok" THEN v
                 ELSE IF m = 0 THEN Entry("mismatch", v.end)
                 ELSE LookupFromKey(mem, wanted, FollowNext(mem, v), lookup[m - 1])]]
  BY <1>4, Zenon
<1>6. \A n, e : LookupInMap(mem, wanted, n, e) = lookup[n][e]
  BY DEF LookupInMap
<1> HIDE DEF lookup
<1>7. ASSUME NEW m \in Nat
      PROVE  lookup[m] = [v \in Entries |->
               IF v.status # "ok" THEN v
               ELSE IF m = 0 THEN Entry("mismatch", v.end)
               ELSE LookupFromKey(mem, wanted, FollowNext(mem, v), lookup[m - 1])]
  BY <1>5
<1>8. /\ lookup[0] = first
      /\ \A m \in Nat \ {0} : lookup[m - 1] \in Staying(mem) => lookup[m] = round[lookup[m - 1]]
  BY <1>7
<1> HIDE DEF round, first
<1>9. \A m \in Nat : lookup[m] \in Staying(mem)
  BY <1>1, <1>2, <1>8, LoopTyped
<1>10. ASSUME NEW m \in Nat, NEW v \in Entries
       PROVE  lookup[m][v] = IF v.status # "ok" THEN v
                             ELSE IF m = 0 THEN Entry("mismatch", v.end)
                             ELSE LookupFromKey(mem, wanted, FollowNext(mem, v), lookup[m - 1])
  BY <1>7
<1> QED BY <1>6, <1>9, <1>10 DEF LookupRounds

LEMMA InMapInside ==
  ASSUME NEW mem, Section(mem), NEW wanted, NEW n \in Nat, NEW e \in Inside(mem)
  PROVE  LookupInMap(mem, wanted, n, e) \in Inside(mem)
<1>1. PICK lookup : LookupRounds(mem, wanted, lookup)
  BY InMapSteps
<1>2. LookupInMap(mem, wanted, n, e) = lookup[n][e] /\ lookup[n] \in Staying(mem)
  BY <1>1 DEF LookupRounds
<1> QED BY <1>2 DEF Staying

LEMMA DescendInside ==
  ASSUME NEW mem, Section(mem), NEW e \in Inside(mem), NEW key
  PROVE  Descend(mem, e, key) \in Inside(mem)
<1>1. e.size \in Nat
  BY DEF Inside, Entries
<1>2. LookupInMap(mem, key, e.size, e) \in Inside(mem)
  BY <1>1, InMapInside
<1>3. Entry("mismatch", e.end) \in Inside(mem)
  BY DEF Entry, Entries, Inside
<1> QED BY <1>2, <1>3 DEF Descend

\* The rounds of MMDB_aget_value: how much of the path it has followed.
GetRounds(mem, o, path, get) ==
  /\ \A i \in 0 .. Len(path) :
       /\ get[i] \in Inside(mem)
       /\ get[i] = IF i = 0 THEN Follow(mem, o) ELSE Descend(mem, get[i - 1], path[i])
  /\ AGet(mem, o, path) = get[Len(path)]

\* A value by its path stays inside the section, whatever is on the way.
LEMMA AGetSteps ==
  ASSUME NEW mem, Section(mem), NEW o \in Nat, NEW path, Len(path) \in Nat
  PROVE  \E get : GetRounds(mem, o, path, get)
<1> DEFINE first == Follow(mem, o)
           body == [i \in Nat |-> [e \in Inside(mem) |-> Descend(mem, e, path[i])]]
           get[i \in 0 .. Len(path)] ==
             IF i = 0 THEN Follow(mem, o) ELSE Descend(mem, get[i - 1], path[i])
<1>1. first \in Inside(mem)
  BY FollowInside
<1>2. body \in Bodies(Inside(mem))
  BY DescendInside DEF Bodies
<1>3. PICK f : f \in RoundsOf(Inside(mem), first, body, Len(path))
  <2> HIDE DEF first, body
  <2> QED BY <1>1, <1>2, Rounds
<1>4. /\ f \in [0 .. Len(path) -> Inside(mem)] /\ f[0] = first
      /\ \A i \in 1 .. Len(path) : f[i] = body[i][f[i - 1]]
  BY <1>3 DEF RoundsOf
<1>5. f = [i \in 0 .. Len(path) |->
             IF i = 0 THEN Follow(mem, o) ELSE Descend(mem, f[i - 1], path[i])]
  <2>1. \A i \in 1 .. Len(path) : i \in Nat /\ i - 1 \in 0 .. Len(path) /\ f[i - 1] \in Inside(mem)
    BY <1>4
  <2>2. \A i \in 1 .. Len(path) : f[i] = Descend(mem, f[i - 1], path[i])
    BY <1>4, <2>1
  <2> HIDE DEF body
  <2>3. ASSUME NEW i \in 0 .. Len(path)
        PROVE  f[i] = IF i = 0 THEN Follow(mem, o) ELSE Descend(mem, f[i - 1], path[i])
    BY <1>4, <2>2
  <2> QED BY <1>4, <2>3
<1>6. get = [i \in 0 .. Len(path) |->
               IF i = 0 THEN Follow(mem, o) ELSE Descend(mem, get[i - 1], path[i])]
  BY <1>5, Zenon
<1>7. AGet(mem, o, path) = get[Len(path)]
  BY DEF AGet
<1> HIDE DEF get, first, body
<1>8. \A i \in 0 .. Len(path) :
        get[i] = IF i = 0 THEN Follow(mem, o) ELSE Descend(mem, get[i - 1], path[i])
  BY <1>6
<1> DEFINE T == {i \in Nat : i <= Len(path) => get[i] \in Inside(mem)}
<1>9. 0 \in T
  BY <1>1, <1>8 DEF first
<1>10. ASSUME NEW i \in Nat, i \in T PROVE i + 1 \in T
  <2>1. SUFFICES ASSUME i + 1 <= Len(path) PROVE get[i + 1] \in Inside(mem)
    OBVIOUS
  <2>2. i <= Len(path) /\ i + 1 \in 0 .. Len(path) /\ i + 1 # 0 /\ (i + 1) - 1 = i
    BY <2>1
  <2>3. get[i + 1] = Descend(mem, get[i], path[i + 1])
    BY <1>8, <2>2
  <2>4. get[i] \in Inside(mem)
    BY <1>10, <2>2
  <2> QED BY <2>3, <2>4, DescendInside
<1>11. Nat \subseteq T
  <2> HIDE DEF T
  <2> QED BY <1>9, <1>10, SetInduction
<1> QED BY <1>7, <1>8, <1>11 DEF GetRounds

LEMMA AGetInside ==
  ASSUME NEW mem, Section(mem), NEW o \in Nat, NEW path, Len(path) \in Nat
  PROVE  AGet(mem, o, path) \in Inside(mem)
<1>1. PICK get : GetRounds(mem, o, path, get)
  BY AGetSteps
<1> QED BY <1>1 DEF GetRounds

-----------------------------------------------------------------------------
(* get_entry_data_list.                                                    *)

ListsInside(mem) == {l \in Lists : Within(mem, l.end)}

\* The lists of values, by their offsets.
Values(mem) == [Nat -> ListsInside(mem)]

ListsStaying(mem) ==
  {f \in [Lists -> Lists] : \A l \in ListsInside(mem) : f[l] \in ListsInside(mem)}

LEMMA JoinInside ==
  ASSUME NEW mem, NEW l \in Lists, NEW more \in ListsInside(mem)
  PROVE  /\ Join(l, more) \in Lists
         /\ l \in ListsInside(mem) => Join(l, more) \in ListsInside(mem)
<1> DEFINE j == [more EXCEPT !.members = l.members \o @]
<1>1. l.members \in Seq(Entries) /\ more.members \in Seq(Entries) /\ more \in Lists
      /\ l.end \in Nat /\ Within(mem, more.end)
  BY DEF ListsInside, Lists
<1>2. l.members \o more.members \in Seq(Entries)
  BY <1>1, ConcatProperties
<1>3. j \in Lists /\ j.end = more.end
  BY <1>1, <1>2 DEF Lists
<1> HIDE DEF j
<1>4. [j EXCEPT !.end = l.end] \in Lists /\ [j EXCEPT !.end = l.end].end = l.end
  BY <1>1, <1>3 DEF Lists
<1>5. Join(l, more) = IF j.end < l.end THEN [j EXCEPT !.end = l.end] ELSE j
  BY DEF Join, After, j
<1> QED BY <1>1, <1>3, <1>4, <1>5 DEF ListsInside

\* The rounds of a list: how many values are to follow.
ListRounds(mem, lists, rest) ==
  /\ \A m \in Nat :
       /\ rest[m] \in ListsStaying(mem)
       /\ \A l \in Lists :
            rest[m][l] = IF m = 0 \/ l.status # "ok" THEN l ELSE rest[m - 1][Join(l, lists[l.next])]
  /\ \A n, l : DataListOf(lists, n, l) = rest[n][l]

LEMMA ListOfSteps ==
  ASSUME NEW mem, NEW lists \in Values(mem)
  PROVE  \E rest : ListRounds(mem, lists, rest)
<1> DEFINE first == [l \in Lists |-> l]
           next(f) == [l \in Lists |->
             IF l.status # "ok" THEN l ELSE f[Join(l, lists[l.next])]]
           round == [f \in ListsStaying(mem) |-> next(f)]
           rest[m \in Nat] == [l \in Lists |->
             IF m = 0 \/ l.status # "ok" THEN l ELSE rest[m - 1][Join(l, lists[l.next])]]
<1>1. first \in ListsStaying(mem)
  BY DEF ListsStaying, ListsInside
<1>2. round \in Turns(ListsStaying(mem))
  <2>1. ASSUME NEW f \in ListsStaying(mem) PROVE next(f) \in ListsStaying(mem)
    <3>1. \A l \in Lists : lists[l.next] \in ListsInside(mem)
      BY DEF Values, Lists
    <3>2. \A l \in Lists : /\ Join(l, lists[l.next]) \in Lists
                           /\ l \in ListsInside(mem) => Join(l, lists[l.next]) \in ListsInside(mem)
      BY <3>1, JoinInside
    <3>3. \A l \in Lists : /\ f[Join(l, lists[l.next])] \in Lists
                           /\ l \in ListsInside(mem) => f[Join(l, lists[l.next])] \in ListsInside(mem)
      BY <3>2 DEF ListsStaying
    <3>4. next(f) \in [Lists -> Lists]
      BY <3>3
    <3>5. \A l \in ListsInside(mem) : next(f)[l] \in ListsInside(mem)
      BY <3>3 DEF ListsInside
    <3> HIDE DEF next
    <3> QED BY <3>4, <3>5 DEF ListsStaying
  <2> HIDE DEF next
  <2> QED BY <2>1 DEF Turns
<1>3. PICK f \in [Nat -> ListsStaying(mem)] :
        f[0] = first /\ \A m \in Nat \ {0} : f[m] = round[f[m - 1]]
  <2> HIDE DEF round, first
  <2> QED BY <1>1, <1>2, LoopExists
<1>4. f = [m \in Nat |-> [l \in Lists |->
            IF m = 0 \/ l.status # "ok" THEN l ELSE f[m - 1][Join(l, lists[l.next])]]]
  <2>1. \A m \in Nat \ {0} : f[m] = next(f[m - 1])
    <3>1. \A m \in Nat \ {0} : f[m - 1] \in ListsStaying(mem)
      OBVIOUS
    <3>2. \A g \in ListsStaying(mem) : round[g] = next(g)
      OBVIOUS
    <3> HIDE DEF round, next
    <3> QED BY <1>3, <3>1, <3>2
  <2>2. ASSUME NEW m \in Nat
        PROVE  f[m] = [l \in Lists |->
                 IF m = 0 \/ l.status # "ok" THEN l ELSE f[m - 1][Join(l, lists[l.next])]]
    BY <1>3, <2>1
  <2> QED BY <2>2
<1>5. rest = [m \in Nat |-> [l \in Lists |->
               IF m = 0 \/ l.status # "ok" THEN l ELSE rest[m - 1][Join(l, lists[l.next])]]]
  BY <1>4, Zenon
<1>6. \A n, l : DataListOf(lists, n, l) = rest[n][l]
  BY DEF DataListOf
<1> HIDE DEF rest
<1>7. ASSUME NEW m \in Nat
      PROVE  rest[m] = [l \in Lists |->
               IF m = 0 \/ l.status # "ok" THEN l ELSE rest[m - 1][Join(l, lists[l.next])]]
  BY <1>5
<1>8. /\ rest[0] = first
      /\ \A m \in Nat \ {0} : rest[m - 1] \in ListsStaying(mem) => rest[m] = round[rest[m - 1]]
  BY <1>7
<1> HIDE DEF round, first
<1>9. \A m \in Nat : rest[m] \in ListsStaying(mem)
  BY <1>1, <1>2, <1>8, LoopTyped
<1>10. ASSUME NEW m \in Nat, NEW l \in Lists
       PROVE  rest[m][l] =
                IF m = 0 \/ l.status # "ok" THEN l ELSE rest[m - 1][Join(l, lists[l.next])]
  <2>1. rest[m] = [u \in Lists |->
               IF m = 0 \/ u.status # "ok" THEN u ELSE rest[m - 1][Join(u, lists[u.next])]]
    BY <1>7, Zenon
  <2> QED BY <2>1, Zenon
<1>11. ListRounds(mem, lists, rest)
  BY <1>6, <1>9, <1>10, Zenon DEF ListRounds
<1> QED BY <1>11, Zenon

LEMMA ListOfInside ==
  ASSUME NEW mem, NEW lists \in Values(mem), NEW n \in Nat, NEW list \in ListsInside(mem)
  PROVE  DataListOf(lists, n, list) \in ListsInside(mem)
<1>1. PICK rest : ListRounds(mem, lists, rest)
  BY ListOfSteps
<1>2. DataListOf(lists, n, list) = rest[n][list] /\ rest[n] \in ListsStaying(mem)
  BY <1>1, Zenon DEF ListRounds
<1> QED BY <1>2 DEF ListsStaying


LEMMA SingleInside ==
  ASSUME NEW mem, NEW e \in Inside(mem)
  PROVE  Single(e) \in ListsInside(mem) /\ NoList(e) \in ListsInside(mem)
<1>1. /\ e \in Entries /\ e.next \in Nat /\ e.end \in Nat /\ Within(mem, e.end)
      /\ e.status \in {"ok", "invalid_data", "mismatch"}
  BY DEF Inside, Entries
<1>2. <<e>> \in Seq(Entries) /\ <<>> \in Seq(Entries)
  BY <1>1
<1> QED BY <1>1, <1>2 DEF Single, NoList, ListsInside, Lists

LEMMA TargetListInside ==
  ASSUME NEW mem, Section(mem), NEW lists \in Values(mem),
         NEW e \in Inside(mem), NEW target \in Inside(mem)
  PROVE  TargetList(e, target, lists) \in ListsInside(mem)
<1>1. /\ e.next \in Nat /\ e.pointer \in Nat /\ target \in Entries
      /\ target.end \in Nat /\ Within(mem, target.end)
  BY DEF Inside, Entries
<1>2. [target EXCEPT !.status = "invalid_data"] \in Inside(mem)
      /\ [target EXCEPT !.next = e.next] \in Inside(mem)
  BY <1>1 DEF Inside, Entries
<1>3. lists[e.pointer] \in ListsInside(mem)
  BY <1>1 DEF Values
<1> DEFINE l == [lists[e.pointer] EXCEPT !.next = e.next]
<1>4. l \in ListsInside(mem)
  BY <1>1, <1>3 DEF ListsInside, Lists
<1> HIDE DEF l
<1>5. After(target.end, l) \in ListsInside(mem)
  <2>1. [l EXCEPT !.end = target.end] \in ListsInside(mem)
    BY <1>1, <1>4 DEF ListsInside, Lists
  <2> QED BY <1>4, <2>1 DEF After
<1> QED BY <1>2, <1>5, SingleInside DEF TargetList, l

LEMMA ListFromInside ==
  ASSUME NEW mem, Section(mem), NEW lists \in Values(mem), NEW e \in Inside(mem)
  PROVE  ListFrom(mem, e, lists) \in ListsInside(mem)
<1>1. e.end \in Nat /\ Within(mem, e.end) /\ e.pointer \in Nat /\ e.size \in Nat
  BY DEF Inside, Entries
<1>2. After(e.end, DecodeOne(mem, e.pointer)) \in Inside(mem)
  BY <1>1, DecodeOneInside, AfterInside
<1>3. MemberCount(e) \in Nat
  BY <1>1 DEF MemberCount
<1>4. DataListOf(lists, MemberCount(e), Single(e)) \in ListsInside(mem)
  BY <1>3, SingleInside, ListOfInside
<1> QED BY <1>2, <1>4, SingleInside, TargetListInside DEF ListFrom

\* The rounds of get_entry_data_list: how deep it may still go.
DataListRounds(mem, list) ==
  /\ \A n \in Nat :
       /\ list[n] \in Values(mem)
       /\ \A at \in Nat :
            list[n][at] = IF n = 0 THEN NoList(Entry("invalid_data", 0))
                                   ELSE ListFrom(mem, DecodeOne(mem, at), list[n - 1])
  /\ \A o : DataList(mem, o) = list[MaxDepth][o]

LEMMA DataListSteps ==
  ASSUME NEW mem, Section(mem)
  PROVE  \E list : DataListRounds(mem, list)
<1> DEFINE tooDeep == NoList(Entry("invalid_data", 0))
           first == [at \in Nat |-> tooDeep]
           next(f) == [at \in Nat |-> ListFrom(mem, DecodeOne(mem, at), f)]
           round == [f \in Values(mem) |-> next(f)]
           list[levels \in Nat] == [at \in Nat |->
             IF levels = 0
               THEN NoList(Entry("invalid_data", 0))
               ELSE ListFrom(mem, DecodeOne(mem, at), list[levels - 1])]
<1>1. first \in Values(mem)
  <2>1. Entry("invalid_data", 0) \in Inside(mem)
    BY EntryInside DEF Section, Within
  <2> QED BY <2>1, SingleInside DEF Values
<1>2. round \in Turns(Values(mem))
  <2>1. ASSUME NEW f \in Values(mem) PROVE next(f) \in Values(mem)
    BY DecodeOneInside, ListFromInside DEF Values
  <2> HIDE DEF next
  <2> QED BY <2>1 DEF Turns
<1>3. PICK f \in [Nat -> Values(mem)] :
        f[0] = first /\ \A m \in Nat \ {0} : f[m] = round[f[m - 1]]
  <2> HIDE DEF round, first
  <2> QED BY <1>1, <1>2, LoopExists
<1>4. f = [levels \in Nat |-> [at \in Nat |->
             IF levels = 0
               THEN NoList(Entry("invalid_data", 0))
               ELSE ListFrom(mem, DecodeOne(mem, at), f[levels - 1])]]
  <2>1. \A m \in Nat \ {0} : f[m] = next(f[m - 1])
    <3>1. \A m \in Nat \ {0} : f[m - 1] \in Values(mem)
      OBVIOUS
    <3>2. \A g \in Values(mem) : round[g] = next(g)
      OBVIOUS
    <3> HIDE DEF round, next
    <3> QED BY <1>3, <3>1, <3>2
  <2>2. ASSUME NEW m \in Nat
        PROVE  f[m] = [at \in Nat |->
                 IF m = 0 THEN NoList(Entry("invalid_data", 0))
                          ELSE ListFrom(mem, DecodeOne(mem, at), f[m - 1])]
    BY <1>3, <2>1
  <2> QED BY <2>2
<1>5. list = [levels \in Nat |-> [at \in Nat |->
               IF levels = 0
                 THEN NoList(Entry("invalid_data", 0))
                 ELSE ListFrom(mem, DecodeOne(mem, at), list[levels - 1])]]
  BY <1>4, Zenon
<1>6. \A o : DataList(mem, o) = list[MaxDepth][o]
  BY DEF DataList
<1> HIDE DEF list
<1>7. ASSUME NEW m \in Nat
      PROVE  list[m] = [at \in Nat |->
               IF m = 0 THEN NoList(Entry("invalid_data", 0))
                        ELSE ListFrom(mem, DecodeOne(mem, at), list[m - 1])]
  BY <1>5
<1>8. /\ list[0] = first
      /\ \A m \in Nat \ {0} : list[m - 1] \in Values(mem) => list[m] = round[list[m - 1]]
  BY <1>7
<1> HIDE DEF round, first
<1>9. \A m \in Nat : list[m] \in Values(mem)
  BY <1>1, <1>2, <1>8, LoopTyped
<1>10. ASSUME NEW n \in Nat, NEW at \in Nat
       PROVE  list[n][at] = IF n = 0 THEN NoList(Entry("invalid_data", 0))
                                     ELSE ListFrom(mem, DecodeOne(mem, at), list[n - 1])
  <2>1. list[n] = [u \in Nat |->
               IF n = 0 THEN NoList(Entry("invalid_data", 0))
                        ELSE ListFrom(mem, DecodeOne(mem, u), list[n - 1])]
    BY <1>7, Zenon
  <2> QED BY <2>1
<1> QED BY <1>6, <1>9, <1>10 DEF DataListRounds

\* Whatever the bytes say, the members of a value stay inside the section.
LEMMA DataListInside ==
  ASSUME NEW mem, Section(mem), NEW o \in Nat
  PROVE  DataList(mem, o) \in ListsInside(mem)
<1>1. PICK list : DataListRounds(mem, list)
  BY DataListSteps
<1>2. DataList(mem, o) = list[MaxDepth][o] /\ list[MaxDepth] \in Values(mem)
  BY <1>1, DepthAssumption, Zenon DEF DataListRounds
<1> QED BY <1>2 DEF Values


-----------------------------------------------------------------------------
(* What MMDB_open reads of the metadata.                                   *)

LEMMA NumberNat ==
  ASSUME NEW e \in Entries
  PROVE  Number(e) \in Nat
<1> DEFINE n == Len(e.data)
           body == [i \in Nat |-> [k \in Nat |-> IF i \in 1 .. n THEN k * 256 + e.data[i] ELSE 0]]
           number[i \in 0 .. Len(e.data)] ==
             IF i = 0 THEN 0 ELSE number[i - 1] * 256 + e.data[i]
<1>1. e.data \in Seq(Byte) /\ n \in Nat
  BY DEF Entries
<1>2. \A i \in 1 .. n : e.data[i] \in Nat
  <2>1. \A s \in Seq(Byte) : \A i \in 1 .. Len(s) : s[i] \in Byte
    OBVIOUS
  <2>2. \A i \in 1 .. Len(e.data) : e.data[i] \in Byte
    BY <1>1, <2>1, Zenon
  <2>3. Byte \subseteq Nat
    BY DEF Byte
  <2> QED BY <2>2, <2>3, Zenon
<1>3. \A i \in 1 .. n, k \in Nat : k * 256 + e.data[i] \in Nat
  BY <1>2
<1>4. body \in Bodies(Nat)
  BY <1>3 DEF Bodies
<1>5. PICK f : f \in RoundsOf(Nat, 0, body, n)
  <2> HIDE DEF body, n
  <2> QED BY <1>1, <1>4, Rounds
<1>6. f \in [0 .. n -> Nat] /\ f[0] = 0 /\ \A i \in 1 .. n : f[i] = body[i][f[i - 1]]
  BY <1>5 DEF RoundsOf
<1>7. f = [i \in 0 .. Len(e.data) |-> IF i = 0 THEN 0 ELSE f[i - 1] * 256 + e.data[i]]
  <2>1. \A i \in 1 .. n : i \in Nat /\ i - 1 \in 0 .. n /\ f[i - 1] \in Nat
    BY <1>1, <1>6
  <2>2. \A i \in 1 .. n : f[i] = f[i - 1] * 256 + e.data[i]
    BY <1>6, <2>1
  <2> HIDE DEF body
  <2>3. ASSUME NEW i \in 0 .. n
        PROVE  f[i] = IF i = 0 THEN 0 ELSE f[i - 1] * 256 + e.data[i]
    BY <1>1, <1>6, <2>2
  <2> QED BY <1>6, <2>3
<1>8. number = [i \in 0 .. Len(e.data) |-> IF i = 0 THEN 0 ELSE number[i - 1] * 256 + e.data[i]]
  <2> HIDE DEF body, n
  <2> QED BY <1>7, SMTT(20)
<1>9. Number(e) = number[n]
  BY DEF Number, NumberOf
<1> HIDE DEF number
<1>10. \A i \in 0 .. n : number[i] = IF i = 0 THEN 0 ELSE number[i - 1] * 256 + e.data[i]
  BY <1>8
<1> DEFINE T == {i \in Nat : i <= n => number[i] \in Nat}
<1>11. 0 \in T
  BY <1>1, <1>10
<1>12. ASSUME NEW i \in Nat, i \in T PROVE i + 1 \in T
  <2>1. SUFFICES ASSUME i + 1 <= n PROVE number[i + 1] \in Nat
    OBVIOUS
  <2>2. i <= n /\ i + 1 \in 0 .. n /\ i + 1 \in 1 .. n /\ i + 1 # 0 /\ (i + 1) - 1 = i
    BY <1>1, <2>1
  <2>3. number[i + 1] = number[i] * 256 + e.data[i + 1]
    BY <1>10, <2>2
  <2>4. number[i] \in Nat
    BY <1>12, <2>2
  <2> QED BY <1>3, <2>2, <2>3, <2>4
<1>13. Nat \subseteq T
  <2> HIDE DEF T, n
  <2> QED BY <1>11, <1>12, SetInduction
<1> HIDE DEF n
<1> QED BY <1>1, <1>9, <1>13

\* The program points of MMDB_open, from one on.
FromSizes     == {"sizes", "start", "ready", "walk", "answered"}
FromMajor     == {"major", "minor", "epoch", "description"} \union FromSizes
FromLanguages == {"languages"} \union FromMajor
FromType      == {"database_type"} \union FromLanguages
FromVersion   == {"ip_version"} \union FromType
FromSize      == {"record_size"} \union FromVersion
FromCount     == {"node_count"} \union FromSize
FromMarker    == {"marker"} \union FromCount
FromMap       == {"map"} \union FromMarker

HavingSizes == {"start", "ready", "walk", "answered"}

(* What has been read and checked so far.                                  *)
FileInv ==
  /\ content \in Seq(Byte)
  /\ mmdb \in HandleType
  /\ pc \in {"open", "failed"} \union FromMap
  /\ pc \in FromCount => mmdb.metadata \in MarkerEnds
  /\ pc \in FromSize => nodeCount \in Nat \ {0}
  /\ pc \in FromVersion => mmdb.recordSize \in {24, 28, 32}
  /\ pc \in FromType => ipVersion \in {4, 6}
  /\ pc \in FromSizes => recordLength \in {6, 7, 8}
  /\ pc \in {"open", "sizes"} \union (FromMap \ FromSizes) => WalkFromRoot
  /\ pc \in HavingSizes => TreeInv /\ dataSize \in 3 .. Word - 1

LEMMA MarkersBounded ==
  ASSUME content \in Seq(Byte), NEW e \in MarkerEnds
  PROVE  /\ e \in 1 .. Len(content)
         /\ Section(SubSeq(content, e + 1, Len(content)))
         /\ Len(SubSeq(content, e + 1, Len(content))) = Len(content) - e
<1>1. Len(content) \in Nat /\ Len(Marker) \in Nat /\ MaxMetadata \in Nat
      /\ MaxMetadata <= Word - 1 /\ Word \in Nat
  BY WordAssumption, MarkerAssumption
<1>2. Len(Marker) > 0
  <2>1. Marker \in Seq(Byte) /\ Marker # <<>>
    BY MarkerAssumption
  <2> QED BY <2>1, EmptySeq
<1>3. e \in Len(Marker) .. Len(content) /\ e - Len(Marker) >= Len(content) - MaxMetadata
  BY DEF MarkerEnds
<1>5. e \in 1 .. Len(content)
  BY <1>1, <1>2, <1>3
<1> DEFINE rest == SubSeq(content, e + 1, Len(content))
<1>6. rest \in Seq(Byte) /\ Len(rest) = Len(content) - e
  <2>1. \A i \in e + 1 .. Len(content) : i \in 1 .. Len(content)
    BY <1>1, <1>5
  <2>2. e + 1 \in Int /\ Len(content) \in Int
    BY <1>1, <1>5
  <2> QED BY <1>1, <1>5, <2>1, <2>2, SubSeqProperties
<1>7. Len(content) - e \in 0 .. Word - 1
  BY <1>1, <1>2, <1>3
<1> QED BY <1>5, <1>6, <1>7 DEF Section

\* The last marker is one.
LEMMA LastIsMarker ==
  ASSUME content \in Seq(Byte), MarkerEnds # {}
  PROVE  LastMarker \in MarkerEnds
<1>1. Len(content) \in Nat /\ MarkerEnds \subseteq 1 .. Len(content)
  BY MarkersBounded
<1>2. \E e \in MarkerEnds : \A f \in MarkerEnds : f <= e
  BY <1>1, GreatestElement
<1> QED BY <1>2 DEF LastMarker

LEMMA MetadataSection ==
  ASSUME FileInv, pc \in FromCount
  PROVE  Section(Metadata)
BY MarkersBounded DEF FileInv, Metadata

(* Behind every marker there is room for the bytes of a size.  The code    *)
(* checks that of the data, and not of the metadata.                       *)
FullMetadata == \A e \in MarkerEnds : e + 3 <= Len(content)

SectionInv == FullMetadata => ReadsInsideSection

LEMMA ReadKept ==
  ASSUME FileInv, pc \in FromCount, content' = content,
         NEW end \in Nat, Within(Metadata, end), furthest' = <<end, Len(Metadata)>>
  PROVE  SectionInv'
<1>1. SUFFICES ASSUME FullMetadata' PROVE end <= Len(Metadata)
  BY DEF SectionInv, ReadsInsideSection
<1>2. mmdb.metadata \in MarkerEnds /\ FullMetadata
  BY <1>1 DEF FileInv, FullMetadata, MarkerEnds
<1>3. Len(Metadata) = Len(content) - mmdb.metadata /\ mmdb.metadata \in 1 .. Len(content)
      /\ Len(content) \in Nat
  BY <1>2, MarkersBounded DEF FileInv, Metadata
<1>4. mmdb.metadata + 3 <= Len(content)
  BY <1>2 DEF FullMetadata
<1>5. Len(Metadata) >= 3
  BY <1>3, <1>4
<1> QED BY <1>5 DEF Within

LEMMA ValueInside ==
  ASSUME FileInv, pc \in FromCount, NEW k
  PROVE  Value(k) \in Inside(Metadata) /\ Value(k) \in Entries
<1>1. Len(<<Key[k]>>) \in Nat
  OBVIOUS
<1>2. AGet(Metadata, 0, <<Key[k]>>) \in Inside(Metadata)
  BY <1>1, MetadataSection, AGetInside
<1> QED BY <1>2 DEF Value, Inside

LEMMA DataSectionOK ==
  ASSUME FileInv, pc \in HavingSizes
  PROVE  Section(Data) /\ Len(Data) >= 3
<1>1. /\ content \in Seq(Byte) /\ Len(content) \in Nat
      /\ dataSize \in 3 .. Word - 1 /\ Word \in Nat
      /\ Len(content) = nodeCount * recordLength + Separator + dataSize
      /\ nodeCount \in Nat /\ recordLength \in Nat /\ Separator \in Nat
  BY WordAssumption, TreeAssumption DEF FileInv, TreeInv, DatabaseOK, SizesChecked
<1>2. nodeCount * recordLength \in Nat
  BY <1>1
<1>3. dataSize <= Len(content)
  <2>1. PICK product \in Nat : product = nodeCount * recordLength
    BY <1>2
  <2> QED BY <1>1, <2>1
<1>4. \A i \in Len(content) - dataSize + 1 .. Len(content) : i \in 1 .. Len(content)
  BY <1>1, <1>3
<1>5. Len(content) - dataSize + 1 \in Int
  BY <1>1
<1>6. Data \in Seq(Byte) /\ Len(Data) = dataSize
  <2>1. ASSUME NEW m \in Int, NEW n \in Int, m <= n, \A i \in m .. n : i \in 1 .. Len(content)
        PROVE  SubSeq(content, m, n) \in Seq(Byte) /\ Len(SubSeq(content, m, n)) = n - m + 1
    <3>1. \A i \in 1 .. Len(content) : content[i] \in Byte
      BY <1>1
    <3>2. \A i \in m .. n : content[i] \in Byte
      BY <2>1, <3>1, Zenon
    <3> QED BY <2>1, <3>2, SubSeqProperties
  <2>2. PICK m \in Int : m = Len(content) - dataSize + 1
    BY <1>5
  <2>3. m <= Len(content) /\ Len(content) - m + 1 = dataSize /\ Len(content) \in Int
    BY <1>1, <2>2
  <2>4. \A i \in m .. Len(content) : i \in 1 .. Len(content)
    BY <1>4, <2>2
  <2>5. Data = SubSeq(content, m, Len(content))
    BY <2>2 DEF Data
  <2> QED BY <2>1, <2>2, <2>3, <2>4, <2>5
<1> QED BY <1>1, <1>6 DEF Section

-----------------------------------------------------------------------------
(* What an opening database holds.                                         *)

\* At the point p of MMDB_open, with or without the array of descriptions.
HeldAt(p, described) ==
  {"filename"}
    \union (IF p \in FromMarker THEN {"view"} ELSE {})
    \union (IF p \in FromCount THEN {"winsock"} ELSE {})
    \union (IF p \in FromLanguages THEN {"database_type"} ELSE {})
    \union (IF p \in FromMajor THEN {"languages"} ELSE {})
    \union (IF described THEN {"descriptions"} ELSE {})

OpenHeld ==
  pc \in FromMap =>
    /\ mmdb.status = "ok"
    /\ mmdb.mapped <=> pc \in FromMarker
    /\ mmdb.described => pc \in FromSizes
    /\ held = HeldAt(pc, mmdb.described)

HeldInv ==
  /\ pc = "open" => held = {}
  /\ OpenHeld
  /\ OpenReleases
  /\ pc # "failed" => faults = {}
  /\ ReleasesOnlyTaken

LEMMA Failing ==
  ASSUME HeldInv, pc \in {"open"} \union FromMap,
         NEW m \in HandleType, NEW status \in Statuses \ {"ok"}, NEW taken,
         Fail(m, status, taken),
         pc \in FromMarker => m.mapped,
         mmdb.described => m.described \/ pc = "open",
         pc = "open" => ~m.mapped /\ ~m.described,
         m.mapped => mmdb.mapped,
         pc = "marker" => "winsock" \in taken,
         m.described => mmdb.described \/ "descriptions" \in taken,
         taken \ Releases(m) \subseteq
           {"list"} \union (IF status = "out_of_memory" THEN {"descriptions"} ELSE {})
  PROVE  HeldInv'
<1>1. /\ pc' = "failed" /\ mmdb' = [m EXCEPT !.status = status]
      /\ held' = (held \union taken) \ Releases(m)
      /\ faults' = faults \union (NeedsHeld(m) \ (held \union taken))
  BY DEF Fail, Free
<1>2. /\ mmdb'.status = status /\ mmdb'.mapped = m.mapped /\ mmdb'.described = m.described
  BY <1>1 DEF HandleType
<1>3. faults = {}
  BY DEF HeldInv, FromMap, FromMarker, FromCount, FromSize, FromVersion, FromType,
         FromLanguages, FromMajor, FromSizes
<1>4. held \subseteq Releases(m)
  <2>1. CASE pc = "open"
    BY <2>1 DEF HeldInv
  <2>2. CASE pc \in FromMap
    <3>1. /\ held = HeldAt(pc, mmdb.described)
      BY <2>2 DEF HeldInv, OpenHeld
    <3>2. pc \in FromCount => pc \in FromMarker
      BY DEF FromMarker
    <3>3. pc # "open"
      BY <2>2 DEF FromMap, FromMarker, FromCount, FromSize, FromVersion, FromType,
                  FromLanguages, FromMajor, FromSizes
    <3>4. mmdb.described => m.described
      BY <3>3
    <3> QED BY <3>1, <3>2, <3>4 DEF HeldAt, Releases, Mapping
  <2> QED BY <2>1, <2>2
<1>5. held' \subseteq {"list"} \union (IF mmdb'.status = "out_of_memory" THEN {"descriptions"} ELSE {})
  BY <1>1, <1>2, <1>4
<1>6. OpenReleases'
  BY <1>1, <1>5 DEF OpenReleases
<1>7. OpenHeld'
  BY <1>1 DEF OpenHeld, FromMap, FromMarker, FromCount, FromSize, FromVersion, FromType,
              FromLanguages, FromMajor, FromSizes
<1>8. NeedsHeld(m) \subseteq held \union taken
  <2>1. CASE pc = "open"
    BY <2>1 DEF NeedsHeld, Releases
  <2>2. CASE pc \in FromMap
    <3>1. held = HeldAt(pc, mmdb.described) /\ (mmdb.mapped => pc \in FromMarker)
      BY <2>2 DEF HeldInv, OpenHeld
    <3>2. m.mapped => {"view", "winsock"} \subseteq held \union taken
      BY <3>1 DEF HeldAt, FromMarker
    <3>3. m.described => "descriptions" \in held \union taken
      BY <3>1 DEF HeldAt
    <3> QED BY <3>2, <3>3 DEF NeedsHeld, Releases, Mapping
  <2> QED BY <2>1, <2>2
<1>9. ReleasesOnlyTaken'
  BY <1>1, <1>3, <1>8 DEF ReleasesOnlyTaken
<1> QED
  BY <1>1, <1>6, <1>7, <1>9 DEF HeldInv

LEMMA Proceeding ==
  ASSUME HeldInv, pc \in {"open"} \union FromMap,
         NEW m \in HandleType, NEW next \in FromMap, NEW taken,
         Proceed(m, next, taken),
         m.status = "ok",
         m.mapped <=> next \in FromMarker,
         m.described => next \in FromSizes,
         held \union taken = HeldAt(next, m.described)
  PROVE  HeldInv'
<1>1. pc' = next /\ mmdb' = m /\ held' = held \union taken /\ faults' = faults
  BY DEF Proceed
<1>2. faults = {}
  BY DEF HeldInv, FromMap, FromMarker, FromCount, FromSize, FromVersion, FromType,
         FromLanguages, FromMajor, FromSizes
<1>3. next \notin {"open", "failed"}
  BY DEF FromMap, FromMarker, FromCount, FromSize, FromVersion, FromType,
         FromLanguages, FromMajor, FromSizes
<1>4. OpenHeld'
  <2>1. (FromMap = FromMap' /\ FromMarker = FromMarker' /\ FromSizes = FromSizes')
    BY DEF FromMap, FromMarker, FromCount, FromSize, FromVersion, FromType,
           FromLanguages, FromMajor, FromSizes
  <2> QED BY <1>1 DEF OpenHeld, HeldAt
<1>5. OpenReleases'
  <2>1. ASSUME next \in {"start", "ready", "walk", "answered"}
        PROVE  NeedsHeld(m) \subseteq held' /\ held' \subseteq Releases(m)
    <3>1. /\ m.mapped
          /\ held' = {"filename", "view", "winsock", "database_type", "languages"}
                      \union (IF m.described THEN {"descriptions"} ELSE {})
      BY <1>1, <2>1 DEF HeldAt, FromMap, FromMarker, FromCount, FromSize, FromVersion, FromType,
             FromLanguages, FromMajor, FromSizes
    <3>2. Releases(m) = {"filename", "database_type", "languages", "view", "winsock"}
                          \union (IF m.described THEN {"descriptions"} ELSE {})
      BY <3>1 DEF Releases, Mapping
    <3> QED BY <3>1, <3>2 DEF NeedsHeld
  <2> QED BY <1>1, <1>3, <2>1 DEF OpenReleases, NeedsHeld, Releases
<1> QED BY <1>1, <1>2, <1>3, <1>4, <1>5 DEF HeldInv, ReleasesOnlyTaken

\* A reading step, whose handle differs only in what it has read.
LEMMA Stepping ==
  ASSUME HeldInv, pc \in FromCount,
         NEW status \in Statuses \ {"file_open", "io"},
         mmdb \in HandleType, NEW m \in HandleType, NEW next \in FromMarker,
         Step(status, m, next),
         m.status = mmdb.status, m.mapped = mmdb.mapped, m.described = mmdb.described,
         HeldAt(next, mmdb.described) = HeldAt(pc, mmdb.described),
         pc \in FromSizes <=> next \in FromSizes
  PROVE  HeldInv'
<1>1. /\ pc \in FromMap /\ next \in FromMap /\ pc \in FromMarker
      /\ pc # "open" /\ pc # "marker"
  BY DEF FromMap, FromMarker, FromCount, FromSize, FromVersion, FromType,
         FromLanguages, FromMajor, FromSizes
<1>2. /\ mmdb.status = "ok" /\ mmdb.mapped /\ held = HeldAt(pc, mmdb.described)
      /\ mmdb.described => pc \in FromSizes
  BY <1>1 DEF HeldInv, OpenHeld
<1>3. CASE status = "ok"
  <2>1. Proceed(m, next, {})
    BY <1>3 DEF Step
  <2>2. held \union {} = HeldAt(next, m.described)
    BY <1>2
  <2> QED BY <1>1, <1>2, <2>1, <2>2, Proceeding
<1>4. CASE status # "ok"
  <2>1. Fail(mmdb, status, {})
    BY <1>4 DEF Step
  <2> QED BY <1>1, <1>2, <1>4, <2>1, Failing
<1> QED BY <1>3, <1>4

-----------------------------------------------------------------------------
(* The steps of MMDB_open keep FileInv, HeldInv and SectionInv.            *)

OpenInv == FileInv /\ HeldInv /\ SectionInv

LEMMA FileFailed ==
  ASSUME FileInv, content' = content, NEW m \in HandleType, NEW status \in Statuses, NEW taken,
         Fail(m, status, taken)
  PROVE  FileInv'
<1>1. pc' = "failed" /\ mmdb' \in HandleType
  BY DEF Fail, HandleType
<1>2. content' \in Seq(Byte) /\ HandleType' = HandleType /\ mmdb' \in HandleType'
  BY <1>1 DEF FileInv, MarkerEnds, HandleType, Statuses
<1>3. /\ pc' \in ({"failed"} \union FromMap)'
      /\ pc' \notin ({"open", "sizes"} \union FromMap)' /\ pc' \notin HavingSizes'
  BY <1>1 DEF FromMap, FromMarker, FromCount, FromSize, FromVersion, FromType,
              FromLanguages, FromMajor, FromSizes, HavingSizes
<1> QED BY <1>2, <1>3 DEF FileInv, FromMap, FromMarker, FromCount, FromSize, FromVersion, FromType,
                          FromLanguages, FromMajor

LEMMA SameContent ==
  ASSUME FileInv, content' = content
  PROVE  /\ content' \in Seq(Byte) /\ MarkerEnds' = MarkerEnds
         /\ HandleType' = HandleType /\ FullMetadata' = FullMetadata
BY DEF FileInv, MarkerEnds, HandleType, Statuses, FullMetadata

LEMMA BeginInv ==
  ASSUME OpenInv, Begin
  PROVE  OpenInv'
<1>1. /\ pc = "open" /\ content' = content /\ recordLength' = recordLength /\ furthest' = furthest
      /\ UNCHANGED <<startVars, lookupVars, walkVars>>
  BY DEF Begin, databaseVars, OtherVars
<1>2. mmdb \in HandleType /\ WalkFromRoot /\ held = {}
  BY <1>1 DEF OpenInv, FileInv, HeldInv
<1>3. /\ ResetMembers \in HandleType /\ ResetMembers.status = "ok"
      /\ ~ResetMembers.mapped /\ ~ResetMembers.described
  BY <1>2 DEF ResetMembers, HandleType, Statuses
<1>4. SectionInv'
  BY <1>1, SameContent DEF OpenInv, SectionInv, ReadsInsideSection
<1>5. CASE Proceed(ResetMembers, "map", {"filename"})
  <2>1. held \union {"filename"} = HeldAt("map", ResetMembers.described)
    BY <1>2, <1>3 DEF HeldAt, FromMarker, FromCount, FromSize, FromVersion, FromType,
           FromLanguages, FromMajor, FromSizes
  <2>2. "map" \in FromMap /\ "map" \notin FromMarker
    BY DEF FromMap, FromMarker, FromCount, FromSize, FromVersion, FromType,
           FromLanguages, FromMajor, FromSizes
  <2>3. HeldInv'
    BY <1>1, <1>2, <1>3, <1>5, <2>1, <2>2, Proceeding DEF OpenInv
  <2>4. pc' = "map" /\ mmdb' \in HandleType
    BY <1>3, <1>5 DEF Proceed
  <2>5. FileInv'
    BY <1>1, <1>2, <2>4, SameContent
       DEF OpenInv, FileInv, WalkFromRoot, startVars, lookupVars, walkVars, NoResult,
           FromMap, FromMarker, FromCount, FromSize, FromVersion, FromType,
           FromLanguages, FromMajor, FromSizes, HavingSizes
  <2> QED BY <1>4, <2>3, <2>5 DEF OpenInv
<1>6. CASE Fail(ResetMembers, "out_of_memory", {})
  <2>1. "out_of_memory" \in Statuses \ {"ok"} /\ pc \notin FromMarker
    BY <1>1 DEF Statuses, FromMarker, FromCount, FromSize, FromVersion, FromType,
           FromLanguages, FromMajor, FromSizes
  <2>2. HeldInv'
    BY <1>1, <1>3, <1>6, <2>1, Failing DEF OpenInv
  <2>3. FileInv'
    BY <1>1, <1>3, <1>6, <2>1, FileFailed DEF OpenInv
  <2> QED BY <1>4, <2>2, <2>3 DEF OpenInv
<1> QED BY <1>5, <1>6 DEF Begin

LEMMA MapFileInv ==
  ASSUME OpenInv, MapFile
  PROVE  OpenInv'
<1>1. /\ pc = "map" /\ content' = content /\ recordLength' = recordLength /\ furthest' = furthest
      /\ UNCHANGED <<startVars, lookupVars, walkVars>>
  BY DEF MapFile, databaseVars, OtherVars
<1>2. /\ "map" \in FromMap /\ "map" \notin FromMarker /\ "marker" \in FromMap /\ "marker" \in FromMarker
      /\ "map" \notin FromSizes /\ "marker" \notin FromSizes /\ "marker" \notin FromCount
      /\ "map" \notin FromCount
  BY DEF FromMap, FromMarker, FromCount, FromSize, FromVersion, FromType,
         FromLanguages, FromMajor, FromSizes
<1>3. /\ mmdb \in HandleType /\ WalkFromRoot
      /\ mmdb.status = "ok" /\ ~mmdb.mapped /\ ~mmdb.described /\ held = HeldAt(pc, FALSE)
  <2>1. mmdb \in HandleType /\ WalkFromRoot
    BY <1>1, <1>2 DEF OpenInv, FileInv, HeldInv
  <2>2. /\ mmdb.status = "ok" /\ ~mmdb.mapped /\ ~mmdb.described
        /\ held = HeldAt(pc, mmdb.described)
    BY <1>1, <1>2 DEF OpenInv, HeldInv, OpenHeld
  <2> QED BY <2>1, <2>2 DEF HeldAt
<1>4. SectionInv'
  BY <1>1, SameContent DEF OpenInv, SectionInv, ReadsInsideSection
<1>5. CASE Proceed([mmdb EXCEPT !.mapped = TRUE], "marker", OpenAt("done") \ ClosedByMap("done"))
  <2> DEFINE m == [mmdb EXCEPT !.mapped = TRUE]
  <2>1. m \in HandleType /\ m.status = "ok" /\ m.mapped /\ ~m.described
    BY <1>3 DEF HandleType
  <2>2. OpenAt("done") \ ClosedByMap("done") = {"view"}
    BY DEF OpenAt, ClosedByMap
  <2>3. held \union {"view"} = HeldAt("marker", FALSE)
    BY <1>1, <1>2, <1>3 DEF HeldAt, FromCount, FromSize, FromVersion, FromType,
           FromLanguages, FromMajor, FromSizes
  <2> HIDE DEF m
  <2>4. Proceed(m, "marker", {"view"})
    BY <1>5, <2>2 DEF m
  <2>5. held \union {"view"} = HeldAt("marker", m.described)
    BY <2>1, <2>3 DEF HeldAt
  <2>6. HeldInv'
    BY <1>1, <1>2, <1>3, <2>1, <2>4, <2>5, Proceeding DEF OpenInv
  <2>7. pc' = "marker" /\ mmdb' \in HandleType
    BY <2>1, <2>4 DEF Proceed
  <2>8. FileInv'
    BY <1>1, <1>2, <1>3, <2>7, SameContent
       DEF OpenInv, FileInv, WalkFromRoot, startVars, lookupVars, walkVars, NoResult,
           FromMap, FromMarker, FromCount, FromSize, FromVersion, FromType,
           FromLanguages, FromMajor, FromSizes, HavingSizes
  <2> QED BY <1>4, <2>6, <2>8 DEF OpenInv
<1>6. ASSUME NEW stage \in {"utf16", "file", "size", "mapping", "view"},
             NEW status \in {"file_open", "io"},
             Fail(mmdb, status, OpenAt(stage) \ ClosedByMap(stage))
      PROVE  OpenInv'
  <2>1. OpenAt(stage) \ ClosedByMap(stage) = {}
    BY DEF OpenAt, ClosedByMap
  <2>2. status \in Statuses \ {"ok"}
    BY DEF Statuses
  <2>3. Fail(mmdb, status, {})
    BY <1>6, <2>1
  <2>4. HeldInv'
    BY <1>1, <1>2, <1>3, <2>2, <2>3, Failing DEF OpenInv
  <2>5. FileInv'
    BY <1>1, <1>3, <2>2, <2>3, FileFailed DEF OpenInv
  <2> QED BY <1>4, <2>4, <2>5 DEF OpenInv
<1> QED BY <1>5, <1>6 DEF MapFile

LEMMA FindMetadataInv ==
  ASSUME OpenInv, FindMetadata
  PROVE  OpenInv'
<1>1. /\ pc = "marker" /\ content' = content /\ recordLength' = recordLength /\ furthest' = furthest
      /\ UNCHANGED <<startVars, lookupVars, walkVars>>
  BY DEF FindMetadata, databaseVars, OtherVars
<1>2. /\ "marker" \in FromMap /\ "marker" \in FromMarker /\ "node_count" \in FromMap
      /\ "node_count" \in FromMarker /\ "node_count" \in FromCount
      /\ "marker" \notin FromSizes /\ "node_count" \notin FromSizes /\ "marker" \notin FromCount
      /\ "node_count" \notin FromSize
  BY DEF FromMap, FromMarker, FromCount, FromSize, FromVersion, FromType,
         FromLanguages, FromMajor, FromSizes
<1>3. /\ mmdb \in HandleType /\ WalkFromRoot
      /\ mmdb.status = "ok" /\ mmdb.mapped /\ ~mmdb.described /\ held = HeldAt(pc, FALSE)
  <2>1. mmdb \in HandleType /\ WalkFromRoot
    BY <1>1, <1>2 DEF OpenInv, FileInv, HeldInv
  <2>2. /\ mmdb.status = "ok" /\ mmdb.mapped /\ ~mmdb.described
        /\ held = HeldAt(pc, mmdb.described)
    BY <1>1, <1>2 DEF OpenInv, HeldInv, OpenHeld
  <2> QED BY <2>1, <2>2 DEF HeldAt
<1>4. SectionInv'
  BY <1>1, SameContent DEF OpenInv, SectionInv, ReadsInsideSection
<1>5. CASE MarkerEnds = {}
  <2>1. Fail(mmdb, "invalid_metadata", {"winsock"})
    BY <1>5 DEF FindMetadata
  <2>2. "invalid_metadata" \in Statuses \ {"ok"} /\ "winsock" \in Releases(mmdb)
    BY <1>3 DEF Statuses, Releases, Mapping
  <2>3. HeldInv'
    BY <1>1, <1>2, <1>3, <2>1, <2>2, Failing DEF OpenInv
  <2>4. FileInv'
    BY <1>1, <1>3, <2>1, <2>2, FileFailed DEF OpenInv
  <2> QED BY <1>4, <2>3, <2>4 DEF OpenInv
<1>6. CASE MarkerEnds # {}
  <2> DEFINE m == [mmdb EXCEPT !.metadata = LastMarker]
  <2>0. content \in Seq(Byte)
    BY DEF OpenInv, FileInv
  <2>1. LastMarker \in MarkerEnds /\ LastMarker \in Nat
    BY <1>6, <2>0, LastIsMarker, MarkersBounded
  <2>2. /\ m \in HandleType /\ m.status = "ok" /\ m.mapped /\ ~m.described
        /\ m.metadata \in MarkerEnds
    BY <1>3, <2>1 DEF HandleType
  <2>3. Proceed(m, "node_count", {"winsock"})
    BY <1>6 DEF FindMetadata
  <2> HIDE DEF m
  <2>4. held \union {"winsock"} = HeldAt("node_count", m.described)
    BY <1>1, <1>2, <1>3, <2>2 DEF HeldAt, FromSize, FromVersion, FromType,
           FromLanguages, FromMajor, FromSizes
  <2>5. HeldInv'
    BY <1>1, <1>2, <1>3, <2>2, <2>3, <2>4, Proceeding DEF OpenInv
  <2>6. pc' = "node_count" /\ mmdb' \in HandleType /\ mmdb'.metadata \in MarkerEnds
    BY <2>2, <2>3 DEF Proceed
  <2>7. FileInv'
    BY <1>1, <1>2, <1>3, <2>6, SameContent
       DEF OpenInv, FileInv, WalkFromRoot, startVars, lookupVars, walkVars, NoResult,
           FromMap, FromMarker, FromCount, FromSize, FromVersion, FromType,
           FromLanguages, FromMajor, FromSizes, HavingSizes
  <2> QED BY <1>4, <2>5, <2>7 DEF OpenInv
<1> QED BY <1>5, <1>6

\* Where the metadata is read, and what it is read with.
LEMMA Reading ==
  ASSUME OpenInv, pc \in FromCount, pc \notin FromSizes
  PROVE  /\ mmdb \in HandleType /\ mmdb.status = "ok" /\ mmdb.mapped /\ mmdb.described = FALSE
         /\ pc \in FromMap /\ pc \in FromMarker /\ held = HeldAt(pc, FALSE)
         /\ WalkFromRoot /\ mmdb.metadata \in MarkerEnds
         /\ Section(Metadata)
         /\ \A k : Value(k) \in Inside(Metadata) /\ Value(k) \in Entries
<1>1. pc \in FromMap /\ pc \in FromMarker
  BY DEF FromMap, FromMarker
<1>2. mmdb \in HandleType /\ WalkFromRoot /\ mmdb.metadata \in MarkerEnds
  BY <1>1 DEF OpenInv, FileInv, HeldInv
<1>3. /\ mmdb.status = "ok" /\ mmdb.mapped /\ ~mmdb.described
      /\ held = HeldAt(pc, mmdb.described)
  BY <1>1 DEF OpenInv, HeldInv, OpenHeld
<1>4. mmdb.described = FALSE
  BY <1>2, <1>3 DEF HandleType
<1>5. Section(Metadata) /\ \A k : Value(k) \in Inside(Metadata) /\ Value(k) \in Entries
  BY MetadataSection, ValueInside DEF OpenInv
<1> QED BY <1>1, <1>2, <1>3, <1>4, <1>5

ReadStatuses == {"ok", "invalid_data", "mismatch", "invalid_metadata"}

LEMMA StatusOfRead ==
  ASSUME NEW e \in Entries, NEW type
  PROVE  /\ TypedStatus(e, type) \in ReadStatuses /\ NumberStatus(e, type) \in ReadStatuses
         /\ TypedStatus(e, type) = "ok" => e.status = "ok" /\ e.type = type
         /\ NumberStatus(e, type) = "ok" => Number(e) # 0
         /\ e.status \in ReadStatuses
BY DEF Entries, TypedStatus, NumberStatus, ReadStatuses

LEMMA ReadStep ==
  ASSUME OpenInv, pc \in FromCount, pc \notin FromSizes,
         NEW e \in Inside(Metadata), ReadOf(e, Metadata),
         NEW status \in ReadStatuses \union {"unknown_format"},
         NEW m \in HandleType, NEW next \in FromCount \ FromSizes,
         Step(status, m, next),
         m.status = mmdb.status, m.mapped = mmdb.mapped, m.described = mmdb.described,
         HeldAt(next, FALSE) = HeldAt(pc, FALSE),
         content' = content, recordLength' = recordLength
  PROVE  /\ HeldInv' /\ SectionInv'
         /\ status # "ok" => FileInv'
         /\ status = "ok" => pc' = next /\ mmdb' = m
<1>1. /\ mmdb \in HandleType /\ mmdb.described = FALSE /\ pc \in FromMarker
  BY Reading
<1>2. next \in FromMarker
  BY DEF FromMarker
<1>3. status \in Statuses \ {"file_open", "io"} /\ status \in Statuses
  BY DEF Statuses, ReadStatuses
<1>4. HeldInv'
  BY <1>1, <1>2, <1>3, Stepping DEF OpenInv
<1>5. SectionInv'
  <2>1. e.end \in Nat /\ Within(Metadata, e.end) /\ furthest' = <<e.end, Len(Metadata)>>
    BY DEF Inside, Entries, ReadOf
  <2> QED BY <2>1, ReadKept DEF OpenInv
<1>6. ASSUME status # "ok" PROVE FileInv'
  <2>1. Fail(mmdb, status, {})
    BY <1>6 DEF Step
  <2> QED BY <1>1, <1>3, <2>1, FileFailed DEF OpenInv
<1>7. status = "ok" => pc' = next /\ mmdb' = m
  BY DEF Step, Proceed
<1> QED BY <1>4, <1>5, <1>6, <1>7

LEMMA ReadNodeCountInv ==
  ASSUME OpenInv, ReadNodeCount
  PROVE  OpenInv'
<1> DEFINE e == Value("node_count")
           status == NumberStatus(e, UInt32)
<1>1. /\ pc = "node_count" /\ content' = content /\ recordLength' = recordLength
      /\ UNCHANGED <<startVars, lookupVars, walkVars>>
      /\ ReadOf(e, Metadata) /\ nodeCount' = Number(e) /\ Step(status, mmdb, "record_size")
  BY DEF ReadNodeCount, OtherVars
<1>2. /\ pc \in FromCount /\ pc \notin FromSizes
      /\ "record_size" \in FromCount \ FromSizes /\ HeldAt("record_size", FALSE) = HeldAt(pc, FALSE)
  BY <1>1 DEF HeldAt, FromMarker, FromCount, FromSize, FromVersion, FromType,
              FromLanguages, FromMajor, FromSizes
<1>3. /\ mmdb \in HandleType /\ WalkFromRoot /\ mmdb.metadata \in MarkerEnds
      /\ e \in Inside(Metadata) /\ e \in Entries
  BY <1>2, Reading
<1>4. Number(e) \in Nat /\ status \in ReadStatuses /\ (status = "ok" => Number(e) # 0)
  BY <1>3, NumberNat, StatusOfRead
<1> HIDE DEF e, status
<1>5. /\ HeldInv' /\ SectionInv' /\ (status # "ok" => FileInv')
      /\ status = "ok" => pc' = "record_size" /\ mmdb' = mmdb
  BY <1>1, <1>2, <1>3, <1>4, ReadStep
<1>6. ASSUME status = "ok" PROVE FileInv'
  BY <1>1, <1>3, <1>4, <1>5, <1>6, SameContent
     DEF OpenInv, FileInv, WalkFromRoot, startVars, lookupVars, walkVars, NoResult,
         FromMap, FromMarker, FromCount, FromSize, FromVersion, FromType,
         FromLanguages, FromMajor, FromSizes, HavingSizes
<1> QED BY <1>5, <1>6 DEF OpenInv

LEMMA ReadRecordSizeInv ==
  ASSUME OpenInv, ReadRecordSize
  PROVE  OpenInv'
<1> DEFINE e == Value("record_size")
           number == NumberStatus(e, UInt16)
           status == IF number = "ok" /\ ~KnownSize(Number(e)) THEN "unknown_format" ELSE number
           m == [mmdb EXCEPT !.recordSize = Number(e)]
<1>1. /\ pc = "record_size" /\ UNCHANGED <<content, nodeCount, recordLength>>
      /\ UNCHANGED <<startVars, lookupVars, walkVars>>
      /\ ReadOf(e, Metadata) /\ Step(status, m, "ip_version")
  BY DEF ReadRecordSize, OtherVars, databaseVars
<1>2. /\ pc \in FromCount /\ pc \notin FromSizes
      /\ "ip_version" \in FromCount \ FromSizes /\ HeldAt("ip_version", FALSE) = HeldAt(pc, FALSE)
  BY <1>1 DEF HeldAt, FromMarker, FromCount, FromSize, FromVersion, FromType,
              FromLanguages, FromMajor, FromSizes
<1>3. /\ mmdb \in HandleType /\ WalkFromRoot /\ mmdb.metadata \in MarkerEnds
      /\ e \in Inside(Metadata) /\ e \in Entries
  BY <1>2, Reading
<1>4. Number(e) \in Nat /\ number \in ReadStatuses
  BY <1>3, NumberNat, StatusOfRead
<1>5. /\ status \in ReadStatuses \union {"unknown_format"}
      /\ status = "ok" => Number(e) \in {24, 28, 32}
  BY <1>4 DEF KnownSize, ReadStatuses
<1>6. /\ m \in HandleType /\ m.status = mmdb.status /\ m.mapped = mmdb.mapped
      /\ m.described = mmdb.described /\ m.metadata = mmdb.metadata /\ m.recordSize = Number(e)
  BY <1>3, <1>4 DEF HandleType
<1>7. nodeCount \in Nat \ {0}
  BY <1>1 DEF OpenInv, FileInv, FromSize
<1> HIDE DEF e, number, status, m
<1>8. /\ HeldInv' /\ SectionInv' /\ (status # "ok" => FileInv')
      /\ status = "ok" => pc' = "ip_version" /\ mmdb' = m
  BY <1>1, <1>2, <1>3, <1>5, <1>6, ReadStep
<1>9. ASSUME status = "ok" PROVE FileInv'
  BY <1>1, <1>3, <1>5, <1>6, <1>7, <1>8, <1>9, SameContent
     DEF FileInv, WalkFromRoot, startVars, lookupVars, walkVars, NoResult, OpenInv,
         FromMap, FromMarker, FromCount, FromSize, FromVersion, FromType,
         FromLanguages, FromMajor, FromSizes, HavingSizes
<1> QED BY <1>8, <1>9 DEF OpenInv

LEMMA ReadIPVersionInv ==
  ASSUME OpenInv, ReadIPVersion
  PROVE  OpenInv'
<1> DEFINE e == Value("ip_version")
           number == NumberStatus(e, UInt16)
           status == IF number = "ok" /\ Number(e) \notin {4, 6} THEN "invalid_metadata" ELSE number
<1>1. /\ pc = "ip_version" /\ UNCHANGED <<content, nodeCount, recordLength>>
      /\ UNCHANGED <<startVars, lookupVars, walkVars>>
      /\ ReadOf(e, Metadata) /\ ipVersion' = Number(e) /\ Step(status, mmdb, "database_type")
  BY DEF ReadIPVersion, OtherVars
<1>2. /\ pc \in FromCount /\ pc \notin FromSizes
      /\ "database_type" \in FromCount \ FromSizes
      /\ HeldAt("database_type", FALSE) = HeldAt(pc, FALSE)
  BY <1>1 DEF HeldAt, FromMarker, FromCount, FromSize, FromVersion, FromType,
              FromLanguages, FromMajor, FromSizes
<1>3. /\ mmdb \in HandleType /\ WalkFromRoot /\ mmdb.metadata \in MarkerEnds
      /\ e \in Inside(Metadata) /\ e \in Entries
  BY <1>2, Reading
<1>4. number \in ReadStatuses
  BY <1>3, StatusOfRead
<1>5. status \in ReadStatuses /\ (status = "ok" => Number(e) \in {4, 6})
  BY <1>4 DEF ReadStatuses
<1>6. nodeCount \in Nat \ {0} /\ mmdb.recordSize \in {24, 28, 32}
  BY <1>1 DEF OpenInv, FileInv, FromSize, FromVersion
<1> HIDE DEF e, number, status
<1>7. /\ HeldInv' /\ SectionInv' /\ (status # "ok" => FileInv')
      /\ status = "ok" => pc' = "database_type" /\ mmdb' = mmdb
  BY <1>1, <1>2, <1>3, <1>5, ReadStep
<1>8. ASSUME status = "ok" PROVE FileInv'
  BY <1>1, <1>3, <1>5, <1>6, <1>7, <1>8, SameContent
     DEF FileInv, WalkFromRoot, startVars, lookupVars, walkVars, NoResult, OpenInv,
         FromMap, FromMarker, FromCount, FromSize, FromVersion, FromType,
         FromLanguages, FromMajor, FromSizes, HavingSizes
<1> QED BY <1>7, <1>8 DEF OpenInv

\* From the database's type on the numbers of the metadata stay.
LEMMA FileKept ==
  ASSUME FileInv, pc \in FromType, pc \notin FromSizes, pc' \in FromType, pc' \notin FromSizes,
         mmdb' \in HandleType, mmdb'.metadata = mmdb.metadata, mmdb'.recordSize = mmdb.recordSize,
         UNCHANGED <<content, nodeCount, ipVersion>>,
         UNCHANGED <<startVars, lookupVars, walkVars>>
  PROVE  FileInv'
<1>1. /\ pc \in FromVersion /\ pc \in FromSize /\ pc \in FromCount /\ pc \in FromMap
      /\ pc \notin HavingSizes
  BY DEF FromMap, FromMarker, FromCount, FromSize, FromVersion, FromType,
         FromLanguages, FromMajor, FromSizes, HavingSizes
<1>2. /\ mmdb \in HandleType /\ WalkFromRoot /\ mmdb.metadata \in MarkerEnds
      /\ nodeCount \in Nat \ {0} /\ mmdb.recordSize \in {24, 28, 32} /\ ipVersion \in {4, 6}
  BY <1>1 DEF FileInv
<1>3. /\ pc' \in FromMap /\ pc' \notin FromSizes /\ pc' \notin HavingSizes
  BY DEF FromMap, FromMarker, FromCount, FromSize, FromVersion, FromType,
         FromLanguages, FromMajor, FromSizes, HavingSizes
<1>4. WalkFromRoot'
  BY <1>2 DEF WalkFromRoot, startVars, lookupVars, walkVars, NoResult
<1>5. /\ content' \in Seq(Byte) /\ MarkerEnds' = MarkerEnds
      /\ HandleType' = HandleType
  BY SameContent
<1> QED
  BY <1>2, <1>3, <1>4, <1>5
     DEF FileInv, FromMap, FromMarker, FromCount, FromSize, FromVersion, FromType,
         FromLanguages, FromMajor, FromSizes, HavingSizes

\* Of one that goes on.
NumbersKept(m) ==
  m \in HandleType /\ m.metadata = mmdb.metadata /\ m.recordSize = mmdb.recordSize

LEMMA ReadDatabaseTypeInv ==
  ASSUME OpenInv, ReadDatabaseType
  PROVE  OpenInv'
<1> DEFINE e == Value("database_type")
           status == TypedStatus(e, String)
<1>1. /\ pc = "database_type" /\ UNCHANGED <<content, nodeCount, recordLength, ipVersion>>
      /\ UNCHANGED <<startVars, lookupVars, walkVars>> /\ ReadOf(e, Metadata)
      /\ \/ status = "ok" /\ Proceed(mmdb, "languages", {"database_type"})
         \/ status = "ok" /\ Fail(mmdb, "out_of_memory", {})
         \/ status # "ok" /\ Fail(mmdb, status, {})
  BY DEF ReadDatabaseType, OtherVars, databaseVars
<1>2. /\ pc \in FromCount /\ pc \notin FromSizes /\ pc \in FromType
      /\ "languages" \in FromType /\ "languages" \notin FromSizes
      /\ "languages" \in FromMap /\ "languages" \in FromMarker
      /\ HeldAt("languages", FALSE) = HeldAt(pc, FALSE) \union {"database_type"}
  BY <1>1 DEF HeldAt, FromMap, FromMarker, FromCount, FromSize, FromVersion, FromType,
              FromLanguages, FromMajor, FromSizes
<1>3. /\ mmdb \in HandleType /\ mmdb.status = "ok" /\ mmdb.mapped /\ mmdb.described = FALSE
      /\ held = HeldAt(pc, FALSE) /\ pc \in FromMap
      /\ e \in Inside(Metadata) /\ e \in Entries
  BY <1>2, Reading
<1>4. status \in ReadStatuses /\ ReadStatuses \subseteq Statuses /\ "out_of_memory" \in Statuses
  BY <1>3, StatusOfRead DEF ReadStatuses, Statuses
<1>5. SectionInv'
  <2>1. e.end \in Nat /\ Within(Metadata, e.end) /\ furthest' = <<e.end, Len(Metadata)>>
    BY <1>1, <1>3 DEF Inside, Entries, ReadOf
  <2> QED BY <1>1, <1>2, <2>1, ReadKept DEF OpenInv
<1> HIDE DEF e, status
<1>6. CASE Proceed(mmdb, "languages", {"database_type"})
  <2>1. HeldInv'
    BY <1>1, <1>2, <1>3, <1>6, Proceeding DEF OpenInv
  <2>2. pc' = "languages" /\ mmdb' = mmdb
    BY <1>6 DEF Proceed
  <2>3. FileInv'
    BY <1>1, <1>2, <1>3, <2>2, FileKept DEF OpenInv
  <2> QED BY <1>5, <2>1, <2>3 DEF OpenInv
<1>7. ASSUME NEW s \in {status, "out_of_memory"}, s # "ok", Fail(mmdb, s, {})
      PROVE  OpenInv'
  <2>1. s \in Statuses \ {"ok"} /\ s \notin {"file_open", "io"}
    BY <1>4, <1>7 DEF ReadStatuses
  <2>2. HeldInv'
    BY <1>1, <1>3, <1>7, <2>1, Failing DEF OpenInv
  <2>3. FileInv'
    BY <1>1, <1>3, <1>7, <2>1, FileFailed DEF OpenInv
  <2> QED BY <1>5, <2>2, <2>3 DEF OpenInv
<1> QED BY <1>1, <1>6, <1>7

LEMMA ReadLanguagesInv ==
  ASSUME OpenInv, ReadLanguages
  PROVE  OpenInv'
<1> DEFINE e == Value("languages")
           status == TypedStatus(e, Array)
           list == DataList(Metadata, e.offset)
<1>1. /\ pc = "languages" /\ UNCHANGED <<content, nodeCount, recordLength, ipVersion>>
      /\ UNCHANGED <<startVars, lookupVars, walkVars>>
  BY DEF ReadLanguages, OtherVars, databaseVars
<1>2. /\ pc \in FromCount /\ pc \notin FromSizes /\ pc \in FromType
      /\ "major" \in FromType /\ "major" \notin FromSizes
      /\ "major" \in FromMap /\ "major" \in FromMarker
      /\ HeldAt("major", FALSE) = HeldAt(pc, FALSE) \union {"languages"}
  BY <1>1 DEF HeldAt, FromMap, FromMarker, FromCount, FromSize, FromVersion, FromType,
              FromLanguages, FromMajor, FromSizes
<1>3. /\ mmdb \in HandleType /\ mmdb.status = "ok" /\ mmdb.mapped /\ mmdb.described = FALSE
      /\ held = HeldAt(pc, FALSE) /\ pc \in FromMap /\ Section(Metadata)
      /\ e \in Inside(Metadata) /\ e \in Entries
  BY <1>2, Reading
<1>4. /\ status \in ReadStatuses /\ ReadStatuses \subseteq Statuses
      /\ "out_of_memory" \in Statuses /\ "invalid_metadata" \in Statuses
  BY <1>3, StatusOfRead DEF ReadStatuses, Statuses
<1>5. e.offset \in Nat
  BY <1>3 DEF Entries
<1>6. list \in ListsInside(Metadata)
  BY <1>3, <1>5, DataListInside
<1>7. list.status \in ReadStatuses
  BY <1>6 DEF ListsInside, Lists, ReadStatuses
<1>8. ReadOf(e, Metadata) \/ ReadOf(list, Metadata)
  BY DEF ReadLanguages
<1>9. SectionInv'
  <2>1. \E end \in Nat : Within(Metadata, end) /\ furthest' = <<end, Len(Metadata)>>
    BY <1>3, <1>6, <1>8 DEF ReadOf, Inside, ListsInside, Entries, Lists
  <2> QED BY <1>1, <1>2, <2>1, ReadKept DEF OpenInv
<1>10. \/ status # "ok" /\ Fail(mmdb, status, {})
       \/ list.status # "ok" /\ Fail(mmdb, list.status, {"list"})
       \/ Proceed(mmdb, "major", {"languages"})
       \/ Fail(mmdb, "invalid_metadata", {"languages", "list"})
       \/ \E taken \in {{}, {"list"}, {"languages", "list"}} : Fail(mmdb, "out_of_memory", taken)
  BY DEF ReadLanguages
<1> HIDE DEF e, status, list
<1>11. CASE Proceed(mmdb, "major", {"languages"})
  <2>1. HeldInv'
    BY <1>1, <1>2, <1>3, <1>11, Proceeding DEF OpenInv
  <2>2. pc' = "major" /\ mmdb' = mmdb
    BY <1>11 DEF Proceed
  <2>3. FileInv'
    BY <1>1, <1>2, <1>3, <2>2, FileKept DEF OpenInv
  <2> QED BY <1>9, <2>1, <2>3 DEF OpenInv
<1>12. ASSUME NEW s \in {status, list.status, "out_of_memory", "invalid_metadata"}, s # "ok",
              NEW taken \in SUBSET {"languages", "list"}, Fail(mmdb, s, taken)
       PROVE  OpenInv'
  <2>1. s \in Statuses \ {"ok"} /\ s \notin {"file_open", "io"}
    BY <1>4, <1>7, <1>12 DEF ReadStatuses
  <2>2. taken \ Releases(mmdb) \subseteq {"list"}
    BY DEF Releases
  <2>3. HeldInv'
    BY <1>1, <1>3, <1>12, <2>1, <2>2, Failing DEF OpenInv
  <2>4. FileInv'
    BY <1>1, <1>3, <1>12, <2>1, FileFailed DEF OpenInv
  <2> QED BY <1>9, <2>3, <2>4 DEF OpenInv
<1>13. CASE status # "ok" /\ Fail(mmdb, status, {})
  BY <1>12, <1>13
<1>14. CASE list.status # "ok" /\ Fail(mmdb, list.status, {"list"})
  BY <1>12, <1>14
<1>15. CASE Fail(mmdb, "invalid_metadata", {"languages", "list"})
  BY <1>12, <1>15
<1>16. CASE \E taken \in {{}, {"list"}, {"languages", "list"}} : Fail(mmdb, "out_of_memory", taken)
  <2>1. PICK taken \in {{}, {"list"}, {"languages", "list"}} : Fail(mmdb, "out_of_memory", taken)
    BY <1>16
  <2>2. taken \in SUBSET {"languages", "list"}
    OBVIOUS
  <2> QED BY <1>12, <2>1, <2>2
<1> QED BY <1>10, <1>11, <1>13, <1>14, <1>15, <1>16

\* The two numbers and the time: what is read is checked, and at most kept.
LEMMA ReadVersionInv ==
  ASSUME OpenInv, pc \in {"major", "minor", "epoch"},
         NEW next \in {"minor", "epoch", "description"},
         NEW e \in Inside(Metadata), NEW status \in ReadStatuses, NEW m, NumbersKept(m),
         m.status = mmdb.status, m.mapped = mmdb.mapped, m.described = mmdb.described,
         ReadOf(e, Metadata), Step(status, m, next), UNCHANGED databaseVars, UNCHANGED OtherVars
  PROVE  OpenInv'
<1>1. /\ pc \in FromCount /\ pc \notin FromSizes /\ pc \in FromType
      /\ next \in FromType /\ next \notin FromSizes /\ next \in FromCount
      /\ HeldAt(next, FALSE) = HeldAt(pc, FALSE)
  BY DEF HeldAt, FromMap, FromMarker, FromCount, FromSize, FromVersion, FromType,
              FromLanguages, FromMajor, FromSizes
<1>2. /\ UNCHANGED <<content, nodeCount, recordLength, ipVersion>>
      /\ UNCHANGED <<startVars, lookupVars, walkVars>>
  BY DEF OtherVars, databaseVars
<1>3. m \in HandleType /\ m.metadata = mmdb.metadata /\ m.recordSize = mmdb.recordSize
  BY DEF NumbersKept
<1>4. /\ HeldInv' /\ SectionInv' /\ (status # "ok" => FileInv')
      /\ status = "ok" => pc' = next /\ mmdb' = m
  BY <1>1, <1>2, <1>3, ReadStep
<1>5. ASSUME status = "ok" PROVE FileInv'
  BY <1>1, <1>2, <1>3, <1>4, <1>5, FileKept DEF OpenInv
<1> QED BY <1>4, <1>5 DEF OpenInv

LEMMA ReadVersionsInv ==
  ASSUME OpenInv, ReadMajorVersion \/ ReadMinorVersion \/ ReadBuildEpoch
  PROVE  OpenInv'
<1>1. CASE ReadMajorVersion
  <2> DEFINE e == Value("binary_format_major_version")
             m == [mmdb EXCEPT !.major = Number(e)]
             status == NumberStatus(e, UInt16)
  <2>1. /\ pc = "major" /\ UNCHANGED databaseVars /\ UNCHANGED OtherVars
        /\ ReadOf(e, Metadata) /\ Step(status, m, "minor")
    BY <1>1 DEF ReadMajorVersion, databaseVars
  <2>2. pc \in FromCount /\ pc \notin FromSizes
    BY <2>1 DEF FromCount, FromSize, FromVersion, FromType, FromLanguages, FromMajor, FromSizes
  <2>3. mmdb \in HandleType /\ e \in Inside(Metadata) /\ e \in Entries
    BY <2>2, Reading
  <2>4. Number(e) \in Nat /\ status \in ReadStatuses
    BY <2>3, NumberNat, StatusOfRead
  <2>5. /\ NumbersKept(m)
        /\ m.status = mmdb.status /\ m.mapped = mmdb.mapped /\ m.described = mmdb.described
    BY <2>3, <2>4 DEF HandleType, NumbersKept
  <2> HIDE DEF e, m, status
  <2> QED BY <2>1, <2>3, <2>4, <2>5, ReadVersionInv
<1>2. CASE ReadMinorVersion
  <2> DEFINE e == Value("binary_format_minor_version")
             status == TypedStatus(e, UInt16)
  <2>1. /\ pc = "minor" /\ UNCHANGED databaseVars /\ UNCHANGED OtherVars
        /\ ReadOf(e, Metadata) /\ Step(status, mmdb, "epoch")
    BY <1>2 DEF ReadMinorVersion, databaseVars
  <2>2. pc \in FromCount /\ pc \notin FromSizes
    BY <2>1 DEF FromCount, FromSize, FromVersion, FromType, FromLanguages, FromMajor, FromSizes
  <2>3. mmdb \in HandleType /\ e \in Inside(Metadata) /\ e \in Entries
    BY <2>2, Reading
  <2>4. status \in ReadStatuses /\ NumbersKept(mmdb)
    BY <2>3, StatusOfRead DEF NumbersKept
  <2> HIDE DEF e, status
  <2> QED BY <2>1, <2>3, <2>4, ReadVersionInv
<1>3. CASE ReadBuildEpoch
  <2> DEFINE e == Value("build_epoch")
             status == NumberStatus(e, UInt64)
  <2>1. /\ pc = "epoch" /\ UNCHANGED databaseVars /\ UNCHANGED OtherVars
        /\ ReadOf(e, Metadata) /\ Step(status, mmdb, "description")
    BY <1>3 DEF ReadBuildEpoch, databaseVars
  <2>2. pc \in FromCount /\ pc \notin FromSizes
    BY <2>1 DEF FromCount, FromSize, FromVersion, FromType, FromLanguages, FromMajor, FromSizes
  <2>3. mmdb \in HandleType /\ e \in Inside(Metadata) /\ e \in Entries
    BY <2>2, Reading
  <2>4. status \in ReadStatuses /\ NumbersKept(mmdb)
    BY <2>3, StatusOfRead DEF NumbersKept
  <2> HIDE DEF e, status
  <2> QED BY <2>1, <2>3, <2>4, ReadVersionInv
<1> QED BY <1>1, <1>2, <1>3

LEMMA ReadDescriptionInv ==
  ASSUME OpenInv, ReadDescription
  PROVE  OpenInv'
<1> DEFINE e == Value("description")
           status == TypedStatus(e, Map)
           list == DataList(Metadata, e.offset)
           counted == [mmdb EXCEPT !.described = TRUE]
<1>1. /\ pc = "description" /\ UNCHANGED <<content, nodeCount, ipVersion>>
      /\ UNCHANGED <<startVars, lookupVars, walkVars>>
  BY DEF ReadDescription, OtherVars
<1>2. /\ pc \in FromCount /\ pc \notin FromSizes /\ pc \in FromType /\ pc \in FromSize /\ pc \in FromVersion
      /\ "sizes" \in FromSizes /\ "sizes" \in FromMap /\ "sizes" \in FromMarker
      /\ "sizes" \notin HavingSizes
      /\ HeldAt("sizes", FALSE) = HeldAt(pc, FALSE)
      /\ HeldAt("sizes", TRUE) = HeldAt(pc, FALSE) \union {"descriptions"}
  BY <1>1 DEF HeldAt, FromMap, FromMarker, FromCount, FromSize, FromVersion, FromType,
              FromLanguages, FromMajor, FromSizes, HavingSizes
<1>3. /\ mmdb \in HandleType /\ mmdb.status = "ok" /\ mmdb.mapped /\ mmdb.described = FALSE
      /\ held = HeldAt(pc, FALSE) /\ pc \in FromMap /\ Section(Metadata)
      /\ WalkFromRoot /\ mmdb.metadata \in MarkerEnds
      /\ e \in Inside(Metadata) /\ e \in Entries
  BY <1>2, Reading
<1>4. /\ status \in ReadStatuses /\ ReadStatuses \subseteq Statuses
      /\ "out_of_memory" \in Statuses /\ "invalid_metadata" \in Statuses
  BY <1>3, StatusOfRead DEF ReadStatuses, Statuses
<1>5. e.offset \in Nat
  BY <1>3 DEF Entries
<1>6. list \in ListsInside(Metadata)
  BY <1>3, <1>5, DataListInside
<1>7. list.status \in ReadStatuses
  BY <1>6 DEF ListsInside, Lists, ReadStatuses
<1>8. ReadOf(e, Metadata) \/ ReadOf(list, Metadata)
  BY DEF ReadDescription
<1>9. SectionInv'
  <2>1. \E end \in Nat : Within(Metadata, end) /\ furthest' = <<end, Len(Metadata)>>
    BY <1>3, <1>6, <1>8 DEF ReadOf, Inside, ListsInside, Entries, Lists
  <2> QED BY <1>1, <1>2, <2>1, ReadKept DEF OpenInv
<1>10. \/ status # "ok" /\ Fail(mmdb, status, {}) /\ UNCHANGED recordLength
       \/ list.status # "ok" /\ Fail(mmdb, list.status, {"list"}) /\ UNCHANGED recordLength
       \/ Proceed(mmdb, "sizes", {}) /\ recordLength' = (mmdb.recordSize * 2) \div 8
       \/ Proceed(counted, "sizes", {"descriptions"}) /\ recordLength' = (mmdb.recordSize * 2) \div 8
       \/ Fail(counted, "invalid_metadata", {"descriptions"}) /\ UNCHANGED recordLength
       \/ /\ \/ Fail(mmdb, "out_of_memory", {})
             \/ Fail(mmdb, "out_of_memory", {"list"})
             \/ Fail(mmdb, "out_of_memory", {"descriptions"})
             \/ Fail(counted, "out_of_memory", {"descriptions"})
          /\ UNCHANGED recordLength
  BY DEF ReadDescription
<1>11. /\ NumbersKept(counted) /\ NumbersKept(mmdb)
       /\ counted.status = "ok" /\ counted.mapped /\ counted.described = TRUE
  BY <1>3 DEF HandleType, NumbersKept
<1>12. nodeCount \in Nat \ {0} /\ mmdb.recordSize \in {24, 28, 32} /\ ipVersion \in {4, 6}
  BY <1>2 DEF OpenInv, FileInv
<1> HIDE DEF e, status, list, counted
<1>13. ASSUME NEW m \in {mmdb, counted}, NEW taken \in SUBSET {"descriptions"},
              Proceed(m, "sizes", taken), m.described <=> taken # {},
              recordLength' = (mmdb.recordSize * 2) \div 8
       PROVE  OpenInv'
  <2>1. /\ NumbersKept(m) /\ m \in HandleType /\ m.status = "ok" /\ m.mapped /\ m.described \in BOOLEAN
        /\ m.metadata = mmdb.metadata
    BY <1>3, <1>11 DEF NumbersKept
  <2>2. held \union taken = HeldAt("sizes", m.described)
    BY <1>2, <1>3, <1>13, <2>1
  <2>3. HeldInv'
    BY <1>2, <1>3, <1>13, <2>1, <2>2, Proceeding DEF OpenInv
  <2>4. pc' = "sizes" /\ mmdb' = m /\ recordLength' \in {6, 7, 8}
    BY <1>12, <1>13 DEF Proceed
  <2>5. WalkFromRoot'
    BY <1>1, <1>3 DEF WalkFromRoot, startVars, lookupVars, walkVars, NoResult
  <2>6. /\ content' \in Seq(Byte) /\ MarkerEnds' = MarkerEnds
        /\ HandleType' = HandleType
    BY <1>1, SameContent DEF OpenInv
  <2>7. FileInv'
    BY <1>1, <1>2, <1>3, <1>12, <2>1, <2>4, <2>5, <2>6
       DEF NumbersKept, FileInv, FromMap, FromMarker, FromCount, FromSize, FromVersion, FromType,
           FromLanguages, FromMajor, FromSizes, HavingSizes
  <2> QED BY <1>9, <2>3, <2>7 DEF OpenInv
<1>14. ASSUME NEW m \in {mmdb, counted},
              NEW s \in {status, list.status, "out_of_memory", "invalid_metadata"}, s # "ok",
              NEW taken \in SUBSET {"list", "descriptions"}, Fail(m, s, taken),
              "descriptions" \in taken => m = counted \/ s = "out_of_memory",
              m = counted => "descriptions" \in taken,
              UNCHANGED recordLength
       PROVE  OpenInv'
  <2>1. s \in Statuses \ {"ok"} /\ s \notin {"file_open", "io"}
    BY <1>4, <1>7, <1>14 DEF ReadStatuses
  <2>2. /\ m \in HandleType /\ m.mapped /\ (mmdb.described => m.described)
        /\ m.described => mmdb.described \/ "descriptions" \in taken
    BY <1>3, <1>11, <1>14 DEF NumbersKept
  <2>3. m = counted => "descriptions" \in Releases(m)
    BY <1>11 DEF Releases
  <2>4. taken \ Releases(m) \subseteq
          {"list"} \union (IF s = "out_of_memory" THEN {"descriptions"} ELSE {})
    BY <1>14, <2>3
  <2>5. HeldInv'
    <3>1. pc # "open" /\ pc # "marker" /\ pc \in {"open"} \union FromMap
      BY <1>1, <1>3
    <3> QED BY <1>3, <1>14, <2>1, <2>2, <2>4, <3>1, Failing DEF OpenInv
  <2>6. FileInv'
    BY <1>1, <1>14, <2>1, <2>2, FileFailed DEF OpenInv
  <2> QED BY <1>9, <2>5, <2>6 DEF OpenInv
<1>15. mmdb # counted
  BY <1>3, <1>11
<1>16. CASE /\ Proceed(mmdb, "sizes", {}) /\ recordLength' = (mmdb.recordSize * 2) \div 8
  BY <1>3, <1>13, <1>16
<1>17. CASE /\ Proceed(counted, "sizes", {"descriptions"})
            /\ recordLength' = (mmdb.recordSize * 2) \div 8
  <2>1. {"descriptions"} # {} /\ counted.described <=> TRUE
    BY <1>11
  <2> QED BY <1>13, <1>17, <2>1
<1>18. CASE status # "ok" /\ Fail(mmdb, status, {}) /\ UNCHANGED recordLength
  BY <1>14, <1>18, <1>15
<1>19. CASE list.status # "ok" /\ Fail(mmdb, list.status, {"list"}) /\ UNCHANGED recordLength
  BY <1>14, <1>19, <1>15
<1>20. CASE Fail(counted, "invalid_metadata", {"descriptions"}) /\ UNCHANGED recordLength
  BY <1>14, <1>20
<1>21. CASE /\ \/ Fail(mmdb, "out_of_memory", {})
               \/ Fail(mmdb, "out_of_memory", {"list"})
               \/ Fail(mmdb, "out_of_memory", {"descriptions"})
               \/ Fail(counted, "out_of_memory", {"descriptions"})
            /\ UNCHANGED recordLength
  BY <1>14, <1>21, <1>15
<1> QED BY <1>10, <1>16, <1>17, <1>18, <1>19, <1>20, <1>21

\* What the tree of an opened database starts with.
LEMMA TreeBegins ==
  (TreeInit => TreeInv)'
BY TreeInitInv, PTL

LEMMA CheckSizesInv ==
  ASSUME OpenInv, CheckSizes
  PROVE  OpenInv'
<1> DEFINE left == Len(content) - TreeSize - Separator
           next == IF ipVersion = 6 THEN "start" ELSE "ready"
<1>1. /\ pc = "sizes" /\ UNCHANGED <<content, nodeCount, recordLength, ipVersion, furthest>>
      /\ UNCHANGED <<startVars, lookupVars, walkVars>>
      /\ dataSize' = left
      /\ \/ HasRoom /\ left \in 3 .. Word - 1 /\ Proceed(Placed, next, {})
         \/ \E m \in {mmdb, Placed}, status \in {"unknown_format", "invalid_metadata", "invalid_data"} :
              Fail(m, status, {})
  BY DEF CheckSizes, OtherVars
<1>2. /\ pc \in FromMap /\ pc \in FromMarker /\ pc \in FromSizes /\ pc \in FromCount
      /\ pc \in FromSize /\ pc \in FromVersion /\ pc \in FromType
      /\ next \in FromMarker /\ next \in FromSizes /\ next \in HavingSizes
      /\ HeldAt(next, mmdb.described) = HeldAt(pc, mmdb.described)
  BY <1>1 DEF HeldAt, FromMap, FromMarker, FromCount, FromSize, FromVersion, FromType,
              FromLanguages, FromMajor, FromSizes, HavingSizes
<1>3. /\ mmdb \in HandleType /\ WalkFromRoot /\ mmdb.metadata \in MarkerEnds
      /\ nodeCount \in Nat \ {0} /\ recordLength \in {6, 7, 8} /\ ipVersion \in {4, 6}
      /\ mmdb.recordSize \in {24, 28, 32} /\ content \in Seq(Byte)
  BY <1>1, <1>2 DEF OpenInv, FileInv
<1>4. /\ mmdb.status = "ok" /\ mmdb.mapped /\ held = HeldAt(pc, mmdb.described)
  BY <1>2 DEF OpenInv, HeldInv, OpenHeld
<1>5. \A m \in {mmdb, Placed} :
        /\ m \in HandleType /\ m.metadata = mmdb.metadata /\ m.recordSize = mmdb.recordSize
        /\ m.status = "ok" /\ m.mapped /\ m.mapped = mmdb.mapped /\ m.described = mmdb.described
  BY <1>3, <1>4 DEF HandleType, Placed
<1>7. SectionInv'
  BY <1>1, SameContent DEF OpenInv, SectionInv, ReadsInsideSection
<1> HIDE DEF next, Placed
<1>9. CASE HasRoom /\ left \in 3 .. Word - 1 /\ Proceed(Placed, next, {})
  <2>0. HeldInv'
    <3>1. held \union {} = HeldAt(next, Placed.described)
      BY <1>2, <1>4, <1>5
    <3>2. /\ Placed \in HandleType /\ Placed.status = "ok" /\ Placed.mapped
          /\ next \in FromMap /\ pc \in {"open"} \union FromMap
      BY <1>2, <1>5 DEF FromMap
    <3> QED BY <1>2, <1>9, <3>1, <3>2, Proceeding DEF OpenInv
  <2>1. pc' = next /\ mmdb' = Placed
    BY <1>9 DEF Proceed
  <2>2. left \in 3 .. Word - 1
    BY <1>9
  <2>3. TreeSize \in Nat
    BY <1>3 DEF TreeSize
  <2>4. Len(content) = nodeCount * recordLength + Separator + left
    <3>1. Len(content) \in Nat /\ Separator \in Nat
      BY <1>3, TreeAssumption
    <3>2. PICK size \in Nat : size = TreeSize
      BY <2>3
    <3>3. Len(content) = size + Separator + left
      BY <3>1, <3>2
    <3> QED BY <3>2, <3>3 DEF TreeSize
  <2> HIDE DEF left
  <2>5. SizesChecked'
    BY <1>1, <1>3, <2>2, <2>4 DEF SizesChecked
  <2>6. WalkFromRoot'
    BY <1>1, <1>3 DEF WalkFromRoot, startVars, lookupVars, walkVars, NoResult
  <2>7. TreeInit'
    BY <1>1, <1>3, <2>1, <2>5, <2>6 DEF TreeInit, Byte, next
  <2>8. TreeInv'
    BY <2>7, TreeBegins
  <2>9. /\ content' \in Seq(Byte) /\ MarkerEnds' = MarkerEnds
        /\ HandleType' = HandleType
    BY <1>1, SameContent DEF OpenInv
  <2>10. pc' \in {"start", "ready"}
    BY <2>1 DEF next
  <2>11. FileInv'
    BY <1>1, <1>3, <1>5, <2>1, <2>2, <2>8, <2>9, <2>10
       DEF FileInv, FromMap, FromMarker, FromCount, FromSize, FromVersion, FromType,
           FromLanguages, FromMajor, FromSizes, HavingSizes
  <2> QED BY <1>7, <2>0, <2>11 DEF OpenInv
<1>10. ASSUME NEW m \in {mmdb, Placed},
              NEW status \in {"unknown_format", "invalid_metadata", "invalid_data"}, Fail(m, status, {})
       PROVE  OpenInv'
  <2>1. status \in Statuses \ {"ok"}
    BY DEF Statuses
  <2>2. HeldInv'
    BY <1>1, <1>2, <1>5, <1>10, <2>1, Failing DEF OpenInv
  <2>3. FileInv'
    BY <1>1, <1>5, <1>10, <2>1, FileFailed DEF OpenInv
  <2> QED BY <1>7, <2>2, <2>3 DEF OpenInv
<1> QED BY <1>1, <1>9, <1>10

-----------------------------------------------------------------------------
(* The searches, the end, and what ipdb.cpp asks.                          *)

LEMMA Searching ==
  ASSUME OpenInv, pc \in HavingSizes, pc' \in HavingSizes, [TreeNext]_treeVars,
         UNCHANGED databaseVars, UNCHANGED openVars
  PROVE  OpenInv'
<1>1. UNCHANGED <<content, nodeCount, recordLength, ipVersion, dataSize, mmdb, held, faults, furthest>>
  BY DEF databaseVars, openVars
<1>2. /\ HavingSizes \subseteq FromSizes /\ FromSizes \subseteq FromMajor /\ FromMajor \subseteq FromLanguages
      /\ FromLanguages \subseteq FromType /\ FromType \subseteq FromVersion /\ FromVersion \subseteq FromSize
      /\ FromSize \subseteq FromCount /\ FromCount \subseteq FromMarker /\ FromMarker \subseteq FromMap
      /\ \A p \in HavingSizes : p \notin {"open", "sizes", "failed"}
  BY DEF FromMap, FromMarker, FromCount, FromSize, FromVersion, FromType,
         FromLanguages, FromMajor, FromSizes, HavingSizes
<1>3. /\ TreeInv /\ dataSize \in 3 .. Word - 1 /\ mmdb.metadata \in MarkerEnds /\ mmdb \in HandleType
      /\ nodeCount \in Nat \ {0} /\ mmdb.recordSize \in {24, 28, 32} /\ ipVersion \in {4, 6}
      /\ recordLength \in {6, 7, 8}
  BY <1>2 DEF OpenInv, FileInv
<1>4. TreeInv'
  BY <1>3, TreeStep
<1>5. /\ content' \in Seq(Byte) /\ MarkerEnds' = MarkerEnds
      /\ HandleType' = HandleType
  BY <1>1, SameContent DEF OpenInv
<1>6. /\ pc' \in FromMap' /\ pc' \notin {"open", "sizes"} \union (FromMap \ FromSizes)'
      /\ pc' \in FromSizes
  BY <1>2 DEF FromMap, FromMarker, FromCount, FromSize, FromVersion, FromType,
              FromLanguages, FromMajor, FromSizes
<1>7. FileInv'
  BY <1>1, <1>3, <1>4, <1>5, <1>6 DEF FileInv
<1>8. /\ pc \in FromMap /\ pc \in FromSizes /\ mmdb.status = "ok" /\ mmdb.mapped
      /\ held = HeldAt(pc, mmdb.described)
  BY <1>2 DEF OpenInv, HeldInv, OpenHeld
<1>9. HeldAt(pc, mmdb.described) = HeldAt(pc', mmdb.described)
  BY <1>2 DEF HeldAt
<1>10. OpenHeld'
  BY <1>1, <1>2, <1>8, <1>9
     DEF OpenHeld, HeldAt, FromMap, FromMarker, FromCount, FromSize, FromVersion, FromType,
         FromLanguages, FromMajor, FromSizes
<1>11. OpenReleases'
  BY <1>1, <1>2 DEF OpenInv, HeldInv, OpenReleases, HavingSizes, NeedsHeld, Releases
<1>12. /\ pc' \notin {"open", "failed"} /\ pc # "failed"
       /\ pc' \notin (FromMap \ FromSizes)'
  BY <1>2, <1>6
<1>13. HeldInv'
  BY <1>1, <1>10, <1>11, <1>12 DEF OpenInv, HeldInv, ReleasesOnlyTaken
<1>14. SectionInv'
  BY <1>1, SameContent DEF OpenInv, SectionInv, ReadsInsideSection
<1> QED BY <1>7, <1>13, <1>14 DEF OpenInv

LEMMA OpenStep ==
  ASSUME OpenInv, Open
  PROVE  OpenInv'
<1>1. CASE StartOfIPv4
  <2>1. /\ pc \in HavingSizes /\ pc' \in HavingSizes
        /\ [TreeNext]_treeVars /\ UNCHANGED databaseVars /\ UNCHANGED openVars
    BY <1>1 DEF StartOfIPv4, FindStartNode, FoundStartNode, TreeNext, HavingSizes
  <2> QED BY <2>1, Searching
<1> QED
  BY <1>1, BeginInv, MapFileInv, FindMetadataInv, ReadNodeCountInv, ReadRecordSizeInv,
     ReadIPVersionInv, ReadDatabaseTypeInv, ReadLanguagesInv, ReadVersionsInv, ReadDescriptionInv,
     CheckSizesInv
     DEF Open

\* The fields that are still to be read, in the words of Fields.
Words ==
  {"city", "names", "zh-CN", "country", "location", "latitude", "longitude", "accuracy_radius",
   "isp", "organization", "autonomous_system_number", "autonomous_system_organization",
   "cityName", "countryName", "accuracyRadius", "org", "asn", "asOrg",
   "text", "place", "number", "en", ""}

Asked == [name : Words, kind : Words, path : Seq(Words), instead : Words]

AskInv ==
  /\ asking \in Seq(Asked)
  /\ asking # <<>> => pc = "answered" /\ result.offset \in Nat

IPDBInv == OpenInv /\ AskInv

LEMMA ShortSeqs ==
  ASSUME NEW S, NEW a \in S, NEW b \in S, NEW c \in S
  PROVE  <<a>> \in Seq(S) /\ <<a, b>> \in Seq(S) /\ <<a, b, c>> \in Seq(S)
OBVIOUS

LEMMA FieldsAsked ==
  ASSUME NEW db
  PROVE  Fields(db) \in Seq(Asked)
<1>0. /\ "city" \in Words /\ "names" \in Words /\ "zh-CN" \in Words /\ "country" \in Words
      /\ "location" \in Words /\ "latitude" \in Words /\ "longitude" \in Words
      /\ "accuracy_radius" \in Words /\ "isp" \in Words /\ "organization" \in Words
      /\ "autonomous_system_number" \in Words /\ "autonomous_system_organization" \in Words
      /\ "cityName" \in Words /\ "countryName" \in Words /\ "accuracyRadius" \in Words
      /\ "org" \in Words /\ "asn" \in Words /\ "asOrg" \in Words /\ "text" \in Words
      /\ "place" \in Words /\ "number" \in Words /\ "en" \in Words /\ "" \in Words
  BY DEF Words
<1>1. \A name, kind, instead \in Words : \A path \in Seq(Words) : Field(name, kind, path, instead) \in Asked
  BY DEF Field, Asked
<1>2. /\ <<"city", "names", "zh-CN">> \in Seq(Words) /\ <<"country", "names", "zh-CN">> \in Seq(Words)
      /\ <<"location", "latitude">> \in Seq(Words) /\ <<"location", "longitude">> \in Seq(Words)
      /\ <<"location", "accuracy_radius">> \in Seq(Words) /\ <<"isp">> \in Seq(Words)
      /\ <<"organization">> \in Seq(Words) /\ <<"autonomous_system_number">> \in Seq(Words)
      /\ <<"autonomous_system_organization">> \in Seq(Words)
  <2>1. \A a, b, c \in Words :
          <<a>> \in Seq(Words) /\ <<a, b>> \in Seq(Words) /\ <<a, b, c>> \in Seq(Words)
    BY ShortSeqs
  <2> QED BY <1>0, <2>1, Zenon
<1>3. \A a, b, c, d, e \in Asked : <<a, b, c, d, e>> \in Seq(Asked) /\ <<a, b, c, d>> \in Seq(Asked)
  OBVIOUS
<1>4. /\ Field("cityName", "text", <<"city", "names", "zh-CN">>, "en") \in Asked
      /\ Field("countryName", "text", <<"country", "names", "zh-CN">>, "en") \in Asked
      /\ Field("latitude", "place", <<"location", "latitude">>, "") \in Asked
      /\ Field("longitude", "place", <<"location", "longitude">>, "") \in Asked
      /\ Field("accuracyRadius", "place", <<"location", "accuracy_radius">>, "") \in Asked
      /\ Field("isp", "text", <<"isp">>, "") \in Asked
      /\ Field("org", "text", <<"organization">>, "") \in Asked
      /\ Field("asn", "number", <<"autonomous_system_number">>, "") \in Asked
      /\ Field("asOrg", "text", <<"autonomous_system_organization">>, "") \in Asked
  BY <1>0, <1>1, <1>2, Zenon
<1> HIDE DEF Field, Asked
<1> QED BY <1>3, <1>4, Zenon DEF Fields

LEMMA KeysLen ==
  ASSUME NEW path \in Seq(Words)
  PROVE  Len(Keys(path)) \in Nat
<1> DEFINE S == {Key[k] : k \in Words}
<1>1. DOMAIN path = 1 .. Len(path) /\ Len(path) \in Nat /\ \A i \in 1 .. Len(path) : path[i] \in Words
  OBVIOUS
<1>2. Keys(path) \in [1 .. Len(path) -> S]
  BY <1>1 DEF Keys
<1>3. Keys(path) \in Seq(S)
  <2>1. PICK n \in Nat : n = Len(path)
    BY <1>1
  <2>2. Keys(path) \in [1 .. n -> S]
    BY <1>2, <2>1
  <2> HIDE DEF S
  <2>3. Seq(S) = UNION {[1 .. m -> S] : m \in Nat}
    BY SeqDef
  <2> QED BY <2>2, <2>3, Zenon
<1> QED BY <1>3

LEMMA AskKept ==
  ASSUME AskInv, UNCHANGED asking, asking = <<>> \/ (UNCHANGED result /\ UNCHANGED pc)
  PROVE  AskInv'
BY DEF AskInv

LEMMA AskStep ==
  ASSUME IPDBInv, Ask
  PROVE  IPDBInv'
<1> DEFINE field == Head(asking)
           gets == AGet(Data, result.offset, Keys(field.path))
           again == [field EXCEPT !.path = Append(Front(@), field.instead), !.instead = ""]
<1>1. asking # <<>> /\ asking \in Seq(Asked) /\ pc = "answered" /\ result.offset \in Nat
  BY DEF Ask, IPDBInv, AskInv
<1>2. field \in Asked /\ Tail(asking) \in Seq(Asked)
  BY <1>1
<1>3. field.path \in Seq(Words) /\ field.instead \in Words
  BY <1>2 DEF Asked
<1>4. Front(field.path) \in Seq(Words)
  <2>1. \A i \in 1 .. Len(field.path) - 1 : i \in 1 .. Len(field.path)
    BY <1>3
  <2> HIDE DEF field
  <2> QED BY <1>3, <2>1 DEF Front
<1>5. again \in Asked
  <2>1. Append(Front(field.path), field.instead) \in Seq(Words)
    BY <1>3, <1>4
  <2>2. \A f \in Asked : \A p \in Seq(Words) : \A w \in Words :
          [f EXCEPT !.path = p, !.instead = w] \in Asked
    BY DEF Asked
  <2>3. "" \in Words
    BY DEF Words
  <2> HIDE DEF field
  <2> QED BY <1>2, <2>1, <2>2, <2>3, Zenon
<1>6. gets \in Inside(Data)
  <2>1. Section(Data)
    BY <1>1, DataSectionOK DEF IPDBInv, OpenInv, HavingSizes
  <2>2. Len(Keys(field.path)) \in Nat
    BY <1>3, KeysLen
  <2> HIDE DEF field
  <2> QED BY <1>1, <2>1, <2>2, AGetInside
<1>7. /\ UNCHANGED treeVars /\ UNCHANGED <<mmdb, held, faults>>
      /\ furthest' \in {<<gets.end, Len(Data)>>, <<0, Len(Data)>>}
      /\ asking' \in {Tail(asking), <<again>> \o Tail(asking)}
  <2>1. PICK e \in GetValue(Data, result.offset, Keys(field.path)) :
          /\ ReadOf(e, Data)
          /\ asking' \in {Tail(asking), <<again>> \o Tail(asking)}
    BY DEF Ask
  <2>2. e.end \in {gets.end, 0}
    BY <2>1 DEF GetValue, Entry
  <2>3. UNCHANGED treeVars /\ UNCHANGED <<mmdb, held, faults>>
    BY DEF Ask
  <2> QED BY <2>1, <2>2, <2>3 DEF ReadOf
<1> HIDE DEF gets, field, again
<1>8. UNCHANGED <<content, nodeCount, recordLength, ipVersion, dataSize, pc, result>>
      /\ UNCHANGED <<startVars, lookupVars, walkVars>>
  BY <1>7 DEF treeVars, databaseVars, lookupVars
<1>9. SectionInv'
  <2>1. Len(Data) >= 3
    BY <1>1, DataSectionOK DEF IPDBInv, OpenInv, HavingSizes
  <2> QED BY <1>6, <1>7, <2>1 DEF SectionInv, ReadsInsideSection, Inside, Within
<1>10. asking' \in Seq(Asked)
  <2>1. \A x \in Asked : \A s \in Seq(Asked) : <<x>> \o s \in Seq(Asked)
    OBVIOUS
  <2>2. <<again>> \o Tail(asking) \in Seq(Asked)
    BY <1>2, <1>5, <2>1, Zenon
  <2> QED BY <1>2, <1>7, <2>2
<1>11. AskInv'
  BY <1>1, <1>8, <1>10 DEF AskInv, Asked
<1>12. FileInv'
  <2>1. /\ content' \in Seq(Byte) /\ MarkerEnds' = MarkerEnds
        /\ HandleType' = HandleType
    BY <1>8, SameContent DEF IPDBInv, OpenInv
  <2>2. pc \in HavingSizes /\ pc \notin {"open", "sizes"} \union (FromMap \ FromSizes)
    BY <1>1 DEF FromSizes, HavingSizes
  <2>3. TreeInv'
    BY <1>7, <2>2, TreeStep DEF IPDBInv, OpenInv, FileInv
  <2> QED
    BY <1>7, <1>8, <2>1, <2>2, <2>3
       DEF IPDBInv, OpenInv, FileInv, FromMap, FromMarker, FromCount, FromSize, FromVersion,
           FromType, FromLanguages, FromMajor, FromSizes, HavingSizes
<1>13. HeldInv'
  BY <1>7, <1>8 DEF IPDBInv, OpenInv, HeldInv, OpenHeld, HeldAt, OpenReleases, ReleasesOnlyTaken,
         NeedsHeld, Releases, FromMap, FromMarker, FromCount, FromSize, FromVersion, FromType,
         FromLanguages, FromMajor, FromSizes
<1> QED BY <1>9, <1>11, <1>12, <1>13 DEF IPDBInv, OpenInv

LEMMA LookUpStep ==
  ASSUME IPDBInv, NEW f \in {4, 6}, NEW a \in Bits(IF f = 4 THEN V4Bits ELSE V6Bits), LookUp(f, a)
  PROVE  IPDBInv'
<1>1. /\ asking = <<>> /\ UNCHANGED asking /\ UNCHANGED openVars
      /\ Lookup(f, a) \/ RefuseLookup(f)
  BY DEF LookUp
<1>2. pc \in HavingSizes /\ pc' \in HavingSizes /\ UNCHANGED databaseVars
  BY <1>1 DEF Lookup, RefuseLookup, HavingSizes
<1>3. TreeNext
  <2>1. CASE f = 4
    <3>1. a \in Bits(V4Bits) /\ Lookup(4, a)
      BY <1>1, <2>1 DEF RefuseLookup
    <3> QED BY <3>1 DEF TreeNext
  <2>2. CASE f = 6
    <3>1. a \in Bits(V6Bits) /\ (Lookup(6, a) \/ RefuseLookup(6))
      BY <1>1, <2>2
    <3> QED BY <3>1 DEF TreeNext
  <2> QED BY <2>1, <2>2
<1>4. OpenInv'
  BY <1>1, <1>2, <1>3, Searching DEF IPDBInv
<1>5. AskInv'
  BY <1>1, AskKept DEF IPDBInv
<1> QED BY <1>4, <1>5 DEF IPDBInv

LEMMA LookUpUnopenedStep ==
  ASSUME IPDBInv, NEW f \in {4, 6}, LookUpUnopened(f)
  PROVE  IPDBInv'
<1>1. /\ pc = "failed" /\ UNCHANGED <<content, pc, mmdb, held, furthest, asking>>
      /\ faults' \in {faults, faults \union {"tree"}}
  BY DEF LookUpUnopened, Refused, databaseVars
<1>2. asking = <<>>
  BY <1>1 DEF IPDBInv, AskInv
<1>3. AskInv'
  BY <1>1, <1>2, AskKept DEF IPDBInv
<1>4. /\ pc' \notin {"open", "sizes"} /\ pc' \notin FromMap' /\ pc' \notin HavingSizes'
      /\ pc' \notin FromCount' /\ pc' \notin FromSize' /\ pc' \notin FromVersion' /\ pc' \notin FromType'
      /\ pc' \notin FromSizes'
  BY <1>1 DEF FromMap, FromMarker, FromCount, FromSize, FromVersion, FromType,
              FromLanguages, FromMajor, FromSizes, HavingSizes
<1>5. FileInv'
  <2>1. content' \in Seq(Byte) /\ mmdb' \in HandleType'
    BY <1>1, SameContent DEF IPDBInv, OpenInv, FileInv
  <2> QED BY <1>1, <1>4, <2>1 DEF FileInv
<1>6. ReleasesOnlyTaken'
  BY <1>1 DEF IPDBInv, OpenInv, HeldInv, ReleasesOnlyTaken
<1>7. OpenReleases' /\ OpenHeld'
  BY <1>1, <1>4 DEF IPDBInv, OpenInv, HeldInv, OpenReleases, OpenHeld
<1>8. HeldInv'
  BY <1>1, <1>4, <1>6, <1>7 DEF HeldInv
<1>9. SectionInv'
  BY <1>1, SameContent DEF IPDBInv, OpenInv, SectionInv, ReadsInsideSection
<1> QED BY <1>3, <1>5, <1>8, <1>9 DEF IPDBInv, OpenInv

LEMMA FoundStep ==
  ASSUME IPDBInv, Found
  PROVE  IPDBInv'
<1>1. /\ EndWalk /\ UNCHANGED openVars
      /\ asking' = asking \/ (result'.found /\ asking' = Fields(database))
  BY DEF Found, NothingFound
<1>2. /\ pc = "walk" /\ pc' = "answered" /\ result' = Outcome /\ UNCHANGED databaseVars
      /\ pc \in HavingSizes /\ pc' \in HavingSizes
  BY <1>1 DEF EndWalk, HavingSizes
<1>3. OpenInv'
  <2>1. TreeNext
    BY <1>1 DEF TreeNext
  <2> QED BY <1>1, <1>2, <2>1, Searching DEF IPDBInv
<1>4. asking = <<>>
  BY <1>2 DEF IPDBInv, AskInv
<1>5. CASE asking' = asking
  BY <1>3, <1>4, <1>5, AskKept DEF IPDBInv
<1>6. CASE result'.found /\ asking' = Fields(database)
  <2>1. value \in Nat /\ nodeCount \in Nat /\ Separator \in Nat /\ Word \in Nat /\ Word > 0
    BY <1>2, WordAssumption, TreeAssumption
       DEF IPDBInv, OpenInv, FileInv, TreeInv, WalkLoop, DatabaseOK, SizesChecked
  <2>2. DataOffset(value) \in Nat
    <3>1. value - nodeCount - Separator \in Int
      BY <2>1
    <3>2. \A i \in Int, b \in Nat : b > 0 => i % b \in Nat
      BY Remainder
    <3> QED BY <2>1, <3>1, <3>2, Zenon DEF DataOffset
  <2>3. result'.offset \in Nat
    BY <1>2, <1>6, <2>2 DEF Outcome, NoResult
  <2>4. asking' \in Seq(Asked)
    BY <1>6, FieldsAsked
  <2>5. AskInv'
    BY <1>2, <2>3, <2>4 DEF AskInv, Asked, Words
  <2> QED BY <1>3, <2>5 DEF IPDBInv
<1> QED BY <1>1, <1>5, <1>6

LEMMA IPDBInitInv ==
  ASSUME IPDBInit, content \in Seq(Byte)
  PROVE  IPDBInv
<1>1. /\ pc = "open" /\ WalkFromRoot /\ held = {} /\ faults = {}
      /\ furthest = <<0, 0>> /\ asking = <<>>
      /\ mmdb \in [status : {"ok"}, mapped : BOOLEAN, described : BOOLEAN, placed : BOOLEAN,
                   metadata : {0}, recordSize : {0}, major : {0}]
  BY DEF IPDBInit, OpenInit
<1>2. /\ pc \notin FromMap /\ pc \notin HavingSizes
      /\ pc \notin FromCount /\ pc \notin FromSize /\ pc \notin FromVersion /\ pc \notin FromType
      /\ pc \notin FromSizes
  BY <1>1 DEF FromMap, FromMarker, FromCount, FromSize, FromVersion, FromType,
              FromLanguages, FromMajor, FromSizes, HavingSizes
<1>3. mmdb \in HandleType
  BY <1>1 DEF HandleType, Statuses
<1>4. FileInv
  BY <1>1, <1>2, <1>3 DEF FileInv
<1>5. HeldInv
  BY <1>1, <1>2 DEF HeldInv, OpenHeld, OpenReleases, ReleasesOnlyTaken
<1>6. SectionInv
  BY <1>1 DEF SectionInv, ReadsInsideSection
<1>7. AskInv
  BY <1>1 DEF AskInv
<1> QED BY <1>4, <1>5, <1>6, <1>7 DEF IPDBInv, OpenInv

\* The file stays as it is.
LEMMA ContentKept ==
  ASSUME [IPDBNext]_ipdbAll
  PROVE  content' = content
<1>1. CASE UNCHANGED ipdbAll
  BY <1>1 DEF ipdbAll, dbAll, treeVars, databaseVars
<1>2. ASSUME Open PROVE content' = content
  BY <1>2
     DEF Open, Begin, MapFile, FindMetadata, ReadNodeCount, ReadRecordSize, ReadIPVersion,
         ReadDatabaseType, ReadLanguages, ReadMajorVersion, ReadMinorVersion, ReadBuildEpoch,
         ReadDescription, CheckSizes, StartOfIPv4, FindStartNode, FoundStartNode,
         databaseVars, OtherVars
<1>3. ASSUME NEW f, NEW a, LookUp(f, a) PROVE content' = content
  BY <1>3 DEF LookUp, Lookup, RefuseLookup, databaseVars
<1>4. ASSUME NEW f, LookUpUnopened(f) PROVE content' = content
  BY <1>4 DEF LookUpUnopened, databaseVars
<1>5. ASSUME Walk \/ Found \/ Ask PROVE content' = content
  BY <1>5 DEF Walk, Found, EndWalk, Ask, databaseVars, treeVars
<1> QED BY <1>1, <1>2, <1>3, <1>4, <1>5 DEF IPDBNext

LEMMA IPDBStep ==
  ASSUME IPDBInv, [IPDBNext]_ipdbAll
  PROVE  IPDBInv'
<1>1. CASE Open /\ UNCHANGED <<database, documents, ipdbVars>>
  <2>1. OpenInv'
    BY <1>1, OpenStep DEF IPDBInv
  <2>2. pc # "answered"
    BY <1>1 DEF Open, Begin, MapFile, FindMetadata, ReadNodeCount, ReadRecordSize, ReadIPVersion,
       ReadDatabaseType, ReadLanguages, ReadMajorVersion, ReadMinorVersion, ReadBuildEpoch,
       ReadDescription, CheckSizes, StartOfIPv4, FindStartNode, FoundStartNode
  <2>3. AskInv'
    BY <1>1, <2>2, AskKept DEF IPDBInv, AskInv, ipdbVars
  <2> QED BY <2>1, <2>3 DEF IPDBInv
<1>2. CASE \E a \in Bits(V4Bits) : LookUp(4, a)
  BY <1>2, LookUpStep
<1>3. CASE \E a \in Bits(V6Bits) : LookUp(6, a)
  BY <1>3, LookUpStep
<1>4. CASE \E f \in {4, 6} : LookUpUnopened(f)
  BY <1>4, LookUpUnopenedStep
<1>5. CASE Walk /\ UNCHANGED <<openVars, database, documents, ipdbVars>>
  <2>1. /\ pc = "walk" /\ pc' = "walk" /\ UNCHANGED databaseVars /\ TreeNext
        /\ UNCHANGED openVars /\ UNCHANGED asking
    BY <1>5 DEF Walk, TreeNext, ipdbVars
  <2>2. OpenInv'
    BY <2>1, Searching DEF IPDBInv, HavingSizes
  <2>3. AskInv'
    BY <2>1, AskKept DEF IPDBInv, AskInv
  <2> QED BY <2>2, <2>3 DEF IPDBInv
<1>6. CASE Found
  BY <1>6, FoundStep
<1>7. CASE Ask
  BY <1>7, AskStep
<1>8. CASE UNCHANGED ipdbAll
  <2>1. /\ UNCHANGED <<content, nodeCount, recordLength, ipVersion, dataSize, pc, result>>
        /\ UNCHANGED <<startVars, lookupVars, walkVars>> /\ UNCHANGED treeVars
        /\ UNCHANGED <<mmdb, held, faults, furthest, asking>>
    BY <1>8 DEF ipdbAll, dbAll, treeVars, databaseVars, openVars, ipdbVars, lookupVars
  <2>2. /\ content' \in Seq(Byte) /\ MarkerEnds' = MarkerEnds
        /\ HandleType' = HandleType
    BY <2>1, SameContent DEF IPDBInv, OpenInv
  <2>3. TreeInv => TreeInv'
    BY <2>1, TreeStep
  <2>4. WalkFromRoot => WalkFromRoot'
    BY <2>1 DEF WalkFromRoot, startVars, lookupVars, walkVars, NoResult
  <2>5. FileInv'
    BY <2>1, <2>2, <2>3, <2>4
       DEF IPDBInv, OpenInv, FileInv, FromMap, FromMarker, FromCount, FromSize, FromVersion,
           FromType, FromLanguages, FromMajor, FromSizes, HavingSizes
  <2>6. HeldInv'
    BY <2>1 DEF IPDBInv, OpenInv, HeldInv, OpenHeld, HeldAt, OpenReleases, ReleasesOnlyTaken,
           NeedsHeld, Releases, FromMap, FromMarker, FromCount, FromSize, FromVersion, FromType,
           FromLanguages, FromMajor, FromSizes
  <2>7. AskInv'
    BY <2>1, AskKept DEF IPDBInv
  <2>8. SectionInv'
    BY <2>1, SameContent DEF IPDBInv, OpenInv, SectionInv, ReadsInsideSection
  <2> QED BY <2>5, <2>6, <2>7, <2>8 DEF IPDBInv, OpenInv
<1> QED
  BY <1>1, <1>2, <1>3, <1>4, <1>5, <1>6, <1>7, <1>8 DEF IPDBNext

-----------------------------------------------------------------------------
(* At every point of opening a database and of asking it: what has been    *)
(* checked of the file, what is held, and what is still asked.             *)
THEOREM DatabaseInductive ==
  IPDBSpec => []IPDBInv
<1>1. IPDBInit /\ content \in Seq(Byte) => IPDBInv
  BY IPDBInitInv
<1>2. IPDBInv /\ [IPDBNext]_ipdbAll => IPDBInv'
  BY IPDBStep
<1> QED
  BY <1>1, <1>2, PTL DEF IPDBSpec

(* When MMDB_open fails, at whatever call and for whatever bytes, it holds *)
(* nothing but a list it could not use, and, out of memory, an array of    *)
(* descriptions; an open database holds what MMDB_close releases.          *)
THEOREM OpeningReleases ==
  IPDBSpec => []OpenReleases
<1>1. IPDBInv => OpenReleases
  BY DEF IPDBInv, OpenInv, HeldInv
<1> QED
  BY <1>1, DatabaseInductive, PTL

(* Wherever MMDB_open fails, its cleanup releases nothing but what it has  *)
(* taken, whatever the members of the handle were before.                  *)
THEOREM NothingElseReleased ==
  IPDBSpec => []ReleasesOnlyTaken
<1>1. IPDBInv => ReleasesOnlyTaken
  BY DEF IPDBInv, OpenInv, HeldInv
<1> QED
  BY <1>1, DatabaseInductive, PTL

(* Whatever the control bytes, sizes and pointers in the metadata and in   *)
(* the data say, and however deep the members are in each other, decode_one*)
(* and the loops over it read no byte beyond the end of the section; of    *)
(* the metadata, which the code does not check to be so long, when three   *)
(* bytes or more are behind the marker.                                    *)
THEOREM SectionNotLeft ==
  IPDBSpec /\ FullMetadata => []ReadsInsideSection
<1>1. IPDBInv /\ FullMetadata => ReadsInsideSection
  BY DEF IPDBInv, OpenInv, SectionInv
<1>2. IPDBInv /\ FullMetadata /\ [IPDBNext]_ipdbAll => FullMetadata'
  BY ContentKept, SameContent DEF IPDBInv, OpenInv
<1> QED
  BY <1>1, <1>2, DatabaseInductive, PTL DEF IPDBSpec

\* No record is read before the sizes are known.
NoneRead == pc \notin HavingSizes => startTrail = <<0>> /\ trail = <<0>>

LEMMA NoneReadStep ==
  ASSUME IPDBInv, NoneRead, [IPDBNext]_ipdbAll
  PROVE  NoneRead'
<1>1. ASSUME pc \notin HavingSizes, UNCHANGED <<startTrail, trail>> PROVE NoneRead'
  BY <1>1 DEF NoneRead
<1>2. ASSUME pc' \in HavingSizes PROVE NoneRead'
  BY <1>2 DEF NoneRead, HavingSizes
<1>3. CASE UNCHANGED ipdbAll
  BY <1>3 DEF NoneRead, HavingSizes, ipdbAll, dbAll, treeVars, startVars, walkVars
<1>4. CASE Open
  <2>1. CASE StartOfIPv4
    BY <1>2, <2>1 DEF StartOfIPv4, FindStartNode, FoundStartNode, HavingSizes
  <2>2. CASE ~StartOfIPv4
    <3>1. pc \notin HavingSizes /\ UNCHANGED OtherVars
      BY <1>4, <2>2
         DEF Open, Begin, MapFile, FindMetadata, ReadNodeCount, ReadRecordSize, ReadIPVersion,
             ReadDatabaseType, ReadLanguages, ReadMajorVersion, ReadMinorVersion, ReadBuildEpoch,
             ReadDescription, CheckSizes, OtherVars, databaseVars, HavingSizes
    <3> QED BY <1>1, <3>1 DEF OtherVars, startVars, walkVars
  <2> QED BY <2>1, <2>2
<1>5. ASSUME NEW f, NEW a, LookUp(f, a) PROVE NoneRead'
  BY <1>2, <1>5 DEF LookUp, Lookup, RefuseLookup, HavingSizes
<1>6. ASSUME NEW f, LookUpUnopened(f) PROVE NoneRead'
  BY <1>1, <1>6 DEF LookUpUnopened, HavingSizes, startVars, walkVars
<1>7. CASE Walk \/ Found
  BY <1>2, <1>7 DEF Walk, Found, EndWalk, HavingSizes
<1>8. CASE Ask
  <2>1. pc \in HavingSizes /\ pc' = pc
    BY <1>8 DEF Ask, IPDBInv, AskInv, HavingSizes, treeVars
  <2> QED BY <1>2, <2>1 DEF HavingSizes
<1> QED BY <1>3, <1>4, <1>5, <1>6, <1>7, <1>8 DEF IPDBNext

(* The sizes that MMDB_open accepts are such that every record any search  *)
(* of the program reads lies inside the tree and inside the file, in every *)
(* file, whatever its metadata say and its records point to.               *)
THEOREM TreeNotLeft ==
  IPDBSpec => []ReadsInsideTree
<1>1. IPDBInit => NoneRead
  BY DEF IPDBInit, OpenInit, WalkFromRoot, NoneRead
<1>2. IPDBInv /\ NoneRead /\ [IPDBNext]_ipdbAll => NoneRead'
  BY NoneReadStep
<1>3. IPDBInv /\ NoneRead => ReadsInsideTree
  <2>1. SUFFICES ASSUME IPDBInv, NoneRead PROVE ReadsInsideTree
    OBVIOUS
  <2>2. CASE pc \in HavingSizes
    BY <2>1, <2>2, NodesRead DEF IPDBInv, OpenInv, FileInv, TreeInv
  <2>3. CASE pc \notin HavingSizes
    <3>1. startTrail = <<0>> /\ trail = <<0>> /\ 1 .. Len(<<0>>) - 1 = {}
      BY <2>1, <2>3 DEF NoneRead
    <3> QED BY <3>1 DEF ReadsInsideTree
  <2> QED BY <2>2, <2>3
<1> QED
  BY <1>1, <1>2, <1>3, DatabaseInductive, PTL DEF IPDBSpec

(* Every answer the program gets belongs to a network the address is in.   *)
THEOREM AnswersOfNetworks ==
  IPDBSpec => []AnswerOfNetwork
<1>1. IPDBInv => AnswerOfNetwork
  <2>1. SUFFICES ASSUME IPDBInv, pc = "answered" PROVE AnswerOfNetwork
    BY DEF AnswerOfNetwork
  <2>2. TreeInv
    BY <2>1 DEF IPDBInv, OpenInv, FileInv, HavingSizes
  <2> QED BY <2>2, AnswersFollow DEF TreeInv
<1> QED
  BY <1>1, DatabaseInductive, PTL
=============================================================================
