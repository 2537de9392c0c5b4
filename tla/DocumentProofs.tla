--------------------------- MODULE DocumentProofs ---------------------------
(***************************************************************************)
(* What the program is told is what the file says.  When documents are     *)
(* laid out in a section (module Documents), the decoder finds of each the *)
(* member that a path leads to: through pointers, over members it passes   *)
(* by, at any depth; and LookUpIP... shows them.                           *)
(***************************************************************************)
EXTENDS DatabaseProofs

\* A section with documents.
Written(mem, layout) == Section(mem) /\ Len(mem) >= 1 /\ LaidOut(mem, layout)

\* `x' is what decode_one makes of the value at o; what was read before may
\* have ended later.
Like(mem, x, o) ==
  /\ x \in Entries
  /\ x.status = DecodeOne(mem, o).status /\ x.type = DecodeOne(mem, o).type
  /\ x.size = DecodeOne(mem, o).size /\ x.data = DecodeOne(mem, o).data
  /\ x.pointer = DecodeOne(mem, o).pointer /\ x.next = DecodeOne(mem, o).next
  /\ x.offset = DecodeOne(mem, o).offset

\* The last value ended well, before `o'.
ReadTo(x, o) == x \in Entries /\ x.status = "ok" /\ x.next = o

-----------------------------------------------------------------------------
(* decode_one goes forward.                                                *)

\* What comes of a value whose header ends at `from'.
Forward(e, from) ==
  e.status = "ok" => e.next >= from /\ (e.type \in {Map, Array} => e.data = <<>>)

LEMMA SizedForward ==
  ASSUME NEW mem, Section(mem), NEW o \in Nat, NEW ctrl \in Byte, NEW type \in Nat,
         NEW at \in Nat
  PROVE  Forward(DecodeSized(mem, o, ctrl, type, at), at)
<1> DEFINE d == [Entry("ok", at + SizeBytes(ctrl)) EXCEPT
                   !.type = type, !.offset = o, !.size = Size(mem, ctrl, at),
                   !.next = at + SizeBytes(ctrl)]
<1>1. SizeBytes(ctrl) \in 0 .. 3 /\ Size(mem, ctrl, at) \in Nat
  BY SizeNat
<1>2. /\ d.next = at + SizeBytes(ctrl) /\ d.size \in Nat /\ d.type = type /\ d.data = <<>>
      /\ d.next \in Nat /\ d.next >= at
  BY <1>1 DEF Entry
<1>3. DecodeSized(mem, o, ctrl, type, at) \in {Entry("invalid_data", at), Payload(mem, d)}
  BY DEF DecodeSized
<1>4. Forward(Entry("invalid_data", at), at)
  BY DEF Entry, Forward
<1>5. Forward(Payload(mem, d), at)
  <2>1. Payload(mem, d) \in
          {d, Entry("invalid_data", d.next),
           [d EXCEPT !.data = SubSeq(mem, d.next + 1, d.next + d.size),
                     !.next = @ + d.size, !.end = @ + d.size]}
    BY DEF Payload
  <2>2. Forward(d, at)
    BY <1>2 DEF Forward
  <2>3. Forward(Entry("invalid_data", d.next), at)
    BY DEF Entry, Forward
  <2>4. CASE d.type \in {Map, Array}
    <3>1. Payload(mem, d) = d
      BY <2>4 DEF Payload
    <3> HIDE DEF d
    <3> QED BY <2>2, <3>1
  <2>5. CASE d.type \notin {Map, Array}
    <3> DEFINE p == [d EXCEPT !.data = SubSeq(mem, d.next + 1, d.next + d.size),
                              !.next = @ + d.size, !.end = @ + d.size]
    <3>1. p.type = d.type /\ p.next = d.next + d.size
      BY DEF Entry
    <3>2. p.next >= at
      BY <1>2, <3>1
    <3> HIDE DEF d
    <3>3. Forward(p, at)
      BY <2>5, <3>1, <3>2 DEF Forward
    <3> QED BY <2>1, <2>2, <2>3, <3>3
  <2> QED BY <2>4, <2>5
<1> HIDE DEF d
<1> QED BY <1>3, <1>4, <1>5

LEMMA PointerForward ==
  ASSUME NEW mem, NEW o \in Nat, NEW ctrl \in Byte, NEW from \in Nat
  PROVE  Forward(DecodePointer(mem, o, ctrl, from), from)
<1> DEFINE psize == ((ctrl \div 8) % 4) + 1
           p == [Entry("ok", from + psize) EXCEPT
                   !.type = Pointer, !.offset = o, !.next = from + psize,
                   !.pointer = PtrFrom(mem, ctrl, from, psize)]
<1>1. psize \in Nat
  BY DEF Byte
<1>2. DecodePointer(mem, o, ctrl, from) \in {Entry("invalid_data", from), p}
  BY DEF DecodePointer
<1> HIDE DEF psize
<1>3. p.next = from + psize /\ p.type = Pointer
  BY DEF Entry
<1>4. Forward(p, from)
  <2> HIDE DEF p
  <2> QED BY <1>1, <1>3 DEF Forward, Pointer, Map, Array
<1>5. Forward(Entry("invalid_data", from), from)
  BY DEF Entry, Forward
<1> HIDE DEF p
<1> QED BY <1>2, <1>4, <1>5

\* It is where it was asked for.
Located(e, o) == e.status = "ok" => e.offset = o

LEMMA SizedPlaced ==
  ASSUME NEW mem, NEW o, NEW ctrl, NEW type, NEW at
  PROVE  Located(DecodeSized(mem, o, ctrl, type, at), o)
<1> DEFINE d == [Entry("ok", at + SizeBytes(ctrl)) EXCEPT
                   !.type = type, !.offset = o, !.size = Size(mem, ctrl, at),
                   !.next = at + SizeBytes(ctrl)]
           p == [d EXCEPT !.data = SubSeq(mem, d.next + 1, d.next + d.size),
                          !.next = @ + d.size, !.end = @ + d.size]
<1>1. d.offset = o /\ p.offset = o
  BY DEF Entry
<1>2. \A end : Entry("invalid_data", end).status # "ok"
  BY DEF Entry
<1>3. DecodeSized(mem, o, ctrl, type, at) \in
        {Entry("invalid_data", at), Entry("invalid_data", d.next), d, p}
  BY DEF DecodeSized, Payload
<1> HIDE DEF d, p
<1> QED BY <1>1, <1>2, <1>3 DEF Located

LEMMA DecodePlaced ==
  ASSUME NEW mem, NEW o, DecodeOne(mem, o).status = "ok"
  PROVE  DecodeOne(mem, o).offset = o
<1>1. \A end : Located(Entry("invalid_data", end), o)
  BY DEF Located, Entry
<1>2. \A ctrl, from : Located(DecodePointer(mem, o, ctrl, from), o)
  BY DEF Located, DecodePointer, Entry
<1>3. \A ctrl, type, at : Located(DecodeSized(mem, o, ctrl, type, at), o)
  BY SizedPlaced
<1>4. Located(DecodeOne(mem, o), o)
  BY <1>1, <1>2, <1>3 DEF DecodeOne, DecodeFrom
<1> QED BY <1>4 DEF Located

(* A value that could be decoded begins in the section and ends behind its *)
(* control byte.                                                           *)
LEMMA DecodeAhead ==
  ASSUME NEW mem, Section(mem), Len(mem) >= 1, NEW o \in Nat, DecodeOne(mem, o).status = "ok"
  PROVE  /\ o < Len(mem) /\ DecodeOne(mem, o).next > o
         /\ DecodeOne(mem, o).type \in {Map, Array} => DecodeOne(mem, o).data = <<>>
<1>0. Len(mem) \in Nat
  BY DEF Section
<1>1. ~Past(mem, o, 1) /\ DecodeOne(mem, o) = DecodeFrom(mem, o, At(mem, o))
  BY DEF DecodeOne, Entry
<1>2. o + 1 <= Len(mem)
  BY <1>0, <1>1, NotPast
<1> DEFINE ctrl == At(mem, o)
<1>3. ctrl \in Byte /\ At(mem, o + 1) \in Byte
  <2>1. o + 1 \in Nat
    OBVIOUS
  <2> QED BY <2>1, BytesNat
<1>4. DecodeFrom(mem, o, ctrl) \in
        {Entry("invalid_data", o + 1), DecodePointer(mem, o, ctrl, o + 1),
         DecodeSized(mem, o, ctrl, 7 + At(mem, o + 1), o + 2),
         DecodeSized(mem, o, ctrl, ctrl \div 32, o + 1)}
  BY DEF DecodeFrom
<1> HIDE DEF ctrl
<1>5. Entry("invalid_data", o + 1).status # "ok"
  BY DEF Entry
<1>6. Forward(DecodePointer(mem, o, ctrl, o + 1), o + 1)
  BY <1>3, PointerForward
<1>7. Forward(DecodeSized(mem, o, ctrl, 7 + At(mem, o + 1), o + 2), o + 2)
  <2>1. \A b \in Byte : 7 + b \in Nat
    BY DEF Byte
  <2>2. 7 + At(mem, o + 1) \in Nat /\ o + 2 \in Nat
    BY <1>3, <2>1
  <2> QED BY <1>3, <2>2, SizedForward
<1>8. Forward(DecodeSized(mem, o, ctrl, ctrl \div 32, o + 1), o + 1)
  <2>1. ctrl \div 32 \in Nat /\ o + 1 \in Nat
    BY <1>3 DEF Byte
  <2> QED BY <1>3, <2>1, SizedForward
<1>9. DecodeOne(mem, o).next \in Nat
  BY DecodeOneInside DEF Inside, Entries
<1>10. DecodeOne(mem, o) = DecodeFrom(mem, o, ctrl)
  BY <1>1 DEF ctrl
<1> QED BY <1>2, <1>4, <1>5, <1>6, <1>7, <1>8, <1>9, <1>10 DEF Forward

LEMMA AfterLike ==
  ASSUME NEW mem, Section(mem), NEW end \in Nat, NEW o \in Nat
  PROVE  Like(mem, After(end, DecodeOne(mem, o)), o)
<1> DEFINE e == DecodeOne(mem, o)
<1>1. e \in Entries /\ After(end, e) \in Entries
  BY DecodeOneInside, AfterInside DEF Inside
<1>2. After(end, e) \in {e, [e EXCEPT !.end = end]}
  BY DEF After
<1> HIDE DEF e
<1>3. ASSUME NEW y \in {e, [e EXCEPT !.end = end]}
      PROVE  /\ y.status = e.status /\ y.type = e.type /\ y.size = e.size
             /\ y.data = e.data /\ y.pointer = e.pointer /\ y.next = e.next
             /\ y.offset = e.offset
  BY <1>1, <1>3 DEF Entries
<1> QED BY <1>1, <1>2, <1>3 DEF Like, e

LEMMA NextLike ==
  ASSUME NEW mem, Section(mem), NEW x, NEW o, ReadTo(x, o)
  PROVE  Like(mem, DecodeNext(mem, x), o)
<1>1. x.end \in Nat /\ o \in Nat /\ DecodeNext(mem, x) = After(x.end, DecodeOne(mem, o))
  BY DEF ReadTo, Entries, DecodeNext
<1> QED BY <1>1, AfterLike

-----------------------------------------------------------------------------
(* Passing a document by.                                                  *)

\* The document `v' of the layout as decode_one finds it.
LEMMA LaidFacts ==
  ASSUME NEW mem, NEW layout, Written(mem, layout), NEW v \in layout
  PROVE  /\ v.at \in Nat /\ v.next \in Nat /\ v.at < v.next /\ v.at < Len(mem)
         /\ DecodeOne(mem, v.at) \in Entries /\ DecodeOne(mem, v.at).status = "ok"
         /\ DecodeOne(mem, v.at).offset = v.at
         /\ DecodeOne(mem, v.at).next > v.at
         /\ \/ LaidPointer(mem, layout, v, DecodeOne(mem, v.at))
            \/ LaidPlain(v, DecodeOne(mem, v.at))
            \/ LaidMap(layout, v, DecodeOne(mem, v.at))
            \/ LaidArray(layout, v, DecodeOne(mem, v.at))
<1>1. Laid(mem, layout, v)
  BY DEF Written, LaidOut
<1>2. Section(mem) /\ Len(mem) >= 1
  BY DEF Written
<1>3. v.at \in Nat /\ v.next \in Nat /\ v.at < v.next /\ DecodeOne(mem, v.at).status = "ok"
      /\ \/ LaidPointer(mem, layout, v, DecodeOne(mem, v.at))
         \/ LaidPlain(v, DecodeOne(mem, v.at))
         \/ LaidMap(layout, v, DecodeOne(mem, v.at))
         \/ LaidArray(layout, v, DecodeOne(mem, v.at))
  BY <1>1 DEF Laid
<1>4. v.at < Len(mem) /\ DecodeOne(mem, v.at).next > v.at
  BY <1>2, <1>3, DecodeAhead
<1>5. DecodeOne(mem, v.at) \in Entries /\ DecodeOne(mem, v.at).offset = v.at
  BY <1>2, <1>3, DecodeOneInside, DecodePlaced DEF Inside
<1> QED BY <1>3, <1>4, <1>5

\* A key is a string, or a pointer to one.
LEMMA KeyLaid ==
  ASSUME NEW mem, NEW layout, Written(mem, layout), NEW k \in layout, NEW b, k.doc = Text(b)
  PROVE  /\ DecodeOne(mem, k.at).type \notin {Map, Array} /\ DecodeOne(mem, k.at).next = k.next
         /\ \/ LaidPointer(mem, layout, k, DecodeOne(mem, k.at))
            \/ LaidPlain(k, DecodeOne(mem, k.at))
<1>1. DOMAIN k.doc = {"type", "bytes"}
  BY DEF Text
<1>2. {"type", "bytes"} # {"map"} /\ {"type", "bytes"} # {"array"}
  OBVIOUS
<1>3. /\ ~LaidMap(layout, k, DecodeOne(mem, k.at))
      /\ ~LaidArray(layout, k, DecodeOne(mem, k.at))
  BY <1>1, <1>2 DEF LaidMap, LaidArray
<1>4. \/ LaidPointer(mem, layout, k, DecodeOne(mem, k.at))
      \/ LaidPlain(k, DecodeOne(mem, k.at))
  BY <1>3, LaidFacts
<1> QED BY <1>4 DEF LaidPointer, LaidPlain, Pointer, Map, Array

\* The member i of a map or array, once what is before it has been read.
Fetched(mem, isMap, x) == DecodeNext(mem, IF isMap THEN DecodeNext(mem, x) ELSE x)

LEMMA MemberFetched ==
  ASSUME NEW mem, NEW layout, Written(mem, layout), NEW v \in layout,
         LaidMap(layout, v, DecodeOne(mem, v.at)) \/ LaidArray(layout, v, DecodeOne(mem, v.at)),
         NEW i \in 1 .. DecodeOne(mem, v.at).size
  PROVE  /\ v.parts[i] \in Nat /\ v.parts[i + 1] \in Nat /\ v.parts[i] < v.parts[i + 1]
         /\ \E w \in layout :
              /\ w.at >= v.parts[i] /\ w.next = v.parts[i + 1]
              /\ \A x : ReadTo(x, v.parts[i]) =>
                   Like(mem, Fetched(mem, DecodeOne(mem, v.at).type = Map, x), w.at)
<1> DEFINE e == DecodeOne(mem, v.at)
<1>0. Section(mem)
  BY DEF Written
<1>1. CASE LaidMap(layout, v, e)
  <2>1. PICK k, w \in layout :
          /\ k.at = v.parts[i] /\ k.doc = Text(v.doc.map[i][1]) /\ k.next = w.at
          /\ w.next = v.parts[i + 1]
    BY <1>1 DEF LaidMap
  <2>2. /\ k.at \in Nat /\ k.next \in Nat /\ k.at < k.next /\ DecodeOne(mem, k.at).status = "ok"
        /\ w.at \in Nat /\ w.next \in Nat /\ w.at < w.next
    BY LaidFacts
  <2>3. DecodeOne(mem, k.at).next = k.next
    BY <2>1, KeyLaid
  <2>4. ASSUME NEW x, ReadTo(x, v.parts[i])
        PROVE  Like(mem, Fetched(mem, TRUE, x), w.at)
    <3>1. Like(mem, DecodeNext(mem, x), k.at)
      BY <1>0, <2>1, <2>4, NextLike
    <3>2. ReadTo(DecodeNext(mem, x), w.at)
      BY <2>1, <2>2, <2>3, <3>1 DEF Like, ReadTo
    <3>3. Like(mem, DecodeNext(mem, DecodeNext(mem, x)), w.at)
      BY <1>0, <3>2, NextLike
    <3> QED BY <3>3 DEF Fetched
  <2>5. e.type = Map
    BY <1>1 DEF LaidMap
  <2> HIDE DEF e
  <2>6. (e.type = Map) = TRUE
    BY <2>5
  <2>7. \A x : ReadTo(x, v.parts[i]) => Like(mem, Fetched(mem, e.type = Map, x), w.at)
    BY <2>4, <2>6
  <2> QED BY <2>1, <2>2, <2>7 DEF e
<1>2. CASE LaidArray(layout, v, e)
  <2>1. PICK w \in layout : w.at = v.parts[i] /\ w.next = v.parts[i + 1]
    BY <1>2 DEF LaidArray
  <2>2. w.at \in Nat /\ w.next \in Nat /\ w.at < w.next
    BY LaidFacts
  <2>3. ASSUME NEW x, ReadTo(x, v.parts[i])
        PROVE  Like(mem, Fetched(mem, FALSE, x), w.at)
    <3>1. Like(mem, DecodeNext(mem, x), w.at)
      BY <1>0, <2>1, <2>3, NextLike
    <3> QED BY <3>1 DEF Fetched
  <2>4. e.type # Map
    BY <1>2 DEF LaidArray, Array, Map
  <2> HIDE DEF e
  <2>5. (e.type = Map) = FALSE
    BY <2>4
  <2>6. \A x : ReadTo(x, v.parts[i]) => Like(mem, Fetched(mem, e.type = Map, x), w.at)
    BY <2>3, <2>5
  <2> QED BY <2>1, <2>2, <2>6 DEF e
<1> QED BY <1>1, <1>2

\* The members are behind the control byte.
LEMMA MembersBehind ==
  ASSUME NEW mem, NEW layout, Written(mem, layout), NEW v \in layout,
         LaidMap(layout, v, DecodeOne(mem, v.at)) \/ LaidArray(layout, v, DecodeOne(mem, v.at)),
         NEW i \in 1 .. DecodeOne(mem, v.at).size
  PROVE  v.parts[i] > v.at
<1> DEFINE n == DecodeOne(mem, v.at).size
           T == {j \in Nat : j + 1 <= n => v.parts[j + 1] > v.at}
<1>1. /\ n \in Nat /\ v.at \in Nat /\ v.parts[1] = DecodeOne(mem, v.at).next
      /\ DecodeOne(mem, v.at).next > v.at
  BY LaidFacts DEF LaidMap, LaidArray, Between, Entries
<1> HIDE DEF n
<1>2. 0 \in T
  BY <1>1
<1>3. ASSUME NEW j \in Nat, j \in T PROVE j + 1 \in T
  <2>1. SUFFICES ASSUME j + 2 <= n PROVE v.parts[j + 2] > v.at
    OBVIOUS
  <2>2. j + 1 \in 1 .. n /\ (j + 1) + 1 = j + 2
    BY <1>1, <2>1
  <2>3. v.parts[j + 1] \in Nat /\ v.parts[j + 2] \in Nat /\ v.parts[j + 1] < v.parts[j + 2]
    BY <2>2, MemberFetched DEF n
  <2>4. v.parts[j + 1] > v.at
    BY <1>3, <2>2
  <2> QED BY <1>1, <2>3, <2>4
<1>4. Nat \subseteq T
  <2> HIDE DEF T
  <2> QED BY <1>2, <1>3, SetInduction
<1>5. i - 1 \in Nat /\ (i - 1) + 1 = i /\ i <= n
  BY <1>1 DEF n
<1> QED BY <1>4, <1>5

\* `skip' passes the documents of the layout behind `from'.
Passes(mem, layout, skip, from) ==
  \A w \in layout : w.at > from =>
    \A x : Like(mem, x, w.at) => ReadTo(skip[x], w.next)

LEMMA MembersPassed ==
  ASSUME NEW mem, NEW layout, Written(mem, layout), NEW v \in layout,
         LaidMap(layout, v, DecodeOne(mem, v.at)) \/ LaidArray(layout, v, DecodeOne(mem, v.at)),
         NEW skip \in Staying(mem), Passes(mem, layout, skip, v.at),
         NEW x, Like(mem, x, v.at)
  PROVE  ReadTo(SkipMembers(mem, x.type = Map, skip)[x.size][x], v.next)
<1> DEFINE n == DecodeOne(mem, v.at).size
           isMap == DecodeOne(mem, v.at).type = Map
           rest == SkipMembers(mem, isMap, skip)
           T == {m \in Nat : m <= n =>
                   \A y : ReadTo(y, v.parts[(n - m) + 1]) => ReadTo(rest[m][y], v.next)}
<1>0. Section(mem) /\ isMap \in BOOLEAN
  BY DEF Written
<1>1. n \in Nat /\ Between(v, DecodeOne(mem, v.at)) /\ DecodeOne(mem, v.at).status = "ok"
  BY LaidFacts DEF LaidMap, LaidArray, Entries
<1> HIDE DEF isMap
<1>2. ASSUME NEW m \in Nat, NEW y \in Entries
      PROVE  rest[m][y] = IF m = 0 \/ y.status # "ok" THEN y ELSE rest[m - 1][skip[Fetched(mem, isMap, y)]]
  BY <1>0, MembersStay DEF MemberRounds, Fetched
<1> HIDE DEF rest
<1>3. 0 \in T
  <2>1. SUFFICES ASSUME NEW y, ReadTo(y, v.parts[n + 1]) PROVE ReadTo(rest[0][y], v.next)
    BY <1>1
  <2>2. v.parts[n + 1] = v.next
    BY <1>1 DEF Between
  <2>3. rest[0][y] = y
    BY <1>2, <2>1 DEF ReadTo
  <2> QED BY <2>1, <2>2, <2>3
<1>4. ASSUME NEW m \in Nat, m \in T PROVE m + 1 \in T
  <2>1. SUFFICES ASSUME m + 1 <= n, NEW y, ReadTo(y, v.parts[(n - (m + 1)) + 1])
                 PROVE  ReadTo(rest[m + 1][y], v.next)
    OBVIOUS
  <2> DEFINE i == n - m
  <2>2. i \in 1 .. n /\ (n - (m + 1)) + 1 = i /\ m <= n
    BY <1>1, <2>1
  <2> HIDE DEF n, i
  <2>3. v.parts[i] \in Nat /\ v.parts[i] > v.at /\ v.at \in Nat
    BY <2>2, MemberFetched, MembersBehind, LaidFacts DEF n
  <2>4. PICK w \in layout :
          /\ w.at >= v.parts[i] /\ w.next = v.parts[i + 1]
          /\ \A z : ReadTo(z, v.parts[i]) => Like(mem, Fetched(mem, isMap, z), w.at)
    BY <2>2, MemberFetched DEF n, isMap
  <2>5. w.at > v.at
    <3>1. w.at \in Nat
      BY LaidFacts
    <3> QED BY <2>3, <2>4, <3>1
  <2>6. ReadTo(skip[Fetched(mem, isMap, y)], v.parts[i + 1])
    BY <2>1, <2>2, <2>4, <2>5 DEF Passes
  <2>7. rest[m + 1][y] = rest[m][skip[Fetched(mem, isMap, y)]]
    <3>1. y \in Entries /\ y.status = "ok" /\ m + 1 \in Nat /\ m + 1 # 0 /\ (m + 1) - 1 = m
      BY <2>1 DEF ReadTo
    <3> QED BY <1>2, <3>1
  <2>8. i + 1 = (n - m) + 1
    BY DEF i
  <2> QED BY <1>4, <2>2, <2>6, <2>7, <2>8
<1>5. Nat \subseteq T
  <2> HIDE DEF T
  <2> QED BY <1>3, <1>4, SetInduction
<1>6. ReadTo(x, v.parts[1]) /\ x.size = n
  BY <1>1 DEF Like, ReadTo, Between
<1>7. (n - n) + 1 = 1 /\ n <= n
  BY <1>1
<1>8. ReadTo(rest[n][x], v.next)
  <2>1. n \in T
    BY <1>1, <1>5
  <2> HIDE DEF n
  <2> QED BY <1>6, <1>7, <2>1
<1>9. (x.type = Map) = isMap
  BY DEF Like, isMap
<1> HIDE DEF n
<1> QED BY <1>6, <1>8, <1>9 DEF rest

(* skip_map_or_array passes a whole document by, however deep its members  *)
(* are in each other.                                                      *)
LEMMA Skipped ==
  ASSUME NEW mem, NEW layout, Written(mem, layout), NEW v \in layout,
         NEW x, Like(mem, x, v.at)
  PROVE  ReadTo(Skip(mem, x), v.next)
<1>0. Section(mem) /\ Len(mem) \in Nat
  BY DEF Written, Section
<1>1. PICK skip : SkipRounds(mem, skip)
  BY <1>0, SkipSteps
<1> DEFINE T == {d \in Nat : Passes(mem, layout, skip[d], Len(mem) - d - 1)}
<1>2. 0 \in T
  <2>1. \A w \in layout : ~(w.at > Len(mem) - 0 - 1)
    BY <1>0, LaidFacts
  <2> QED BY <2>1 DEF Passes
<1>3. ASSUME NEW d \in Nat, d \in T PROVE d + 1 \in T
  <2>1. SUFFICES ASSUME NEW w \in layout, w.at > Len(mem) - (d + 1) - 1,
                        NEW y, Like(mem, y, w.at)
                 PROVE  ReadTo(skip[d + 1][y], w.next)
    BY DEF Passes
  <2> DEFINE e == DecodeOne(mem, w.at)
  <2>2. /\ w.at \in Nat /\ e.status = "ok"
        /\ \/ LaidPointer(mem, layout, w, e) \/ LaidPlain(w, e)
           \/ LaidMap(layout, w, e) \/ LaidArray(layout, w, e)
    BY LaidFacts
  <2>3. skip[d] \in Staying(mem)
    BY <1>1 DEF SkipRounds
  <2>4. skip[d + 1][y] = IF y.type \notin {Map, Array} THEN y
                         ELSE SkipMembers(mem, y.type = Map, skip[d])[y.size][y]
    <3>1. d + 1 \in Nat /\ d + 1 # 0 /\ (d + 1) - 1 = d /\ y \in Entries
      BY <2>1 DEF Like
    <3> QED BY <1>1, <3>1 DEF SkipRounds
  <2>5. CASE LaidPointer(mem, layout, w, e) \/ LaidPlain(w, e)
    <3>1. y.type \notin {Map, Array} /\ w.next = e.next
      BY <2>1, <2>5 DEF Like, LaidPointer, LaidPlain, Pointer, Map, Array
    <3> QED BY <2>1, <2>2, <2>4, <3>1 DEF Like, ReadTo
  <2>6. CASE LaidMap(layout, w, e) \/ LaidArray(layout, w, e)
    <3>1. y.type \in {Map, Array}
      BY <2>1, <2>6 DEF Like, LaidMap, LaidArray
    <3>2. Passes(mem, layout, skip[d], w.at)
      <4>1. \A u \in layout : u.at > w.at => u.at > Len(mem) - d - 1
        BY <1>0, <2>1, <2>2, LaidFacts
      <4> QED BY <1>3, <4>1 DEF Passes
    <3>3. ReadTo(SkipMembers(mem, y.type = Map, skip[d])[y.size][y], w.next)
      BY <2>1, <2>3, <2>6, <3>2, MembersPassed
    <3> QED BY <2>4, <3>1, <3>3
  <2> QED BY <2>2, <2>5, <2>6
<1>4. Nat \subseteq T
  <2> HIDE DEF T
  <2> QED BY <1>2, <1>3, SetInduction
<1>5. Passes(mem, layout, skip[Len(mem) + 1], Len(mem) - (Len(mem) + 1) - 1)
  BY <1>0, <1>4
<1>6. v.at > Len(mem) - (Len(mem) + 1) - 1
  BY <1>0, LaidFacts
<1>7. Skip(mem, x) = skip[Len(mem) + 1][x]
  BY <1>1 DEF SkipRounds
<1> QED BY <1>5, <1>6, <1>7 DEF Passes

-----------------------------------------------------------------------------
(* Finding a member.                                                       *)

\* `r' has the document, not a pointer to it; of a map or array it ends
\* where the members begin.
Shows(mem, layout, r, doc) ==
  /\ r \in Entries /\ r.status = "ok"
  /\ \E w \in layout :
       /\ w.doc = doc /\ r.type # Pointer /\ r.offset = w.at
       /\ r.type = DecodeOne(mem, w.at).type
       /\ r.size = DecodeOne(mem, w.at).size /\ r.data = DecodeOne(mem, w.at).data
       /\ r.type \in {Map, Array} => r.next = DecodeOne(mem, w.at).next

LEMMA FollowedShows ==
  ASSUME NEW mem, NEW layout, Written(mem, layout), NEW v \in layout,
         NEW x, Like(mem, x, v.at)
  PROVE  /\ Shows(mem, layout, Followed(mem, x), v.doc)
         /\ Followed(mem, x).type \notin {Map, Array} => ReadTo(Followed(mem, x), v.next)
<1> DEFINE e == DecodeOne(mem, v.at)
<1>0. Section(mem) /\ x \in Entries /\ x.pointer \in Nat /\ x.end \in Nat /\ x.next \in Nat
  BY DEF Written, Like, Entries
<1>1. /\ e.status = "ok" /\ x.status = "ok" /\ x.type = e.type
      /\ \/ LaidPointer(mem, layout, v, e) \/ LaidPlain(v, e)
         \/ LaidMap(layout, v, e) \/ LaidArray(layout, v, e)
  BY LaidFacts DEF Like
<1>2. CASE LaidPointer(mem, layout, v, e)
  <2>1. PICK w \in layout : w.at = e.pointer /\ w.doc = v.doc /\ DecodeOne(mem, w.at).type # Pointer
    BY <1>2 DEF LaidPointer
  <2> DEFINE t == After(x.end, DecodeOne(mem, x.pointer))
             r == Followed(mem, x)
  <2>2. Like(mem, t, w.at) /\ DecodeOne(mem, w.at).status = "ok" /\ t.offset = w.at
    <3>1. x.pointer = w.at
      BY <2>1 DEF Like
    <3>2. Like(mem, t, w.at)
      BY <1>0, <3>1, AfterLike
    <3>3. DecodeOne(mem, w.at).status = "ok" /\ DecodeOne(mem, w.at).offset = w.at
      BY LaidFacts
    <3> HIDE DEF t
    <3> QED BY <3>2, <3>3 DEF Like
  <2>3. x.type = Pointer /\ x.next = v.next
    BY <1>1, <1>2 DEF LaidPointer, Like
  <2>4. r = Target(x, t)
    BY <1>1, <2>3 DEF Followed
  <2> HIDE DEF t, r
  <2>5. t \in Entries /\ t.status = "ok" /\ t.type # Pointer
    BY <2>1, <2>2 DEF Like
  <2>6. CASE t.type \in {Map, Array}
    <3>1. r = t
      BY <2>4, <2>5, <2>6 DEF Target
    <3> QED BY <2>1, <2>2, <2>5, <2>6, <3>1 DEF Shows, Like, r
  <2>7. CASE t.type \notin {Map, Array}
    <3>1. r = [t EXCEPT !.next = x.next]
      BY <2>4, <2>5, <2>7 DEF Target
    <3>2. /\ r \in Entries /\ r.status = "ok" /\ r.type = t.type /\ r.size = t.size
          /\ r.data = t.data /\ r.next = v.next /\ r.offset = w.at
      BY <1>0, <2>2, <2>3, <2>5, <3>1 DEF Entries
    <3>3. Shows(mem, layout, r, v.doc)
      BY <2>1, <2>2, <2>5, <2>7, <3>2 DEF Shows, Like
    <3> QED BY <3>2, <3>3 DEF ReadTo, r
  <2> QED BY <2>6, <2>7
<1>3. CASE LaidPlain(v, e) \/ LaidMap(layout, v, e) \/ LaidArray(layout, v, e)
  <2>1. x.type # Pointer
    BY <1>1, <1>3 DEF LaidPlain, LaidMap, LaidArray, Pointer, Map, Array
  <2>2. Followed(mem, x) = x
    BY <1>1, <2>1 DEF Followed
  <2>3. Shows(mem, layout, x, v.doc)
    <3>1. x.offset = v.at
      BY LaidFacts DEF Like
    <3> QED BY <1>1, <2>1, <3>1 DEF Shows, Like
  <2>4. x.type \notin {Map, Array} => ReadTo(x, v.next)
    BY <1>1, <1>3 DEF ReadTo, Like, LaidPlain, LaidMap, LaidArray
  <2> QED BY <2>2, <2>3, <2>4
<1> QED BY <1>1, <1>2, <1>3

\* How the document that is shown is laid out.
LEMMA ShownFacts ==
  ASSUME NEW mem, NEW layout, Written(mem, layout), NEW r, NEW doc, Shows(mem, layout, r, doc)
  PROVE  /\ doc # Nothing
         /\ \/ /\ r.type \notin {Map, Array}
               /\ doc = [type |-> r.type, bytes |-> r.data]
            \/ /\ r.type = Array /\ r.data = <<>> /\ DOMAIN doc = {"array"}
            \/ /\ r.type = Map /\ r.data = <<>>
               /\ DOMAIN doc = {"map"} /\ DOMAIN doc.map = 1 .. r.size
               /\ \E w \in layout :
                    /\ w.doc = doc /\ r.next = DecodeOne(mem, w.at).next
                    /\ r.size = DecodeOne(mem, w.at).size
                    /\ LaidMap(layout, w, DecodeOne(mem, w.at))
<1>1. PICK w \in layout :
        /\ w.doc = doc /\ r.type # Pointer
        /\ r.type = DecodeOne(mem, w.at).type
        /\ r.size = DecodeOne(mem, w.at).size /\ r.data = DecodeOne(mem, w.at).data
        /\ r.type \in {Map, Array} => r.next = DecodeOne(mem, w.at).next
  BY DEF Shows
<1> DEFINE e == DecodeOne(mem, w.at)
<1>2. /\ w.at \in Nat /\ e.status = "ok"
      /\ \/ LaidPointer(mem, layout, w, e) \/ LaidPlain(w, e)
         \/ LaidMap(layout, w, e) \/ LaidArray(layout, w, e)
  BY LaidFacts
<1>3. e.type \in {Map, Array} => e.data = <<>>
  BY <1>2, DecodeAhead DEF Written
<1>4. ~LaidPointer(mem, layout, w, e)
  BY <1>1 DEF LaidPointer
<1>5. DOMAIN Nothing = {"none"}
  BY DEF Nothing
<1>6. CASE LaidPlain(w, e)
  <2>1. DOMAIN doc = {"type", "bytes"}
    BY <1>1, <1>6 DEF LaidPlain
  <2>2. {"type", "bytes"} # {"none"}
    OBVIOUS
  <2> QED BY <1>1, <1>5, <1>6, <2>1, <2>2 DEF LaidPlain
<1>7. CASE LaidMap(layout, w, e)
  <2>1. {"map"} # {"none"}
    OBVIOUS
  <2> QED BY <1>1, <1>3, <1>5, <1>7, <2>1 DEF LaidMap
<1>8. CASE LaidArray(layout, w, e)
  <2>1. {"array"} # {"none"}
    OBVIOUS
  <2> QED BY <1>1, <1>3, <1>5, <1>8, <2>1 DEF LaidArray
<1> QED BY <1>2, <1>4, <1>6, <1>7, <1>8

LEMMA KeyFound ==
  ASSUME NEW mem, NEW layout, Written(mem, layout), NEW k \in layout, NEW b, k.doc = Text(b),
         NEW y, ReadTo(y, k.at)
  PROVE  /\ ReadTo(FollowNext(mem, y), k.next)
         /\ FollowNext(mem, y).type = String /\ FollowNext(mem, y).data = b
<1> DEFINE key == FollowNext(mem, y)
<1>1. Like(mem, DecodeNext(mem, y), k.at)
  BY NextLike DEF Written
<1>2. key = Followed(mem, DecodeNext(mem, y))
  BY DEF FollowNext
<1>3. Shows(mem, layout, key, k.doc) /\ (key.type \notin {Map, Array} => ReadTo(key, k.next))
  BY <1>1, <1>2, FollowedShows
<1> HIDE DEF key
<1>4. DOMAIN k.doc = {"type", "bytes"} /\ {"type", "bytes"} # {"map"} /\ {"type", "bytes"} # {"array"}
  BY DEF Text
<1>5. key.type \notin {Map, Array} /\ k.doc = [type |-> key.type, bytes |-> key.data]
  BY <1>3, <1>4, ShownFacts
<1>6. key.type = String /\ key.data = b
  BY <1>5 DEF Text
<1> QED BY <1>3, <1>5, <1>6 DEF key

\* Of the members after the first `from' the first that `wanted' names is
\* shown; there is a status if there is none.
Finds(mem, layout, doc, wanted, from, n, r) ==
  /\ r \in Entries
  /\ (\A j \in from + 1 .. n : doc.map[j][1] # wanted) => r.status # "ok"
  /\ \A j \in from + 1 .. n :
       doc.map[j][1] = wanted /\ (\A l \in from + 1 .. j - 1 : doc.map[l][1] # wanted) =>
         Shows(mem, layout, r, doc.map[j][2])

LEMMA MemberFound ==
  ASSUME NEW mem, NEW layout, Written(mem, layout), NEW v \in layout,
         LaidMap(layout, v, DecodeOne(mem, v.at)), NEW wanted,
         NEW x, ReadTo(x, DecodeOne(mem, v.at).next)
  PROVE  Finds(mem, layout, v.doc, wanted, 0, DecodeOne(mem, v.at).size,
               LookupInMap(mem, wanted, DecodeOne(mem, v.at).size, x))
<1> DEFINE n == DecodeOne(mem, v.at).size
<1>0. Section(mem)
  BY DEF Written
<1>1. /\ n \in Nat /\ Between(v, DecodeOne(mem, v.at)) /\ DOMAIN v.doc.map = 1 .. n
      /\ \A i \in 1 .. n :
           \E k, w \in layout :
             /\ k.at = v.parts[i] /\ k.doc = Text(v.doc.map[i][1]) /\ k.next = w.at
             /\ w.doc = v.doc.map[i][2] /\ w.next = v.parts[i + 1]
  BY LaidFacts DEF LaidMap, Entries
<1> HIDE DEF n
<1>2. PICK lookup : LookupRounds(mem, wanted, lookup)
  BY <1>0, InMapSteps
<1> DEFINE T == {m \in Nat : m <= n =>
                   \A y : ReadTo(y, v.parts[(n - m) + 1]) =>
                     Finds(mem, layout, v.doc, wanted, n - m, n, lookup[m][y])}
<1>3. 0 \in T
  <2>1. SUFFICES ASSUME NEW y, ReadTo(y, v.parts[(n - 0) + 1])
                 PROVE  Finds(mem, layout, v.doc, wanted, n - 0, n, lookup[0][y])
    OBVIOUS
  <2>2. lookup[0][y] = Entry("mismatch", y.end) /\ y \in Entries
    BY <1>2, <2>1 DEF LookupRounds, ReadTo
  <2>3. Entry("mismatch", y.end) \in Entries /\ Entry("mismatch", y.end).status = "mismatch"
    BY <2>2 DEF Entry, Entries
  <2>4. (n - 0) + 1 .. n = {}
    BY <1>1
  <2> QED BY <2>2, <2>3, <2>4 DEF Finds
<1>4. ASSUME NEW m \in Nat, m \in T PROVE m + 1 \in T
  <2>1. SUFFICES ASSUME m + 1 <= n, NEW y, ReadTo(y, v.parts[(n - (m + 1)) + 1])
                 PROVE  Finds(mem, layout, v.doc, wanted, n - (m + 1), n, lookup[m + 1][y])
    OBVIOUS
  <2> DEFINE i == n - m
             key == FollowNext(mem, y)
  <2>2. i \in 1 .. n /\ (n - (m + 1)) + 1 = i /\ m <= n /\ n - (m + 1) = i - 1
    BY <1>1, <2>1
  <2> HIDE DEF i
  <2>3. PICK k, w \in layout :
          /\ k.at = v.parts[i] /\ k.doc = Text(v.doc.map[i][1]) /\ k.next = w.at
          /\ w.doc = v.doc.map[i][2] /\ w.next = v.parts[i + 1]
    BY <1>1, <2>2
  <2>4. ReadTo(key, w.at) /\ key.type = String /\ key.data = v.doc.map[i][1]
    BY <2>1, <2>2, <2>3, KeyFound
  <2>5. lookup[m + 1][y] = LookupFromKey(mem, wanted, key, lookup[m])
    <3>1. y \in Entries /\ y.status = "ok" /\ m + 1 \in Nat /\ m + 1 # 0 /\ (m + 1) - 1 = m
      BY <2>1 DEF ReadTo
    <3> QED BY <1>2, <3>1 DEF LookupRounds
  <2> HIDE DEF key
  <2>6. Like(mem, DecodeNext(mem, key), w.at)
    BY <1>0, <2>4, NextLike
  <2>7. CASE v.doc.map[i][1] = wanted
    <3>1. lookup[m + 1][y] = Followed(mem, DecodeNext(mem, key))
      BY <2>4, <2>5, <2>7 DEF LookupFromKey, FollowNext, ReadTo
    <3>2. Shows(mem, layout, lookup[m + 1][y], v.doc.map[i][2])
      BY <2>3, <2>6, <3>1, FollowedShows
    <3>3. \A j \in (i - 1) + 1 .. n :
            (\A l \in (i - 1) + 1 .. j - 1 : v.doc.map[l][1] # wanted) => j = i
      <4>1. SUFFICES ASSUME NEW j \in (i - 1) + 1 .. n, j # i
                     PROVE  \E l \in (i - 1) + 1 .. j - 1 : v.doc.map[l][1] = wanted
        OBVIOUS
      <4>2. i \in (i - 1) + 1 .. j - 1
        BY <1>1, <2>2, <4>1
      <4> QED BY <2>7, <4>2
    <3>4. i \in (i - 1) + 1 .. n
      BY <1>1, <2>2
    <3> QED BY <2>2, <2>7, <3>2, <3>3, <3>4 DEF Finds, Shows
  <2>8. CASE v.doc.map[i][1] # wanted
    <3>1. lookup[m + 1][y] = lookup[m][Skip(mem, DecodeNext(mem, key))]
      BY <2>4, <2>5, <2>8 DEF LookupFromKey, ReadTo
    <3>2. ReadTo(Skip(mem, DecodeNext(mem, key)), v.parts[i + 1])
      BY <2>3, <2>6, Skipped
    <3>3. Finds(mem, layout, v.doc, wanted, i, n, lookup[m + 1][y])
      BY <1>4, <2>2, <3>1, <3>2 DEF i
    <3>4. \A j \in (i - 1) + 1 .. n : j = i \/ j \in i + 1 .. n
      BY <1>1, <2>2
    <3>5. \A j \in i + 1 .. n : i + 1 .. j - 1 \subseteq (i - 1) + 1 .. j - 1
      BY <1>1, <2>2
    <3>6. i + 1 .. n \subseteq (i - 1) + 1 .. n
      BY <1>1, <2>2
    <3> QED BY <2>2, <2>8, <3>3, <3>4, <3>5, <3>6 DEF Finds
  <2> QED BY <2>7, <2>8
<1>5. Nat \subseteq T
  <2> HIDE DEF T
  <2> QED BY <1>3, <1>4, SetInduction
<1>6. n \in T /\ n <= n /\ n - n = 0 /\ (n - n) + 1 = 1
  BY <1>1, <1>5
<1>7. ReadTo(x, v.parts[1])
  BY <1>1 DEF Between
<1>8. Finds(mem, layout, v.doc, wanted, 0, n, lookup[n][x])
  BY <1>6, <1>7
<1>9. LookupInMap(mem, wanted, n, x) = lookup[n][x]
  BY <1>2 DEF LookupRounds
<1> QED BY <1>8, <1>9 DEF n

\* What a path has led to: the document, or nothing.
Gives(mem, layout, r, doc) ==
  /\ r \in Entries
  /\ IF doc = Nothing THEN r.status # "ok" ELSE Shows(mem, layout, r, doc)

LEMMA MinOfNats ==
  ASSUME NEW S, S \subseteq Nat, S # {}
  PROVE  Min(S) \in S /\ \A y \in S : Min(S) <= y
<1>1. \E x \in S : \A y \in S : x <= y
  BY LeastElement
<1> QED BY <1>1 DEF Min

(* One key of a path: MMDB_aget_value finds the member of the document.    *)
LEMMA DescendGives ==
  ASSUME NEW mem, NEW layout, Written(mem, layout), NEW r, NEW doc,
         Gives(mem, layout, r, doc), NEW key
  PROVE  Gives(mem, layout, Descend(mem, r, key), Member(doc, key))
<1>1. CASE doc = Nothing
  <2>1. DOMAIN doc = {"none"} /\ {"none"} # {"map"}
    BY <1>1 DEF Nothing
  <2>2. Member(doc, key) = Nothing
    BY <2>1 DEF Member
  <2>3. Descend(mem, r, key) = r
    BY <1>1 DEF Descend, Gives
  <2> QED BY <1>1, <2>2, <2>3 DEF Gives
<1>2. CASE doc # Nothing
  <2>1. Shows(mem, layout, r, doc) /\ r \in Entries /\ r.status = "ok"
    BY <1>2 DEF Gives, Shows
  <2>2. Entry("mismatch", r.end) \in Entries /\ Entry("mismatch", r.end).status # "ok"
    BY <2>1 DEF Entry, Entries
  <2>3. CASE r.type # Map
    <3>1. DOMAIN doc # {"map"}
      <4>1. \/ doc = [type |-> r.type, bytes |-> r.data] \/ DOMAIN doc = {"array"}
        BY <2>1, <2>3, ShownFacts
      <4>2. {"type", "bytes"} # {"map"} /\ {"array"} # {"map"}
        OBVIOUS
      <4> QED BY <4>1, <4>2
    <3>2. Member(doc, key) = Nothing
      BY <3>1 DEF Member
    <3>3. Descend(mem, r, key) = Entry("mismatch", r.end)
      BY <2>1, <2>3 DEF Descend
    <3> QED BY <2>2, <3>2, <3>3 DEF Gives
  <2>4. CASE r.type = Map
    <3>1. DOMAIN doc = {"map"} /\ DOMAIN doc.map = 1 .. r.size
      BY <2>1, <2>4, ShownFacts DEF Map, Array
    <3>2. PICK w \in layout :
            /\ w.doc = doc /\ r.next = DecodeOne(mem, w.at).next
            /\ r.size = DecodeOne(mem, w.at).size
            /\ LaidMap(layout, w, DecodeOne(mem, w.at))
      BY <2>1, <2>4, ShownFacts DEF Map, Array
    <3> DEFINE s == Descend(mem, r, key)
               at == {i \in DOMAIN doc.map : doc.map[i][1] = key}
    <3>3. s = LookupInMap(mem, key, r.size, r)
      BY <2>1, <2>4 DEF Descend
    <3>4. Finds(mem, layout, doc, key, 0, r.size, s)
      BY <2>1, <3>2, <3>3, MemberFound DEF ReadTo
    <3>5. Member(doc, key) = IF at = {} THEN Nothing ELSE doc.map[Min(at)][2]
      BY <3>1 DEF Member
    <3>6. r.size \in Nat /\ 0 + 1 = 1
      BY <2>1 DEF Entries
    <3> HIDE DEF s
    <3>7. CASE at = {}
      <4>1. \A j \in 0 + 1 .. r.size : doc.map[j][1] # key
        BY <3>1, <3>6, <3>7
      <4> QED BY <3>4, <3>5, <3>7, <4>1 DEF Gives, Finds, s
    <3>8. CASE at # {}
      <4>1. at \subseteq Nat
        BY <3>1, <3>6
      <4>2. Min(at) \in at /\ \A y \in at : Min(at) <= y
        BY <3>8, <4>1, MinOfNats
      <4>3. PICK i \in 0 + 1 .. r.size :
              i = Min(at) /\ doc.map[i][1] = key /\ \A l \in 0 + 1 .. i - 1 : doc.map[l][1] # key
        <5>1. PICK i \in at : i = Min(at)
          BY <4>2
        <5>2. i \in 0 + 1 .. r.size /\ doc.map[i][1] = key /\ i \in Nat
          BY <3>1, <3>6, <5>1
        <5>3. ASSUME NEW l \in 0 + 1 .. i - 1 PROVE doc.map[l][1] # key
          <6>1. l \in 1 .. r.size /\ l < i /\ l \in Nat
            BY <3>6, <5>2
          <6>2. l \notin at
            BY <4>2, <5>1, <5>2, <6>1
          <6> QED BY <3>1, <6>1, <6>2
        <5> QED BY <5>1, <5>2, <5>3
      <4>4. Shows(mem, layout, s, doc.map[i][2])
        BY <3>4, <4>3 DEF Finds
      <4>5. Member(doc, key) = doc.map[i][2]
        BY <3>5, <3>8, <4>3
      <4>6. doc.map[i][2] # Nothing
        BY <4>4, ShownFacts
      <4>7. s \in Entries
        BY <4>4 DEF Shows
      <4> HIDE DEF at
      <4> QED BY <4>4, <4>5, <4>6, <4>7 DEF Gives, s
    <3> QED BY <3>7, <3>8
  <2> QED BY <2>3, <2>4
<1> QED BY <1>1, <1>2

\* The documents of a layout, and nothing.
Said(layout) == {v.doc : v \in layout} \union {Nothing}

LEMMA GivenIsSaid ==
  ASSUME NEW mem, NEW layout, NEW r, NEW doc, Gives(mem, layout, r, doc)
  PROVE  doc \in Said(layout)
BY DEF Gives, Shows, Said

LEMMA MemberSaid ==
  ASSUME NEW mem, NEW layout, Written(mem, layout), NEW doc \in Said(layout), NEW key
  PROVE  Member(doc, key) \in Said(layout)
<1>1. \E r : Gives(mem, layout, r, doc)
  <2>1. CASE doc = Nothing
    <3>1. Entry("mismatch", 0) \in Entries /\ Entry("mismatch", 0).status # "ok"
      BY DEF Entry, Entries
    <3> QED BY <2>1, <3>1 DEF Gives
  <2>2. CASE doc # Nothing
    <3>1. PICK v \in layout : v.doc = doc
      BY <2>2 DEF Said
    <3>2. v.at \in Nat /\ Section(mem)
      BY LaidFacts DEF Written
    <3>3. PICK x : Like(mem, x, v.at)
      BY <3>2, AfterLike
    <3>4. Shows(mem, layout, Followed(mem, x), doc)
      BY <3>1, <3>3, FollowedShows
    <3> QED BY <2>2, <3>4 DEF Gives, Shows
  <2> QED BY <2>1, <2>2
<1>2. PICK r : Gives(mem, layout, r, doc)
  BY <1>1
<1>3. Gives(mem, layout, Descend(mem, r, key), Member(doc, key))
  BY <1>2, DescendGives
<1> QED BY <1>3, GivenIsSaid

\* The rounds of InDocument.
InsideRounds(doc, path, inside) ==
  /\ \A i \in 0 .. Len(path) :
       inside[i] = IF i = 0 THEN doc ELSE Member(inside[i - 1], path[i])
  /\ InDocument(doc, path) = inside[Len(path)]

LEMMA InDocumentSteps ==
  ASSUME NEW mem, NEW layout, Written(mem, layout), NEW doc \in Said(layout),
         NEW path, Len(path) \in Nat
  PROVE  \E inside : InsideRounds(doc, path, inside)
<1> DEFINE S == Said(layout)
           body == [i \in Nat |-> [d \in S |-> Member(d, path[i])]]
           inside[i \in 0 .. Len(path)] ==
             IF i = 0 THEN doc ELSE Member(inside[i - 1], path[i])
<1>1. body \in Bodies(S)
  BY MemberSaid DEF Bodies
<1>2. \A i \in Nat : \A d \in S : body[i][d] = Member(d, path[i])
  OBVIOUS
<1> HIDE DEF body
<1>3. PICK f : f \in RoundsOf(S, doc, body, Len(path))
  BY <1>1, Rounds
<1>4. /\ f \in [0 .. Len(path) -> S] /\ f[0] = doc
      /\ \A i \in 1 .. Len(path) : f[i] = body[i][f[i - 1]]
  BY <1>3 DEF RoundsOf
<1>5. f = [i \in 0 .. Len(path) |-> IF i = 0 THEN doc ELSE Member(f[i - 1], path[i])]
  <2>1. \A i \in 1 .. Len(path) : i \in Nat /\ i - 1 \in 0 .. Len(path) /\ f[i - 1] \in S
    BY <1>4
  <2>2. \A i \in 1 .. Len(path) : f[i] = Member(f[i - 1], path[i])
    BY <1>2, <1>4, <2>1
  <2>3. ASSUME NEW i \in 0 .. Len(path)
        PROVE  f[i] = IF i = 0 THEN doc ELSE Member(f[i - 1], path[i])
    BY <1>4, <2>2
  <2> QED BY <1>4, <2>3
<1>6. inside = [i \in 0 .. Len(path) |-> IF i = 0 THEN doc ELSE Member(inside[i - 1], path[i])]
  BY <1>5, Zenon
<1>7. InDocument(doc, path) = inside[Len(path)]
  BY DEF InDocument
<1> HIDE DEF inside
<1>8. \A i \in 0 .. Len(path) : inside[i] = IF i = 0 THEN doc ELSE Member(inside[i - 1], path[i])
  BY <1>6
<1> QED BY <1>7, <1>8 DEF InsideRounds

(* MMDB_aget_value gives what the document has under the path.             *)
LEMMA AGetGives ==
  ASSUME NEW mem, NEW layout, Written(mem, layout), NEW v \in layout,
         NEW path, Len(path) \in Nat
  PROVE  Gives(mem, layout, AGet(mem, v.at, path), InDocument(v.doc, path))
<1>0. Section(mem) /\ v.at \in Nat /\ v.doc \in Said(layout)
  BY LaidFacts DEF Written, Said
<1>1. PICK get : GetRounds(mem, v.at, path, get)
  BY <1>0, AGetSteps
<1>2. PICK inside : InsideRounds(v.doc, path, inside)
  BY <1>0, InDocumentSteps
<1> DEFINE T == {i \in Nat : i <= Len(path) => Gives(mem, layout, get[i], inside[i])}
<1>3. 0 \in T
  <2>1. 0 \in 0 .. Len(path)
    OBVIOUS
  <2>2. get[0] = Followed(mem, DecodeOne(mem, v.at)) /\ inside[0] = v.doc
    BY <1>1, <1>2, <2>1 DEF GetRounds, InsideRounds, Follow
  <2>3. Like(mem, DecodeOne(mem, v.at), v.at)
    BY <1>0, DecodeOneInside DEF Like, Inside
  <2>4. Shows(mem, layout, get[0], v.doc)
    BY <2>2, <2>3, FollowedShows
  <2>5. v.doc # Nothing
    BY <2>4, ShownFacts
  <2>6. Gives(mem, layout, get[0], inside[0])
    BY <2>2, <2>4, <2>5 DEF Gives, Shows
  <2> QED BY <2>6
<1>4. ASSUME NEW i \in Nat, i \in T PROVE i + 1 \in T
  <2>1. SUFFICES ASSUME i + 1 <= Len(path) PROVE Gives(mem, layout, get[i + 1], inside[i + 1])
    OBVIOUS
  <2>2. i <= Len(path) /\ i + 1 \in 0 .. Len(path) /\ i + 1 # 0 /\ (i + 1) - 1 = i
    BY <2>1
  <2>3. get[i + 1] = Descend(mem, get[i], path[i + 1])
    BY <1>1, <2>2 DEF GetRounds
  <2>4. inside[i + 1] = Member(inside[i], path[i + 1])
    BY <1>2, <2>2 DEF InsideRounds
  <2>5. Gives(mem, layout, get[i], inside[i])
    BY <1>4, <2>2
  <2> QED BY <2>3, <2>4, <2>5, DescendGives
<1>5. Nat \subseteq T
  <2> HIDE DEF T
  <2> QED BY <1>3, <1>4, SetInduction
<1>6. AGet(mem, v.at, path) = get[Len(path)] /\ Len(path) \in T
  BY <1>1, <1>5 DEF GetRounds
<1> QED BY <1>2, <1>6 DEF InsideRounds

-----------------------------------------------------------------------------
(* The call.  While it asks, what has been read is what is to be shown of  *)
(* it, and what is still asked are the fields after that; the first of     *)
(* them may be asked again, by its other path.                             *)

HasOther(field) == field.instead # ""

Again(field) == [field EXCEPT !.path = Append(Front(@), field.instead), !.instead = ""]

There(doc, field) == InDocument(doc, Keys(field.path)) # Nothing

Read == Len(Fields(database)) - Len(asking)

\* What a field may show when there was no memory for the fields `short'.
MayShow(doc, field, short) ==
  IF field.name \in short THEN Degraded(doc, field) ELSE {Expected(doc, field)}

\* A part of the location is there.
IsThere(doc, field, short) == There(doc, field) /\ field.name \notin short

\* The next field of the call.
NextAsked(doc, field) ==
  \/ asking[1] = field /\ field.name \notin starved
  \/ /\ asking[1] = Again(field) /\ field.instead # ""
     /\ ~There(doc, field) \/ field.name \in starved

AskedInOrder(doc) ==
  /\ Read \in 0 .. Len(Fields(database))
  /\ Read < Len(Fields(database)) => NextAsked(doc, Fields(database)[Read + 1])
  /\ \A i \in 2 .. Len(asking) : asking[i] = Fields(database)[Read + i]
  /\ \A i \in Read + 2 .. Len(Fields(database)) : Fields(database)[i].name \notin starved

ReadAsSaid(doc) ==
  \A i \in 1 .. Read :
    /\ Fields(database)[i].name \in DOMAIN info
    /\ info[Fields(database)[i].name] \in MayShow(doc, Fields(database)[i], starved)

ValidAsSaid(doc) ==
  isLocationValid <=>
    \A i \in 1 .. Read :
      Fields(database)[i].kind = "place" => IsThere(doc, Fields(database)[i], starved)

SaidSoFar(doc) ==
  AskedInOrder(doc) /\ ReadAsSaid(doc) /\ (database = "city" => ValidAsSaid(doc))

AnswerInv ==
  /\ pc = "walk" => starved = {}
  /\ pc = "answered" /\ result.found /\ LaidOut(Data, documents) =>
       \A v \in documents : v.at = result.offset => SaidSoFar(v.doc)

LEMMA FieldsFacts ==
  ASSUME NEW db
  PROVE  /\ Fields(db) \in Seq(Asked) /\ Len(Fields(db)) \in Nat
         /\ DOMAIN Fields(db) = 1 .. Len(Fields(db))
         /\ \A i \in 1 .. Len(Fields(db)) :
              /\ Fields(db)[i] \in Asked
              /\ Fields(db)[i].kind = "place" => Fields(db)[i].instead = ""
              /\ \A j \in 1 .. Len(Fields(db)) : Fields(db)[i].name = Fields(db)[j].name => i = j
<1>1. Fields(db) \in Seq(Asked)
  BY FieldsAsked
<1>2. /\ Len(Fields(db)) \in Nat /\ DOMAIN Fields(db) = 1 .. Len(Fields(db))
      /\ \A i \in 1 .. Len(Fields(db)) : Fields(db)[i] \in Asked
  BY <1>1
<1> DEFINE places(f) == f.kind = "place" => f.instead = ""
<1>3. CASE db = "city"
  <2>1. /\ Len(Fields(db)) = 5
        /\ Fields(db)[1].name = "cityName" /\ Fields(db)[2].name = "countryName"
        /\ Fields(db)[3].name = "latitude" /\ Fields(db)[4].name = "longitude"
        /\ Fields(db)[5].name = "accuracyRadius"
        /\ places(Fields(db)[1]) /\ places(Fields(db)[2]) /\ places(Fields(db)[3])
        /\ places(Fields(db)[4]) /\ places(Fields(db)[5])
    BY <1>3 DEF Fields, Field
  <2> HIDE DEF places
  <2>2. 1 .. Len(Fields(db)) = {1, 2, 3, 4, 5}
    BY <2>1
  <2>3. \A i \in {1, 2, 3, 4, 5} : places(Fields(db)[i])
    BY <2>1
  <2>4. \A i, j \in {1, 2, 3, 4, 5} : Fields(db)[i].name = Fields(db)[j].name => i = j
    BY <2>1
  <2> QED BY <1>1, <1>2, <2>2, <2>3, <2>4 DEF places
<1>4. CASE db # "city"
  <2>1. /\ Len(Fields(db)) = 4
        /\ Fields(db)[1].name = "isp" /\ Fields(db)[2].name = "org"
        /\ Fields(db)[3].name = "asn" /\ Fields(db)[4].name = "asOrg"
        /\ places(Fields(db)[1]) /\ places(Fields(db)[2]) /\ places(Fields(db)[3])
        /\ places(Fields(db)[4])
    BY <1>4 DEF Fields, Field
  <2> HIDE DEF places
  <2>2. 1 .. Len(Fields(db)) = {1, 2, 3, 4}
    BY <2>1
  <2>3. \A i \in {1, 2, 3, 4} : places(Fields(db)[i])
    BY <2>1
  <2>4. \A i, j \in {1, 2, 3, 4} : Fields(db)[i].name = Fields(db)[j].name => i = j
    BY <2>1
  <2> QED BY <1>1, <1>2, <2>2, <2>3, <2>4 DEF places
<1> QED BY <1>3, <1>4

(* What is read of the union is what the document is to be shown as.       *)
LEMMA ShownSaid ==
  ASSUME NEW mem, NEW layout, Written(mem, layout), NEW r, NEW doc,
         Shows(mem, layout, r, doc), NEW field
  PROVE  Shown(field, r) = ShownOf(field, doc)
<1>1. {"array"} # {"type", "bytes"} /\ {"map"} # {"type", "bytes"}
  OBVIOUS
<1>2. CASE r.type \notin {Map, Array} /\ doc = [type |-> r.type, bytes |-> r.data]
  <2>1. DOMAIN doc = {"type", "bytes"} /\ doc.type = r.type /\ doc.bytes = r.data
    BY <1>2
  <2> QED BY <2>1 DEF Shown, ShownOf
<1>3. CASE r.type \in {Map, Array} /\ r.data = <<>> /\ DOMAIN doc # {"type", "bytes"}
  <2>1. r.type # String
    BY <1>3 DEF Map, Array, String
  <2> QED BY <1>3, <2>1 DEF Shown, ShownOf
<1>4. \/ r.type \notin {Map, Array} /\ doc = [type |-> r.type, bytes |-> r.data]
      \/ r.type \in {Map, Array} /\ r.data = <<>> /\ DOMAIN doc # {"type", "bytes"}
  BY <1>1, ShownFacts
<1> QED BY <1>2, <1>3, <1>4

LEMMA WrittenData ==
  ASSUME IPDBInv, pc = "answered", LaidOut(Data, documents)
  PROVE  Written(Data, documents)
<1>1. Section(Data) /\ Len(Data) >= 3
  BY DataSectionOK DEF IPDBInv, OpenInv, HavingSizes
<1> QED BY <1>1 DEF Written, Section

\* `r' is the sequence `s' with the head `h'.
Headed(r, s, h) ==
  /\ Len(s) \in Nat /\ Len(s) >= 1 /\ Len(r) = Len(s)
  /\ r[1] = h /\ \A i \in 2 .. Len(s) : r[i] = s[i]

LEMMA HeadReplaced ==
  ASSUME NEW S, NEW s \in Seq(S), s # <<>>, NEW h
  PROVE  Headed(<<h>> \o Tail(s), s, h)
<1>0. Tail(s) \in Seq(S)
  OBVIOUS
<1>1. PICK t \in Seq(S) : t = Tail(s)
  BY <1>0, Zenon
<1>2. /\ Len(s) \in Nat /\ Len(s) >= 1 /\ Len(t) = Len(s) - 1
      /\ \A i \in 2 .. Len(s) : t[i - 1] = s[i]
  BY <1>1
<1>3. <<h>> \in Seq({h} \union S) /\ t \in Seq({h} \union S)
  BY <1>1
<1>4. /\ Len(<<h>> \o t) = 1 + Len(t) /\ (<<h>> \o t)[1] = h
      /\ \A i \in 2 .. 1 + Len(t) : (<<h>> \o t)[i] = t[i - 1]
  BY <1>3
<1>5. 1 + Len(t) = Len(s)
  BY <1>2
<1> QED BY <1>1, <1>2, <1>4, <1>5 DEF Headed

LEMMA HeadTaken ==
  ASSUME NEW S, NEW s \in Seq(S), s # <<>>
  PROVE  /\ Len(s) \in Nat /\ Len(s) >= 1 /\ Len(Tail(s)) = Len(s) - 1
         /\ \A i \in 1 .. Len(s) - 1 : Tail(s)[i] = s[i + 1]
OBVIOUS

\* an index into what is left of a list, in the list itself
LEMMA Shifted ==
  ASSUME NEW l \in Nat, NEW m \in Nat, m = l - 1, l >= 1, NEW n \in Nat, NEW i \in 1 .. m
  PROVE  i \in 1 .. l - 1 /\ i + 1 \in 2 .. l /\ n + (i + 1) = (n + 1) + i
OBVIOUS

\* The names of the fields before and behind one differ from its own.
LEMMA Apart ==
  ASSUME NEW F, Len(F) \in Nat, NEW n \in 0 .. Len(F), n < Len(F), NEW g, g = F[n + 1],
         \A i, j \in 1 .. Len(F) : F[i].name = F[j].name => i = j
  PROVE  /\ 1 .. n \subseteq 1 .. Len(F) /\ n + 1 \in 1 .. Len(F)
         /\ \A i \in 1 .. n : i # n + 1 /\ F[i].name # g.name
         /\ \A i \in n + 2 .. Len(F) : F[i].name # g.name
<1>1. /\ 1 .. n \subseteq 1 .. Len(F) /\ n + 1 \in 1 .. Len(F)
      /\ \A i \in 1 .. n : i # n + 1
      /\ \A i \in n + 2 .. Len(F) : i \in 1 .. Len(F) /\ i # n + 1
  OBVIOUS
<1>2. \A i \in 1 .. Len(F) : i # n + 1 => F[i].name # F[n + 1].name
  BY <1>1
<1>3. \A i \in 1 .. Len(F) : i # n + 1 => F[i].name # g.name
  BY <1>2, Zenon
<1> QED BY <1>1, <1>3, Zenon

(* A field is read, with the value it is to have: the next one is asked.   *)
LEMMA FieldRead ==
  ASSUME NEW doc, SaidSoFar(doc), asking \in Seq(Asked), asking # <<>>, UNCHANGED database,
         NEW F, F = Fields(database), NEW n, n = Read, NEW g, g = F[n + 1],
         starved' \in {starved, starved \union {g.name}},
         asking' = Tail(asking), NEW x \in MayShow(doc, g, starved'), info' = InfoWith(g.name, x),
         database = "city" =>
           (isLocationValid' <=> isLocationValid /\ (g.kind = "place" => IsThere(doc, g, starved')))
  PROVE  SaidSoFar(doc)'
<1>1. /\ Fields(database)' = F /\ Len(F) \in Nat
      /\ \A i, j \in 1 .. Len(F) : F[i].name = F[j].name => i = j
  BY FieldsFacts
<1>2. /\ Len(asking) \in Nat /\ Len(asking) >= 1 /\ Len(asking') = Len(asking) - 1
      /\ \A i \in 1 .. Len(asking) - 1 : asking'[i] = asking[i + 1]
  BY HeadTaken
<1>3. n \in 0 .. Len(F) /\ n = Len(F) - Len(asking) /\ n < Len(F) /\ n + 1 \in 1 .. Len(F)
  <2>1. n \in 0 .. Len(F) /\ n = Len(F) - Len(asking)
    BY DEF SaidSoFar, AskedInOrder, Read
  <2> QED BY <1>1, <1>2, <2>1
<1>4. Read' = n + 1
  BY <1>1, <1>2, <1>3 DEF Read
<1>5. \A i \in 1 .. n + 1 : i = n + 1 \/ i \in 1 .. n
  BY <1>3
<1>6. 1 .. n \subseteq 1 .. n + 1 /\ n + 1 \in 1 .. n + 1
  BY <1>3
<1>7. /\ \A i \in 1 .. n : F[i].name \in starved' <=> F[i].name \in starved
      /\ \A i \in n + 2 .. Len(F) : F[i].name \notin starved'
  <2>1. /\ \A i \in 1 .. n : F[i].name # g.name
        /\ \A i \in n + 2 .. Len(F) : F[i].name # g.name
    <3>1. Len(F) \in Nat /\ n \in 0 .. Len(F) /\ n < Len(F)
      BY <1>1, <1>3
    <3>2. \A i, j \in 1 .. Len(F) : F[i].name = F[j].name => i = j
      BY <1>1
    <3> QED BY <3>1, <3>2, Apart
  <2>2. \A i \in n + 2 .. Len(F) : F[i].name \notin starved
    BY DEF SaidSoFar, AskedInOrder
  <2> QED BY <2>1, <2>2
<1>8. AskedInOrder(doc)'
  <2>1. \A i \in 2 .. Len(asking) : asking[i] = F[n + i]
    BY DEF SaidSoFar, AskedInOrder
  <2>2. ASSUME NEW i \in 1 .. Len(asking') PROVE asking'[i] = F[(n + 1) + i]
    <3>1. i \in 1 .. Len(asking) - 1 /\ i + 1 \in 2 .. Len(asking) /\ n + (i + 1) = (n + 1) + i
      BY <1>2, <1>3, Shifted
    <3>2. asking[i + 1] = F[n + (i + 1)]
      BY <2>1, <3>1
    <3> QED BY <1>2, <3>1, <3>2
  <2>3. n + 1 < Len(F) => asking'[1] = F[(n + 1) + 1]
    <3>1. n + 1 < Len(F) => 1 \in 1 .. Len(asking')
      BY <1>2, <1>3
    <3> QED BY <2>2, <3>1
  <2>4. \A i \in 2 .. Len(asking') : asking'[i] = F[(n + 1) + i]
    <3>1. 2 .. Len(asking') \subseteq 1 .. Len(asking')
      BY <1>2, <1>3
    <3> QED BY <2>2, <3>1
  <2>5. n + 1 \in 0 .. Len(F)
    BY <1>1, <1>3
  <2>6. \A i \in n + 2 .. Len(F) : F[i].name \notin starved'
    BY <1>7
  <2>7. n + 1 < Len(F) => (n + 1) + 1 \in n + 2 .. Len(F)
    BY <1>1, <1>3
  <2>8. (n + 1) + 2 .. Len(F) \subseteq n + 2 .. Len(F)
    BY <1>1, <1>3
  <2>9. n + 1 < Len(F) => NextAsked(doc, F[(n + 1) + 1])'
    BY <2>3, <2>6, <2>7 DEF NextAsked
  <2> QED BY <1>1, <1>4, <2>4, <2>5, <2>6, <2>8, <2>9 DEF AskedInOrder
<1>9. ReadAsSaid(doc)'
  <2>1. /\ g.name \in DOMAIN info' /\ info'[g.name] \in MayShow(doc, g, starved')
        /\ \A k \in DOMAIN info : k # g.name => k \in DOMAIN info' /\ info'[k] = info[k]
    BY DEF InfoWith
  <2>2. \A i \in 1 .. n :
          F[i].name \in DOMAIN info /\ info[F[i].name] \in MayShow(doc, F[i], starved)
    BY DEF SaidSoFar, ReadAsSaid
  <2>3. \A i \in 1 .. n : MayShow(doc, F[i], starved') = MayShow(doc, F[i], starved)
    BY <1>7 DEF MayShow
  <2>4. \A i \in 1 .. n : F[i].name # g.name
    BY <1>1, <1>3
  <2>5. \A i \in 1 .. n + 1 :
          F[i].name \in DOMAIN info' /\ info'[F[i].name] \in MayShow(doc, F[i], starved')
    BY <1>5, <2>1, <2>2, <2>4, <2>3
  <2> QED BY <1>1, <1>4, <2>5 DEF ReadAsSaid
<1>10. ASSUME database = "city" PROVE ValidAsSaid(doc)'
  <2> DEFINE was(i) == F[i].kind = "place" => IsThere(doc, F[i], starved)
             is(i) == F[i].kind = "place" => IsThere(doc, F[i], starved')
  <2>1. isLocationValid <=> \A i \in 1 .. n : was(i)
    BY <1>10 DEF SaidSoFar, ValidAsSaid
  <2>2. \A i \in 1 .. n : was(i) <=> is(i)
    BY <1>7 DEF IsThere
  <2>3. is(n + 1) <=> (g.kind = "place" => IsThere(doc, g, starved'))
    OBVIOUS
  <2> HIDE DEF was, is
  <2>4. (\A i \in 1 .. n + 1 : is(i)) <=> (\A i \in 1 .. n : was(i)) /\ is(n + 1)
    BY <1>5, <1>6, <2>2
  <2>5. isLocationValid' <=> isLocationValid /\ is(n + 1)
    BY <1>10, <2>3, Zenon
  <2>6. isLocationValid' <=> \A i \in 1 .. n + 1 : is(i)
    BY <2>1, <2>4, <2>5, Zenon
  <2> QED BY <1>1, <1>4, <2>6, Zenon DEF ValidAsSaid, is
<1> QED BY <1>8, <1>9, <1>10 DEF SaidSoFar

(* The other path is to be tried.                                          *)
LEMMA FieldAgain ==
  ASSUME NEW doc, SaidSoFar(doc), asking \in Seq(Asked), asking # <<>>, UNCHANGED database,
         UNCHANGED info, UNCHANGED isLocationValid,
         NEW F, F = Fields(database), NEW n, n = Read, NEW g, g = F[n + 1],
         starved' \in {starved, starved \union {g.name}}, n < Len(F),
         HasOther(g), ~There(doc, g) \/ g.name \in starved',
         asking' = <<Again(g)>> \o Tail(asking)
  PROVE  SaidSoFar(doc)'
<1>1. /\ Fields(database)' = F /\ Len(F) \in Nat
      /\ \A i, j \in 1 .. Len(F) : F[i].name = F[j].name => i = j
  BY FieldsFacts
<1>2. Headed(asking', asking, Again(g))
  BY HeadReplaced
<1>3. /\ Len(asking) \in Nat /\ Len(asking) >= 1 /\ Len(asking') = Len(asking)
      /\ asking'[1] = Again(g) /\ \A i \in 2 .. Len(asking) : asking'[i] = asking[i]
  BY <1>2 DEF Headed
<1>4. Read' = n /\ n \in 0 .. Len(F) /\ n < Len(F)
  BY <1>1, <1>3 DEF Read, SaidSoFar, AskedInOrder
<1>5. /\ \A i \in 1 .. n : F[i].name \in starved' <=> F[i].name \in starved
      /\ \A i \in n + 2 .. Len(F) : F[i].name \notin starved'
  <2>1. /\ \A i \in 1 .. n : F[i].name # g.name
        /\ \A i \in n + 2 .. Len(F) : F[i].name # g.name
    <3>1. Len(F) \in Nat /\ n \in 0 .. Len(F) /\ n < Len(F)
      BY <1>1, <1>4
    <3>2. \A i, j \in 1 .. Len(F) : F[i].name = F[j].name => i = j
      BY <1>1
    <3> QED BY <3>1, <3>2, Apart
  <2>2. \A i \in n + 2 .. Len(F) : F[i].name \notin starved
    BY DEF SaidSoFar, AskedInOrder
  <2> QED BY <2>1, <2>2
<1>6. AskedInOrder(doc)'
  <2>1. \A i \in 2 .. Len(asking) : asking[i] = F[n + i]
    BY DEF SaidSoFar, AskedInOrder
  <2>2. \A i \in 2 .. Len(asking') : asking'[i] = F[n + i]
    BY <1>3, <2>1
  <2>3. NextAsked(doc, g)'
    BY <1>3 DEF NextAsked, HasOther
  <2>4. \A i \in n + 2 .. Len(F) : F[i].name \notin starved'
    BY <1>5
  <2> QED BY <1>1, <1>4, <2>2, <2>3, <2>4 DEF AskedInOrder
<1>7. ReadAsSaid(doc)'
  <2>1. \A i \in 1 .. n : MayShow(doc, F[i], starved') = MayShow(doc, F[i], starved)
    BY <1>5 DEF MayShow
  <2> QED BY <1>1, <1>4, <2>1 DEF SaidSoFar, ReadAsSaid
<1>8. ASSUME database = "city" PROVE ValidAsSaid(doc)'
  <2>1. \A i \in 1 .. n : IsThere(doc, F[i], starved') <=> IsThere(doc, F[i], starved)
    BY <1>5 DEF IsThere
  <2>2. isLocationValid <=> \A i \in 1 .. n : F[i].kind = "place" => IsThere(doc, F[i], starved)
    BY <1>8 DEF SaidSoFar, ValidAsSaid
  <2>3. isLocationValid <=> \A i \in 1 .. n : F[i].kind = "place" => IsThere(doc, F[i], starved')
    BY <2>1, <2>2
  <2> QED BY <1>1, <1>4, <2>3, Zenon DEF ValidAsSaid
<1> QED BY <1>6, <1>7, <1>8 DEF SaidSoFar

(* The read of a field tells whether the document has it, and shows it.    *)
AskTells(field, e, doc) ==
  IF There(doc, field)
    THEN e.status = "ok" /\ Shown(field, e) = ShownOf(field, InDocument(doc, Keys(field.path)))
    ELSE e.status # "ok"

LEMMA AskedTells ==
  ASSUME IPDBInv, pc = "answered", LaidOut(Data, documents), NEW v \in documents,
         v.at = result.offset, NEW field \in Asked
  PROVE  AskTells(field, AGet(Data, result.offset, Keys(field.path)), v.doc)
<1>1. PICK path : path = Keys(field.path)
  OBVIOUS
<1>2. Len(path) \in Nat
  BY <1>1, KeysLen DEF Asked
<1>3. PICK doc : doc = InDocument(v.doc, path)
  OBVIOUS
<1>4. Written(Data, documents)
  BY WrittenData
<1>5. PICK e : e = AGet(Data, result.offset, path)
  OBVIOUS
<1>6. Gives(Data, documents, e, doc)
  BY <1>2, <1>3, <1>4, <1>5, AGetGives
<1>7. CASE doc = Nothing
  BY <1>1, <1>3, <1>5, <1>6, <1>7 DEF AskTells, There, Gives
<1>8. CASE doc # Nothing
  <2>1. Shows(Data, documents, e, doc)
    BY <1>6, <1>8 DEF Gives
  <2>2. Shown(field, e) = ShownOf(field, doc)
    BY <1>4, <2>1, ShownSaid
  <2>3. e.status = "ok"
    BY <2>1 DEF Shows
  <2> QED BY <1>1, <1>3, <1>5, <1>8, <2>2, <2>3 DEF AskTells, There
<1> QED BY <1>7, <1>8

LEMMA AskAnswers ==
  ASSUME IPDBInv, AnswerInv, Ask
  PROVE  AnswerInv'
<1>1. /\ asking # <<>> /\ asking \in Seq(Asked) /\ pc = "answered" /\ pc' = "answered"
      /\ UNCHANGED <<content, dataSize, pc, result, documents, database>>
  BY DEF Ask, IPDBInv, AskInv, treeVars, databaseVars, lookupVars
<1>2. Data' = Data
  BY <1>1 DEF Data
<1>3. SUFFICES ASSUME result.found, LaidOut(Data, documents), NEW v \in documents,
                      v.at = result.offset
               PROVE  SaidSoFar(v.doc)'
  BY <1>1, <1>2 DEF AnswerInv
<1>4. PICK doc : doc = v.doc
  OBVIOUS
<1>5. SaidSoFar(doc)
  BY <1>1, <1>3, <1>4 DEF AnswerInv
<1>6. PICK F : F = Fields(database)
  OBVIOUS
<1>7. PICK n : n = Read
  OBVIOUS
<1>8. PICK g : g = F[n + 1]
  OBVIOUS
<1>9. PICK field \in Asked : field = Head(asking) /\ field = asking[1]
  BY <1>1
<1>10. n < Len(F) /\ n + 1 \in 1 .. Len(F)
  <2>1. Len(F) \in Nat
    BY <1>6, FieldsFacts
  <2>2. Len(asking) \in Nat /\ Len(asking) >= 1
    BY <1>1
  <2>3. n = Len(F) - Len(asking) /\ n \in 0 .. Len(F)
    BY <1>5, <1>6, <1>7 DEF SaidSoFar, AskedInOrder, Read
  <2> QED BY <2>1, <2>2, <2>3
<1>11. \/ field = g /\ g.name \notin starved
       \/ field = Again(g) /\ g.instead # "" /\ (~There(doc, g) \/ g.name \in starved)
  BY <1>5, <1>6, <1>7, <1>8, <1>9, <1>10 DEF SaidSoFar, AskedInOrder, NextAsked
<1>12. g \in Asked /\ (g.kind = "place" => g.instead = "")
  BY <1>6, <1>8, <1>10, FieldsFacts
<1>13. /\ field.name = g.name /\ field.kind = g.kind
       /\ field = Again(g) => field.instead = "" /\ field.path = Append(Front(g.path), g.instead)
  BY <1>11, <1>12 DEF Again, Asked
<1>14. PICK gets : gets = AGet(Data, result.offset, Keys(field.path))
  OBVIOUS
<1>15. AskTells(field, gets, doc)
  BY <1>1, <1>3, <1>4, <1>14, AskedTells
<1>16. PICK e \in {gets, Entry("out_of_memory", 0)} :
         \/ /\ e.status = "ok" /\ asking' = Tail(asking) /\ UNCHANGED isLocationValid
            /\ \/ info' = InfoWith(field.name, Shown(field, e)) /\ UNCHANGED starved
               \/ /\ field.kind = "text" /\ info' = InfoWith(field.name, <<>>)
                  /\ starved' = starved \union {field.name}
         \/ /\ e.status # "ok" /\ field.instead # "" /\ asking' = <<Again(field)>> \o Tail(asking)
            /\ UNCHANGED <<info, isLocationValid>> /\ starved' = Starved(field, e)
         \/ /\ e.status # "ok" /\ field.instead = ""
            /\ info' = InfoWith(field.name, Missing(field)) /\ starved' = Starved(field, e)
            /\ isLocationValid' = ValidWithout(field) /\ asking' = Tail(asking)
  BY <1>9, <1>14 DEF Ask, Again, GetValue
<1>17. /\ e.status = "ok" =>
            There(doc, field) /\ Shown(field, e) = ShownOf(field, InDocument(doc, Keys(field.path)))
       /\ e.status # "ok" =>
            /\ Starved(field, e) \in {starved, starved \union {g.name}}
            /\ ~There(doc, field) \/ g.name \in Starved(field, e)
            /\ g.name \in starved => g.name \in Starved(field, e)
  <2>1. CASE e = gets
    BY <1>13, <1>15, <2>1 DEF AskTells, Starved
  <2>2. CASE e = Entry("out_of_memory", 0)
    <3>1. e.status = "out_of_memory"
      BY <2>2 DEF Entry
    <3> QED BY <1>13, <3>1 DEF Starved
  <2> QED BY <1>16, <2>1, <2>2
<1>18. /\ First(doc, g) = InDocument(doc, Keys(g.path))
       /\ field # g => Second(doc, g) = InDocument(doc, Keys(field.path))
       /\ \A d : ShownOf(field, d) = ShownOf(g, d)
  <2>1. \A d : ShownOf(field, d) = ShownOf(g, d)
    BY <1>13 DEF ShownOf
  <2>2. field # g => Second(doc, g) = InDocument(doc, Keys(field.path))
    BY <1>11, <1>13 DEF Second
  <2> QED BY <2>1, <2>2 DEF First
<1>19. CASE e.status = "ok" /\ asking' = Tail(asking) /\ UNCHANGED isLocationValid
            /\ info' = InfoWith(field.name, Shown(field, e)) /\ UNCHANGED starved
  <2>1. /\ InDocument(doc, Keys(field.path)) # Nothing
        /\ Shown(field, e) = ShownOf(g, InDocument(doc, Keys(field.path)))
    BY <1>17, <1>18, <1>19 DEF There
  <2>2. Shown(field, e) \in MayShow(doc, g, starved')
    <3>1. CASE field = g
      BY <1>11, <1>13, <1>18, <1>19, <2>1, <3>1 DEF MayShow, Expected, Again, Asked
    <3>2. CASE field # g
      <4>1. /\ Second(doc, g) = InDocument(doc, Keys(field.path))
            /\ ~There(doc, g) \/ g.name \in starved'
        BY <1>11, <1>18, <1>19, <3>2
      <4>2. Shown(field, e) \in Degraded(doc, g)
        BY <2>1, <4>1 DEF Degraded
      <4>3. ~There(doc, g) => Shown(field, e) = Expected(doc, g)
        BY <1>18, <2>1, <4>1 DEF There, Expected
      <4> QED BY <4>1, <4>2, <4>3 DEF MayShow
    <3> QED BY <3>1, <3>2
  <2>3. g.kind = "place" => IsThere(doc, g, starved')
    BY <1>11, <1>12, <1>17, <1>19 DEF IsThere
  <2>4. isLocationValid' <=> isLocationValid /\ (g.kind = "place" => IsThere(doc, g, starved'))
    <3>1. UNCHANGED isLocationValid
      BY <1>19
    <3> QED BY <2>3, <3>1, Zenon
  <2> QED
    BY <1>1, <1>4, <1>5, <1>6, <1>7, <1>8, <1>13, <1>19, <2>2, <2>4, FieldRead
<1>20. CASE e.status = "ok" /\ asking' = Tail(asking) /\ UNCHANGED isLocationValid
            /\ field.kind = "text" /\ info' = InfoWith(field.name, <<>>)
            /\ starved' = starved \union {field.name}
  <2>1. <<>> \in MayShow(doc, g, starved')
    BY <1>13, <1>20 DEF MayShow, Degraded
  <2>2. isLocationValid' <=> isLocationValid /\ (g.kind = "place" => IsThere(doc, g, starved'))
    <3>1. UNCHANGED isLocationValid /\ g.kind # "place"
      BY <1>13, <1>20
    <3> QED BY <3>1, Zenon
  <2> QED
    BY <1>1, <1>4, <1>5, <1>6, <1>7, <1>8, <1>13, <1>20, <2>1, <2>2, FieldRead
<1>21. CASE /\ e.status # "ok" /\ field.instead # "" /\ asking' = <<Again(field)>> \o Tail(asking)
            /\ UNCHANGED <<info, isLocationValid>> /\ starved' = Starved(field, e)
  <2>1. field = g /\ (~There(doc, g) \/ g.name \in starved')
    BY <1>11, <1>13, <1>17, <1>21
  <2>2. starved' \in {starved, starved \union {g.name}}
    BY <1>17, <1>21
  <2>3. HasOther(g)
    BY <1>21, <2>1, Zenon DEF HasOther
  <2>4. asking' = <<Again(g)>> \o Tail(asking) /\ UNCHANGED info /\ UNCHANGED isLocationValid
    BY <1>21, <2>1
  <2> QED BY <1>1, <1>4, <1>5, <1>6, <1>7, <1>8, <1>10, <2>1, <2>2, <2>3, <2>4, FieldAgain
<1>22. CASE /\ e.status # "ok" /\ field.instead = ""
            /\ info' = InfoWith(field.name, Missing(field)) /\ starved' = Starved(field, e)
            /\ isLocationValid' = ValidWithout(field) /\ asking' = Tail(asking)
  <2>1. /\ starved' \in {starved, starved \union {g.name}}
        /\ ~There(doc, field) \/ g.name \in starved'
        /\ g.name \in starved => g.name \in starved'
    BY <1>17, <1>22
  <2>2. Missing(field) = Missing(g)
    BY <1>13 DEF Missing
  <2>3. g.name \notin starved' => Expected(doc, g) = Missing(g)
    <3>1. CASE field = g
      BY <1>18, <1>22, <2>1, <3>1 DEF Expected, Second, There
    <3>2. CASE field # g
      BY <1>11, <1>18, <2>1, <3>2 DEF Expected, There
    <3> QED BY <3>1, <3>2
  <2>4. Missing(g) \in MayShow(doc, g, starved')
    BY <2>3 DEF MayShow, Degraded
  <2>5. g.kind = "place" => ~IsThere(doc, g, starved')
    BY <1>11, <1>12, <2>1 DEF IsThere
  <2>6. isLocationValid' <=> isLocationValid /\ (g.kind = "place" => IsThere(doc, g, starved'))
    <3>1. isLocationValid' = (isLocationValid /\ g.kind # "place")
      BY <1>13, <1>22 DEF ValidWithout
    <3> QED BY <2>5, <3>1, Zenon
  <2>7. info' = InfoWith(g.name, Missing(g)) /\ asking' = Tail(asking)
    BY <1>13, <1>22, <2>2
  <2> QED BY <1>1, <1>4, <1>5, <1>6, <1>7, <1>8, <2>1, <2>4, <2>6, <2>7, FieldRead
<1> QED BY <1>16, <1>19, <1>20, <1>21, <1>22

LEMMA FoundAnswers ==
  ASSUME IPDBInv, AnswerInv, Found
  PROVE  AnswerInv'
<1>1. result' = Outcome /\ UNCHANGED database /\ starved' = {} /\ pc' = "answered"
  BY DEF Found, EndWalk, AnswerInv
<1>2. SUFFICES ASSUME result'.found, NEW doc PROVE SaidSoFar(doc)'
  BY <1>1 DEF AnswerInv
<1>3. result'.status = "ok"
  BY <1>1, <1>2 DEF Outcome, NoResult
<1>4. asking' = Fields(database) /\ isLocationValid' = ValidAtFirst(result'.found)
  BY <1>2, <1>3 DEF Found
<1>5. PICK F : F = Fields(database)
  OBVIOUS
<1>6. Fields(database)' = F /\ asking' = F /\ Len(F) \in Nat
  BY <1>1, <1>4, <1>5, FieldsFacts
<1>7. Read' = 0
  BY <1>6 DEF Read
<1>8. \A i \in Nat : 0 + i = i
  OBVIOUS
<1>9. AskedInOrder(doc)'
  <2>1. 0 \in 0 .. Len(F) /\ \A i \in 2 .. Len(F) : i \in Nat
    BY <1>6
  <2>2. \A i \in 2 .. Len(F) : F[i] = F[0 + i]
    BY <1>8, <2>1
  <2> QED BY <1>1, <1>6, <1>7, <2>1, <2>2 DEF AskedInOrder, NextAsked
<1>10. 1 .. Read' = {}
  BY <1>7
<1>11. ReadAsSaid(doc)'
  BY <1>10 DEF ReadAsSaid
<1>12. ASSUME database = "city" PROVE ValidAsSaid(doc)'
  <2>1. isLocationValid'
    BY <1>2, <1>4, <1>12, Zenon DEF ValidAtFirst
  <2> QED BY <1>10, <2>1, Zenon DEF ValidAsSaid
<1> QED BY <1>1, <1>9, <1>11, <1>12 DEF SaidSoFar

LEMMA AnswerStep ==
  ASSUME IPDBInv, AnswerInv, [IPDBNext]_ipdbAll
  PROVE  AnswerInv'
<1>1. CASE \/ Open /\ UNCHANGED <<database, documents, ipdbVars>>
           \/ Walk /\ UNCHANGED <<openVars, database, documents, ipdbVars>>
  <2>1. ASSUME Open PROVE pc' \notin {"walk", "answered"}
    BY <2>1
       DEF Open, Begin, MapFile, FindMetadata, ReadNodeCount, ReadRecordSize, ReadIPVersion,
           ReadDatabaseType, ReadLanguages, ReadMajorVersion, ReadMinorVersion, ReadBuildEpoch,
           ReadDescription, CheckSizes, StartOfIPv4, FindStartNode, FoundStartNode, Step,
           Proceed, Fail, OtherVars
  <2>2. ASSUME Walk PROVE pc = "walk" /\ pc' = "walk"
    BY <2>2 DEF Walk
  <2>3. UNCHANGED starved
    BY <1>1 DEF ipdbVars
  <2> QED BY <1>1, <2>1, <2>2, <2>3 DEF AnswerInv
<1>2. ASSUME NEW f, NEW a, LookUp(f, a) PROVE AnswerInv'
  <2>1. starved' = {} /\ (pc' # "answered" \/ ~result'.found)
    BY <1>2 DEF LookUp, Call, Lookup, RefuseLookup, NoResult
  <2> QED BY <2>1 DEF AnswerInv
<1>3. ASSUME NEW f, LookUpUnopened(f) PROVE AnswerInv'
  <2>1. pc' = "failed"
    BY <1>3 DEF LookUpUnopened
  <2> QED BY <2>1 DEF AnswerInv
<1>4. CASE UNCHANGED ipdbAll
  <2>1. /\ UNCHANGED <<pc, result, content, dataSize, documents, database>>
        /\ UNCHANGED <<asking, info, isLocationValid, starved>>
    BY <1>4 DEF ipdbAll, dbAll, treeVars, databaseVars, lookupVars, ipdbVars
  <2>2. Data' = Data
    BY <2>1 DEF Data
  <2>3. \A doc : SaidSoFar(doc) => SaidSoFar(doc)'
    BY <2>1 DEF SaidSoFar, AskedInOrder, NextAsked, ReadAsSaid, ValidAsSaid, Read
  <2> QED BY <2>1, <2>2, <2>3 DEF AnswerInv
<1> QED
  BY <1>1, <1>2, <1>3, <1>4, FoundAnswers, AskAnswers DEF IPDBNext

(* The call shows what the file says of the network that the address is    *)
(* in, wherever the documents are in the data, however deep, behind        *)
(* whatever pointers and members that are passed by; a field for which an  *)
(* allocation of the code fails shows the other name, what a missing one   *)
(* shows or nothing, and the fields after it what they say.  The location  *)
(* is valid exactly when its three parts are there and none was without    *)
(* memory.  The data is to have the documents: WellMadeOpens.              *)
THEOREM AnswersOfDocuments ==
  IPDBSpec => [](LaidOut(Data, documents) => AnswerOfDocument)
<1>1. IPDBInit => AnswerInv
  BY DEF IPDBInit, OpenInit, AnswerInv
<1>2. IPDBInv /\ AnswerInv /\ [IPDBNext]_ipdbAll => AnswerInv'
  BY AnswerStep
<1>3. AnswerInv => (LaidOut(Data, documents) => AnswerOfDocument)
  <2>1. SUFFICES ASSUME AnswerInv, LaidOut(Data, documents), pc = "answered", result.found,
                        asking = <<>>, NEW v \in documents, v.at = result.offset
                 PROVE  /\ \A field \in Range(Fields(database)) :
                             info[field.name] \in MayShow(v.doc, field, starved)
                        /\ database = "city" =>
                             (isLocationValid <=>
                                \A field \in Range(Fields(database)) :
                                  field.kind = "place" => IsThere(v.doc, field, starved))
    BY DEF AnswerOfDocument, MayShow, IsThere, There, First
  <2>2. SaidSoFar(v.doc)
    BY <2>1 DEF AnswerInv
  <2>3. PICK F : F = Fields(database)
    OBVIOUS
  <2>4. Len(F) \in Nat /\ DOMAIN F = 1 .. Len(F)
    BY <2>3, FieldsFacts
  <2>5. Read = Len(F)
    BY <2>1, <2>3, <2>4 DEF Read
  <2>6. \A field \in Range(F) : \E i \in 1 .. Read : field = F[i]
    BY <2>4, <2>5 DEF Range
  <2>7. \A i \in 1 .. Read : F[i] \in Range(F)
    BY <2>4, <2>5 DEF Range
  <2>8. \A field \in Range(F) : info[field.name] \in MayShow(v.doc, field, starved)
    BY <2>2, <2>3, <2>6 DEF SaidSoFar, ReadAsSaid
  <2>9. ASSUME database = "city"
        PROVE  isLocationValid <=>
                 \A field \in Range(F) : field.kind = "place" => IsThere(v.doc, field, starved)
    <3>1. isLocationValid <=>
            \A i \in 1 .. Read : F[i].kind = "place" => IsThere(v.doc, F[i], starved)
      BY <2>2, <2>3, <2>9 DEF SaidSoFar, ValidAsSaid
    <3>2. (\A i \in 1 .. Read : F[i].kind = "place" => IsThere(v.doc, F[i], starved)) <=>
            \A field \in Range(F) : field.kind = "place" => IsThere(v.doc, field, starved)
      BY <2>6, <2>7
    <3> QED BY <3>1, <3>2, Zenon
  <2> QED BY <2>3, <2>8, <2>9
<1> QED
  BY <1>1, <1>2, <1>3, DatabaseInductive, PTL DEF IPDBSpec

-----------------------------------------------------------------------------
(* What MMDB_open reads.  The metadata are a document too, so each value   *)
(* that is asked for is the one they have under its key.                   *)

LEMMA MemberGiven ==
  ASSUME NEW mem, NEW layout, Written(mem, layout), NEW v \in layout, NEW key
  PROVE  Gives(mem, layout, AGet(mem, v.at, <<key>>), Member(v.doc, key))
<1>1. Len(<<key>>) = 1 /\ <<key>>[1] = key /\ Len(<<key>>) \in Nat
  OBVIOUS
<1>2. v.doc \in Said(layout)
  BY DEF Said
<1>3. PICK inside : InsideRounds(v.doc, <<key>>, inside)
  BY <1>1, <1>2, InDocumentSteps
<1>4. InDocument(v.doc, <<key>>) = Member(v.doc, key)
  BY <1>1, <1>3 DEF InsideRounds
<1> QED BY <1>1, <1>4, AGetGives

LEMMA PlainGiven ==
  ASSUME NEW mem, NEW layout, Written(mem, layout), NEW r, NEW doc,
         Gives(mem, layout, r, doc), NEW type, IsPlain(doc, type)
  PROVE  r \in Entries /\ r.status = "ok" /\ r.type = type /\ r.data = doc.bytes
<1>1. DOMAIN doc = {"type", "bytes"} /\ doc.type = type /\ doc # Nothing
  <2>1. DOMAIN Nothing = {"none"} /\ {"none"} # {"type", "bytes"}
    BY DEF Nothing
  <2> QED BY <2>1 DEF IsPlain
<1>2. Shows(mem, layout, r, doc)
  BY <1>1 DEF Gives
<1>3. {"type", "bytes"} # {"array"} /\ {"type", "bytes"} # {"map"}
  OBVIOUS
<1>4. doc = [type |-> r.type, bytes |-> r.data]
  BY <1>1, <1>2, <1>3, ShownFacts
<1> QED BY <1>1, <1>2, <1>4 DEF Shows

-----------------------------------------------------------------------------
(* The list of an array or map of strings, get_entry_data_list.            *)

\* The list of one string that ends at `next'.
IsTextList(l, next) ==
  /\ l \in Lists /\ l.status = "ok" /\ l.next = next
  /\ Len(l.members) = 1 /\ l.members[1].type = String

LEMMA SingleText ==
  ASSUME NEW e \in Entries, e.type = String
  PROVE  IsTextList(Single(e), e.next)
<1>1. <<e>> \in Seq(Entries) /\ Len(<<e>>) = 1 /\ <<e>>[1] = e
  OBVIOUS
<1>2. e.next \in Nat /\ e.end \in Nat
  BY DEF Entries
<1> QED BY <1>1, <1>2 DEF Single, Lists, IsTextList

LEMMA TextListed ==
  ASSUME NEW mem, NEW layout, Written(mem, layout), NEW list, DataListRounds(mem, list),
         NEW n \in Nat \ {0}, NEW w \in layout, IsPlain(w.doc, String)
  PROVE  IsTextList(list[n][w.at], w.next)
<1> DEFINE e == DecodeOne(mem, w.at)
<1>1. Section(mem) /\ w.at \in Nat /\ e \in Entries /\ e.status = "ok"
  BY LaidFacts DEF Written
<1>2. /\ DOMAIN w.doc = {"type", "bytes"} /\ w.doc.type = String
      /\ {"type", "bytes"} # {"array"} /\ {"type", "bytes"} # {"map"}
  BY DEF IsPlain
<1>3. /\ list[n][w.at] = ListFrom(mem, e, list[n - 1])
      /\ list[n - 1] \in Values(mem)
  <2>1. n \in Nat /\ n # 0 /\ n - 1 \in Nat
    OBVIOUS
  <2> QED BY <1>1, <2>1 DEF DataListRounds
<1>4. LaidPointer(mem, layout, w, e) \/ LaidPlain(w, e)
  BY <1>2, LaidFacts DEF LaidMap, LaidArray
<1>5. CASE LaidPlain(w, e)
  <2>1. e.type = String /\ e.type # Pointer /\ MemberCount(e) = 0 /\ w.next = e.next
    BY <1>2, <1>5 DEF LaidPlain, MemberCount, Pointer, String, Map, Array
  <2>2. PICK rest : ListRounds(mem, list[n - 1], rest)
    BY <1>3, ListOfSteps
  <2>3. IsTextList(Single(e), e.next) /\ Single(e) \in Lists
    BY <1>1, <2>1, SingleText DEF IsTextList
  <2>4. DataListOf(list[n - 1], 0, Single(e)) = Single(e)
    BY <2>2, <2>3 DEF ListRounds
  <2>5. list[n][w.at] = Single(e)
    BY <1>1, <1>3, <2>1, <2>4 DEF ListFrom
  <2> QED BY <2>1, <2>3, <2>5
<1>6. CASE LaidPointer(mem, layout, w, e)
  <2>1. PICK u \in layout :
          u.at = e.pointer /\ u.doc = w.doc /\ DecodeOne(mem, u.at).type # Pointer
    BY <1>6 DEF LaidPointer
  <2> DEFINE target == After(e.end, DecodeOne(mem, e.pointer))
             t == [target EXCEPT !.next = e.next]
  <2>2. e.type = Pointer /\ w.next = e.next /\ e.end \in Nat /\ e.next \in Nat /\ e.pointer \in Nat
    BY <1>1, <1>6 DEF LaidPointer, Entries
  <2>3. LaidPlain(u, DecodeOne(mem, u.at)) /\ DecodeOne(mem, u.at).status = "ok"
    BY <1>2, <2>1, LaidFacts DEF LaidMap, LaidArray, LaidPointer
  <2>4. DecodeOne(mem, u.at).type = String
    BY <1>2, <2>1, <2>3 DEF LaidPlain
  <2>5. target \in Entries /\ target.status = "ok" /\ target.type = String
    BY <1>1, <2>1, <2>2, <2>3, <2>4, AfterLike DEF Like
  <2> HIDE DEF target
  <2>6. t \in Entries /\ t.type = String /\ t.next = w.next
    BY <2>2, <2>5 DEF Entries
  <2>7. list[n][w.at] = Single(t)
    BY <1>1, <1>3, <2>2, <2>5 DEF ListFrom, TargetList, target, String, Pointer, Map, Array
  <2> HIDE DEF t
  <2> QED BY <2>6, <2>7, SingleText
<1> QED BY <1>4, <1>5, <1>6

\* n strings one after the other, where q says.
Strung(layout, q, n) ==
  \A i \in 1 .. n :
    \E w \in layout : w.at = q[i] /\ IsPlain(w.doc, String) /\ w.next = q[i + 1]

\* A list with i strings behind its first member.
WithTexts(l, i) ==
  /\ l \in Lists /\ l.status = "ok" /\ Len(l.members) = i + 1
  /\ \A x \in 2 .. i + 1 : l.members[x].type = String

LEMMA JoinText ==
  ASSUME NEW i \in Nat, NEW l, WithTexts(l, i), NEW next, NEW t, IsTextList(t, next)
  PROVE  WithTexts(Join(l, t), i + 1) /\ Join(l, t).next = next
<1> DEFINE s == l.members \o t.members
           j == [t EXCEPT !.members = s]
<1>1. /\ l.members \in Seq(Entries) /\ t.members \in Seq(Entries) /\ t \in Lists
      /\ l.end \in Nat /\ t.status = "ok" /\ t.next = next
      /\ Len(l.members) = i + 1 /\ Len(t.members) = 1 /\ t.members[1].type = String
      /\ \A x \in 2 .. i + 1 : l.members[x].type = String
  BY DEF WithTexts, IsTextList, Lists
<1>2. /\ s \in Seq(Entries) /\ Len(s) = i + 2
      /\ \A x \in 1 .. i + 1 : s[x] = l.members[x]
      /\ s[i + 2] = t.members[1]
  <2>1. /\ s \in Seq(Entries) /\ Len(s) = Len(l.members) + Len(t.members)
        /\ \A x \in 1 .. Len(l.members) + Len(t.members) :
             s[x] = IF x <= Len(l.members) THEN l.members[x] ELSE t.members[x - Len(l.members)]
    BY <1>1, ConcatProperties
  <2>2. (i + 1) + 1 = i + 2 /\ (i + 2) - (i + 1) = 1 /\ ~(i + 2 <= i + 1)
    OBVIOUS
  <2> HIDE DEF s
  <2>3. /\ Len(s) = i + 2
        /\ \A x \in 1 .. i + 2 : s[x] = IF x <= i + 1 THEN l.members[x] ELSE t.members[x - (i + 1)]
    BY <1>1, <2>1, <2>2
  <2>4. \A x \in 1 .. i + 1 : s[x] = l.members[x]
    BY <2>3
  <2>5. i + 2 \in 1 .. i + 2
    OBVIOUS
  <2>6. s[i + 2] = t.members[1]
    BY <2>2, <2>3, <2>5
  <2> QED BY <2>1, <2>3, <2>4, <2>6, Zenon
<1>3. \A x \in 2 .. i + 2 : s[x].type = String
  <2>1. SUFFICES ASSUME NEW x \in 2 .. i + 2 PROVE s[x].type = String
    OBVIOUS
  <2>2. x = i + 2 \/ (x \in 2 .. i + 1 /\ x \in 1 .. i + 1)
    OBVIOUS
  <2> HIDE DEF s
  <2> QED BY <1>1, <1>2, <2>2
<1> HIDE DEF s
<1>4. /\ j \in Lists /\ j.members = s /\ j.status = "ok" /\ j.next = next
      /\ [j EXCEPT !.end = l.end] \in Lists /\ [j EXCEPT !.end = l.end].members = s
      /\ [j EXCEPT !.end = l.end].status = "ok" /\ [j EXCEPT !.end = l.end].next = next
  BY <1>1, <1>2 DEF Lists
<1>5. Join(l, t) = j \/ Join(l, t) = [j EXCEPT !.end = l.end]
  BY DEF Join, After, s
<1> HIDE DEF j
<1>6. (i + 1) + 1 = i + 2
  OBVIOUS
<1> QED BY <1>2, <1>3, <1>4, <1>5, <1>6 DEF WithTexts

LEMMA TextsListed ==
  ASSUME NEW mem, NEW layout, Written(mem, layout), NEW list, DataListRounds(mem, list),
         NEW levels \in Nat \ {0}, NEW q, NEW n \in Nat, Strung(layout, q, n),
         NEW l, WithTexts(l, 0), l.next = q[1]
  PROVE  WithTexts(DataListOf(list[levels], n, l), n)
<1> DEFINE member == list[levels]
<1>1. member \in Values(mem)
  BY DEF DataListRounds
<1>2. PICK rest : ListRounds(mem, member, rest)
  <2> HIDE DEF member
  <2> QED BY <1>1, ListOfSteps
<1> DEFINE T == {m \in Nat : m <= n =>
                   \A x : WithTexts(x, n - m) /\ x.next = q[(n - m) + 1] =>
                            WithTexts(rest[m][x], n)}
<1>3. 0 \in T
  <2>1. SUFFICES ASSUME NEW x, WithTexts(x, n - 0) PROVE WithTexts(rest[0][x], n)
    OBVIOUS
  <2>2. n - 0 = n /\ x \in Lists
    BY <2>1 DEF WithTexts
  <2>3. rest[0][x] = x
    BY <1>2, <2>2 DEF ListRounds
  <2> QED BY <2>1, <2>2, <2>3
<1>4. ASSUME NEW m \in Nat, m \in T PROVE m + 1 \in T
  <2>1. SUFFICES ASSUME m + 1 <= n, NEW x, WithTexts(x, n - (m + 1)),
                        x.next = q[(n - (m + 1)) + 1]
                 PROVE  WithTexts(rest[m + 1][x], n)
    OBVIOUS
  <2> DEFINE i == n - (m + 1)
  <2>2. i \in Nat /\ i + 1 \in 1 .. n /\ i + 1 = n - m /\ m <= n
    BY <2>1
  <2>3. WithTexts(x, i) /\ x.next = q[i + 1]
    BY <2>1
  <2> HIDE DEF i
  <2>4. PICK w \in layout : w.at = q[i + 1] /\ IsPlain(w.doc, String) /\ w.next = q[(i + 1) + 1]
    BY <2>2 DEF Strung
  <2>5. IsTextList(member[x.next], w.next)
    BY <2>3, <2>4, TextListed
  <2> DEFINE y == Join(x, member[x.next])
  <2>6. WithTexts(y, i + 1) /\ y.next = w.next
    BY <2>2, <2>3, <2>5, JoinText
  <2>7. rest[m + 1][x] = rest[m][y]
    <3>1. x \in Lists /\ x.status = "ok" /\ m + 1 \in Nat /\ m + 1 # 0 /\ (m + 1) - 1 = m
      BY <2>3 DEF WithTexts
    <3> QED BY <1>2, <3>1 DEF ListRounds
  <2> HIDE DEF y, member
  <2> QED BY <1>4, <2>2, <2>4, <2>6, <2>7
<1>5. Nat \subseteq T
  <2> HIDE DEF T
  <2> QED BY <1>3, <1>4, SetInduction
<1>6. n \in T /\ n - n = 0
  BY <1>5
<1>7. WithTexts(rest[n][l], n)
  BY <1>6
<1> QED BY <1>2, <1>7 DEF ListRounds

\* A list that MMDB_open copies: of an array, or of a map with its keys.
LEMMA StrungListed ==
  ASSUME NEW mem, NEW layout, Written(mem, layout), NEW v \in layout,
         NEW e, e = DecodeOne(mem, v.at), e.type \in {Map, Array},
         NEW q, q[1] = e.next, Strung(layout, q, MemberCount(e))
  PROVE  /\ DataList(mem, v.at) \in Lists /\ DataList(mem, v.at).status = "ok"
         /\ AllStrings(DataList(mem, v.at), MemberCount(e))
<1> DEFINE n == MemberCount(e)
           l == Single(e)
<1>1. Section(mem) /\ v.at \in Nat /\ e \in Entries /\ e.status = "ok" /\ e.size \in Nat
  BY LaidFacts DEF Written, Entries
<1>2. n \in Nat /\ e.type # Pointer
  BY <1>1 DEF MemberCount, Map, Array, Pointer
<1>3. PICK list : DataListRounds(mem, list)
  BY <1>1, DataListSteps
<1>4. MaxDepth \in Nat /\ MaxDepth # 0 /\ MaxDepth - 1 \in Nat \ {0}
  BY DepthAssumption
<1>5. DataList(mem, v.at) = DataListOf(list[MaxDepth - 1], n, l)
  <2>1. DataList(mem, v.at) = list[MaxDepth][v.at]
    BY <1>3, Zenon DEF DataListRounds
  <2>2. list[MaxDepth][v.at] = ListFrom(mem, e, list[MaxDepth - 1])
    BY <1>1, <1>3, <1>4 DEF DataListRounds
  <2> QED BY <1>1, <1>2, <2>1, <2>2 DEF ListFrom
<1>6. WithTexts(l, 0) /\ l.next = q[1]
  <2>1. <<e>> \in Seq(Entries) /\ Len(<<e>>) = 0 + 1 /\ 2 .. 0 + 1 = {}
    BY <1>1
  <2>2. e.next \in Nat /\ e.end \in Nat
    BY <1>1 DEF Entries
  <2> QED BY <2>1, <2>2 DEF Single, Lists, WithTexts
<1> HIDE DEF n, l
<1>7. Strung(layout, q, n)
  BY DEF n
<1>8. WithTexts(DataListOf(list[MaxDepth - 1], n, l), n)
  BY <1>2, <1>3, <1>4, <1>6, <1>7, TextsListed
<1> QED BY <1>5, <1>8 DEF WithTexts, AllStrings, n

LEMMA ArrayListed ==
  ASSUME NEW mem, NEW layout, Written(mem, layout), NEW v \in layout,
         LaidArray(layout, v, DecodeOne(mem, v.at)), AllText(v.doc.array)
  PROVE  /\ DataList(mem, v.at) \in Lists /\ DataList(mem, v.at).status = "ok"
         /\ AllStrings(DataList(mem, v.at), DecodeOne(mem, v.at).size)
<1> DEFINE e == DecodeOne(mem, v.at)
           q == v.parts
<1>1. /\ e.type = Array /\ MemberCount(e) = e.size /\ q[1] = e.next
      /\ DOMAIN v.doc.array = 1 .. e.size
      /\ \A i \in 1 .. e.size :
           \E w \in layout :
             w.at = v.parts[i] /\ w.doc = v.doc.array[i] /\ w.next = v.parts[i + 1]
  BY DEF LaidArray, Between, MemberCount, Map, Array
<1>2. Strung(layout, q, MemberCount(e))
  BY <1>1 DEF Strung, AllText
<1> HIDE DEF e, q
<1>3. e = DecodeOne(mem, v.at) /\ e.type \in {Map, Array}
  BY <1>1 DEF e
<1>4. /\ DataList(mem, v.at) \in Lists /\ DataList(mem, v.at).status = "ok"
      /\ AllStrings(DataList(mem, v.at), MemberCount(e))
  BY <1>1, <1>2, <1>3, StrungListed
<1> QED BY <1>1, <1>3, <1>4

LEMMA MapListed ==
  ASSUME NEW mem, NEW layout, Written(mem, layout), NEW v \in layout,
         LaidMap(layout, v, DecodeOne(mem, v.at)),
         AllText([i \in DOMAIN v.doc.map |-> v.doc.map[i][2]])
  PROVE  /\ DataList(mem, v.at) \in Lists /\ DataList(mem, v.at).status = "ok"
         /\ AllStrings(DataList(mem, v.at), 2 * DecodeOne(mem, v.at).size)
<1> DEFINE e == DecodeOne(mem, v.at)
           Pair(i, k, w) == /\ k.at = v.parts[i] /\ k.doc = Text(v.doc.map[i][1]) /\ k.next = w.at
                            /\ w.doc = v.doc.map[i][2] /\ w.next = v.parts[i + 1]
           mid(i) == CHOOSE at : \E k, w \in layout : Pair(i, k, w) /\ w.at = at
           q == [j \in 1 .. 2 * e.size + 1 |->
                   IF j % 2 = 1 THEN v.parts[j \div 2 + 1] ELSE mid(j \div 2)]
<1>0. e.size \in Nat
  BY LaidFacts DEF Entries
<1>1. /\ e.type = Map /\ MemberCount(e) = 2 * e.size /\ v.parts[1] = e.next
      /\ DOMAIN v.doc.map = 1 .. e.size
      /\ \A i \in 1 .. e.size : \E k, w \in layout : Pair(i, k, w)
  BY DEF LaidMap, Between, MemberCount, Map, Array
<1>2. \A i \in 1 .. e.size : IsPlain(v.doc.map[i][2], String)
  BY <1>1 DEF AllText
<1>3. \A b : IsPlain(Text(b), String)
  BY DEF IsPlain, Text
<1>4. ASSUME NEW i \in 1 .. e.size
      PROVE  /\ \E k \in layout : k.at = v.parts[i] /\ IsPlain(k.doc, String) /\ k.next = mid(i)
             /\ \E w \in layout : w.at = mid(i) /\ IsPlain(w.doc, String) /\ w.next = v.parts[i + 1]
  <2>1. \E at : \E k, w \in layout : Pair(i, k, w) /\ w.at = at
    BY <1>1
  <2>2. \E k, w \in layout : Pair(i, k, w) /\ w.at = mid(i)
    BY <2>1, Zenon
  <2> QED BY <1>2, <1>3, <2>2
<1> HIDE DEF e, mid, Pair
<1>5. ASSUME NEW j \in 1 .. 2 * e.size
      PROVE  \E w \in layout : w.at = q[j] /\ IsPlain(w.doc, String) /\ w.next = q[j + 1]
  <2>1. j \in 1 .. 2 * e.size + 1 /\ j + 1 \in 1 .. 2 * e.size + 1
    BY <1>0
  <2>2. PICK i \in 1 .. e.size : j = 2 * i - 1 \/ j = 2 * i
    <3>1. (j + 1) \div 2 \in 1 .. e.size /\ (j = 2 * ((j + 1) \div 2) - 1 \/ j = 2 * ((j + 1) \div 2))
      BY <1>0
    <3> QED BY <3>1
  <2>3. CASE j = 2 * i - 1
    <3>1. j % 2 = 1 /\ j \div 2 + 1 = i /\ (j + 1) % 2 # 1 /\ (j + 1) \div 2 = i
      BY <2>3, SMTT(30)
    <3>2. q[j] = v.parts[i] /\ q[j + 1] = mid(i)
      BY <2>1, <3>1
    <3> HIDE DEF q
    <3> QED BY <1>4, <3>2
  <2>4. CASE j = 2 * i
    <3>1. j % 2 # 1 /\ j \div 2 = i /\ (j + 1) % 2 = 1 /\ (j + 1) \div 2 + 1 = i + 1
      BY <2>4, SMTT(30)
    <3>2. q[j] = mid(i) /\ q[j + 1] = v.parts[i + 1]
      BY <2>1, <3>1
    <3> HIDE DEF q
    <3> QED BY <1>4, <3>2
  <2> QED BY <2>2, <2>3, <2>4
<1>6. q[1] = e.next
  <2>1. 1 \in 1 .. 2 * e.size + 1 /\ 1 % 2 = 1 /\ 1 \div 2 + 1 = 1
    BY <1>0
  <2> QED BY <1>1, <2>1
<1> HIDE DEF q
<1>7. Strung(layout, q, MemberCount(e))
  BY <1>1, <1>5 DEF Strung
<1>8. e = DecodeOne(mem, v.at) /\ e.type \in {Map, Array}
  BY <1>1 DEF e
<1>9. /\ DataList(mem, v.at) \in Lists /\ DataList(mem, v.at).status = "ok"
      /\ AllStrings(DataList(mem, v.at), MemberCount(e))
  BY <1>6, <1>7, <1>8, StrungListed
<1> QED BY <1>1, <1>8, <1>9

(* A value that is an array of strings, or a map of them, can be copied.   *)
LEMMA TextsGiven ==
  ASSUME NEW mem, NEW layout, Written(mem, layout), NEW r, NEW doc, Gives(mem, layout, r, doc)
  PROVE  /\ r \in Entries
         /\ DOMAIN doc = {"array"} /\ AllText(doc.array) =>
              /\ r.status = "ok" /\ r.type = Array
              /\ DataList(mem, r.offset).status = "ok"
              /\ AllStrings(DataList(mem, r.offset), r.size)
         /\ DOMAIN doc = {"map"} /\ AllText([i \in DOMAIN doc.map |-> doc.map[i][2]]) =>
              /\ r.status = "ok" /\ r.type = Map
              /\ DataList(mem, r.offset).status = "ok"
              /\ AllStrings(DataList(mem, r.offset), 2 * r.size)
<1>1. r \in Entries
  BY DEF Gives
<1>2. ASSUME DOMAIN doc = {"array"} \/ DOMAIN doc = {"map"}
      PROVE  /\ r.status = "ok"
             /\ \E w \in layout :
                  /\ w.doc = doc /\ r.offset = w.at /\ r.type = DecodeOne(mem, w.at).type
                  /\ r.size = DecodeOne(mem, w.at).size
                  /\ \/ DOMAIN doc = {"array"} /\ LaidArray(layout, w, DecodeOne(mem, w.at))
                     \/ DOMAIN doc = {"map"} /\ LaidMap(layout, w, DecodeOne(mem, w.at))
  <2>1. /\ {"array"} # {"none"} /\ {"map"} # {"none"} /\ {"array"} # {"map"}
        /\ {"array"} # {"type", "bytes"} /\ {"map"} # {"type", "bytes"}
    OBVIOUS
  <2>2. DOMAIN Nothing = {"none"}
    BY DEF Nothing
  <2>3. Shows(mem, layout, r, doc)
    BY <1>2, <2>1, <2>2 DEF Gives
  <2>4. PICK w \in layout :
          /\ w.doc = doc /\ r.type # Pointer /\ r.offset = w.at
          /\ r.type = DecodeOne(mem, w.at).type /\ r.size = DecodeOne(mem, w.at).size
    BY <2>3 DEF Shows
  <2>5. ~LaidPointer(mem, layout, w, DecodeOne(mem, w.at))
    BY <2>4 DEF LaidPointer
  <2>6. ~LaidPlain(w, DecodeOne(mem, w.at))
    <3>1. SUFFICES ASSUME doc = [type |-> DecodeOne(mem, w.at).type, bytes |-> DecodeOne(mem, w.at).data]
                   PROVE  FALSE
      BY <2>4 DEF LaidPlain
    <3>2. DOMAIN doc = {"type", "bytes"}
      BY <3>1
    <3> QED BY <1>2, <2>1, <3>2
  <2>7. \/ LaidArray(layout, w, DecodeOne(mem, w.at)) \/ LaidMap(layout, w, DecodeOne(mem, w.at))
    BY <2>5, <2>6, LaidFacts
  <2>8. /\ LaidArray(layout, w, DecodeOne(mem, w.at)) => DOMAIN doc = {"array"}
        /\ LaidMap(layout, w, DecodeOne(mem, w.at)) => DOMAIN doc = {"map"}
    BY <2>4 DEF LaidArray, LaidMap
  <2> QED BY <2>3, <2>4, <2>7, <2>8 DEF Shows
<1>3. ASSUME DOMAIN doc = {"array"}, AllText(doc.array)
      PROVE  /\ r.status = "ok" /\ r.type = Array
             /\ DataList(mem, r.offset).status = "ok" /\ AllStrings(DataList(mem, r.offset), r.size)
  <2>1. PICK w \in layout :
          /\ w.doc = doc /\ r.offset = w.at /\ r.type = DecodeOne(mem, w.at).type
          /\ r.size = DecodeOne(mem, w.at).size
          /\ \/ DOMAIN doc = {"array"} /\ LaidArray(layout, w, DecodeOne(mem, w.at))
             \/ DOMAIN doc = {"map"} /\ LaidMap(layout, w, DecodeOne(mem, w.at))
    BY <1>2, <1>3
  <2>2. {"array"} # {"map"}
    OBVIOUS
  <2>3. LaidArray(layout, w, DecodeOne(mem, w.at)) /\ DecodeOne(mem, w.at).type = Array
    BY <1>3, <2>1, <2>2 DEF LaidArray
  <2>4. /\ DataList(mem, w.at).status = "ok"
        /\ AllStrings(DataList(mem, w.at), DecodeOne(mem, w.at).size)
    BY <1>3, <2>1, <2>3, ArrayListed
  <2> QED BY <1>2, <1>3, <2>1, <2>3, <2>4
<1>4. ASSUME DOMAIN doc = {"map"}, AllText([i \in DOMAIN doc.map |-> doc.map[i][2]])
      PROVE  /\ r.status = "ok" /\ r.type = Map
             /\ DataList(mem, r.offset).status = "ok" /\ AllStrings(DataList(mem, r.offset), 2 * r.size)
  <2>1. PICK w \in layout :
          /\ w.doc = doc /\ r.offset = w.at /\ r.type = DecodeOne(mem, w.at).type
          /\ r.size = DecodeOne(mem, w.at).size
          /\ \/ DOMAIN doc = {"array"} /\ LaidArray(layout, w, DecodeOne(mem, w.at))
             \/ DOMAIN doc = {"map"} /\ LaidMap(layout, w, DecodeOne(mem, w.at))
    BY <1>2, <1>4
  <2>2. {"array"} # {"map"}
    OBVIOUS
  <2>3. LaidMap(layout, w, DecodeOne(mem, w.at)) /\ DecodeOne(mem, w.at).type = Map
    BY <1>4, <2>1, <2>2 DEF LaidMap
  <2>4. AllText([i \in DOMAIN w.doc.map |-> w.doc.map[i][2]])
    BY <1>4, <2>1
  <2>5. /\ DataList(mem, w.at).status = "ok"
        /\ AllStrings(DataList(mem, w.at), 2 * DecodeOne(mem, w.at).size)
    BY <2>1, <2>3, <2>4, MapListed
  <2> QED BY <1>2, <1>4, <2>1, <2>3, <2>5
<1> QED BY <1>1, <1>3, <1>4

-----------------------------------------------------------------------------
(* Opening a file that was made as a database: each number that has been   *)
(* read is the one its metadata say, and nothing but the system fails.     *)

\* WellMade, with what its metadata say.
Made(meta, about) ==
  /\ MarkerEnds # {} /\ FileFrom(LastMarker) # <<>> /\ LaidOut(FileFrom(LastMarker), meta)
  /\ \E v \in meta : v.at = 0 /\ v.doc = about
  /\ Describes(about)
  /\ Len(content) - DataAt(about) \in 3 .. Word - 1
  /\ LaidOut(FileFrom(DataAt(about)), documents)

SystemFails == {"out_of_memory", "file_open", "io"}

ReadAsMade(about) ==
  /\ pc = "failed" => mmdb.status \in SystemFails
  /\ pc \in FromCount => mmdb.metadata = LastMarker
  /\ pc \in FromSize => nodeCount = SaidNumber(about, "node_count")
  /\ pc \in FromVersion => mmdb.recordSize = SaidNumber(about, "record_size")
  /\ pc \in FromMajor \ {"major"} => mmdb.major = 2
  /\ pc \in FromSizes => recordLength = (SaidNumber(about, "record_size") * 2) \div 8
  /\ pc \in HavingSizes => dataSize = Len(content) - DataAt(about)

MadeInv(meta) == \E v \in meta : Made(meta, v.doc) /\ ReadAsMade(v.doc)

LEMMA WellMadeSays ==
  ASSUME NEW meta
  PROVE  WellMade(meta) => \E v \in meta : Made(meta, v.doc)
BY DEF WellMade, Made

LEMMA MadeKept ==
  ASSUME NEW meta, NEW about, Made(meta, about), content' = content, documents' = documents
  PROVE  Made(meta, about)' /\ LastMarker' = LastMarker
<1>1. MarkerEnds' = MarkerEnds
  BY DEF MarkerEnds
<1>2. LastMarker' = LastMarker
  BY <1>1 DEF LastMarker
<1>3. PICK last : last = LastMarker
  OBVIOUS
<1>4. FileFrom(last)' = FileFrom(last) /\ FileFrom(DataAt(about))' = FileFrom(DataAt(about))
  BY DEF FileFrom
<1> QED BY <1>1, <1>2, <1>3, <1>4 DEF Made

LEMMA MadeMetadata ==
  ASSUME OpenInv, NEW meta, NEW about, Made(meta, about), ReadAsMade(about), pc \in FromCount
  PROVE  Written(Metadata, meta)
<1>1. Section(Metadata) /\ Len(Metadata) \in Nat /\ Metadata \in Seq(Byte)
  BY MetadataSection DEF OpenInv, Section
<1>2. Metadata = FileFrom(LastMarker)
  BY DEF ReadAsMade, Metadata, FileFrom
<1>3. Metadata # <<>> /\ LaidOut(Metadata, meta)
  BY <1>2 DEF Made
<1>4. PICK s \in Seq(Byte) : s = Metadata
  BY <1>1
<1>5. Len(s) >= 1
  BY <1>3, <1>4
<1> QED BY <1>1, <1>3, <1>4, <1>5 DEF Written

LEMMA MadeValue ==
  ASSUME OpenInv, NEW meta, NEW about, Made(meta, about), ReadAsMade(about), pc \in FromCount,
         NEW k
  PROVE  Gives(Metadata, meta, Value(k), Member(about, Key[k]))
<1>1. Written(Metadata, meta)
  BY MadeMetadata
<1>2. PICK v \in meta : v.at = 0 /\ v.doc = about
  BY DEF Made
<1>3. Value(k) = AGet(Metadata, v.at, <<Key[k]>>)
  BY <1>2 DEF Value
<1> QED BY <1>1, <1>2, <1>3, MemberGiven

LEMMA MadePlain ==
  ASSUME OpenInv, NEW meta, NEW about, Made(meta, about), ReadAsMade(about), pc \in FromCount,
         NEW k \in DOMAIN KeyTypes
  PROVE  /\ TypedStatus(Value(k), KeyTypes[k]) = "ok"
         /\ Number(Value(k)) = SaidNumber(about, k)
<1>1. IsPlain(Member(about, Key[k]), KeyTypes[k])
  BY DEF Made, Describes
<1>2. Written(Metadata, meta) /\ Gives(Metadata, meta, Value(k), Member(about, Key[k]))
  BY MadeMetadata, MadeValue
<1>3. Value(k).status = "ok" /\ Value(k).type = KeyTypes[k]
      /\ Value(k).data = Member(about, Key[k]).bytes
  BY <1>1, <1>2, PlainGiven
<1> QED BY <1>3 DEF TypedStatus, Number, SaidNumber

\* What every read of the metadata comes to.
LEMMA MadeReads ==
  ASSUME OpenInv, NEW meta, NEW about, Made(meta, about), ReadAsMade(about), pc \in FromCount
  PROVE  /\ NumberStatus(Value("node_count"), UInt32) = "ok"
         /\ Number(Value("node_count")) = SaidNumber(about, "node_count")
         /\ NumberStatus(Value("record_size"), UInt16) = "ok"
         /\ Number(Value("record_size")) = SaidNumber(about, "record_size")
         /\ SaidNumber(about, "record_size") \in {24, 28, 32}
         /\ NumberStatus(Value("ip_version"), UInt16) = "ok"
         /\ Number(Value("ip_version")) \in {4, 6}
         /\ TypedStatus(Value("database_type"), String) = "ok"
         /\ NumberStatus(Value("binary_format_major_version"), UInt16) = "ok"
         /\ Number(Value("binary_format_major_version")) = 2
         /\ TypedStatus(Value("binary_format_minor_version"), UInt16) = "ok"
         /\ NumberStatus(Value("build_epoch"), UInt64) = "ok"
<1>1. /\ DOMAIN KeyTypes = {"node_count", "record_size", "ip_version", "database_type",
                            "binary_format_major_version", "binary_format_minor_version",
                            "build_epoch"}
      /\ KeyTypes["node_count"] = UInt32 /\ KeyTypes["record_size"] = UInt16
      /\ KeyTypes["ip_version"] = UInt16 /\ KeyTypes["database_type"] = String
      /\ KeyTypes["binary_format_major_version"] = UInt16
      /\ KeyTypes["binary_format_minor_version"] = UInt16 /\ KeyTypes["build_epoch"] = UInt64
  BY DEF KeyTypes
<1>2. \A k \in DOMAIN KeyTypes :
        TypedStatus(Value(k), KeyTypes[k]) = "ok" /\ Number(Value(k)) = SaidNumber(about, k)
  BY MadePlain
<1>3. /\ SaidNumber(about, "node_count") # 0 /\ SaidNumber(about, "build_epoch") # 0
      /\ SaidNumber(about, "record_size") \in {24, 28, 32}
      /\ SaidNumber(about, "ip_version") \in {4, 6}
      /\ SaidNumber(about, "binary_format_major_version") = 2
  BY DEF Made, Describes
<1> QED BY <1>1, <1>2, <1>3 DEF NumberStatus

LEMMA MadeLists ==
  ASSUME OpenInv, NEW meta, NEW about, Made(meta, about), ReadAsMade(about), pc \in FromCount
  PROVE  /\ TypedStatus(Value("languages"), Array) = "ok"
         /\ DataList(Metadata, Value("languages").offset).status = "ok"
         /\ AllStrings(DataList(Metadata, Value("languages").offset), Value("languages").size)
         /\ TypedStatus(Value("description"), Map) = "ok"
         /\ DataList(Metadata, Value("description").offset).status = "ok"
         /\ AllStrings(DataList(Metadata, Value("description").offset), 2 * Value("description").size)
<1>1. Written(Metadata, meta)
  BY MadeMetadata
<1>2. PICK languages : /\ languages = Member(about, Key["languages"])
                       /\ DOMAIN languages = {"array"} /\ AllText(languages.array)
  BY DEF Made, Describes
<1>3. PICK description :
        /\ description = Member(about, Key["description"]) /\ DOMAIN description = {"map"}
        /\ AllText([i \in DOMAIN description.map |-> description.map[i][2]])
  BY DEF Made, Describes
<1>4. /\ Gives(Metadata, meta, Value("languages"), languages)
      /\ Gives(Metadata, meta, Value("description"), description)
  BY <1>2, <1>3, MadeValue
<1>5. /\ Value("languages").status = "ok" /\ Value("languages").type = Array
      /\ DataList(Metadata, Value("languages").offset).status = "ok"
      /\ AllStrings(DataList(Metadata, Value("languages").offset), Value("languages").size)
  BY <1>1, <1>2, <1>4, TextsGiven
<1>6. /\ Value("description").status = "ok" /\ Value("description").type = Map
      /\ DataList(Metadata, Value("description").offset).status = "ok"
      /\ AllStrings(DataList(Metadata, Value("description").offset), 2 * Value("description").size)
  BY <1>1, <1>3, <1>4, TextsGiven
<1> QED BY <1>5, <1>6 DEF TypedStatus

LEMMA BeginMade ==
  ASSUME OpenInv, NEW meta, NEW about, Made(meta, about), ReadAsMade(about),
         Begin \/ MapFile \/ FindMetadata
  PROVE  ReadAsMade(about)'
<1>1. content' = content
  BY DEF Begin, MapFile, FindMetadata, databaseVars
<1>2. MarkerEnds' = MarkerEnds /\ LastMarker' = LastMarker /\ MarkerEnds # {}
  <2>1. MarkerEnds' = MarkerEnds
    BY <1>1 DEF MarkerEnds
  <2> QED BY <2>1 DEF LastMarker, Made
<1>3. CASE Begin \/ MapFile
  <2>1. pc' \in {"map", "marker", "failed"} /\ (pc' = "failed" => mmdb'.status \in SystemFails)
    <3>1. CASE Begin
      <4>1. ResetMembers.status = "ok" /\ [ResetMembers EXCEPT !.status = "out_of_memory"].status = "out_of_memory"
        BY DEF ResetMembers, OpenInv, FileInv, HandleType
      <4> QED BY <3>1, <4>1 DEF Begin, Proceed, Fail, SystemFails
    <3>2. CASE MapFile
      <4>1. \A s : [mmdb EXCEPT !.status = s].status = s
        BY DEF OpenInv, FileInv, HandleType
      <4> QED BY <3>2, <4>1 DEF MapFile, Proceed, Fail, SystemFails
    <3> QED BY <1>3, <3>1, <3>2
  <2>2. /\ pc' \notin FromCount' /\ pc' \notin FromSize' /\ pc' \notin FromVersion'
        /\ pc' \notin FromMajor' /\ pc' \notin FromSizes' /\ pc' \notin HavingSizes'
    BY <2>1 DEF FromCount, FromSize, FromVersion, FromType, FromLanguages, FromMajor, FromSizes,
                HavingSizes
  <2> QED BY <2>1, <2>2 DEF ReadAsMade, SystemFails
<1>4. CASE FindMetadata
  <2>1. pc' = "node_count" /\ mmdb' = [mmdb EXCEPT !.metadata = LastMarker]
    BY <1>2, <1>4 DEF FindMetadata, Proceed
  <2>2. mmdb'.metadata = LastMarker
    BY <2>1 DEF OpenInv, FileInv, HandleType
  <2>3. /\ pc' # "failed" /\ pc' \notin FromSize' /\ pc' \notin FromVersion'
        /\ pc' \notin FromMajor' /\ pc' \notin FromSizes' /\ pc' \notin HavingSizes'
    BY <2>1 DEF FromSize, FromVersion, FromType, FromLanguages, FromMajor, FromSizes, HavingSizes
  <2> QED BY <1>2, <2>2, <2>3 DEF ReadAsMade
<1> QED BY <1>3, <1>4

LEMMA ReadNumbersMade ==
  ASSUME OpenInv, NEW meta, NEW about, Made(meta, about), ReadAsMade(about),
         LastMarker' = LastMarker, ReadNodeCount \/ ReadRecordSize \/ ReadIPVersion
  PROVE  ReadAsMade(about)'
<1>1. pc \in FromCount
  BY DEF ReadNodeCount, ReadRecordSize, ReadIPVersion, FromCount, FromSize, FromVersion
<1>2. mmdb \in HandleType /\ mmdb.metadata = LastMarker
  BY <1>1 DEF OpenInv, FileInv, ReadAsMade
<1>3. CASE ReadNodeCount
  <2>1. NumberStatus(Value("node_count"), UInt32) = "ok"
        /\ Number(Value("node_count")) = SaidNumber(about, "node_count")
    BY <1>1, MadeReads
  <2>2. /\ nodeCount' = SaidNumber(about, "node_count") /\ mmdb' = mmdb /\ pc' = "record_size"
    BY <1>3, <2>1 DEF ReadNodeCount, Step, Proceed
  <2>3. /\ pc' # "failed" /\ pc' \notin FromVersion' /\ pc' \notin FromMajor'
        /\ pc' \notin FromSizes' /\ pc' \notin HavingSizes'
    BY <2>2 DEF FromVersion, FromType, FromLanguages, FromMajor, FromSizes, HavingSizes
  <2> QED BY <1>2, <2>2, <2>3 DEF ReadAsMade
<1>4. CASE ReadRecordSize
  <2> DEFINE m == [mmdb EXCEPT !.recordSize = Number(Value("record_size"))]
  <2>1. /\ NumberStatus(Value("record_size"), UInt16) = "ok"
        /\ Number(Value("record_size")) = SaidNumber(about, "record_size")
        /\ KnownSize(Number(Value("record_size")))
    BY <1>1, MadeReads DEF KnownSize
  <2>2. mmdb' = m /\ pc' = "ip_version" /\ nodeCount' = nodeCount
    BY <1>4, <2>1 DEF ReadRecordSize, Step, Proceed, databaseVars
  <2>3. /\ mmdb'.recordSize = SaidNumber(about, "record_size")
        /\ mmdb'.metadata = mmdb.metadata
    BY <1>2, <2>1, <2>2 DEF HandleType
  <2>4. /\ pc' # "failed" /\ pc' \notin FromMajor' /\ pc' \notin FromSizes'
        /\ pc' \notin HavingSizes'
    BY <2>2 DEF FromMajor, FromSizes, HavingSizes
  <2>5. nodeCount = SaidNumber(about, "node_count")
    BY <1>4 DEF ReadRecordSize, ReadAsMade, FromSize
  <2> QED BY <1>2, <2>2, <2>3, <2>4, <2>5 DEF ReadAsMade
<1>5. CASE ReadIPVersion
  <2>1. /\ NumberStatus(Value("ip_version"), UInt16) = "ok"
        /\ Number(Value("ip_version")) \in {4, 6}
    BY <1>1, MadeReads
  <2>2. mmdb' = mmdb /\ pc' = "database_type" /\ nodeCount' = nodeCount
    BY <1>5, <2>1 DEF ReadIPVersion, Step, Proceed
  <2>3. /\ pc' # "failed" /\ pc' \notin FromMajor' /\ pc' \notin FromSizes'
        /\ pc' \notin HavingSizes'
    BY <2>2 DEF FromMajor, FromSizes, HavingSizes
  <2>4. /\ nodeCount = SaidNumber(about, "node_count")
        /\ mmdb.recordSize = SaidNumber(about, "record_size")
    BY <1>5 DEF ReadIPVersion, ReadAsMade, FromSize, FromVersion
  <2> QED BY <1>2, <2>2, <2>3, <2>4 DEF ReadAsMade
<1> QED BY <1>3, <1>4, <1>5

\* What has been read stays, when a step of the rest of read_metadata goes on.
LEMMA RestMade ==
  ASSUME OpenInv, NEW about, ReadAsMade(about), LastMarker' = LastMarker,
         pc \in FromType, pc \notin FromSizes, UNCHANGED nodeCount,
         \/ pc' = "failed" /\ mmdb'.status \in SystemFails
         \/ /\ pc' \in FromType' /\ pc' \notin HavingSizes' /\ mmdb'.metadata = mmdb.metadata
            /\ mmdb'.recordSize = mmdb.recordSize
            /\ pc' \in FromMajor' \ {"major"} => mmdb'.major = 2
            /\ pc' \in FromSizes' => recordLength' = (mmdb.recordSize * 2) \div 8
  PROVE  ReadAsMade(about)'
<1>1. pc \in FromCount /\ pc \in FromSize /\ pc \in FromVersion
  BY DEF FromCount, FromSize, FromVersion
<1>2. /\ mmdb.metadata = LastMarker /\ nodeCount = SaidNumber(about, "node_count")
      /\ mmdb.recordSize = SaidNumber(about, "record_size")
  BY <1>1 DEF ReadAsMade
<1>3. CASE pc' = "failed" /\ mmdb'.status \in SystemFails
  <2>1. /\ pc' \notin FromCount' /\ pc' \notin FromSize' /\ pc' \notin FromVersion'
        /\ pc' \notin FromMajor' /\ pc' \notin FromSizes' /\ pc' \notin HavingSizes'
    BY <1>3 DEF FromCount, FromSize, FromVersion, FromType, FromLanguages, FromMajor, FromSizes,
                HavingSizes
  <2> QED BY <1>3, <2>1 DEF ReadAsMade, SystemFails
<1>4. CASE pc' # "failed"
  <2>1. /\ mmdb'.metadata = LastMarker' /\ nodeCount' = SaidNumber(about, "node_count")
        /\ mmdb'.recordSize = SaidNumber(about, "record_size") /\ pc' \notin HavingSizes'
        /\ pc' \in FromMajor' \ {"major"} => mmdb'.major = 2
        /\ pc' \in FromSizes' => recordLength' = (SaidNumber(about, "record_size") * 2) \div 8
    BY <1>2, <1>4
  <2> QED BY <1>4, <2>1 DEF ReadAsMade
<1>5. pc' \in FromType' => pc' # "failed"
  BY DEF FromType, FromLanguages, FromMajor, FromSizes
<1> QED BY <1>3, <1>4, <1>5

LEMMA ReadRestMade ==
  ASSUME OpenInv, NEW meta, NEW about, Made(meta, about), ReadAsMade(about),
         LastMarker' = LastMarker,
         ReadDatabaseType \/ ReadLanguages \/ ReadMajorVersion \/ ReadMinorVersion \/ ReadBuildEpoch
  PROVE  ReadAsMade(about)'
<1>1. pc \in FromCount /\ pc \in FromType /\ pc \notin FromSizes
  BY DEF ReadDatabaseType, ReadLanguages, ReadMajorVersion, ReadMinorVersion, ReadBuildEpoch,
         FromCount, FromSize, FromVersion, FromType, FromLanguages, FromMajor, FromSizes
<1>2. mmdb \in HandleType
  BY DEF OpenInv, FileInv
<1>3. \A s : [mmdb EXCEPT !.status = s].status = s
  BY <1>2 DEF HandleType
<1>4. UNCHANGED nodeCount
  BY DEF ReadDatabaseType, ReadLanguages, ReadMajorVersion, ReadMinorVersion, ReadBuildEpoch,
         databaseVars
<1>5. CASE ReadDatabaseType
  <2>1. TypedStatus(Value("database_type"), String) = "ok"
    BY <1>1, MadeReads
  <2>2. \/ pc' = "failed" /\ mmdb'.status \in SystemFails
        \/ pc' = "languages" /\ mmdb' = mmdb
    BY <1>3, <1>5, <2>1 DEF ReadDatabaseType, Proceed, Fail, SystemFails
  <2>3. /\ "languages" \in FromType' /\ "languages" \notin HavingSizes'
        /\ "languages" \notin FromMajor' /\ "languages" \notin FromSizes'
    BY DEF FromType, FromLanguages, FromMajor, FromSizes, HavingSizes
  <2> QED BY <1>1, <1>4, <2>2, <2>3, RestMade
<1>6. CASE ReadLanguages
  <2>1. /\ TypedStatus(Value("languages"), Array) = "ok"
        /\ DataList(Metadata, Value("languages").offset).status = "ok"
        /\ AllStrings(DataList(Metadata, Value("languages").offset), Value("languages").size)
    BY <1>1, MadeLists
  <2>2. \/ pc' = "failed" /\ mmdb'.status \in SystemFails
        \/ pc' = "major" /\ mmdb' = mmdb
    BY <1>3, <1>6, <2>1 DEF ReadLanguages, Proceed, Fail, SystemFails
  <2>3. /\ "major" \in FromType' /\ "major" \notin HavingSizes' /\ "major" \notin FromSizes'
    BY DEF FromType, FromLanguages, FromMajor, FromSizes, HavingSizes
  <2> QED BY <1>1, <1>4, <2>2, <2>3, RestMade
<1>7. CASE ReadMajorVersion
  <2>1. /\ NumberStatus(Value("binary_format_major_version"), UInt16) = "ok"
        /\ Number(Value("binary_format_major_version")) = 2
    BY <1>1, MadeReads
  <2>2. pc' = "minor" /\ mmdb' = [mmdb EXCEPT !.major = 2]
    BY <1>7, <2>1 DEF ReadMajorVersion, Step, Proceed
  <2>3. mmdb'.major = 2 /\ mmdb'.metadata = mmdb.metadata /\ mmdb'.recordSize = mmdb.recordSize
    BY <1>2, <2>2 DEF HandleType
  <2>4. /\ "minor" \in FromType' /\ "minor" \notin HavingSizes' /\ "minor" \notin FromSizes'
    BY DEF FromType, FromLanguages, FromMajor, FromSizes, HavingSizes
  <2> QED BY <1>1, <1>4, <2>2, <2>3, <2>4, RestMade
<1>8. CASE ReadMinorVersion \/ ReadBuildEpoch
  <2>1. /\ TypedStatus(Value("binary_format_minor_version"), UInt16) = "ok"
        /\ NumberStatus(Value("build_epoch"), UInt64) = "ok"
    BY <1>1, MadeReads
  <2>2. pc' \in {"epoch", "description"} /\ mmdb' = mmdb
    BY <1>8, <2>1 DEF ReadMinorVersion, ReadBuildEpoch, Step, Proceed
  <2>3. mmdb.major = 2
    BY <1>8 DEF ReadMinorVersion, ReadBuildEpoch, ReadAsMade, FromMajor
  <2>4. \A p \in {"epoch", "description"} :
          p \in FromType' /\ p \notin HavingSizes' /\ p \notin FromSizes'
    BY DEF FromType, FromLanguages, FromMajor, FromSizes, HavingSizes
  <2> QED BY <1>1, <1>4, <2>2, <2>3, <2>4, RestMade
<1> QED BY <1>5, <1>6, <1>7, <1>8

LEMMA ReadDescriptionMade ==
  ASSUME OpenInv, NEW meta, NEW about, Made(meta, about), ReadAsMade(about),
         LastMarker' = LastMarker, ReadDescription
  PROVE  ReadAsMade(about)'
<1>1. /\ pc \in FromCount /\ pc \in FromType /\ pc \notin FromSizes /\ pc \in FromMajor \ {"major"}
      /\ UNCHANGED nodeCount
  BY DEF ReadDescription, FromCount, FromSize, FromVersion, FromType, FromLanguages, FromMajor,
         FromSizes
<1>2. mmdb \in HandleType /\ mmdb.major = 2
  BY <1>1 DEF OpenInv, FileInv, ReadAsMade
<1> DEFINE counted == [mmdb EXCEPT !.described = TRUE]
<1>3. /\ \A s : [mmdb EXCEPT !.status = s].status = s
      /\ \A s : [counted EXCEPT !.status = s].status = s
      /\ counted.metadata = mmdb.metadata /\ counted.recordSize = mmdb.recordSize
      /\ counted.major = mmdb.major
  BY <1>2 DEF HandleType
<1>4. /\ TypedStatus(Value("description"), Map) = "ok"
      /\ DataList(Metadata, Value("description").offset).status = "ok"
      /\ AllStrings(DataList(Metadata, Value("description").offset), 2 * Value("description").size)
  BY <1>1, MadeLists
<1>5. \/ pc' = "failed" /\ mmdb'.status \in SystemFails
      \/ /\ pc' = "sizes" /\ mmdb' \in {mmdb, counted}
         /\ recordLength' = (mmdb.recordSize * 2) \div 8
  <2> DEFINE e == Value("description")
             list == DataList(Metadata, e.offset)
  <2>1. \/ \E taken : Fail(mmdb, "out_of_memory", taken)
        \/ \E taken : Fail(counted, "out_of_memory", taken)
        \/ /\ recordLength' = (mmdb.recordSize * 2) \div 8
           /\ \E taken : Proceed(mmdb, "sizes", taken) \/ Proceed(counted, "sizes", taken)
    <3>1. /\ TypedStatus(e, Map) = "ok" /\ list.status = "ok" /\ AllStrings(list, 2 * e.size)
      BY <1>4
    <3> HIDE DEF list, e, counted
    <3>2. \/ /\ recordLength' = (mmdb.recordSize * 2) \div 8
             /\ \/ Proceed(mmdb, "sizes", {})
                \/ Proceed(counted, "sizes", {"descriptions"})
          \/ Fail(mmdb, "out_of_memory", {}) \/ Fail(mmdb, "out_of_memory", {"list"})
          \/ Fail(mmdb, "out_of_memory", {"descriptions"})
          \/ Fail(counted, "out_of_memory", {"descriptions"})
      BY <3>1, Zenon DEF ReadDescription, list, e, counted
    <3> QED BY <3>2
  <2> HIDE DEF counted
  <2> QED BY <1>3, <2>1 DEF Proceed, Fail, SystemFails
<1>6. mmdb' \in {mmdb, counted} =>
        /\ mmdb'.metadata = mmdb.metadata /\ mmdb'.recordSize = mmdb.recordSize /\ mmdb'.major = 2
  BY <1>2, <1>3
<1>7. "sizes" \in FromType' /\ "sizes" \notin HavingSizes'
  BY DEF FromType, FromLanguages, FromMajor, FromSizes, HavingSizes
<1> HIDE DEF counted
<1> QED BY <1>1, <1>5, <1>6, <1>7, RestMade

LEMMA CheckSizesMade ==
  ASSUME OpenInv, NEW meta, NEW about, Made(meta, about), ReadAsMade(about),
         LastMarker' = LastMarker, CheckSizes
  PROVE  ReadAsMade(about)'
<1>1. /\ pc = "sizes" /\ pc \in FromCount /\ pc \in FromSize /\ pc \in FromVersion
      /\ pc \in FromMajor \ {"major"} /\ pc \in FromSizes
      /\ UNCHANGED <<content, nodeCount, recordLength>>
  BY DEF CheckSizes, FromCount, FromSize, FromVersion, FromType, FromLanguages, FromMajor, FromSizes
<1>2. /\ mmdb.metadata = LastMarker /\ nodeCount = SaidNumber(about, "node_count")
      /\ mmdb.recordSize = SaidNumber(about, "record_size") /\ mmdb.major = 2
      /\ recordLength = (SaidNumber(about, "record_size") * 2) \div 8
  BY <1>1 DEF ReadAsMade
<1>3. nodeCount \in Nat /\ recordLength \in Nat /\ Separator \in Nat /\ Len(content) \in Nat
  BY <1>1, TreeAssumption DEF OpenInv, FileInv
<1>4. PICK size \in Nat : size = TreeSize
  BY <1>3 DEF TreeSize
<1>5. DataAt(about) = size + Separator
  BY <1>2, <1>4 DEF DataAt, TreeSize
<1>6. Len(content) - (size + Separator) \in 3 .. Word - 1 /\ Word \in Nat
  BY <1>5, WordAssumption DEF Made
<1>7. /\ Len(content) - TreeSize - Separator = Len(content) - DataAt(about)
      /\ HasRoom /\ Len(content) - TreeSize - Separator \in 1 .. Word - 1
      /\ Len(content) - TreeSize - Separator \notin {1, 2}
  BY <1>3, <1>4, <1>5, <1>6 DEF HasRoom
<1>8. /\ dataSize' = Len(content) - DataAt(about)
      /\ mmdb' = Placed /\ pc' \in {"start", "ready"}
  <2>1. dataSize' = Len(content) - TreeSize - Separator
    BY DEF CheckSizes
  <2>2. \E next \in {"start", "ready"} : Proceed(Placed, next, {})
    BY <1>2, <1>7, <2>1 DEF CheckSizes
  <2> QED BY <1>7, <2>1, <2>2 DEF Proceed
<1>9. /\ dataSize' = Len(content) - DataAt(about) /\ pc' \in {"start", "ready"}
      /\ mmdb'.metadata = mmdb.metadata /\ mmdb'.recordSize = mmdb.recordSize
      /\ mmdb'.major = mmdb.major
  <2>1. mmdb \in HandleType
    BY <1>1 DEF OpenInv, FileInv
  <2> QED BY <1>8, <2>1 DEF Placed, HandleType
<1>10. pc' # "failed"
  BY <1>9
<1>11. DataAt(about)' = DataAt(about)
  BY DEF DataAt, SaidNumber, NumberOf, Member
<1> QED BY <1>1, <1>2, <1>9, <1>10, <1>11 DEF ReadAsMade

\* The searches and the questions change nothing of what was read.
LEMMA StaysMade ==
  ASSUME NEW about, ReadAsMade(about), LastMarker' = LastMarker,
         UNCHANGED <<content, nodeCount, recordLength, dataSize, mmdb>>,
         pc' = pc \/ (pc \in HavingSizes /\ pc' \in HavingSizes)
  PROVE  ReadAsMade(about)'
<1>1. DataAt(about)' = DataAt(about)
  BY DEF DataAt, SaidNumber, NumberOf, Member
<1>2. CASE pc' = pc
  <2>1. /\ FromCount' = FromCount /\ FromSize' = FromSize /\ FromVersion' = FromVersion
        /\ FromMajor' = FromMajor /\ FromSizes' = FromSizes /\ HavingSizes' = HavingSizes
        /\ SystemFails' = SystemFails
    BY DEF FromCount, FromSize, FromVersion, FromType, FromLanguages, FromMajor, FromSizes,
           HavingSizes, SystemFails
  <2> QED BY <1>1, <1>2, <2>1 DEF ReadAsMade
<1>3. CASE pc \in HavingSizes /\ pc' \in HavingSizes
  <2>1. /\ pc \in FromCount /\ pc \in FromSize /\ pc \in FromVersion
        /\ pc \in FromMajor \ {"major"} /\ pc \in FromSizes /\ pc' # "failed"
    BY <1>3 DEF FromCount, FromSize, FromVersion, FromType, FromLanguages, FromMajor, FromSizes,
                HavingSizes
  <2> QED BY <1>1, <1>3, <2>1 DEF ReadAsMade
<1> QED BY <1>2, <1>3

LEMMA DocumentsKept ==
  ASSUME [IPDBNext]_ipdbAll
  PROVE  documents' = documents
BY DEF IPDBNext, ipdbAll, LookUp, LookUpUnopened, Found, Ask

LEMMA MadeStep ==
  ASSUME IPDBInv, NEW meta, NEW about, Made(meta, about), ReadAsMade(about), [IPDBNext]_ipdbAll
  PROVE  Made(meta, about)' /\ ReadAsMade(about)'
<1>0. OpenInv /\ content' = content /\ documents' = documents
  BY ContentKept, DocumentsKept DEF IPDBInv
<1>1. Made(meta, about)' /\ LastMarker' = LastMarker
  BY <1>0, MadeKept
<1>2. CASE Open
  <2>1. CASE StartOfIPv4
    <3>1. /\ pc \in HavingSizes /\ pc' \in HavingSizes
          /\ UNCHANGED <<content, nodeCount, recordLength, dataSize, mmdb>>
      BY <2>1 DEF StartOfIPv4, FindStartNode, FoundStartNode, openVars, databaseVars, HavingSizes
    <3> QED BY <1>1, <3>1, StaysMade
  <2> QED
    BY <1>0, <1>1, <1>2, <2>1, BeginMade, ReadNumbersMade, ReadRestMade, ReadDescriptionMade,
       CheckSizesMade DEF Open
<1>3. ASSUME NEW f, NEW a, LookUp(f, a) PROVE ReadAsMade(about)'
  <2>1. /\ pc \in HavingSizes /\ pc' \in HavingSizes
        /\ UNCHANGED <<content, nodeCount, recordLength, dataSize, mmdb>>
    BY <1>3 DEF LookUp, Lookup, RefuseLookup, openVars, databaseVars, HavingSizes
  <2> QED BY <1>1, <2>1, StaysMade
<1>4. ASSUME NEW f, LookUpUnopened(f) PROVE ReadAsMade(about)'
  <2>1. pc' = pc /\ UNCHANGED <<content, nodeCount, recordLength, dataSize, mmdb>>
    BY <1>4 DEF LookUpUnopened, databaseVars
  <2> QED BY <1>1, <2>1, StaysMade
<1>5. CASE Walk /\ UNCHANGED <<openVars, database, documents, ipdbVars>>
  <2>1. pc' = pc /\ UNCHANGED <<content, nodeCount, recordLength, dataSize, mmdb>>
    BY <1>5 DEF Walk, openVars, databaseVars
  <2> QED BY <1>1, <2>1, StaysMade
<1>6. CASE Found
  <2>1. /\ pc \in HavingSizes /\ pc' \in HavingSizes
        /\ UNCHANGED <<content, nodeCount, recordLength, dataSize, mmdb>>
    BY <1>6 DEF Found, EndWalk, openVars, databaseVars, HavingSizes
  <2> QED BY <1>1, <2>1, StaysMade
<1>7. CASE Ask
  <2>1. pc' = pc /\ UNCHANGED <<content, nodeCount, recordLength, dataSize, mmdb>>
    BY <1>7 DEF Ask, treeVars, databaseVars
  <2> QED BY <1>1, <2>1, StaysMade
<1>8. CASE UNCHANGED ipdbAll
  <2>1. pc' = pc /\ UNCHANGED <<content, nodeCount, recordLength, dataSize, mmdb>>
    BY <1>8 DEF ipdbAll, dbAll, openVars, treeVars, databaseVars
  <2> QED BY <1>1, <2>1, StaysMade
<1> QED
  BY <1>1, <1>2, <1>3, <1>4, <1>5, <1>6, <1>7, <1>8 DEF IPDBNext

\* The data section is where the metadata say.
LEMMA MadeData ==
  ASSUME IPDBInv, NEW meta, NEW about, Made(meta, about), ReadAsMade(about), pc \in HavingSizes
  PROVE  LaidOut(Data, documents)
<1>1. /\ nodeCount = SaidNumber(about, "node_count")
      /\ recordLength = (SaidNumber(about, "record_size") * 2) \div 8
      /\ dataSize = Len(content) - DataAt(about)
  BY DEF ReadAsMade, FromSize, FromVersion, FromType, FromLanguages, FromMajor, FromSizes,
         HavingSizes
<1>2. nodeCount \in Nat /\ recordLength \in Nat /\ Separator \in Nat /\ Len(content) \in Nat
  BY TreeAssumption
     DEF IPDBInv, OpenInv, FileInv, FromSize, FromVersion, FromType, FromLanguages, FromMajor,
         FromSizes, HavingSizes
<1>3. DataAt(about) = nodeCount * recordLength + Separator
  BY <1>1 DEF DataAt
<1>4. PICK n \in Nat : n = DataAt(about)
  BY <1>2, <1>3
<1>5. (Len(content) - dataSize) + 1 = n + 1
  BY <1>1, <1>2, <1>4
<1>6. Data = FileFrom(n)
  BY <1>5 DEF Data, FileFrom
<1> QED BY <1>4, <1>6 DEF Made

\* Made at the beginning, a database is read as it was made at every point.
LEMMA MadeInductive ==
  ASSUME NEW CONSTANT meta
  PROVE  IPDBSpec /\ WellMade(meta) => []MadeInv(meta)
<1>1. IPDBInit /\ WellMade(meta) => MadeInv(meta)
  <2>1. SUFFICES ASSUME IPDBInit, NEW v \in meta, Made(meta, v.doc) PROVE ReadAsMade(v.doc)
    BY WellMadeSays DEF MadeInv
  <2>2. pc = "open"
    BY <2>1 DEF IPDBInit, OpenInit
  <2>3. /\ pc \notin FromCount /\ pc \notin FromSize /\ pc \notin FromVersion
        /\ pc \notin FromMajor /\ pc \notin FromSizes /\ pc \notin HavingSizes
        /\ pc # "failed"
    BY <2>2 DEF FromCount, FromSize, FromVersion, FromType, FromLanguages, FromMajor, FromSizes,
                HavingSizes
  <2> QED BY <2>3 DEF ReadAsMade
<1>2. IPDBInv /\ MadeInv(meta) /\ [IPDBNext]_ipdbAll => MadeInv(meta)'
  <2>1. SUFFICES ASSUME IPDBInv, NEW v \in meta, Made(meta, v.doc), ReadAsMade(v.doc),
                        [IPDBNext]_ipdbAll
                 PROVE  MadeInv(meta)'
    BY DEF MadeInv
  <2>2. Made(meta, v.doc)' /\ ReadAsMade(v.doc)'
    BY <2>1, MadeStep
  <2> QED BY <2>2 DEF MadeInv
<1> QED
  BY <1>1, <1>2, DatabaseInductive, PTL DEF IPDBSpec

(* A file that was made as a database, with its metadata and documents     *)
(* anywhere, behind whatever pointers, opens, unless the system runs out   *)
(* of memory or does not give the file; and the program then asks the      *)
(* section in which the documents are.                                     *)
THEOREM WellMadeFilesOpen ==
  ASSUME NEW CONSTANT meta
  PROVE  IPDBSpec /\ WellMade(meta) => []WellMadeOpens
<1>1. IPDBInv /\ MadeInv(meta) => WellMadeOpens
  <2>1. SUFFICES ASSUME IPDBInv, NEW v \in meta, Made(meta, v.doc), ReadAsMade(v.doc)
                 PROVE  WellMadeOpens
    BY DEF MadeInv
  <2>2. pc = "ready" => LaidOut(Data, documents)
    BY <2>1, MadeData DEF HavingSizes
  <2> QED BY <2>1, <2>2 DEF WellMadeOpens, ReadAsMade, SystemFails
<1> QED
  BY <1>1, DatabaseInductive, MadeInductive, PTL

(* From the bytes of the file to what is shown: of a file that was made as *)
(* a database every call of the program shows what its documents say, but  *)
(* for the fields there was no memory for.                                 *)
THEOREM WellMadeFilesAnswer ==
  ASSUME NEW CONSTANT meta
  PROVE  IPDBSpec /\ WellMade(meta) => []AnswerOfDocument
<1>1. IPDBInv /\ MadeInv(meta) /\ pc = "answered" => LaidOut(Data, documents)
  BY MadeData DEF MadeInv, HavingSizes
<1>2. IPDBInv /\ MadeInv(meta) /\ (LaidOut(Data, documents) => AnswerOfDocument)
        => AnswerOfDocument
  <2>1. pc # "answered" => AnswerOfDocument
    BY DEF AnswerOfDocument
  <2> QED BY <1>1, <2>1
<1> QED
  BY <1>2, DatabaseInductive, MadeInductive, AnswersOfDocuments, PTL
=============================================================================
