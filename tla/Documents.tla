----------------------------- MODULE Documents -----------------------------
(***************************************************************************)
(* What a data section says, apart from how it says it: documents, and a   *)
(* layout of them in the section.  Nothing of this is computed by the      *)
(* program; it is what its answers are compared with.                      *)
(*                                                                         *)
(* A document is [type, bytes] of a string or a number, [map |-> pairs of  *)
(* a key and a document, in order], or [array |-> documents].              *)
(***************************************************************************)
EXTENDS DataSection

Nothing == [none |-> TRUE]

Text(b) == [type |-> String, bytes |-> b]

Member(doc, key) ==
  LET at == IF DOMAIN doc = {"map"} THEN {i \in DOMAIN doc.map : doc.map[i][1] = key} ELSE {}
  IN  IF at = {} THEN Nothing ELSE doc.map[Min(at)][2]

InDocument(doc, path) ==
  LET inside[i \in 0 .. Len(path)] ==
        IF i = 0 THEN doc ELSE Member(inside[i - 1], path[i])
  IN  inside[Len(path)]

(***************************************************************************)
(* A layout is a set of [at, doc, next, parts]: where a document begins    *)
(* and what is after it; of a map or array also where each member begins   *)
(* and what is after the last.  `e' is what decode_one makes of it.        *)
(***************************************************************************)
LaidPointer(mem, layout, v, e) ==
  /\ e.type = Pointer /\ v.next = e.next
  /\ \E w \in layout :
       w.at = e.pointer /\ w.doc = v.doc /\ DecodeOne(mem, w.at).type # Pointer

LaidPlain(v, e) ==
  /\ e.type \notin {Pointer, Map, Array} /\ v.next = e.next
  /\ v.doc = [type |-> e.type, bytes |-> e.data]

Between(v, e) == v.parts[1] = e.next /\ v.parts[e.size + 1] = v.next

LaidMap(layout, v, e) ==
  /\ e.type = Map /\ Between(v, e)
  /\ DOMAIN v.doc = {"map"} /\ DOMAIN v.doc.map = 1 .. e.size
  /\ \A i \in 1 .. e.size :
       \E k, w \in layout :
         /\ k.at = v.parts[i] /\ k.doc = Text(v.doc.map[i][1]) /\ k.next = w.at
         /\ w.doc = v.doc.map[i][2] /\ w.next = v.parts[i + 1]

LaidArray(layout, v, e) ==
  /\ e.type = Array /\ Between(v, e)
  /\ DOMAIN v.doc = {"array"} /\ DOMAIN v.doc.array = 1 .. e.size
  /\ \A i \in 1 .. e.size :
       \E w \in layout :
         w.at = v.parts[i] /\ w.doc = v.doc.array[i] /\ w.next = v.parts[i + 1]

Laid(mem, layout, v) ==
  /\ v.at \in Nat /\ v.next \in Nat /\ v.at < v.next
  /\ \E e \in {DecodeOne(mem, v.at)} :
       /\ e.status = "ok"
       /\ \/ LaidPointer(mem, layout, v, e) \/ LaidPlain(v, e)
          \/ LaidMap(layout, v, e) \/ LaidArray(layout, v, e)

\* The section `mem' has every document of the layout where the layout says.
LaidOut(mem, layout) == \A v \in layout : Laid(mem, layout, v)
=============================================================================
