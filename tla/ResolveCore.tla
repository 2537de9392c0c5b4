---------------------------- MODULE ResolveCore ----------------------------
(***************************************************************************)
(* The resolving thread: ResolveCore::run (resolve_core.cpp).  It reads    *)
(* the host name the GUI gave it, asks for its addresses, and posts one    *)
(* row per address and an end to the event queue of the GUI thread.        *)
(*                                                                         *)
(* Host names are told apart by the lookup that asked for them: the first  *)
(* call of StartResolving asks for 1, the second for 2.                    *)
(***************************************************************************)
EXTENDS Integers, Sequences

CONSTANTS
  MaxAddresses,  \* bound: addresses a host name has; the code has no limit
  MaxLookups,    \* bound: how often the user asks for a host
  Cities,        \* where an address may be said to be
  Nowhere        \* isLocationValid is false

ASSUME ResolveAssumption ==
  /\ MaxAddresses \in Nat \ {0}
  /\ MaxLookups \in Nat
  /\ Nowhere \notin Cities

VARIABLES
  guiEvents,  \* the posted events of the GUI thread
  lookup,     \* ResolveCore::hostname, written by the GUI thread
  rpc,        \* where the thread is; "idle" when not isRunning()
  resolving,  \* the host name run() has copied
  idCounter,  \* the id of the next address
  addresses   \* how many addresses the host name has

resolveVars == <<rpc, resolving, idCounter, addresses>>

Locations == Cities \union {Nowhere}

\* `says' is the location of a row and isSucceeded of an end.
Emit(kind, run, at, says) ==
  guiEvents' = Append(guiEvents, [kind |-> kind, run |-> run, at |-> at, says |-> says])

\* Faulty: ids are counted like rows.
FirstRow == 0

FirstID == 1

ResolveInit ==
  /\ rpc = "idle"
  /\ resolving = 0
  /\ idCounter = FirstID
  /\ addresses = 0

\* run() copies the host name.
ResolveBegin ==
  /\ rpc = "begin"
  /\ rpc' = "resolve"
  /\ resolving' = lookup
  /\ UNCHANGED <<guiEvents, idCounter, addresses>>

\* The text is an address, or getaddrinfo returns a list of them.
ResolveFound ==
  /\ rpc = "resolve"
  /\ rpc' = "loop"
  /\ idCounter' = FirstID
  /\ addresses' \in 1 .. MaxAddresses
  /\ UNCHANGED <<guiEvents, resolving>>

\* Neither: the thread says so and ends.
ResolveFailed ==
  /\ rpc = "resolve"
  /\ rpc' = "ending"
  /\ Emit("resolved", resolving, 0, FALSE)
  /\ UNCHANGED <<resolving, idCounter, addresses>>

\* One address of the list, with or without a location.
GetInfo ==
  /\ rpc = "loop"
  /\ idCounter <= addresses
  /\ \E city \in Locations : Emit("address", resolving, idCounter, city)
  /\ idCounter' = idCounter + 1
  /\ UNCHANGED <<rpc, resolving, addresses>>

\* emit end(true)
ResolveDone ==
  /\ rpc = "loop"
  /\ idCounter > addresses
  /\ rpc' = "ending"
  /\ Emit("resolved", resolving, 0, TRUE)
  /\ UNCHANGED <<resolving, idCounter, addresses>>

\* External: QThread leaves run().
ResolveFinish ==
  /\ rpc = "ending"
  /\ rpc' = "idle"
  /\ UNCHANGED <<guiEvents, resolving, idCounter, addresses>>

ResolvingThread ==
  \/ ResolveBegin \/ ResolveFound \/ ResolveFailed
  \/ GetInfo \/ ResolveDone \/ ResolveFinish

ResolveTypeOK ==
  /\ lookup \in 0 .. MaxLookups
  /\ rpc \in {"idle", "begin", "resolve", "loop", "ending"}
  /\ resolving \in 0 .. MaxLookups
  /\ idCounter \in 1 .. MaxAddresses + 1
  /\ addresses \in 0 .. MaxAddresses
=============================================================================
