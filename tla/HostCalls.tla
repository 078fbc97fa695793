------------------------------ MODULE HostCalls ------------------------------
(***************************************************************************)
(* Clients of one backend (frontend.py make_backend): each compiles its    *)
(* module through the backend, then calls what it was given, and may       *)
(* compile another one.                                                    *)
(***************************************************************************)
EXTENDS Compilation

CONSTANTS
  MaxRequests,  \* bound on the requests of all clients
  MaxCalls      \* and on the calls of one

VARIABLES
  requests,  \* requests made so far
  calls      \* calls each client has made

vars == <<compileVars, requests, calls>>

Init ==
  /\ CompileInit
  /\ requests = 0
  /\ calls = [c \in Clients |-> 0]

Request(c) ==
  /\ requests < MaxRequests
  /\ \E k \in Keys : Ask(c, k)
  /\ requests' = requests + 1
  /\ result' = [result EXCEPT ![c] = "none"]
  /\ UNCHANGED <<length, searchVars, calls>>

Serve(c) == Backend(c) /\ UNCHANGED <<requests, calls>>

Call(c) ==
  /\ result[c] \in {"kernel", "inductor"}
  /\ calls[c] < MaxCalls /\ length[c] < Capacity
  /\ length' = [length EXCEPT ![c] = @ + 1]
  /\ calls' = [calls EXCEPT ![c] = @ + 1]
  /\ UNCHANGED <<cacheVars, searchVars, result, requests>>

Another(c) ==
  /\ requests < MaxRequests
  /\ Leave(c)
  /\ UNCHANGED <<length, searchVars, result, requests, calls>>

Done ==
  /\ requests = MaxRequests
  /\ \A c \in Clients : stage[c] \in {"idle", "served"}
  /\ UNCHANGED vars

Next == (\E c \in Clients : Request(c) \/ Serve(c) \/ Call(c) \/ Another(c)) \/ Done

(* A thread in the backend goes on; nobody has to ask or call.             *)
Spec == Init /\ [][Next]_vars /\ \A c \in Clients : WF_vars(Serve(c))

(* A state is what its owner's calls made it, whatever a search called.     *)
StateIsolated == \A c \in Clients : length[c] = calls[c]

(* Every request ends, with a callable or an error, whatever fails while   *)
(* the lock is held.                                                       *)
RequestsEnd == \A c \in Clients : stage[c] = "lookup" ~> stage[c] \in {"idle", "served"}
=============================================================================
