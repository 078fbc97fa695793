------------------------------- MODULE PlanCache -------------------------------
(***************************************************************************)
(* What a PlanCache (cache.py) promises the clients of one backend: a      *)
(* plan is compiled by one client at a time, everybody who asks for a key  *)
(* gets the kernel the cache holds for it, and a compiler that raises      *)
(* leaves neither an entry nor the lock.                                   *)
(*                                                                         *)
(* How a kernel is found is left open; Compilation says how.               *)
(***************************************************************************)
EXTENDS Naturals

CONSTANTS
  Clients,   \* threads that compile through one backend
  Keys,      \* plan keys (make_plan_key)
  Kernels,   \* what a compiler may return
  NoClient, NoKernel

ASSUME NamesAssumption == NoClient \notin Clients /\ NoKernel \notin Kernels

ASSUME KeysAssumption == Keys # {}

VARIABLES
  lock,     \* who holds PlanCache._lock
  entries,  \* kernel of each key
  stage,    \* of a client: "idle", "lookup", "compile", "served"
  key,      \* key the client asks for
  kernel    \* kernel the client was given

cacheVars == <<lock, entries, stage, key, kernel>>

CacheTypeOK ==
  /\ lock \in Clients \cup {NoClient}
  /\ entries \in [Keys -> Kernels \cup {NoKernel}]
  /\ stage \in [Clients -> {"idle", "lookup", "compile", "served"}]
  /\ key \in [Clients -> Keys]
  /\ kernel \in [Clients -> Kernels \cup {NoKernel}]

CacheInit ==
  /\ lock = NoClient
  /\ entries = [k \in Keys |-> NoKernel]
  /\ stage = [c \in Clients |-> "idle"]
  /\ key = [c \in Clients |-> CHOOSE k \in Keys : TRUE]
  /\ kernel = [c \in Clients |-> NoKernel]

Ask(c, k) ==
  /\ stage[c] = "idle"
  /\ stage' = [stage EXCEPT ![c] = "lookup"]
  /\ key' = [key EXCEPT ![c] = k]
  /\ UNCHANGED <<lock, entries, kernel>>

(* The graph cannot be lowered: the cache is never asked.                  *)
GiveUp(c) ==
  /\ stage[c] = "lookup"
  /\ stage' = [stage EXCEPT ![c] = "idle"]
  /\ UNCHANGED <<lock, entries, key, kernel>>

(* A client with a kernel may ask for another one.                         *)
Leave(c) ==
  /\ stage[c] = "served"
  /\ stage' = [stage EXCEPT ![c] = "idle"]
  /\ kernel' = [kernel EXCEPT ![c] = NoKernel]
  /\ UNCHANGED <<lock, entries, key>>

(* Nothing comes between taking the lock, looking up and letting it go.    *)
Hit(c) ==
  /\ stage[c] = "lookup" /\ lock = NoClient
  /\ entries[key[c]] # NoKernel
  /\ kernel' = [kernel EXCEPT ![c] = entries[key[c]]]
  /\ stage' = [stage EXCEPT ![c] = "served"]
  /\ UNCHANGED <<lock, entries, key>>

(* Fault: what the cache holds is not looked at.                           *)
MissAgain(c) ==
  /\ stage[c] = "lookup" /\ lock = NoClient
  /\ lock' = c
  /\ stage' = [stage EXCEPT ![c] = "compile"]
  /\ UNCHANGED <<entries, key, kernel>>

(* The lock stays with the client while it compiles.                       *)
Miss(c) ==
  /\ stage[c] = "lookup" /\ lock = NoClient
  /\ entries[key[c]] = NoKernel
  /\ lock' = c
  /\ stage' = [stage EXCEPT ![c] = "compile"]
  /\ UNCHANGED <<entries, key, kernel>>

Store(c, k) ==
  /\ stage[c] = "compile"
  /\ entries' = [entries EXCEPT ![key[c]] = k]
  /\ kernel' = [kernel EXCEPT ![c] = k]
  /\ lock' = NoClient
  /\ stage' = [stage EXCEPT ![c] = "served"]
  /\ UNCHANGED key

(* Fault: an exception passes the lock by.                                 *)
CompilerRaisesLocked(c) ==
  /\ stage[c] = "compile"
  /\ stage' = [stage EXCEPT ![c] = "idle"]
  /\ UNCHANGED <<lock, entries, key, kernel>>

CompilerRaises(c) ==
  /\ stage[c] = "compile"
  /\ lock' = NoClient
  /\ stage' = [stage EXCEPT ![c] = "idle"]
  /\ UNCHANGED <<entries, key, kernel>>

CacheNext ==
  \E c \in Clients :
    \/ \E k \in Keys : Ask(c, k)
    \/ GiveUp(c) \/ Leave(c) \/ Hit(c) \/ Miss(c) \/ CompilerRaises(c)
    \/ \E k \in Kernels : Store(c, k)

CacheSpec == CacheInit /\ [][CacheNext]_cacheVars

(* The client that holds the lock is the one that compiles: compilations   *)
(* never overlap, and nobody waits for a lock nobody will let go.          *)
SoleCompiler == \A c \in Clients : stage[c] = "compile" <=> lock = c

(* The kernel of a key never changes, whatever compilations fail behind it.*)
EntriesStable ==
  [][\A k \in Keys : entries[k] # NoKernel => entries'[k] = entries[k]]_cacheVars
=============================================================================
