------------------------------ MODULE CacheLock ------------------------------
(***************************************************************************)
(* A lock kept in a cache (cache.go): clients take it with SetNX and a     *)
(* time to live, release it with Del as the example of the package does,   *)
(* may stop while they hold it, and lose answers.  The cache server is     *)
(* external: SetNX is atomic there, and a key whose time has run out is    *)
(* absent.                                                                 *)
(***************************************************************************)
EXTENDS CacheTTL

CONSTANTS
    Clients,
    NoOwner,
    LockTTL,  \* the time to live asked for
    MaxDelay, \* longest a Del takes to reach the server
    MinLeft   \* a client releases only with at least this much left

ASSUME LockAssumption ==
    /\ NoOwner \notin Clients
    /\ LockTTL \in Nat /\ MaxDelay \in Nat /\ MinLeft \in Nat

VARIABLES
    owner,   \* the value of the lock's key, or NoOwner if it is absent
    left,    \* what the server has left of its time to live
    call,    \* each client's call: none, or where it is
    age,     \* how long ago the call was made
    working, \* the client was told it has the lock and has not released it
    belief   \* how long it may count on that

lockVars == <<owner, left, call, age, working, belief>>

(* The server takes a time to live of 0 for none.                          *)
Forever == -1
Granted == IF ttlSeconds(LockTTL) = 0 THEN Forever ELSE 2 * ttlSeconds(LockTTL)

LockInit ==
    /\ owner = NoOwner /\ left = 0
    /\ call = [c \in Clients |-> "none"]
    /\ age = [c \in Clients |-> 0]
    /\ working = [c \in Clients |-> FALSE]
    /\ belief = [c \in Clients |-> 0]

Stage(c, s) == call' = [call EXCEPT ![c] = s]
-----------------------------------------------------------------------------
SetNX(c) ==
    /\ call[c] = "none" /\ ~working[c]
    /\ Stage(c, "asking")
    /\ age' = [age EXCEPT ![c] = 0]
    /\ UNCHANGED <<owner, left, working, belief>>

ServerSetsNX(c) ==
    /\ call[c] = "asking"
    /\ IF owner = NoOwner
         THEN owner' = c /\ left' = Granted /\ Stage(c, "acquired")
         ELSE Stage(c, "refused") /\ UNCHANGED <<owner, left>>
    /\ UNCHANGED <<age, working, belief>>

(* Fault: any answer without an error counts as having the lock.           *)
AnyAnswer(c) == TRUE
Acquired(c) == call[c] = "acquired"

(* The client counts its time from the moment it asked.                    *)
SetNXReturns(c) ==
    /\ call[c] \in {"acquired", "refused"}
    /\ working' = [working EXCEPT ![c] = Acquired(c)]
    /\ belief' = [belief EXCEPT ![c] =
                     IF Acquired(c) /\ age[c] < LockTTL THEN LockTTL - age[c] ELSE 0]
    /\ Stage(c, "none")
    /\ UNCHANGED <<owner, left, age>>

(* cacheDo returns an error: the request or its answer is lost, or has no  *)
(* result.  SetNX then says the lock was not acquired.                     *)
SetNXFails(c) ==
    /\ call[c] \in {"asking", "acquired", "refused"}
    /\ Stage(c, "none")
    /\ UNCHANGED <<owner, left, age, working, belief>>

Del(c) ==
    /\ call[c] = "none" /\ working[c] /\ belief[c] >= MinLeft
    /\ Stage(c, "releasing")
    /\ age' = [age EXCEPT ![c] = 0]
    /\ working' = [working EXCEPT ![c] = FALSE]
    /\ belief' = [belief EXCEPT ![c] = 0]
    /\ UNCHANGED <<owner, left>>

(* Del removes the key whoever has put it there.                           *)
ServerDeletes(c) ==
    /\ call[c] = "releasing"
    /\ owner' = NoOwner /\ left' = 0
    /\ Stage(c, "none")
    /\ UNCHANGED <<age, working, belief>>

DelFails(c) ==
    /\ call[c] = "releasing"
    /\ Stage(c, "none")
    /\ UNCHANGED <<owner, left, age, working, belief>>

(* The client stops, or lets the time run out.                             *)
Abandon(c) ==
    /\ call[c] = "none" /\ working[c]
    /\ working' = [working EXCEPT ![c] = FALSE]
    /\ belief' = [belief EXCEPT ![c] = 0]
    /\ UNCHANGED <<owner, left, call, age>>

HalfSecond ==
    /\ \A c \in Clients : call[c] = "releasing" => age[c] < MaxDelay
    /\ left' = IF left > 0 THEN left - 1 ELSE left
    /\ owner' = IF left = 1 THEN NoOwner ELSE owner
    /\ age' = [c \in Clients |-> IF call[c] # "none" /\ age[c] < LockTTL + MaxDelay
                                   THEN age[c] + 1 ELSE age[c]]
    /\ belief' = [c \in Clients |-> IF belief[c] > 0 THEN belief[c] - 1 ELSE 0]
    /\ UNCHANGED <<call, working>>

LockNext ==
    \/ \E c \in Clients :
          \/ SetNX(c)
          \/ ServerSetsNX(c)
          \/ SetNXReturns(c)
          \/ SetNXFails(c)
          \/ Del(c)
          \/ ServerDeletes(c)
          \/ DelFails(c)
          \/ Abandon(c)
    \/ HalfSecond

LockSpec == LockInit /\ [][LockNext]_lockVars
-----------------------------------------------------------------------------
(* Of the clients that were told they have the lock, counting its time     *)
(* from when they asked for it, one at a time is in it (cache.go:211).     *)
(* This needs a time to live of whole seconds, and a release that reaches  *)
(* the server before the time is out.                                      *)
LockExclusive ==
    \A c, d \in Clients : belief[c] > 0 /\ belief[d] > 0 => c = d

(* The lock of a client that stopped, or that never learned it has it,     *)
(* comes free.                                                             *)
LockFreed == owner # NoOwner ~> owner = NoOwner
=============================================================================
