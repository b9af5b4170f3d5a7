----------------------------- MODULE SQLDriver -----------------------------
(***************************************************************************)
(* The database/sql driver of driver.go under the connection pool of       *)
(* database/sql (external): the pool hands a free connection to one        *)
(* goroutine at a time, for a statement or for a whole transaction.  The   *)
(* driver keeps a pointer to the active transaction on the connection, not *)
(* with its caller, and buffers a transaction until Commit sends it as one *)
(* request.  Which caller is served by which request is thus up to what    *)
(* the last user of the connection left behind.                            *)
(***************************************************************************)
EXTENDS Integers, Sequences

CONSTANTS
    Users,      \* goroutines, each with one transaction at a time
    Conns,      \* the connections of the pool
    None,       \* no one, no transaction, no request
    MaxStmts,   \* bound on the statements each user issues
    MaxFaults   \* bound on lost requests and lost answers

(* <<u, k>> is the kth statement u issues.                                 *)
Statements == Users \X (1..MaxStmts)
Requests == Seq(Statements)

ASSUME NoneAssumption == None \notin Users /\ None \notin Requests
ASSUME BoundsAssumption == MaxStmts \in Nat /\ MaxFaults \in Nat

VARIABLES
    owner,     \* whom the pool has given each connection
    activeTx,  \* localitasConn.activeTx, named after the one who began it
    stmts,     \* localitasTx.stmts of each user's latest transaction
    call,      \* where each user is: idle, in a transaction, in a request
    req,       \* the request it waits for
    issued,    \* how many statements it has issued
    net,       \* requests that have not reached the database
    answered,  \* requests the database has applied
    log,       \* the statements it has applied, in order
    acked,     \* the statements whose success a caller was told
    faults

server == <<net, answered, log>>
vars == <<owner, activeTx, stmts, call, req, issued, acked, faults, server>>

(* Nothing empty is ever sent.                                             *)
TypeOK ==
    /\ owner \in [Conns -> Users \union {None}]
    /\ activeTx \in [Conns -> Users \union {None}]
    /\ stmts \in [Users -> Requests]
    /\ call \in [Users -> {"idle", "open", "waiting"}]
    /\ req \in [Users -> Requests \union {None}]
    /\ issued \in [Users -> 0..MaxStmts]
    /\ net \subseteq Requests \ {<<>>} /\ answered \subseteq Requests
    /\ log \in Requests
    /\ acked \subseteq Statements
    /\ faults \in 0..MaxFaults

Init ==
    /\ owner = [c \in Conns |-> None]
    /\ activeTx = [c \in Conns |-> None]
    /\ stmts = [u \in Users |-> <<>>]
    /\ call = [u \in Users |-> "idle"]
    /\ req = [u \in Users |-> None]
    /\ issued = [u \in Users |-> 0]
    /\ net = {} /\ answered = {} /\ log = <<>>
    /\ acked = {} /\ faults = 0

-----------------------------------------------------------------------------
(* Definitions whose comment starts with "Fault" are not the program: each *)
(* is the definition below it with a mistake, which some property refutes. *)

Take(u, c) == owner' = [owner EXCEPT ![c] = u]
Release(c) == owner' = [owner EXCEPT ![c] = None]
Goto(u, label) == call' = [call EXCEPT ![u] = label]
Send(u, r) ==
    /\ net' = net \union {r}
    /\ req' = [req EXCEPT ![u] = r]
    /\ Goto(u, "waiting")

(* The pool's connection may have served anyone before.                    *)
Begin(u, c) ==
    /\ call[u] = "idle" /\ owner[c] = None
    /\ Take(u, c)
    /\ activeTx' = [activeTx EXCEPT ![c] = u]
    /\ stmts' = [stmts EXCEPT ![u] = <<>>]
    /\ Goto(u, "open")
    /\ UNCHANGED <<req, issued, acked, faults, server>>

(* Fault: the latest statement goes first.                                 *)
Prepended(r, s) == <<s>> \o r
Buffered(r, s) == Append(r, s)

Issues(u, s) ==
    /\ issued[u] < MaxStmts
    /\ issued' = [issued EXCEPT ![u] = @ + 1]
    /\ s = <<u, issued[u] + 1>>

(* database/sql: a transaction has its connection, anything else gets a    *)
(* free one.                                                               *)
Has(u, c) ==
    \/ call[u] = "open" /\ owner[c] = u
    \/ call[u] = "idle" /\ owner[c] = None

(* ExecContext on a connection with an active transaction, and success for *)
(* its caller: of a transaction so far, or of a statement outside any.     *)
ExecBuffers(u, c) ==
    /\ Has(u, c)
    /\ activeTx[c] # None
    /\ \E s \in Statements :
          /\ Issues(u, s)
          /\ stmts' = [stmts EXCEPT ![activeTx[c]] = Buffered(@, s)]
          /\ acked' = IF call[u] = "idle" THEN acked \union {s} ELSE acked
    /\ UNCHANGED <<owner, activeTx, call, req, faults, server>>

(* ExecContext on a connection without: the statement is sent at once.     *)
ExecSends(u, c) ==
    /\ Has(u, c)
    /\ activeTx[c] = None
    /\ \E s \in Statements : Issues(u, s) /\ Send(u, <<s>>)
    /\ Take(u, c)
    /\ UNCHANGED <<activeTx, stmts, acked, faults, answered, log>>

(* Fault: the connection keeps its pointer to the finished transaction.    *)
StaysActive(c) == UNCHANGED activeTx
ClearActive(c) == activeTx' = [activeTx EXCEPT ![c] = None]

(* Fault: the buffer is cleared before it is sent.                         *)
ClearedBatch(u) == <<>>
Batch(u) == stmts[u]

CommitEmpty(u, c) ==
    /\ call[u] = "open" /\ owner[c] = u
    /\ ClearActive(c)
    /\ stmts[u] = <<>>
    /\ Release(c)
    /\ Goto(u, "idle")
    /\ UNCHANGED <<stmts, req, issued, acked, faults, server>>

Commit(u, c) ==
    /\ call[u] = "open" /\ owner[c] = u
    /\ ClearActive(c)
    /\ stmts[u] # <<>>
    /\ Send(u, Batch(u))
    /\ stmts' = [stmts EXCEPT ![u] = <<>>]
    /\ UNCHANGED <<owner, issued, acked, faults, answered, log>>

(* Also what database/sql does when the transaction's context ends.        *)
Rollback(u, c) ==
    /\ call[u] = "open" /\ owner[c] = u
    /\ ClearActive(c)
    /\ stmts' = [stmts EXCEPT ![u] = <<>>]
    /\ Release(c)
    /\ Goto(u, "idle")
    /\ UNCHANGED <<req, issued, acked, faults, server>>

Finish(u, c) ==
    /\ call[u] = "waiting" /\ owner[c] = u
    /\ Release(c)
    /\ Goto(u, "idle")
    /\ req' = [req EXCEPT ![u] = None]
    /\ UNCHANGED <<activeTx, stmts, issued, server>>

(* The request was applied: Exec or Commit returns nil.                    *)
Succeeds(u, c) ==
    /\ Finish(u, c)
    /\ req[u] \in answered
    /\ acked' = acked \union {req[u][i] : i \in 1..Len(req[u])}
    /\ UNCHANGED faults

(* The database refused it: the call returns the error.                    *)
Refused(u, c) ==
    /\ Finish(u, c)
    /\ req[u] \notin net \union answered
    /\ UNCHANGED <<acked, faults>>

(* No answer comes: the call returns an error, whatever became, or may     *)
(* still become, of the request.                                           *)
Unanswered(u, c) ==
    /\ Finish(u, c)
    /\ faults < MaxFaults /\ faults' = faults + 1
    /\ UNCHANGED acked

-----------------------------------------------------------------------------
(* The database (external): a request is applied whole or not at all.      *)
Applied(r) == log' = log \o r

Serve(r) ==
    /\ net' = net \ {r}
    /\ Applied(r)
    /\ answered' = answered \union {r}
    /\ UNCHANGED <<owner, activeTx, stmts, call, req, issued, acked, faults>>

Refuse(r) ==
    /\ net' = net \ {r}
    /\ UNCHANGED <<owner, activeTx, stmts, call, req, issued, acked, faults, answered, log>>

Operate(u, c) ==
    \/ Begin(u, c)
    \/ ExecBuffers(u, c)
    \/ ExecSends(u, c)
    \/ CommitEmpty(u, c)
    \/ Commit(u, c)
    \/ Rollback(u, c)
    \/ Succeeds(u, c)
    \/ Refused(u, c)
    \/ Unanswered(u, c)

Next ==
    \/ \E u \in Users, c \in Conns : Operate(u, c)
    \/ \E r \in net : Serve(r) \/ Refuse(r)

Spec == Init /\ [][Next]_vars
-----------------------------------------------------------------------------
InLog(s) == \E i \in 1..Len(log) : log[i] = s

(* A caller told of a success finds its statements applied: the statement  *)
(* it sent outside transactions, whatever transaction the connection was   *)
(* used for before, and every statement of a transaction it committed.     *)
AckedApplied == \A s \in acked : InLog(s)

(* A transaction holds its own caller's statements only, in their order,   *)
(* so a rollback discards nobody else's (the buffer hangs on a connection  *)
(* the pool passes from one caller to the next).                           *)
OwnStatements ==
    \A u \in Users : \A i \in 1..Len(stmts[u]) :
       /\ stmts[u][i][1] = u
       /\ \A j \in 1..Len(stmts[u]) : i < j => stmts[u][i][2] < stmts[u][j][2]

(* The driver is a database of atomic transactions, whichever connections  *)
(* the pool gives out, and whichever requests and answers are lost.        *)
Transactions == INSTANCE AtomicTransactions WITH
    NoTx <- None,
    open <- [u \in Users |-> IF call[u] = "open" THEN stmts[u] ELSE None],
    pending <- net
AtomicSpec == Transactions!Spec
=============================================================================
