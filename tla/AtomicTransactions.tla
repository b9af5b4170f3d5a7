------------------------- MODULE AtomicTransactions -------------------------
EXTENDS Integers, Sequences

(***************************************************************************)
(* What a caller of database/sql expects of the driver, without a pool,    *)
(* connections or pointers to active transactions: a statement outside a   *)
(* transaction is a batch of its own, a transaction is one batch in the    *)
(* order of its statements, a batch is applied once and whole or never,    *)
(* and a caller that is told so can rely on it.                            *)
(***************************************************************************)
CONSTANTS Users, Statements, NoTx

VARIABLES
    open,     \* open[u]: the statements of u's transaction, or NoTx
    pending,  \* batches on their way to the database
    log,      \* the statements the database has applied
    acked     \* the statements whose success a caller was told

Init ==
    /\ open = [u \in Users |-> NoTx]
    /\ pending = {} /\ log = <<>> /\ acked = {}

InLog(s) == \E i \in 1..Len(log) : log[i] = s

Begin(u) ==
    /\ open[u] = NoTx
    /\ open' = [open EXCEPT ![u] = <<>>]
    /\ UNCHANGED <<pending, log, acked>>

Issue(u, s) ==
    /\ open[u] # NoTx
    /\ open' = [open EXCEPT ![u] = Append(@, s)]
    /\ UNCHANGED <<pending, log, acked>>

Submit(u, s) ==
    /\ open[u] = NoTx
    /\ pending' = pending \union {<<s>>}
    /\ UNCHANGED <<open, log, acked>>

Commit(u) ==
    /\ open[u] # NoTx
    /\ open' = [open EXCEPT ![u] = NoTx]
    /\ pending' = pending \union {open[u]}
    /\ UNCHANGED <<log, acked>>

(* Rollback, and the commit of an empty transaction.                       *)
Forget(u) ==
    /\ open[u] # NoTx
    /\ open' = [open EXCEPT ![u] = NoTx]
    /\ UNCHANGED <<pending, log, acked>>

Apply(b) ==
    /\ pending' = pending \ {b}
    /\ log' = log \o b
    /\ UNCHANGED <<open, acked>>

Discard(b) ==
    /\ pending' = pending \ {b}
    /\ UNCHANGED <<open, log, acked>>

Acknowledge ==
    /\ \E told \in SUBSET Statements :
          /\ \A s \in told : InLog(s)
          /\ acked' = acked \union told
    /\ UNCHANGED <<open, pending, log>>

Next ==
    \/ \E u \in Users :
          \/ Begin(u) \/ Commit(u) \/ Forget(u)
          \/ \E s \in Statements : Issue(u, s) \/ Submit(u, s)
    \/ \E b \in pending : Apply(b) \/ Discard(b)
    \/ Acknowledge

Spec == Init /\ [][Next]_<<open, pending, log, acked>>
=============================================================================
