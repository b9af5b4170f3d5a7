------------------------------ MODULE Migrator ------------------------------
(***************************************************************************)
(* The schema migrator of migrator.go: several processes (nodes) call      *)
(* Migrator.Run on one database.  A transaction is atomic in the database  *)
(* (SQLite locally, one exec request through driver.go), so the            *)
(* interleaving is one transaction, one statement of repair, or one read   *)
(* of schema_migrations at a time.                                         *)
(***************************************************************************)
EXTENDS Integers, Sequences

CONSTANTS
    Nodes,      \* the processes that run the migrator
    Script,     \* Script[m]: the kinds of the statements of migration m
    Version,    \* Version[m]: the version in the file name of migration m
    Known,      \* Known[n]: the migrations embedded in the binary of n
    Inherited,  \* how many statements of its next migration a database may
                \* hold from a migrator that was not atomic ({0}: none)
    MaxFaults   \* bound on crashes, lost requests and lost replies

(***************************************************************************)
(* "schema" fails with an error isMigrationIdempotentError recognises when *)
(* its object is in place (a table, an index, a column); "once" succeeds   *)
(* once and then fails with one it does not recognise (a trigger, an       *)
(* INSERT with a key, a DROP, a RENAME); "data" succeeds every time it is  *)
(* run (an UPDATE n = n + 1, an INSERT without a key); "bad" never does.   *)
(***************************************************************************)
Kinds == {"schema", "once", "data", "bad"}

(* loadMigrationsFromFS sorts by version: the index of a migration is its  *)
(* place in that order.                                                    *)
Migrations == DOMAIN Script
Of(m) == {m} \X (1..Len(Script[m]))
Stmts == UNION {Of(m) : m \in Migrations}
Kind(s) == Script[s[1]][s[2]]
Versions == {Version[m] : m \in Migrations}

ASSUME ScriptAssumption ==
    /\ Script \in Seq(Seq(Kinds))
    /\ Version \in [Migrations -> Nat]
    /\ \A l, m \in Migrations : l < m => Version[l] <= Version[m]
ASSUME NodesAssumption ==
    /\ Known \in [Nodes -> SUBSET Migrations]
    /\ Inherited \subseteq Nat
    /\ MaxFaults \in Nat

VARIABLES
    versions,  \* the rows of schema_migrations
    effect,    \* how often each statement took effect in the database
    pc,        \* where each node is in Run
    todo,      \* the migrations a node has still to get past
    pos,       \* the next statement of a repair
    faults     \* crashes, lost requests and lost replies so far

vars == <<versions, effect, pc, todo, pos, faults>>

(* A count stops at MaxEffect: more often than once is all that matters.   *)
MaxEffect == 2
Again(k) == IF k < MaxEffect THEN k + 1 ELSE k

TypeOK ==
    /\ versions \subseteq Versions
    /\ effect \in [Stmts -> 0..MaxEffect]
    /\ pc \in [Nodes -> {"boot", "apply", "repair", "done", "down"}]
    /\ todo \in [Nodes -> SUBSET Migrations]
    /\ pos \in [Nodes -> Nat \ {0}]
    /\ faults \in 0..MaxFaults

(***************************************************************************)
(* An earlier release has migrated the database up to r.  With Inherited   *)
(* other than {0} it was the one that ran statements outside transactions  *)
(* and stopped after p statements of the next migration, before its row.   *)
(***************************************************************************)
Init ==
    /\ \E r \in 0..Len(Script), p \in Inherited :
          /\ versions = {Version[m] : m \in 1..r}
          /\ effect = [s \in Stmts |->
                         IF s[1] <= r \/ (s[1] = r + 1 /\ s[2] <= p) THEN 1 ELSE 0]
    /\ \A s \in Stmts : Kind(s) = "bad" => effect[s] = 0
    /\ pc = [n \in Nodes |-> "boot"]
    /\ todo = [n \in Nodes |-> {}]
    /\ pos = [n \in Nodes |-> 1]
    /\ faults = 0

-----------------------------------------------------------------------------
(* Definitions whose comment starts with "Fault" are not the program: each *)
(* is the definition below it with a mistake, which some property refutes. *)

(* Fault: the files are not sorted.                                        *)
AnyNext(n, m) == m \in todo[n]
IsNext(n, m) == m \in todo[n] /\ \A k \in todo[n] : m <= k

(* Fault: version is not the primary key, so no insert of a row fails.     *)
NeverTaken(m) == FALSE
Taken(m) == Version[m] \in versions

InPlace(s) == Kind(s) = "schema" /\ effect[s] > 0
Refused(s) == Kind(s) = "bad" \/ (Kind(s) = "once" /\ effect[s] > 0)
Fails(s) == Refused(s) \/ InPlace(s)
FirstFailure(s) == Fails(s) /\ \A t \in Of(s[1]) : t[2] < s[2] => ~Fails(t)

Goto(n, label) == pc' = [pc EXCEPT ![n] = label]
Advance(n, m) == todo' = [todo EXCEPT ![n] = @ \ {m}] /\ Goto(n, "apply")

(* The node crashes, or sees an error on the wire and Run returns it.      *)
Fault(n) == /\ faults < MaxFaults
            /\ faults' = faults + 1
            /\ Goto(n, "down")
            /\ UNCHANGED todo

(* A request that reaches the database: its reply arrives, or it is lost.  *)
Replied(n, m) == (Advance(n, m) /\ UNCHANGED faults) \/ Fault(n)

(* CREATE TABLE IF NOT EXISTS, then the one read of the applied versions,  *)
(* from which the loop decides what to skip.                               *)
(* Fault: everything up to the latest applied version counts as applied.  *)
AfterLatest(n) == {m \in Known[n] : \A v \in versions : Version[m] > v}
Pending(n) == {m \in Known[n] : Version[m] \notin versions}

ReadVersions(n) ==
    /\ pc[n] = "boot"
    /\ todo' = [todo EXCEPT ![n] = Pending(n)]
    /\ Goto(n, "apply")
    /\ UNCHANGED <<versions, effect, pos, faults>>

(* Fault: the arguments of the insert are swapped.                         *)
SwappedRow(m) == {m}
Row(m) == {Version[m]}

(* The transaction of apply commits: the version row and every statement.  *)
(* Fault: the statements are not part of the transaction of the row.       *)
RowOnly(m) == UNCHANGED effect
Executes(m) ==
    effect' = [s \in Stmts |-> IF s[1] = m THEN Again(effect[s]) ELSE effect[s]]

Commit(n, m) ==
    /\ pc[n] = "apply" /\ IsNext(n, m)
    /\ ~Taken(m)
    /\ \A s \in Of(m) : ~Fails(s)
    /\ versions' = versions \union Row(m)
    /\ Executes(m)
    /\ Replied(n, m)
    /\ UNCHANGED pos

(* The row's primary key refuses the transaction before any statement.     *)
VersionTaken(n, m) ==
    /\ pc[n] = "apply" /\ IsNext(n, m)
    /\ Taken(m)
    /\ Advance(n, m)
    /\ UNCHANGED <<versions, effect, pos, faults>>

(* Fault: an error about schema already in place is an error like others.  *)
SchemaInPlaceFails(n, m) ==
    /\ pc[n] = "apply" /\ IsNext(n, m)
    /\ ~Taken(m)
    /\ \E s \in Of(m) : FirstFailure(s) /\ InPlace(s)
    /\ Goto(n, "down")
    /\ UNCHANGED <<versions, effect, todo, pos, faults>>

(* The first statement to fail finds its schema in place: on to repair.    *)
SchemaInPlace(n, m) ==
    /\ pc[n] = "apply" /\ IsNext(n, m)
    /\ ~Taken(m)
    /\ \E s \in Of(m) : FirstFailure(s) /\ InPlace(s)
    /\ pos' = [pos EXCEPT ![n] = 1]
    /\ Goto(n, "repair")
    /\ UNCHANGED <<versions, effect, todo, faults>>

(* The first statement to fail fails otherwise: rolled back, Run returns.  *)
ApplyFails(n, m) ==
    /\ pc[n] = "apply" /\ IsNext(n, m)
    /\ ~Taken(m)
    /\ \E s \in Of(m) : FirstFailure(s) /\ ~InPlace(s)
    /\ Goto(n, "down")
    /\ UNCHANGED <<versions, effect, todo, pos, faults>>

(* repair runs the statements one request at a time, outside transactions. *)
RepairStatement(n, m) ==
    LET s == <<m, pos[n]>> IN
    /\ pc[n] = "repair" /\ IsNext(n, m)
    /\ s \in Of(m) /\ ~Refused(s)
    /\ effect' = IF InPlace(s) THEN effect ELSE [effect EXCEPT ![s] = Again(@)]
    /\ \/ pos' = [pos EXCEPT ![n] = @ + 1] /\ UNCHANGED <<pc, todo, faults>>
       \/ Fault(n) /\ UNCHANGED pos
    /\ UNCHANGED versions

(* Any other error ends Run: the statements before it stay, without a row. *)
RepairFails(n, m) ==
    /\ pc[n] = "repair" /\ IsNext(n, m)
    /\ <<m, pos[n]>> \in Of(m) /\ Refused(<<m, pos[n]>>)
    /\ Goto(n, "down")
    /\ UNCHANGED <<versions, effect, todo, pos, faults>>

(* Fault: the row is inserted before the last statement is run.            *)
RepairedEarly(n, m) == pos[n] = Len(Script[m])
Repaired(n, m) == pos[n] > Len(Script[m])

(* INSERT OR IGNORE of the version row, after the last statement.          *)
RecordVersion(n, m) ==
    /\ pc[n] = "repair" /\ IsNext(n, m)
    /\ Repaired(n, m)
    /\ versions' = versions \union Row(m)
    /\ Replied(n, m)
    /\ UNCHANGED <<effect, pos>>

Finish(n) ==
    /\ pc[n] = "apply" /\ todo[n] = {}
    /\ Goto(n, "done")
    /\ UNCHANGED <<versions, effect, todo, pos, faults>>

(* A crash between two requests, or a request lost before the database.    *)
Stop(n) ==
    /\ pc[n] \in {"boot", "apply", "repair"}
    /\ Fault(n)
    /\ UNCHANGED <<versions, effect, pos>>

(* What runs the node starts it again (external to src/).                  *)
Restart(n) ==
    /\ pc[n] = "down"
    /\ Goto(n, "boot")
    /\ UNCHANGED <<versions, effect, todo, pos, faults>>

Run(n) ==
    \/ ReadVersions(n)
    \/ \E m \in Migrations :
          \/ Commit(n, m)
          \/ VersionTaken(n, m)
          \/ SchemaInPlace(n, m)
          \/ ApplyFails(n, m)
          \/ RepairStatement(n, m)
          \/ RepairFails(n, m)
          \/ RecordVersion(n, m)
    \/ Finish(n)
    \/ Restart(n)

Next == \E n \in Nodes : Run(n) \/ Stop(n)

Spec == Init /\ [][Next]_vars

(* Every node that can take a step takes one: Run never waits for another  *)
(* node, and a node that stopped is started again.                         *)
FairSpec == Spec /\ \A n \in Nodes : WF_vars(Run(n))
-----------------------------------------------------------------------------
(* No two files carry the same version.                                    *)
DistinctVersions == \A l, m \in Migrations : Version[l] = Version[m] => l = m
(* The database was only ever migrated by transactions.                    *)
Clean == Inherited = {0}

(* On a database only transactions touched, every migration is applied     *)
(* whole, exactly once, or not at all: in every state, whatever the nodes  *)
(* race on and wherever they stop (doc of Run, apply).                     *)
AppliedWhole ==
    \A m \in Migrations : \A s \in Of(m) :
       effect[s] = (IF Version[m] \in versions THEN 1 ELSE 0)

(* A row of schema_migrations is never ahead of the schema: every          *)
(* statement of a recorded migration took effect, repaired ones included.  *)
RecordedInPlace ==
    \A m \in Migrations : Version[m] \in versions => \A s \in Of(m) : effect[s] > 0

(* Run returns nil only when every migration of the node's binary took     *)
(* effect, whoever applied it.                                             *)
DoneMeansApplied ==
    \A n \in Nodes : pc[n] = "done" =>
       \A m \in Known[n] : \A s \in Of(m) : effect[s] > 0

(* A statement takes effect only in a step of a node whose own binary has  *)
(* every earlier migration already in place, although that node took its   *)
(* list of applied versions long before and other binaries know other      *)
(* migrations (the loop of Run; one merged late is not skipped over).      *)
Moves(n) == <<pc[n], todo[n], pos[n]>>' # <<pc[n], todo[n], pos[n]>>
EarlierInPlace(n, m) ==
    \A k \in Known[n] : k < m => \A t \in Of(k) : effect[t] > 0
InOrder ==
    [][\A s \in Stmts : effect'[s] # effect[s] =>
          \E n \in Nodes :
             Moves(n) /\ s[1] \in Known[n] /\ EarlierInPlace(n, s[1])]_vars

(* A migration without its row, of which a statement that works only once  *)
(* has run: neither its transaction nor its repair can get past that.      *)
OnceRun(m) == \E s \in Of(m) : Kind(s) = "once" /\ effect[s] > 0
Stuck(m) == Version[m] \notin versions /\ OnceRun(m)

(* A node whose migrations can all succeed gets through Run for good,      *)
(* whichever nodes fail or race with it, unless one of its migrations is   *)
(* stuck: half a migration of an older release, or of a repair that        *)
(* stopped, cannot be completed when one of its statements works only once *)
(* (repair, isMigrationIdempotentError).                                   *)
Healthy(n) == \A m \in Known[n] : \A s \in Of(m) : Kind(s) # "bad"
HealthyNodesFinish ==
    \A n \in Nodes : Healthy(n) =>
       <>[](pc[n] = "done") \/ <>[](\E m \in Known[n] : Stuck(m))

(* Run implements the promise of its doc comment on a clean database.      *)
Atomic == INSTANCE AtomicMigrations WITH Binaries <- {Known[n] : n \in Nodes}
AtomicSpec == Atomic!Spec

(* No data statement takes effect twice, for a legacy database too: what   *)
(* migrator.go:56-60 and migrator_test.go:57-59 say of every migration.    *)
AtMostOnce == \A s \in Stmts : effect[s] <= 1
=============================================================================
