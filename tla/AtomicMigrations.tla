-------------------------- MODULE AtomicMigrations --------------------------
EXTENDS Integers

(***************************************************************************)
(* What Migrator.Run promises (migrator.go:56-60), without nodes, races or *)
(* faults: migrations are applied one after another, each whole and once,  *)
(* each by a binary that has every earlier migration of its own applied.   *)
(***************************************************************************)
CONSTANTS
    Migrations,  \* indices in version order
    Stmts,       \* pairs of a migration and the place of a statement in it
    Version,     \* the version each migration is recorded under
    Binaries     \* the sets of migrations embedded in some binary

VARIABLES versions, effect

Recorded(m) == Version[m] \in versions

Init == \E before \in SUBSET Migrations :
           /\ versions = {Version[m] : m \in before}
           /\ effect = [s \in Stmts |-> IF s[1] \in before THEN 1 ELSE 0]

Apply(m) ==
    /\ ~Recorded(m)
    /\ \E b \in Binaries : m \in b /\ \A k \in b : k < m => Recorded(k)
    /\ versions' = versions \union {Version[m]}
    /\ effect' = [s \in Stmts |-> IF s[1] = m THEN 1 ELSE effect[s]]

Next == \E m \in Migrations : Apply(m)

Spec == Init /\ [][Next]_<<versions, effect>>
=============================================================================
