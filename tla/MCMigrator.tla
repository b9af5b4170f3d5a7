----------------------------- MODULE MCMigrator -----------------------------
(* Small instances of Migrator for TLC.                                    *)
EXTENDS Migrator, TLC

CONSTANTS n1, n2, n3

(* A table with its backfill, a data-only migration, a second table with a *)
(* trigger, and a migration with an error in it.                           *)
MixedScript ==
    << <<"schema", "data">>, <<"data">>, <<"schema", "once">>, <<"data", "schema", "bad">> >>
MixedVersion == [m \in 1..4 |-> 10 * m]
(* A node on an older branch (without 2), one up to date, and one with the *)
(* broken migration.                                                       *)
MixedKnown == (n1 :> {1, 3}) @@ (n2 :> {1, 2, 3}) @@ (n3 :> {1, 2, 4})

(* Migrations known to every node.                                         *)
PlainVersion == [m \in 1..2 |-> m]
PlainKnown == [n \in Nodes |-> {1, 2}]

(* Two tables, each with its backfill: one inherited statement is schema.  *)
BackfillScript == << <<"schema", "data">>, <<"schema", "data">> >>

None == {0}
SchemaOnly == {1}
UpToThree == 0..3
=============================================================================
