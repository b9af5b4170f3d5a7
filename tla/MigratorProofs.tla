--------------------------- MODULE MigratorProofs ---------------------------
(***************************************************************************)
(* Theorems about Migrator for any number of nodes, any scripts and any    *)
(* bound on faults.                                                        *)
(***************************************************************************)
EXTENDS Migrator, TLAPS

Running(n) == pc[n] \in {"apply", "repair", "done"}

(* What holds of each node: what it no longer has to do is recorded, the   *)
(* statements its repair is past took effect, done leaves nothing to do.   *)
Local(n) ==
    /\ todo[n] \subseteq Known[n]
    /\ Running(n) => \A m \in Known[n] : m \in todo[n] \/ Version[m] \in versions
    /\ \A m \in Migrations : pc[n] = "repair" /\ IsNext(n, m) =>
          \A s \in Of(m) : s[2] < pos[n] => effect[s] > 0
    /\ pc[n] = "done" => todo[n] = {}

Inv ==
    /\ TypeOK
    /\ \A n \in Nodes : Local(n)
    /\ RecordedInPlace

LEMMA Indices == Migrations = 1..Len(Script) /\ Len(Script) \in Nat
  BY ScriptAssumption DEF Migrations

LEMMA Bodies ==
  ASSUME NEW m \in Migrations
  PROVE  /\ Script[m] \in Seq(Kinds) /\ Len(Script[m]) \in Nat
         /\ \A s : s \in Of(m) <=> s \in {m} \X (1..Len(Script[m]))
         /\ Of(m) \subseteq Stmts
         /\ \A s \in Of(m) : s[1] = m /\ s[2] \in 1..Len(Script[m]) /\ s = <<m, s[2]>>
         /\ \A s \in Stmts : s[1] = m => s \in Of(m)
  <1>1. Script[m] \in Seq(Kinds)
    BY ScriptAssumption DEF Migrations
  <1>2. QED
    BY <1>1 DEF Of, Stmts

LEMMA StmtsOfMigrations == \A s \in Stmts : s[1] \in Migrations /\ s \in Of(s[1])
  BY DEF Stmts, Of

LEMMA AgainBounds ==
  ASSUME NEW k \in 0..MaxEffect
  PROVE  Again(k) \in 0..MaxEffect /\ Again(k) > 0 /\ Again(k) >= k
  BY DEF Again, MaxEffect

LEMMA MaxEffectNat == MaxEffect \in Nat
  BY DEF MaxEffect

(***************************************************************************)
(* Type correctness.                                                       *)
(***************************************************************************)
LEMMA TypeStep == TypeOK /\ [Next]_vars => TypeOK'
  <1> SUFFICES ASSUME TypeOK, [Next]_vars PROVE TypeOK'
    OBVIOUS
  <1> USE NodesAssumption DEF TypeOK, Goto, Advance, Fault, Replied
  <1>1. ASSUME NEW n \in Nodes, Run(n) \/ Stop(n) PROVE TypeOK'
    <2>1. CASE ReadVersions(n)
      BY <2>1 DEF ReadVersions, Pending
    <2>2. ASSUME NEW m \in Migrations, Commit(n, m) PROVE TypeOK'
      <3>1. effect' \in [Stmts -> 0..MaxEffect]
        BY <2>2, AgainBounds DEF Commit, Executes
      <3>2. versions' \subseteq Versions
        BY <2>2 DEF Commit, Row, Versions
      <3>3. QED
        BY <2>2, <3>1, <3>2 DEF Commit
    <2>3. ASSUME NEW m \in Migrations, VersionTaken(n, m) PROVE TypeOK'
      BY <2>3 DEF VersionTaken
    <2>4. ASSUME NEW m \in Migrations, SchemaInPlace(n, m) PROVE TypeOK'
      BY <2>4 DEF SchemaInPlace
    <2>5. ASSUME NEW m \in Migrations, ApplyFails(n, m) PROVE TypeOK'
      BY <2>5 DEF ApplyFails
    <2>6. ASSUME NEW m \in Migrations, RepairStatement(n, m) PROVE TypeOK'
      <3>1. <<m, pos[n]>> \in Stmts
        BY <2>6, Bodies DEF RepairStatement
      <3>2. effect' \in [Stmts -> 0..MaxEffect]
        BY <2>6, <3>1, AgainBounds DEF RepairStatement
      <3>3. QED
        BY <2>6, <3>2 DEF RepairStatement
    <2>7. ASSUME NEW m \in Migrations, RepairFails(n, m) PROVE TypeOK'
      BY <2>7 DEF RepairFails
    <2>8. ASSUME NEW m \in Migrations, RecordVersion(n, m) PROVE TypeOK'
      <3>1. versions' \subseteq Versions
        BY <2>8 DEF RecordVersion, Row, Versions
      <3>2. QED
        BY <2>8, <3>1 DEF RecordVersion
    <2>9. CASE Finish(n)
      BY <2>9 DEF Finish
    <2>10. CASE Restart(n)
      BY <2>10 DEF Restart
    <2>11. CASE Stop(n)
      BY <2>11 DEF Stop
    <2>12. QED
      BY <1>1, <2>1, <2>2, <2>3, <2>4, <2>5, <2>6, <2>7, <2>8, <2>9, <2>10, <2>11
         DEF Run
  <1>2. CASE UNCHANGED vars
    BY <1>2 DEF vars
  <1>3. QED
    BY <1>1, <1>2 DEF Next

LEMMA TypeInit == Init => TypeOK
  <1> SUFFICES ASSUME Init PROVE TypeOK
    OBVIOUS
  <1>1. PICK r \in 0..Len(Script), p \in Inherited :
           /\ versions = {Version[m] : m \in 1..r}
           /\ effect = [s \in Stmts |->
                IF s[1] <= r \/ (s[1] = r + 1 /\ s[2] <= p) THEN 1 ELSE 0]
    BY DEF Init
  <1>2. versions \subseteq Versions
    BY <1>1, Indices DEF Versions
  <1>3. effect \in [Stmts -> 0..MaxEffect]
    BY <1>1 DEF MaxEffect
  <1>4. QED
    BY <1>2, <1>3, NodesAssumption DEF Init, TypeOK

(* The state of the migrator always has its type: what a node still has to *)
(* do are migrations, what it records are versions of migrations.          *)
THEOREM TypeCorrect == Spec => []TypeOK
  BY TypeInit, TypeStep, PTL DEF Spec

(***************************************************************************)
(* The inductive invariant.  Local carries a node's stale list of applied  *)
(* versions (rows are never deleted, so what it skipped or got past stays  *)
(* recorded) and a repair that other nodes interleave with (an effect is   *)
(* never undone).                                                          *)
(***************************************************************************)
LEMMA VersionsGrow ==
  ASSUME TypeOK, [Next]_vars
  PROVE  /\ versions \subseteq versions'
         /\ \A s \in Stmts : effect[s] > 0 => effect'[s] > 0
  <1> USE DEF TypeOK
  <1>1. ASSUME NEW n \in Nodes, NEW m \in Migrations, Commit(n, m)
        PROVE  /\ versions \subseteq versions'
               /\ \A s \in Stmts : effect[s] > 0 => effect'[s] > 0
    BY <1>1, AgainBounds DEF Commit, Executes
  <1>2. ASSUME NEW n \in Nodes, NEW m \in Migrations, RepairStatement(n, m)
        PROVE  /\ versions \subseteq versions'
               /\ \A s \in Stmts : effect[s] > 0 => effect'[s] > 0
    BY <1>2, AgainBounds DEF RepairStatement
  <1>3. ASSUME NEW n \in Nodes, NEW m \in Migrations, RecordVersion(n, m)
        PROVE  versions \subseteq versions' /\ effect' = effect
    BY <1>3 DEF RecordVersion
  <1>4. QED
    BY <1>1, <1>2, <1>3
       DEF Next, Run, vars, ReadVersions, VersionTaken, SchemaInPlace, ApplyFails,
           RepairFails, Finish, Restart, Stop

(* A step of one node leaves what the others are doing alone.              *)
LEMMA OthersUnchanged ==
  ASSUME TypeOK, NEW n \in Nodes, Run(n) \/ Stop(n), NEW o \in Nodes, o # n
  PROVE  pc'[o] = pc[o] /\ todo'[o] = todo[o] /\ pos'[o] = pos[o]
  BY DEF TypeOK, Run, Stop, Fault, Goto, Advance, Replied, ReadVersions, Commit, VersionTaken,
         SchemaInPlace, ApplyFails, RepairStatement, RepairFails, RecordVersion, Finish, Restart

LEMMA OneNext ==
  ASSUME TypeOK, NEW n \in Nodes, NEW l \in Migrations, NEW m \in Migrations,
         IsNext(n, l), IsNext(n, m)
  PROVE  l = m
  BY Indices DEF IsNext, TypeOK

LEMMA LocalOfOthers ==
  ASSUME TypeOK, [Next]_vars, NEW o \in Nodes, Local(o),
         pc'[o] = pc[o], todo'[o] = todo[o], pos'[o] = pos[o]
  PROVE  Local(o)'
  <1>1. versions \subseteq versions' /\ \A s \in Stmts : effect[s] > 0 => effect'[s] > 0
    BY VersionsGrow
  <1>2. \A m \in Migrations : IsNext(o, m)' <=> IsNext(o, m)
    BY DEF IsNext
  <1>3. \A m \in Migrations : Of(m) \subseteq Stmts
    BY Bodies
  <1>4. QED
    BY <1>1, <1>2, <1>3 DEF Local, Running

LEMMA LocalOfActor ==
  ASSUME TypeOK, NEW n \in Nodes, Run(n) \/ Stop(n), Local(n)
  PROVE  Local(n)'
  <1> USE NodesAssumption DEF TypeOK, Goto
  <1>1. CASE ReadVersions(n)
    BY <1>1 DEF ReadVersions, Pending, Local, Running
  <1>2. ASSUME NEW m \in Migrations, Commit(n, m) PROVE Local(n)'
    BY <1>2 DEF Commit, Replied, Advance, Fault, Row, Local, Running
  <1>3. ASSUME NEW m \in Migrations, VersionTaken(n, m) PROVE Local(n)'
    BY <1>3 DEF VersionTaken, Advance, Taken, Local, Running
  <1>4. ASSUME NEW m \in Migrations, SchemaInPlace(n, m) PROVE Local(n)'
    BY <1>4, Bodies DEF SchemaInPlace, Local, Running
  <1>5. ASSUME NEW m \in Migrations, ApplyFails(n, m) PROVE Local(n)'
    BY <1>5 DEF ApplyFails, Local, Running
  <1>6. ASSUME NEW m \in Migrations, RepairStatement(n, m) PROVE Local(n)'
    <2>1. CASE pc'[n] = "down" /\ todo' = todo
      BY <1>6, <2>1 DEF Local, Running
    <2>2. CASE pos' = [pos EXCEPT ![n] = @ + 1] /\ UNCHANGED <<pc, todo, faults>>
      <3> DEFINE s == <<m, pos[n]>>
      <3>1. s \in Of(m) /\ s \in Stmts /\ Of(m) \subseteq Stmts
        BY <1>6, Bodies DEF RepairStatement
      <3>2. effect'[s] > 0
        BY <1>6, <3>1, AgainBounds DEF RepairStatement, InPlace
      <3>3. \A t \in Of(m) : t[2] < pos[n] => effect'[t] > 0
        BY <1>6, <3>1, AgainBounds DEF RepairStatement, Local
      <3>4. \A t \in Of(m) : t[2] < pos'[n] => effect'[t] > 0
        <4> SUFFICES ASSUME NEW t \in Of(m), t[2] < pos'[n] PROVE effect'[t] > 0
          OBVIOUS
        <4>1. t = <<m, t[2]>> /\ t[2] \in Nat
          BY Bodies
        <4>2. t[2] < pos[n] \/ t = s
          BY <2>2, <4>1
        <4>3. QED
          BY <3>2, <3>3, <4>2
      <3>5. \A l \in Migrations : IsNext(n, l)' => l = m
        BY <1>6, <2>2, OneNext DEF RepairStatement, IsNext
      <3>6. QED
        BY <1>6, <2>2, <3>4, <3>5 DEF RepairStatement, Local, Running
    <2>3. QED
      BY <1>6, <2>1, <2>2 DEF RepairStatement, Fault
  <1>7. ASSUME NEW m \in Migrations, RepairFails(n, m) PROVE Local(n)'
    BY <1>7 DEF RepairFails, Local, Running
  <1>8. ASSUME NEW m \in Migrations, RecordVersion(n, m) PROVE Local(n)'
    <2>1. CASE pc'[n] = "down" /\ todo' = todo
      BY <1>8, <2>1 DEF Local, Running
    <2>2. CASE Advance(n, m)
      <3>1. pc'[n] = "apply" /\ todo'[n] = todo[n] \ {m} /\ versions' = versions \union {Version[m]}
        BY <1>8, <2>2 DEF RecordVersion, Advance, Row
      <3>2. QED
        BY <1>8, <3>1 DEF RecordVersion, Local, Running, IsNext
    <2>3. QED
      BY <1>8, <2>1, <2>2 DEF RecordVersion, Replied, Fault
  <1>9. CASE Finish(n)
    BY <1>9 DEF Finish, Local, Running
  <1>10. CASE Restart(n)
    BY <1>10 DEF Restart, Local, Running
  <1>11. CASE Stop(n)
    BY <1>11 DEF Stop, Fault, Local, Running
  <1>12. QED
    BY <1>1, <1>2, <1>3, <1>4, <1>5, <1>6, <1>7, <1>8, <1>9, <1>10, <1>11 DEF Run

LEMMA RecordedStep ==
  ASSUME DistinctVersions, Inv, NEW n \in Nodes, Run(n) \/ Stop(n)
  PROVE  RecordedInPlace'
  <1> USE DEF Inv, TypeOK
  <1>1. ASSUME NEW m \in Migrations, Commit(n, m) PROVE RecordedInPlace'
    <2> SUFFICES ASSUME NEW k \in Migrations, Version[k] \in versions', NEW s \in Of(k)
                 PROVE  effect'[s] > 0
      BY DEF RecordedInPlace
    <2>1. s \in Stmts /\ s[1] = k
      BY Bodies
    <2>2. CASE Version[k] \in versions
      BY <1>1, <2>1, <2>2, AgainBounds DEF RecordedInPlace, Commit, Executes
    <2>3. CASE Version[k] = Version[m]
      BY <1>1, <2>1, <2>3, AgainBounds DEF DistinctVersions, Commit, Executes
    <2>4. QED
      BY <1>1, <2>2, <2>3 DEF Commit, Row
  <1>2. ASSUME NEW m \in Migrations, RepairStatement(n, m) PROVE RecordedInPlace'
    <2>1. versions' = versions
      BY <1>2 DEF RepairStatement
    <2>2. \A s \in Stmts : effect[s] > 0 => effect'[s] > 0
      BY <1>2, AgainBounds DEF RepairStatement
    <2>3. QED
      BY <2>1, <2>2, Bodies DEF RecordedInPlace
  <1>3. ASSUME NEW m \in Migrations, RecordVersion(n, m) PROVE RecordedInPlace'
    <2>1. \A s \in Of(m) : effect[s] > 0
      <3> SUFFICES ASSUME NEW s \in Of(m) PROVE effect[s] > 0
        OBVIOUS
      <3>1. s[2] < pos[n]
        BY <1>3, Bodies DEF RecordVersion, Repaired
      <3>2. QED
        BY <1>3, <3>1 DEF RecordVersion, Local
    <2>2. effect' = effect /\ versions' = versions \union {Version[m]}
      BY <1>3 DEF RecordVersion, Row
    <2>3. QED
      BY <2>1, <2>2 DEF RecordedInPlace, DistinctVersions
  <1>4. ASSUME UNCHANGED <<versions, effect>> PROVE RecordedInPlace'
    BY <1>4 DEF RecordedInPlace
  <1>5. QED
    BY <1>1, <1>2, <1>3, <1>4
       DEF Run, ReadVersions, VersionTaken, SchemaInPlace, ApplyFails, RepairFails,
           Finish, Restart, Stop

LEMMA InvInit == DistinctVersions /\ Init => Inv
  <1> SUFFICES ASSUME DistinctVersions, Init PROVE Inv
    OBVIOUS
  <1>1. TypeOK
    BY TypeInit
  <1>2. PICK r \in 0..Len(Script), p \in Inherited :
           /\ versions = {Version[m] : m \in 1..r}
           /\ effect = [s \in Stmts |->
                IF s[1] <= r \/ (s[1] = r + 1 /\ s[2] <= p) THEN 1 ELSE 0]
    BY DEF Init
  <1>3. \A m \in Migrations : Version[m] \in versions => m <= r
    BY <1>2, Indices DEF DistinctVersions
  <1>4. RecordedInPlace
    BY <1>2, <1>3, Bodies DEF RecordedInPlace
  <1>5. \A n \in Nodes : Local(n)
    BY NodesAssumption DEF Init, Local, Running
  <1>6. QED
    BY <1>1, <1>4, <1>5 DEF Inv

LEMMA InvStep == DistinctVersions /\ Inv /\ [Next]_vars => Inv'
  <1> SUFFICES ASSUME DistinctVersions, Inv, [Next]_vars PROVE Inv'
    OBVIOUS
  <1>1. TypeOK'
    BY TypeStep DEF Inv
  <1>2. ASSUME NEW n \in Nodes, Run(n) \/ Stop(n) PROVE Inv'
    <2>1. \A o \in Nodes : Local(o)'
      BY <1>2, LocalOfActor, LocalOfOthers, OthersUnchanged DEF Inv
    <2>2. RecordedInPlace'
      BY <1>2, RecordedStep
    <2>3. QED
      BY <1>1, <2>1, <2>2 DEF Inv
  <1>3. CASE UNCHANGED vars
    <2>1. \A o \in Nodes : Local(o)'
      BY <1>3, LocalOfOthers DEF Inv, vars
    <2>2. RecordedInPlace'
      BY <1>3 DEF Inv, RecordedInPlace, vars
    <2>3. QED
      BY <1>1, <2>1, <2>2 DEF Inv
  <1>4. QED
    BY <1>2, <1>3 DEF Next

THEOREM Inductive ==
  ASSUME DistinctVersions
  PROVE  Spec => []Inv
  <1>1. Init => Inv
    BY InvInit
  <1>2. Inv /\ [Next]_vars => Inv'
    BY InvStep
  <1>3. QED
    BY <1>1, <1>2, PTL DEF Spec

(* A recorded migration has every statement in place: no crash, lost reply *)
(* or racing repair leaves a row of schema_migrations ahead of the schema. *)
THEOREM RowsNeverAhead ==
  ASSUME DistinctVersions
  PROVE  Spec => []RecordedInPlace
  BY Inductive, PTL DEF Inv

(* A node whose Run returned nil has every migration of its binary in      *)
(* place, applied by itself or by another node.                            *)
THEOREM DoneIsApplied ==
  ASSUME DistinctVersions
  PROVE  Spec => []DoneMeansApplied
  <1>1. Inv => DoneMeansApplied
    BY NodesAssumption DEF Inv, Local, Running, RecordedInPlace, DoneMeansApplied
  <1>2. QED
    BY <1>1, Inductive, PTL

(* A node runs the statements of its own binary in the order of its files: *)
(* everything before the statement's migration in that binary is in place, *)
(* whatever other binaries know.                                           *)
THEOREM OrderKept ==
  ASSUME DistinctVersions
  PROVE  Spec => InOrder
  <1> DEFINE Step == \A s \in Stmts : effect'[s] # effect[s] =>
                        \E n \in Nodes :
                           Moves(n) /\ s[1] \in Known[n] /\ EarlierInPlace(n, s[1])
  <1>1. ASSUME Inv, [Next]_vars PROVE [Step]_vars
    <2> SUFFICES ASSUME NEW s \in Stmts, effect'[s] # effect[s]
                 PROVE  \E n \in Nodes :
                           Moves(n) /\ s[1] \in Known[n] /\ EarlierInPlace(n, s[1])
      OBVIOUS
    <2> USE <1>1 DEF Inv, TypeOK
    <2>1. PICK n \in Nodes, m \in Migrations : Commit(n, m) \/ RepairStatement(n, m)
      BY DEF Next, Run, vars, ReadVersions, VersionTaken, SchemaInPlace, ApplyFails,
             RepairFails, RecordVersion, Finish, Restart, Stop
    <2>2. s[1] = m
      BY <2>1, Bodies DEF Commit, Executes, RepairStatement
    <2>3. /\ IsNext(n, m) /\ pc[n] \in {"apply", "repair"}
      BY <2>1 DEF Commit, RepairStatement
    <2>4. m \in Known[n]
      BY <2>3 DEF IsNext, Local
    <2>5. EarlierInPlace(n, m)
      <3> SUFFICES ASSUME NEW k \in Known[n], k < m, NEW t \in Of(k) PROVE effect[t] > 0
        BY DEF EarlierInPlace
      <3>1. k \in Migrations
        BY NodesAssumption
      <3>2. k \notin todo[n]
        BY <2>3, <3>1, Indices DEF IsNext
      <3>3. Version[k] \in versions
        BY <2>3, <3>2 DEF Local, Running
      <3>4. QED
        BY <3>1, <3>3 DEF RecordedInPlace
    <2>6. Moves(n)
      <3>1. m \in todo[n] /\ todo \in [Nodes -> SUBSET Migrations] /\ pos[n] \in Nat
        BY <2>3 DEF IsNext
      <3>2. \/ todo'[n] = todo[n] \ {m}
            \/ pc'[n] = "down"
            \/ pos'[n] = pos[n] + 1
        BY <2>1 DEF Commit, RepairStatement, Replied, Advance, Fault, Goto
      <3>3. todo'[n] # todo[n] \/ pc'[n] # pc[n] \/ pos'[n] # pos[n]
        BY <2>3, <3>1, <3>2
      <3>4. QED
        BY <3>3 DEF Moves
    <2>7. QED
      BY <2>2, <2>4, <2>5, <2>6
  <1>2. QED
    BY <1>1, Inductive, PTL DEF Spec, InOrder

(***************************************************************************)
(* On a clean database repair is never reached and a count is 1 exactly    *)
(* when the version is recorded.                                           *)
(***************************************************************************)
CleanInv ==
    /\ TypeOK
    /\ AppliedWhole
    /\ \A n \in Nodes : pc[n] # "repair"

LEMMA CleanInit ==
  ASSUME DistinctVersions, Clean, Init
  PROVE  CleanInv
  <1>1. PICK r \in 0..Len(Script) :
           /\ versions = {Version[m] : m \in 1..r}
           /\ effect = [s \in Stmts |->
                IF s[1] <= r \/ (s[1] = r + 1 /\ s[2] <= 0) THEN 1 ELSE 0]
    BY DEF Init, Clean
  <1>2. \A m \in Migrations : Version[m] \in versions <=> m <= r
    BY <1>1, Indices DEF DistinctVersions
  <1>3. AppliedWhole
    BY <1>1, <1>2, Bodies DEF AppliedWhole
  <1>4. QED
    BY <1>3, TypeInit DEF CleanInv, Init

LEMMA CleanStep ==
  ASSUME DistinctVersions, CleanInv, [Next]_vars
  PROVE  CleanInv'
  <1> USE DEF CleanInv, TypeOK
  <1>1. TypeOK'
    BY TypeStep
  <1>2. ASSUME NEW n \in Nodes, NEW m \in Migrations, Commit(n, m)
        PROVE  AppliedWhole' /\ pc'[n] # "repair"
    <2>1. AppliedWhole'
      <3> SUFFICES ASSUME NEW k \in Migrations, NEW s \in Of(k)
                   PROVE  effect'[s] = (IF Version[k] \in versions' THEN 1 ELSE 0)
        BY DEF AppliedWhole
      <3>1. s \in Stmts /\ s[1] = k
        BY Bodies
      <3>2. CASE k = m
        BY <1>2, <3>1, <3>2
           DEF Commit, Executes, Again, MaxEffect, Row, Taken, AppliedWhole
      <3>3. CASE k # m
        BY <1>2, <3>1, <3>3 DEF Commit, Executes, Row, AppliedWhole, DistinctVersions
      <3>4. QED
        BY <3>2, <3>3
    <2>2. QED
      BY <1>2, <2>1 DEF Commit, Replied, Advance, Fault, Goto
  <1>3. ASSUME NEW n \in Nodes, NEW m \in Migrations PROVE ~SchemaInPlace(n, m)
    BY DEF SchemaInPlace, InPlace, Taken, AppliedWhole
  <1>4. ASSUME NEW n \in Nodes, Run(n) \/ Stop(n) PROVE AppliedWhole' /\ pc'[n] # "repair"
    <2>1. CASE \E m \in Migrations : Commit(n, m)
      BY <2>1, <1>2
    <2>2. ASSUME UNCHANGED <<versions, effect>> PROVE AppliedWhole'
      BY <2>2 DEF AppliedWhole
    <2>3. QED
      BY <1>4, <1>3, <2>1, <2>2
         DEF Run, ReadVersions, VersionTaken, ApplyFails, RepairStatement, RepairFails,
             RecordVersion, Finish, Restart, Stop, Goto, Advance, Fault
  <1>5. QED
    BY <1>1, <1>4, OthersUnchanged DEF Next, vars, AppliedWhole

(* On a clean database every migration is applied whole and once, or not   *)
(* at all, in every state.                                                 *)
THEOREM WholeOrNotAtAll ==
  ASSUME DistinctVersions, Clean
  PROVE  Spec => []AppliedWhole
  <1>1. Init => CleanInv
    BY CleanInit
  <1>2. CleanInv /\ [Next]_vars => CleanInv'
    BY CleanStep
  <1>3. QED
    BY <1>1, <1>2, PTL DEF Spec, CleanInv

(* No data statement takes effect twice on a clean database.  That the     *)
(* database is clean is needed: the repair of a half-applied migration can *)
(* run one twice (run migrator_repair_race).                               *)
THEOREM OnceWhenClean ==
  ASSUME DistinctVersions, Clean
  PROVE  Spec => []AtMostOnce
  <1>1. AppliedWhole => AtMostOnce
    BY StmtsOfMigrations DEF AppliedWhole, AtMostOnce
  <1>2. QED
    BY <1>1, WholeOrNotAtAll, PTL

(***************************************************************************)
(* The safety core of HealthyNodesFinish: Run of a node whose migrations   *)
(* can all succeed is cut short by a crash or a lost message, or at a      *)
(* migration of which a statement that works only once has been run by     *)
(* someone else; nothing else that other nodes or an earlier release left  *)
(* in the database stops it.  On a clean database only faults do.          *)
(***************************************************************************)
HealthyFailsByFault ==
    [][\A n \in Nodes : Healthy(n) /\ pc[n] # "down" /\ pc'[n] = "down" =>
          \/ faults' = faults + 1
          \/ \E m \in Known[n] : IsNext(n, m) /\ OnceRun(m)]_vars
CleanFailsByFault ==
    [][\A n \in Nodes : Healthy(n) /\ pc[n] # "down" /\ pc'[n] = "down" =>
          faults' = faults + 1]_vars

LEMMA FailureOfHealthy ==
  ASSUME Inv, NEW n \in Nodes, Run(n) \/ Stop(n), Healthy(n), pc[n] # "down", pc'[n] = "down"
  PROVE  \/ faults' = faults + 1
         \/ \E m \in Known[n] :
               /\ IsNext(n, m) /\ OnceRun(m)
               /\ pc[n] = "repair" \/ Version[m] \notin versions
  <1> USE DEF Inv, TypeOK, Goto, Advance, Fault, Replied
  <1>1. ASSUME NEW m \in Migrations, IsNext(n, m)
        PROVE  m \in Known[n] /\ \A s \in Of(m) : Kind(s) # "bad"
    BY <1>1 DEF IsNext, Local, Healthy
  <1>2. ASSUME NEW m \in Migrations, ApplyFails(n, m)
        PROVE  m \in Known[n] /\ IsNext(n, m) /\ OnceRun(m) /\ Version[m] \notin versions
    BY <1>1, <1>2 DEF ApplyFails, FirstFailure, Fails, Refused, OnceRun, Taken
  <1>3. ASSUME NEW m \in Migrations, RepairFails(n, m)
        PROVE  m \in Known[n] /\ IsNext(n, m) /\ OnceRun(m) /\ pc[n] = "repair"
    BY <1>1, <1>3 DEF RepairFails, Refused, OnceRun
  <1>4. QED
    BY <1>2, <1>3 DEF Run, Stop, ReadVersions, Commit, VersionTaken, SchemaInPlace,
       RepairStatement, RecordVersion, Finish, Restart

LEMMA FailureOfActor ==
  ASSUME Inv, [Next]_vars, NEW n \in Nodes, pc[n] # "down", pc'[n] = "down"
  PROVE  Run(n) \/ Stop(n)
  <1>1. PICK o \in Nodes : Run(o) \/ Stop(o)
    BY DEF Next, vars
  <1>2. o # n => pc'[n] = pc[n]
    BY <1>1, OthersUnchanged DEF Inv
  <1>3. QED
    BY <1>1, <1>2

(* Such a node leaves Run by a crash, by a lost message, or at a statement *)
(* that works only once and has run.                                       *)
THEOREM OnlyFaultsStop ==
  ASSUME DistinctVersions
  PROVE  Spec => HealthyFailsByFault
  <1> DEFINE Step == \A n \in Nodes : Healthy(n) /\ pc[n] # "down" /\ pc'[n] = "down" =>
                        \/ faults' = faults + 1
                        \/ \E m \in Known[n] : IsNext(n, m) /\ OnceRun(m)
  <1>1. ASSUME Inv, [Next]_vars PROVE [Step]_vars
    BY <1>1, FailureOfActor, FailureOfHealthy
  <1>2. QED
    BY <1>1, Inductive, PTL DEF Spec, HealthyFailsByFault

(* On a clean database it leaves Run by a crash or a lost message only: no *)
(* other node's step stops it, whatever kinds of statements there are.     *)
THEOREM OnlyFaultsStopClean ==
  ASSUME DistinctVersions, Clean
  PROVE  Spec => CleanFailsByFault
  <1> DEFINE Step == \A n \in Nodes : Healthy(n) /\ pc[n] # "down" /\ pc'[n] = "down" =>
                        faults' = faults + 1
  <1>1. ASSUME Inv, CleanInv, [Next]_vars PROVE [Step]_vars
    <2> SUFFICES ASSUME NEW n \in Nodes, Healthy(n), pc[n] # "down", pc'[n] = "down"
                 PROVE  faults' = faults + 1
      OBVIOUS
    <2>1. ASSUME NEW m \in Known[n], OnceRun(m) PROVE Version[m] \in versions
      BY <1>1, <2>1, NodesAssumption DEF OnceRun, CleanInv, AppliedWhole
    <2>2. pc[n] # "repair"
      BY <1>1 DEF CleanInv
    <2>3. QED
      BY <1>1, <2>1, <2>2, FailureOfActor, FailureOfHealthy
  <1>2. Init => CleanInv
    BY CleanInit
  <1>3. CleanInv /\ [Next]_vars => CleanInv'
    BY CleanStep
  <1>4. QED
    BY <1>1, <1>2, <1>3, Inductive, PTL DEF Spec, CleanFailsByFault

(* A commit is the abstract step; nothing else touches the database.       *)
LEMMA StepRefines ==
  ASSUME Inv, CleanInv, [Next]_vars
  PROVE  [Atomic!Next]_<<versions, effect>>
  <1> USE DEF Inv, CleanInv, TypeOK
  <1>1. ASSUME NEW n \in Nodes, NEW m \in Migrations, Commit(n, m) PROVE Atomic!Apply(m)
    <2>1. Version[m] \notin versions /\ versions' = versions \union {Version[m]}
      BY <1>1 DEF Commit, Taken, Row
    <2>2. effect' = [s \in Stmts |-> IF s[1] = m THEN 1 ELSE effect[s]]
      <3>1. \A s \in Stmts : s[1] = m => Again(effect[s]) = 1
        BY <2>1, Bodies DEF AppliedWhole, Again, MaxEffect
      <3>2. QED
        BY <1>1, <3>1 DEF Commit, Executes
    <2>3. m \in Known[n] /\ \A k \in Known[n] : k < m => Version[k] \in versions
      <3>1. IsNext(n, m) /\ Running(n) /\ todo[n] \subseteq Known[n]
        BY <1>1 DEF Commit, Running, Local
      <3>2. \A k \in Known[n] : k < m => k \notin todo[n]
        BY <3>1, Indices, NodesAssumption DEF IsNext
      <3>3. QED
        BY <3>1, <3>2 DEF IsNext, Local
    <2>4. \E b \in {Known[i] : i \in Nodes} :
             m \in b /\ \A k \in b : k < m => Version[k] \in versions
      BY <2>3
    <2>5. QED
      BY <2>1, <2>2, <2>4 DEF Atomic!Apply, Atomic!Recorded
  <1>2. ASSUME NEW n \in Nodes, Run(n) \/ Stop(n), ~\E m \in Migrations : Commit(n, m)
        PROVE  UNCHANGED <<versions, effect>>
    <2>1. ASSUME NEW m \in Migrations PROVE ~RepairStatement(n, m) /\ ~RecordVersion(n, m)
      BY DEF RepairStatement, RecordVersion
    <2>2. QED
      BY <1>2, <2>1 DEF Run, ReadVersions, VersionTaken, SchemaInPlace, ApplyFails,
                        RepairFails, Finish, Restart, Stop
  <1>3. QED
    BY <1>1, <1>2 DEF Next, vars, Atomic!Next

LEMMA InitRefines ==
  ASSUME Clean, Init
  PROVE  Atomic!Init
  <1>1. PICK r \in 0..Len(Script) :
           /\ versions = {Version[m] : m \in 1..r}
           /\ effect = [s \in Stmts |->
                IF s[1] <= r \/ (s[1] = r + 1 /\ s[2] <= 0) THEN 1 ELSE 0]
    BY DEF Init, Clean
  <1>2. effect = [s \in Stmts |-> IF s[1] \in 1..r THEN 1 ELSE 0]
    <2>1. \A s \in Stmts : s[1] \in 1..Len(Script) /\ s[2] \in Nat /\ s[2] > 0
      BY StmtsOfMigrations, Bodies, Indices
    <2>2. QED
      BY <1>1, <2>1
  <1>3. 1..r \in SUBSET Migrations
    BY Indices
  <1>4. QED
    BY <1>1, <1>2, <1>3 DEF Atomic!Init

(* Run keeps the promise of its doc comment on a clean database: however   *)
(* the nodes race and fail, the database sees migrations applied one after *)
(* another, each whole, once, and in the order of a binary.                *)
THEOREM Refinement ==
  ASSUME DistinctVersions, Clean
  PROVE  Spec => AtomicSpec
  <1>1. Init => Atomic!Init /\ CleanInv /\ Inv
    BY InitRefines, CleanInit, InvInit
  <1>2. Inv /\ CleanInv /\ [Next]_vars => Inv' /\ CleanInv' /\ [Atomic!Next]_<<versions, effect>>
    BY StepRefines, CleanStep, InvStep
  <1>3. QED
    BY <1>1, <1>2, PTL DEF Spec, AtomicSpec, Atomic!Spec
=============================================================================
