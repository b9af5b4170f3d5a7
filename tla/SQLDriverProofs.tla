--------------------------- MODULE SQLDriverProofs ---------------------------
(***************************************************************************)
(* The driver's transactions are atomic and kept apart, for any number of  *)
(* users and connections.  Everything rests on one fact about the pointer  *)
(* to the active transaction: a connection in the pool has none, and one   *)
(* that is held has its holder's.                                          *)
(***************************************************************************)
EXTENDS SQLDriver, TLAPS

Pointers ==
    /\ \A c \in Conns : activeTx[c] # None =>
          owner[c] = activeTx[c] /\ call[activeTx[c]] = "open"
    /\ \A u \in Users, c \in Conns : owner[c] = u =>
          /\ call[u] # "idle"
          /\ call[u] = "open" => activeTx[c] = u
    /\ \A u \in Users, c, d \in Conns : owner[c] = u /\ owner[d] = u => c = d

(* An applied request is in the log.                                       *)
Recorded == \A r \in answered : \A i \in 1..Len(r) : InLog(r[i])

(* A buffered statement has been issued.                                   *)
Past == \A u \in Users : \A i \in 1..Len(stmts[u]) : stmts[u][i][2] <= issued[u]

Inv == TypeOK /\ Pointers

LEMMA InitInv == Init => Inv /\ Recorded /\ AckedApplied /\ Past /\ OwnStatements
  BY NoneAssumption, BoundsAssumption
  DEF Init, Inv, TypeOK, Pointers, Recorded, AckedApplied, Past, OwnStatements, Requests

LEMMA StepType == Inv /\ [Next]_vars => TypeOK'
  <1> SUFFICES ASSUME Inv, [Next]_vars PROVE TypeOK'
    OBVIOUS
  <1> USE NoneAssumption, BoundsAssumption
  <1> USE DEF Inv, TypeOK
  <1>1. ASSUME NEW u \in Users, NEW c \in Conns, Begin(u, c) PROVE TypeOK'
    BY <1>1 DEF Begin, Take, Goto, server, Requests
  <1>2. ASSUME NEW u \in Users, NEW c \in Conns, ExecBuffers(u, c) PROVE TypeOK'
    <2>1. PICK s \in Statements :
             /\ Issues(u, s)
             /\ stmts' = [stmts EXCEPT ![activeTx[c]] = Buffered(@, s)]
             /\ acked' = IF call[u] = "idle" THEN acked \union {s} ELSE acked
      BY <1>2 DEF ExecBuffers
    <2>2. stmts' \in [Users -> Requests]
      <3>1. activeTx[c] \in Users
        BY <1>2 DEF ExecBuffers
      <3>2. Buffered(stmts[activeTx[c]], s) \in Requests
        BY <3>1 DEF Buffered, Requests
      <3>3. QED
        BY <2>1, <3>1, <3>2
    <2>3. issued' \in [Users -> 0..MaxStmts]
      BY <2>1 DEF Issues
    <2>4. QED
      BY <1>2, <2>1, <2>2, <2>3 DEF ExecBuffers, server
  <1>3. ASSUME NEW u \in Users, NEW c \in Conns, ExecSends(u, c) PROVE TypeOK'
    <2>1. PICK s \in Statements : Issues(u, s) /\ Send(u, <<s>>)
      BY <1>3 DEF ExecSends
    <2>2. <<s>> \in Requests \ {<<>>}
      BY DEF Requests
    <2>3. issued' \in [Users -> 0..MaxStmts]
      BY <2>1 DEF Issues
    <2>4. net' \subseteq Requests \ {<<>>} /\ req' \in [Users -> Requests \union {None}]
      BY <2>1, <2>2 DEF Send
    <2>5. call' \in [Users -> {"idle", "open", "waiting"}]
      BY <2>1 DEF Send, Goto
    <2>6. QED
      BY <1>3, <2>3, <2>4, <2>5 DEF ExecSends, Take
  <1>4. ASSUME NEW u \in Users, NEW c \in Conns, CommitEmpty(u, c) PROVE TypeOK'
    BY <1>4 DEF CommitEmpty, ClearActive, Release, Goto, server
  <1>5. ASSUME NEW u \in Users, NEW c \in Conns, Commit(u, c) PROVE TypeOK'
    <2>1. stmts[u] \in Requests \ {<<>>}
      BY <1>5 DEF Commit
    <2>2. net' \subseteq Requests \ {<<>>} /\ req' \in [Users -> Requests \union {None}]
      BY <1>5, <2>1 DEF Commit, Send, Batch
    <2>3. stmts' \in [Users -> Requests]
      BY <1>5 DEF Commit, Requests
    <2>4. QED
      BY <1>5, <2>2, <2>3 DEF Commit, ClearActive, Send, Goto
  <1>6. ASSUME NEW u \in Users, NEW c \in Conns, Rollback(u, c) PROVE TypeOK'
    <2>1. stmts' \in [Users -> Requests]
      BY <1>6 DEF Rollback, Requests
    <2>2. QED
      BY <1>6, <2>1 DEF Rollback, ClearActive, Release, Goto, server
  <1>7. ASSUME NEW u \in Users, NEW c \in Conns,
               Succeeds(u, c) \/ Refused(u, c) \/ Unanswered(u, c)
        PROVE  TypeOK'
    <2>1. Finish(u, c)
      BY <1>7 DEF Succeeds, Refused, Unanswered
    <2>2. acked' \subseteq Statements
      <3>1. CASE Succeeds(u, c)
        <4>1. req[u] \in Seq(Statements)
          BY <3>1 DEF Succeeds, Requests
        <4>2. \A i \in 1..Len(req[u]) : req[u][i] \in Statements
          BY <4>1
        <4>3. QED
          BY <3>1, <4>2 DEF Succeeds
      <3>2. QED
        BY <1>7, <3>1 DEF Refused, Unanswered
    <2>3. faults' \in 0..MaxFaults
      BY <1>7 DEF Succeeds, Refused, Unanswered
    <2>4. QED
      BY <2>1, <2>2, <2>3 DEF Finish, Release, Goto, server
  <1>8. ASSUME NEW r \in net, Serve(r) \/ Refuse(r) PROVE TypeOK'
    <2>1. log' \in Requests
      <3>1. log \in Requests /\ r \in Requests
        OBVIOUS
      <3>2. log \o r \in Requests
        BY <3>1 DEF Requests
      <3>3. log' = log \o r \/ log' = log
        BY <1>8 DEF Serve, Refuse, Applied
      <3>4. QED
        BY <3>1, <3>2, <3>3
    <2>2. QED
      BY <1>8, <2>1 DEF Serve, Refuse
  <1>9. ASSUME UNCHANGED vars PROVE TypeOK'
    BY <1>9 DEF vars, server
  <1>10. QED
    BY <1>1, <1>2, <1>3, <1>4, <1>5, <1>6, <1>7, <1>8, <1>9 DEF Next, Operate

LEMMA StepPointers == Inv /\ [Next]_vars => Pointers'
  <1> SUFFICES ASSUME Inv, [Next]_vars PROVE Pointers'
    OBVIOUS
  <1> USE NoneAssumption
  <1> USE DEF Inv, TypeOK, Pointers
  <1>1. ASSUME NEW u \in Users, NEW c \in Conns, Begin(u, c) PROVE Pointers'
    BY <1>1 DEF Begin, Take, Goto
  <1>2. ASSUME NEW u \in Users, NEW c \in Conns, ExecBuffers(u, c) PROVE Pointers'
    BY <1>2 DEF ExecBuffers
  <1>3. ASSUME NEW u \in Users, NEW c \in Conns, ExecSends(u, c) PROVE Pointers'
    <2>1. call[u] = "idle" /\ owner[c] = None /\ activeTx[c] = None
      BY <1>3 DEF ExecSends, Has
    <2>2. call' = [call EXCEPT ![u] = "waiting"]
      BY <1>3 DEF ExecSends, Send, Goto
    <2>3. QED
      BY <1>3, <2>1, <2>2 DEF ExecSends, Take
  <1>4. ASSUME NEW u \in Users, NEW c \in Conns, CommitEmpty(u, c) PROVE Pointers'
    BY <1>4 DEF CommitEmpty, ClearActive, Release, Goto
  <1>5. ASSUME NEW u \in Users, NEW c \in Conns, Commit(u, c) PROVE Pointers'
    BY <1>5 DEF Commit, ClearActive, Send, Goto
  <1>6. ASSUME NEW u \in Users, NEW c \in Conns, Rollback(u, c) PROVE Pointers'
    BY <1>6 DEF Rollback, ClearActive, Release, Goto
  <1>7. ASSUME NEW u \in Users, NEW c \in Conns,
               Succeeds(u, c) \/ Refused(u, c) \/ Unanswered(u, c)
        PROVE  Pointers'
    <2>1. Finish(u, c)
      BY <1>7 DEF Succeeds, Refused, Unanswered
    <2>2. QED
      BY <2>1 DEF Finish, Release, Goto
  <1>8. ASSUME NEW r \in net, Serve(r) \/ Refuse(r) PROVE Pointers'
    BY <1>8 DEF Serve, Refuse
  <1>9. ASSUME UNCHANGED vars PROVE Pointers'
    BY <1>9 DEF vars, server
  <1>10. QED
    BY <1>1, <1>2, <1>3, <1>4, <1>5, <1>6, <1>7, <1>8, <1>9 DEF Next, Operate

LEMMA StepInv == Inv /\ [Next]_vars => Inv'
  BY StepType, StepPointers DEF Inv

(***************************************************************************)
(* Every variable keeps its type.                                          *)
(***************************************************************************)
THEOREM TypeCorrect == Spec => []TypeOK
  BY InitInv, StepInv, PTL DEF Spec, Inv

(* What is in the log stays there.                                         *)
LEMMA LogGrows ==
  ASSUME Inv, [Next]_vars, NEW s, InLog(s)
  PROVE  InLog(s)'
  <1>1. ASSUME NEW r \in net, Serve(r) PROVE InLog(s)'
    <2>1. log \in Requests /\ r \in Requests /\ log' = log \o r
      BY <1>1 DEF Inv, TypeOK, Serve, Applied
    <2>2. QED
      BY <2>1 DEF InLog, Requests
  <1>2. CASE UNCHANGED log
    BY <1>2 DEF InLog
  <1>3. QED
    BY <1>1, <1>2 DEF Next, Operate, vars, server, Begin, ExecBuffers, ExecSends, CommitEmpty,
      Commit, Rollback, Succeeds, Refused, Unanswered, Finish, Refuse

(* A request the database answers is in the log from then on.              *)
LEMMA StepRecorded == Inv /\ Recorded /\ [Next]_vars => Recorded'
  <1> SUFFICES ASSUME Inv, Recorded, [Next]_vars,
                      NEW r \in answered', NEW i \in 1..Len(r)
               PROVE  InLog(r[i])'
    BY DEF Recorded
  <1>1. CASE r \in answered
    BY <1>1, LogGrows DEF Recorded
  <1>2. CASE r \notin answered
    <2>1. r \in net /\ Serve(r)
      BY <1>2 DEF Next, Operate, vars, server, Begin, ExecBuffers, ExecSends, CommitEmpty,
        Commit, Rollback, Succeeds, Refused, Unanswered, Finish, Refuse, Serve
    <2>2. log \in Requests /\ r \in Requests /\ log' = log \o r
      BY <2>1 DEF Inv, TypeOK, Serve, Applied
    <2>3. log'[Len(log) + i] = r[i] /\ Len(log) + i \in 1..Len(log')
      BY <2>2 DEF Requests
    <2>4. QED
      BY <2>3 DEF InLog
  <1>3. QED
    BY <1>1, <1>2

(* Only the one who began a transaction adds to it: the connection of an   *)
(* active transaction is neither in the pool nor anybody else's.           *)
LEMMA Holder ==
  ASSUME Inv, NEW u \in Users, NEW c \in Conns, ExecBuffers(u, c)
  PROVE  activeTx[c] = u /\ call[u] = "open"
  BY NoneAssumption DEF Inv, TypeOK, Pointers, ExecBuffers, Has

LEMMA StepOwn ==
  Inv /\ Past /\ OwnStatements /\ [Next]_vars => Past' /\ OwnStatements'
  <1> SUFFICES ASSUME Inv, Past, OwnStatements, [Next]_vars
               PROVE  Past' /\ OwnStatements'
    OBVIOUS
  <1> DEFINE Cleared == \E u \in Users : stmts' = [stmts EXCEPT ![u] = <<>>]
  <1>1. CASE UNCHANGED <<stmts, issued>>
    BY <1>1 DEF Past, OwnStatements
  <1>2. CASE Cleared /\ UNCHANGED issued
    BY <1>2 DEF Inv, TypeOK, Past, OwnStatements
  <1>3. ASSUME NEW u \in Users, NEW c \in Conns, ExecBuffers(u, c)
        PROVE  Past' /\ OwnStatements'
    <2>1. PICK s \in Statements :
             Issues(u, s) /\ stmts' = [stmts EXCEPT ![u] = Append(@, s)]
      BY <1>3, Holder DEF ExecBuffers, Buffered
    <2>2. stmts[u] \in Seq(Statements) /\ issued[u] \in Nat
      BY BoundsAssumption DEF Inv, TypeOK, Requests
    <2>3. s[1] = u /\ s[2] = issued[u] + 1 /\ issued' = [issued EXCEPT ![u] = @ + 1]
      BY <2>1 DEF Issues
    <2>4. /\ stmts'[u] = Append(stmts[u], s)
          /\ \A v \in Users \ {u} : stmts'[v] = stmts[v] /\ issued'[v] = issued[v]
          /\ issued'[u] = issued[u] + 1
      BY <2>1, <2>3 DEF Inv, TypeOK
    <2>5. \A i \in 1..Len(stmts'[u]) :
             \/ i \in 1..Len(stmts[u]) /\ stmts'[u][i] = stmts[u][i]
             \/ i = Len(stmts[u]) + 1 /\ stmts'[u][i] = s
      BY <2>2, <2>4
    <2>6. \A i \in 1..Len(stmts[u]) : stmts[u][i] \in Users \X (1..MaxStmts)
      BY <2>2 DEF Statements
    <2>7. \A i \in 1..Len(stmts[u]) : stmts[u][i][2] \in Nat
      BY <2>6, BoundsAssumption
    <2>8. Past'
      <3> SUFFICES ASSUME NEW v \in Users, NEW i \in 1..Len(stmts'[v])
                   PROVE  stmts'[v][i][2] <= issued'[v]
        BY DEF Past
      <3>1. CASE v # u
        BY <3>1, <2>4 DEF Past
      <3>2. CASE v = u
        BY <3>2, <2>2, <2>3, <2>4, <2>5, <2>7 DEF Past
      <3>3. QED
        BY <3>1, <3>2
    <2>9. OwnStatements'
      <3> SUFFICES ASSUME NEW v \in Users, NEW i \in 1..Len(stmts'[v])
                   PROVE  /\ stmts'[v][i][1] = v
                          /\ \A j \in 1..Len(stmts'[v]) :
                                i < j => stmts'[v][i][2] < stmts'[v][j][2]
        BY DEF OwnStatements
      <3>1. CASE v # u
        BY <3>1, <2>4 DEF OwnStatements
      <3>2. CASE v = u
        <4>1. stmts'[u][i][1] = u
          BY <3>2, <2>3, <2>5 DEF OwnStatements
        <4>2. ASSUME NEW j \in 1..Len(stmts'[u]), i < j
              PROVE  stmts'[u][i][2] < stmts'[u][j][2]
          <5>1. i \in 1..Len(stmts[u]) /\ stmts'[u][i] = stmts[u][i]
            BY <4>2, <3>2, <2>2, <2>4, <2>5
          <5>2. CASE j \in 1..Len(stmts[u]) /\ stmts'[u][j] = stmts[u][j]
            BY <4>2, <5>1, <5>2 DEF OwnStatements
          <5>3. CASE stmts'[u][j] = s
            BY <5>1, <5>3, <2>2, <2>3, <2>7 DEF Past
          <5>4. QED
            BY <4>2, <5>2, <5>3, <2>5
        <4>3. QED
          BY <3>2, <4>1, <4>2
      <3>3. QED
        BY <3>1, <3>2
    <2>10. QED
      BY <2>8, <2>9
  <1>4. ASSUME NEW u \in Users, NEW c \in Conns, ExecSends(u, c)
        PROVE  Past' /\ OwnStatements'
    <2>1. issued' = [issued EXCEPT ![u] = @ + 1] /\ UNCHANGED stmts
      BY <1>4 DEF ExecSends, Issues
    <2>2. \A v \in Users : issued[v] \in Nat /\ issued[v] <= issued'[v]
      BY <2>1, BoundsAssumption DEF Inv, TypeOK
    <2>3. \A v \in Users : \A i \in 1..Len(stmts[v]) : stmts[v][i] \in Users \X (1..MaxStmts)
      BY DEF Inv, TypeOK, Requests, Statements
    <2>4. \A v \in Users : \A i \in 1..Len(stmts[v]) : stmts[v][i][2] \in 1..MaxStmts
      BY <2>3
    <2>5. \A v \in Users : issued'[v] \in Nat
      BY <2>1, BoundsAssumption DEF Inv, TypeOK
    <2>6. Past'
      <3> SUFFICES ASSUME NEW v \in Users, NEW i \in 1..Len(stmts[v])
                   PROVE  stmts[v][i][2] <= issued'[v]
        BY <2>1 DEF Past
      <3>1. stmts[v][i][2] <= issued[v] /\ stmts[v][i][2] \in 1..MaxStmts
        BY <2>4 DEF Past
      <3>2. QED
        BY <3>1, <2>2, <2>5
    <2>7. QED
      BY <2>1, <2>6 DEF OwnStatements
  <1>5. ASSUME NEW u \in Users, NEW c \in Conns,
               Begin(u, c) \/ Commit(u, c) \/ Rollback(u, c)
        PROVE  Cleared /\ UNCHANGED issued
    BY <1>5 DEF Begin, Commit, Rollback
  <1>6. ASSUME NEW u \in Users, NEW c \in Conns,
               \/ CommitEmpty(u, c)
               \/ Succeeds(u, c) \/ Refused(u, c) \/ Unanswered(u, c)
        PROVE  UNCHANGED <<stmts, issued>>
    BY <1>6 DEF CommitEmpty, Succeeds, Refused, Unanswered, Finish
  <1>7. ASSUME NEW r \in net, Serve(r) \/ Refuse(r)
        PROVE  UNCHANGED <<stmts, issued>>
    BY <1>7 DEF Serve, Refuse
  <1>8. QED
    BY <1>1, <1>2, <1>3, <1>4, <1>5, <1>6, <1>7 DEF Next, Operate, vars

LEMMA StepAcked ==
  Inv /\ Recorded /\ AckedApplied /\ [Next]_vars => AckedApplied'
  <1> SUFFICES ASSUME Inv, Recorded, AckedApplied, [Next]_vars, NEW s \in acked'
               PROVE  InLog(s)'
    BY DEF AckedApplied
  <1>1. CASE s \in acked
    BY <1>1, LogGrows DEF AckedApplied
  <1>2. CASE s \notin acked
    <2>1. ASSUME NEW u \in Users, NEW c \in Conns, ExecBuffers(u, c) PROVE FALSE
      BY <1>2, <2>1, Holder DEF ExecBuffers
    <2>2. ASSUME NEW u \in Users, NEW c \in Conns, Succeeds(u, c) PROVE InLog(s)'
      <3>1. InLog(s)
        BY <1>2, <2>2 DEF Succeeds, Recorded
      <3>2. QED
        BY <3>1, LogGrows
    <2>3. QED
      BY <1>2, <2>1, <2>2 DEF Next, Operate, vars, server, Begin, ExecSends, CommitEmpty,
        Commit, Rollback, Refused, Unanswered, Finish, Serve, Refuse
  <1>3. QED
    BY <1>1, <1>2

(***************************************************************************)
(* A caller told of a success finds its statements applied.                *)
(***************************************************************************)
THEOREM SuccessIsApplied == Spec => []AckedApplied
  BY InitInv, StepInv, StepRecorded, StepAcked, PTL DEF Spec

(***************************************************************************)
(* A transaction holds its own caller's statements only, in their order.   *)
(***************************************************************************)
THEOREM TransactionsApart == Spec => []OwnStatements
  BY InitInv, StepInv, StepOwn, PTL DEF Spec

(* What AtomicTransactions calls open: the buffers of the transactions     *)
(* whose callers have not ended them.                                      *)
Open == [u \in Users |-> IF call[u] = "open" THEN stmts[u] ELSE None]

LEMMA InitAtomic == Init => Transactions!Init
  BY DEF Init, Transactions!Init

LEMMA StepAtomic ==
  ASSUME Inv, Recorded, [Next]_vars
  PROVE  [Transactions!Next]_<<Open, net, log, acked>>
  <1> USE NoneAssumption
  <1>1. ASSUME NEW u \in Users, NEW c \in Conns, Begin(u, c)
        PROVE  Transactions!Begin(u)
    BY <1>1 DEF Begin, Goto, server, Inv, TypeOK, Transactions!Begin
  <1>2. ASSUME NEW u \in Users, NEW c \in Conns, ExecBuffers(u, c)
        PROVE  \E s \in Statements : Transactions!Issue(u, s)
    <2>1. activeTx[c] = u /\ call[u] = "open"
      BY <1>2, Holder
    <2>2. PICK s \in Statements : stmts' = [stmts EXCEPT ![u] = Append(@, s)]
      BY <1>2, <2>1 DEF ExecBuffers, Buffered
    <2>3. UNCHANGED <<call, net, log, acked>>
      BY <1>2, <2>1 DEF ExecBuffers, server
    <2>4. stmts[u] # None
      BY DEF Inv, TypeOK
    <2>5. Transactions!Issue(u, s)
      BY <2>1, <2>2, <2>3, <2>4 DEF Inv, TypeOK, Transactions!Issue
    <2>6. QED
      BY <2>5
  <1>3. ASSUME NEW u \in Users, NEW c \in Conns, ExecSends(u, c)
        PROVE  \E s \in Statements : Transactions!Submit(u, s)
    <2>1. call[u] = "idle"
      BY <1>3 DEF ExecSends, Has, Inv, Pointers
    <2>2. PICK s \in Statements : Send(u, <<s>>)
      BY <1>3 DEF ExecSends
    <2>3. UNCHANGED <<stmts, log, acked>>
      BY <1>3 DEF ExecSends
    <2>4. Transactions!Submit(u, s)
      BY <2>1, <2>2, <2>3 DEF Send, Goto, Inv, TypeOK, Transactions!Submit
    <2>5. QED
      BY <2>4
  <1>4. ASSUME NEW u \in Users, NEW c \in Conns, CommitEmpty(u, c) \/ Rollback(u, c)
        PROVE  Transactions!Forget(u)
    <2>1. call[u] = "open" /\ call' = [call EXCEPT ![u] = "idle"]
      BY <1>4 DEF CommitEmpty, Rollback, Goto
    <2>2. \A v \in Users \ {u} : stmts'[v] = stmts[v]
      BY <1>4 DEF CommitEmpty, Rollback, Inv, TypeOK
    <2>3. UNCHANGED <<net, log, acked>>
      BY <1>4 DEF CommitEmpty, Rollback, server
    <2>4. QED
      BY <2>1, <2>2, <2>3 DEF Inv, TypeOK, Transactions!Forget
  <1>5. ASSUME NEW u \in Users, NEW c \in Conns, Commit(u, c)
        PROVE  Transactions!Commit(u)
    <2>1. call[u] = "open" /\ call' = [call EXCEPT ![u] = "waiting"]
      BY <1>5 DEF Commit, Send, Goto
    <2>2. \A v \in Users \ {u} : stmts'[v] = stmts[v]
      BY <1>5 DEF Commit, Inv, TypeOK
    <2>3. net' = net \union {stmts[u]} /\ UNCHANGED <<log, acked>>
      BY <1>5 DEF Commit, Send, Batch
    <2>4. QED
      BY <2>1, <2>2, <2>3 DEF Inv, TypeOK, Transactions!Commit
  <1>6. ASSUME NEW u \in Users, NEW c \in Conns, Finish(u, c)
        PROVE  UNCHANGED <<Open, net, log>>
    BY <1>6 DEF Finish, Goto, server, Open, Inv, TypeOK
  <1>7. ASSUME NEW u \in Users, NEW c \in Conns, Succeeds(u, c)
        PROVE  Transactions!Acknowledge
    <2> DEFINE Told == {req[u][i] : i \in 1..Len(req[u])}
    <2>1. Told \in SUBSET Statements
      <3>1. req[u] \in Seq(Statements)
        BY <1>7 DEF Succeeds, Inv, TypeOK, Requests
      <3>2. QED
        BY <3>1
    <2>2. \A s \in Told : InLog(s)
      BY <1>7 DEF Succeeds, Recorded
    <2>3. acked' = acked \union Told /\ UNCHANGED <<Open, net, log>>
      BY <1>7, <1>6 DEF Succeeds
    <2>4. QED
      BY <2>1, <2>2, <2>3 DEF Transactions!Acknowledge, Transactions!InLog, InLog, Open
  <1>8. ASSUME NEW u \in Users, NEW c \in Conns, Refused(u, c) \/ Unanswered(u, c)
        PROVE  UNCHANGED <<Open, net, log, acked>>
    BY <1>8, <1>6 DEF Refused, Unanswered
  <1>9. ASSUME NEW r \in net, Serve(r)
        PROVE  Transactions!Apply(r)
    BY <1>9 DEF Serve, Applied, Transactions!Apply
  <1>10. ASSUME NEW r \in net, Refuse(r)
        PROVE  Transactions!Discard(r)
    BY <1>10 DEF Refuse, Transactions!Discard
  <1>11. CASE UNCHANGED vars
    BY <1>11 DEF vars, server, Open
  <1>12. QED
    BY <1>1, <1>2, <1>3, <1>4, <1>5, <1>7, <1>8, <1>9, <1>10, <1>11
    DEF Next, Operate, Transactions!Next

(***************************************************************************)
(* The driver is a database of atomic transactions, whichever connections  *)
(* the pool gives out, and whichever requests and answers are lost.        *)
(***************************************************************************)
THEOREM Refinement == Spec => AtomicSpec
  BY InitInv, StepInv, StepRecorded, InitAtomic, StepAtomic, PTL
  DEF Spec, AtomicSpec, Transactions!Spec, Open
=============================================================================
