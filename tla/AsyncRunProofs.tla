--------------------------- MODULE AsyncRunProofs ---------------------------
(***************************************************************************)
(* Theorems about AsyncRun for any number of waiters and faults.           *)
(***************************************************************************)
EXTENDS AsyncRun, TLAPS

Statuses == {"pending", "running"} \union Final

(* The outcome is fixed before anything can tell it to the server, and the *)
(* server holds nothing else.                                              *)
Inv ==
    /\ status \in Statuses /\ outcome \in {"none"} \union Final
    /\ delayed \in Nat
    /\ waiter \in [Waiters -> {"start", "connecting", "subscribed", "polling", "ticking",
                               "returned", "error"}]
    /\ result \in [Waiters -> {"none"} \union Statuses]
    /\ status = "pending" => app = "idle" /\ delayed = 0
    /\ app \in {"idle", "working"} => outcome = "none"
    /\ app \in {"publishing", "sleeping"} \/ delayed > 0 => outcome # "none"
    /\ status \in Final => status = outcome
    /\ announced = TRUE => status \in Final
    /\ WaitersSeeOutcome

LEMMA InvInit == Init => Inv
  BY DEF Init, Inv, Statuses, Final, WaitersSeeOutcome

LEMMA ReportStep ==
  ASSUME Inv, Accept \/ Report \/ LateArrival \/ AppCrashes
  PROVE  Inv'
  <1> USE DEF Inv, Statuses, Final, WaitersSeeOutcome, run, work, waits
  <1>1. CASE Accept
    BY <1>1 DEF Accept
  <1>2. CASE WorkEnds
    BY <1>2 DEF WorkEnds
  <1>3. CASE Published
    BY <1>3 DEF Published, Record
  <1>4. CASE PublishFails
    BY <1>4 DEF PublishFails, Record, AfterFailure, Fault
  <1>5. CASE PublishRefused
    BY <1>5 DEF PublishRefused, AfterFailure
  <1>6. CASE EncodeFails
    BY <1>6 DEF EncodeFails, AfterFailure
  <1>7. CASE BackoffEnds
    BY <1>7 DEF BackoffEnds
  <1>8. CASE LateArrival
    BY <1>8 DEF LateArrival, Record
  <1>9. CASE AppCrashes
    BY <1>9 DEF AppCrashes
  <1>10. QED
    BY <1>1, <1>2, <1>3, <1>4, <1>5, <1>6, <1>7, <1>8, <1>9 DEF Report

LEMMA WaiterStep ==
  ASSUME Inv, NEW w \in Waiters, Wait(w) \/ Deadline(w) \/ Chance(w)
  PROVE  Inv'
  <1> USE DEF Inv, Statuses, Final, WaitersSeeOutcome, run, work, Goto
  <1>1. CASE StartWait(w)
    BY <1>1 DEF StartWait
  <1>2. CASE CompletionArrives(w)
    BY <1>2 DEF CompletionArrives, Return
  <1>3. CASE PubSubEnds(w)
    BY <1>3 DEF PubSubEnds
  <1>4. CASE Poll(w)
    BY <1>4 DEF Poll, Return, IsOver
  <1>5. CASE Tick(w)
    BY <1>5 DEF Tick
  <1>6. CASE PollFails(w) \/ Deadline(w)
    BY <1>6 DEF PollFails, Deadline
  <1>7. CASE Connects(w)
    BY <1>7 DEF Connects
  <1>8. CASE Hangs(w) \/ LateAnswer(w)
    BY <1>8 DEF Hangs, LateAnswer
  <1>9. CASE CallEnds(w)
    BY <1>9 DEF CallEnds
  <1>10. QED
    BY <1>1, <1>2, <1>3, <1>4, <1>5, <1>6, <1>7, <1>8, <1>9 DEF Wait, Chance

LEMMA InvStep == Inv /\ [Next]_vars => Inv'
  <1>1. Inv /\ UNCHANGED vars => Inv'
    BY DEF Inv, WaitersSeeOutcome, vars, run, work, waits
  <1>2. QED
    BY <1>1, ReportStep, WaiterStep DEF Next

(* What WaitForRun returns is what the app reported, for any number of     *)
(* waiters and any losses, repetitions and late arrivals of the report.    *)
THEOREM OutcomeSeen == Spec => []WaitersSeeOutcome
  BY InvInit, InvStep, PTL DEF Spec, Inv
-----------------------------------------------------------------------------
(* A sleeping goroutine has an attempt left, which bounds their number.    *)
Typed == TypeOK /\ (app = "sleeping" => attempt < publishAttempts)

LEMMA TypedReport ==
  ASSUME Inv, Typed, Accept \/ Report \/ LateArrival \/ AppCrashes
  PROVE  Typed'
  <1> USE WaitersAssumption DEF Typed, TypeOK, Final, publishAttempts, run, work, waits
  <1>1. CASE Accept
    BY <1>1 DEF Accept
  <1>2. CASE WorkEnds
    BY <1>2 DEF WorkEnds
  <1>3. CASE Published
    BY <1>3 DEF Published, Record, Inv
  <1>4. CASE PublishFails
    <2>1. outcome \in Final
      BY <1>4 DEF PublishFails, Inv
    <2>2. status' \in {"pending", "running"} \union Final /\ announced' \in BOOLEAN
      BY <1>4, <2>1 DEF PublishFails, Record
    <2>3. delayed' \in Nat /\ faults' \in 0..MaxFaults
      BY <1>4 DEF PublishFails, Record, Fault
    <2>4. app' = IF attempt # publishAttempts THEN "sleeping" ELSE "gaveup"
      BY <1>4 DEF PublishFails, AfterFailure, Retryable, IsLast
    <2>5. failure' = "passing" /\ UNCHANGED <<outcome, encodable, attempt, waits>>
      BY <1>4 DEF PublishFails, AfterFailure
    <2>6. QED
      BY <2>2, <2>3, <2>4, <2>5
  <1>5. CASE PublishRefused
    BY <1>5 DEF PublishRefused, AfterFailure, Retryable, Fault
  <1>6. CASE EncodeFails
    BY <1>6 DEF EncodeFails, AfterFailure, Retryable, IsLast
  <1>7. CASE BackoffEnds
    BY <1>7 DEF BackoffEnds
  <1>8. CASE LateArrival
    <2>1. outcome \in Final
      BY <1>8 DEF LateArrival, Inv
    <2>2. status' \in {"pending", "running"} \union Final /\ announced' \in BOOLEAN
      BY <1>8, <2>1 DEF LateArrival, Record
    <2>3. delayed' \in Nat /\ UNCHANGED <<work, waits, faults>>
      BY <1>8 DEF LateArrival
    <2>4. QED
      BY <2>2, <2>3
  <1>9. CASE AppCrashes
    BY <1>9 DEF AppCrashes, Fault
  <1>10. QED
    BY <1>1, <1>2, <1>3, <1>4, <1>5, <1>6, <1>7, <1>8, <1>9 DEF Report

LEMMA TypedWaiter ==
  ASSUME Inv, Typed, NEW w \in Waiters, Wait(w) \/ Deadline(w) \/ Chance(w)
  PROVE  Typed'
  <1> USE WaitersAssumption DEF Typed, TypeOK, Final, run, work, Goto
  <1>1. CASE StartWait(w)
    BY <1>1 DEF StartWait
  <1>2. CASE CompletionArrives(w)
    BY <1>2 DEF CompletionArrives, Return
  <1>3. CASE PubSubEnds(w)
    BY <1>3 DEF PubSubEnds
  <1>4. CASE Poll(w)
    BY <1>4 DEF Poll, Return
  <1>5. CASE Tick(w)
    BY <1>5 DEF Tick
  <1>6. CASE PollFails(w) \/ Deadline(w)
    BY <1>6 DEF PollFails, Deadline, Fault
  <1>7. CASE Connects(w)
    BY <1>7 DEF Connects
  <1>8. CASE Hangs(w) \/ LateAnswer(w)
    BY <1>8 DEF Hangs, LateAnswer, Fault
  <1>9. CASE CallEnds(w)
    BY <1>9 DEF CallEnds
  <1>10. QED
    BY <1>1, <1>2, <1>3, <1>4, <1>5, <1>6, <1>7, <1>8, <1>9 DEF Wait, Chance

LEMMA TypedInit == Init => Typed
  <1>1. Init => announced \in BOOLEAN /\ encodable \in BOOLEAN
    BY Zenon DEF Init
  <1>2. Init => faults \in 0..MaxFaults /\ attempt \in 1..publishAttempts
    BY WaitersAssumption DEF Init, publishAttempts
  <1>3. QED
    BY <1>1, <1>2 DEF Init, Typed, TypeOK, Final

LEMMA TypedStep == Inv /\ Typed /\ [Next]_vars => Typed'
  <1>1. Typed /\ UNCHANGED vars => Typed'
    BY DEF Typed, TypeOK, vars, run, work, waits
  <1>2. QED
    BY <1>1, TypedReport, TypedWaiter DEF Next

(* Every variable keeps its type: in particular publishCompletion makes    *)
(* at most publishAttempts attempts, whatever answers it gets.             *)
THEOREM TypeCorrect == Spec => []TypeOK
  <1>1. Typed => TypeOK
    BY DEF Typed
  <1>2. QED
    BY InvInit, InvStep, TypedInit, TypedStep, <1>1, PTL DEF Spec
-----------------------------------------------------------------------------
(* Each attempt behind the goroutine cost a fault.                         *)
Spent ==
    /\ app \in {"idle", "working"} => attempt = 1
    /\ app = "publishing" /\ encodable = TRUE => faults >= attempt - 1
    /\ app = "sleeping" /\ encodable = TRUE => faults >= attempt

(* The goroutine is over, and what it had to tell can be encoded.          *)
Ended == app \in {"reported", "gaveup"} /\ encodable = TRUE
OutcomeDelivered ==
    Ended => status \in Final \/ failure = "refused" \/ faults >= publishAttempts

LEMMA SpentStep ==
  ASSUME Inv, Typed, Spent, OutcomeDelivered, [Next]_vars
  PROVE  Spent' /\ OutcomeDelivered'
  <1> USE WaitersAssumption
      DEF Inv, Typed, TypeOK, Spent, Ended, OutcomeDelivered, Statuses, Final, publishAttempts,
          run, work, waits
  <1>1. CASE Accept
    BY <1>1 DEF Accept
  <1>2. CASE WorkEnds
    BY <1>2 DEF WorkEnds
  <1>3. CASE Published
    BY <1>3 DEF Published, Record
  <1>4. CASE PublishFails
    <2>1. app = "publishing" /\ encodable = TRUE
      BY <1>4, Zenon DEF PublishFails
    <2>2. faults' = faults + 1 /\ faults \in Int /\ attempt' = attempt /\ encodable' = encodable
      BY <1>4 DEF PublishFails, Fault, AfterFailure
    <2>3. app' = IF attempt # publishAttempts THEN "sleeping" ELSE "gaveup"
      BY <1>4 DEF PublishFails, AfterFailure, Retryable, IsLast
    <2>4. QED
      BY <2>1, <2>2, <2>3
  <1>5. CASE PublishRefused
    BY <1>5 DEF PublishRefused, AfterFailure, Retryable, Fault
  <1>6. CASE EncodeFails
    <2>1. ~(encodable' = TRUE)
      BY <1>6, Zenon DEF EncodeFails, AfterFailure
    <2>2. app' \in {"sleeping", "gaveup"}
      BY <1>6 DEF EncodeFails, AfterFailure
    <2>3. QED
      BY <2>1, <2>2
  <1>7. CASE BackoffEnds
    BY <1>7 DEF BackoffEnds
  <1>8. CASE LateArrival
    BY <1>8 DEF LateArrival, Record
  <1>9. CASE AppCrashes
    BY <1>9 DEF AppCrashes, Fault
  <1>10. ASSUME NEW w \in Waiters, Wait(w) \/ Deadline(w) \/ Chance(w)
         PROVE  Spent' /\ OutcomeDelivered'
    <2>1. UNCHANGED <<run, work>> /\ (faults' = faults \/ faults' = faults + 1)
      BY <1>10 DEF Wait, Chance, StartWait, Connects, CompletionArrives, PubSubEnds, Poll, Tick,
                   CallEnds, Hangs, LateAnswer, PollFails, Deadline, Goto, Return, Fault
    <2>2. QED
      BY <2>1
  <1>11. CASE UNCHANGED vars
    BY <1>11 DEF vars
  <1>12. QED
    BY <1>1, <1>2, <1>3, <1>4, <1>5, <1>6, <1>7, <1>8, <1>9, <1>10, <1>11 DEF Next, Report

(* A goroutine that is over has got its outcome to the server, unless the  *)
(* server refused it or six calls failed in passing, whatever was late,    *)
(* repeated or lost: why fewer than six failures never lose an outcome.    *)
THEOREM OutcomeKept == Spec => []OutcomeDelivered
  <1>1. Init => Spent /\ OutcomeDelivered
    BY DEF Init, Spent, OutcomeDelivered, Ended
  <1>2. QED
    BY InvInit, InvStep, TypedInit, TypedStep, <1>1, SpentStep, PTL DEF Spec
=============================================================================
