------------------------------ MODULE AsyncRun ------------------------------
(***************************************************************************)
(* One asynchronous automation run: the app that accepts it (RunAsync and  *)
(* publishCompletion of async.go), the automation server's record of it    *)
(* (external), and the callers of WaitForRun (automation.go).              *)
(***************************************************************************)
EXTENDS Integers

CONSTANTS
    Waiters,     \* callers of WaitForRun
    WithPubSub,  \* those that pass UsePubSub
    Bounded,     \* those whose requests end, as do those of all who share their
                 \* token: the context has a deadline or the http.Client a
                 \* timeout, which http.DefaultClient, taken by New, has not
    MaxFaults    \* bound on crashes, lost calls and server errors

ASSUME WaitersAssumption ==
    WithPubSub \subseteq Waiters /\ Bounded \subseteq Waiters /\ MaxFaults \in Nat

VARIABLES
    status,    \* the run's status at the server
    announced, \* the server has put the completion on the channel
    delayed,   \* completions that timed out but may still reach the server
    app,       \* where the app's goroutine is
    outcome,   \* the status publishCompletion reports
    encodable, \* json.Marshal accepts the result
    attempt,   \* of publishCompletion
    failure,   \* why the last attempt failed
    waiter,    \* where each caller is in WaitForRun
    result,    \* the status of the run it returns
    hung,      \* the callers whose request is without an answer
    faults

run == <<status, announced, delayed>>
work == <<app, outcome, encodable, attempt, failure>>
waits == <<waiter, result, hung>>
vars == <<run, work, waits, faults>>

publishAttempts == 6
Final == {"completed", "failed"}

TypeOK ==
    /\ status \in {"pending", "running"} \union Final
    /\ announced \in BOOLEAN /\ encodable \in BOOLEAN
    /\ delayed \in Nat
    /\ app \in {"idle", "working", "publishing", "sleeping", "reported", "gaveup", "crashed"}
    /\ outcome \in {"none"} \union Final
    /\ attempt \in 1..publishAttempts
    /\ failure \in {"none", "passing", "refused", "encoding"}
    /\ waiter \in [Waiters -> {"start", "connecting", "subscribed", "polling", "ticking",
                               "returned", "error"}]
    /\ hung \subseteq Waiters
    /\ result \in [Waiters -> {"none", "pending", "running"} \union Final]
    /\ faults \in 0..MaxFaults

Init ==
    /\ status = "pending" /\ announced = FALSE /\ delayed = 0
    /\ app = "idle" /\ outcome = "none" /\ encodable = TRUE
    /\ attempt = 1 /\ failure = "none"
    /\ waiter = [w \in Waiters |-> "start"]
    /\ result = [w \in Waiters |-> "none"] /\ hung = {}
    /\ faults = 0

Fault == faults < MaxFaults /\ faults' = faults + 1
-----------------------------------------------------------------------------
(* Definitions whose comment starts with "Fault" are not the program: each *)
(* is the definition below it with a mistake, which some property refutes. *)

(* The server calls the app with a run id: RunAsync starts its goroutine.  *)
Accept ==
    /\ status = "pending"
    /\ status' = "running"
    /\ app' = "working"
    /\ UNCHANGED <<announced, delayed, outcome, encodable, attempt, failure, waits, faults>>

(* The work returns, with or without an error, or panics (runAsyncWork).   *)
WorkEnds ==
    /\ app = "working"
    /\ app' = "publishing"
    /\ outcome' \in Final
    /\ encodable' \in BOOLEAN
    /\ UNCHANGED <<run, attempt, failure, waits, faults>>

(* The server takes the first completion it gets (external).               *)
Record ==
    IF status \in Final
      THEN UNCHANGED <<status, announced>>
      ELSE status' = outcome /\ announced' = TRUE

Published ==
    /\ app = "publishing" /\ encodable
    /\ Record
    /\ app' = "reported"
    /\ UNCHANGED <<delayed, outcome, encodable, attempt, failure, waits, faults>>

(* Fault: one attempt too few.                                             *)
IsLastButOne(n) == n >= publishAttempts - 1
(* Fault: one attempt too many.                                            *)
IsPastLast(n) == n > publishAttempts
IsLast(n) == n = publishAttempts

(* publishCompletion after an attempt that failed for reason e.            *)
Retryable(e) == e \in {"passing", "encoding"}
AfterFailure(e) ==
    /\ failure' = e
    /\ app' = IF Retryable(e) /\ ~IsLast(attempt) THEN "sleeping" ELSE "gaveup"
    /\ UNCHANGED <<outcome, encodable, attempt, waits>>

(* A 5xx, a 429, no connection, or no reply within the 30 seconds: the     *)
(* server may have taken the completion, or have it still to come.         *)
PublishFails ==
    /\ app = "publishing" /\ encodable
    /\ Fault
    /\ \/ Record /\ UNCHANGED delayed
       \/ UNCHANGED run
       \/ delayed' = delayed + 1 /\ UNCHANGED <<status, announced>>
    /\ AfterFailure("passing")

(* Any other 4xx: the completion of a finished run, or a refused token.    *)
PublishRefused ==
    /\ app = "publishing" /\ encodable
    /\ IF status \in Final THEN UNCHANGED faults ELSE Fault
    /\ AfterFailure("refused")
    /\ UNCHANGED run

EncodeFails ==
    /\ app = "publishing" /\ ~encodable
    /\ AfterFailure("encoding")
    /\ UNCHANGED <<run, faults>>

BackoffEnds ==
    /\ app = "sleeping"
    /\ app' = "publishing"
    /\ attempt' = attempt + 1
    /\ UNCHANGED <<run, outcome, encodable, failure, waits, faults>>

LateArrival ==
    /\ delayed > 0
    /\ delayed' = delayed - 1
    /\ Record
    /\ UNCHANGED <<work, waits, faults>>

AppCrashes ==
    /\ app \in {"working", "publishing", "sleeping"}
    /\ Fault
    /\ app' = "crashed"
    /\ UNCHANGED <<run, outcome, encodable, attempt, failure, waits>>
-----------------------------------------------------------------------------
Goto(w, label) ==
    /\ waiter' = [waiter EXCEPT ![w] = label]
    /\ UNCHANGED <<run, work, hung>>

Return(w, s) ==
    /\ Goto(w, "returned")
    /\ result' = [result EXCEPT ![w] = s]
    /\ UNCHANGED faults

StartWait(w) ==
    /\ waiter[w] = "start"
    /\ Goto(w, IF w \in WithPubSub THEN "connecting" ELSE "polling")
    /\ UNCHANGED <<result, faults>>

(* Where a caller waits for an answer and looks at no timer: bearer may    *)
(* refresh the token before waitViaPubSub dials, and before GetRun's call. *)
Requesting(w) == waiter[w] \in {"connecting", "polling"}

Hangs(w) ==
    /\ Requesting(w) /\ w \notin hung
    /\ Fault
    /\ hung' = hung \union {w}
    /\ UNCHANGED <<run, work, waiter, result>>

(* It is answered after all, maybe never.                                  *)
LateAnswer(w) ==
    /\ w \in hung
    /\ hung' = hung \ {w}
    /\ UNCHANGED <<run, work, waiter, result, faults>>

(* The context or the http.Client ends the call: a refresh of the token is *)
(* given up, a poll is an error that WaitForRun returns.                   *)
CallEnds(w) ==
    /\ w \in hung /\ w \in Bounded
    /\ hung' = hung \ {w}
    /\ waiter' = [waiter EXCEPT ![w] = IF @ = "polling" THEN "error" ELSE @]
    /\ UNCHANGED <<run, work, result, faults>>

(* waitViaPubSub dials (for at most the HandshakeTimeout) and subscribes.  *)
Connects(w) ==
    /\ waiter[w] = "connecting" /\ w \notin hung
    /\ Goto(w, "subscribed")
    /\ UNCHANGED <<result, faults>>

(* Its callback gets the run's completion ...                              *)
CompletionArrives(w) ==
    /\ waiter[w] = "subscribed" /\ announced
    /\ Return(w, outcome)

(* ... or the timeout or the context ends it, and WaitForRun polls.        *)
PubSubEnds(w) ==
    /\ waiter[w] = "subscribed"
    /\ Goto(w, "polling")
    /\ UNCHANGED <<result, faults>>

(* Fault: a run that has not been started counts as over.                  *)
NotRunning(s) == s # "running"
IsOver(s) == s # "running" /\ s # "pending"

Poll(w) ==
    /\ waiter[w] = "polling" /\ w \notin hung
    /\ \/ IsOver(status) /\ Return(w, status)
       \/ ~IsOver(status) /\ Goto(w, "ticking") /\ UNCHANGED <<result, faults>>

PollFails(w) ==
    /\ waiter[w] = "polling" /\ w \notin hung
    /\ Fault
    /\ Goto(w, "error")
    /\ UNCHANGED result

Tick(w) ==
    /\ waiter[w] = "ticking"
    /\ Goto(w, "polling")
    /\ UNCHANGED <<result, faults>>

(* Fault: the deadline starts anew with every turn of the loop.            *)
NeverDue(w) == FALSE /\ Goto(w, "error") /\ UNCHANGED <<result, faults>>
(* The select of waitViaPoll takes the deadline or the context's end.      *)
Deadline(w) ==
    /\ waiter[w] = "ticking"
    /\ Goto(w, "error")
    /\ UNCHANGED <<result, faults>>
-----------------------------------------------------------------------------
Report ==
    \/ WorkEnds
    \/ Published
    \/ PublishFails
    \/ PublishRefused
    \/ EncodeFails
    \/ BackoffEnds

Wait(w) ==
    \/ Connects(w)
    \/ CompletionArrives(w)
    \/ PubSubEnds(w)
    \/ Poll(w)
    \/ Tick(w)
    \/ CallEnds(w)

Chance(w) ==
    \/ StartWait(w)
    \/ Hangs(w)
    \/ LateAnswer(w)
    \/ PollFails(w)

Next ==
    \/ Accept
    \/ Report
    \/ LateArrival
    \/ AppCrashes
    \/ \E w \in Waiters : Wait(w) \/ Deadline(w) \/ Chance(w)

Spec == Init /\ [][Next]_vars

(* The goroutine runs and the sleeps and timeouts of both sides end; a     *)
(* request that hangs is under no fairness, unless its caller is bounded.  *)
(* Once the deadline has passed it stays ready, and select picks at random *)
(* among what is ready at every turn of the loop: strong fairness.         *)
Fairness ==
    /\ WF_vars(Report)
    /\ \A w \in Waiters : WF_vars(Wait(w)) /\ SF_vars(Deadline(w))
FairSpec == Spec /\ Fairness
-----------------------------------------------------------------------------
(* A run WaitForRun returns is over, and its status is the one the app     *)
(* reported: whichever way it was learned, however many attempts, late     *)
(* arrivals and duplicates of the completion there were.                   *)
WaitersSeeOutcome ==
    \A w \in Waiters : waiter[w] = "returned" => outcome # "none" /\ result[w] = outcome

(* Fewer than six passing failures never keep the outcome of a finished    *)
(* work from the server (async.go:68-70), short of a crash or a refusal.   *)
Reported ==
    (app = "publishing" /\ encodable) ~>
       (status \in Final \/ app = "crashed" \/ failure = "refused")

(* WaitForRun comes back, whatever became of the run and however long each *)
(* request took, unless a request of a caller that has set no bound itself *)
(* hangs for good: waitViaPoll looks at its deadline between polls only,   *)
(* and waitViaPubSub after the token is refreshed.                         *)
WaitersEnd ==
    \A w \in Waiters :
       waiter[w] # "start" ~>
          (waiter[w] \in {"returned", "error"} \/ (w \notin Bounded /\ [](w \in hung)))
=============================================================================
