------------------------------ MODULE Upstream ------------------------------
(***************************************************************************)
(* Upstream.Get (httputil/upstream.go): a request to a public service that *)
(* is tried again after a pause, while the caller's context may be         *)
(* cancelled at any time.  The service and its answers are external.       *)
(***************************************************************************)
EXTENDS Integers

CONSTANTS AttemptsAsked \* the values of Attempts, 0 for the default

ASSUME UpstreamAssumption == AttemptsAsked \subseteq Int

VARIABLES
    attempts,  \* how many tries there may be
    attempt,   \* the loop variable
    at,        \* "pausing", "trying" or "over"
    cancelled, \* the context is
    requests,  \* how many have been sent
    bodies,    \* responses whose body is open
    last,      \* the last failure: "none", "refused", "5xx" or "cancelled"
    result     \* "none", "response" or "UpstreamError"

upVars == <<attempts, attempt, at, cancelled, requests, bodies, last, result>>

Tries(n) == IF n <= 0 THEN 3 ELSE n

UpInit ==
    /\ \E n \in AttemptsAsked : attempts = Tries(n)
    /\ attempt = 0 /\ at = "trying" /\ cancelled = FALSE
    /\ requests = 0 /\ bodies = 0 /\ last = "none" /\ result = "none"
-----------------------------------------------------------------------------
Cancel ==
    /\ at # "over" /\ ~cancelled /\ cancelled' = TRUE
    /\ UNCHANGED <<attempts, attempt, at, requests, bodies, last, result>>

(* The pause before a try after the first: either case of the select may   *)
(* be taken when both are ready.                                           *)
PauseEnds ==
    /\ at = "pausing"
    /\ at' = "trying"
    /\ UNCHANGED <<attempts, attempt, cancelled, requests, bodies, last, result>>

PauseCancelled ==
    /\ at = "pausing" /\ cancelled
    /\ at' = "over" /\ result' = "UpstreamError" /\ last' = "cancelled"
    /\ UNCHANGED <<attempts, attempt, cancelled, requests, bodies>>

GoesOn == attempt + 1 < attempts

Failed(why) ==
    /\ last' = why
    /\ attempt' = attempt + 1
    /\ IF GoesOn THEN at' = "pausing" /\ UNCHANGED result
                 ELSE at' = "over" /\ result' = "UpstreamError"
    /\ UNCHANGED <<attempts, cancelled>>

(* A network error, or a context that is cancelled by now.                 *)
TryFails ==
    /\ at = "trying"
    /\ requests' \in IF cancelled THEN {requests, requests + 1} ELSE {requests + 1}
    /\ Failed(IF cancelled THEN "cancelled" ELSE "refused")
    /\ UNCHANGED bodies

(* Fault: the body of an answer that is not returned stays open.           *)
LeftOpen == bodies + 1
Closed5xx == bodies

Answers5xx ==
    /\ at = "trying"
    /\ requests' = requests + 1
    /\ bodies' = Closed5xx
    /\ Failed("5xx")

AnswersBelow500 ==
    /\ at = "trying"
    /\ requests' = requests + 1
    /\ bodies' = bodies + 1
    /\ at' = "over" /\ result' = "response"
    /\ UNCHANGED <<attempts, attempt, cancelled, last>>

UpNext ==
    \/ Cancel
    \/ PauseEnds
    \/ PauseCancelled
    \/ TryFails
    \/ Answers5xx
    \/ AnswersBelow500

UpSpec == UpInit /\ [][UpNext]_upVars
-----------------------------------------------------------------------------
(* Whatever mixture of failures, answers and a cancellation it meets, Get  *)
(* asks no more often than it may, gives up only after the last try or     *)
(* when it is cancelled, and leaves open only the body it returns          *)
(* (upstream.go:35-37).                                                    *)
GetEndsWell ==
    /\ requests <= attempts
    /\ bodies = IF result = "response" THEN 1 ELSE 0
    /\ result = "UpstreamError" => cancelled \/ requests = attempts
=============================================================================
