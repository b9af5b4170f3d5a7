---------------------------- MODULE BearerToken ----------------------------
(***************************************************************************)
(* The identity token shared by the copies of a client (bearer and         *)
(* refreshIdentity of client.go): goroutines send requests with it,        *)
(* refresh it with core under its mutex, and an app verifies what arrives  *)
(* on a clock of its own.  Core and the network are external.              *)
(***************************************************************************)
EXTENDS IdentityTokens

CONSTANTS
    Callers,   \* goroutines using copies of one client
    NoCaller,
    Life,      \* lifetime core gives a token
    MaxExpiry, \* the max claim core fixed
    MaxDelay,  \* longest a refresh or a request takes
    Drift,     \* how far the app's clock may be from the client's
    MaxClock   \* bound on the clock

ASSUME BearerAssumption ==
    /\ NoCaller \notin Callers
    /\ Life \in Nat /\ MaxExpiry \in Nat /\ MaxDelay \in Nat /\ Drift \in Nat /\ MaxClock \in Nat
    /\ 0 < Life /\ Life <= MaxExpiry
    /\ RefreshBefore + MaxDelay <= Life
    /\ MaxDelay + Drift <= RefreshBefore + Skew
    /\ Drift <= Skew

VARIABLES
    clock,   \* identityNow of the client, and of core
    drift,   \* the app's clock less the client's
    value,   \* bearerToken.value: [iat, exp, max]
    mu,      \* who holds bearerToken.mu
    caller,  \* where each goroutine is
    reply,   \* what core has answered to its refresh
    sent,    \* the token it sends
    failed,  \* its refresh has failed
    since,   \* how long its refresh or its request has taken
    verdict  \* what the app made of the token

btVars == <<clock, drift, value, mu, caller, reply, sent, failed, since, verdict>>

Lesser(a, b) == IF a <= b THEN a ELSE b
Minted(t) == [iat |-> t, exp |-> Lesser(t + Life, MaxExpiry), max |-> MaxExpiry]
Token == {Minted(t) : t \in 0..MaxClock}
NoToken == [iat |-> 0, exp |-> 0, max |-> 0]

BtInit ==
    /\ clock = 0 /\ drift \in (-Drift)..Drift
    /\ value = Minted(0)
    /\ mu = NoCaller
    /\ caller = [g \in Callers |-> "idle"]
    /\ reply = [g \in Callers |-> NoToken]
    /\ sent = [g \in Callers |-> NoToken]
    /\ failed = [g \in Callers |-> FALSE]
    /\ since = [g \in Callers |-> 0]
    /\ verdict = [g \in Callers |-> "none"]
-----------------------------------------------------------------------------
(* Fault: nothing is locked while a refresh is under way.                  *)
Unlocked(g) == TRUE
MuFree(g) == mu = NoCaller

Sends(g, t) ==
    /\ caller' = [caller EXCEPT ![g] = "sending"]
    /\ sent' = [sent EXCEPT ![g] = t]
    /\ since' = [since EXCEPT ![g] = 0]
    /\ verdict' = [verdict EXCEPT ![g] = "none"]

(* bearer with a token that is not due: locked and unlocked at once.       *)
SendAsItIs(g) ==
    /\ caller[g] = "idle" /\ MuFree(g) /\ ~Due(value, clock)
    /\ Sends(g, value)
    /\ failed' = [failed EXCEPT ![g] = FALSE]
    /\ UNCHANGED <<clock, drift, value, mu, reply>>

BeginRefresh(g) ==
    /\ caller[g] = "idle" /\ MuFree(g) /\ Due(value, clock)
    /\ mu' = g
    /\ caller' = [caller EXCEPT ![g] = "refreshing"]
    /\ reply' = [reply EXCEPT ![g] = NoToken]
    /\ since' = [since EXCEPT ![g] = 0]
    /\ UNCHANGED <<clock, drift, value, sent, failed, verdict>>

(* Core answers: it mints a token up to max.                               *)
CoreRefreshes(g) ==
    /\ caller[g] = "refreshing" /\ reply[g] = NoToken
    /\ reply' = [reply EXCEPT ![g] = Minted(clock)]
    /\ UNCHANGED <<clock, drift, value, mu, caller, sent, failed, since, verdict>>

EndRefresh(g) ==
    /\ caller[g] = "refreshing" /\ reply[g] # NoToken
    /\ value' = reply[g]
    /\ mu' = NoCaller
    /\ Sends(g, reply[g])
    /\ failed' = [failed EXCEPT ![g] = FALSE]
    /\ UNCHANGED <<clock, drift, reply>>

(* Refused, unreachable, undecodable or empty, or the answer is lost: the  *)
(* token goes out as it is and core decides.                               *)
RefreshFails(g) ==
    /\ caller[g] = "refreshing"
    /\ mu' = NoCaller
    /\ Sends(g, value)
    /\ failed' = [failed EXCEPT ![g] = TRUE]
    /\ UNCHANGED <<clock, drift, value, reply>>

(* The request reaches an app, which knows core's key and refuses legacy   *)
(* tokens.                                                                 *)
Reaches(g) ==
    /\ caller[g] = "sending"
    /\ caller' = [caller EXCEPT ![g] = "idle"]
    /\ verdict' = [verdict EXCEPT ![g] =
                      LifetimeFault(sent[g], [keys |-> {}, legacy |-> FALSE, hmac |-> NoKey],
                                    clock + drift)]
    /\ UNCHANGED <<clock, drift, value, mu, reply, sent, failed, since>>

Busy(g) == caller[g] # "idle"
ClockTicks ==
    /\ clock < MaxClock /\ clock' = clock + 1
    /\ \A g \in Callers : Busy(g) => since[g] < MaxDelay
    /\ since' = [g \in Callers |-> IF Busy(g) THEN since[g] + 1 ELSE since[g]]
    /\ UNCHANGED <<drift, value, mu, caller, reply, sent, failed, verdict>>

BtNext ==
    \/ \E g \in Callers :
          \/ SendAsItIs(g)
          \/ BeginRefresh(g)
          \/ CoreRefreshes(g)
          \/ EndRefresh(g)
          \/ RefreshFails(g)
          \/ Reaches(g)
    \/ ClockTicks

BtSpec == BtInit /\ [][BtNext]_btVars
-----------------------------------------------------------------------------
BtTypeOK ==
    /\ clock \in 0..MaxClock /\ drift \in (-Drift)..Drift
    /\ value \in Token
    /\ mu \in Callers \union {NoCaller}
    /\ caller \in [Callers -> {"idle", "refreshing", "sending"}]
    /\ reply \in [Callers -> Token \union {NoToken}]
    /\ sent \in [Callers -> Token \union {NoToken}]
    /\ failed \in [Callers -> BOOLEAN]
    /\ since \in [Callers -> 0..MaxDelay]
    /\ DOMAIN verdict = Callers

(* However slow the refreshes of several goroutines are, the client never  *)
(* goes back to a token that expires earlier (client.go:119-123).          *)
NeverOlder == [][value'.exp >= value.exp]_btVars

(* A token a minute from its expiry is refreshed first, so what the client *)
(* sends is not refused for its time by an app whose clock is within the   *)
(* bounds, unless the refresh failed or max was reached                    *)
(* (client.go:161-164).                                                    *)
SentInTime ==
    \A g \in Callers :
        verdict[g] # "none" => failed[g] \/ sent[g].exp = sent[g].max
=============================================================================
