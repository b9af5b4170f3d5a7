------------------------------ MODULE PubSubWS ------------------------------
(***************************************************************************)
(* The WebSocket pub/sub client of pubsub_ws.go.  One chain of goroutines  *)
(* and timers (dial, resubscribe, readLoop, scheduleReconnect, timer) is   *)
(* handed on from each stage as its last act, so it is one process here,   *)
(* the connector; any number of application goroutines call the API.       *)
(* A section under ps.mu is one action; send keeps ps.mu while it writes,  *)
(* and Close writes without it, so a write is two actions.                 *)
(***************************************************************************)
EXTENDS Integers

CONSTANTS
    Callers,      \* goroutines that use the API (listener callbacks too)
    Channels, Consumers,
    Uses,         \* Uses[c]: the channels caller c subscribes and unsubscribes
    Nobody,       \* no one holds ps.mu
    Connector,    \* the chain of goroutines, as a holder of ps.mu
    None,         \* no subscription
    Keep,         \* in a message: leaves the subscriptions alone
    CapAttempt,   \* the attempt whose delay reaches maxReconnectInterval
    MaxFaults,    \* bound on failed dials and dropped connections
    MaxCalls      \* bound on API calls

ASSUME NamesAssumption ==
    /\ Nobody \notin Callers /\ Connector \notin Callers /\ Nobody # Connector
    /\ None \notin Consumers /\ Keep \notin Consumers /\ None # Keep
ASSUME BoundsAssumption ==
    /\ Uses \in [Callers -> SUBSET Channels]
    /\ CapAttempt \in Nat \ {0}
    /\ MaxFaults \in Nat /\ MaxCalls \in Nat

VARIABLES
    mu,        \* who holds ps.mu across actions
    conn,      \* ps.conn: the number of a connection, 0 for nil
    subs,      \* ps.subscriptions: the consumer of each channel
    attempts,  \* ps.reconnectAttempts
    closed,    \* ps.intentionalClose
    pc,        \* the stage of the connector
    built,     \* NewPubSubWS has returned
    cur,       \* the latest connection dialled
    up,        \* connection cur is usable
    left,      \* the subscriptions the connector has still to send on cur
    raced,     \* history: the channels whose latest call is at odds with what
               \* the connector had still to send when it was made
    overtaken, \* history: Close was called when the timer had already decided
               \* to connect, and that dial or its connection is not over yet
    step,      \* what each caller is doing
    msg,       \* the message it is sending ...
    to,        \* ... and the connection it read from ps.conn to send it on
    server,    \* the subscriptions the server holds on connection cur
    faults, calls

client == <<subs, closed, overtaken, calls>>
caller == <<step, msg, to>>
resend == <<left, raced>>
vars == <<mu, conn, attempts, pc, built, cur, up, resend, server, faults, client, caller>>

Subscription == Consumers \union {None}
Messages == [ch : Channels, sub : Subscription \union {Keep}]
Stages == {"connect", "dial", "resub", "write", "read", "sched", "timer", "done"}
Steps == {"idle", "send", "write", "close", "closing"}

TypeOK ==
    /\ mu \in Callers \union {Nobody, Connector}
    /\ conn \in Nat /\ cur \in Nat
    /\ subs \in [Channels -> Subscription]
    /\ server \in [Channels -> Subscription]
    /\ left \in [Channels -> Subscription]
    /\ raced \subseteq Channels
    /\ overtaken \in BOOLEAN
    /\ attempts \in 0..(CapAttempt - 1)
    /\ closed \in BOOLEAN /\ built \in BOOLEAN /\ up \in BOOLEAN
    /\ pc \in Stages
    /\ step \in [Callers -> Steps]
    /\ msg \in [Callers -> Messages \union {None}]
    /\ to \in [Callers -> Nat]
    /\ faults \in 0..MaxFaults /\ calls \in 0..MaxCalls

Nothing == [ch \in Channels |-> None]

Init ==
    /\ mu = Nobody /\ conn = 0 /\ cur = 0 /\ up = FALSE
    /\ subs = Nothing /\ server = Nothing /\ left = Nothing
    /\ attempts = 0 /\ closed = FALSE /\ built = FALSE
    /\ pc = "dial"
    /\ step = [c \in Callers |-> "idle"]
    /\ msg = [c \in Callers |-> None]
    /\ to = [c \in Callers |-> 0]
    /\ faults = 0 /\ calls = 0
    /\ raced = {} /\ overtaken = FALSE

-----------------------------------------------------------------------------
(* Definitions whose comment starts with "Fault" are not the program: each *)
(* is the definition below it with a mistake, which some property refutes. *)

(* A frame written to connection k reaches the server, if k is usable.     *)
Deliver(k, m) ==
    server' = IF up /\ k = cur /\ m.sub # Keep
                THEN [server EXCEPT ![m.ch] = m.sub] ELSE server

(* Fault: a new connection starts without the subscriptions.               *)
NoSnapshot == left' = Nothing
Snapshot == left' = subs

(* connect: the dial succeeds, then the section under ps.mu.  What happens *)
(* between the two is indistinguishable from before or after both.         *)
Connected ==
    /\ pc = "dial" /\ mu = Nobody
    /\ cur' = cur + 1 /\ conn' = cur + 1 /\ up' = TRUE
    /\ server' = Nothing
    /\ attempts' = 0
    /\ Snapshot /\ raced' = {}
    /\ pc' = "resub"
    /\ UNCHANGED <<mu, built, faults, client, caller>>

DialFails ==
    /\ pc = "dial"
    /\ faults < MaxFaults /\ faults' = faults + 1
    /\ pc' = "sched"
    /\ overtaken' = FALSE
    /\ UNCHANGED <<mu, conn, attempts, built, cur, up, resend, server, subs, closed, calls, caller>>

(* connect sends the snapshot's subscriptions, in no particular order.     *)
BeginResubscribe ==
    /\ pc = "resub" /\ left # Nothing
    /\ mu = Nobody /\ mu' = Connector
    /\ pc' = "write"
    /\ UNCHANGED <<conn, attempts, built, cur, up, resend, server, faults, client, caller>>

EndResubscribe ==
    /\ pc = "write"
    /\ \E ch \in Channels :
          /\ left[ch] # None
          /\ Deliver(cur, [ch |-> ch, sub |-> left[ch]])
          /\ left' = [left EXCEPT ![ch] = None]
    /\ mu' = Nobody
    /\ pc' = "resub"
    /\ UNCHANGED <<conn, attempts, built, cur, up, raced, faults, client, caller>>

StartReadLoop ==
    /\ pc = "resub" /\ left = Nothing
    /\ pc' = "read"
    /\ built' = TRUE
    /\ UNCHANGED <<mu, conn, attempts, cur, up, resend, server, faults, client, caller>>

(* The network or the server ends the connection; readLoop sees it later.  *)
Drop ==
    /\ up
    /\ faults < MaxFaults /\ faults' = faults + 1
    /\ up' = FALSE
    /\ UNCHANGED <<mu, conn, attempts, pc, built, cur, resend, server, client, caller>>

(* Fault: readLoop leaves ps.conn pointing to the dead connection.         *)
KeepConn == UNCHANGED conn
ClearConn == conn' = IF conn = cur THEN 0 ELSE conn

(* readLoop's deferred function, up to the emit of "disconnected".         *)
ReadLoopEnds ==
    /\ pc = "read" /\ ~up /\ mu = Nobody
    /\ ClearConn
    /\ pc' = IF closed THEN "done" ELSE "sched"
    /\ overtaken' = FALSE
    /\ UNCHANGED <<mu, attempts, built, cur, up, resend, server, faults, subs, closed, calls, caller>>

(* Fault: the attempt that reaches the cap is counted like the others.     *)
CountOn(n) == n
Counted(n) == IF n >= CapAttempt THEN 0 ELSE n

(* Fault: no timer is started at the cap.                                  *)
GivesUpAtCap == IF closed \/ attempts + 1 >= CapAttempt THEN "done" ELSE "timer"
AfterSchedule == IF closed THEN "done" ELSE "timer"

ScheduleReconnect ==
    /\ pc = "sched" /\ mu = Nobody
    /\ attempts' = IF closed THEN attempts ELSE Counted(attempts + 1)
    /\ pc' = AfterSchedule
    /\ built' = TRUE
    /\ UNCHANGED <<mu, conn, cur, up, resend, server, faults, client, caller>>

(* Fault: the timer's function does not look at intentionalClose.          *)
AlwaysDial == "connect"
AfterTimer == IF closed THEN "done" ELSE "connect"

(* The timer's function looks at intentionalClose under ps.mu ...          *)
TimerFires ==
    /\ pc = "timer" /\ mu = Nobody
    /\ pc' = AfterTimer
    /\ UNCHANGED <<mu, conn, attempts, built, cur, up, resend, server, faults, client, caller>>

(* ... and calls connect, which dials, after it has released ps.mu.        *)
StartDial ==
    /\ pc = "connect"
    /\ pc' = "dial"
    /\ UNCHANGED <<mu, conn, attempts, built, cur, up, resend, server, faults, client, caller>>

-----------------------------------------------------------------------------
(* A call of the API: the section under ps.mu in which it starts.          *)
Call(c) ==
    /\ built /\ step[c] = "idle" /\ mu = Nobody
    /\ calls < MaxCalls /\ calls' = calls + 1
    /\ UNCHANGED <<mu, attempts, pc, built, cur, up, left, server, faults>>

(* What it does next with the connection it saw in ps.conn, if any.        *)
Sends(c, m) ==
    IF conn = 0
      THEN UNCHANGED caller
      ELSE /\ step' = [step EXCEPT ![c] = "send"]
           /\ msg' = [msg EXCEPT ![c] = m]
           /\ to' = [to EXCEPT ![c] = conn]

(* Subscribe, and Unsubscribe with w = None.                               *)
SetSubscription(c, ch, w) ==
    /\ Call(c)
    /\ ch \in Uses[c]
    /\ subs' = [subs EXCEPT ![ch] = w]
    /\ raced' = IF left[ch] \in {None, w} THEN raced \ {ch} ELSE raced \union {ch}
    /\ Sends(c, [ch |-> ch, sub |-> w])
    /\ UNCHANGED <<conn, closed, overtaken>>

(* Publish and Ack.                                                        *)
Publish(c, ch) ==
    /\ Call(c)
    /\ Sends(c, [ch |-> ch, sub |-> Keep])
    /\ UNCHANGED <<conn, raced, subs, closed, overtaken>>

Close(c) ==
    /\ Call(c)
    /\ closed' = TRUE
    /\ overtaken' = (overtaken \/ pc \in {"connect", "dial"})
    /\ conn' = 0
    /\ IF conn = 0
         THEN UNCHANGED caller
         ELSE /\ step' = [step EXCEPT ![c] = "close"]
              /\ to' = [to EXCEPT ![c] = conn]
              /\ UNCHANGED msg
    /\ UNCHANGED <<raced, subs>>

Returns(c) ==
    /\ step' = [step EXCEPT ![c] = "idle"]
    /\ msg' = [msg EXCEPT ![c] = None]
    /\ to' = [to EXCEPT ![c] = 0]

(* Fault: send writes without taking ps.mu.                                *)
AnyTime == TRUE
MuFree == mu = Nobody

BeginSend(c) ==
    /\ step[c] = "send" /\ MuFree
    /\ mu' = c
    /\ step' = [step EXCEPT ![c] = "write"]
    /\ UNCHANGED <<conn, attempts, pc, built, cur, up, resend, server, faults, client, msg, to>>

EndSend(c) ==
    /\ step[c] = "write"
    /\ Deliver(to[c], msg[c])
    /\ mu' = Nobody
    /\ Returns(c)
    /\ UNCHANGED <<conn, attempts, pc, built, cur, up, resend, faults, client>>

(* Close writes the close frame outside ps.mu, then closes the connection. *)
BeginCloseFrame(c) ==
    /\ step[c] = "close"
    /\ step' = [step EXCEPT ![c] = "closing"]
    /\ UNCHANGED <<mu, conn, attempts, pc, built, cur, up, resend, server, faults, client, msg, to>>

(* Fault: Close leaves the connection to the server to close.              *)
LeaveOpen(k) == UNCHANGED up
CloseConn(k) == up' = (up /\ k # cur)

EndCloseFrame(c) ==
    /\ step[c] = "closing"
    /\ CloseConn(to[c])
    /\ Returns(c)
    /\ UNCHANGED <<mu, conn, attempts, pc, built, cur, resend, server, faults, client>>

-----------------------------------------------------------------------------
Connect ==
    \/ Connected
    \/ BeginResubscribe
    \/ EndResubscribe
    \/ StartReadLoop
    \/ ReadLoopEnds
    \/ ScheduleReconnect
    \/ TimerFires
    \/ StartDial

Proceed(c) ==
    \/ BeginSend(c)
    \/ EndSend(c)
    \/ BeginCloseFrame(c)
    \/ EndCloseFrame(c)

Invoke(c) ==
    \/ \E ch \in Channels, w \in Subscription : SetSubscription(c, ch, w)
    \/ \E ch \in Channels : Publish(c, ch)
    \/ Close(c)

Next ==
    \/ Connect
    \/ DialFails
    \/ Drop
    \/ \E c \in Callers : Proceed(c) \/ Invoke(c)

Spec == Init /\ [][Next]_vars

(* Goroutines and timers run, a dial ends within its HandshakeTimeout, and *)
(* a write ends: the peer reads, or TCP gives up.                          *)
Fairness == WF_vars(Connect) /\ \A c \in Callers : WF_vars(Proceed(c))
FairSpec == Spec /\ Fairness
-----------------------------------------------------------------------------
(* The connector reads on the connection calls are sent on, and channel    *)
(* ch has no call in progress.                                             *)
SettledOn(ch) ==
    /\ pc = "read" /\ up /\ conn = cur
    /\ \A c \in Callers : ch \in Uses[c] => step[c] = "idle"

(* Once things have settled the server holds each channel's subscription   *)
(* as the client does, for the same consumer, whichever calls raced with   *)
(* drops, dials and resubscription; only where the latest Subscribe or     *)
(* Unsubscribe came between the snapshot and the channel's turn may the    *)
(* two differ, and even there a subscribed channel has some subscription.  *)
SubscriptionsKept ==
    \A ch \in Channels : SettledOn(ch) =>
       /\ ch \notin raced => server[ch] = subs[ch]
       /\ subs[ch] # None => server[ch] # None

(* An unsubscribed channel is unsubscribed at the server once things have  *)
(* settled (pubsub_ws.go:144, the doc of Unsubscribe).                     *)
UnsubscribeHolds ==
    \A ch \in Channels : SettledOn(ch) /\ subs[ch] = None => server[ch] = None

(* Frames of send never interleave on a connection: not two callers', nor  *)
(* a caller's and the resubscription's.                                    *)
SendsExclusive ==
    /\ \A c, d \in Callers : step[c] = "write" /\ step[d] = "write" => c = d
    /\ \A c \in Callers : step[c] = "write" => pc # "write"

(* No two writes of any kind are under way on one connection: what the     *)
(* library requires and "thread-safe operation" says (pubsub_ws.go:15-16). *)
Writers == {c \in Callers : step[c] \in {"write", "closing"} /\ to[c] = cur /\ up}
OneWriter ==
    /\ \A c, d \in Writers : c = d
    /\ pc = "write" => Writers = {}

(* ps.conn never names a connection that nothing will read: it is nil or   *)
(* the latest connection, on its way to readLoop or in it.                 *)
ConnIsServed == conn # 0 => conn = cur /\ pc \in {"resub", "write", "read"}

(* Close disconnects (pubsub_ws.go:193): afterwards there is no connection.*)
ClosedIsDisconnected == closed => conn = 0

(* A closed client is dialling or connected only through the one dial that *)
(* the timer had decided on before Close ran; once that dial fails or its  *)
(* connection ends, no other follows, however timers and drops race with   *)
(* Close (the function scheduleReconnect starts, readLoop).                *)
OneLateDial == closed /\ (pc \in {"connect", "dial"} \/ conn # 0) => overtaken

(* Until it is closed the client always gets back to reading, and a closed *)
(* one stops for good unless the dial that Close raced with went through.  *)
Reconnects == []<>(closed \/ (pc = "read" /\ up))
StopsAfterClose == closed ~> (pc = "done" \/ conn # 0)
=============================================================================
