--------------------------- MODULE PubSubWSProofs ---------------------------
(***************************************************************************)
(* Theorems about PubSubWS for any number of goroutines, channels, faults  *)
(* and calls.                                                              *)
(***************************************************************************)
EXTENDS PubSubWS, TLAPS

LEMMA TypeInit == Init => TypeOK
  <1>1. /\ 0 \in Nat /\ 0 \in 0..(CapAttempt - 1)
        /\ 0 \in 0..MaxFaults /\ 0 \in 0..MaxCalls
    BY BoundsAssumption
  <1>2. Nothing \in [Channels -> Subscription]
    BY DEF Nothing, Subscription
  <1>3. /\ "dial" \in Stages
        /\ [c \in Callers |-> "idle"] \in [Callers -> Steps]
        /\ [c \in Callers |-> None] \in [Callers -> Messages \union {None}]
        /\ [c \in Callers |-> 0] \in [Callers -> Nat]
    BY DEF Stages, Steps
  <1>4. QED
    BY <1>1, <1>2, <1>3, Zenon DEF Init, TypeOK

LEMMA DeliverType ==
  ASSUME TypeOK, NEW k, NEW m \in Messages, Deliver(k, m)
  PROVE  server' \in [Channels -> Subscription]
  BY DEF TypeOK, Deliver, Messages

(* A message is at hand while it is being sent.                            *)
MsgInv == \A c \in Callers : step[c] \in {"send", "write"} => msg[c] \in Messages
TypeInv == TypeOK /\ MsgInv

LEMMA ConnectTypes ==
  ASSUME TypeInv, Connect \/ DialFails \/ Drop
  PROVE  TypeInv'
  <1> USE BoundsAssumption DEF TypeInv, TypeOK, MsgInv, Stages, client, caller, resend
  <1>1. CASE Connected
    BY <1>1 DEF Connected, Snapshot, Nothing, Subscription
  <1>2. CASE DialFails
    <2>1. faults' \in 0..MaxFaults
      BY <1>2 DEF DialFails
    <2>2. overtaken' \in BOOLEAN
      BY <1>2, Zenon DEF DialFails
    <2>3. QED
      BY <1>2, <2>1, <2>2, Zenon DEF DialFails
  <1>3. CASE BeginResubscribe
    BY <1>3 DEF BeginResubscribe
  <1>4. CASE EndResubscribe
    <2>1. PICK ch \in Channels :
             /\ left[ch] # None
             /\ Deliver(cur, [ch |-> ch, sub |-> left[ch]])
             /\ left' = [left EXCEPT ![ch] = None]
      BY <1>4 DEF EndResubscribe
    <2>2. [ch |-> ch, sub |-> left[ch]] \in Messages
      BY DEF Messages
    <2>3. server' \in [Channels -> Subscription]
      BY <2>1, <2>2, DeliverType
    <2>4. QED
      BY <1>4, <2>1, <2>3 DEF EndResubscribe, Subscription
  <1>5. CASE StartReadLoop
    BY <1>5 DEF StartReadLoop
  <1>6. CASE ReadLoopEnds
    BY <1>6 DEF ReadLoopEnds, ClearConn
  <1>7. CASE ScheduleReconnect
    BY <1>7 DEF ScheduleReconnect, Counted, AfterSchedule
  <1>8. CASE TimerFires \/ StartDial
    BY <1>8 DEF TimerFires, AfterTimer, StartDial
  <1>9. CASE Drop
    <2>1. faults' \in 0..MaxFaults
      BY <1>9 DEF Drop
    <2>2. up' \in BOOLEAN
      BY <1>9, Zenon DEF Drop
    <2>3. QED
      BY <1>9, <2>1, <2>2, Zenon DEF Drop
  <1>10. QED
    BY <1>1, <1>2, <1>3, <1>4, <1>5, <1>6, <1>7, <1>8, <1>9 DEF Connect

LEMMA SetSubscriptionTypes ==
  ASSUME TypeInv, NEW c \in Callers, NEW ch \in Channels, NEW w \in Subscription,
         SetSubscription(c, ch, w)
  PROVE  TypeInv'
  <1> USE BoundsAssumption DEF TypeInv, TypeOK, MsgInv, Steps, client, caller, resend
  <1>1. [ch |-> ch, sub |-> w] \in Messages
    BY DEF Messages
  <1>2. QED
    BY <1>1 DEF SetSubscription, Call, Sends

LEMMA CallerTypes ==
  ASSUME TypeInv, NEW c \in Callers, Proceed(c) \/ Invoke(c)
  PROVE  TypeInv'
  <1> USE BoundsAssumption DEF TypeInv, TypeOK, MsgInv, Steps, client, caller, resend
  <1>1. CASE BeginSend(c)
    BY <1>1 DEF BeginSend
  <1>2. CASE EndSend(c)
    <2>1. server' \in [Channels -> Subscription]
      BY <1>2, DeliverType DEF EndSend
    <2>2. QED
      BY <1>2, <2>1 DEF EndSend, Returns
  <1>3. CASE BeginCloseFrame(c)
    BY <1>3 DEF BeginCloseFrame
  <1>4. CASE EndCloseFrame(c)
    BY <1>4 DEF EndCloseFrame, CloseConn, Returns
  <1>5. ASSUME NEW ch \in Channels, Publish(c, ch) PROVE TypeInv'
    <2>1. [ch |-> ch, sub |-> Keep] \in Messages
      BY DEF Messages
    <2>2. QED
      BY <1>5, <2>1 DEF Publish, Call, Sends
  <1>6. CASE Close(c)
    BY <1>6 DEF Close, Call
  <1>7. QED
    BY <1>1, <1>2, <1>3, <1>4, <1>5, <1>6, SetSubscriptionTypes DEF Proceed, Invoke

LEMMA TypeStep == TypeInv /\ [Next]_vars => TypeInv'
  <1>1. ASSUME TypeInv, UNCHANGED vars PROVE TypeInv'
    BY <1>1 DEF TypeInv, TypeOK, MsgInv, vars, client, caller, resend
  <1>2. QED
    BY <1>1, ConnectTypes, CallerTypes DEF Next

(* Every field keeps its type: in particular the count of attempts never   *)
(* passes the attempt whose delay is the maximal one.                      *)
THEOREM TypeCorrect == Spec => []TypeOK
  <1>1. Init => TypeInv
    BY TypeInit DEF TypeInv, MsgInv, Init
  <1>2. QED
    BY <1>1, TypeStep, PTL DEF Spec, TypeInv

(***************************************************************************)
(* Who holds ps.mu while it writes, and what ps.conn can name.             *)
(***************************************************************************)
Holders ==
    /\ \A c \in Callers : step[c] = "write" => mu = c
    /\ pc = "write" => mu = Connector

LEMMA HoldersStep ==
  ASSUME TypeInv, Holders, [Next]_vars
  PROVE  Holders'
  <1> USE NamesAssumption DEF TypeInv, TypeOK, Holders, client, caller, resend
  <1>1. CASE Connect \/ DialFails \/ Drop
    BY <1>1 DEF Connect, Connected, DialFails, BeginResubscribe, EndResubscribe, StartReadLoop,
                ReadLoopEnds, ScheduleReconnect, AfterSchedule, TimerFires, AfterTimer,
                StartDial, Drop
  <1>2. ASSUME NEW c \in Callers, Proceed(c) PROVE Holders'
    BY <1>2 DEF Proceed, BeginSend, MuFree, EndSend, BeginCloseFrame, EndCloseFrame, Returns
  <1>3. ASSUME NEW c \in Callers, Invoke(c) PROVE Holders'
    BY <1>3 DEF Invoke, SetSubscription, Publish, Close, Call, Sends
  <1>4. CASE UNCHANGED vars
    BY <1>4 DEF vars
  <1>5. QED
    BY <1>1, <1>2, <1>3, <1>4 DEF Next

(* Frames of send never interleave: ps.mu is held for each of them.        *)
THEOREM SendsAlone == Spec => []SendsExclusive
  <1>1. Init => TypeInv /\ Holders
    BY TypeInit DEF TypeInv, MsgInv, Init, Holders
  <1>2. TypeInv /\ Holders /\ [Next]_vars => TypeInv' /\ Holders'
    BY TypeStep, HoldersStep
  <1>3. Holders => SendsExclusive
    BY NamesAssumption DEF Holders, SendsExclusive
  <1>4. QED
    BY <1>1, <1>2, <1>3, PTL DEF Spec

LEMMA ServedStep ==
  ASSUME TypeInv, ConnIsServed, [Next]_vars
  PROVE  ConnIsServed'
  <1> USE DEF TypeInv, TypeOK, ConnIsServed, client, caller, resend
  <1>1. CASE Connect \/ DialFails \/ Drop
    BY <1>1 DEF Connect, Connected, DialFails, BeginResubscribe, EndResubscribe, StartReadLoop,
                ReadLoopEnds, ClearConn, ScheduleReconnect, TimerFires, StartDial, Drop
  <1>2. ASSUME NEW c \in Callers, Proceed(c) \/ Invoke(c) PROVE ConnIsServed'
    BY <1>2 DEF Proceed, BeginSend, EndSend, BeginCloseFrame, EndCloseFrame,
                Invoke, SetSubscription, Publish, Close, Call
  <1>3. CASE UNCHANGED vars
    BY <1>3 DEF vars
  <1>4. QED
    BY <1>1, <1>2, <1>3 DEF Next

(* ps.conn is nil or names the latest connection, which readLoop is        *)
(* reading or about to read: no call is sent into a forgotten connection.  *)
THEOREM Served == Spec => []ConnIsServed
  <1>1. Init => TypeInv /\ ConnIsServed
    BY TypeInit DEF TypeInv, MsgInv, Init, ConnIsServed
  <1>2. TypeInv /\ ConnIsServed /\ [Next]_vars => TypeInv' /\ ConnIsServed'
    BY TypeStep, ServedStep
  <1>3. QED
    BY <1>1, <1>2, PTL DEF Spec

LEMMA LateDialStep ==
  ASSUME TypeInv, ConnIsServed, OneLateDial, [Next]_vars
  PROVE  OneLateDial'
  <1> USE DEF TypeInv, TypeOK, ConnIsServed, OneLateDial, client, caller, resend
  <1>1. CASE DialFails
    BY <1>1 DEF DialFails
  <1>2. CASE ReadLoopEnds
    BY <1>2 DEF ReadLoopEnds, ClearConn
  <1>3. CASE Connect /\ ~ReadLoopEnds
    <2>1. UNCHANGED <<closed, overtaken>>
      BY <1>3 DEF Connect, Connected, BeginResubscribe, EndResubscribe, StartReadLoop,
                  ScheduleReconnect, TimerFires, StartDial
    <2>2. pc' \in {"connect", "dial"} => closed = FALSE \/ pc \in {"connect", "dial"}
      BY <1>3 DEF Connect, Connected, BeginResubscribe, EndResubscribe, StartReadLoop,
                  ScheduleReconnect, AfterSchedule, TimerFires, AfterTimer, StartDial
    <2>3. conn' # 0 => conn # 0 \/ pc = "dial"
      BY <1>3 DEF Connect, Connected, BeginResubscribe, EndResubscribe, StartReadLoop,
                  ScheduleReconnect, TimerFires, StartDial
    <2>4. QED
      BY <2>1, <2>2, <2>3, Zenon DEF OneLateDial
  <1>4. CASE Drop
    BY <1>4 DEF Drop
  <1>5. ASSUME NEW c \in Callers, Proceed(c) PROVE OneLateDial'
    BY <1>5 DEF Proceed, BeginSend, EndSend, BeginCloseFrame, EndCloseFrame
  <1>6. ASSUME NEW c \in Callers, Invoke(c) PROVE OneLateDial'
    <2>1. CASE Close(c)
      BY <2>1 DEF Close, Call
    <2>2. QED
      BY <1>6, <2>1 DEF Invoke, SetSubscription, Publish, Call
  <1>7. CASE UNCHANGED vars
    BY <1>7 DEF vars
  <1>8. QED
    BY <1>1, <1>2, <1>3, <1>4, <1>5, <1>6, <1>7 DEF Next

(* A closed client dials or is connected only through the dial the timer   *)
(* had decided on before Close ran: Close cannot be followed by a second.  *)
THEOREM ClosedDialsOnce == Spec => []OneLateDial
  <1>1. Init => TypeInv /\ ConnIsServed /\ OneLateDial
    BY TypeInit DEF TypeInv, MsgInv, Init, ConnIsServed, OneLateDial
  <1>2. TypeInv /\ ConnIsServed /\ OneLateDial /\ [Next]_vars
           => TypeInv' /\ ConnIsServed' /\ OneLateDial'
    BY TypeStep, ServedStep, LateDialStep
  <1>3. QED
    BY <1>1, <1>2, PTL DEF Spec

(***************************************************************************)
(* Subscriptions survive: on the current connection each is at the server, *)
(* still to be sent by the connector, or being sent by its caller.         *)
(***************************************************************************)
OwnUses == \A c, d \in Callers : c # d => Uses[c] \cap Uses[d] = {}

Sending(c) == step[c] \in {"send", "write"} /\ msg[c].sub # Keep

(* A message that changes a subscription is its channel's user's, and the  *)
(* latest word of that user.                                               *)
LatestWord ==
    \A c \in Callers : Sending(c) =>
       msg[c].ch \in Uses[c] /\ msg[c].sub = subs[msg[c].ch]

OnItsWay(ch) == \E c \in Callers : Sending(c) /\ msg[c].ch = ch /\ to[c] = cur

NoneLost ==
    \A ch \in Channels : conn # 0 /\ up = TRUE /\ subs[ch] # None =>
       server[ch] # None \/ left[ch] # None \/ OnItsWay(ch)

Counts == /\ up = TRUE => cur > 0
          /\ pc = "read" => left = Nothing

KeptInv == TypeInv /\ ConnIsServed /\ LatestWord /\ NoneLost /\ Counts

LEMMA MessageFields ==
  \A m \in Messages : m.ch \in Channels /\ m.sub \in Subscription \union {Keep}
  BY DEF Messages

LEMMA LatestWordStep ==
  ASSUME OwnUses, KeptInv, [Next]_vars
  PROVE  LatestWord'
  <1> USE DEF KeptInv, TypeInv, TypeOK, LatestWord, Sending, client, caller, resend
  <1>1. CASE Connect \/ DialFails \/ Drop
    <2>1. UNCHANGED <<subs, step, msg>>
      BY <1>1 DEF Connect, Connected, DialFails, BeginResubscribe, EndResubscribe, StartReadLoop,
                  ReadLoopEnds, ScheduleReconnect, TimerFires, StartDial, Drop
    <2>2. QED
      BY <2>1
  <1>2. ASSUME NEW c \in Callers, Proceed(c) PROVE LatestWord'
    BY <1>2 DEF Proceed, BeginSend, EndSend, BeginCloseFrame, EndCloseFrame, Returns
  <1>3. ASSUME NEW c \in Callers, NEW ch \in Channels, NEW w \in Subscription,
               SetSubscription(c, ch, w)
        PROVE  LatestWord'
    <2> SUFFICES ASSUME NEW d \in Callers, Sending(d)'
                 PROVE  msg'[d].ch \in Uses[d] /\ msg'[d].sub = subs'[msg'[d].ch]
      OBVIOUS
    <2>1. subs' = [subs EXCEPT ![ch] = w] /\ ch \in Uses[c] /\ step[c] = "idle"
      BY <1>3 DEF SetSubscription, Call
    <2>2. CASE d = c
      BY <1>3, <2>1, <2>2 DEF SetSubscription, Sends
    <2>3. CASE d # c
      <3>1. step'[d] = step[d] /\ msg'[d] = msg[d]
        BY <1>3, <2>3 DEF SetSubscription, Sends
      <3>2. msg[d].ch \in Uses[d] /\ msg[d].sub = subs[msg[d].ch]
        BY <3>1
      <3>3. msg[d].ch # ch
        BY <2>1, <2>3, <3>2 DEF OwnUses
      <3>4. QED
        BY <2>1, <3>1, <3>2, <3>3, BoundsAssumption
    <2>4. QED
      BY <2>2, <2>3
  <1>4. ASSUME NEW c \in Callers, NEW ch \in Channels, Publish(c, ch) PROVE LatestWord'
    BY <1>4 DEF Publish, Call, Sends
  <1>5. ASSUME NEW c \in Callers, Close(c) PROVE LatestWord'
    BY <1>5 DEF Close, Call
  <1>6. CASE UNCHANGED vars
    BY <1>6 DEF vars
  <1>7. QED
    BY <1>1, <1>2, <1>3, <1>4, <1>5, <1>6 DEF Next, Invoke

LEMMA CountsStep ==
  ASSUME KeptInv, [Next]_vars
  PROVE  Counts'
  <1> USE DEF KeptInv, TypeInv, TypeOK, Counts, client, caller, resend
  <1>1. CASE Connected
    BY <1>1 DEF Connected
  <1>2. ASSUME NEW c \in Callers, EndCloseFrame(c) PROVE Counts'
    <2>1. UNCHANGED <<cur, pc, left>>
      BY <1>2 DEF EndCloseFrame
    <2>2. up' = TRUE => up = TRUE
      BY <1>2, Zenon DEF EndCloseFrame, CloseConn
    <2>3. QED
      BY <2>1, <2>2, Zenon
  <1>3. CASE UNCHANGED <<cur, up>> /\ (pc' = "read" => left' = Nothing)
    BY <1>3, Zenon
  <1>4. CASE Drop
    BY <1>4, Zenon DEF Drop
  <1>5. QED
    BY <1>1, <1>2, <1>3, <1>4
       DEF Next, vars, Connect, DialFails, BeginResubscribe, EndResubscribe, StartReadLoop,
           ReadLoopEnds, ScheduleReconnect, AfterSchedule, TimerFires, AfterTimer, StartDial,
           Proceed, BeginSend, EndSend, BeginCloseFrame,
           Invoke, SetSubscription, Publish, Close, Call

LEMMA NoneLostConnect ==
  ASSUME KeptInv, Connect \/ DialFails \/ Drop
  PROVE  NoneLost'
  <1> USE NamesAssumption
      DEF KeptInv, TypeInv, TypeOK, NoneLost, OnItsWay, Sending, client, caller, resend
  <1>1. CASE Connected
    BY <1>1 DEF Connected, Snapshot
  <1>2. CASE EndResubscribe
    <2>1. PICK ch \in Channels :
             /\ left[ch] # None
             /\ Deliver(cur, [ch |-> ch, sub |-> left[ch]])
             /\ left' = [left EXCEPT ![ch] = None]
      BY <1>2 DEF EndResubscribe
    <2>2. left[ch] # Keep
      BY <2>1 DEF Subscription
    <2>3. up = TRUE => server' = [server EXCEPT ![ch] = left[ch]]
      BY <2>1, <2>2, Zenon DEF Deliver
    <2>4. UNCHANGED <<conn, up, subs, step, msg, to, cur>>
      BY <1>2 DEF EndResubscribe
    <2>5. QED
      BY <2>1, <2>3, <2>4
  <1>3. CASE ReadLoopEnds
    BY <1>3 DEF ReadLoopEnds, ClearConn, ConnIsServed
  <1>4. CASE Drop
    BY <1>4, Zenon DEF Drop
  <1>5. CASE UNCHANGED <<conn, up, subs, server, left, step, msg, to, cur>>
    BY <1>5
  <1>6. QED
    BY <1>1, <1>2, <1>3, <1>4, <1>5
       DEF Connect, DialFails, BeginResubscribe, StartReadLoop, ScheduleReconnect,
           TimerFires, StartDial

LEMMA NoneLostSend ==
  ASSUME KeptInv, NEW c \in Callers, EndSend(c)
  PROVE  NoneLost'
  <1> USE NamesAssumption
      DEF KeptInv, TypeInv, TypeOK, MsgInv, NoneLost, OnItsWay, Sending, client, caller, resend
  <1> SUFFICES ASSUME NEW ch \in Channels, conn' # 0, up' = TRUE, subs'[ch] # None
               PROVE  server'[ch] # None \/ left'[ch] # None \/ OnItsWay(ch)'
    OBVIOUS
  <1>1. /\ UNCHANGED <<conn, up, cur, left, subs>>
        /\ step[c] = "write" /\ msg[c] \in Messages
        /\ \A d \in Callers : d # c => step'[d] = step[d] /\ msg'[d] = msg[d] /\ to'[d] = to[d]
    BY DEF EndSend, Returns
  <1>2. server' = IF to[c] = cur /\ msg[c].sub # Keep
                    THEN [server EXCEPT ![msg[c].ch] = msg[c].sub] ELSE server
    <2>1. up = TRUE
      BY <1>1
    <2>2. QED
      BY <2>1, Zenon DEF EndSend, Deliver
  <1>3. CASE msg[c].ch = ch /\ msg[c].sub # Keep /\ to[c] = cur
    <2>1. msg[c].sub = subs[ch]
      BY <1>1, <1>3 DEF LatestWord
    <2>2. QED
      BY <1>1, <1>2, <1>3, <2>1
  <1>4. CASE ~(msg[c].ch = ch /\ msg[c].sub # Keep /\ to[c] = cur)
    <2>1. server'[ch] = server[ch]
      BY <1>1, <1>2, <1>4, MessageFields
    <2>2. CASE OnItsWay(ch)
      <3>1. PICK d \in Callers : Sending(d) /\ msg[d].ch = ch /\ to[d] = cur
        BY <2>2
      <3>2. d # c
        BY <3>1, <1>4
      <3>3. QED
        BY <1>1, <3>1, <3>2
    <2>3. CASE ~OnItsWay(ch)
      BY <1>1, <2>1, <2>3
    <2>4. QED
      BY <2>2, <2>3
  <1>5. QED
    BY <1>3, <1>4

LEMMA NoneLostCall ==
  ASSUME KeptInv, NEW c \in Callers, Invoke(c)
  PROVE  NoneLost'
  <1> USE NamesAssumption
      DEF KeptInv, TypeInv, TypeOK, NoneLost, OnItsWay, Sending, client, caller, resend
  <1> SUFFICES ASSUME NEW k \in Channels, conn' # 0, up' = TRUE, subs'[k] # None
               PROVE  server'[k] # None \/ left'[k] # None \/ OnItsWay(k)'
    OBVIOUS
  <1>1. /\ UNCHANGED <<up, cur, left, server>> /\ step[c] = "idle"
        /\ \A d \in Callers : d # c => step'[d] = step[d] /\ msg'[d] = msg[d] /\ to'[d] = to[d]
    <2>1. UNCHANGED <<up, cur, left, server>> /\ step[c] = "idle"
      BY Zenon DEF Invoke, SetSubscription, Publish, Close, Call
    <2>2. \A d \in Callers : d # c => step'[d] = step[d] /\ msg'[d] = msg[d] /\ to'[d] = to[d]
      BY DEF Invoke, SetSubscription, Publish, Close, Sends
    <2>3. QED
      BY <2>1, <2>2
  <1>2. conn' = conn /\ conn = cur
    BY DEF Invoke, SetSubscription, Publish, Close, ConnIsServed
  <1>3. ASSUME OnItsWay(k) PROVE OnItsWay(k)'
    BY <1>1, <1>3
  <1>4. ASSUME NEW ch \in Channels, NEW w \in Subscription, SetSubscription(c, ch, w)
        PROVE  server'[k] # None \/ left'[k] # None \/ OnItsWay(k)'
    <2>1. CASE k = ch
      <3>1. subs'[k] = w /\ w \in Consumers
        BY <1>4, <2>1 DEF SetSubscription, Subscription
      <3>2. step'[c] = "send" /\ msg'[c] = [ch |-> ch, sub |-> w] /\ to'[c] = conn
        BY <1>2, <1>4 DEF SetSubscription, Sends
      <3>3. Sending(c)' /\ msg'[c].ch = k /\ to'[c] = cur'
        BY <1>1, <1>2, <2>1, <3>1, <3>2
      <3>4. QED
        BY <3>3
    <2>2. CASE k # ch
      <3>1. subs'[k] = subs[k]
        BY <1>4, <2>2 DEF SetSubscription
      <3>2. QED
        BY <1>1, <1>2, <1>3, <3>1
    <2>3. QED
      BY <2>1, <2>2
  <1>5. CASE UNCHANGED subs
    BY <1>1, <1>2, <1>3, <1>5
  <1>6. QED
    BY <1>4, <1>5 DEF Invoke, Publish, Close

LEMMA NoneLostStep ==
  ASSUME KeptInv, [Next]_vars
  PROVE  NoneLost'
  <1> USE DEF KeptInv, TypeInv, TypeOK, NoneLost, OnItsWay, Sending, client, caller, resend
  <1>1. ASSUME NEW c \in Callers, BeginSend(c) PROVE NoneLost'
    <2>1. \A d \in Callers : Sending(d)' <=> Sending(d)
      BY <1>1 DEF BeginSend
    <2>2. UNCHANGED <<conn, up, subs, server, left, msg, to, cur>>
      BY <1>1 DEF BeginSend
    <2>3. \A ch \in Channels : OnItsWay(ch)' <=> OnItsWay(ch)
      BY <2>1, <2>2
    <2>4. QED
      BY <2>2, <2>3
  <1>2. ASSUME NEW c \in Callers, BeginCloseFrame(c) PROVE NoneLost'
    <2>1. \A d \in Callers : Sending(d)' <=> Sending(d)
      BY <1>2 DEF BeginCloseFrame
    <2>2. UNCHANGED <<conn, up, subs, server, left, msg, to, cur>>
      BY <1>2 DEF BeginCloseFrame
    <2>3. \A ch \in Channels : OnItsWay(ch)' <=> OnItsWay(ch)
      BY <2>1, <2>2
    <2>4. QED
      BY <2>2, <2>3
  <1>3. ASSUME NEW c \in Callers, EndCloseFrame(c) PROVE NoneLost'
    <2>1. UNCHANGED <<conn, subs, server, left, cur>>
      BY <1>3 DEF EndCloseFrame
    <2>2. up' = TRUE => up = TRUE
      BY <1>3, Zenon DEF EndCloseFrame, CloseConn
    <2>3. \A d \in Callers : Sending(d) => Sending(d)' /\ UNCHANGED <<msg[d], to[d]>>
      BY <1>3 DEF EndCloseFrame, Returns
    <2>4. \A ch \in Channels : OnItsWay(ch) => OnItsWay(ch)'
      BY <2>1, <2>3
    <2>5. QED
      BY <2>1, <2>2, <2>4
  <1>4. CASE UNCHANGED vars
    BY <1>4 DEF vars
  <1>5. QED
    BY <1>1, <1>2, <1>3, <1>4, NoneLostConnect, NoneLostSend, NoneLostCall DEF Next, Proceed

(* A channel whose latest call did not race with its resubscription: what  *)
(* is still to be sent, being sent or at the server is what was asked for. *)
InForce ==
    \A ch \in Channels : ch \notin raced =>
       /\ left[ch] \in {None, subs[ch]}
       /\ conn # 0 /\ up = TRUE =>
             server[ch] = subs[ch] \/ left[ch] # None \/ OnItsWay(ch)

LEMMA InForceConnect ==
  ASSUME KeptInv, InForce, Connect \/ DialFails \/ Drop
  PROVE  InForce'
  <1> USE NamesAssumption
      DEF KeptInv, TypeInv, TypeOK, InForce, OnItsWay, Sending, client, caller, resend
  <1>1. CASE Connected
    BY <1>1 DEF Connected, Snapshot, Nothing
  <1>2. CASE EndResubscribe
    <2>1. PICK ch \in Channels :
             /\ left[ch] # None
             /\ Deliver(cur, [ch |-> ch, sub |-> left[ch]])
             /\ left' = [left EXCEPT ![ch] = None]
      BY <1>2 DEF EndResubscribe
    <2>2. left[ch] # Keep
      BY <2>1 DEF Subscription
    <2>3. up = TRUE => server' = [server EXCEPT ![ch] = left[ch]]
      BY <2>1, <2>2, Zenon DEF Deliver
    <2>4. UNCHANGED <<conn, up, subs, step, msg, to, cur, raced>>
      BY <1>2 DEF EndResubscribe
    <2>5. QED
      BY <2>1, <2>3, <2>4
  <1>3. CASE ReadLoopEnds
    BY <1>3 DEF ReadLoopEnds, ClearConn, ConnIsServed
  <1>4. CASE Drop
    BY <1>4, Zenon DEF Drop
  <1>5. CASE UNCHANGED <<conn, up, subs, server, left, step, msg, to, cur, raced>>
    BY <1>5
  <1>6. QED
    BY <1>1, <1>2, <1>3, <1>4, <1>5
       DEF Connect, DialFails, BeginResubscribe, StartReadLoop, ScheduleReconnect,
           TimerFires, StartDial

LEMMA InForceProceed ==
  ASSUME KeptInv, InForce, NEW c \in Callers, Proceed(c)
  PROVE  InForce'
  <1> USE NamesAssumption
      DEF KeptInv, TypeInv, TypeOK, MsgInv, InForce, OnItsWay, Sending, client, caller, resend
  <1>1. /\ UNCHANGED <<conn, cur, left, raced, subs>>
        /\ up' = TRUE => up = TRUE
        /\ \A d \in Callers : d # c => step'[d] = step[d] /\ msg'[d] = msg[d] /\ to'[d] = to[d]
    <2>1. up' = TRUE => up = TRUE
      BY Zenon DEF Proceed, BeginSend, EndSend, BeginCloseFrame, EndCloseFrame, CloseConn
    <2>2. QED
      BY <2>1 DEF Proceed, BeginSend, EndSend, BeginCloseFrame, EndCloseFrame, Returns
  <1>2. CASE EndSend(c)
    <2>1. SUFFICES ASSUME NEW k \in Channels, k \notin raced, conn # 0, up = TRUE, left[k] = None
                   PROVE  server'[k] = subs[k] \/ OnItsWay(k)'
      BY <1>1
    <2>2. step[c] = "write" /\ msg[c] \in Messages
      BY <1>2 DEF EndSend
    <2>3. server' = IF to[c] = cur /\ msg[c].sub # Keep
                      THEN [server EXCEPT ![msg[c].ch] = msg[c].sub] ELSE server
      BY <1>2, <2>1, Zenon DEF EndSend, Deliver
    <2>4. CASE msg[c].ch = k /\ msg[c].sub # Keep /\ to[c] = cur
      <3>1. msg[c].sub = subs[k]
        BY <2>2, <2>4 DEF LatestWord
      <3>2. QED
        BY <2>3, <2>4, <3>1
    <2>5. CASE ~(msg[c].ch = k /\ msg[c].sub # Keep /\ to[c] = cur)
      <3>1. server'[k] = server[k]
        BY <2>2, <2>3, <2>5, MessageFields
      <3>2. OnItsWay(k) => OnItsWay(k)'
        BY <1>1, <2>5
      <3>3. QED
        BY <2>1, <3>1, <3>2
    <2>6. QED
      BY <2>4, <2>5
  <1>3. CASE BeginSend(c) \/ BeginCloseFrame(c) \/ EndCloseFrame(c)
    <2>1. server' = server
      BY <1>3 DEF BeginSend, BeginCloseFrame, EndCloseFrame
    <2>2. Sending(c) => Sending(c)' /\ UNCHANGED <<msg[c], to[c]>>
      BY <1>3 DEF BeginSend, BeginCloseFrame, EndCloseFrame
    <2>3. \A k \in Channels : OnItsWay(k) => OnItsWay(k)'
      BY <1>1, <2>2
    <2>4. QED
      BY <1>1, <2>1, <2>3
  <1>4. QED
    BY <1>2, <1>3 DEF Proceed

LEMMA InForceCall ==
  ASSUME KeptInv, InForce, NEW c \in Callers, Invoke(c)
  PROVE  InForce'
  <1> USE NamesAssumption
      DEF KeptInv, TypeInv, TypeOK, InForce, OnItsWay, Sending, client, caller, resend
  <1>1. /\ UNCHANGED <<up, cur, left, server>> /\ step[c] = "idle"
        /\ conn' = conn \/ conn' = 0
        /\ \A d \in Callers : d # c => step'[d] = step[d] /\ msg'[d] = msg[d] /\ to'[d] = to[d]
    <2>1. UNCHANGED <<up, cur, left, server>> /\ step[c] = "idle"
      BY Zenon DEF Invoke, SetSubscription, Publish, Close, Call
    <2>2. QED
      BY <2>1 DEF Invoke, SetSubscription, Publish, Close, Sends
  <1>2. \A k \in Channels : OnItsWay(k) => OnItsWay(k)'
    BY <1>1
  <1>3. ASSUME NEW ch \in Channels, NEW w \in Subscription, SetSubscription(c, ch, w)
        PROVE  InForce'
    <2>1. /\ subs' = [subs EXCEPT ![ch] = w] /\ conn' = conn
          /\ raced' = IF left[ch] \in {None, w} THEN raced \ {ch} ELSE raced \union {ch}
      BY <1>3 DEF SetSubscription
    <2>2. ASSUME conn # 0 PROVE OnItsWay(ch)'
      <3>1. step'[c] = "send" /\ msg'[c] = [ch |-> ch, sub |-> w] /\ to'[c] = conn
        BY <1>3, <2>2 DEF SetSubscription, Sends
      <3>2. conn = cur /\ w # Keep
        BY <2>2 DEF ConnIsServed, Subscription
      <3>3. QED
        BY <1>1, <3>1, <3>2
    <2>3. \A k \in Channels \ {ch} :
             subs'[k] = subs[k] /\ (k \in raced' <=> k \in raced)
      BY <2>1
    <2>4. subs'[ch] = w /\ (ch \notin raced' => left[ch] \in {None, w})
      BY <2>1
    <2>5. QED
      BY <1>1, <1>2, <2>1, <2>2, <2>3, <2>4
  <1>4. CASE UNCHANGED <<subs, raced>>
    BY <1>1, <1>2, <1>4
  <1>5. QED
    BY <1>3, <1>4 DEF Invoke, Publish, Close

(* If every channel is the business of one goroutine, a subscription is    *)
(* never lost, and whenever things settle the server holds the one the     *)
(* client last asked for, unless that call and the resubscription raced.   *)
THEOREM Kept ==
  ASSUME OwnUses
  PROVE  Spec => []SubscriptionsKept
  <1>1. Init => KeptInv /\ InForce
    <2> SUFFICES ASSUME Init PROVE KeptInv /\ InForce
      OBVIOUS
    <2>1. TypeInv
      BY TypeInit DEF TypeInv, MsgInv, Init
    <2>2. ConnIsServed /\ LatestWord /\ NoneLost /\ Counts /\ InForce
      BY DEF Init, ConnIsServed, LatestWord, Sending, NoneLost, Counts, InForce, Nothing
    <2>3. QED
      BY <2>1, <2>2 DEF KeptInv
  <1>2. KeptInv /\ [Next]_vars => KeptInv'
    BY TypeStep, ServedStep, LatestWordStep, NoneLostStep, CountsStep DEF KeptInv
  <1>3. KeptInv /\ InForce /\ [Next]_vars => InForce'
    <2>1. InForce /\ UNCHANGED vars => InForce'
      BY DEF InForce, OnItsWay, Sending, vars, client, caller, resend
    <2>2. QED
      BY <2>1, InForceConnect, InForceProceed, InForceCall DEF Next
  <1>4. KeptInv /\ InForce => SubscriptionsKept
    <2> SUFFICES ASSUME KeptInv, InForce, NEW ch \in Channels, SettledOn(ch)
                 PROVE  /\ ch \notin raced => server[ch] = subs[ch]
                        /\ subs[ch] # None => server[ch] # None
      BY DEF SubscriptionsKept
    <2>1. up = TRUE
      BY Zenon DEF SettledOn, KeptInv, TypeInv, TypeOK
    <2>2. conn # 0 /\ left[ch] = None
      BY <2>1 DEF SettledOn, KeptInv, Counts, Nothing, TypeInv, TypeOK
    <2>3. ~OnItsWay(ch)
      BY DEF OnItsWay, SettledOn, KeptInv, LatestWord, Sending
    <2>4. QED
      BY <2>1, <2>2, <2>3 DEF KeptInv, NoneLost, InForce
  <1>5. QED
    BY <1>1, <1>2, <1>3, <1>4, PTL DEF Spec

(***************************************************************************)
(* Where Close is what breaks a promise: until then it holds.              *)
(***************************************************************************)
NoCloseFrame == closed \/ \A c \in Callers : step[c] \notin {"close", "closing"}

LEMMA NoCloseFrameStep ==
  ASSUME TypeInv, NoCloseFrame, [Next]_vars
  PROVE  NoCloseFrame'
  <1> USE DEF TypeInv, TypeOK, NoCloseFrame, client, caller, resend
  <1>1. CASE Connect \/ DialFails \/ Drop
    BY <1>1 DEF Connect, Connected, DialFails, BeginResubscribe, EndResubscribe, StartReadLoop,
                ReadLoopEnds, ScheduleReconnect, TimerFires, StartDial, Drop
  <1>2. ASSUME NEW c \in Callers, Proceed(c) PROVE NoCloseFrame'
    BY <1>2 DEF Proceed, BeginSend, EndSend, BeginCloseFrame, EndCloseFrame, Returns
  <1>3. ASSUME NEW c \in Callers, Invoke(c) PROVE NoCloseFrame'
    BY <1>3 DEF Invoke, SetSubscription, Publish, Close, Call, Sends
  <1>4. CASE UNCHANGED vars
    BY <1>4 DEF vars
  <1>5. QED
    BY <1>1, <1>2, <1>3, <1>4 DEF Next

(* Until somebody calls Close no two writes meet on a connection, whatever *)
(* goroutines, drops and resubscriptions there are: the close frame is the *)
(* only write that ps.mu does not guard.                                   *)
THEOREM OneWriterTillClose == Spec => [](closed \/ OneWriter)
  <1>1. Init => TypeInv /\ Holders /\ NoCloseFrame
    BY TypeInit DEF TypeInv, MsgInv, Init, Holders, NoCloseFrame
  <1>2. TypeInv /\ Holders /\ NoCloseFrame /\ [Next]_vars
          => TypeInv' /\ Holders' /\ NoCloseFrame'
    BY TypeStep, HoldersStep, NoCloseFrameStep
  <1>3. Holders /\ NoCloseFrame => closed \/ OneWriter
    <2> SUFFICES ASSUME Holders, NoCloseFrame, ~closed PROVE OneWriter
      OBVIOUS
    <2>1. \A c \in Writers : mu = c /\ c \in Callers
      BY DEF Holders, NoCloseFrame, Writers
    <2>2. QED
      BY <2>1, NamesAssumption DEF Holders, OneWriter
  <1>4. QED
    BY <1>1, <1>2, <1>3, PTL DEF Spec

(* Close has returned a client to rest: nothing is connected or dialled.   *)
Shut == closed /\ conn = 0 /\ pc \notin {"connect", "dial"}

(* A client that was closed while it was not dialling stays disconnected   *)
(* for good: only a dial that Close raced with can connect it again.       *)
THEOREM ShutForGood == Spec => [](Shut => []ClosedIsDisconnected)
  <1>1. Shut /\ [Next]_vars => Shut'
    <2> SUFFICES ASSUME Shut, [Next]_vars PROVE Shut'
      OBVIOUS
    <2> USE DEF Shut, client, caller, resend
    <2>1. CASE Connect \/ DialFails \/ Drop
      BY <2>1 DEF Connect, Connected, DialFails, BeginResubscribe, EndResubscribe,
                  StartReadLoop, ReadLoopEnds, ClearConn, ScheduleReconnect, AfterSchedule,
                  TimerFires, AfterTimer, StartDial, Drop
    <2>2. ASSUME NEW c \in Callers, Proceed(c) \/ Invoke(c) PROVE Shut'
      BY <2>2 DEF Proceed, BeginSend, EndSend, BeginCloseFrame, EndCloseFrame,
                  Invoke, SetSubscription, Publish, Close, Call
    <2>3. CASE UNCHANGED vars
      BY <2>3 DEF vars
    <2>4. QED
      BY <2>1, <2>2, <2>3 DEF Next
  <1>2. Shut => ClosedIsDisconnected
    BY DEF Shut, ClosedIsDisconnected
  <1>3. QED
    BY <1>1, <1>2, PTL DEF Spec

(***************************************************************************)
(* Where the resubscription is what breaks Unsubscribe: it sends the       *)
(* snapshot connect took, whatever has been unsubscribed since.            *)
(***************************************************************************)
UnsubscribesUnsent ==
    \A ch \in Channels : subs[ch] # None /\ subs'[ch] = None => left[ch] = None
(* No Unsubscribe of a channel that a resubscription has still to send.    *)
UnsubscribesApart == [][UnsubscribesUnsent]_vars

NoneStray ==
    /\ \A ch \in Channels : left[ch] # None => subs[ch] # None
    /\ \A ch \in Channels : conn # 0 /\ up = TRUE /\ subs[ch] = None =>
          server[ch] = None \/ OnItsWay(ch)

LEMMA NoneStrayConnect ==
  ASSUME KeptInv, NoneStray, Connect \/ DialFails \/ Drop
  PROVE  NoneStray'
  <1> USE NamesAssumption
      DEF KeptInv, TypeInv, TypeOK, NoneStray, OnItsWay, Sending, client, caller, resend
  <1>1. CASE Connected
    BY <1>1 DEF Connected, Snapshot, Nothing
  <1>2. CASE EndResubscribe
    <2>1. PICK ch \in Channels :
             /\ left[ch] # None
             /\ Deliver(cur, [ch |-> ch, sub |-> left[ch]])
             /\ left' = [left EXCEPT ![ch] = None]
      BY <1>2 DEF EndResubscribe
    <2>2. \A k \in Channels \ {ch} : server'[k] = server[k]
      <3>1. server' \in {server, [server EXCEPT ![ch] = left[ch]]}
        BY <2>1, Zenon DEF Deliver
      <3>2. QED
        BY <3>1
    <2>3. UNCHANGED <<conn, up, subs, step, msg, to, cur>>
      BY <1>2 DEF EndResubscribe
    <2>4. QED
      BY <2>1, <2>2, <2>3
  <1>3. CASE ReadLoopEnds
    BY <1>3 DEF ReadLoopEnds, ClearConn, ConnIsServed
  <1>4. CASE Drop
    BY <1>4, Zenon DEF Drop
  <1>5. CASE UNCHANGED <<conn, up, subs, server, left, step, msg, to, cur>>
    BY <1>5
  <1>6. QED
    BY <1>1, <1>2, <1>3, <1>4, <1>5
       DEF Connect, DialFails, BeginResubscribe, StartReadLoop, ScheduleReconnect,
           TimerFires, StartDial

LEMMA NoneStraySend ==
  ASSUME KeptInv, NoneStray, NEW c \in Callers, Proceed(c)
  PROVE  NoneStray'
  <1> USE NamesAssumption
      DEF KeptInv, TypeInv, TypeOK, MsgInv, NoneStray, OnItsWay, Sending, client, caller, resend
  <1>1. /\ UNCHANGED <<conn, cur, left, subs>>
        /\ up' = TRUE => up = TRUE
        /\ \A d \in Callers : d # c => step'[d] = step[d] /\ msg'[d] = msg[d] /\ to'[d] = to[d]
    <2>1. up' = TRUE => up = TRUE
      BY Zenon DEF Proceed, BeginSend, EndSend, BeginCloseFrame, EndCloseFrame, CloseConn
    <2>2. QED
      BY <2>1 DEF Proceed, BeginSend, EndSend, BeginCloseFrame, EndCloseFrame, Returns
  <1>2. CASE EndSend(c)
    <2>1. SUFFICES ASSUME NEW k \in Channels, conn # 0, up = TRUE, subs[k] = None
                   PROVE  server'[k] = None \/ OnItsWay(k)'
      BY <1>1
    <2>2. step[c] = "write" /\ msg[c] \in Messages
      BY <1>2 DEF EndSend
    <2>3. server' = IF to[c] = cur /\ msg[c].sub # Keep
                      THEN [server EXCEPT ![msg[c].ch] = msg[c].sub] ELSE server
      BY <1>2, <2>1, Zenon DEF EndSend, Deliver
    <2>4. CASE msg[c].ch = k /\ msg[c].sub # Keep /\ to[c] = cur
      <3>1. msg[c].sub = None
        BY <2>1, <2>2, <2>4 DEF LatestWord
      <3>2. QED
        BY <2>3, <2>4, <3>1
    <2>5. CASE ~(msg[c].ch = k /\ msg[c].sub # Keep /\ to[c] = cur)
      <3>1. server'[k] = server[k]
        BY <2>2, <2>3, <2>5, MessageFields
      <3>2. OnItsWay(k) => OnItsWay(k)'
        BY <1>1, <2>5
      <3>3. QED
        BY <2>1, <3>1, <3>2
    <2>6. QED
      BY <2>4, <2>5
  <1>3. CASE BeginSend(c) \/ BeginCloseFrame(c) \/ EndCloseFrame(c)
    <2>1. server' = server
      BY <1>3 DEF BeginSend, BeginCloseFrame, EndCloseFrame
    <2>2. Sending(c) => Sending(c)' /\ UNCHANGED <<msg[c], to[c]>>
      BY <1>3 DEF BeginSend, BeginCloseFrame, EndCloseFrame
    <2>3. \A k \in Channels : OnItsWay(k) => OnItsWay(k)'
      BY <1>1, <2>2
    <2>4. QED
      BY <1>1, <2>1, <2>3
  <1>4. QED
    BY <1>2, <1>3 DEF Proceed

LEMMA NoneStrayCall ==
  ASSUME KeptInv, NoneStray, NEW c \in Callers, Invoke(c), UnsubscribesUnsent
  PROVE  NoneStray'
  <1> USE NamesAssumption
      DEF KeptInv, TypeInv, TypeOK, NoneStray, OnItsWay, Sending, client, caller, resend
  <1>1. /\ UNCHANGED <<up, cur, left, server>> /\ step[c] = "idle"
        /\ conn' = conn \/ conn' = 0
        /\ \A d \in Callers : d # c => step'[d] = step[d] /\ msg'[d] = msg[d] /\ to'[d] = to[d]
    <2>1. UNCHANGED <<up, cur, left, server>> /\ step[c] = "idle"
      BY Zenon DEF Invoke, SetSubscription, Publish, Close, Call
    <2>2. QED
      BY <2>1 DEF Invoke, SetSubscription, Publish, Close, Sends
  <1>2. \A k \in Channels : OnItsWay(k) => OnItsWay(k)'
    BY <1>1
  <1>3. ASSUME NEW ch \in Channels, NEW w \in Subscription, SetSubscription(c, ch, w)
        PROVE  NoneStray'
    <2>1. subs' = [subs EXCEPT ![ch] = w] /\ conn' = conn
      BY <1>3 DEF SetSubscription
    <2>2. \A k \in Channels : left'[k] # None => subs'[k] # None
      BY <1>1 DEF UnsubscribesUnsent
    <2>3. ASSUME conn # 0, w = None PROVE OnItsWay(ch)'
      <3>1. step'[c] = "send" /\ msg'[c] = [ch |-> ch, sub |-> None] /\ to'[c] = conn
        BY <1>3, <2>3 DEF SetSubscription, Sends
      <3>2. conn = cur
        BY <2>3 DEF ConnIsServed
      <3>3. QED
        BY <1>1, <3>1, <3>2
    <2>4. QED
      BY <1>1, <1>2, <2>1, <2>2, <2>3
  <1>4. CASE UNCHANGED subs
    BY <1>1, <1>2, <1>4
  <1>5. QED
    BY <1>3, <1>4 DEF Invoke, Publish, Close

(* If every channel is the business of one goroutine, and none is          *)
(* unsubscribed between the snapshot of a resubscription and its turn, an  *)
(* unsubscribed channel is unsubscribed at the server when things settle.  *)
THEOREM UnsubscribeKept ==
  ASSUME OwnUses
  PROVE  Spec /\ UnsubscribesApart => []UnsubscribeHolds
  <1>1. Init => KeptInv /\ NoneStray
    <2> SUFFICES ASSUME Init PROVE KeptInv /\ NoneStray
      OBVIOUS
    <2>1. TypeInv
      BY TypeInit DEF TypeInv, MsgInv, Init
    <2>2. ConnIsServed /\ LatestWord /\ NoneLost /\ Counts /\ NoneStray
      BY DEF Init, ConnIsServed, LatestWord, Sending, NoneLost, Counts, NoneStray, Nothing
    <2>3. QED
      BY <2>1, <2>2 DEF KeptInv
  <1>2. KeptInv /\ [Next]_vars => KeptInv'
    BY TypeStep, ServedStep, LatestWordStep, NoneLostStep, CountsStep DEF KeptInv
  <1>3. KeptInv /\ NoneStray /\ [Next]_vars /\ [UnsubscribesUnsent]_vars => NoneStray'
    <2>1. NoneStray /\ UNCHANGED vars => NoneStray'
      BY DEF NoneStray, OnItsWay, Sending, vars, client, caller, resend
    <2>2. QED
      BY <2>1, NoneStrayConnect, NoneStraySend, NoneStrayCall DEF Next
  <1>4. KeptInv /\ NoneStray => UnsubscribeHolds
    <2> SUFFICES ASSUME KeptInv, NoneStray, NEW ch \in Channels, SettledOn(ch), subs[ch] = None
                 PROVE  server[ch] = None
      BY DEF UnsubscribeHolds
    <2>1. up = TRUE
      BY Zenon DEF SettledOn, KeptInv, TypeInv, TypeOK
    <2>2. conn # 0
      BY <2>1 DEF SettledOn, KeptInv, Counts, TypeInv, TypeOK
    <2>3. ~OnItsWay(ch)
      BY DEF OnItsWay, SettledOn, KeptInv, LatestWord, Sending
    <2>4. QED
      BY <2>1, <2>2, <2>3 DEF NoneStray
  <1>5. QED
    BY <1>1, <1>2, <1>3, <1>4, PTL DEF Spec, UnsubscribesApart

(***************************************************************************)
(* What Reconnects and StopsAfterClose need besides fairness: somebody can *)
(* always go on.                                                           *)
(***************************************************************************)

(* ps.mu is only held by a writer, and a resubscription has a frame to     *)
(* write; the connector ends only for a closed client; what is still       *)
(* usable but no longer ps.conn has a Close about to hang up.              *)
HangsUp(c) == step[c] \in {"close", "closing"} /\ to[c] = cur
NobodyStuck ==
    /\ mu # Nobody => \/ mu = Connector /\ pc = "write"
                      \/ \E c \in Callers : mu = c /\ step[c] = "write"
    /\ pc = "write" => \E ch \in Channels : left[ch] # None
    /\ pc = "done" => closed
    /\ up /\ conn # cur => \E c \in Callers : HangsUp(c)

LEMMA NobodyStuckStep ==
  ASSUME TypeInv, ConnIsServed, Holders, NobodyStuck, [Next]_vars
  PROVE  NobodyStuck'
  <1> USE NamesAssumption DEF TypeInv, TypeOK, Holders, NobodyStuck, HangsUp, client, caller, resend
  <1>1. CASE Connected
    BY <1>1 DEF Connected
  <1>2. CASE DialFails
    BY <1>2 DEF DialFails
  <1>3. CASE BeginResubscribe
    <2>1. \E ch \in Channels : left[ch] # None
      BY <1>3 DEF BeginResubscribe, Nothing
    <2>2. QED
      BY <1>3, <2>1 DEF BeginResubscribe
  <1>4. CASE EndResubscribe
    BY <1>4 DEF EndResubscribe
  <1>5. CASE StartReadLoop
    BY <1>5 DEF StartReadLoop
  <1>6. CASE ReadLoopEnds
    BY <1>6 DEF ReadLoopEnds, ClearConn
  <1>7. CASE ScheduleReconnect
    BY <1>7 DEF ScheduleReconnect, AfterSchedule
  <1>8. CASE TimerFires \/ StartDial
    BY <1>8 DEF TimerFires, AfterTimer, StartDial
  <1>9. CASE Drop
    BY <1>9 DEF Drop
  <1>10. ASSUME NEW c \in Callers, Proceed(c) PROVE NobodyStuck'
    <2>1. CASE BeginSend(c)
      BY <2>1 DEF BeginSend, MuFree
    <2>2. CASE EndSend(c)
      BY <2>2 DEF EndSend, Returns
    <2>3. CASE BeginCloseFrame(c)
      BY <2>3 DEF BeginCloseFrame
    <2>4. CASE EndCloseFrame(c)
      BY <2>4 DEF EndCloseFrame, CloseConn, Returns
    <2>5. QED
      BY <1>10, <2>1, <2>2, <2>3, <2>4 DEF Proceed
  <1>11. ASSUME NEW c \in Callers, Invoke(c) PROVE NobodyStuck'
    <2>1. ASSUME NEW ch \in Channels, NEW w \in Subscription, SetSubscription(c, ch, w)
          PROVE  NobodyStuck'
      BY <2>1 DEF SetSubscription, Call, Sends
    <2>2. ASSUME NEW ch \in Channels, Publish(c, ch) PROVE NobodyStuck'
      BY <2>2 DEF Publish, Call, Sends
    <2>3. CASE Close(c)
      BY <2>3 DEF Close, Call, ConnIsServed
    <2>4. QED
      BY <1>11, <2>1, <2>2, <2>3 DEF Invoke
  <1>12. CASE UNCHANGED vars
    BY <1>12 DEF vars
  <1>13. QED
    BY <1>1, <1>2, <1>3, <1>4, <1>5, <1>6, <1>7, <1>8, <1>9, <1>10, <1>11, <1>12
       DEF Next, Connect

(* ps.mu is never left locked, so nobody waits for it longer than a write; *)
(* the client gives up reconnecting only when it is closed; and a closed   *)
(* client's connection is hung up, so readLoop gets to its end.            *)
THEOREM SomebodyGoesOn == Spec => []NobodyStuck
  <1>1. Init => TypeInv /\ ConnIsServed /\ Holders /\ NobodyStuck
    BY TypeInit DEF TypeInv, MsgInv, Init, ConnIsServed, Holders, NobodyStuck
  <1>2. TypeInv /\ ConnIsServed /\ Holders /\ NobodyStuck /\ [Next]_vars
           => TypeInv' /\ ConnIsServed' /\ Holders' /\ NobodyStuck'
    BY TypeStep, ServedStep, HoldersStep, NobodyStuckStep
  <1>3. QED
    BY <1>1, <1>2, PTL DEF Spec
=============================================================================
