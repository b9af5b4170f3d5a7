---------------------------- MODULE MCPubSubWS ----------------------------
(* Small instances of PubSubWS for TLC.                                    *)
EXTENDS PubSubWS, TLC

CONSTANTS c1, c2, a, b

(* Each channel is subscribed and unsubscribed by one goroutine only ...   *)
OwnChannels == (c1 :> {a}) @@ (c2 :> {b})
(* ... or by both.                                                         *)
SharedChannels == [c \in Callers |-> Channels]
=============================================================================
