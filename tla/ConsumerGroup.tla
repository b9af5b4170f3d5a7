--------------------------- MODULE ConsumerGroup ---------------------------
(***************************************************************************)
(* A durable channel of a cache and one consumer group on it (PubSubRef of *)
(* cache.go): workers claim messages, work on them, acknowledge them, and  *)
(* reclaim those others left pending; a worker may stop at any point and   *)
(* answers may be lost, and messages that are beyond the retention of the  *)
(* channel are trimmed.  The cache app, which keeps the channel and the    *)
(* group, is external.  The group has been created before the first        *)
(* message.                                                                *)
(***************************************************************************)
EXTENDS CacheTTL

CONSTANTS
    Workers,
    MaxSeq,       \* bound on the messages published
    MaxSize,      \* of PubSubOpts, 0 for a channel unbounded by count
    ByAge,        \* whether messages are trimmed by age, by MaxAge or by Trim
    ReclaimAfter, \* the timeout workers give to Reclaim
    WorkTime,     \* longest a worker takes from a claim to the last Ack
    MaxFaults     \* bound on stops and lost answers

ASSUME GroupAssumption ==
    /\ MaxSeq \in Nat /\ MaxSize \in Nat /\ ByAge \in BOOLEAN
    /\ ReclaimAfter \in Nat /\ WorkTime \in Nat /\ MaxFaults \in Nat

VARIABLES
    published, \* the sequence number of the last message
    trimmed,   \* of the last one that is no longer kept
    claimed,   \* and of the last one the group has given out
    pending,   \* per message given out and not acknowledged: for how long
    todo,      \* per worker: what it was given and has not acknowledged
    done,      \* the one of these it has done the work for, 0 if none
    held,      \* for how long it has had them
    processed, \* the messages some worker has done the work for
    faults

groupVars == <<published, trimmed, claimed, pending, todo, done, held, processed, faults>>

GroupInit ==
    /\ published = 0 /\ trimmed = 0 /\ claimed = 0
    /\ pending = [s \in {} |-> 0]
    /\ todo = [w \in Workers |-> {}]
    /\ done = [w \in Workers |-> 0]
    /\ held = [w \in Workers |-> 0]
    /\ processed = {} /\ faults = 0

Unacked == DOMAIN pending
Fails == faults < MaxFaults /\ faults' = faults + 1

(* What the server gives to w reaches it, or the answer is lost.           *)
Gives(w, msgs) ==
    \/ /\ todo' = [todo EXCEPT ![w] = msgs]
       /\ held' = [held EXCEPT ![w] = 0]
       /\ UNCHANGED faults
    \/ Fails /\ UNCHANGED <<todo, held>>
-----------------------------------------------------------------------------
(* The oldest messages go, up to last; of those that were pending the      *)
(* group may or may not know any more (external).                          *)
Drops(last) ==
    /\ trimmed' = last
    /\ \E known \in SUBSET Unacked :
          /\ \A s \in Unacked : s > last => s \in known
          /\ pending' = [s \in known |-> pending[s]]

(* Publish sends the limits along, and the server trims to them: MaxSize   *)
(* messages at the most, and none that is too old, which may be any but    *)
(* the new one.                                                            *)
Publish ==
    /\ published < MaxSeq
    /\ published' = published + 1
    /\ \E last \in trimmed..published :
          /\ MaxSize > 0 => published' <= last + MaxSize
          /\ last = trimmed \/ ByAge \/ (MaxSize > 0 /\ published' = last + MaxSize)
          /\ Drops(last)
    /\ UNCHANGED <<claimed, todo, done, held, processed, faults>>

Trim ==
    /\ ByAge
    /\ \E last \in trimmed + 1..published : Drops(last)
    /\ UNCHANGED <<published, claimed, todo, done, held, processed, faults>>

(* The next message that is still kept.                                    *)
NextUnclaimed == 1 + (IF claimed < trimmed THEN trimmed ELSE claimed)
Claim(w) ==
    /\ todo[w] = {} /\ NextUnclaimed <= published
    /\ claimed' = NextUnclaimed
    /\ pending' = [s \in Unacked \union {claimed'} |-> IF s = claimed' THEN 0 ELSE pending[s]]
    /\ Gives(w, {claimed'})
    /\ UNCHANGED <<published, trimmed, done, processed>>

(* All that have been pending for the timeout, from now on w's.            *)
Overdue == {s \in Unacked : pending[s] >= 2 * ttlSeconds(ReclaimAfter)}
Reclaim(w) ==
    /\ todo[w] = {} /\ Overdue # {}
    /\ pending' = [s \in Unacked |-> IF s \in Overdue THEN 0 ELSE pending[s]]
    /\ Gives(w, Overdue)
    /\ UNCHANGED <<published, trimmed, claimed, done, processed>>

Work(w) ==
    /\ done[w] = 0
    /\ \E s \in todo[w] :
          /\ processed' = processed \union {s}
          /\ done' = [done EXCEPT ![w] = s]
    /\ UNCHANGED <<published, trimmed, claimed, pending, todo, held, faults>>

(* Fault: the place to go on from is acknowledged.                         *)
NextSeq(w) == done[w] + 1
AckedSeq(w) == done[w]

(* Ack reaches the server or is lost.                                      *)
Ack(w) ==
    /\ done[w] # 0
    /\ \/ pending' = [s \in Unacked \ {AckedSeq(w)} |-> pending[s]] /\ UNCHANGED faults
       \/ Fails /\ UNCHANGED pending
    /\ todo' = [todo EXCEPT ![w] = @ \ {done[w]}]
    /\ done' = [done EXCEPT ![w] = 0]
    /\ UNCHANGED <<published, trimmed, claimed, held, processed>>

WorkerStops(w) ==
    /\ todo[w] # {} /\ Fails
    /\ todo' = [todo EXCEPT ![w] = {}]
    /\ done' = [done EXCEPT ![w] = 0]
    /\ UNCHANGED <<published, trimmed, claimed, pending, held, processed>>

Capped(n) == IF n < ReclaimAfter THEN n + 1 ELSE n
GroupTick ==
    /\ \A w \in Workers : todo[w] # {} => held[w] < WorkTime
    /\ pending' = [s \in Unacked |-> Capped(pending[s])]
    /\ held' = [w \in Workers |-> IF todo[w] # {} THEN held[w] + 1 ELSE 0]
    /\ UNCHANGED <<published, trimmed, claimed, todo, done, processed, faults>>

GroupNext ==
    \/ Publish \/ Trim
    \/ \E w \in Workers :
          \/ Claim(w)
          \/ Reclaim(w)
          \/ Work(w)
          \/ Ack(w)
          \/ WorkerStops(w)
    \/ GroupTick

GroupSpec == GroupInit /\ [][GroupNext]_groupVars
-----------------------------------------------------------------------------
(* Two workers are never at work on one message, whichever of them stop,   *)
(* whatever answers are lost, and however many messages one Reclaim gives  *)
(* out (cache.go:500-503, 525-526).  The timeout must be longer than the   *)
(* work on all of them.                                                    *)
OneAtATime ==
    \A v, w \in Workers : v # w => todo[v] \intersect todo[w] = {}

(* While workers claim and reclaim, every message is worked on in the end  *)
(* unless it is trimmed first (cache.go:404-405, 463, 525-526).            *)
AllProcessed ==
    \A s \in 1..MaxSeq : published >= s ~> s \in processed \/ s <= trimmed
=============================================================================
