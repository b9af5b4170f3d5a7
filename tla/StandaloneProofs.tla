-------------------------- MODULE StandaloneProofs --------------------------
(***************************************************************************)
(* Theorems about the modules that share no state with any other, except   *)
(* the command line: SecretKey, for any number of processes and keys, and  *)
(* those in which the other side is a service outside the repository,      *)
(* CacheLock, ConsumerGroup and Upstream, for any number of clients,       *)
(* workers, messages and attempts, and any times.                          *)
(***************************************************************************)
EXTENDS SecretKey, CacheLock, ConsumerGroup, Upstream, TLAPS

-----------------------------------------------------------------------------
(* The encryption key.                                                     *)

KeyTypeOK ==
    /\ file \in Secrets \union {Absent, Partial}
    /\ stage \in [Procs -> {"down", "up", "minting", "writing", "ready", "failed"}]
    /\ loaded \in [Procs -> Secrets \union {Absent}]
    /\ minted \in [Procs -> Secrets \union {Absent}]
    /\ data \subseteq [by : Procs, key : Secrets]
    /\ overlap \in BOOLEAN /\ misread \in BOOLEAN

FromTheFile(p) == decodeKeyEnv(p) = Absent

(* What holds of every process, and of what it has encrypted.              *)
OwnKey ==
    /\ \A p \in Procs :
          /\ loaded[p] # Absent <=> stage[p] = "ready"
          /\ loaded[p] # Absent /\ ~FromTheFile(p) => loaded[p] = decodeKeyEnv(p)
          /\ Creating(p) => FromTheFile(p) /\ minted[p] \in Secrets
    /\ \A d \in data : ~FromTheFile(d.by) => d.key = decodeKeyEnv(d.by)

(* A good file stays as it is: nobody creates a key next to it, and it is  *)
(* the one key of all that take theirs from it.  Before it is good nobody  *)
(* has one.                                                                *)
OneKey ==
    /\ \A p, q \in Procs : Creating(p) /\ Creating(q) => p = q
    /\ \A p \in Procs : Creating(p) => file \notin Secrets
    /\ \A p \in Procs : FromTheFile(p) /\ loaded[p] # Absent => file = loaded[p]
    /\ \A d \in data : FromTheFile(d.by) => file = d.key
    /\ \A p \in Checking : FromTheFile(p) /\ stage[p] # "down" => file \in Secrets

KeyInv == KeyTypeOK /\ OwnKey /\ (overlap \/ misread \/ OneKey)

LEMMA EnvType ==
  \A p \in Procs : decodeKeyEnv(p) \in Secrets \union {Absent} /\
                   (EnvKey[p] \notin Secrets <=> FromTheFile(p))
  BY SecretAssumption DEF decodeKeyEnv, FromTheFile

LEMMA KeyInitially == KeyInit => KeyInv
  BY SecretAssumption DEF KeyInit, KeyInv, KeyTypeOK, OwnKey, OneKey, Creating

(* Finding a key, at start or at the first use.                            *)
LEMMA FindStep ==
  ASSUME KeyInv, NEW p \in Procs, Start(p) \/ FromEnv(p) \/ FromFile(p)
  PROVE  KeyInv'
  <1> USE SecretAssumption, EnvType
      DEF KeyInv, KeyTypeOK, OwnKey, OneKey, Creating, Goto, Load, FromTheFile, decodeKeyEnv
  <1>1. CASE Start(p)
    BY <1>1 DEF Start, RequireSecretKey
  <1>2. CASE FromEnv(p)
    BY <1>2 DEF FromEnv, Once
  <1>3. CASE FromFile(p)
    BY <1>3 DEF FromFile, Once
  <1>4. QED
    BY <1>1, <1>2, <1>3

LEMMA CreateStep ==
  ASSUME KeyInv, NEW p \in Procs, Mint(p) \/ Truncate(p) \/ Written(p) \/ WriteFails(p)
  PROVE  KeyInv'
  <1> USE SecretAssumption, EnvType
      DEF KeyInv, KeyTypeOK, OwnKey, OneKey, Creating, Goto, Load, FromTheFile
  <1>1. CASE Mint(p)
    <2>1. overlap' \in BOOLEAN /\ misread' \in BOOLEAN
      BY <1>1, Zenon DEF Mint
    <2>2. PICK k \in Secrets : minted' = [minted EXCEPT ![p] = k]
      BY <1>1, Zenon DEF Mint
    <2>3. KeyTypeOK'
      BY <1>1, <2>1, <2>2 DEF Mint
    <2>4. OwnKey'
      BY <1>1, <2>2 DEF Mint, Once
    <2>5. ASSUME ~overlap', ~misread' PROVE OneKey'
      <3>1. ~overlap /\ ~misread /\ file \notin Secrets
        BY <1>1, <2>5, Zenon DEF Mint
      <3>2. ~\E q \in Procs \ {p} : Creating(q)
        BY <1>1, <2>5, Zenon DEF Mint
      <3>3. QED
        BY <1>1, <3>1, <3>2 DEF Mint, Once
    <2>6. QED
      BY <2>3, <2>4, <2>5
  <1>2. CASE Truncate(p)
    BY <1>2 DEF Truncate
  <1>3. CASE Written(p)
    BY <1>3 DEF Written
  <1>4. CASE WriteFails(p)
    BY <1>4 DEF WriteFails
  <1>5. QED
    BY <1>1, <1>2, <1>3, <1>4

LEMMA UseStep ==
  ASSUME KeyInv, NEW p \in Procs, Encrypt(p) \/ Stop(p)
  PROVE  KeyInv'
  <1> USE SecretAssumption
      DEF KeyInv, KeyTypeOK, OwnKey, OneKey, Creating, Goto, Load, FromTheFile
  <1>1. CASE Encrypt(p)
    BY <1>1 DEF Encrypt
  <1>2. CASE Stop(p)
    BY <1>2 DEF Stop
  <1>3. QED
    BY <1>1, <1>2

LEMMA KeyAlways == KeySpec => []KeyInv
  <1>1. KeyInv /\ UNCHANGED keyVars => KeyInv'
    BY DEF KeyInv, KeyTypeOK, OwnKey, OneKey, Creating, keyVars
  <1>2. KeyInv /\ [KeyNext]_keyVars => KeyInv'
    BY <1>1, FindStep, CreateStep, UseStep DEF KeyNext
  <1>3. QED
    BY KeyInitially, <1>2, PTL DEF KeySpec

(* What a process encrypts every process with the same source of the key   *)
(* can decrypt.                                                            *)
THEOREM AlwaysReadable == KeySpec => []Readable
  <1>1. KeyInv => Readable
    <2>1. SUFFICES ASSUME KeyInv, OneKey, NEW d \in data, NEW p \in Procs, SameSource(p, d.by)
                   PROVE  /\ DecryptWithKey(d, Stored(p)) = "plaintext"
                          /\ loaded[p] # Absent => Decrypt(p, d) = "plaintext"
      BY DEF KeyInv, Readable
    <2>2. d.by \in Procs
      BY <2>1 DEF KeyInv, KeyTypeOK
    <2>3. CASE FromTheFile(p)
      BY <2>1, <2>2, <2>3
      DEF KeyInv, OneKey, FromTheFile, SameSource, Stored, DecryptWithKey, Decrypt
    <2>4. CASE ~FromTheFile(p)
      BY <2>1, <2>2, <2>4
      DEF KeyInv, OwnKey, FromTheFile, SameSource, Stored, DecryptWithKey, Decrypt
    <2>5. QED
      BY <2>3, <2>4
  <1>2. QED
    BY KeyAlways, <1>1, PTL

(* An app that checks for its key when it starts never creates one.        *)
THEOREM NoKeyOfItsOwn == KeySpec => []CheckedNeverMint
  <1>1. KeyInv => CheckedNeverMint
    BY SecretAssumption DEF KeyInv, OwnKey, OneKey, CheckedNeverMint, Creating
  <1>2. QED
    BY KeyAlways, <1>1, PTL

(* The key of a process does not change while it runs.                     *)
THEOREM KeyStays == KeySpec => KeyKept
  <1>1. ASSUME KeyInv, [KeyNext]_keyVars,
               NEW p \in Procs, loaded[p] # Absent, stage'[p] # "down"
        PROVE  loaded'[p] = loaded[p]
    <2>1. stage[p] = "ready" /\ loaded \in [Procs -> Secrets \union {Absent}]
            /\ stage \in [Procs -> {"down", "up", "minting", "writing", "ready", "failed"}]
      BY <1>1 DEF KeyInv, KeyTypeOK, OwnKey
    <2>2. CASE UNCHANGED keyVars
      BY <2>2 DEF keyVars
    <2>3. CASE KeyNext
      BY <1>1, <2>1, <2>3
      DEF KeyNext, Start, FromEnv, FromFile, Mint, Truncate, Written, WriteFails, Encrypt, Stop,
          Once, Goto, Load
    <2>4. QED
      BY <1>1, <2>2, <2>3
  <1>2. KeyInv /\ [KeyNext]_keyVars =>
          [\A p \in Procs :
             loaded[p] # Absent /\ stage'[p] # "down" => loaded'[p] = loaded[p]]_keyVars
    BY <1>1
  <1>3. QED
    BY KeyAlways, <1>2, PTL DEF KeySpec, KeyKept

-----------------------------------------------------------------------------
(* The services.                                                           *)

(* What the configurations that keep the lock have in common: a time to    *)
(* live of whole seconds, and no release that could arrive too late.       *)
Timely == LockTTL % 2 = 0 /\ MinLeft > MaxDelay

Stages == {"none", "asking", "acquired", "refused", "releasing"}

LockTypeOK ==
    /\ owner \in Clients \union {NoOwner}
    /\ left \in Int /\ left >= Forever
    /\ call \in [Clients -> Stages]
    /\ age \in [Clients -> Nat]
    /\ working \in [Clients -> BOOLEAN]
    /\ belief \in [Clients -> Nat]

(* The key is c's for n ticks at least.                                    *)
Lasts(c, n) == owner = c /\ (left = Forever \/ left >= n)

Held(c) == belief[c] > 0 => working[c] /\ Lasts(c, belief[c])
Told(c) ==
    call[c] = "acquired" /\ age[c] < LockTTL => Lasts(c, LockTTL - age[c])
Released(c) ==
    call[c] = "releasing" => age[c] <= MaxDelay /\ Lasts(c, MaxDelay + 1 - age[c])

LockInv ==
    /\ LockTypeOK
    /\ owner = NoOwner <=> left = 0
    /\ \A c \in Clients :
          /\ working[c] => call[c] = "none"
          /\ Held(c) /\ Told(c) /\ Released(c)

LEMMA LockInitially == LockInit => LockInv
  BY LockAssumption
  DEF LockInit, LockInv, LockTypeOK, Stages, Held, Told, Released, Forever

(* The server grants the time that was asked for, or no end at all.        *)
LEMMA GrantedTime ==
  ASSUME Timely
  PROVE  Granted = Forever \/ (Granted = LockTTL /\ LockTTL > 0)
  BY LockAssumption DEF Timely, Granted, ttlSeconds, Forever

LEMMA ClientStep ==
  ASSUME Timely, LockInv, NEW c \in Clients,
         SetNX(c) \/ SetNXReturns(c) \/ SetNXFails(c) \/ Del(c) \/ DelFails(c) \/ Abandon(c)
  PROVE  LockInv'
  <1> USE LockAssumption
      DEF LockInv, LockTypeOK, Stages, Held, Told, Released, Lasts, Stage, Forever
  <1>1. CASE SetNX(c)
    BY <1>1 DEF SetNX
  <1>2. CASE SetNXReturns(c)
    <2>1. Acquired(c) \in BOOLEAN /\ ~working[c]
      BY <1>2 DEF SetNXReturns, Acquired
    <2>2. CASE Acquired(c)
      <3>1. working' = [working EXCEPT ![c] = TRUE]
        BY <1>2, <2>1, <2>2, Zenon DEF SetNXReturns
      <3>2. QED
        BY <1>2, <2>2, <3>1 DEF SetNXReturns, Acquired
    <2>3. CASE ~Acquired(c)
      <3>1. working' = [working EXCEPT ![c] = FALSE]
        BY <1>2, <2>1, <2>3, Zenon DEF SetNXReturns
      <3>2. QED
        BY <1>2, <2>3, <3>1 DEF SetNXReturns, Acquired
    <2>4. QED
      BY <2>2, <2>3
  <1>3. CASE SetNXFails(c)
    BY <1>3 DEF SetNXFails
  <1>4. CASE Del(c)
    BY <1>4 DEF Del, Timely
  <1>5. CASE DelFails(c)
    BY <1>5 DEF DelFails
  <1>6. CASE Abandon(c)
    BY <1>6 DEF Abandon
  <1>7. QED
    BY <1>1, <1>2, <1>3, <1>4, <1>5, <1>6

LEMMA ServerStep ==
  ASSUME Timely, LockInv, NEW c \in Clients, ServerSetsNX(c) \/ ServerDeletes(c)
  PROVE  LockInv'
  <1> USE LockAssumption
      DEF LockInv, LockTypeOK, Stages, Held, Told, Released, Lasts, Stage, Forever
  <1>1. CASE ServerSetsNX(c)
    BY <1>1, GrantedTime DEF ServerSetsNX
  <1>2. CASE ServerDeletes(c)
    <2>1. \A d \in Clients \ {c} : belief[d] = 0 /\ call[d] # "releasing"
      BY <1>2 DEF ServerDeletes
    <2>2. \A d \in Clients \ {c} : ~(call[d] = "acquired" /\ age[d] < LockTTL)
      BY <1>2 DEF ServerDeletes
    <2>3. belief[c] = 0
      BY <1>2 DEF ServerDeletes
    <2>4. QED
      BY <1>2, <2>1, <2>2, <2>3 DEF ServerDeletes
  <1>3. QED
    BY <1>1, <1>2

LEMMA TimeStep ==
  ASSUME Timely, LockInv, HalfSecond
  PROVE  LockInv'
  <1> USE LockAssumption DEF LockInv, LockTypeOK, Stages, Lasts, Forever, HalfSecond
  <1>1. LockTypeOK' /\ (owner = NoOwner <=> left = 0)'
    OBVIOUS
  <1>2. ASSUME NEW c \in Clients PROVE Held(c)'
    BY DEF Held
  <1>3. ASSUME NEW c \in Clients PROVE Told(c)'
    BY DEF Told
  <1>4. ASSUME NEW c \in Clients PROVE Released(c)'
    BY DEF Released
  <1>5. QED
    BY <1>1, <1>2, <1>3, <1>4

(* Of the clients that were told they have the lock one at a time is in    *)
(* it, for every number of clients and every timely configuration.         *)
THEOREM OneHolder ==
  ASSUME Timely
  PROVE  LockSpec => []LockExclusive
  <1>1. LockInv /\ UNCHANGED lockVars => LockInv'
    BY DEF LockInv, LockTypeOK, Held, Told, Released, Lasts, lockVars
  <1>2. LockInv /\ [LockNext]_lockVars => LockInv'
    BY <1>1, ClientStep, ServerStep, TimeStep DEF LockNext
  <1>3. LockInv => LockExclusive
    BY DEF LockInv, LockTypeOK, Held, Lasts, LockExclusive
  <1>4. QED
    BY LockInitially, <1>2, <1>3, PTL DEF LockSpec

(* The safety core of LockFreed: with a time to live of a second at least  *)
(* a lock that is taken has an end, and nothing renews it.                 *)
Expiring ==
    /\ owner \in Clients \union {NoOwner}
    /\ IF owner = NoOwner THEN left = 0 ELSE left \in 1..LockTTL

NeverRenewed ==
    [][owner # NoOwner =>
          \/ owner' = NoOwner
          \/ owner' = owner /\ left' <= left /\ (HalfSecond => left' = left - 1)]_lockVars

LEMMA ExpiringStep ==
  ASSUME LockTTL >= 2, Expiring, [LockNext]_lockVars
  PROVE  Expiring'
  <1> USE LockAssumption DEF Expiring, Stage
  <1>1. Granted \in 1..LockTTL
    BY DEF Granted, ttlSeconds
  <1>2. ASSUME NEW c \in Clients, ServerSetsNX(c) PROVE Expiring'
    BY <1>1, <1>2 DEF ServerSetsNX
  <1>3. ASSUME NEW c \in Clients, ServerDeletes(c) PROVE Expiring'
    BY <1>3 DEF ServerDeletes
  <1>4. CASE HalfSecond
    BY <1>4 DEF HalfSecond
  <1>5. ASSUME UNCHANGED <<owner, left>> PROVE Expiring'
    BY <1>5
  <1>6. QED
    BY <1>2, <1>3, <1>4, <1>5
       DEF LockNext, lockVars, SetNX, SetNXReturns, SetNXFails, Del, DelFails, Abandon

(* A lock that is taken is free LockTTL ticks later at the latest, whether *)
(* or not a client ever learns that it has it: its time only ever falls,   *)
(* by one a tick, until the key is gone.                                   *)
THEOREM LockExpires ==
  ASSUME LockTTL >= 2
  PROVE  LockSpec => []Expiring /\ NeverRenewed
  <1> DEFINE Step == owner # NoOwner =>
                       \/ owner' = NoOwner
                       \/ owner' = owner /\ left' <= left /\ (HalfSecond => left' = left - 1)
  <1>1. LockInit => Expiring
    BY DEF LockInit, Expiring
  <1>2. Expiring /\ [LockNext]_lockVars => Expiring'
    BY ExpiringStep
  <1>3. ASSUME Expiring, [LockNext]_lockVars PROVE [Step]_lockVars
    <2> SUFFICES ASSUME owner # NoOwner PROVE Step
      OBVIOUS
    <2> USE LockAssumption DEF Expiring
    <2>1. CASE HalfSecond
      BY <1>3, <2>1 DEF HalfSecond
    <2>2. CASE ~HalfSecond
      <3>1. ASSUME NEW c \in Clients, ServerSetsNX(c) PROVE UNCHANGED <<owner, left>>
        BY <3>1 DEF ServerSetsNX
      <3>2. owner' = NoOwner \/ UNCHANGED <<owner, left>>
        BY <1>3, <2>2, <3>1
           DEF LockNext, lockVars, SetNX, SetNXReturns, SetNXFails, Del, DelFails, Abandon,
               ServerDeletes
      <3>3. QED
        BY <1>3, <2>2, <3>2
    <2>3. QED
      BY <2>1, <2>2
  <1>4. QED
    BY <1>1, <1>2, <1>3, PTL DEF LockSpec, NeverRenewed
-----------------------------------------------------------------------------
(* The work on all messages of a claim or a reclaim takes less time than   *)
(* the timeout, as sent, after which others reclaim them.                  *)
Patient == WorkTime < 2 * ttlSeconds(ReclaimAfter)

GroupTypeOK ==
    /\ published \in Nat /\ trimmed \in Nat /\ claimed \in Nat
    /\ Unacked \subseteq 1..claimed
    /\ pending \in [Unacked -> Nat]
    /\ todo \in [Workers -> SUBSET (1..claimed)]
    /\ done \in [Workers -> Nat]
    /\ held \in [Workers -> Nat]

(* What w is at work on has been pending at the server for no longer than  *)
(* w has had it, unless the server has forgotten it.                       *)
Mine(w) ==
    /\ done[w] # 0 => done[w] \in todo[w]
    /\ todo[w] # {} => held[w] <= WorkTime
    /\ \A s \in todo[w] : s \in Unacked => pending[s] <= held[w]

GroupInv == GroupTypeOK /\ OneAtATime /\ \A w \in Workers : Mine(w)

LEMMA GroupInitially == GroupInit => GroupInv
  BY DEF GroupInit, GroupInv, GroupTypeOK, OneAtATime, Mine, Unacked

(* A message a worker has is not reclaimed.                                *)
LEMMA NotOverdue ==
  ASSUME Patient, GroupInv, NEW w \in Workers
  PROVE  todo[w] \intersect Overdue = {}
  <1>1. ASSUME NEW s \in todo[w], s \in Overdue PROVE FALSE
    <2>1. pending[s] \in Nat /\ held[w] \in Nat /\ pending[s] <= held[w] /\ held[w] <= WorkTime
      BY <1>1 DEF GroupInv, GroupTypeOK, Mine, Overdue
    <2>2. pending[s] >= 2 * ttlSeconds(ReclaimAfter)
      BY <1>1 DEF Overdue
    <2>3. QED
      BY <2>1, <2>2, GroupAssumption DEF Patient, ttlSeconds
  <1>2. QED
    BY <1>1

LEMMA GivingStep ==
  ASSUME Patient, GroupInv, NEW w \in Workers, Claim(w) \/ Reclaim(w)
  PROVE  GroupInv'
  <1> USE GroupAssumption DEF GroupInv, GroupTypeOK, Mine, OneAtATime, Unacked, Gives
  <1>1. CASE Claim(w)
    <2>1. claimed' \in Nat /\ claimed' > claimed
      BY <1>1 DEF Claim, NextUnclaimed
    <2>2. \A v \in Workers : claimed' \notin todo[v]
      BY <2>1
    <2>3. QED
      BY <1>1, <2>1, <2>2 DEF Claim
  <1>2. CASE Reclaim(w)
    BY <1>2, NotOverdue DEF Reclaim, Overdue
  <1>3. QED
    BY <1>1, <1>2

LEMMA WorkerStep ==
  ASSUME GroupInv, NEW w \in Workers, Work(w) \/ Ack(w) \/ WorkerStops(w)
  PROVE  GroupInv'
  <1> USE GroupAssumption DEF GroupInv, GroupTypeOK, Mine, OneAtATime, Unacked
  <1>1. CASE Work(w)
    BY <1>1 DEF Work
  <1>2. CASE Ack(w)
    BY <1>2 DEF Ack, AckedSeq
  <1>3. CASE WorkerStops(w)
    BY <1>3 DEF WorkerStops
  <1>4. QED
    BY <1>1, <1>2, <1>3

LEMMA GroupTimeStep ==
  ASSUME GroupInv, Publish \/ Trim \/ GroupTick
  PROVE  GroupInv'
  <1> USE GroupAssumption DEF GroupInv, GroupTypeOK, Mine, OneAtATime, Unacked
  <1>1. CASE Publish \/ Trim
    <2>1. PICK upto \in Nat : Drops(upto)
      BY <1>1 DEF Publish, Trim
    <2>2. published' \in Nat /\ UNCHANGED <<claimed, todo, done, held>>
      BY <1>1 DEF Publish, Trim
    <2>3. PICK known \in SUBSET Unacked : pending' = [s \in known |-> pending[s]]
      BY <2>1 DEF Drops
    <2>4. trimmed' = upto
      BY <2>1 DEF Drops
    <2>5. QED
      BY <2>2, <2>3, <2>4
  <1>2. CASE GroupTick
    BY <1>2 DEF GroupTick, Capped
  <1>3. QED
    BY <1>1, <1>2

(* Two workers are never at work on one message, for any number of workers *)
(* and of messages given out at once, if the timeout is longer than the    *)
(* work.                                                                   *)
THEOREM OneWorker ==
  ASSUME Patient
  PROVE  GroupSpec => []OneAtATime
  <1>1. GroupInv /\ UNCHANGED groupVars => GroupInv'
    BY DEF GroupInv, GroupTypeOK, Mine, OneAtATime, Unacked, groupVars
  <1>2. GroupInv /\ [GroupNext]_groupVars => GroupInv'
    BY <1>1, GivingStep, WorkerStep, GroupTimeStep DEF GroupNext
  <1>3. QED
    BY GroupInitially, <1>2, PTL DEF GroupSpec, GroupInv

(* The safety core of AllProcessed.  A message is taken off the group's    *)
(* list only when its work is done, however often it changes hands, or     *)
(* when it is trimmed, which an unbounded channel does to none.            *)
NothingLost ==
    /\ \A s \in 1..claimed : s \in Unacked \/ s \in processed \/ s <= trimmed
    /\ MaxSize = 0 /\ ~ByAge => trimmed = 0
WorkedOn == \A w \in Workers : done[w] # 0 => done[w] \in processed
KeptInv ==
    /\ claimed \in Nat /\ published \in Nat /\ trimmed \in Nat
    /\ Unacked \subseteq 1..claimed
    /\ todo \in [Workers -> SUBSET Nat] /\ done \in [Workers -> Nat]
    /\ NothingLost /\ WorkedOn

LEMMA KeptStep == KeptInv /\ [GroupNext]_groupVars => KeptInv'
  <1> SUFFICES ASSUME KeptInv, [GroupNext]_groupVars PROVE KeptInv'
    OBVIOUS
  <1> USE DEF KeptInv, NothingLost, WorkedOn, Unacked
  <1>1. CASE Publish \/ Trim
    <2>1. PICK upto \in Nat :
             Drops(upto) /\ trimmed <= upto /\ (MaxSize = 0 /\ ~ByAge => upto = trimmed)
      BY <1>1, GroupAssumption DEF Publish, Trim
    <2>2. published' \in Nat /\ UNCHANGED <<claimed, todo, done, processed>>
      BY <1>1 DEF Publish, Trim
    <2>3. PICK known \in SUBSET Unacked :
             /\ \A s \in Unacked : s > upto => s \in known
             /\ pending' = [s \in known |-> pending[s]]
      BY <2>1 DEF Drops
    <2>4. trimmed' = upto /\ Unacked' = known
      BY <2>1, <2>3 DEF Drops
    <2>5. ASSUME NEW s \in 1..claimed PROVE s \in Unacked' \/ s \in processed \/ s <= upto
      BY <2>1, <2>3, <2>4
    <2>6. QED
      BY <2>1, <2>2, <2>4, <2>5
  <1>2. ASSUME NEW w \in Workers, Claim(w) PROVE KeptInv'
    <2>1. /\ claimed' \in Nat /\ claimed' > claimed
          /\ claimed' = claimed + 1 \/ claimed' = trimmed + 1
          /\ Unacked' = Unacked \union {claimed'}
          /\ UNCHANGED <<published, trimmed, done, processed>>
      BY <1>2 DEF Claim, NextUnclaimed
    <2>2. \A s \in 1..claimed' : s \in 1..claimed \/ s = claimed' \/ s <= trimmed
      BY <2>1
    <2>3. todo' \in [Workers -> SUBSET Nat]
      BY <1>2, <2>1 DEF Claim, Gives
    <2>4. QED
      BY <2>1, <2>2, <2>3
  <1>3. ASSUME NEW w \in Workers, Reclaim(w) PROVE KeptInv'
    BY <1>3 DEF Reclaim, Gives, Overdue
  <1>4. ASSUME NEW w \in Workers, Work(w) PROVE KeptInv'
    <2>1. PICK s \in todo[w] :
             processed' = processed \union {s} /\ done' = [done EXCEPT ![w] = s]
      BY <1>4 DEF Work
    <2>2. QED
      BY <1>4, <2>1 DEF Work
  <1>5. ASSUME NEW w \in Workers, Ack(w) PROVE KeptInv'
    <2>1. /\ done[w] \in processed
          /\ done' = [done EXCEPT ![w] = 0]
          /\ todo' = [todo EXCEPT ![w] = @ \ {done[w]}]
          /\ UNCHANGED <<published, trimmed, claimed, processed>>
      BY <1>5 DEF Ack
    <2>2. WorkedOn'
      BY <2>1
    <2>3. Unacked' \subseteq Unacked /\ Unacked \ {done[w]} \subseteq Unacked'
      BY <1>5 DEF Ack, AckedSeq
    <2>4. QED
      BY <2>1, <2>2, <2>3
  <1>6. ASSUME NEW w \in Workers, WorkerStops(w) PROVE KeptInv'
    BY <1>6 DEF WorkerStops
  <1>7. CASE GroupTick
    BY <1>7 DEF GroupTick
  <1>8. CASE UNCHANGED groupVars
    BY <1>8 DEF groupVars
  <1>9. QED
    BY <1>1, <1>2, <1>3, <1>4, <1>5, <1>6, <1>7, <1>8 DEF GroupNext

(* Every message the group has given out or passed over is pending, for    *)
(* another worker to reclaim, until some worker has done its work or it is *)
(* trimmed, and in an unbounded channel until the work is done: for any    *)
(* timeout, any number of stops, and any loss of answers and of            *)
(* acknowledgements.                                                       *)
THEOREM NoMessageLost == GroupSpec => []NothingLost
  <1>1. GroupInit => KeptInv
    BY DEF GroupInit, KeptInv, NothingLost, WorkedOn, Unacked
  <1>2. QED
    BY <1>1, KeptStep, PTL DEF GroupSpec, KeptInv
-----------------------------------------------------------------------------
(* Until Get is over it has tries left and nothing open, and each try but  *)
(* those after the cancellation has sent a request.                        *)
UpInv ==
    /\ attempts \in Nat /\ attempt \in Nat /\ requests \in Nat /\ bodies \in Nat
    /\ requests <= attempts
    /\ at # "over" =>
          /\ attempt < attempts /\ requests <= attempt
          /\ cancelled \/ requests = attempt
          /\ bodies = 0 /\ result = "none"
    /\ GetEndsWell

LEMMA UpInitially == UpInit => UpInv
  BY UpstreamAssumption DEF UpInit, UpInv, GetEndsWell, Tries

(* A failure ends Get after the last try only.                             *)
LEMMA FailureStep ==
  ASSUME UpInv, TryFails \/ Answers5xx
  PROVE  UpInv'
  <1> USE DEF UpInv, GetEndsWell, Failed, GoesOn
  <1>1. CASE TryFails
    <2>1. CASE cancelled
      BY <1>1, <2>1 DEF TryFails
    <2>2. CASE ~cancelled
      BY <1>1, <2>2 DEF TryFails
    <2>3. QED
      BY <2>1, <2>2
  <1>2. CASE Answers5xx
    BY <1>2 DEF Answers5xx, Closed5xx
  <1>3. QED
    BY <1>1, <1>2

LEMMA UpStep == UpInv /\ [UpNext]_upVars => UpInv'
  <1> SUFFICES ASSUME UpInv, [UpNext]_upVars PROVE UpInv'
    OBVIOUS
  <1> USE DEF UpInv, GetEndsWell
  <1>1. CASE Cancel
    BY <1>1 DEF Cancel
  <1>2. CASE PauseEnds
    BY <1>2 DEF PauseEnds
  <1>3. CASE PauseCancelled
    BY <1>3 DEF PauseCancelled
  <1>4. CASE AnswersBelow500
    BY <1>4 DEF AnswersBelow500
  <1>5. CASE UNCHANGED upVars
    BY <1>5 DEF upVars
  <1>6. QED
    BY <1>1, <1>2, <1>3, <1>4, <1>5, FailureStep DEF UpNext

(* Get keeps to its attempts, gives up only after the last or when         *)
(* cancelled, and leaves open only the body it returns, for any number of  *)
(* attempts and any mixture of failures.                                   *)
THEOREM EndsWell == UpSpec => []GetEndsWell
  BY UpInitially, UpStep, PTL DEF UpSpec, UpInv
=============================================================================
