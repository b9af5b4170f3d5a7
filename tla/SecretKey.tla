----------------------------- MODULE SecretKey -----------------------------
(***************************************************************************)
(* The encryption key of crypto.go: processes that share a home directory, *)
(* each with its environment, load or create ~/.localitas/secret.key once, *)
(* may stop at any point, and encrypt data that outlives them.             *)
(***************************************************************************)
EXTENDS Integers

CONSTANTS
    Procs,    \* processes, each started any number of times
    Secrets,  \* 32-byte keys
    Absent,   \* no key, or no file
    Partial,  \* a file that has not 32 bytes
    EnvKey,   \* LOCALITAS_SECRET_KEY of each: a key, Absent, or Partial if invalid
    Checking  \* those that call RequireSecretKey when they start

ASSUME SecretAssumption ==
    /\ Absent \notin Secrets /\ Partial \notin Secrets /\ Absent # Partial
    /\ EnvKey \in [Procs -> Secrets \union {Absent, Partial}]
    /\ Checking \subseteq Procs

VARIABLES
    file,    \* secret.key
    stage,   \* of each process, in getOrCreateKey
    loaded,  \* its encryptionKey
    minted,  \* the key it has generated
    data,    \* what has been encrypted: by which process, under which key
    overlap, \* two processes have created a key at a time
    misread  \* a good file could not be read

keyVars == <<file, stage, loaded, minted, data, overlap, misread>>

KeyInit ==
    /\ file = Absent
    /\ stage = [p \in Procs |-> "down"]
    /\ loaded = [p \in Procs |-> Absent]
    /\ minted = [p \in Procs |-> Absent]
    /\ data = {} /\ overlap = FALSE /\ misread = FALSE
-----------------------------------------------------------------------------
(* Definitions whose comment starts with "Fault" are not the program: each *)
(* is the definition below it with a mistake, which some property refutes. *)

(* decodeKeyEnv returns a key, or nil.                                     *)
decodeKeyEnv(p) == IF EnvKey[p] \in Secrets THEN EnvKey[p] ELSE Absent

(* Fault: the length of the file is not looked at.                         *)
FileThere(p) == EnvKey[p] \in Secrets \/ (EnvKey[p] = Absent /\ file # Absent)
RequireSecretKey(p) == EnvKey[p] \in Secrets \/ (EnvKey[p] = Absent /\ file \in Secrets)

Goto(p, label) == stage' = [stage EXCEPT ![p] = label]
Load(p, k) == loaded' = [loaded EXCEPT ![p] = k]

Start(p) ==
    /\ stage[p] = "down"
    /\ p \in Checking => RequireSecretKey(p)
    /\ Goto(p, "up")
    /\ UNCHANGED <<file, loaded, minted, data, overlap, misread>>

(* Fault: the key is resolved again at every call.                         *)
EveryTime(p) == stage[p] \in {"up", "ready"}
(* encryptionKeyOnce: other callers wait until the first has resolved it.  *)
Once(p) == stage[p] = "up"

FromEnv(p) ==
    /\ Once(p) /\ decodeKeyEnv(p) # Absent
    /\ Load(p, decodeKeyEnv(p))
    /\ Goto(p, "ready")
    /\ UNCHANGED <<file, minted, data, overlap, misread>>

FromFile(p) ==
    /\ Once(p) /\ decodeKeyEnv(p) = Absent
    /\ file \in Secrets
    /\ Load(p, file)
    /\ Goto(p, "ready")
    /\ UNCHANGED <<file, minted, data, overlap, misread>>

Creating(p) == stage[p] \in {"minting", "writing"}

(* A missing, unreadable or short file: a new key is generated.            *)
Mint(p) ==
    /\ Once(p) /\ decodeKeyEnv(p) = Absent
    /\ misread' = (misread \/ file \in Secrets)
    /\ \E k \in Secrets :
          /\ \A q \in Procs : k # minted[q] /\ k # EnvKey[q]
          /\ k # file /\ \A d \in data : k # d.key
          /\ minted' = [minted EXCEPT ![p] = k]
    /\ overlap' = (overlap \/ \E q \in Procs \ {p} : Creating(q))
    /\ Goto(p, "minting")
    /\ UNCHANGED <<file, loaded, data>>

(* Fault: the key is in use before it is in the file.                      *)
TruncateInUse(p) ==
    /\ stage[p] = "minting"
    /\ file' = Partial
    /\ Load(p, minted[p])
    /\ Goto(p, "ready")
    /\ UNCHANGED <<minted, data, overlap, misread>>

(* os.WriteFile: the file is truncated, then written.                      *)
Truncate(p) ==
    /\ stage[p] = "minting"
    /\ file' = Partial
    /\ Goto(p, "writing")
    /\ UNCHANGED <<loaded, minted, data, overlap, misread>>

Written(p) ==
    /\ stage[p] = "writing"
    /\ file' = minted[p]
    /\ Load(p, minted[p])
    /\ Goto(p, "ready")
    /\ UNCHANGED <<minted, data, overlap, misread>>

(* No randomness, or the write fails: every later call fails too.          *)
WriteFails(p) ==
    /\ Creating(p)
    /\ Goto(p, "failed")
    /\ UNCHANGED <<file, loaded, minted, data, overlap, misread>>

Encrypt(p) ==
    /\ stage[p] = "ready"
    /\ data' = data \union {[by |-> p, key |-> loaded[p]]}
    /\ UNCHANGED <<file, stage, loaded, minted, overlap, misread>>

Stop(p) ==
    /\ stage[p] # "down"
    /\ Goto(p, "down")
    /\ Load(p, Absent)
    /\ UNCHANGED <<file, minted, data, overlap, misread>>

KeyNext ==
    \E p \in Procs :
        \/ Start(p)
        \/ FromEnv(p)
        \/ FromFile(p)
        \/ Mint(p)
        \/ Truncate(p)
        \/ Written(p)
        \/ WriteFails(p)
        \/ Encrypt(p)
        \/ Stop(p)

KeySpec == KeyInit /\ [][KeyNext]_keyVars
-----------------------------------------------------------------------------
DecryptWithKey(d, k) == IF d.key = k THEN "plaintext" ELSE "decryption failed"
Decrypt(p, d) ==
    IF loaded[p] = Absent THEN "encryption key not available"
                          ELSE DecryptWithKey(d, loaded[p])

(* The key a process that starts now would find.                           *)
Stored(p) == IF decodeKeyEnv(p) # Absent THEN decodeKeyEnv(p) ELSE file
SameSource(p, q) == decodeKeyEnv(p) = decodeKeyEnv(q)

(* What a process encrypts, every process with the same source of the key  *)
(* can decrypt, now and after it is started again, wherever the ones that  *)
(* created the key stopped (crypto.go:43-46, 110-113).  Two processes that *)
(* create the key at a time, and a good file that cannot be read, are the  *)
(* cases in which the code does not keep this.                             *)
Readable ==
    overlap \/ misread \/
    \A d \in data, p \in Procs : SameSource(p, d.by) =>
        /\ DecryptWithKey(d, Stored(p)) = "plaintext"
        /\ loaded[p] # Absent => Decrypt(p, d) = "plaintext"

(* An app that calls RequireSecretKey when it starts never goes on to mint *)
(* a key of its own (crypto.go:83-87).                                     *)
CheckedNeverMint ==
    overlap \/ misread \/ \A p \in Checking : ~Creating(p)

(* The key of a process does not change while it runs, whatever happens to *)
(* the file.                                                               *)
KeyKept ==
    [][\A p \in Procs :
          loaded[p] # Absent /\ stage'[p] # "down" => loaded'[p] = loaded[p]]_keyVars
=============================================================================
