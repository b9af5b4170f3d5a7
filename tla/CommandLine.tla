---------------------------- MODULE CommandLine ----------------------------
(***************************************************************************)
(* The migrations of an app on the command line (cmd/localitas/main.go):   *)
(* `migrate new` names a file after the clock and the directory, `migrate  *)
(* run` applies what the server does not list, `migrate status` compares   *)
(* the two.  The server's side of ApplyDatabaseMigration is external.      *)
(***************************************************************************)
EXTENDS Integers, FiniteSets

CONSTANTS
    News,      \* invocations of `migrate new`
    Runs,      \* invocations of `migrate run`
    Foreign,   \* files `migrate new` does not write here: of another branch or
               \* machine, of the older naming scheme, or of neither scheme
    MaxSecond, \* bound on the clock
    MaxLost    \* bound on failing calls

(* A file: the scheme its name follows, its place (sec, seq) in the order  *)
(* of the names, the rest of the name (by), and for a legacy name, which   *)
(* sorts as a string anywhere among the others, its leading digits.        *)
ASSUME CliAssumption ==
    /\ MaxSecond \in Nat /\ MaxLost \in Nat
    /\ IsFiniteSet(Foreign)
    /\ \A f \in Foreign :
          /\ f.kind \in {"stamped", "legacy", "misnamed"}
          /\ f.sec \in Nat /\ f.seq \in Nat /\ f.digits \in Nat
          /\ f.by \notin News

VARIABLES
    second,   \* of the clock
    dir,      \* migrations/: the files in it
    new,      \* per invocation: stage, the file it is about to write, and as
              \* history what was in the directory and whether it could read it
    applied,  \* the files the database has applied
    runner,   \* per invocation of run: stage, the versions listed, the files
              \* found and to come, and as history those the server applied for it
    lost,
    together  \* history: two invocations of new have overlapped

cliVars == <<second, dir, new, applied, runner, lost, together>>

NotStarted == [stage |-> "start", versions |-> {}, listed |-> {}, files |-> {}, sent |-> {}]

CliInit ==
    /\ second = 1 /\ dir \in SUBSET Foreign
    /\ new = [i \in News |-> [stage |-> "start"]]
    /\ applied = {}
    /\ runner = [r \in Runs |-> NotStarted]
    /\ lost = 0 /\ together = FALSE
-----------------------------------------------------------------------------
(* parseFilename: the version in a name.  A stamp and bare digits are      *)
(* never the same string; two legacy names may have the same digits.       *)
Valid(f) == f.kind # "misnamed"
parseFilename(f) ==
    IF f.kind = "legacy" THEN <<"legacy", f.digits, 0>> ELSE <<"stamped", f.sec, f.seq>>

(* Fault: the number of the last file is taken again.                      *)
LastNumber(S) == IF S = {} THEN 0 ELSE CHOOSE n \in S : \A m \in S : m <= n
(* The number after the highest one in use.  It has three digits, so more  *)
(* than a thousand files a second are left out.                            *)
NextNumber(S) == IF S = {} THEN 0 ELSE 1 + (CHOOSE n \in S : \A m \in S : m <= n)

(* migrateNew reads the clock and the directory, and goes on with number 0 *)
(* when the directory cannot be read ...                                   *)
NewLists(i) ==
    /\ new[i].stage = "start"
    /\ \E read \in BOOLEAN :
          LET same == {f \in dir : f.kind = "stamped" /\ f.sec = second}
              seq == IF read THEN NextNumber({f.seq : f \in same}) ELSE 0
              file == [kind |-> "stamped", sec |-> second, seq |-> seq, by |-> i, digits |-> 0]
          IN  /\ read \/ lost < MaxLost
              /\ lost' = IF read THEN lost ELSE lost + 1
              /\ new' = [new EXCEPT ![i] =
                           [stage |-> "writing", file |-> file, seen |-> dir, read |-> read]]
    /\ together' = (together \/ \E j \in News : new[j].stage = "writing")
    /\ UNCHANGED <<second, dir, applied, runner>>

(* ... then writes the file.                                               *)
NewWrites(i) ==
    /\ new[i].stage = "writing"
    /\ dir' = dir \union {new[i].file}
    /\ new' = [new EXCEPT ![i].stage = "done"]
    /\ UNCHANGED <<second, applied, runner, lost, together>>

(* A file comes with a merge or a checkout (external).                     *)
Arrives ==
    /\ \E f \in Foreign \ dir : dir' = dir \union {f}
    /\ UNCHANGED <<second, new, applied, runner, lost, together>>

(* Time passes, or the clock is set back.                                  *)
ClockMoves ==
    /\ second' \in (1..MaxSecond) \ {second}
    /\ UNCHANGED <<dir, new, applied, runner, lost, together>>
-----------------------------------------------------------------------------
AppliedVersions == {parseFilename(f) : f \in applied}

Before(f, g) == f.sec < g.sec \/ (f.sec = g.sec /\ f.seq < g.seq)

Set(r, rec) == runner' = [runner EXCEPT ![r] = rec]

(* migrateRun lists the server's migrations first, the directory after.    *)
ListMigrations(r) ==
    /\ runner[r].stage = "start"
    /\ Set(r, [runner[r] EXCEPT !.stage = "listing", !.versions = AppliedVersions])
    /\ UNCHANGED <<second, dir, new, applied, lost, together>>

ListFiles(r) ==
    /\ runner[r].stage = "listing"
    /\ Set(r, [runner[r] EXCEPT !.stage = "running", !.listed = dir, !.files = dir])
    /\ UNCHANGED <<second, dir, new, applied, lost, together>>

(* os.ReadDir sorts by name; the order of two files of one place is open.  *)
IsCurrent(r, f) ==
    /\ runner[r].stage = "running"
    /\ f \in runner[r].files /\ \A g \in runner[r].files : ~Before(g, f)
Skips(r, f) == ~Valid(f) \/ parseFilename(f) \in runner[r].versions
Done(r, f) == [runner[r] EXCEPT !.files = @ \ {f}]

SkipFile(r, f) ==
    /\ IsCurrent(r, f) /\ Skips(r, f)
    /\ Set(r, Done(r, f))
    /\ UNCHANGED <<second, dir, new, applied, lost, together>>

(* The server applies a version once; again it is a no-op (external).      *)
Server(f) ==
    applied' = IF parseFilename(f) \in AppliedVersions THEN applied ELSE applied \union {f}

ApplyFile(r, f) ==
    /\ IsCurrent(r, f) /\ ~Skips(r, f)
    /\ Server(f)
    /\ Set(r, [Done(r, f) EXCEPT !.sent = @ \union {f}])
    /\ UNCHANGED <<second, dir, new, lost, together>>

(* Fault: a failure is reported and the next file is tried.                *)
GoOn(r, f) == Done(r, f)
Exit(r, f) == [runner[r] EXCEPT !.stage = "failed"]

(* The file cannot be read, or the call is refused or lost, before or      *)
(* after the server has applied it.                                        *)
ApplyFails(r, f) ==
    /\ IsCurrent(r, f) /\ ~Skips(r, f)
    /\ lost < MaxLost /\ lost' = lost + 1
    /\ \/ Server(f) /\ Set(r, [Exit(r, f) EXCEPT !.sent = @ \union {f}])
       \/ UNCHANGED applied /\ Set(r, Exit(r, f))
    /\ UNCHANGED <<second, dir, new, together>>

RunEnds(r) ==
    /\ runner[r].stage = "running" /\ runner[r].files = {}
    /\ Set(r, [runner[r] EXCEPT !.stage = "ok"])
    /\ UNCHANGED <<second, dir, new, applied, lost, together>>

CliNext ==
    \/ \E i \in News : NewLists(i) \/ NewWrites(i)
    \/ Arrives
    \/ ClockMoves
    \/ \E r \in Runs :
          \/ ListMigrations(r)
          \/ ListFiles(r)
          \/ \E f \in runner[r].files : SkipFile(r, f) \/ ApplyFile(r, f) \/ ApplyFails(r, f)
          \/ RunEnds(r)

CliSpec == CliInit /\ [][CliNext]_cliVars
-----------------------------------------------------------------------------
(* migrateStatus: a file it cannot parse has no version and stays pending. *)
Pending(files) == {f \in files : ~Valid(f) \/ parseFilename(f) \notin AppliedVersions}

(* A file that `migrate new` wrote has a version of its own, which is what *)
(* Migrator and the server take for granted, however the clock is set.     *)
(* The exceptions: two invocations of new that overlapped, a file that was *)
(* named without reading the directory, and a file that came from          *)
(* elsewhere after the directory was read (migrateNew, parseFilename).     *)
HaveWritten == {i \in News : new[i].stage = "done"}
Unread == {new[i].file : i \in {j \in HaveWritten : ~new[j].read}}
VersionsDistinct ==
    together \/
    \A i \in HaveWritten, g \in dir :
       g # new[i].file /\ Valid(g) /\ parseFilename(g) = parseFilename(new[i].file) =>
          \/ g \in Unread \/ new[i].file \in Unread
          \/ g \in Foreign \ new[i].seen

(* A `migrate run` that ends well has left nothing pending of the files it *)
(* found but the misnamed ones, itself or a run beside it; and one that    *)
(* got a file applied, even if it failed later, did so after every earlier *)
(* file it found had its version applied (migrateRun).                     *)
RunCompletes ==
    \A r \in Runs :
       /\ runner[r].stage = "ok" => \A f \in Pending(runner[r].listed) : ~Valid(f)
       /\ \A f \in runner[r].sent, g \in runner[r].listed :
             Before(g, f) /\ Valid(g) => parseFilename(g) \in AppliedVersions
=============================================================================
