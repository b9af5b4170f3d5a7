-------------------------- MODULE CommandLineProofs --------------------------
(***************************************************************************)
(* Theorems about CommandLine for any number of invocations of `migrate    *)
(* new` and `migrate run`, any files from elsewhere and any time.          *)
(***************************************************************************)
EXTENDS CommandLine, FiniteSetTheorems, TLAPS

-----------------------------------------------------------------------------
(* Lemmas about the operators of the module.                               *)

(* A finite set of numbers has a highest one: otherwise the sets of those  *)
(* above each would have no smallest.                                      *)
LEMMA Highest ==
  ASSUME NEW S \in SUBSET Nat, IsFiniteSet(S), S # {}
  PROVE  \E n \in S : \A m \in S : m <= n
  <1> DEFINE Above(n) == {m \in S : n < m}
             Aboves == {Above(n) : n \in S}
  <1>1. Aboves \subseteq FiniteSubsetsOf(S) /\ Aboves # {}
    <2>1. Aboves \subseteq SUBSET S /\ Aboves # {}
      OBVIOUS
    <2>2. QED
      BY <2>1, FS_FiniteSubsetsOfFinite
  <1>2. PICK T \in Aboves : \A U \in Aboves : <<U, T>> \notin StrictSubsetOrdering(S)
    <2> HIDE DEF Aboves
    <2>1. QED
      BY <1>1, WFMin, FS_StrictSubsetOrderingWellFounded
  <1>3. PICK n \in S : T = Above(n)
    BY <1>2
  <1>4. ASSUME NEW m \in Above(n) PROVE FALSE
    <2>1. m \in S /\ n < m /\ m \in Int /\ n \in Int /\ S \subseteq Int
      OBVIOUS
    <2>2. \A k \in S : m < k => n < k
      BY <2>1
    <2>3. Above(m) \subseteq Above(n)
      BY <2>2
    <2>4. m \in Above(n) /\ m \notin Above(m)
      BY <2>1
    <2>5. <<Above(m), Above(n)>> \in StrictSubsetOrdering(S)
      BY <2>3, <2>4 DEF StrictSubsetOrdering
    <2>6. QED
      BY <1>2, <1>3, <2>1, <2>5
  <1>5. QED
    BY <1>4

(* The next number is higher than all in use.                              *)
LEMMA NextIsHigher ==
  ASSUME NEW S \in SUBSET Nat, IsFiniteSet(S)
  PROVE  NextNumber(S) \in Nat /\ \A n \in S : n < NextNumber(S)
  <1>1. CASE S = {}
    BY <1>1 DEF NextNumber
  <1>2. CASE S # {}
    <2>1. PICK h \in S : h = CHOOSE n \in S : \A m \in S : m <= n
      BY <1>2, Highest
    <2>2. \A m \in S : m <= h
      BY <1>2, <2>1, Highest
    <2>3. NextNumber(S) = 1 + h
      BY <1>2, <2>1, Zenon DEF NextNumber
    <2>4. QED
      BY <2>2, <2>3
  <1>3. QED
    BY <1>1, <1>2

-----------------------------------------------------------------------------
(* The directory.                                                          *)

NewFiles ==
    [kind : {"stamped"}, sec : Nat, seq : Nat, by : News, digits : {0}]
Files == Foreign \union NewFiles
NewStates ==
    [stage : {"start"}] \union
    [stage : {"writing", "done"}, file : NewFiles, seen : SUBSET Files, read : BOOLEAN]

DirTypeOK ==
    /\ second \in Nat /\ together \in BOOLEAN
    /\ IsFiniteSet(dir) /\ dir \subseteq Files
    /\ new \in [News -> NewStates]

Named(i) == new[i].stage # "start"
Origins ==
    /\ \A f \in dir : f \in Foreign \/ \E i \in HaveWritten : f = new[i].file
    /\ \A i \in HaveWritten : new[i].file \in dir

(* What an invocation saw in the directory has not the version it chose,   *)
(* if it could read it.                                                    *)
Numbered(i) ==
    Named(i) /\ new[i].read =>
       \A g \in new[i].seen : Valid(g) => parseFilename(g) # parseFilename(new[i].file)

(* Of two invocations that do not overlap the later saw the other's file.  *)
InTurn ==
    \A i, j \in News :
       i # j /\ Named(i) /\ Named(j) =>
          new[i].file \in new[j].seen \/ new[j].file \in new[i].seen

DirInv ==
    /\ DirTypeOK /\ Origins
    /\ \A i \in News : Numbered(i)
    /\ together \/ InTurn

LEMMA DirInitially == CliInit => DirInv
  <1> SUFFICES ASSUME CliInit PROVE DirInv
    OBVIOUS
  <1>1. \A i \in News : ~Named(i)
    BY DEF CliInit, Named
  <1>2. HaveWritten = {}
    BY DEF CliInit, HaveWritten
  <1>3. dir \subseteq Foreign /\ IsFiniteSet(dir)
    BY CliAssumption, FS_Subset DEF CliInit
  <1>4. DirTypeOK
    BY <1>3 DEF CliInit, DirTypeOK, NewStates, Files
  <1>5. QED
    BY <1>1, <1>2, <1>3, <1>4 DEF DirInv, Origins, Numbered, InTurn

(* The number an invocation chooses is not that of a file it saw.          *)
LEMMA FreeNumber ==
  ASSUME DirTypeOK,
         NEW file \in NewFiles, file.sec = second,
         file.seq = NextNumber({f.seq : f \in {g \in dir : g.kind = "stamped" /\ g.sec = second}}),
         NEW g \in dir, Valid(g)
  PROVE  parseFilename(g) # parseFilename(file)
  <1> DEFINE same == {f \in dir : f.kind = "stamped" /\ f.sec = second}
             S == {f.seq : f \in same}
  <1>1. file.kind = "stamped" /\ parseFilename(file) = <<"stamped", second, file.seq>>
    BY DEF NewFiles, parseFilename
  <1>2. CASE g.kind = "legacy"
    BY <1>1, <1>2 DEF parseFilename
  <1>3. CASE g.kind = "stamped" /\ g.sec = second
    <2>1. IsFiniteSet(same)
      BY FS_Subset DEF DirTypeOK
    <2>2. [f \in same |-> f.seq] \in Surjection(same, S)
      BY DEF Surjection
    <2>3. IsFiniteSet(S)
      BY <2>1, <2>2, FS_Surjection
    <2>4. S \in SUBSET Nat
      BY CliAssumption DEF DirTypeOK, Files, NewFiles
    <2>5. g.seq \in S
      BY <1>3
    <2>6. g.seq < NextNumber(S) /\ g.seq \in Nat
      BY <2>3, <2>4, <2>5, NextIsHigher
    <2>7. g.seq # file.seq
      BY <2>4, <2>6
    <2>8. QED
      BY <1>1, <1>3, <2>7 DEF parseFilename
  <1>4. CASE g.kind = "stamped" /\ g.sec # second
    BY <1>1, <1>4 DEF parseFilename
  <1>5. g.kind \in {"stamped", "legacy"}
    BY CliAssumption DEF Valid, DirTypeOK, Files, NewFiles
  <1>6. QED
    BY <1>2, <1>3, <1>4, <1>5

LEMMA ListsStep ==
  ASSUME DirInv, NEW i \in News, NewLists(i)
  PROVE  DirInv'
  <1> DEFINE S == {f.seq : f \in {g \in dir : g.kind = "stamped" /\ g.sec = second}}
  <1>1. DirTypeOK /\ Origins
    BY DEF DirInv
  <1>2. PICK read \in BOOLEAN :
           new' = [new EXCEPT ![i] =
              [stage |-> "writing",
               file |-> [kind |-> "stamped", sec |-> second,
                         seq |-> IF read THEN NextNumber(S) ELSE 0, by |-> i, digits |-> 0],
               seen |-> dir, read |-> read]]
    BY DEF NewLists
  <1> DEFINE file == [kind |-> "stamped", sec |-> second,
                      seq |-> IF read THEN NextNumber(S) ELSE 0, by |-> i, digits |-> 0]
  <1>3. /\ UNCHANGED <<second, dir>> /\ new[i].stage = "start"
        /\ together' = (together \/ \E j \in News : new[j].stage = "writing")
    BY DEF NewLists
  <1>4. NextNumber(S) \in Nat
    <2>1. S \in SUBSET Nat
      BY <1>1, CliAssumption DEF DirTypeOK, Files, NewFiles
    <2>2. IsFiniteSet({g \in dir : g.kind = "stamped" /\ g.sec = second})
      BY <1>1, FS_Subset DEF DirTypeOK
    <2>3. [f \in {g \in dir : g.kind = "stamped" /\ g.sec = second} |-> f.seq]
             \in Surjection({g \in dir : g.kind = "stamped" /\ g.sec = second}, S)
      BY DEF Surjection
    <2>4. IsFiniteSet(S)
      BY <2>2, <2>3, FS_Surjection
    <2>5. QED
      BY <2>1, <2>4, NextIsHigher
  <1>5. file \in NewFiles /\ file.sec = second /\ (read => file.seq = NextNumber(S))
    <2> HIDE DEF S
    <2>1. QED
      BY <1>1, <1>4 DEF NewFiles, DirTypeOK
  <1>6. read => \A g \in dir : Valid(g) => parseFilename(g) # parseFilename(file)
    <2>1. SUFFICES ASSUME read, NEW g \in dir, Valid(g)
                   PROVE  parseFilename(g) # parseFilename(file)
      OBVIOUS
    <2>2. file.seq = NextNumber(S)
      BY <1>5, <2>1
    <2> HIDE DEF file
    <2>3. QED
      BY <1>1, <1>5, <2>1, <2>2, FreeNumber
  <1> HIDE DEF file, S
  <1>7. new' = [new EXCEPT ![i] = [stage |-> "writing", file |-> file, seen |-> dir, read |-> read]]
    BY <1>2 DEF file, S
  <1>8. /\ new'[i] = [stage |-> "writing", file |-> file, seen |-> dir, read |-> read]
        /\ \A j \in News \ {i} : new'[j] = new[j]
        /\ new' \in [News -> NewStates]
    BY <1>1, <1>5, <1>7 DEF DirTypeOK, NewStates
  <1>9. together' \in BOOLEAN
    BY <1>1, <1>3, Zenon DEF DirTypeOK
  <1>10. DirTypeOK'
    BY <1>1, <1>3, <1>8, <1>9 DEF DirTypeOK
  <1>11. HaveWritten' = HaveWritten /\ \A j \in HaveWritten : new'[j] = new[j]
    BY <1>3, <1>8 DEF HaveWritten
  <1>12. Origins'
    BY <1>1, <1>3, <1>11 DEF Origins
  <1>13. ASSUME NEW j \in News PROVE Numbered(j)'
    <2>1. CASE j = i
      BY <1>6, <1>8, <2>1 DEF Numbered, Valid, parseFilename
    <2>2. CASE j # i
      BY <1>8, <2>2 DEF DirInv, Numbered, Named, Valid, parseFilename
    <2>3. QED
      BY <2>1, <2>2
  <1>14. ASSUME ~together' PROVE InTurn'
    <2>1. InTurn /\ \A j \in News : new[j].stage # "writing"
      BY <1>3, <1>14 DEF DirInv
    <2>2. \A j \in News \ {i} : Named(j) => j \in HaveWritten
      BY <1>1, <2>1 DEF Named, HaveWritten, DirTypeOK, NewStates
    <2>3. \A j \in News \ {i} : Named(j)' => new'[j].file \in new'[i].seen
      BY <1>1, <1>8, <2>2 DEF Named, Origins
    <2>4. \A j \in News \ {i} : Named(j)' = Named(j)
      BY <1>8 DEF Named
    <2>5. QED
      BY <1>8, <2>1, <2>3, <2>4 DEF InTurn
  <1>15. QED
    BY <1>10, <1>12, <1>13, <1>14 DEF DirInv

LEMMA WritesStep ==
  ASSUME DirInv, NEW i \in News, NewWrites(i)
  PROVE  DirInv'
  <1>1. DirTypeOK /\ Origins /\ new[i].stage = "writing"
    BY DEF DirInv, NewWrites
  <1>2. /\ dir' = dir \union {new[i].file}
        /\ new' = [new EXCEPT ![i].stage = "done"]
        /\ UNCHANGED <<second, together>>
    BY DEF NewWrites
  <1>3. new[i] \in [stage : {"writing", "done"}, file : NewFiles, seen : SUBSET Files, read : BOOLEAN]
    BY <1>1 DEF DirTypeOK, NewStates
  <1>4. /\ new'[i].stage = "done" /\ new'[i].file = new[i].file
        /\ new'[i].seen = new[i].seen /\ new'[i].read = new[i].read
        /\ \A j \in News \ {i} : new'[j] = new[j]
        /\ new' \in [News -> NewStates]
    BY <1>1, <1>2, <1>3 DEF DirTypeOK, NewStates
  <1>5. IsFiniteSet(dir') /\ dir' \subseteq Files
    BY <1>1, <1>2, <1>3, FS_AddElement DEF DirTypeOK, Files
  <1>6. DirTypeOK'
    BY <1>1, <1>2, <1>4, <1>5 DEF DirTypeOK
  <1>7. HaveWritten' = HaveWritten \union {i} /\ \A j \in News : new'[j].file = new[j].file
    BY <1>4 DEF HaveWritten
  <1>8. Origins'
    BY <1>1, <1>2, <1>7 DEF Origins
  <1>9. \A j \in News :
           /\ Named(j)' = Named(j)
           /\ new'[j].seen = new[j].seen /\ new'[j].read = new[j].read
    BY <1>1, <1>4 DEF Named
  <1>10. \A j \in News : Numbered(j)'
    BY <1>7, <1>9 DEF DirInv, Numbered, Valid, parseFilename
  <1>11. InTurn => InTurn'
    BY <1>7, <1>9 DEF InTurn
  <1>12. QED
    BY <1>2, <1>6, <1>8, <1>10, <1>11 DEF DirInv

LEMMA ArrivesStep ==
  ASSUME DirInv, Arrives
  PROVE  DirInv'
  <1>1. PICK f \in Foreign : dir' = dir \union {f}
    BY DEF Arrives
  <1>2. IsFiniteSet(dir') /\ dir' \subseteq Files
    BY <1>1, FS_AddElement DEF DirInv, DirTypeOK, Files
  <1>3. UNCHANGED <<second, new, together>>
    BY DEF Arrives
  <1>4. QED
    BY <1>1, <1>2, <1>3
       DEF DirInv, DirTypeOK, Origins, HaveWritten, Numbered, InTurn, Named, Valid, parseFilename

LEMMA DirStep == DirInv /\ [CliNext]_cliVars => DirInv'
  <1> SUFFICES ASSUME DirInv, [CliNext]_cliVars PROVE DirInv'
    OBVIOUS
  <1>1. CASE second' \in Nat /\ UNCHANGED <<dir, new, together>>
    BY <1>1 DEF DirInv, DirTypeOK, Origins, HaveWritten, Numbered, InTurn, Named, Valid, parseFilename
  <1>2. ClockMoves => second' \in Nat /\ UNCHANGED <<dir, new, together>>
    BY CliAssumption DEF ClockMoves
  <1>3. UNCHANGED cliVars => second' \in Nat /\ UNCHANGED <<dir, new, together>>
    BY DEF cliVars, DirInv, DirTypeOK
  <1>4. ASSUME NEW r \in Runs,
               \/ ListMigrations(r) \/ ListFiles(r) \/ RunEnds(r)
               \/ \E f \in runner[r].files : SkipFile(r, f) \/ ApplyFile(r, f) \/ ApplyFails(r, f)
        PROVE  second' \in Nat /\ UNCHANGED <<dir, new, together>>
    BY <1>4 DEF ListMigrations, ListFiles, SkipFile, ApplyFile, ApplyFails, RunEnds, DirInv, DirTypeOK
  <1>5. QED
    BY <1>1, <1>2, <1>3, <1>4, ListsStep, WritesStep, ArrivesStep DEF CliNext

(* A file that `migrate new` wrote has a version of its own, for any       *)
(* number of invocations, any files that come from elsewhere and any       *)
(* setting of the clock, but for the three exceptions of VersionsDistinct. *)
THEOREM VersionsApart == CliSpec => []VersionsDistinct
  <1>1. DirInv => VersionsDistinct
    <2>1. SUFFICES ASSUME DirInv, ~together, NEW i \in HaveWritten, NEW g \in dir,
                          g # new[i].file, Valid(g),
                          parseFilename(g) = parseFilename(new[i].file)
                   PROVE  \/ g \in Unread \/ new[i].file \in Unread
                          \/ g \in Foreign \ new[i].seen
      BY DEF VersionsDistinct
    <2>2. i \in News /\ Named(i) /\ Valid(new[i].file)
      BY <2>1 DEF HaveWritten, Named, Valid, DirInv, DirTypeOK, NewStates, NewFiles
    <2>3. g \in new[i].seen => ~new[i].read
      BY <2>1, <2>2 DEF DirInv, Numbered
    <2>4. CASE g \in Foreign
      BY <2>1, <2>3, <2>4 DEF Unread
    <2>5. ASSUME NEW j \in HaveWritten, g = new[j].file
          PROVE  g \in Unread \/ new[i].file \in Unread
      <3>1. j \in News /\ Named(j) /\ i # j
        BY <2>1, <2>5 DEF HaveWritten, Named
      <3>2. new[i].file \in new[j].seen => ~new[j].read
        BY <2>1, <2>2, <2>5, <3>1 DEF DirInv, Numbered
      <3>3. new[i].file \in new[j].seen \/ g \in new[i].seen
        BY <2>1, <2>2, <2>5, <3>1 DEF DirInv, InTurn
      <3>4. QED
        BY <2>3, <2>5, <3>2, <3>3 DEF Unread
    <2>6. QED
      BY <2>1, <2>4, <2>5 DEF DirInv, Origins
  <1>2. QED
    BY DirInitially, DirStep, <1>1, PTL DEF CliSpec
-----------------------------------------------------------------------------
(* The runs.                                                               *)

Versions == {parseFilename(f) : f \in Files}
RunStates ==
    [stage : {"start", "listing", "running", "ok", "failed"}, versions : SUBSET Versions,
     listed : SUBSET Files, files : SUBSET Files, sent : SUBSET Files]
RunTypeOK == applied \subseteq Files /\ runner \in [Runs -> RunStates]

IsApplied(f) == parseFilename(f) \in AppliedVersions

(* Of the files a run found the ones it has got past are applied, and so   *)
(* are those before a file it has sent.                                    *)
OnTrack(r) ==
    /\ runner[r].versions \subseteq AppliedVersions
    /\ runner[r].stage \in {"start", "listing"} => runner[r].sent = {}
    /\ runner[r].stage \notin {"start", "listing"} =>
          \A f \in runner[r].listed : f \in runner[r].files \/ ~Valid(f) \/ IsApplied(f)
    /\ \A f \in runner[r].sent, g \in runner[r].listed : Before(g, f) /\ Valid(g) => IsApplied(g)
    /\ runner[r].stage = "ok" => runner[r].files = {}

RunInv == RunTypeOK /\ \A r \in Runs : OnTrack(r)

LEMMA RunInitially == CliInit => RunInv
  BY DEF CliInit, NotStarted, RunInv, RunTypeOK, RunStates, OnTrack, AppliedVersions

(* What others apply leaves a run on its track.                            *)
LEMMA OthersOnTrack ==
  ASSUME NEW r \in Runs, OnTrack(r), runner'[r] = runner[r],
         AppliedVersions \subseteq AppliedVersions'
  PROVE  OnTrack(r)'
  BY DEF OnTrack, IsApplied, Valid, Before, parseFilename

(* What the server has applied only grows.                                 *)
LEMMA ServerApplies ==
  ASSUME RunTypeOK, NEW f \in Files, Server(f)
  PROVE  /\ applied' \subseteq Files
         /\ AppliedVersions' = AppliedVersions \union {parseFilename(f)}
  BY DEF Server, RunTypeOK, AppliedVersions, parseFilename

RunStep(r) ==
    \/ ListMigrations(r) \/ ListFiles(r) \/ RunEnds(r)
    \/ \E f \in runner[r].files : SkipFile(r, f) \/ ApplyFile(r, f) \/ ApplyFails(r, f)

(* The next file is got past, having been applied, found to be applied, or *)
(* found to have no version.                                               *)
LEMMA GotPast ==
  ASSUME RunTypeOK, NEW r \in Runs, OnTrack(r), NEW f \in runner[r].files, IsCurrent(r, f),
         AppliedVersions \subseteq AppliedVersions', ~Valid(f) \/ IsApplied(f)',
         NEW sent \in SUBSET (runner[r].sent \union {f}),
         runner' = [runner EXCEPT ![r] =
            [runner[r] EXCEPT !.files = @ \ {f}, !.sent = sent]]
  PROVE  runner' \in [Runs -> RunStates] /\ OnTrack(r)'
  <1> DEFINE q == runner[r]
  <1>1. q \in RunStates /\ q.stage = "running" /\ f \in Files
    BY DEF RunTypeOK, RunStates, IsCurrent
  <1>2. [q EXCEPT !.files = @ \ {f}, !.sent = sent] \in RunStates
    BY <1>1 DEF RunStates
  <1>3. /\ runner' \in [Runs -> RunStates]
        /\ runner'[r].stage = "running" /\ runner'[r].versions = q.versions
        /\ runner'[r].listed = q.listed /\ runner'[r].files = q.files \ {f}
        /\ runner'[r].sent = sent
    BY <1>1, <1>2 DEF RunTypeOK, RunStates
  <1>4. \A g \in q.listed : g \in q.files \/ ~Valid(g) \/ IsApplied(g)'
    BY <1>1 DEF OnTrack, IsApplied
  <1>5. \A g \in q.listed : Before(g, f) /\ Valid(g) => IsApplied(g)'
    BY <1>4 DEF IsCurrent
  <1>6. \A h \in sent, g \in q.listed : Before(g, h) /\ Valid(g) => IsApplied(g)'
    BY <1>5 DEF OnTrack, IsApplied
  <1>7. QED
    BY <1>3, <1>4, <1>6 DEF OnTrack, IsApplied, Valid, Before, parseFilename

LEMMA StaysOnTrack ==
  ASSUME DirTypeOK, RunInv, NEW r \in Runs, RunStep(r)
  PROVE  /\ RunTypeOK' /\ OnTrack(r)' /\ AppliedVersions \subseteq AppliedVersions'
         /\ \A p \in Runs \ {r} : runner'[p] = runner[p]
  <1> DEFINE q == runner[r]
  <1>1. q \in RunStates /\ OnTrack(r) /\ RunTypeOK
    BY DEF RunInv, RunTypeOK
  <1>2. \A p \in Runs \ {r} : runner'[p] = runner[p]
    BY <1>1 DEF RunStep, RunTypeOK, ListMigrations, ListFiles, RunEnds, SkipFile, ApplyFile,
                ApplyFails, Set
  <1>3. CASE ListMigrations(r)
    <2>1. AppliedVersions \subseteq Versions
      BY <1>1 DEF RunTypeOK, AppliedVersions, Versions
    <2>2. [q EXCEPT !.stage = "listing", !.versions = AppliedVersions] \in RunStates
      BY <1>1, <2>1 DEF RunStates
    <2>3. /\ runner' \in [Runs -> RunStates] /\ UNCHANGED applied /\ q.stage = "start"
          /\ runner'[r] = [q EXCEPT !.stage = "listing", !.versions = AppliedVersions]
      BY <1>1, <1>3, <2>2 DEF ListMigrations, Set, RunTypeOK
    <2>4. AppliedVersions' = AppliedVersions
      BY <2>3 DEF AppliedVersions, parseFilename
    <2>5. /\ runner'[r].stage = "listing" /\ runner'[r].versions = AppliedVersions
          /\ runner'[r].sent = {}
      BY <1>1, <2>3 DEF RunStates, OnTrack
    <2>6. QED
      BY <1>1, <1>2, <2>3, <2>4, <2>5 DEF OnTrack, RunTypeOK
  <1>4. CASE ListFiles(r)
    <2>1. [q EXCEPT !.stage = "running", !.listed = dir, !.files = dir] \in RunStates
      BY <1>1 DEF RunStates, DirTypeOK
    <2>2. /\ runner' \in [Runs -> RunStates] /\ UNCHANGED applied /\ q.stage = "listing"
          /\ runner'[r] = [q EXCEPT !.stage = "running", !.listed = dir, !.files = dir]
      BY <1>1, <1>4, <2>1 DEF ListFiles, Set, RunTypeOK
    <2>3. AppliedVersions' = AppliedVersions
      BY <2>2 DEF AppliedVersions, parseFilename
    <2>4. /\ runner'[r].stage = "running" /\ runner'[r].versions = q.versions
          /\ runner'[r].listed = dir /\ runner'[r].files = dir /\ runner'[r].sent = {}
      BY <1>1, <2>2 DEF RunStates, OnTrack
    <2>5. QED
      BY <1>1, <1>2, <2>2, <2>3, <2>4 DEF OnTrack, RunTypeOK
  <1>5. ASSUME NEW f \in q.files, SkipFile(r, f) PROVE RunTypeOK' /\ OnTrack(r)'
    <2>1. UNCHANGED applied /\ IsCurrent(r, f) /\ Skips(r, f)
      BY <1>5 DEF SkipFile
    <2>2. AppliedVersions' = AppliedVersions
      BY <2>1 DEF AppliedVersions, parseFilename
    <2>3. runner' = [runner EXCEPT ![r] = [q EXCEPT !.files = @ \ {f}, !.sent = q.sent]]
      BY <1>1, <1>5 DEF SkipFile, Set, Done, RunStates
    <2>4. ~Valid(f) \/ IsApplied(f)'
      BY <1>1, <2>1, <2>2 DEF Skips, OnTrack, IsApplied, parseFilename
    <2>5. runner' \in [Runs -> RunStates] /\ OnTrack(r)'
      BY <1>1, <2>1, <2>2, <2>3, <2>4, GotPast
    <2>6. QED
      BY <1>1, <2>1, <2>5 DEF RunTypeOK
  <1>6. ASSUME NEW f \in q.files, ApplyFile(r, f) PROVE RunTypeOK' /\ OnTrack(r)'
    <2>1. Server(f) /\ IsCurrent(r, f) /\ f \in Files
      BY <1>1, <1>6 DEF ApplyFile, RunStates
    <2>2. applied' \subseteq Files /\ AppliedVersions' = AppliedVersions \union {parseFilename(f)}
      BY <1>1, <2>1, ServerApplies
    <2>3. runner' = [runner EXCEPT ![r] = [q EXCEPT !.files = @ \ {f}, !.sent = q.sent \union {f}]]
      BY <1>1, <1>6 DEF ApplyFile, Set, Done, RunStates
    <2>4. IsApplied(f)'
      BY <2>2 DEF IsApplied, parseFilename
    <2>5. runner' \in [Runs -> RunStates] /\ OnTrack(r)'
      BY <1>1, <2>1, <2>2, <2>3, <2>4, GotPast
    <2>6. QED
      BY <2>2, <2>5 DEF RunTypeOK
  <1>7. ASSUME NEW f \in q.files, ApplyFails(r, f) PROVE RunTypeOK' /\ OnTrack(r)'
    <2>1. IsCurrent(r, f) /\ f \in Files /\ q.stage = "running"
      BY <1>1, <1>7 DEF ApplyFails, RunStates, IsCurrent
    <2>2. \A g \in q.listed : Before(g, f) /\ Valid(g) => IsApplied(g)
      BY <1>1, <2>1 DEF OnTrack, IsCurrent
    <2>3. /\ applied' \subseteq Files /\ AppliedVersions \subseteq AppliedVersions'
      BY <1>1, <1>7, <2>1, ServerApplies DEF ApplyFails, AppliedVersions, parseFilename, RunTypeOK
    <2>4. PICK sent \in SUBSET Files :
             /\ sent \subseteq q.sent \union {f}
             /\ runner' = [runner EXCEPT ![r] = [q EXCEPT !.stage = "failed", !.sent = sent]]
      BY <1>1, <1>7, <2>1 DEF ApplyFails, Set, Exit, RunStates
    <2>5. [q EXCEPT !.stage = "failed", !.sent = sent] \in RunStates
      BY <1>1 DEF RunStates
    <2>6. /\ runner' \in [Runs -> RunStates]
          /\ runner'[r].stage = "failed" /\ runner'[r].versions = q.versions
          /\ runner'[r].listed = q.listed /\ runner'[r].files = q.files /\ runner'[r].sent = sent
      BY <1>1, <2>4, <2>5 DEF RunTypeOK, RunStates
    <2>7. \A h \in sent, g \in q.listed : Before(g, h) /\ Valid(g) => IsApplied(g)'
      BY <1>1, <2>2, <2>3, <2>4 DEF OnTrack, IsApplied, parseFilename
    <2>8. \A g \in q.listed : g \in q.files \/ ~Valid(g) \/ IsApplied(g)'
      BY <1>1, <2>1, <2>3 DEF OnTrack, IsApplied, parseFilename
    <2>9. QED
      BY <1>1, <2>3, <2>6, <2>7, <2>8 DEF OnTrack, RunTypeOK, IsApplied, Valid, Before, parseFilename
  <1>8. CASE RunEnds(r)
    <2>1. [q EXCEPT !.stage = "ok"] \in RunStates
      BY <1>1 DEF RunStates
    <2>2. /\ runner' \in [Runs -> RunStates] /\ UNCHANGED applied
          /\ runner'[r] = [q EXCEPT !.stage = "ok"] /\ q.stage = "running" /\ q.files = {}
      BY <1>1, <1>8, <2>1 DEF RunEnds, Set, RunTypeOK
    <2>3. AppliedVersions' = AppliedVersions
      BY <2>2 DEF AppliedVersions, parseFilename
    <2>4. /\ runner'[r].stage = "ok" /\ runner'[r].versions = q.versions
          /\ runner'[r].listed = q.listed /\ runner'[r].files = {} /\ runner'[r].sent = q.sent
      BY <1>1, <2>2 DEF RunStates
    <2>5. QED
      BY <1>1, <1>2, <2>2, <2>3, <2>4
         DEF OnTrack, RunTypeOK, IsApplied, Valid, Before, parseFilename
  <1>9. AppliedVersions \subseteq AppliedVersions'
    <2>1. UNCHANGED applied \/ \E f \in Files : Server(f)
      BY <1>1 DEF RunStep, RunStates, ListMigrations, ListFiles, RunEnds, SkipFile, ApplyFile,
                  ApplyFails
    <2>2. QED
      BY <1>1, <2>1, ServerApplies DEF AppliedVersions, parseFilename
  <1>10. QED
    BY <1>2, <1>3, <1>4, <1>5, <1>6, <1>7, <1>8, <1>9 DEF RunStep

LEMMA RunInvStep == DirInv /\ RunInv /\ [CliNext]_cliVars => RunInv'
  <1> SUFFICES ASSUME DirInv, RunInv, [CliNext]_cliVars PROVE RunInv'
    OBVIOUS
  <1>1. CASE UNCHANGED <<applied, runner>>
    <2>1. AppliedVersions' = AppliedVersions
      BY <1>1 DEF AppliedVersions, parseFilename
    <2>2. \A r \in Runs : OnTrack(r)'
      BY <1>1, <2>1, OthersOnTrack DEF RunInv
    <2>3. QED
      BY <1>1, <2>2 DEF RunInv, RunTypeOK
  <1>2. ASSUME NEW r \in Runs, RunStep(r) PROVE RunInv'
    <2>1. RunTypeOK' /\ OnTrack(r)' /\ AppliedVersions \subseteq AppliedVersions'
      BY <1>2, StaysOnTrack DEF DirInv
    <2>2. \A p \in Runs \ {r} : runner'[p] = runner[p]
      BY <1>2, StaysOnTrack DEF DirInv
    <2>3. \A p \in Runs \ {r} : OnTrack(p)'
      BY <2>1, <2>2, OthersOnTrack DEF RunInv
    <2>4. QED
      BY <2>1, <2>3 DEF RunInv
  <1>3. \A i \in News : NewLists(i) \/ NewWrites(i) => UNCHANGED <<applied, runner>>
    BY DEF NewLists, NewWrites
  <1>4. Arrives \/ ClockMoves \/ UNCHANGED cliVars => UNCHANGED <<applied, runner>>
    BY DEF Arrives, ClockMoves, cliVars
  <1>5. QED
    BY <1>1, <1>2, <1>3, <1>4 DEF CliNext, RunStep

(* A run that ends well has left nothing of what it found pending, and one *)
(* that got a file applied did so after all earlier ones it found, for any *)
(* number of runs at once, any files that come late, of either scheme, and *)
(* any calls lost.                                                         *)
THEOREM RunsComplete == CliSpec => []RunCompletes
  <1>1. RunInv => RunCompletes
    BY DEF RunInv, OnTrack, RunCompletes, Pending, IsApplied
  <1>2. QED
    BY DirInitially, DirStep, RunInitially, RunInvStep, <1>1, PTL DEF CliSpec
=============================================================================
