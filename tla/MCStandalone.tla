---------------------------- MODULE MCStandalone ----------------------------
(***************************************************************************)
(* TLC instances of the components that share no state with any other: the *)
(* encryption key, the migrations and the SQL shell of the command line,   *)
(* the lock and the consumer group in a cache, and a request to an         *)
(* upstream service.  A behaviour runs one of Parts and leaves the others  *)
(* as they started.                                                        *)
(***************************************************************************)
EXTENDS SecretKey, CommandLine, SQLShell, CacheLock, ConsumerGroup, Upstream, TLC

CONSTANTS Parts, app, peer, core, s1, s2, s3, s4

VARIABLE part

MCEnvKey == (app :> Partial) @@ (peer :> Absent) @@ (core :> s1)

Piece(src, out) == [src |-> src, out |-> out]
Plain(src) == Piece(src, src)
(* Words, strings that hold quotes, semicolons and dashes, comments that   *)
(* hold a quote and a semicolon, a trigger body on one line, line breaks.  *)
MCPieces ==
    {Plain(<<"x">>), Plain(<<"select">>), Plain(<<"begin", "x">>),
     Plain(<<"quote", "semicolon", "quote", "quote", "dash", "dash", "quote">>),
     Plain(<<"dquote", "quote", "semicolon", "dquote">>),
     Plain(<<"begin", "blank", "x", "semicolon", "quote", "end", "quote", "semicolon", "end">>),
     Piece(<<"x", "dash", "dash", "semicolon", "quote", "newline">>, <<"x", "newline">>),
     Plain(<<"x", "newline">>)}
(* A trigger body typed over several lines, two of which end in a          *)
(* semicolon.                                                              *)
MCTriggerLines ==
    {Plain(<<"begin", "newline", "x", "semicolon", "newline", "x", "semicolon", "newline", "end">>)}

(* The theorems about SQLShell assume no more of a piece than these have.  *)
ASSUME MCPiecesAssumption == \A p \in MCPieces : SelfContained(p)

File(kind, sec, seq, digits, by) ==
    [kind |-> kind, sec |-> sec, seq |-> seq, digits |-> digits, by |-> by]
(* Two legacy files of one version, of which the first sorts before every  *)
(* stamp and the second after them, a file of another branch in the first  *)
(* second, and one that has no version.                                    *)
MCForeign ==
    {File("legacy", 0, 1, 3, "tables"), File("legacy", 3, 0, 3, "index"),
     File("stamped", 1, 0, 0, "branch"), File("misnamed", 0, 0, 0, "notes")}

(* A part that is not run starts in one state.                             *)
ShellIdle ==
    /\ text = <<>> /\ wanted = <<>> /\ rest = <<>> /\ buf = <<>> /\ queue = <<>>
    /\ phase = "idle" /\ interactive = FALSE /\ sent = <<>> /\ errors = 0

MCInit ==
    /\ part \in Parts
    /\ KeyInit /\ CliInit /\ LockInit /\ GroupInit /\ UpInit
    /\ part \notin {"files", "migrations"} => dir = {}
    /\ part # "upstream" => attempts = 1
    /\ IF part = "shell" THEN ShellInit ELSE ShellIdle

MCNext ==
    /\ UNCHANGED part
    /\ part = "key" \/ UNCHANGED keyVars
    /\ part \in {"files", "migrations"} \/ UNCHANGED cliVars
    /\ part = "files" => UNCHANGED runner
    /\ part = "migrations" => UNCHANGED new
    /\ part = "shell" \/ UNCHANGED shellVars
    /\ part = "lock" \/ UNCHANGED lockVars
    /\ part = "group" \/ UNCHANGED groupVars
    /\ part = "upstream" \/ UNCHANGED upVars
    /\ \/ part = "key" /\ KeyNext
       \/ part \in {"files", "migrations"} /\ CliNext
       \/ part = "shell" /\ ShellNext
       \/ part = "lock" /\ LockNext
       \/ part = "group" /\ GroupNext
       \/ part = "upstream" /\ UpNext

MCvars == <<keyVars, cliVars, shellVars, lockVars, groupVars, upVars, part>>

(* Time passes, and a Del reaches the server or fails within MaxDelay.     *)
LockFairness ==
    /\ WF_MCvars(part = "lock" /\ HalfSecond /\ MCNext)
    /\ WF_MCvars(part = "lock" /\ (\E c \in Clients : ServerDeletes(c) \/ DelFails(c)) /\ MCNext)

(* Time passes, some worker goes on asking for messages, and a worker that *)
(* has one and does not stop works and acknowledges.                       *)
GroupFairness ==
    /\ WF_MCvars(part = "group" /\ GroupTick /\ MCNext)
    /\ WF_MCvars(part = "group" /\ (\E w \in Workers : Claim(w) \/ Reclaim(w)) /\ MCNext)
    /\ WF_MCvars(part = "group" /\ (\E w \in Workers : Work(w) \/ Ack(w)) /\ MCNext)

MCSpec == MCInit /\ [][MCNext]_MCvars /\ LockFairness /\ GroupFairness
=============================================================================
