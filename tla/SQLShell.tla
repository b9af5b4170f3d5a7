------------------------------ MODULE SQLShell ------------------------------
(***************************************************************************)
(* SQL text: splitSQL, which migrations and the shell cut their input      *)
(* with, and `localitas sql` (cmd/localitas/sql.go), which collects lines  *)
(* and runs the statements in them.  Text is a sequence of symbols: the    *)
(* words "begin" and "end" in any case, "select" for a word that starts a  *)
(* read, "x" for any other run of letters, and the characters that matter. *)
(*                                                                         *)
(* What the text means is fixed by how it is built: a statement is made of *)
(* pieces, each with its source and what is left of it without comments.   *)
(***************************************************************************)
EXTENDS Integers, Sequences, SequencesExt

CONSTANTS
    Pieces,        \* [src, out]
    MaxPieces,     \* in a statement
    MaxStatements, \* in a script
    MaxErrors      \* bound on statements that fail

ASSUME ShellAssumption ==
    MaxPieces \in Nat /\ MaxStatements \in Nat /\ MaxErrors \in Nat

Space == {"blank", "newline"}
Quotes == {"quote", "dquote"}
Symbols == {"begin", "end", "select", "x", "dash", "semicolon"} \union Quotes \union Space
Texts == Seq(Symbols)

TrimSpace(s) ==
    LET kept == {i \in DOMAIN s : s[i] \notin Space}
    IN  IF kept = {} THEN <<>> ELSE SubSeq(s, Min(kept), Max(kept))

isIdentChar(c) == c \in {"x", "begin", "end", "select"}

(* The loop over raw with its variables s: buf, stmts, depth, the quote of *)
(* the string it is in, and `from`, the index it goes on with.             *)
After(raw, i) == IF i < Len(raw) THEN raw[i + 1] ELSE "none"
LineEnd(raw, i) ==
    LET ends == {j \in i..Len(raw) : raw[j] = "newline"}
    IN  IF ends = {} THEN Len(raw) ELSE Min(ends)

Put(s, cs) == [s EXCEPT !.buf = @ \o cs]
Flush(s) ==
    [s EXCEPT !.buf = <<>>,
              !.stmts = IF TrimSpace(s.buf) = <<>> THEN @ ELSE Append(@, TrimSpace(s.buf))]

(* The depth behind symbol i: BEGIN and END count as whole words.          *)
Depth(raw, s, i) ==
    CASE raw[i] = "begin" /\ ~isIdentChar(After(raw, i)) -> s.depth + 1
      [] raw[i] = "end" /\ ~isIdentChar(After(raw, i)) /\ s.depth > 0 -> s.depth - 1
      [] OTHER -> s.depth

InString(raw, s, i) ==
    CASE raw[i] # s.quote -> Put(s, <<raw[i]>>)
      [] raw[i] = s.quote /\ After(raw, i) = s.quote ->
            [Put(s, <<raw[i], raw[i]>>) EXCEPT !.from = i + 2]
      [] OTHER -> [Put(s, <<raw[i]>>) EXCEPT !.quote = "none"]

StartsComment(raw, i) == raw[i] = "dash" /\ After(raw, i) = "dash"
EndsHere(raw, s, i) == raw[i] = "semicolon" /\ s.depth = 0

Outside(raw, s, i) ==
    CASE raw[i] \in Quotes -> [Put(s, <<raw[i]>>) EXCEPT !.quote = raw[i]]
      [] StartsComment(raw, i) -> [Put(s, <<"newline">>) EXCEPT !.from = LineEnd(raw, i) + 1]
      [] EndsHere(raw, s, i) -> Flush(s)
      [] OTHER -> [Put(s, <<raw[i]>>) EXCEPT !.depth = Depth(raw, s, i)]

Scan(raw, s, i) ==
    CASE i < s.from -> s
      [] i >= s.from /\ s.quote # "none" -> InString(raw, s, i)
      [] i >= s.from /\ s.quote = "none" -> Outside(raw, s, i)

Unscanned == [from |-> 1, quote |-> "none", depth |-> 0, buf |-> <<>>, stmts |-> <<>>]
Scanned(raw) ==
    LET scan[i \in 0..Len(raw)] ==
            IF i = 0 THEN Unscanned ELSE Scan(raw, scan[i - 1], i)
    IN  scan

Final(raw) == Scanned(raw)[Len(raw)]

(* Fault: what follows the last semicolon is dropped.                      *)
Unflushed(raw) == Final(raw).stmts
splitSQL(raw) == Flush(Final(raw)).stmts

(* The command line has a copy of it.                                      *)
CliSplitSQL(raw) == splitSQL(raw)
-----------------------------------------------------------------------------
(* Scripts and what they mean.                                             *)
Spaced(seqs) == FlattenSeq([i \in DOMAIN seqs |-> seqs[i] \o <<"blank">>])
Statements == SeqOf(Pieces, MaxPieces) \ {<<>>}
Source(st) == Spaced([i \in DOMAIN st |-> st[i].src])
Meaning(st) == TrimSpace(Spaced([i \in DOMAIN st |-> st[i].out]))
Typed(script) == FlattenSeq([n \in DOMAIN script |-> Source(script[n]) \o <<"semicolon", "newline">>])
Filled(st) == IF st = <<>> THEN <<>> ELSE <<st>>
Wanted(script) ==
    FlattenSeq([n \in DOMAIN script |-> Filled(Meaning(script[n]))])
(* The last statement may lack its semicolon and the end of its line.      *)
Unfinished(text) == SubSeq(text, 1, Len(text) - 2)

VARIABLES
    text,        \* what is typed or piped in
    wanted,      \* the statements it consists of
    rest,        \* what has not been read
    buf,
    queue,       \* statements of the buffer still to run
    phase,
    interactive,
    sent,        \* what the server has run, and at which endpoint
    errors

shellVars == <<text, wanted, rest, buf, queue, phase, interactive, sent, errors>>

ShellInit ==
    /\ \E script \in SeqOf(Statements, MaxStatements) \ {<<>>} :
          /\ wanted = Wanted(script)
          /\ text \in {Typed(script), Unfinished(Typed(script))}
    /\ rest = text
    /\ buf = <<>> /\ queue = <<>> /\ sent = <<>>
    /\ phase = "start" /\ interactive \in BOOLEAN /\ errors = 0
-----------------------------------------------------------------------------
(* Fault: the buffer is kept after its statements have run.                *)
Kept(b) == b
Reset(b) == <<>>

Closed(b) == TrimSpace(b) # <<>> /\ Last(TrimSpace(b)) = "semicolon"

(* scanner.Scan and the test for a closing semicolon.                      *)
ReadLine ==
    /\ phase \in {"start", "reading"} /\ rest # <<>>
    /\ LET ends == {i \in DOMAIN rest : rest[i] = "newline"}
           n == IF ends = {} THEN Len(rest) ELSE Min(ends)
           line == IF ends = {} THEN rest \o <<"newline">> ELSE SubSeq(rest, 1, n)
           b == buf \o line
       IN  /\ rest' = SubSeq(rest, n + 1, Len(rest))
           /\ IF Closed(b) THEN phase' = "running" /\ queue' = CliSplitSQL(b) /\ buf' = Reset(b)
                           ELSE phase' = "reading" /\ buf' = b /\ UNCHANGED queue
    /\ UNCHANGED <<text, wanted, interactive, sent, errors>>

(* At the end of the input what is left of the buffer is run too.          *)
EndOfInput ==
    /\ phase = "reading" /\ rest = <<>>
    /\ IF TrimSpace(buf) = <<>>
         THEN phase' = "done" /\ UNCHANGED queue
         ELSE phase' = "last" /\ queue' = CliSplitSQL(buf)
    /\ UNCHANGED <<text, wanted, rest, buf, interactive, sent, errors>>

(* The first word of a statement, behind any brackets.                     *)
readsOnly(st) == st[1] = "select"
(* runStatement: a read that writes, a CTE that inserts, is refused by the *)
(* query endpoint, which says so, and goes to exec.                        *)
Endpoints(st) == IF readsOnly(st) THEN {"query", "exec"} ELSE {"exec"}

Ran(at) == Append(sent, [stmt |-> Head(queue), at |-> at])

RunStatement ==
    /\ phase \in {"running", "last"} /\ queue # <<>>
    /\ \E at \in Endpoints(Head(queue)) : sent' = Ran(at)
    /\ queue' = Tail(queue)
    /\ UNCHANGED <<text, wanted, rest, buf, phase, interactive, errors>>

(* The statement fails, or its answer is lost after it has run: the others *)
(* of the buffer are not run, and unless a person types the shell stops.   *)
StatementFails ==
    /\ phase \in {"running", "last"} /\ queue # <<>>
    /\ errors < MaxErrors /\ errors' = errors + 1
    /\ sent' \in {sent} \union {Ran(at) : at \in Endpoints(Head(queue))}
    /\ queue' = <<>>
    /\ phase' = IF interactive /\ phase = "running" THEN "reading" ELSE "stopped"
    /\ UNCHANGED <<text, wanted, rest, buf, interactive>>

BufferDone ==
    /\ phase \in {"running", "last"} /\ queue = <<>>
    /\ phase' = IF phase = "running" THEN "reading" ELSE "done"
    /\ UNCHANGED <<text, wanted, rest, buf, queue, interactive, sent, errors>>

ShellNext ==
    \/ ReadLine
    \/ EndOfInput
    \/ RunStatement
    \/ StatementFails
    \/ BufferDone

ShellSpec == ShellInit /\ [][ShellNext]_shellVars
-----------------------------------------------------------------------------
(* The shell cuts its input behind lines that end in a semicolon: Cuts are *)
(* the places it may cut at, the start and the end among them.  Cutting    *)
(* there does no harm if splitSQL finds the same statements before and     *)
(* behind a cut as in one piece, and the end of a last line adds none.     *)
LineEnds(t) == {i \in DOMAIN t : t[i] = "newline"}
EndsStatement(t, i) == \E k \in 1..i : t[k] = "semicolon" /\ \A l \in (k + 1)..i : t[l] \in Space
Cuts(t) == {0, Len(t)} \union {i \in LineEnds(t) : EndsStatement(t, i)}
From(t, i) == SubSeq(t, i + 1, Len(t))

CutsRight(t) ==
    /\ t \in Texts
    /\ \A i \in Cuts(t) : LET stmts == splitSQL(From(t, i)) IN
          /\ stmts \in Seq(Texts)
          /\ TrimSpace(From(t, i)) = <<>> => stmts = <<>>
          /\ splitSQL(Append(From(t, i), "newline")) = stmts
          /\ \A j \in LineEnds(t) : LET piece == SubSeq(t, i + 1, j) IN
                i < j /\ Closed(piece) =>
                   /\ splitSQL(piece) \in Seq(Texts)
                   /\ stmts = splitSQL(piece) \o splitSQL(From(t, j))

(* A piece fits in a statement, whatever stands beside it, if splitSQL,    *)
(* where it reads the piece alone, finds no end of a statement in it, is   *)
(* outside strings, comments and bodies behind it and keeps what it        *)
(* means, and if none of its lines closes a statement.                     *)
Ends(raw, s, i) == i >= s.from /\ s.quote = "none" /\ EndsHere(raw, s, i)
Unended(u) == \A i \in 1..Len(u) : ~Ends(u, Scanned(u)[i - 1], i)
SelfContained(p) ==
    LET u == Append(p.src, "blank")
        s == Final(u)
    IN  /\ p.src \in Texts /\ p.out \in Texts
        /\ Unended(u) /\ s.quote = "none" /\ s.depth = 0 /\ s.from <= Len(u)
        /\ s.stmts = <<>> /\ s.buf = Append(p.out, "blank")
        /\ \A i \in LineEnds(p.src) \union {Len(p.src)} : ~EndsStatement(p.src, i)

(* A file of well-formed statements is cut into exactly these, whatever    *)
(* strings, comments and trigger bodies hold, in one piece and in pieces   *)
(* that end where a line closes a statement.                               *)
SplitsBack == phase = "start" => splitSQL(text) = wanted /\ CutsRight(text)

Performed == [n \in DOMAIN sent |-> sent[n].stmt]

(* The shell runs each statement once its closing semicolon is read        *)
(* (sql.go:47-49): in order, none twice, none in part, up to the first     *)
(* failure, and all of them if there is none.                              *)
ShellRuns ==
    /\ (errors = 0 \/ ~interactive) => IsPrefix(Performed, wanted)
    /\ (phase = "done" /\ errors = 0) => Performed = wanted
=============================================================================
