------------------------------- MODULE FillLog -------------------------------
(***************************************************************************)
(* The write-ahead log of position_tracker.rs: with_wal, update, append_wal *)
(* before apply_fill, and restore_from_wal after a crash.  The engine does  *)
(* not enable it; the tests of position_tracker.rs do.                     *)
(*                                                                         *)
(* A fill is a number and the tracker is the sequence of the fills applied  *)
(* to it.  writeln! to an unbuffered file is two writes, the text and the   *)
(* newline, and any write may come to nothing or stop half way.            *)
(***************************************************************************)
EXTENDS Naturals, Sequences, FiniteSets, Filter

CONSTANT MaxFills  \* bound on the fills

ASSUME FillLogAssumption == MaxFills \in Nat

VARIABLES fill,      \* the fill update() is at, or the last it was at
          step,      \* where update() is in it
          applied,   \* the tracker
          lines,     \* lines of the log that end in a newline
          tail,      \* what follows the last newline
          damage     \* history: appends that did not run to their end

fillVars == <<fill, step, applied, lines, tail, damage>>

Fills == 1..MaxFills
Nothing == 0
Garbage == MaxFills + 1

\* Text written after an unterminated line does not parse with it.
Glued(text) == IF tail = Nothing THEN text ELSE Garbage

\* from_str fails on a malformed line, which is skipped; an unterminated last
\* line is a line to BufReader.
Replay == Kept(Append(lines, tail), Fills)

FillInit ==
    /\ fill = 0 /\ step = "idle"
    /\ applied = <<>> /\ lines = <<>> /\ tail = Nothing
    /\ damage = 0

Update ==
    /\ step = "idle" /\ fill + 1 \in Fills
    /\ fill' = fill + 1 /\ step' = "text"
    /\ UNCHANGED <<applied, lines, tail, damage>>

WriteText ==
    /\ step = "text"
    /\ tail' = Glued(fill)
    /\ step' = "newline"
    /\ UNCHANGED <<fill, applied, lines, damage>>

WriteNewline ==
    /\ step = "newline"
    /\ lines' = Append(lines, tail) /\ tail' = Nothing
    /\ step' = "apply"
    /\ UNCHANGED <<fill, applied, damage>>

\* The file cannot be opened, or a write fails: an error is logged, and the fill
\* is applied all the same.
AppendFails ==
    /\ step \in {"text", "newline"}
    /\ tail' \in IF step = "text" THEN {tail, Garbage} ELSE {tail}
    /\ step' = "apply"
    /\ damage' = damage + 1
    /\ UNCHANGED <<fill, applied, lines>>

ApplyFill ==
    /\ step = "apply"
    /\ applied' = Append(applied, fill)
    /\ step' = "idle"
    /\ UNCHANGED <<fill, lines, tail, damage>>

\* As CrashAndRestore, onto a tracker that already holds fills.
CrashAndRestoreOnto ==
    /\ tail' \in IF step = "text" THEN {tail, Garbage} ELSE {tail}
    /\ damage' = IF step \in {"text", "newline"} THEN damage + 1 ELSE damage
    /\ applied' = applied \o Kept(Append(lines, tail'), Fills)
    /\ step' = "idle"
    /\ UNCHANGED <<fill, lines>>

\* A crash, then a new tracker restored from the log.
CrashAndRestore ==
    /\ tail' \in IF step = "text" THEN {tail, Garbage} ELSE {tail}
    /\ damage' = IF step \in {"text", "newline"} THEN damage + 1 ELSE damage
    /\ applied' = Kept(Append(lines, tail'), Fills)
    /\ step' = "idle"
    /\ UNCHANGED <<fill, lines>>

FillNext ==
    Update \/ WriteText \/ WriteNewline \/ AppendFails \/ ApplyFill \/ CrashAndRestore

FillSpec == FillInit /\ [][FillNext]_fillVars

InOrder(s) == \A i, j \in 1..Len(s) : i < j => s[i] < s[j]

\* However often the process crashes or a write fails, the tracker and a replay
\* hold fills in the order they were made, each once, and miss at most two for
\* every append that did not run to its end: its own, and the one whose text was
\* appended to what it left.
ReplayLosesLittle ==
    /\ InOrder(applied) /\ InOrder(Replay)
    /\ step = "idle" =>
          /\ fill - Len(applied) <= 2 * damage
          /\ fill - Len(Replay) <= 2 * damage
=============================================================================
