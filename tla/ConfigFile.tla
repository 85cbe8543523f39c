----------------------------- MODULE ConfigFile -----------------------------
(***************************************************************************)
(* The configuration: PUT /api/config (routes/config.rs), its file, and the *)
(* load at the next start (config.rs).  A handler validates the new value,  *)
(* writes the memory under the lock and the file after it, without it:      *)
(* handlers overlap there, and std::fs::write opens the file truncated and  *)
(* then fills it piece by piece, so that a save may be cut short anywhere.  *)
(*                                                                          *)
(* A text is a number of pieces.  Every section of the file but the last,   *)
(* [alerts], must be there for it to parse; whatever is missing of [alerts] *)
(* is filled in from the defaults, and nothing is validated on loading.     *)
(***************************************************************************)
EXTENDS Naturals, FiniteSets

CONSTANTS Handlers,    \* PUT requests under way at once
          Versions,    \* values a client may send
          Sane,        \* those that validate() finds no error in
          Length,      \* of a version: the pieces of its text; the last is in [alerts]
          MaxPuts,     \* bound
          DefaultVersion

ASSUME ConfigAssumption ==
    /\ Sane \subseteq Versions /\ DefaultVersion \notin Versions /\ MaxPuts \in Nat
    /\ (Versions \cup {DefaultVersion}) \cap {"none", "empty", "mixed"} = {}
    /\ Length \in [Versions -> Nat \ {0}]

\* A value of the configuration: as it was sent, with the end of [alerts] cut off, or
\* parsed from pieces of several texts.
AsSent(v) == [of |-> v, alerts |-> "whole"]
Shortened(v) == [of |-> v, alerts |-> "cut"]
Mixed == AsSent("mixed")

NoFile == [text |-> "none", length |-> 0, parses |-> FALSE]
EmptyFile == [text |-> "empty", length |-> 0, parses |-> FALSE]

VARIABLES version,   \* AppState.config
          fileOn,    \* the file: whose text, how many pieces, and whether it parses
          putPc,     \* handler -> "idle", "memory", "open", "fill"
          putOf,     \* handler -> the version it carries
          putAt,     \* handler -> the pieces it has written
          puts,
          disturbed, \* history: a save of this process overlapped another or failed
          spoilt     \* history: "cut", a save ever ended half way; "mixed", two overlapped

configVars == <<version, fileOn, putPc, putOf, putAt, puts, disturbed, spoilt>>

ConfigInit ==
    /\ version = AsSent(DefaultVersion) /\ fileOn = NoFile
    /\ putPc = [h \in Handlers |-> "idle"]
    /\ putOf = [h \in Handlers |-> DefaultVersion]
    /\ putAt = [h \in Handlers |-> 0]
    /\ puts = 0 /\ disturbed = FALSE /\ spoilt = {}

Goes(h, pc) == putPc' = [putPc EXCEPT ![h] = pc]

\* As Accepted, with no validation.
AcceptedUnseen(v) == v \in Versions

Accepted(v) == v \in Sane

\* validate(); the errors are answered and nothing changes.
ReceivePut(h, v) ==
    /\ putPc[h] = "idle" /\ puts < MaxPuts /\ puts' = puts + 1
    /\ Accepted(v)
    /\ Goes(h, "memory") /\ putOf' = [putOf EXCEPT ![h] = v]
    /\ IF \E g \in Handlers : putPc[g] # "idle"
       THEN disturbed' = TRUE /\ spoilt' = spoilt \cup {"mixed"}
       ELSE UNCHANGED <<disturbed, spoilt>>
    /\ UNCHANGED <<version, fileOn, putAt>>

WriteMemory(h) ==
    /\ putPc[h] = "memory"
    /\ version' = AsSent(putOf[h]) /\ Goes(h, "open")
    /\ UNCHANGED <<fileOn, putOf, putAt, puts, disturbed, spoilt>>

\* As OpenFile, without truncating it.
OpenFileKeeping(h) ==
    /\ putPc[h] = "open" /\ Goes(h, "fill")
    /\ putAt' = [putAt EXCEPT ![h] = 0]
    /\ UNCHANGED <<version, fileOn, putOf, puts, disturbed, spoilt>>

OpenFile(h) ==
    /\ putPc[h] = "open" /\ Goes(h, "fill")
    /\ putAt' = [putAt EXCEPT ![h] = 0] /\ fileOn' = EmptyFile
    /\ UNCHANGED <<version, putOf, puts, disturbed, spoilt>>

\* The first pieces of the file are v's: those before position p, which the handler
\* goes on from.
IsOf(v, p) == p = 0 \/ (fileOn.text = v /\ fileOn.length >= p)

\* Pieces are written where this handler is.  What was written before it, by another
\* handler, stays behind it and in front of it; if the other one truncated the file,
\* there is a hole.
FillFile(h, upTo) ==
    LET v == putOf[h]
        behind == fileOn.length > upTo /\ fileOn.text # v
        text == IF IsOf(v, putAt[h]) /\ ~behind THEN v ELSE "mixed"
        length == IF fileOn.length > upTo THEN fileOn.length ELSE upTo
    IN  /\ putPc[h] = "fill" /\ putAt[h] < upTo
        /\ \E parses \in BOOLEAN :
              /\ text = v /\ length = Length[v] => parses
              /\ text = v /\ length + 1 < Length[v] => ~parses
              /\ fileOn' = [text |-> text, length |-> length, parses |-> parses]
        /\ putAt' = [putAt EXCEPT ![h] = upTo]
        /\ Goes(h, IF upTo = Length[v] THEN "idle" ELSE "fill")
        /\ UNCHANGED <<version, putOf, puts, disturbed, spoilt>>

\* save() fails, before the file is opened or half way: a warning is logged and the
\* answer is OK.
SaveFails(h) ==
    /\ putPc[h] \in {"open", "fill"} /\ Goes(h, "idle")
    /\ disturbed' = TRUE
    /\ spoilt' = IF putPc[h] = "fill" THEN spoilt \cup {"cut"} ELSE spoilt
    /\ UNCHANGED <<version, fileOn, putOf, putAt, puts>>

\* load(): the defaults when there is no file or it cannot be parsed.
Loaded ==
    IF ~fileOn.parses THEN AsSent(DefaultVersion)
    ELSE IF fileOn.text = "mixed" THEN Mixed
    ELSE IF fileOn.length = Length[fileOn.text] THEN AsSent(fileOn.text)
    ELSE Shortened(fileOn.text)

\* The process ends at any point and is started again.
RestartServer ==
    /\ version' = Loaded
    /\ putPc' = [h \in Handlers |-> "idle"] /\ disturbed' = FALSE
    /\ spoilt' = IF \E h \in Handlers : putPc[h] = "fill" THEN spoilt \cup {"cut"} ELSE spoilt
    /\ UNCHANGED <<fileOn, putOf, putAt, puts>>

ConfigNext ==
    \/ RestartServer
    \/ \E h \in Handlers :
          \/ WriteMemory(h) \/ OpenFile(h) \/ SaveFails(h)
          \/ \E v \in Versions : ReceivePut(h, v)
          \/ putPc[h] = "fill" /\ \E upTo \in 1..Length[putOf[h]] : FillFile(h, upTo)

\* "Persist to disk so changes survive restarts": when no PUT is under way, none
\* overlapped and no save failed since the start, the next start loads what the
\* memory holds.  And the memory holds the defaults or what a PUT validated, but for
\* two cases: a save that ended half way may leave a start with the [alerts] nobody
\* sent, and two that overlapped with any mixture, validated by nobody.
ChangesSurvive ==
    /\ ~disturbed /\ (\A h \in Handlers : putPc[h] = "idle") => Loaded = version
    /\ \/ version \in {AsSent(v) : v \in Sane \cup {DefaultVersion}}
       \/ version \in {Shortened(v) : v \in Sane} /\ "cut" \in spoilt
       \/ "mixed" \in spoilt
=============================================================================
