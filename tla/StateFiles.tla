----------------------------- MODULE StateFiles -----------------------------
(***************************************************************************)
(* positions.json and history.json of arb-api: loaded at the start, saved  *)
(* by the autosave task every minute and by main once the server has       *)
(* stopped, while the engine task goes on trading.  main.rs, helpers.rs    *)
(* and PositionTracker::save and ::load.                                   *)
(*                                                                         *)
(* A trade is a number; the position tracker is the set of the trades it   *)
(* has recorded and the execution history a sequence of reports, newest    *)
(* first.  PositionBook says what recording does to a position.            *)
(***************************************************************************)
EXTENDS Naturals, Sequences

CONSTANTS MaxTrades,    \* bound on the trades of a behaviour
          HistoryCap,   \* reports the history keeps (500 in the code)
          IoFaults      \* TRUE: a write or a rename may fail

ASSUME StateFilesAssumption ==
    MaxTrades \in Nat /\ HistoryCap \in Nat \ {0} /\ IoFaults \in BOOLEAN

Savers == {"autosave", "shutdown"}
Trades == 1..MaxTrades
Nobody == "nobody"

VARIABLES run,          \* "down", "up", or "stopping" once a signal has come
          tracker,      \* trades recorded in memory
          pending,      \* trades recorded whose report is not yet in the history
          history,      \* reports in memory
          lock,         \* who saves under the mutex of the risk limits
          pc,           \* where each saver is
          positions,    \* positions.json
          temp,         \* positions.tmp
          reports,      \* history.json
          saveFailed,   \* the last save of the positions failed
          next,         \* the next trade
          passedOver    \* history: trades in positions.json that the running
                        \* process failed to load

vars == <<run, tracker, pending, history, lock, pc, positions, temp, reports,
          saveFailed, next, passedOver>>

memory == <<tracker, pending, history>>
files == <<positions, temp, reports>>

Alive == run # "down"

\* A file is whole or was cut off while it was written.  A positions file that
\* does not exist loads as an empty tracker does.
Whole(content) == [whole |-> TRUE, content |-> content]
Cut(content) == [whole |-> FALSE, content |-> content]

(***************************************************************************)
(* Trades                                                                  *)
(***************************************************************************)
\* The engine or a route records a report under the mutex.
Record ==
    /\ Alive /\ lock = Nobody /\ next \in Trades
    /\ tracker' = tracker \cup {next}
    /\ pending' = pending \cup {next}
    /\ next' = next + 1
    /\ UNCHANGED <<run, history, lock, pc, files, saveFailed, passedOver>>

\* append_history, later, under the write lock of the history.
AppendHistory(t) ==
    /\ Alive /\ t \in pending
    /\ \A s \in Savers : pc[s] # "writing"
    /\ LET longer == <<t>> \o history
       IN  history' = IF Len(longer) > HistoryCap
                      THEN SubSeq(longer, 1, HistoryCap) ELSE longer
    /\ pending' = pending \ {t}
    /\ UNCHANGED <<run, tracker, lock, pc, files, saveFailed, next, passedOver>>

(***************************************************************************)
(* save_state: positions, then history.                                    *)
(***************************************************************************)
\* As MaySave, without the autosave task.
MaySaveAtShutdown(s) == pc[s] = "idle" /\ s = "shutdown" /\ run = "stopping"

MaySave(s) ==
    /\ pc[s] = "idle"
    /\ IF s = "autosave" THEN Alive ELSE run = "stopping"

\* As BeginPositions, opening positions.json itself.
BeginPositionsInPlace(s) ==
    /\ MaySave(s) /\ lock = Nobody
    /\ lock' = s
    /\ pc' = [pc EXCEPT ![s] = "temp"]
    /\ positions' = Cut({})
    /\ UNCHANGED <<run, memory, temp, reports, saveFailed, next, passedOver>>

\* The tracker is serialised and std::fs::write opens positions.tmp.
BeginPositions(s) ==
    /\ MaySave(s) /\ lock = Nobody
    /\ lock' = s
    /\ pc' = [pc EXCEPT ![s] = "temp"]
    /\ temp' = Cut({})
    /\ UNCHANGED <<run, memory, positions, reports, saveFailed, next, passedOver>>

WriteTemp(s) ==
    /\ pc[s] = "temp"
    /\ temp' = Whole(tracker)
    /\ pc' = [pc EXCEPT ![s] = "rename"]
    /\ UNCHANGED <<run, memory, lock, positions, reports, saveFailed, next, passedOver>>

Rename(s) ==
    /\ pc[s] = "rename"
    /\ positions' = temp
    /\ temp' = Whole({})
    /\ lock' = Nobody
    /\ pc' = [pc EXCEPT ![s] = "positions saved"]
    /\ saveFailed' = FALSE
    /\ UNCHANGED <<run, memory, reports, next, passedOver>>

\* Either call returns an error, which is logged; a failed rename removes the
\* temporary file, a failed write leaves what it wrote.
PositionsFail(s) ==
    /\ IoFaults /\ pc[s] \in {"temp", "rename"}
    /\ temp' = IF pc[s] = "rename" THEN Whole({}) ELSE temp
    /\ lock' = Nobody
    /\ pc' = [pc EXCEPT ![s] = "positions saved"]
    /\ saveFailed' = TRUE
    /\ UNCHANGED <<run, memory, positions, reports, next, passedOver>>

\* save_history: under the read lock, which both savers may hold at once,
\* std::fs::write truncates history.json ...
BeginHistory(s) ==
    /\ pc[s] = "positions saved"
    /\ pc' = [pc EXCEPT ![s] = "writing"]
    /\ reports' = Cut(<<>>)
    /\ UNCHANGED <<run, memory, lock, positions, temp, saveFailed, next, passedOver>>

\* ... and fills it.  What one saver wrote the other, which has the same
\* history, may since have truncated.
WriteHistory(s) ==
    /\ pc[s] = "writing"
    /\ \/ reports' = Whole(history)
       \/ \E other \in Savers \ {s} : pc[other] = "writing" /\ UNCHANGED reports
    /\ pc' = [pc EXCEPT ![s] = IF s = "autosave" THEN "idle" ELSE "saved"]
    /\ UNCHANGED <<run, memory, lock, positions, temp, saveFailed, next, passedOver>>

HistoryFails(s) ==
    /\ IoFaults /\ pc[s] = "writing"
    /\ pc' = [pc EXCEPT ![s] = IF s = "autosave" THEN "idle" ELSE "saved"]
    /\ UNCHANGED <<run, memory, lock, files, saveFailed, next, passedOver>>

(***************************************************************************)
(* The process                                                             *)
(***************************************************************************)
\* main loads both files.  One that cannot be read or does not parse is logged
\* and passed over, "starting fresh"; the next save replaces it.
Boot ==
    /\ run = "down"
    /\ run' = "up"
    /\ \/ positions.whole /\ tracker' = positions.content /\ passedOver' = {}
       \/ /\ IoFaults \/ ~positions.whole
          /\ tracker' = {} /\ passedOver' = positions.content
    /\ \/ reports.whole /\ history' = reports.content
       \/ (IoFaults \/ ~reports.whole) /\ history' = <<>>
    /\ UNCHANGED <<pending, lock, pc, files, saveFailed, next>>

\* SIGINT or SIGTERM: the server stops; the engine task does not.
Signal ==
    /\ run = "up"
    /\ run' = "stopping"
    /\ UNCHANGED <<memory, lock, pc, files, saveFailed, next, passedOver>>

Halt ==
    /\ run' = "down"
    /\ tracker' = {} /\ pending' = {} /\ history' = <<>>
    /\ lock' = Nobody
    /\ pc' = [s \in Savers |-> "idle"]
    /\ UNCHANGED <<files, saveFailed, next, passedOver>>

\* main returns; the runtime waits for an autosave that is running.
Exit == pc = [autosave |-> "idle", shutdown |-> "saved"] /\ Halt

Crash == Alive /\ Halt

Init ==
    /\ run = "down"
    /\ tracker = {} /\ pending = {} /\ history = <<>>
    /\ lock = Nobody
    /\ pc = [s \in Savers |-> "idle"]
    /\ positions = Whole({}) /\ temp = Whole({}) /\ reports = Whole(<<>>)
    /\ saveFailed = FALSE
    /\ next = 1
    /\ passedOver = {}

Save(s) ==
    \/ BeginPositions(s) \/ WriteTemp(s) \/ Rename(s) \/ PositionsFail(s)
    \/ BeginHistory(s) \/ WriteHistory(s) \/ HistoryFails(s)

Next ==
    \/ Record
    \/ \E t \in Trades : AppendHistory(t)
    \/ \E s \in Savers : Save(s)
    \/ Boot \/ Signal \/ Exit \/ Crash

Spec == Init /\ [][Next]_vars

\* The interval of the autosave task ticks as long as the process lives, and a
\* save that has begun is one call that does not wait for anybody but the mutex
\* and the history's lock, which are held for a moment.
FairSpec == Spec /\ \A s \in Savers : WF_vars(Save(s))

(***************************************************************************)
(* Properties                                                              *)
(***************************************************************************)
FileOf(contents) == [whole : BOOLEAN, content : contents]

\* The types: memory and files hold trades of this behaviour.
TypeOK ==
    /\ run \in {"down", "up", "stopping"}
    /\ tracker \subseteq Trades /\ pending \subseteq Trades
    /\ history \in Seq(Trades) /\ Len(history) <= HistoryCap
    /\ lock \in Savers \cup {Nobody}
    /\ pc \in [Savers -> {"idle", "temp", "rename", "positions saved", "writing", "saved"}]
    /\ positions \in FileOf(SUBSET Trades) /\ temp \in FileOf(SUBSET Trades)
    /\ reports \in FileOf(Seq(Trades))
    /\ saveFailed \in BOOLEAN
    /\ next \in Nat
    /\ passedOver \subseteq Trades

\* Positions that were saved are lost again neither by a crash at any point of a
\* save, nor by two savers that meet, nor by a failed write: the file is never cut
\* off, and loses no trade but those the process that saves could not load when
\* it started (the temporary file and the rename of PositionTracker::save under
\* the mutex; main.rs starts fresh after a failed load, and saves over the file).
SavedStays == [][/\ positions.whole'
                 /\ positions.content \ passedOver \subseteq positions'.content]_vars

\* Every trade recorded is in the positions file sooner or later, unless the
\* process ends first or the failure of a save has been logged.
RecordedGetsSaved ==
    \A t \in Trades :
        (t \in tracker) ~> (t \in positions.content \/ ~Alive \/ saveFailed)

=============================================================================
