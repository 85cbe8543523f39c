---------------------------- MODULE CliCommands -----------------------------
(***************************************************************************)
(* The commands of the polymarket command line that change something        *)
(* outside it: approve set sends its transactions one by one, upgrade       *)
(* replaces the program's own file, clob post-orders posts a batch.         *)
(***************************************************************************)
EXTENDS Naturals, FiniteSets, Sequences

CONSTANTS Approvals,   \* transactions of approve set, in order (two per contract)
          Upgraders,   \* runs of upgrade
          BatchSize,   \* orders of a batch
          MaxSets,     \* bound: runs of approve set
          MaxPosts   \* bound: batches

ASSUME CommandsAssumption == 
    /\ {BatchSize, MaxSets, MaxPosts} \subseteq Nat /\ BatchSize > 0
    /\ Len(Approvals) \in Nat \ {0}

VARIABLES approved,   \* on the chain (external)
          reverted,   \* the transaction for it was mined and reverted (external)
          onWay,      \* transactions sent, not yet mined (external)
          approveAt,  \* the step approve set is at; 0 when none runs
          watching,   \* it has sent that step's transaction
          outcome,    \* of the last approve set: "none", "ok", "failed"
          sets,
          reported,   \* history: what the last approve check called approved
          exe, bak,   \* the program's file and its backup: "none", "old", "new", "tampered", "part"
          upPc,       \* run -> "idle", "fetched", "moved", "installed", "removed", "failed"
          archive,    \* run -> what it downloaded
          together,   \* history: two upgrades overlapped
          stranded,   \* history: one was cut off between its moves, or could not move back
          signed,     \* orders of the batch that are signed
          batchPc,    \* "idle", "building", "posting"
          posted      \* history: batch -> its orders the exchange received

approveVars == <<approved, reverted, onWay, approveAt, watching, outcome, sets, reported>>
upgradeVars == <<exe, bak, upPc, archive, together, stranded>>
batchVars == <<signed, batchPc, posted>>
commandVars == <<approveVars, upgradeVars, batchVars>>

Steps == 1..Len(Approvals)

ApproveInit ==
    /\ approved = {} /\ reverted = {} /\ onWay = {} /\ approveAt = 0 /\ watching = FALSE
    /\ outcome = "none" /\ sets = 0 /\ reported = {}

SetStarts ==
    /\ approveAt = 0 /\ sets < MaxSets
    /\ approveAt' = 1 /\ sets' = sets + 1 /\ outcome' = "none"
    /\ UNCHANGED <<approved, reverted, onWay, watching, reported>>

\* The transaction of this run for the step it is at.
OwnTx == [run |-> sets, step |-> approveAt]

\* approve(...).send(): an approval that is already there is sent again.
SendApproval ==
    /\ approveAt \in Steps /\ ~watching /\ watching' = TRUE
    /\ onWay' = onWay \cup {OwnTx}
    /\ UNCHANGED <<approved, reverted, approveAt, outcome, sets, reported>>

\* The chain takes the transaction, before or after anyone waits for it; it approves
\* or, mined all the same, reverts.
Mine(tx) ==
    /\ tx \in onWay /\ onWay' = onWay \ {tx}
    /\ \/ approved' = approved \cup {tx.step} /\ reverted' = reverted \ {tx.step}
       \/ reverted' = reverted \cup ({tx.step} \ approved) /\ UNCHANGED approved
    /\ UNCHANGED <<approveAt, watching, outcome, sets, reported>>

NextStep ==
    /\ watching' = FALSE
    /\ IF approveAt = Len(Approvals) THEN approveAt' = 0 /\ outcome' = "ok"
       ELSE approveAt' = approveAt + 1 /\ UNCHANGED outcome

\* watch() returns: the transaction is on the chain.  What became of it there nobody
\* looks at.
Confirmed ==
    /\ watching /\ OwnTx \notin onWay
    /\ NextStep
    /\ UNCHANGED <<approved, reverted, onWay, sets, reported>>

\* As ApprovalFails, going on with the next contract.
ApprovalFailsWarned ==
    /\ approveAt \in Steps /\ NextStep
    /\ UNCHANGED <<approved, reverted, onWay, sets, reported>>

\* send() or watch() fails: the command ends there; what was sent may yet be mined.
ApprovalFails ==
    /\ approveAt \in Steps
    /\ approveAt' = 0 /\ watching' = FALSE /\ outcome' = "failed"
    /\ UNCHANGED <<approved, reverted, onWay, sets, reported>>

\* approve check: a call that fails is shown as not approved, with its error.
CheckApprovals ==
    /\ \E answered \in SUBSET Steps : reported' = approved \cap answered
    /\ UNCHANGED <<approved, reverted, onWay, approveAt, watching, outcome, sets>>

ApproveNext ==
    \/ SetStarts \/ SendApproval \/ Confirmed \/ ApprovalFails \/ CheckApprovals
    \/ \E tx \in onWay : Mine(tx)

UpgradeInit ==
    /\ exe = "old" /\ bak = "none"
    /\ upPc = [u \in Upgraders |-> "idle"]
    /\ archive = [u \in Upgraders |-> "none"]
    /\ together = FALSE /\ stranded = FALSE

Goto(u, pc) == upPc' = [upPc EXCEPT ![u] = pc]

UpgradeEnded(u) == upPc[u] \in {"idle", "removed", "failed"}

Runs == {"old", "new"}

\* The program is run, the tag is newer and the archive is downloaded.
Download(u) ==
    /\ upPc[u] = "idle" /\ exe \in Runs /\ Goto(u, "fetched")
    /\ \E a \in {"new", "tampered"} : archive' = [archive EXCEPT ![u] = a]
    /\ together' = (together \/ \E v \in Upgraders : ~UpgradeEnded(v))
    /\ UNCHANGED <<exe, bak, stranded>>

Verified(u) == archive[u] = "new"

\* verify_checksum, tar, and the first move: rename, or else sudo mv.
Backup(u) ==
    /\ upPc[u] = "fetched" /\ Verified(u)
    /\ \/ exe # "none" /\ Goto(u, "moved") /\ bak' = exe /\ exe' = "none"
       \/ Goto(u, "failed") /\ UNCHANGED <<exe, bak>>
    /\ UNCHANGED <<archive, together, stranded>>

ChecksumFails(u) ==
    /\ upPc[u] = "fetched" /\ ~Verified(u) /\ Goto(u, "failed")
    /\ UNCHANGED <<exe, bak, archive, together, stranded>>

Install(u) ==
    /\ upPc[u] = "moved" /\ Goto(u, "installed")
    /\ exe' = archive[u]
    /\ UNCHANGED <<bak, archive, together, stranded>>

\* As InstallFails, with no move back.
InstallFailsLeft(u) ==
    /\ upPc[u] = "moved" /\ Goto(u, "failed")
    /\ UNCHANGED <<exe, bak, archive, together, stranded>>

\* The second move failed, perhaps half way (sudo mv copies between file systems).
\* The backup is renamed back, and the result of that is ignored: it fails where the
\* first move took sudo.
InstallFails(u) ==
    /\ upPc[u] = "moved" /\ Goto(u, "failed")
    /\ \/ bak # "none" /\ exe' = bak /\ bak' = "none" /\ UNCHANGED stranded
       \/ stranded' = TRUE /\ exe' \in {exe, "part"} /\ UNCHANGED bak
    /\ UNCHANGED <<archive, together>>

\* remove_file of the backup, its result ignored too.
RemoveBackup(u) ==
    /\ upPc[u] = "installed" /\ Goto(u, "removed")
    /\ bak' \in {bak, "none"}
    /\ UNCHANGED <<exe, archive, together, stranded>>

\* The process is killed: nothing is undone.
UpgradeCutOff(u) ==
    /\ ~UpgradeEnded(u) /\ Goto(u, "failed")
    /\ IF upPc[u] = "moved" THEN stranded' = TRUE /\ exe' \in {exe, "part"}
       ELSE UNCHANGED <<exe, stranded>>
    /\ UNCHANGED <<bak, archive, together>>

UpgradeNext ==
    \E u \in Upgraders :
        \/ Download(u) \/ Backup(u) \/ ChecksumFails(u) \/ Install(u)
        \/ InstallFails(u) \/ RemoveBackup(u) \/ UpgradeCutOff(u)

BatchInit == signed = 0 /\ batchPc = "idle" /\ posted = << >>

StartBatch ==
    /\ batchPc = "idle" /\ Len(posted) < MaxPosts
    /\ batchPc' = "building" /\ signed' = 0 /\ posted' = Append(posted, {})

\* As SignOrder, each order posted as soon as it is signed.
SignOrderPosting ==
    /\ batchPc = "building" /\ signed < BatchSize
    /\ signed' = signed + 1
    /\ posted' = [posted EXCEPT ![Len(posted)] = @ \cup {signed + 1}]
    /\ batchPc' = batchPc

SignOrder ==
    /\ batchPc = "building" /\ signed < BatchSize
    /\ signed' = signed + 1 /\ UNCHANGED <<batchPc, posted>>

\* A price or a size that cannot be read, or a build that fails: nothing is posted.
BatchFails ==
    /\ batchPc = "building" /\ batchPc' = "idle"
    /\ UNCHANGED <<signed, posted>>

\* post_orders: one request, whose answer may be lost on the way back.
PostBatch ==
    /\ batchPc = "building" /\ signed = BatchSize /\ batchPc' = "idle"
    /\ \E reached \in BOOLEAN :
          posted' = IF reached THEN [posted EXCEPT ![Len(posted)] = 1..BatchSize] ELSE posted
    /\ UNCHANGED signed

BatchNext == StartBatch \/ SignOrder \/ BatchFails \/ PostBatch

\* The commands change different things; no run of one waits for another.
CommandsInit == ApproveInit /\ UpgradeInit /\ BatchInit

CommandsNext ==
    \/ ApproveNext /\ UNCHANGED <<upgradeVars, batchVars>>
    \/ UpgradeNext /\ UNCHANGED <<approveVars, batchVars>>
    \/ BatchNext /\ UNCHANGED <<approveVars, upgradeVars>>

CommandsSpec == CommandsInit /\ [][CommandsNext]_commandVars

Mined == approved \cup reverted
Sent == Mined \cup {tx.step : tx \in onWay}

\* When approve set says that all contracts are approved, they are but for those
\* whose transaction reverted; it never gets ahead of a failure to send or to
\* confirm, so that what is sent is a beginning of the list, over all its runs; and
\* approve check calls nothing approved that is not.
ApprovalsSound ==
    /\ outcome = "ok" => Mined = Steps
    /\ \A s \in Sent, t \in Steps : t < s => t \in Sent
    /\ reported \subseteq approved

\* When upgrades do not overlap the program is there, whole, under its name or its
\* backup's, wherever a run is killed or fails; when they have ended it is under its
\* name, unless one was killed between its two moves or could not move the backup
\* back; and nothing is run that did not match its checksum.
BinaryKept ==
    /\ "tampered" \notin {exe, bak}
    /\ ~together => /\ {exe, bak} \cap Runs # {}
                    /\ ~stranded /\ (\A u \in Upgraders : UpgradeEnded(u)) => exe \in Runs

\* A batch reaches the exchange whole or not at all.
BatchWhole == \A i \in DOMAIN posted : posted[i] \in {{}, 1..BatchSize}

CommandsHold == ApprovalsSound /\ BinaryKept /\ BatchWhole
=============================================================================
