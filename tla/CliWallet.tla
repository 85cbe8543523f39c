----------------------------- MODULE CliWallet ------------------------------
(***************************************************************************)
(* The wallet of the polymarket command line: wallet create, import and     *)
(* reset, the setup wizard, and the one configuration file that holds the   *)
(* key (config.rs).  The file lives in the directory where the trading      *)
(* programs keep their flag, state and configuration, and reset deletes     *)
(* the directory.  Runs of the command overlap and may end at any step.     *)
(***************************************************************************)
EXTENDS Naturals, FiniteSets

CONSTANTS Shells,       \* runs of the command line at once
          OtherFiles,   \* what the trading programs keep in the directory
          MaxKeys       \* bound on the keys saved

ASSUME WalletAssumption == MaxKeys \in Nat

Keys == 1..MaxKeys
NoKeyFile == 0
Torn == MaxKeys + 1   \* a file that cannot be read

VARIABLES keyFile,    \* config.json: NoKeyFile, Torn or a key
          others,     \* files of the trading programs that exist
          envKey,     \* POLYMARKET_PRIVATE_KEY: "unset", "unusable", "usable"
          runPc,      \* run -> "idle", "asked", "open", "fill", "show", "delete"
          newKey,     \* run -> the key it is about to save
          nextKey,
          shown,      \* history: keys whose address a run has told the user
          given,      \* history: keys the user gave up (force, or a "yes")
          overlapped  \* history: two runs changed the directory at once

walletVars == <<keyFile, others, envKey, runPc, newKey, nextKey, shown, given, overlapped>>

WalletInit ==
    /\ keyFile = NoKeyFile /\ others = OtherFiles
    /\ envKey \in {"unset", "unusable", "usable"}
    /\ runPc = [r \in Shells |-> "idle"] /\ newKey = [r \in Shells |-> NoKeyFile]
    /\ nextKey = 1 /\ shown = {} /\ given = {} /\ overlapped = FALSE

\* config_exists and load_config.
ConfigExists == keyFile # NoKeyFile
Held == IF keyFile \in Keys THEN {keyFile} ELSE {}

Busy(r) == \E q \in Shells \ {r} : runPc[q] # "idle"

StartSaving(r) ==
    /\ nextKey <= MaxKeys /\ nextKey' = nextKey + 1
    /\ newKey' = [newKey EXCEPT ![r] = nextKey]
    /\ runPc' = [runPc EXCEPT ![r] = "open"]
    /\ overlapped' = (overlapped \/ Busy(r))

\* As GuardOverwrite, of a file whose key is the one in use.
GuardOverwriteInUse(force) == force \/ ~ConfigExists \/ envKey = "usable"

GuardOverwrite(force) == force \/ ~ConfigExists

\* wallet create and wallet import of a valid key.
CreateWallet(r, force) ==
    /\ runPc[r] = "idle" /\ GuardOverwrite(force)
    /\ StartSaving(r)
    /\ given' = IF force THEN given \cup Held ELSE given
    /\ UNCHANGED <<keyFile, others, envKey, shown>>

\* resolve_key(None): the environment, then the file.
ResolvesUsable ==
    \/ envKey = "usable"
    \/ envKey = "unset" /\ keyFile \in Keys

\* setup: it asks before it replaces a wallet only when the key that it resolves
\* can be used; a broken key in the environment hides a good one in the file.
SetupAsks == ConfigExists /\ ResolvesUsable

SetupConfirm(r) ==
    /\ runPc[r] = "idle" /\ SetupAsks
    /\ runPc' = [runPc EXCEPT ![r] = "asked"]
    /\ UNCHANGED <<keyFile, others, envKey, newKey, nextKey, shown, given, overlapped>>

AnswerSetup(r, yes) ==
    /\ runPc[r] = "asked"
    /\ IF yes THEN StartSaving(r) /\ given' = given \cup Held
       ELSE /\ runPc' = [runPc EXCEPT ![r] = "idle"]
            /\ UNCHANGED <<newKey, nextKey, given, overlapped>>
    /\ UNCHANGED <<keyFile, others, envKey, shown>>

SetupUnasked(r) ==
    /\ runPc[r] = "idle" /\ ~SetupAsks
    /\ StartSaving(r)
    /\ UNCHANGED <<keyFile, others, envKey, shown, given>>

\* save_wallet: the file is opened truncated, then written from its start; over
\* the text of another run a shorter one leaves a tail.
OpenKeyFile(r) ==
    /\ runPc[r] = "open" /\ runPc' = [runPc EXCEPT ![r] = "fill"]
    /\ keyFile' = Torn
    /\ UNCHANGED <<others, envKey, newKey, nextKey, shown, given, overlapped>>

FillKeyFile(r) ==
    /\ runPc[r] = "fill"
    /\ \E text \in {newKey[r]} \cup (IF keyFile \in Keys THEN {Torn} ELSE {}) : keyFile' = text
    /\ runPc' = [runPc EXCEPT ![r] = "show"]
    /\ UNCHANGED <<others, envKey, newKey, nextKey, shown, given, overlapped>>

\* The address is printed; the user sends funds to it.
ShowAddress(r) ==
    /\ runPc[r] = "show" /\ runPc' = [runPc EXCEPT ![r] = "idle"]
    /\ shown' = shown \cup {newKey[r]}
    /\ UNCHANGED <<keyFile, others, envKey, newKey, nextKey, given, overlapped>>

\* wallet reset, confirmed or forced; remove_dir_all takes the entries one by one.
Reset(r) ==
    /\ runPc[r] = "idle" /\ ConfigExists
    /\ runPc' = [runPc EXCEPT ![r] = "delete"]
    /\ given' = given \cup Held /\ overlapped' = (overlapped \/ Busy(r))
    /\ UNCHANGED <<keyFile, others, envKey, newKey, nextKey, shown>>

RemoveEntry(r) ==
    /\ runPc[r] = "delete"
    /\ \/ keyFile' = NoKeyFile /\ UNCHANGED others
       \/ \E f \in others : others' = others \ {f} /\ UNCHANGED keyFile
    /\ UNCHANGED <<envKey, runPc, newKey, nextKey, shown, given, overlapped>>

\* The directory is gone, or its removal failed because something was put in it.
ResetEnds(r) ==
    /\ runPc[r] = "delete"
    /\ runPc' = [runPc EXCEPT ![r] = "idle"]
    /\ UNCHANGED <<keyFile, others, envKey, newKey, nextKey, shown, given, overlapped>>

\* The trading programs write their files again; the flag is written by a kill.
ServerWrites(f) ==
    /\ f \in OtherFiles \ others /\ others' = others \cup {f}
    /\ UNCHANGED <<keyFile, envKey, runPc, newKey, nextKey, shown, given, overlapped>>

\* The run is interrupted.
Interrupt(r) ==
    /\ runPc[r] # "idle" /\ runPc' = [runPc EXCEPT ![r] = "idle"]
    /\ UNCHANGED <<keyFile, others, envKey, newKey, nextKey, shown, given, overlapped>>

WalletNext ==
    \/ \E f \in OtherFiles : ServerWrites(f)
    \/ \E r \in Shells :
          \/ SetupConfirm(r) \/ SetupUnasked(r) \/ OpenKeyFile(r) \/ FillKeyFile(r)
          \/ ShowAddress(r) \/ Reset(r) \/ RemoveEntry(r) \/ ResetEnds(r) \/ Interrupt(r)
          \/ \E yes \in BOOLEAN : CreateWallet(r, yes) \/ AnswerSetup(r, yes)

WalletSpec == WalletInit /\ [][WalletNext]_walletVars

\* "A wallet already exists ... Use --force to overwrite": a key whose address the
\* user was told stays in the file until the user gives it up, when the runs do
\* not overlap and no unusable key in the environment misleads the wizard.
KeysKept ==
    overlapped \/ envKey = "unusable" \/ shown \subseteq given \cup Held
=============================================================================
