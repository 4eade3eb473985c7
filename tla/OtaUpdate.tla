----------------------------- MODULE OtaUpdate -----------------------------
(***************************************************************************)
(* Over-the-air update of a pond: the node's handlers ota_check, ota_apply *)
(* and ota_rollback (rpc.rs) and the root helper tducks-ota-apply.sh that  *)
(* systemd starts as long as ota/pending.json exists.  Node and helper     *)
(* share nothing but files:                                                *)
(*                                                                         *)
(*   bin          the installed binary, TD_OTA_BIN_PATH                    *)
(*   staged       ota/tducks-<version>.bin, None when there is no such     *)
(*                file, Torn while it is being written                     *)
(*   slot         ota/previous: the binary kept for a rollback and the     *)
(*                version meta.json gives it                               *)
(*   pending      ota/pending.json                                         *)
(*   state        ota-state.json, its fields available and                 *)
(*                installed_version                                        *)
(*   applyLock    the directory ota/.apply.lock                            *)
(*                                                                         *)
(* A handler that has the node's mutex is `handler'; ota_apply gives the   *)
(* mutex up during its download, and `downloads' are the manifests of the  *)
(* requests that are there.  The small JSON files are written whole.       *)
(* A release stands for its version, its binary and its manifest.          *)
(* Neither ota_check nor ota_apply looks at pending.json: requests may     *)
(* come at any time, while others download, are pending or are installed.  *)
(***************************************************************************)
EXTENDS Integers, FiniteSets

CONSTANTS
    Release,     \* releases the manifest may offer
    Factory,     \* the release the device was delivered with
    Tiny,        \* releases whose artifact the helper's size check refuses
    Settings,    \* possible TD_OTA_AUTO_APPLY, _KEEP_PREVIOUS, _RESTART
    StartBurst,  \* starts of the helper that systemd's start limit allows
    MaxRequests, \* bound on applies and rollbacks
    MaxFaults,   \* bound on failures of the helper and power losses
    None, Torn

Build    == Release \cup {Factory}
Version  == Build \cup {None, Torn}
OtaState == [available : Release \cup {None}, installed : Version]
Pending  == [action : {"apply"}, version : Release]
            \cup [action : {"rollback"}, version : Version]
Previous == [build : Version, version : Version]

ASSUME OtaAssumption ==
    /\ Factory \notin Release
    /\ Tiny \subseteq Release
    /\ Settings \subseteq [auto : BOOLEAN, keep : BOOLEAN, restart : BOOLEAN]
    /\ {StartBurst, MaxRequests, MaxFaults} \subseteq Nat
    /\ {None, Torn} \cap Build = {}
    /\ None # Torn
    /\ None \notin OtaState \cup Pending \cup Previous

VARIABLES
    env, bin, staged, slot, pending, state, applyLock, downloads, handler,
    helper,
    restartDue,  \* the timer of systemd-run that restarts tducks.service
    watching,    \* the path unit is active
    starts,      \* starts of the helper since boot, as far as they matter
    requests,    \* applies and rollbacks so far
    faults,
    asked,       \* history: what was installed when the last apply was asked
    crowded,     \* history: that was while another request was not finished
    spoiled,     \* history: since then a helper failed between the install of
                 \* an apply and its clear
    replaced,    \* history: what the last install of an apply replaced
    rewritten,   \* history: an artifact was written anew while its install
                 \* was asked for or begun
    orphaned     \* history: power was lost while there was a lock directory

node    == <<downloads, handler>>
systemd == <<restartDue, watching, starts>>
request == <<asked, crowded, spoiled>>
harm    == <<faults, rewritten, orphaned>>
vars    == <<env, bin, staged, slot, pending, state, applyLock, node, helper,
             systemd, request, replaced, harm, requests>>

Idle == [pc |-> "idle"]

Init ==
    /\ env \in Settings
    /\ bin = Factory
    /\ staged = [r \in Release |-> None]
    /\ slot = None
    /\ pending = None
    /\ state = None
    /\ applyLock = FALSE
    /\ downloads = {}
    /\ handler = Idle
    /\ helper = Idle
    /\ restartDue = FALSE /\ watching = TRUE /\ starts = 0
    /\ requests = 0 /\ faults = 0
    /\ asked = Factory /\ crowded = FALSE /\ spoiled = FALSE
    /\ replaced = Factory
    /\ rewritten = FALSE /\ orphaned = FALSE

(***************************************************************************)
(* The node.                                                               *)
(***************************************************************************)

\* A verified manifest replaces the whole of ota-state.json.
Check(r) ==
    /\ handler.pc = "idle"
    /\ state' = [available |-> r, installed |-> None]
    /\ UNCHANGED <<env, bin, staged, slot, pending, applyLock, node, helper,
                   systemd, request, replaced, harm, requests>>

\* ota_apply takes the manifest of the last check and drops the mutex.
ApplyBegin ==
    /\ handler.pc = "idle"
    /\ requests < MaxRequests /\ requests' = requests + 1
    /\ state # None
    /\ state.available # None
    /\ downloads' = downloads \cup {state.available}
    /\ UNCHANGED <<env, bin, staged, slot, pending, state, applyLock, handler,
                   helper, systemd, request, replaced, harm>>

\* The download fails or has the wrong hash.
ApplyFails(r) ==
    /\ r \in downloads
    /\ downloads' = downloads \ {r}
    /\ UNCHANGED <<env, bin, staged, slot, pending, state, applyLock, handler,
                   helper, systemd, request, replaced, harm, requests>>

ApplyOf(r) == [action |-> "apply", version |-> r]

\* The helper has the artifact of r still to copy.
Installing(r) ==
    /\ helper.pc \in {"parsed", "locked", "copying", "saved"}
    /\ helper.job = ApplyOf(r)

\* Mutation of ApplyStage: the install is asked for before the artifact is
\* written.
ApplyStageEarly(r) ==
    /\ r \in downloads
    /\ handler.pc = "idle"
    /\ downloads' = downloads \ {r}
    /\ handler' = [pc |-> "staging", release |-> r]
    /\ staged' = [staged EXCEPT ![r] = Torn]
    /\ pending' = ApplyOf(r)
    /\ UNCHANGED <<env, bin, slot, state, applyLock, helper, systemd, request,
                   replaced, harm, requests>>

\* The artifact is here: the staged file is truncated and being written, also
\* when the helper has it to copy.
ApplyStage(r) ==
    /\ r \in downloads
    /\ handler.pc = "idle"
    /\ downloads' = downloads \ {r}
    /\ handler' = [pc |-> "staging", release |-> r]
    /\ staged' = [staged EXCEPT ![r] = Torn]
    /\ rewritten' = (rewritten \/ pending = ApplyOf(r) \/ Installing(r))
    /\ UNCHANGED <<env, bin, slot, pending, state, applyLock, helper, systemd,
                   request, replaced, faults, orphaned, requests>>

\* An earlier request is pending, or a helper has not cleared it.
Busy == pending # None \/ helper.pc \notin {"idle", "cleared"}

\* The staged file is whole; pending.json asks the helper for the install.
ApplyPend ==
    /\ handler.pc = "staging"
    /\ staged' = [staged EXCEPT ![handler.release] = handler.release]
    /\ IF env.auto
       THEN /\ pending' = ApplyOf(handler.release)
            /\ asked' = bin /\ crowded' = Busy
            /\ spoiled' = (Busy /\ spoiled)
       ELSE UNCHANGED <<pending, request>>
    /\ handler' = [handler EXCEPT !.pc = "applied"]
    /\ UNCHANGED <<env, bin, slot, state, applyLock, downloads, helper,
                   systemd, replaced, harm, requests>>

\* `systemctl start' has returned, in whatever state the helper then is, and
\* ota-state.json is written anew.
ApplyNote ==
    /\ handler.pc = "applied"
    /\ state' = [available |-> handler.release, installed |-> None]
    /\ handler' = Idle
    /\ UNCHANGED <<env, bin, staged, slot, pending, applyLock, downloads,
                   helper, systemd, request, replaced, harm, requests>>

RollbackPend ==
    /\ handler.pc = "idle"
    /\ requests < MaxRequests /\ requests' = requests + 1
    /\ pending = None
    /\ slot # None
    /\ pending' = [action |-> "rollback", version |-> slot.version]
    /\ handler' = [pc |-> "rolling"]
    /\ UNCHANGED <<env, bin, staged, slot, state, applyLock, downloads, helper,
                   systemd, request, replaced, harm>>

\* `systemctl start' has returned; the state is read, ...
RollbackRead ==
    /\ handler.pc = "rolling"
    /\ handler' = [pc |-> "merging", read |-> state]
    /\ UNCHANGED <<env, bin, staged, slot, pending, state, applyLock,
                   downloads, helper, systemd, request, replaced, harm,
                   requests>>

NoFields == [available |-> None, installed |-> None]

\* ... and written back with a note.
RollbackNote ==
    /\ handler.pc = "merging"
    /\ state' = IF handler.read = None THEN NoFields ELSE handler.read
    /\ handler' = Idle
    /\ UNCHANGED <<env, bin, staged, slot, pending, applyLock, downloads,
                   helper, systemd, request, replaced, harm, requests>>

\* The client goes away while the handler waits for `systemctl start'.
Abandoned ==
    /\ handler.pc \in {"applied", "rolling"}
    /\ handler' = Idle
    /\ UNCHANGED <<env, bin, staged, slot, pending, state, applyLock,
                   downloads, helper, systemd, request, replaced, harm,
                   requests>>

(***************************************************************************)
(* The helper.  systemd runs at most one.                                  *)
(***************************************************************************)

\* pending.json is parsed before the lock is taken.
HelperBegins ==
    /\ helper.pc = "idle"
    /\ pending # None
    /\ helper' = [pc |-> "parsed", job |-> pending]
    /\ starts' = IF starts < StartBurst THEN starts + 1 ELSE starts
    /\ UNCHANGED <<env, bin, staged, slot, pending, state, applyLock, node,
                   restartDue, watching, request, replaced, harm, requests>>

\* Started by the path unit.
HelperStart == watching /\ HelperBegins

\* Started by `systemctl start', if the node may do that.
HelperKicked ==
    /\ handler.pc = "rolling" \/ (handler.pc = "applied" /\ env.auto)
    /\ HelperBegins

\* Too many starts in too short a time: the path unit fails and stays so until
\* the next boot.
StartLimitHit ==
    /\ watching /\ starts = StartBurst
    /\ helper.pc = "idle" /\ pending # None
    /\ watching' = FALSE
    /\ UNCHANGED <<env, bin, staged, slot, pending, state, applyLock, node,
                   helper, restartDue, starts, request, replaced, harm,
                   requests>>

HelperLock ==
    /\ helper.pc = "parsed"
    /\ ~applyLock
    /\ applyLock' = TRUE
    /\ helper' = [helper EXCEPT !.pc = "locked"]
    /\ UNCHANGED <<env, bin, staged, slot, pending, state, node, systemd,
                   request, replaced, harm, requests>>

\* "another apply is in progress".
HelperRefused ==
    /\ helper.pc = "parsed"
    /\ applyLock
    /\ helper' = Idle
    /\ UNCHANGED <<env, bin, staged, slot, pending, state, applyLock, node,
                   systemd, request, replaced, harm, requests>>

\* What STAGED holds for the helper's job.
Source == IF helper.job.action = "apply" THEN staged[helper.job.version]
                                         ELSE slot.build

\* "staged file too small": a file being written may have any size.
HelperTooSmall ==
    /\ helper.pc = "locked"
    /\ Source \in Tiny \cup {Torn}
    /\ applyLock' = FALSE
    /\ helper' = Idle
    /\ UNCHANGED <<env, bin, staged, slot, pending, state, node, systemd,
                   request, replaced, harm, requests>>

\* read_installed_version, or else what the binary itself answers.
InstalledVersion ==
    IF state # None /\ state.installed # None THEN state.installed ELSE bin

\* The copy begins: ota/previous/tducks.bin is torn, and meta.json as it was.
Copying ==
    /\ slot' = [build |-> Torn, version |-> IF slot = None THEN None ELSE slot.version]
    /\ helper' = [pc |-> "copying", job |-> helper.job, version |-> InstalledVersion]

NotCopying ==
    /\ helper' = [helper EXCEPT !.pc = "saved"]
    /\ UNCHANGED slot

\* Mutation of HelperBackup: a rollback too keeps what it replaces.
HelperBackupAlways ==
    /\ helper.pc = "locked"
    /\ Source \notin Tiny
    /\ IF env.keep THEN Copying ELSE NotCopying
    /\ UNCHANGED <<env, bin, staged, pending, state, applyLock, node, systemd,
                   request, replaced, harm, requests>>

\* Before an apply the current binary is copied over the one in ota/previous.
\* (A rollback makes a copy too, under a name that nothing reads.)
HelperBackup ==
    /\ helper.pc = "locked"
    /\ Source \notin Tiny
    /\ IF helper.job.action = "apply" /\ env.keep THEN Copying ELSE NotCopying
    /\ UNCHANGED <<env, bin, staged, pending, state, applyLock, node, systemd,
                   request, replaced, harm, requests>>

\* The copy is whole, and meta.json is written.
HelperKept ==
    /\ helper.pc = "copying"
    /\ slot' = [build |-> bin, version |-> helper.version]
    /\ helper' = [pc |-> "saved", job |-> helper.job]
    /\ UNCHANGED <<env, bin, staged, pending, state, applyLock, node, systemd,
                   request, replaced, harm, requests>>

\* Copy to a sibling, rename into place.
HelperInstall ==
    /\ helper.pc = "saved"
    /\ bin' = Source
    /\ replaced' = IF helper.job.action = "apply" THEN bin ELSE replaced
    /\ helper' = [helper EXCEPT !.pc = "installed"]
    /\ UNCHANGED <<env, staged, slot, pending, state, applyLock, node, systemd,
                   request, harm, requests>>

\* The helper's python reads ota-state.json, ...
HelperRead ==
    /\ helper.pc = "installed"
    /\ helper' = [pc |-> "merging", job |-> helper.job, read |-> state]
    /\ UNCHANGED <<env, bin, staged, slot, pending, state, applyLock, node,
                   systemd, request, replaced, harm, requests>>

\* ... merges installed_version into what it read, ...
HelperReport ==
    /\ helper.pc = "merging"
    /\ state' = [(IF helper.read = None THEN NoFields ELSE helper.read)
                    EXCEPT !.installed = helper.job.version]
    /\ helper' = [pc |-> "reported", job |-> helper.job]
    /\ UNCHANGED <<env, bin, staged, slot, pending, applyLock, node, systemd,
                   request, replaced, harm, requests>>

\* ... and removes pending.json, whatever it now asks for.
HelperClear ==
    /\ helper.pc = "reported"
    /\ pending' = None
    /\ helper' = [helper EXCEPT !.pc = "cleared"]
    /\ UNCHANGED <<env, bin, staged, slot, state, applyLock, node, systemd,
                   request, replaced, harm, requests>>

\* Mutation of HelperExit: nothing removes the lock.
HelperExitLocked ==
    /\ helper.pc = "cleared"
    /\ restartDue' = (restartDue \/ env.restart)
    /\ helper' = Idle
    /\ UNCHANGED <<env, bin, staged, slot, pending, state, applyLock, node,
                   watching, starts, request, replaced, harm, requests>>

\* The restart is scheduled and the EXIT trap removes the lock.
HelperExit ==
    /\ helper.pc = "cleared"
    /\ restartDue' = (restartDue \/ env.restart)
    /\ applyLock' = FALSE
    /\ helper' = Idle
    /\ UNCHANGED <<env, bin, staged, slot, pending, state, node, watching,
                   starts, request, replaced, harm, requests>>

\* systemd restarts the node; requests under way are gone.
NodeRestart ==
    /\ restartDue
    /\ restartDue' = FALSE
    /\ downloads' = {}
    /\ handler' = Idle
    /\ UNCHANGED <<env, bin, staged, slot, pending, state, applyLock, helper,
                   watching, starts, request, replaced, harm, requests>>

Working == {"locked", "copying", "saved", "installed", "merging", "reported",
            "cleared"}

\* The helper ends here with the release installed and its request pending.
Spoils ==
    /\ helper.pc \in {"installed", "merging", "reported"}
    /\ helper.job.action = "apply"

\* A command of the helper fails (set -e): the EXIT trap removes the lock,
\* pending.json stays and systemd starts the helper again.
HelperFails ==
    /\ faults < MaxFaults
    /\ helper.pc \in Working
    /\ faults' = faults + 1
    /\ spoiled' = (spoiled \/ Spoils)
    /\ applyLock' = FALSE
    /\ helper' = Idle
    /\ UNCHANGED <<env, bin, staged, slot, pending, state, node, systemd,
                   asked, crowded, replaced, rewritten, orphaned, requests>>

\* Power is lost: both processes are gone and no trap runs.  The device boots
\* with the path unit active.
PowerLoss ==
    /\ faults < MaxFaults
    /\ faults' = faults + 1
    /\ spoiled' = (spoiled \/ Spoils)
    /\ orphaned' = (orphaned \/ applyLock)
    /\ restartDue' = FALSE /\ watching' = TRUE /\ starts' = 0
    /\ downloads' = {}
    /\ handler' = Idle
    /\ helper' = Idle
    /\ UNCHANGED <<env, bin, staged, slot, pending, state, applyLock, asked,
                   crowded, replaced, rewritten, requests>>

Node ==
    \/ \E r \in Release : Check(r) \/ ApplyFails(r) \/ ApplyStage(r)
    \/ ApplyBegin \/ ApplyPend \/ ApplyNote
    \/ RollbackPend \/ RollbackRead \/ RollbackNote \/ Abandoned

Helper ==
    \/ HelperStart \/ HelperLock \/ HelperRefused \/ HelperTooSmall
    \/ HelperBackup \/ HelperKept \/ HelperInstall
    \/ HelperRead \/ HelperReport \/ HelperClear \/ HelperExit

Next ==
    \/ Node \/ Helper \/ HelperKicked
    \/ StartLimitHit \/ NodeRestart \/ HelperFails \/ PowerLoss

Spec == Init /\ [][Next]_vars

\* The path unit, while it is active, starts the helper as long as pending.json
\* exists, and a started helper runs on.
FairSpec == Spec /\ WF_vars(Helper)

(***************************************************************************)
(* Properties.                                                             *)
(***************************************************************************)

Handler ==
    {Idle} \cup [pc : {"staging", "applied"}, release : Release]
    \cup [pc : {"rolling"}] \cup [pc : {"merging"}, read : OtaState \cup {None}]

HelperRun ==
    {Idle} \cup [pc : {"parsed"} \cup (Working \ {"copying", "merging"}), job : Pending]
    \cup [pc : {"copying"}, job : Pending, version : Version]
    \cup [pc : {"merging"}, job : Pending, read : OtaState \cup {None}]

\* The shape of the files and of the two processes' local state.
TypeOK ==
    /\ env \in Settings
    /\ bin \in Version
    /\ staged \in [Release -> Version]
    /\ slot \in Previous \cup {None}
    /\ pending \in Pending \cup {None}
    /\ state \in OtaState \cup {None}
    /\ downloads \subseteq Release
    /\ handler \in Handler
    /\ helper \in HelperRun

\* The helper's size check cannot tell a half-written artifact from a whole
\* one, and it copies over the rollback slot in place.  What keeps torn files
\* out is order: ota_apply writes pending.json after the artifact, and
\* pending.json, which makes ota_rollback refuse, goes last.  However requests
\* overlap and wherever the helper fails, the node restarts or power is lost,
\* the installed binary is a whole release, and so is the slot whenever a
\* rollback may be asked for.  One thing breaks this: ota_apply of a release
\* whose install is pending or begun writes that artifact anew under the
\* helper's hands.
BinaryIsWhole ==
    ~rewritten =>
        /\ bin \in Build \ Tiny
        /\ slot # None /\ pending = None => slot.build \in Build \ Tiny

\* "Roll back to the previous binary saved by the last successful apply": when
\* the helper clears an apply, ota/previous holds what its install replaced,
\* and when it clears a rollback that binary is back, however requests overlap
\* and helpers fail.  What was replaced is what was installed when the apply
\* was asked for, unless the request came before an earlier one was finished,
\* or a helper failed between install and clear: its successor then replaces
\* the new release by itself, and the older one cannot be brought back.
RollbackRestores ==
    [][ env.keep /\ helper.pc = "reported" /\ helper'.pc = "cleared" =>
            /\ replaced = IF helper.job.action = "apply" THEN slot.build ELSE bin
            /\ crowded \/ spoiled \/ replaced = asked ]_vars

\* An apply that has reached pending.json is installed, however often the
\* helper fails on the way and wherever power is lost, unless the loss leaves
\* the lock directory behind, the start limit of systemd stops the path unit,
\* or the artifact is too small to be a binary.  An apply that comes while
\* another request is not finished may also be overwritten by the next one or
\* removed by the helper that ends the other, and one that is asked for twice
\* may be left torn.
ApplyTakesEffect ==
    \A r \in Release \ Tiny :
        pending = ApplyOf(r) ~>
            \/ bin = r
            \/ rewritten \/ orphaned \/ ~watching
            \/ crowded /\ pending # ApplyOf(r)
=============================================================================
