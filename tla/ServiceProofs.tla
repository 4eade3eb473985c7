--------------------------- MODULE ServiceProofs ---------------------------
(***************************************************************************)
(* Theorems about the services around a node's log: the over-the-air update *)
(* (OtaUpdate), the live updates of a room (LiveFeed) and the peer-to-peer *)
(* transports (PeerLink), each for any value of its constants.             *)
(***************************************************************************)
EXTENDS OtaUpdate, LiveFeed, PeerLink, SequenceTheorems, TLAPS

(***************************************************************************)
(* Over-the-air update: the installed binary is whole, and a rollback      *)
(* brings back what the last apply replaced, however requests overlap,     *)
(* helpers fail and power is lost.                                         *)
(***************************************************************************)
Whole == Build \ Tiny

(***************************************************************************)
(* The inductive invariant.                                                *)
(***************************************************************************)
\* The helper has a job and has not cleared it.
AtWork        == helper.pc \notin {"idle", "cleared"}
Works(action) == AtWork /\ helper.job.action = action
Asks(action)  == pending # None /\ pending.action = action

\* The stages of the helper after the install.
Installed == {"installed", "merging", "reported"}

\* pending.json stays while the helper works, though a later apply may have
\* overwritten the job; a rollback never overwrites one.
JobIsAsked ==
    AtWork =>
        /\ pending # None
        /\ helper.job.action = "apply" => pending.action = "apply"
        /\ ~crowded => helper.job = pending

\* The slot holds what the last install of an apply replaced, except while an
\* apply is asked for: then it is being replaced by what is installed.
SlotKeeps ==
    /\ slot # None => env.keep
    /\ Asks("rollback") \/ Works("rollback") => slot # None
    /\ slot # None /\ (~Asks("apply") \/ Works("rollback")) => slot.build = replaced
    /\ helper.pc = "copying" => helper.job.action = "apply" /\ slot # None
    /\ Works("apply") /\ env.keep =>
           /\ helper.pc = "saved" => slot # None /\ slot.build = bin
           /\ helper.pc \in Installed => slot # None /\ slot.build = replaced
    /\ Works("rollback") /\ helper.pc \in Installed => bin = replaced

\* What was installed when the apply was asked for stays so until its install,
\* and is what that replaces.
ReplacedIsAsked ==
    ~crowded /\ ~spoiled =>
        IF Asks("apply") /\ helper.pc \notin Installed THEN bin = asked ELSE replaced = asked

\* The artifact that is asked for, or that the helper has still to copy, is
\* whole, and the helper has refused one that is too small.
SourceIsWhole ==
    ~rewritten =>
        /\ bin \in Whole /\ replaced \in Whole
        /\ \A r \in Release :
               /\ pending = ApplyOf(r) \/ Installing(r) => staged[r] = r
               /\ Installing(r) /\ helper.pc \in {"copying", "saved"} => r \notin Tiny

OtaInv == JobIsAsked /\ SlotKeeps /\ ReplacedIsAsked /\ SourceIsWhole
-----------------------------------------------------------------------------
\* What the stages say about the locals.
LEMMA Locals ==
    ASSUME TypeOK
    PROVE  /\ handler.pc \in {"idle", "staging", "applied", "rolling", "merging"}
           /\ handler.pc \in {"staging", "applied"} =>
                  handler \in [pc : {"staging", "applied"}, release : Release]
           /\ handler.pc = "merging" => handler.read \in OtaState \cup {None}
           /\ helper.pc \in {"idle", "parsed"} \cup Working
           /\ helper.pc # "idle" => helper.job \in Pending
           /\ helper.pc = "copying" => helper.version \in Version
           /\ helper.pc = "merging" => helper.read \in OtaState \cup {None}
           /\ helper.pc \notin {"idle", "copying", "merging"} =>
                  helper \in [pc : {"parsed"} \cup (Working \ {"copying", "merging"}), job : Pending]
<1>1. \/ handler = Idle
      \/ handler \in [pc : {"staging", "applied"}, release : Release]
      \/ handler \in [pc : {"rolling"}]
      \/ handler \in [pc : {"merging"}, read : OtaState \cup {None}]
  BY DEF TypeOK, Handler
<1>2. \/ helper = Idle
      \/ helper \in [pc : {"parsed"} \cup (Working \ {"copying", "merging"}), job : Pending]
      \/ helper \in [pc : {"copying"}, job : Pending, version : Version]
      \/ helper \in [pc : {"merging"}, job : Pending, read : OtaState \cup {None}]
  BY DEF TypeOK, HelperRun
<1>3. /\ handler.pc \in {"idle", "staging", "applied", "rolling", "merging"}
      /\ handler.pc \in {"staging", "applied"} =>
             handler \in [pc : {"staging", "applied"}, release : Release]
      /\ handler.pc = "merging" => handler.read \in OtaState \cup {None}
  BY <1>1 DEF Idle
<1>4. /\ helper.pc \in {"idle", "parsed"} \cup Working
      /\ helper.pc # "idle" => helper.job \in Pending
      /\ helper.pc = "copying" => helper.version \in Version
      /\ helper.pc = "merging" => helper.read \in OtaState \cup {None}
      /\ helper.pc \notin {"idle", "copying", "merging"} =>
             helper \in [pc : {"parsed"} \cup (Working \ {"copying", "merging"}), job : Pending]
  BY <1>2 DEF Idle, Working
<1> QED
  BY <1>3, <1>4

\* A request is an apply of a release or a rollback.
LEMMA Requests ==
    ASSUME NEW job \in Pending
    PROVE  /\ job # None
           /\ \/ job.action = "apply" /\ job.version \in Release /\ job = ApplyOf(job.version)
              \/ job.action = "rollback" /\ \A r : job # ApplyOf(r)
<1>1. job # None
  BY OtaAssumption
<1>2. CASE job \in [action : {"apply"}, version : Release]
  BY <1>1, <1>2 DEF ApplyOf
<1>3. CASE job \in [action : {"rollback"}, version : Version]
  BY <1>1, <1>3 DEF ApplyOf
<1> QED
  BY <1>2, <1>3 DEF Pending

\* The helper goes on to another stage with its job.
LEMMA HelperMoves ==
    ASSUME TypeOK, NEW to \in Working \ {"copying", "merging"},
           helper.pc \notin {"idle", "copying", "merging"},
           helper' = [helper EXCEPT !.pc = to]
    PROVE  helper' \in HelperRun /\ helper'.pc = to /\ helper'.job = helper.job
<1>1. helper \in [pc : {"parsed"} \cup (Working \ {"copying", "merging"}), job : Pending]
  BY Locals
<1> QED
  BY <1>1 DEF HelperRun

\* What STAGED holds is a file.
LEMMA SourceIsFile ==
    ASSUME TypeOK, SlotKeeps, AtWork
    PROVE  Source \in Version
<1>1. helper.job \in Pending
  BY Locals DEF AtWork
<1>2. CASE helper.job.action = "apply"
  BY <1>1, <1>2, Requests DEF Source, TypeOK
<1>3. CASE helper.job.action = "rollback"
  <2>1. slot \in Previous
    BY <1>3 DEF SlotKeeps, Works, TypeOK
  <2> QED
    BY <1>3, <2>1 DEF Source, Previous
<1> QED
  BY <1>1, <1>2, <1>3, Requests
-----------------------------------------------------------------------------
(***************************************************************************)
(* The types.                                                              *)
(***************************************************************************)
LEMMA OtaInitially == Init => TypeOK /\ OtaInv
<1>1. SUFFICES ASSUME Init PROVE TypeOK /\ OtaInv
  OBVIOUS
<1>2. TypeOK
  BY <1>1, OtaAssumption DEF Init, TypeOK, Handler, HelperRun, Version, Build
<1>3. ~AtWork /\ pending = None /\ slot = None /\ Factory \in Whole
  BY <1>1, OtaAssumption DEF Init, AtWork, Idle, Whole, Build
<1>4. \A r \in Release : pending # ApplyOf(r) /\ ~Installing(r)
  <2>1. \A r \in Release : ApplyOf(r) \in Pending
    BY DEF ApplyOf, Pending
  <2> QED
    BY <1>1, <1>3, <2>1, OtaAssumption DEF Init, Idle, Installing
<1>5. JobIsAsked /\ SlotKeeps
  BY <1>1, <1>3 DEF Init, JobIsAsked, SlotKeeps, Works, Asks, Idle
<1>6. ReplacedIsAsked /\ SourceIsWhole
  BY <1>1, <1>3, <1>4 DEF Init, ReplacedIsAsked, SourceIsWhole, Asks
<1> QED
  BY <1>2, <1>5, <1>6 DEF OtaInv

LEMMA NodeTypes ==
    ASSUME TypeOK, Node \/ StartLimitHit \/ NodeRestart
    PROVE  TypeOK'
<1>1. Idle \in Handler
  BY DEF Handler
<1>2. ASSUME NEW r \in Release, Check(r)
      PROVE  TypeOK'
  <2>1. state' \in OtaState
    BY <1>2 DEF Check, OtaState, Version
  <2> QED
    BY <1>2, <2>1 DEF Check, TypeOK, node
<1>3. ASSUME NEW r \in Release, ApplyFails(r)
      PROVE  TypeOK'
  BY <1>3 DEF ApplyFails, TypeOK
<1>4. ASSUME NEW r \in Release, ApplyStage(r)
      PROVE  TypeOK'
  <2>1. handler' \in Handler
    BY <1>4 DEF ApplyStage, Handler
  <2>2. staged' \in [Release -> Version]
    BY <1>4 DEF ApplyStage, TypeOK, Version
  <2> QED
    BY <1>4, <2>1, <2>2 DEF ApplyStage, TypeOK
<1>5. CASE ApplyBegin
  <2>1. state.available \in Release
    BY <1>5 DEF ApplyBegin, TypeOK, OtaState
  <2> QED
    BY <1>5, <2>1 DEF ApplyBegin, TypeOK
<1>6. CASE ApplyPend
  <2>1. handler.pc = "staging" /\ handler \in [pc : {"staging", "applied"}, release : Release]
    BY <1>6, Locals DEF ApplyPend
  <2>2. handler' \in Handler
    BY <1>6, <2>1 DEF ApplyPend, Handler
  <2>3. staged' \in [Release -> Version] /\ pending' \in Pending \cup {None}
    BY <1>6, <2>1 DEF ApplyPend, TypeOK, Version, Build, ApplyOf, Pending
  <2> QED
    BY <1>6, <2>2, <2>3 DEF ApplyPend, TypeOK
<1>7. CASE ApplyNote
  <2>1. handler.release \in Release
    BY <1>7, Locals DEF ApplyNote
  <2>2. state' \in OtaState
    BY <1>7, <2>1 DEF ApplyNote, OtaState, Version
  <2> QED
    BY <1>1, <1>7, <2>2 DEF ApplyNote, TypeOK
<1>8. CASE RollbackPend
  <2>1. slot \in Previous
    BY <1>8 DEF RollbackPend, TypeOK
  <2>2. pending' \in Pending /\ handler' \in Handler
    BY <1>8, <2>1 DEF RollbackPend, Previous, Pending, Handler
  <2> QED
    BY <1>8, <2>2 DEF RollbackPend, TypeOK
<1>9. CASE RollbackRead
  <2>1. handler' \in Handler
    BY <1>9 DEF RollbackRead, TypeOK, Handler
  <2> QED
    BY <1>9, <2>1 DEF RollbackRead, TypeOK
<1>10. CASE RollbackNote
  <2>1. handler.read \in OtaState \cup {None} /\ NoFields \in OtaState
    BY <1>10, Locals DEF RollbackNote, NoFields, OtaState, Version
  <2>2. state' \in OtaState
    BY <1>10, <2>1 DEF RollbackNote
  <2> QED
    BY <1>1, <1>10, <2>2 DEF RollbackNote, TypeOK
<1>11. CASE Abandoned
  BY <1>1, <1>11 DEF Abandoned, TypeOK
<1>12. CASE StartLimitHit
  BY <1>12 DEF StartLimitHit, TypeOK, node
<1>13. CASE NodeRestart
  BY <1>1, <1>13 DEF NodeRestart, TypeOK
<1> QED
  BY <1>2, <1>3, <1>4, <1>5, <1>6, <1>7, <1>8, <1>9, <1>10, <1>11, <1>12, <1>13 DEF Node

LEMMA HelperTypes ==
    ASSUME TypeOK, SlotKeeps, Helper \/ HelperKicked \/ HelperFails \/ PowerLoss
    PROVE  TypeOK'
<1>1. Idle \in HelperRun /\ Idle \in Handler
  BY DEF HelperRun, Handler
<1>2. CASE HelperStart \/ HelperKicked
  <2>1. helper' \in HelperRun
    BY <1>2 DEF HelperStart, HelperKicked, HelperBegins, TypeOK, HelperRun
  <2> QED
    BY <1>2, <2>1 DEF HelperStart, HelperKicked, HelperBegins, TypeOK, node
<1>3. CASE HelperLock
  <2>1. helper' \in HelperRun
    BY <1>3, HelperMoves DEF HelperLock, Working
  <2> QED
    BY <1>3, <2>1 DEF HelperLock, TypeOK, node
<1>4. CASE HelperRefused \/ HelperTooSmall \/ HelperExit \/ HelperFails \/ PowerLoss
  BY <1>1, <1>4 DEF HelperRefused, HelperTooSmall, HelperExit, HelperFails, PowerLoss, TypeOK, node
<1>5. CASE HelperBackup
  <2>1. helper.pc = "locked" /\ helper.job \in Pending
    BY <1>5, Locals DEF HelperBackup
  <2>2. CASE Copying
    <3>1. InstalledVersion \in Version
      BY DEF InstalledVersion, TypeOK, OtaState
    <3>2. helper' \in HelperRun
      BY <2>1, <2>2, <3>1 DEF Copying, HelperRun
    <3>3. slot' \in Previous
      BY <2>2 DEF Copying, Previous, TypeOK, Version
    <3> QED
      BY <1>5, <3>2, <3>3 DEF HelperBackup, TypeOK, node
  <2>3. CASE NotCopying
    <3>1. helper' \in HelperRun
      BY <2>1, <2>3, HelperMoves DEF NotCopying, Working
    <3> QED
      BY <1>5, <2>3, <3>1 DEF HelperBackup, NotCopying, TypeOK, node
  <2> QED
    BY <1>5, <2>2, <2>3 DEF HelperBackup
<1>6. CASE HelperKept
  <2>1. helper.job \in Pending /\ helper.version \in Version
    BY <1>6, Locals DEF HelperKept
  <2>2. helper' \in HelperRun /\ slot' \in Previous
    BY <1>6, <2>1 DEF HelperKept, HelperRun, Previous, TypeOK, Working
  <2> QED
    BY <1>6, <2>2 DEF HelperKept, TypeOK, node
<1>7. CASE HelperInstall
  <2>1. helper' \in HelperRun
    BY <1>7, HelperMoves DEF HelperInstall, Working
  <2>2. bin' \in Version
    BY <1>7, SourceIsFile DEF HelperInstall, AtWork
  <2> QED
    BY <1>7, <2>1, <2>2 DEF HelperInstall, TypeOK, node
<1>8. CASE HelperRead
  <2>1. helper.job \in Pending
    BY <1>8, Locals DEF HelperRead
  <2>2. helper' \in HelperRun
    BY <1>8, <2>1 DEF HelperRead, HelperRun, TypeOK
  <2> QED
    BY <1>8, <2>2 DEF HelperRead, TypeOK, node
<1>9. CASE HelperReport
  <2>1. helper.job \in Pending /\ helper.read \in OtaState \cup {None}
    BY <1>9, Locals DEF HelperReport
  <2>2. helper' \in HelperRun
    BY <1>9, <2>1 DEF HelperReport, HelperRun, Working
  <2>3. helper.job.version \in Version
    BY <2>1 DEF Pending, Version, Build
  <2>4. PICK read : read = IF helper.read = None THEN NoFields ELSE helper.read
    OBVIOUS
  <2>5. read \in OtaState
    BY <2>1, <2>4 DEF NoFields, OtaState, Version
  <2>6. state' \in OtaState
    BY <1>9, <2>3, <2>4, <2>5 DEF HelperReport, OtaState
  <2> QED
    BY <1>9, <2>2, <2>6 DEF HelperReport, TypeOK, node
<1>10. CASE HelperClear
  <2>1. helper' \in HelperRun
    BY <1>10, HelperMoves DEF HelperClear, Working
  <2> QED
    BY <1>10, <2>1 DEF HelperClear, TypeOK, node
<1> QED
  BY <1>2, <1>3, <1>4, <1>5, <1>6, <1>7, <1>8, <1>9, <1>10 DEF Helper
-----------------------------------------------------------------------------
(***************************************************************************)
(* The steps.                                                              *)
(***************************************************************************)
\* Steps of the node that leave the files the helper uses alone.
LEMMA OtaFrame ==
    ASSUME OtaInv,
           UNCHANGED <<env, bin, staged, slot, pending, helper, request, replaced, rewritten>>
    PROVE  OtaInv'
<1>1. UNCHANGED <<asked, crowded, spoiled>>
  BY DEF request
<1>2. JobIsAsked' /\ SlotKeeps'
  BY <1>1 DEF OtaInv, JobIsAsked, SlotKeeps, AtWork, Works, Asks
<1>3. ReplacedIsAsked' /\ SourceIsWhole'
  BY <1>1 DEF OtaInv, ReplacedIsAsked, SourceIsWhole, Asks, Installing
<1> QED
  BY <1>2, <1>3 DEF OtaInv

LEMMA NodeStep ==
    ASSUME OtaInv,
           \/ \E r \in Release : Check(r) \/ ApplyFails(r)
           \/ ApplyBegin \/ ApplyNote \/ RollbackRead \/ RollbackNote \/ Abandoned
           \/ StartLimitHit \/ NodeRestart
    PROVE  OtaInv'
<1>1. UNCHANGED <<env, bin, staged, slot, pending, helper, request, replaced, rewritten>>
  BY DEF Check, ApplyFails, ApplyBegin, ApplyNote, RollbackRead, RollbackNote, Abandoned,
         StartLimitHit, NodeRestart, harm
<1> QED
  BY <1>1, OtaFrame

\* An artifact is truncated: not one that is asked for, or `rewritten' says so.
LEMMA StageStep ==
    ASSUME TypeOK, OtaInv, NEW r \in Release, ApplyStage(r)
    PROVE  OtaInv'
<1>1. /\ staged' = [staged EXCEPT ![r] = Torn]
      /\ rewritten' = (rewritten \/ pending = ApplyOf(r) \/ Installing(r))
      /\ UNCHANGED <<env, bin, slot, pending, helper, asked, crowded, spoiled, replaced>>
  BY DEF ApplyStage, request
<1>2. JobIsAsked' /\ SlotKeeps'
  BY <1>1 DEF OtaInv, JobIsAsked, SlotKeeps, AtWork, Works, Asks
<1>3. ReplacedIsAsked'
  BY <1>1 DEF OtaInv, ReplacedIsAsked, Asks
<1>4. \A s \in Release : s # r => staged'[s] = staged[s]
  BY <1>1 DEF TypeOK
<1>5. \A s \in Release : Installing(s)' <=> Installing(s)
  BY <1>1 DEF Installing
<1>6. SourceIsWhole'
  BY <1>1, <1>4, <1>5 DEF OtaInv, SourceIsWhole
<1> QED
  BY <1>2, <1>3, <1>6 DEF OtaInv

\* The artifact is whole, and its install is asked for, if at all.
LEMMA PendStep ==
    ASSUME TypeOK, OtaInv, ApplyPend
    PROVE  OtaInv'
<1>1. PICK r : r = handler.release
  OBVIOUS
<1>2. r \in Release
  BY <1>1, Locals DEF ApplyPend
<1>3. /\ staged' = [staged EXCEPT ![r] = r]
      /\ UNCHANGED <<env, bin, slot, helper, replaced, rewritten>>
      /\ \/ /\ pending' = ApplyOf(r)
            /\ asked' = bin /\ crowded' = Busy /\ spoiled' = (Busy /\ spoiled)
         \/ UNCHANGED <<pending, asked, crowded, spoiled>>
  BY <1>1 DEF ApplyPend, request, harm
<1>4. staged'[r] = r /\ \A s \in Release : s # r => staged'[s] = staged[s]
  BY <1>2, <1>3 DEF TypeOK
<1>5. \A s \in Release : Installing(s)' <=> Installing(s)
  BY <1>3 DEF Installing
<1>6. \A s \in Release : ApplyOf(s) = ApplyOf(r) => s = r
  BY <1>2 DEF ApplyOf
<1>7. SourceIsWhole'
  BY <1>3, <1>4, <1>5, <1>6 DEF OtaInv, SourceIsWhole
<1>8. CASE UNCHANGED <<pending, asked, crowded, spoiled>>
  <2>1. JobIsAsked' /\ SlotKeeps'
    BY <1>3, <1>8 DEF OtaInv, JobIsAsked, SlotKeeps, AtWork, Works, Asks
  <2>2. ReplacedIsAsked'
    BY <1>3, <1>8 DEF OtaInv, ReplacedIsAsked, Asks
  <2> QED
    BY <1>7, <2>1, <2>2 DEF OtaInv
<1>9. CASE /\ pending' = ApplyOf(r)
           /\ asked' = bin /\ crowded' = Busy /\ spoiled' = (Busy /\ spoiled)
  <2>1. ApplyOf(r) \in Pending /\ ApplyOf(r).action = "apply"
    BY <1>2 DEF ApplyOf, Pending
  <2>2. pending' # None /\ Asks("apply")' /\ ~Asks("rollback")'
    BY <1>9, <2>1, OtaAssumption DEF Asks
  <2>3. AtWork' <=> AtWork
    BY <1>3 DEF AtWork
  <2>4. AtWork => Busy
    BY DEF AtWork, Busy
  <2>5. JobIsAsked'
    BY <1>3, <1>9, <2>1, <2>2, <2>3, <2>4 DEF JobIsAsked
  <2>6. SlotKeeps'
    BY <1>3, <2>2, <2>3 DEF OtaInv, SlotKeeps, Works
  <2>7. ~Busy => helper.pc \notin Installed
    BY DEF Busy, Installed
  <2>8. ReplacedIsAsked'
    BY <1>3, <1>9, <2>2, <2>7 DEF ReplacedIsAsked
  <2> QED
    BY <1>7, <2>5, <2>6, <2>8 DEF OtaInv
<1> QED
  BY <1>3, <1>8, <1>9

\* A rollback is asked for while nothing is pending.
LEMMA RollbackStep ==
    ASSUME TypeOK, TypeOK', OtaInv, RollbackPend
    PROVE  OtaInv'
<1>1. /\ pending = None /\ slot # None
      /\ pending' = [action |-> "rollback", version |-> slot.version]
      /\ UNCHANGED <<env, bin, staged, slot, helper, asked, crowded, spoiled, replaced, rewritten>>
  BY DEF RollbackPend, request, harm
<1>2. ~AtWork /\ ~AtWork'
  BY <1>1 DEF OtaInv, JobIsAsked, AtWork
<1>3. /\ ~Asks("apply") /\ ~Asks("apply")'
      /\ \A r \in Release : pending' # ApplyOf(r)
  BY <1>1 DEF Asks, ApplyOf
<1>4. \A r \in Release : ~Installing(r)'
  BY <1>2 DEF AtWork, Installing
<1>5. JobIsAsked' /\ SlotKeeps'
  <2>1. helper.pc \notin {"copying"}
    BY <1>2 DEF AtWork
  <2> QED
    BY <1>1, <1>2, <1>3, <2>1 DEF OtaInv, JobIsAsked, SlotKeeps, Works
<1>6. ReplacedIsAsked'
  BY <1>1, <1>3 DEF OtaInv, ReplacedIsAsked
<1>7. SourceIsWhole'
  BY <1>1, <1>3, <1>4 DEF OtaInv, SourceIsWhole
<1> QED
  BY <1>5, <1>6, <1>7 DEF OtaInv
-----------------------------------------------------------------------------
\* Steps of the helper, and losses of it, that leave the binary, the artifacts,
\* the slot and pending.json alone: it goes idle, begins, or goes on before or
\* after the install.
LEMMA HelperFrame ==
    ASSUME TypeOK, OtaInv,
           UNCHANGED <<env, bin, staged, slot, pending, asked, crowded, replaced, rewritten>>,
           spoiled' = spoiled \/ spoiled' = (spoiled \/ Spoils),
           \/ helper' = Idle /\ (spoiled' = (spoiled \/ Spoils) \/ helper.pc \notin Installed)
           \/ /\ helper.pc = "idle" /\ pending # None
              /\ helper'.pc = "parsed" /\ helper'.job = pending
           \/ /\ helper.pc = "parsed" /\ helper'.pc = "locked" /\ helper'.job = helper.job
           \/ /\ helper.pc \in Installed /\ helper'.pc \in Installed
              /\ helper'.job = helper.job
    PROVE  OtaInv'
<1>1. Asks("apply")' = Asks("apply") /\ Asks("rollback")' = Asks("rollback")
  BY DEF Asks
<1>2. spoiled => spoiled'
  OBVIOUS
<1>3. CASE helper' = Idle /\ (spoiled' = (spoiled \/ Spoils) \/ helper.pc \notin Installed)
  <2>1. ~AtWork' /\ helper'.pc = "idle"
    BY <1>3 DEF AtWork, Idle
  <2>2. JobIsAsked'
    BY <2>1 DEF JobIsAsked
  <2>3. SlotKeeps'
    BY <1>1, <2>1 DEF OtaInv, SlotKeeps, Works, Installed
  <2>4. ReplacedIsAsked'
    <3>1. SUFFICES ASSUME ~crowded, ~spoiled'
                   PROVE  IF Asks("apply") THEN bin = asked ELSE replaced = asked
      BY <1>1, <2>1 DEF ReplacedIsAsked, Installed
    <3>2. ~spoiled
      BY <1>2, <3>1
    <3>3. CASE helper.pc \notin Installed
      BY <3>1, <3>2, <3>3 DEF OtaInv, ReplacedIsAsked
    <3>4. CASE helper.pc \in Installed
      <4>1. ~Spoils
        BY <1>3, <3>1, <3>4
      <4>2. helper.job = pending /\ pending # None /\ helper.job.action # "apply"
        BY <3>1, <3>4, <4>1 DEF OtaInv, JobIsAsked, AtWork, Installed, Spoils
      <4> QED
        BY <3>1, <3>2, <3>4, <4>2 DEF OtaInv, ReplacedIsAsked, Asks
    <3> QED
      BY <3>3, <3>4
  <2>5. SourceIsWhole'
    <3>1. \A r \in Release : ~Installing(r)'
      BY <2>1 DEF Installing
    <3> QED
      BY <3>1 DEF OtaInv, SourceIsWhole
  <2> QED
    BY <2>2, <2>3, <2>4, <2>5 DEF OtaInv
<1>4. CASE /\ helper.pc = "idle" /\ pending # None
           /\ helper'.pc = "parsed" /\ helper'.job = pending
  <2>1. pending \in Pending
    BY <1>4 DEF TypeOK
  <2>2. JobIsAsked'
    BY <1>4 DEF JobIsAsked
  <2>3. Works("rollback")' <=> Asks("rollback")
    BY <1>4 DEF Works, AtWork, Asks
  <2>4. Asks("rollback") => ~Asks("apply")
    BY <2>1 DEF Asks, Pending
  <2>5. SlotKeeps'
    BY <1>1, <1>4, <2>3, <2>4 DEF OtaInv, SlotKeeps, Installed
  <2>6. ReplacedIsAsked'
    BY <1>1, <1>2, <1>4 DEF OtaInv, ReplacedIsAsked, Installed
  <2>7. \A r \in Release : Installing(r)' => pending = ApplyOf(r)
    BY <1>4 DEF Installing
  <2>8. SourceIsWhole'
    BY <1>4, <2>7 DEF OtaInv, SourceIsWhole
  <2> QED
    BY <2>2, <2>5, <2>6, <2>8 DEF OtaInv
<1>5. CASE /\ helper.pc = "parsed" /\ helper'.pc = "locked" /\ helper'.job = helper.job
  <2>1. AtWork /\ AtWork'
    BY <1>5 DEF AtWork
  <2>2. JobIsAsked' /\ SlotKeeps'
    BY <1>1, <1>5, <2>1 DEF OtaInv, JobIsAsked, SlotKeeps, Works, Installed
  <2>3. ReplacedIsAsked'
    BY <1>1, <1>2, <1>5 DEF OtaInv, ReplacedIsAsked, Installed
  <2>4. \A r \in Release : Installing(r)' => Installing(r)
    BY <1>5 DEF Installing
  <2>5. SourceIsWhole'
    BY <1>5, <2>4 DEF OtaInv, SourceIsWhole
  <2> QED
    BY <2>2, <2>3, <2>5 DEF OtaInv
<1>6. CASE /\ helper.pc \in Installed /\ helper'.pc \in Installed
           /\ helper'.job = helper.job
  <2>1. AtWork /\ AtWork'
    BY <1>6 DEF AtWork, Installed
  <2>2. JobIsAsked' /\ SlotKeeps'
    BY <1>1, <1>6, <2>1 DEF OtaInv, JobIsAsked, SlotKeeps, Works, Installed
  <2>3. ReplacedIsAsked'
    BY <1>1, <1>2, <1>6 DEF OtaInv, ReplacedIsAsked
  <2>4. \A r \in Release : ~Installing(r)'
    BY <1>6 DEF Installing, Installed
  <2>5. SourceIsWhole'
    BY <2>4 DEF OtaInv, SourceIsWhole
  <2> QED
    BY <2>2, <2>3, <2>5 DEF OtaInv
<1> QED
  BY <1>3, <1>4, <1>5, <1>6

LEMMA HelperStep ==
    ASSUME TypeOK, OtaInv,
           \/ HelperStart \/ HelperKicked \/ HelperLock \/ HelperRefused \/ HelperTooSmall
           \/ HelperRead \/ HelperReport \/ HelperExit \/ HelperFails \/ PowerLoss
    PROVE  OtaInv'
<1>1. UNCHANGED <<env, bin, staged, slot, pending, asked, crowded, replaced, rewritten>>
  <2>1. CASE HelperStart \/ HelperKicked \/ HelperLock \/ HelperRefused \/ HelperTooSmall
    BY <2>1 DEF HelperStart, HelperKicked, HelperBegins, HelperLock, HelperRefused,
                HelperTooSmall, request, harm
  <2>2. CASE HelperRead \/ HelperReport \/ HelperExit
    BY <2>2 DEF HelperRead, HelperReport, HelperExit, request, harm
  <2>3. CASE HelperFails \/ PowerLoss
    BY <2>3 DEF HelperFails, PowerLoss
  <2> QED
    BY <2>1, <2>2, <2>3
<1>2. CASE HelperStart \/ HelperKicked
  <2>1. /\ helper.pc = "idle" /\ pending # None /\ UNCHANGED spoiled
        /\ helper'.pc = "parsed" /\ helper'.job = pending
    BY <1>2 DEF HelperStart, HelperKicked, HelperBegins, request
  <2> QED
    BY <1>1, <2>1, HelperFrame
<1>3. CASE HelperLock
  <2>1. helper.pc = "parsed" /\ UNCHANGED spoiled /\ helper' = [helper EXCEPT !.pc = "locked"]
    BY <1>3 DEF HelperLock, request
  <2>2. helper'.pc = "locked" /\ helper'.job = helper.job
    BY <2>1, HelperMoves DEF Working
  <2> QED
    BY <1>1, <2>1, <2>2, HelperFrame
<1>4. CASE HelperRefused \/ HelperTooSmall \/ HelperExit
  <2>1. helper' = Idle /\ UNCHANGED spoiled /\ helper.pc \notin Installed
    BY <1>4 DEF HelperRefused, HelperTooSmall, HelperExit, Installed, request
  <2> QED
    BY <1>1, <2>1, HelperFrame
<1>5. CASE HelperRead \/ HelperReport
  <2>1. /\ helper.pc \in Installed /\ helper'.pc \in Installed /\ helper'.job = helper.job
        /\ UNCHANGED spoiled
    BY <1>5 DEF HelperRead, HelperReport, Installed, request
  <2> QED
    BY <1>1, <2>1, HelperFrame
<1>6. CASE HelperFails \/ PowerLoss
  <2>1. helper' = Idle /\ spoiled' = (spoiled \/ Spoils)
    BY <1>6 DEF HelperFails, PowerLoss
  <2> QED
    BY <1>1, <2>1, HelperFrame
<1> QED
  BY <1>2, <1>3, <1>4, <1>5, <1>6

\* The backup of an apply begins, or nothing is to be kept.
LEMMA BackupStep ==
    ASSUME TypeOK, OtaInv, HelperBackup
    PROVE  OtaInv'
<1>1. /\ helper.pc = "locked" /\ Source \notin Tiny
      /\ UNCHANGED <<env, bin, staged, pending, asked, crowded, spoiled, replaced, rewritten>>
  BY DEF HelperBackup, request, harm
<1>2. AtWork /\ helper.job \in Pending
  BY <1>1, Locals DEF AtWork
<1>3. Asks("apply")' = Asks("apply") /\ Asks("rollback")' = Asks("rollback")
  BY <1>1 DEF Asks
<1>4. /\ helper'.pc \in {"copying", "saved"} /\ helper'.job = helper.job
      /\ \/ /\ helper'.pc = "copying" /\ helper.job.action = "apply" /\ env.keep
            /\ slot' \in Previous
         \/ /\ helper'.pc = "saved" /\ slot' = slot
            /\ ~(helper.job.action = "apply" /\ env.keep)
  <2>1. CASE helper.job.action = "apply" /\ env.keep
    <3>1. Copying
      BY <2>1 DEF HelperBackup
    <3>2. slot' \in Previous
      BY <3>1 DEF Copying, Previous, TypeOK, Version
    <3> QED
      BY <2>1, <3>1, <3>2 DEF Copying
  <2>2. CASE ~(helper.job.action = "apply" /\ env.keep)
    <3>1. NotCopying
      BY <2>2 DEF HelperBackup
    <3>2. helper'.pc = "saved" /\ helper'.job = helper.job
      BY <1>1, <3>1, HelperMoves DEF NotCopying, Working
    <3> QED
      BY <2>2, <3>1, <3>2 DEF NotCopying
  <2> QED
    BY <2>1, <2>2
<1>5. AtWork' /\ helper.pc \notin Installed /\ helper'.pc \notin Installed
  BY <1>1, <1>4 DEF AtWork, Installed
<1>6. JobIsAsked' /\ ReplacedIsAsked'
  BY <1>1, <1>2, <1>3, <1>4, <1>5 DEF OtaInv, JobIsAsked, ReplacedIsAsked
<1>7. SlotKeeps'
  <2>1. CASE /\ helper'.pc = "copying" /\ helper.job.action = "apply" /\ env.keep
             /\ slot' \in Previous
    <3>1. slot' # None /\ Asks("apply") /\ ~Asks("rollback") /\ ~Works("rollback")'
      BY <1>2, <1>4, <2>1, OtaAssumption DEF OtaInv, JobIsAsked, Asks, Works
    <3> QED
      BY <1>1, <1>3, <1>4, <1>5, <2>1, <3>1 DEF SlotKeeps
  <2>2. CASE /\ helper'.pc = "saved" /\ slot' = slot
             /\ ~(helper.job.action = "apply" /\ env.keep)
    <3>1. Works("rollback")' <=> Works("rollback")
      BY <1>2, <1>4, <1>5 DEF Works
    <3>2. ~(Works("apply")' /\ env.keep)
      BY <1>4, <2>2 DEF Works
    <3> QED
      BY <1>1, <1>3, <1>4, <1>5, <2>2, <3>1, <3>2 DEF OtaInv, SlotKeeps
  <2> QED
    BY <1>4, <2>1, <2>2
<1>8. SourceIsWhole'
  <2>1. \A r \in Release : Installing(r)' <=> Installing(r)
    BY <1>1, <1>4 DEF Installing
  <2>2. \A r \in Release : Installing(r) => Source = staged[r]
    BY DEF Installing, Source, ApplyOf
  <2> QED
    BY <1>1, <2>1, <2>2 DEF OtaInv, SourceIsWhole
<1> QED
  BY <1>6, <1>7, <1>8 DEF OtaInv

\* The copy is whole, and it is a copy of what is installed.
LEMMA KeptStep ==
    ASSUME TypeOK, OtaInv, HelperKept
    PROVE  OtaInv'
<1>1. /\ helper.pc = "copying" /\ slot' = [build |-> bin, version |-> helper.version]
      /\ helper'.pc = "saved" /\ helper'.job = helper.job
      /\ UNCHANGED <<env, bin, staged, pending, asked, crowded, spoiled, replaced, rewritten>>
  BY DEF HelperKept, request, harm
<1>2. /\ AtWork /\ AtWork' /\ helper.pc \notin Installed /\ helper'.pc \notin Installed
      /\ helper.job.action = "apply" /\ slot # None
  BY <1>1 DEF OtaInv, SlotKeeps, AtWork, Installed
<1>3. Asks("apply")' = Asks("apply") /\ Asks("rollback")' = Asks("rollback")
  BY <1>1 DEF Asks
<1>4. JobIsAsked' /\ ReplacedIsAsked'
  BY <1>1, <1>2, <1>3 DEF OtaInv, JobIsAsked, ReplacedIsAsked
<1>5. slot'.build = bin /\ slot' # None
  <2>1. slot' \in Previous
    BY <1>1, Locals DEF Previous, TypeOK
  <2> QED
    BY <1>1, <2>1, OtaAssumption
<1>6. Asks("apply") /\ ~Asks("rollback") /\ ~Works("rollback")'
  BY <1>1, <1>2 DEF OtaInv, JobIsAsked, Asks, Works
<1>7. SlotKeeps'
  BY <1>1, <1>2, <1>3, <1>5, <1>6 DEF OtaInv, SlotKeeps
<1>8. SourceIsWhole'
  <2>1. \A r \in Release : Installing(r)' <=> Installing(r)
    BY <1>1 DEF Installing
  <2> QED
    BY <1>1, <2>1 DEF OtaInv, SourceIsWhole
<1> QED
  BY <1>4, <1>7, <1>8 DEF OtaInv

\* What is installed is whole; a rollback installs what was replaced.
LEMMA InstallStep ==
    ASSUME TypeOK, OtaInv, HelperInstall
    PROVE  OtaInv'
<1>1. /\ helper.pc = "saved" /\ bin' = Source
      /\ replaced' = IF helper.job.action = "apply" THEN bin ELSE replaced
      /\ helper' = [helper EXCEPT !.pc = "installed"]
      /\ UNCHANGED <<env, staged, slot, pending, asked, crowded, spoiled, rewritten>>
  BY DEF HelperInstall, request, harm
<1>2. helper'.pc = "installed" /\ helper'.job = helper.job
  BY <1>1, HelperMoves DEF Working
<1>3. /\ AtWork /\ AtWork' /\ helper.pc \notin Installed /\ helper'.pc \in Installed
      /\ helper.job \in Pending /\ \A r \in Release : ~Installing(r)'
  BY <1>1, <1>2, Locals DEF AtWork, Installed, Installing
<1>4. Asks("apply")' = Asks("apply") /\ Asks("rollback")' = Asks("rollback")
  BY <1>1 DEF Asks
<1>5. JobIsAsked'
  BY <1>1, <1>2, <1>3 DEF OtaInv, JobIsAsked
<1>6. CASE helper.job.action = "apply"
  <2>1. /\ Asks("apply") /\ ~Asks("rollback") /\ ~Works("rollback")' /\ Works("apply")
        /\ replaced' = bin
    BY <1>1, <1>2, <1>3, <1>6 DEF OtaInv, JobIsAsked, Asks, Works
  <2>2. SlotKeeps'
    BY <1>1, <1>2, <1>3, <1>4, <2>1 DEF OtaInv, SlotKeeps
  <2>3. ReplacedIsAsked'
    BY <1>1, <1>3, <1>4, <2>1 DEF OtaInv, ReplacedIsAsked
  <2>4. PICK r \in Release : helper.job = ApplyOf(r)
    BY <1>3, <1>6, Requests
  <2>5. Installing(r) /\ Source = staged[r]
    BY <1>1, <2>4 DEF Installing, Source, ApplyOf
  <2>6. ~rewritten => Source \in Whole
    BY <1>1, <2>5 DEF OtaInv, SourceIsWhole, Whole, Build
  <2>7. SourceIsWhole'
    BY <1>1, <1>3, <2>1, <2>6 DEF OtaInv, SourceIsWhole
  <2> QED
    BY <1>5, <2>2, <2>3, <2>7 DEF OtaInv
<1>7. CASE helper.job.action = "rollback"
  <2>1. Works("rollback") /\ ~Works("apply")' /\ replaced' = replaced
    BY <1>1, <1>2, <1>3, <1>7 DEF Works
  <2>2. slot # None /\ bin' = slot.build /\ slot.build = replaced
    BY <1>1, <1>7, <2>1 DEF OtaInv, SlotKeeps, Source
  <2>3. SlotKeeps'
    BY <1>1, <1>2, <1>3, <1>4, <2>1, <2>2 DEF OtaInv, SlotKeeps
  <2>4. ~crowded => ~Asks("apply")
    BY <1>3, <1>7 DEF OtaInv, JobIsAsked, Asks
  <2>5. ReplacedIsAsked'
    BY <1>1, <1>4, <2>1, <2>4 DEF OtaInv, ReplacedIsAsked
  <2>6. SourceIsWhole'
    BY <1>1, <1>3, <2>1, <2>2 DEF OtaInv, SourceIsWhole
  <2> QED
    BY <1>5, <2>3, <2>5, <2>6 DEF OtaInv
<1> QED
  BY <1>3, <1>6, <1>7, Requests

\* With pending.json gone a rollback may be asked for: the slot is whole.
LEMMA ClearStep ==
    ASSUME TypeOK, OtaInv, HelperClear
    PROVE  OtaInv'
<1>1. /\ helper.pc = "reported" /\ pending' = None
      /\ helper' = [helper EXCEPT !.pc = "cleared"]
      /\ UNCHANGED <<env, bin, staged, slot, asked, crowded, spoiled, replaced, rewritten>>
  BY DEF HelperClear, request, harm
<1>2. helper'.pc = "cleared" /\ helper.job \in Pending
  BY <1>1, HelperMoves, Locals DEF Working
<1>3. /\ AtWork /\ ~AtWork' /\ helper.pc \in Installed
      /\ ~Asks("apply")' /\ ~Asks("rollback")'
  BY <1>1, <1>2 DEF AtWork, Installed, Asks
<1>4. JobIsAsked'
  BY <1>3 DEF JobIsAsked
<1>5. slot # None => slot.build = replaced
  <2>1. Works("apply") \/ Works("rollback")
    BY <1>2, <1>3, Requests DEF Works
  <2> QED
    BY <1>3, <2>1 DEF OtaInv, SlotKeeps
<1>6. SlotKeeps'
  BY <1>1, <1>2, <1>3, <1>5 DEF OtaInv, SlotKeeps, Works
<1>7. ReplacedIsAsked'
  BY <1>1, <1>3 DEF OtaInv, ReplacedIsAsked
<1>8. SourceIsWhole'
  <2>1. \A r \in Release : ApplyOf(r) \in Pending
    BY DEF ApplyOf, Pending
  <2>2. \A r \in Release : pending' # ApplyOf(r) /\ ~Installing(r)'
    BY <1>1, <1>2, <2>1, OtaAssumption DEF Installing
  <2> QED
    BY <1>1, <2>2 DEF OtaInv, SourceIsWhole
<1> QED
  BY <1>4, <1>6, <1>7, <1>8 DEF OtaInv
-----------------------------------------------------------------------------
LEMMA OtaStep == TypeOK /\ OtaInv /\ [Next]_vars => TypeOK' /\ OtaInv'
<1>1. SUFFICES ASSUME TypeOK, OtaInv, [Next]_vars PROVE TypeOK' /\ OtaInv'
  OBVIOUS
<1>2. CASE UNCHANGED vars
  <2>1. TypeOK'
    BY <1>1, <1>2 DEF vars, TypeOK, node
  <2>2. OtaInv'
    BY <1>1, <1>2, OtaFrame DEF vars, harm
  <2> QED
    BY <2>1, <2>2
<1>3. CASE Node \/ StartLimitHit \/ NodeRestart
  <2>1. TypeOK'
    BY <1>1, <1>3, NodeTypes
  <2>2. CASE \/ \E r \in Release : Check(r) \/ ApplyFails(r)
             \/ ApplyBegin \/ ApplyNote \/ RollbackRead \/ RollbackNote \/ Abandoned
             \/ StartLimitHit \/ NodeRestart
    BY <1>1, <2>1, <2>2, NodeStep
  <2>3. ASSUME NEW r \in Release, ApplyStage(r) PROVE OtaInv'
    BY <1>1, <2>3, StageStep
  <2>4. CASE ApplyPend \/ RollbackPend
    BY <1>1, <2>1, <2>4, PendStep, RollbackStep
  <2> QED
    BY <1>3, <2>1, <2>2, <2>3, <2>4 DEF Node
<1>4. CASE Helper \/ HelperKicked \/ HelperFails \/ PowerLoss
  <2>1. TypeOK'
    BY <1>1, <1>4, HelperTypes DEF OtaInv
  <2>2. OtaInv'
    BY <1>1, <1>4, HelperStep, BackupStep, KeptStep, InstallStep, ClearStep DEF Helper
  <2> QED
    BY <2>1, <2>2
<1> QED
  BY <1>1, <1>2, <1>3, <1>4 DEF Next

\* However requests overlap, wherever the helper fails, the node restarts or
\* power is lost: unless an artifact is written anew while its install is asked
\* for or begun, the installed binary is a whole release, and so is
\* ota/previous whenever ota_rollback may be asked for (BinaryIsWhole).
THEOREM InstalledIsWhole == Spec => []BinaryIsWhole
<1>1. TypeOK /\ OtaInv => BinaryIsWhole
  BY DEF OtaInv, SlotKeeps, SourceIsWhole, BinaryIsWhole, Asks, Whole
<1> QED
  BY <1>1, OtaInitially, OtaStep, PTL DEF Spec

\* Whenever the helper clears an apply, ota/previous holds what its install
\* replaced, and whenever it clears a rollback that is installed again; for a
\* request that waited for the one before it, and whose helper did not fail
\* after the install, that is what was installed when the apply was asked for
\* (RollbackRestores).
THEOREM RollbackIsExact == Spec => RollbackRestores
<1>1. ASSUME TypeOK, OtaInv, [Next]_vars,
             env.keep, helper.pc = "reported", helper'.pc = "cleared"
      PROVE  /\ replaced = IF helper.job.action = "apply" THEN slot.build ELSE bin
             /\ crowded \/ spoiled \/ replaced = asked
  <2>1. AtWork /\ helper.pc \in Installed /\ helper.job \in Pending
    BY <1>1, Locals DEF AtWork, Installed
  <2>2. Works("apply") \/ Works("rollback")
    BY <2>1, Requests DEF Works
  <2>3. replaced = IF helper.job.action = "apply" THEN slot.build ELSE bin
    BY <1>1, <2>1, <2>2 DEF OtaInv, SlotKeeps, Works
  <2>4. crowded \/ spoiled \/ replaced = asked
    BY <1>1, <2>1 DEF OtaInv, ReplacedIsAsked
  <2> QED
    BY <2>3, <2>4
<1>2. TypeOK /\ OtaInv /\ [Next]_vars =>
          [env.keep /\ helper.pc = "reported" /\ helper'.pc = "cleared" =>
              /\ replaced = IF helper.job.action = "apply" THEN slot.build ELSE bin
              /\ crowded \/ spoiled \/ replaced = asked]_vars
  BY <1>1
<1> QED
  BY <1>2, OtaInitially, OtaStep, PTL DEF Spec, RollbackRestores
-----------------------------------------------------------------------------
(***************************************************************************)
(* Live updates.  The strengthening: whatever a stream in its loop was not *)
(* shown yet is announced by a writer that is about to notify, by a value  *)
(* in the stream's channel, or by the mark that values were dropped.       *)
(***************************************************************************)
Receiver == [stage : {"off", "first", "recv", "changed"},
             rx : Seq({"this", "other"}), lag : BOOLEAN, last : Nat]

Announced(r) == r.lag \/ \E i \in DOMAIN r.rx : r.rx[i] = "this"

Followed(r) == r.stage = "recv" => r.last >= due \/ owed # {} \/ Announced(r)

FeedInv ==
    /\ count \in Nat /\ due \in Nat /\ due <= count
    /\ stream \in [Stream -> Receiver]
    /\ \A s \in Stream : Len(stream[s].rx) <= Capacity
    /\ \A s \in Stream : Followed(stream[s])

\* broadcast::Sender::send keeps what was announced, and announces a change
\* of this room.
LEMMA ReceivedAnnounces ==
    ASSUME NEW r \in Receiver, NEW room \in {"this", "other"}, Len(r.rx) <= Capacity
    PROVE  /\ Received(r, room) \in Receiver
           /\ Len(Received(r, room).rx) <= Capacity
           /\ Received(r, room).stage = r.stage
           /\ Received(r, room).last = r.last
           /\ r.stage # "off" /\ (Announced(r) \/ room = "this")
                  => Announced(Received(r, room))
<1> USE FeedAssumption
<1>1. CASE r.stage = "off"
  BY <1>1 DEF Received
<1>2. CASE r.stage # "off" /\ Len(r.rx) < Capacity
  <2>1. Received(r, room) = [r EXCEPT !.rx = Append(r.rx, room)]
    BY <1>2 DEF Received
  <2>2. PICK rx : rx = Append(r.rx, room)
    OBVIOUS
  <2>3. rx \in Seq({"this", "other"})
    BY <2>2 DEF Receiver
  <2>4. /\ Received(r, room) \in Receiver
        /\ Received(r, room).rx = rx /\ Received(r, room).lag = r.lag
        /\ Received(r, room).stage = r.stage /\ Received(r, room).last = r.last
    BY <2>1, <2>2, <2>3, Zenon DEF Receiver
  <2>5. /\ Len(rx) = Len(r.rx) + 1 /\ rx[Len(r.rx) + 1] = room
        /\ \A i \in DOMAIN r.rx : rx[i] = r.rx[i]
    BY <2>2 DEF Receiver
  <2> QED BY <1>2, <2>3, <2>4, <2>5 DEF Announced, Receiver
<1>3. CASE r.stage # "off" /\ ~(Len(r.rx) < Capacity)
  <2>1. Received(r, room) = [r EXCEPT !.rx = Append(Tail(r.rx), room), !.lag = TRUE]
    BY <1>3 DEF Received
  <2>2. Len(r.rx) = Capacity /\ r.rx # <<>>
    BY <1>3 DEF Receiver
  <2>3. Append(Tail(r.rx), room) \in Seq({"this", "other"})
        /\ Len(Append(Tail(r.rx), room)) = Len(r.rx)
    BY <2>2 DEF Receiver
  <2> QED BY <2>1, <2>2, <2>3 DEF Announced, Receiver
<1> QED BY <1>1, <1>2, <1>3

\* RoomNotify keeps the strengthening.
LEMMA PublishFollowed ==
    ASSUME FeedInv, NEW room \in {"this", "other"}, Publish(room), count' = count, due' = due,
           (room = "other" => owed' = owed)
    PROVE  FeedInv'
<1>1. \A s \in Stream : /\ stream'[s] \in Receiver /\ Len(stream'[s].rx) <= Capacity
                        /\ stream'[s].stage = stream[s].stage
                        /\ stream'[s].last = stream[s].last
                        /\ stream[s].stage # "off" /\ (Announced(stream[s]) \/ room = "this")
                                => Announced(stream'[s])
  BY ReceivedAnnounces DEF FeedInv, Publish
<1>2. stream' \in [Stream -> Receiver]
  BY <1>1 DEF Publish
<1>3. ASSUME NEW s \in Stream PROVE Followed(stream[s])'
  <2>1. Followed(stream[s])
    BY DEF FeedInv
  <2>2. Announced(stream[s])' <=> Announced(stream'[s])
    BY DEF Announced
  <2> QED BY <1>1, <2>1, <2>2 DEF Followed
<1> QED BY <1>1, <1>2, <1>3 DEF FeedInv

\* A step of one stream.
LEMMA StreamFollowed ==
    ASSUME FeedInv, NEW s \in Stream, NEW r \in Receiver, stream' = [stream EXCEPT ![s] = r],
           Len(r.rx) <= Capacity, r.stage = "recv" => r.last >= due \/ owed # {} \/ Announced(r),
           count' = count, due' = due, owed' = owed
    PROVE  FeedInv'
<1>1. stream' \in [Stream -> Receiver]
      /\ \A t \in Stream : stream'[t] = IF t = s THEN r ELSE stream[t]
  BY DEF FeedInv
<1>2. ASSUME NEW t \in Stream PROVE Followed(stream[t])'
  <2>1. Followed(stream[t])
    BY DEF FeedInv
  <2> QED BY <1>1, <2>1 DEF Followed, Announced
<1> QED BY <1>1, <1>2 DEF FeedInv

\* Every step keeps the strengthening.
LEMMA FeedStep == FeedInv /\ [FeedNext]_feedVars => FeedInv'
<1> SUFFICES ASSUME FeedInv, [FeedNext]_feedVars PROVE FeedInv'
  OBVIOUS
<1>1. ASSUME NEW h \in Writer, Insert(h) PROVE FeedInv'
  <2>1. count' = count + 1 /\ stream' = stream /\ owed \subseteq owed'
        /\ (due' = due \/ (due' = count' /\ owed' # {}))
    BY <1>1 DEF Insert
  <2>2. ASSUME NEW s \in Stream PROVE Followed(stream[s])'
    <3>1. Followed(stream[s])
      BY DEF FeedInv
    <3> QED BY <2>1, <3>1 DEF Followed, Announced
  <2> QED BY <2>1, <2>2 DEF FeedInv
<1>2. ASSUME NEW h \in Writer, Notify(h) PROVE FeedInv'
  BY <1>2, PublishFollowed DEF Notify
<1>3. CASE NotifyOther
  BY <1>3, PublishFollowed DEF NotifyOther
<1>4. ASSUME NEW s \in Stream, Subscribe(s) PROVE FeedInv'
  <2>1. PICK r : r = [stream[s] EXCEPT !.stage = "first"]
    OBVIOUS
  <2>2. stream' = [stream EXCEPT ![s] = r] /\ UNCHANGED <<count, due, owed>>
    BY <1>4, <2>1 DEF Subscribe
  <2>3. r \in Receiver /\ Len(r.rx) <= Capacity /\ r.stage = "first"
    BY <2>1 DEF FeedInv, Receiver
  <2> QED BY <2>2, <2>3, StreamFollowed
<1>5. ASSUME NEW s \in Stream, Snapshot(s) PROVE FeedInv'
  <2>1. PICK r : r = [stream[s] EXCEPT !.stage = "recv", !.last = count]
    OBVIOUS
  <2>2. stream' = [stream EXCEPT ![s] = r] /\ UNCHANGED <<count, due, owed>>
    BY <1>5, <2>1 DEF Snapshot
  <2>3. r \in Receiver /\ Len(r.rx) <= Capacity /\ r.last >= due
    BY <2>1 DEF FeedInv, Receiver
  <2> QED BY <2>2, <2>3, StreamFollowed
<1>6. ASSUME NEW s \in Stream, Recv(s) PROVE FeedInv'
  <2>1. PICK r : r = [stream[s] EXCEPT !.rx = Tail(stream[s].rx),
                          !.stage = IF Head(stream[s].rx) = "this" THEN "changed" ELSE stream[s].stage]
    OBVIOUS
  <2>2. stream' = [stream EXCEPT ![s] = r] /\ UNCHANGED <<count, due, owed>>
    BY <1>6, <2>1 DEF Recv
  <2>3. stream[s] \in Receiver /\ stream[s].rx \in Seq({"this", "other"}) /\ stream[s].rx # <<>>
        /\ Len(stream[s].rx) <= Capacity /\ ~stream[s].lag
    BY <1>6 DEF FeedInv, Receiver, Recv
  <2>4. Tail(stream[s].rx) \in Seq({"this", "other"})
        /\ Len(Tail(stream[s].rx)) = Len(stream[s].rx) - 1
        /\ Head(stream[s].rx) = stream[s].rx[1]
        /\ \A i \in DOMAIN stream[s].rx : i # 1 => /\ i - 1 \in DOMAIN Tail(stream[s].rx)
                                                   /\ Tail(stream[s].rx)[i - 1] = stream[s].rx[i]
    BY <2>3
  <2>5. r \in Receiver /\ r.rx = Tail(stream[s].rx) /\ r.last = stream[s].last
        /\ r.lag = stream[s].lag
        /\ r.stage = IF Head(stream[s].rx) = "this" THEN "changed" ELSE stream[s].stage
    BY <2>1, <2>3, <2>4 DEF Receiver
  <2>6. Len(r.rx) <= Capacity
    BY <2>3, <2>4, <2>5, FeedAssumption DEF Receiver
  <2>7. Followed(stream[s])
    BY DEF FeedInv
  <2>8. r.stage = "recv" /\ Announced(stream[s]) => Announced(r)
    BY <2>3, <2>4, <2>5 DEF Announced
  <2>9. r.stage = "recv" => r.last >= due \/ owed # {} \/ Announced(r)
    BY <2>5, <2>7, <2>8, <1>6 DEF Followed, Recv
  <2> QED BY <2>2, <2>5, <2>6, <2>9, StreamFollowed
<1>7. ASSUME NEW s \in Stream, RecvLagged(s) PROVE FeedInv'
  <2>1. PICK r : r = [stream[s] EXCEPT !.lag = FALSE, !.stage = "changed"]
    OBVIOUS
  <2>2. stream' = [stream EXCEPT ![s] = r] /\ UNCHANGED <<count, due, owed>>
    BY <1>7, <2>1 DEF RecvLagged
  <2>3. r \in Receiver /\ Len(r.rx) <= Capacity /\ r.stage = "changed"
    BY <2>1 DEF FeedInv, Receiver
  <2> QED BY <2>2, <2>3, StreamFollowed
<1>8. ASSUME NEW s \in Stream, Close(s) PROVE FeedInv'
  <2>1. stream' = [stream EXCEPT ![s] = NoStream] /\ UNCHANGED <<count, due, owed>>
    BY <1>8 DEF Close
  <2>2. NoStream \in Receiver /\ Len(NoStream.rx) <= Capacity /\ NoStream.stage = "off"
    BY FeedAssumption DEF NoStream, Receiver
  <2> QED BY <2>1, <2>2, StreamFollowed
<1>9. ASSUME UNCHANGED <<count, owed, due, stream>> PROVE FeedInv'
  BY <1>9 DEF FeedInv, Followed, Announced
<1>10. ASSUME NEW w \in Waiter,
              WaitStep(w) \/ WaitDeadline(w) \/ \E since \in 0..count : WaitStart(w, since)
       PROVE  UNCHANGED <<count, owed, due, stream>>
  BY <1>10 DEF WaitStep, WaitDeadline, WaitStart, WaitAnswer, WaitUnchanged, WaitSleep
<1>11. CASE UNCHANGED feedVars
  BY <1>9, <1>11 DEF feedVars
<1> QED BY <1>1, <1>2, <1>3, <1>4, <1>5, <1>6, <1>7, <1>8, <1>9, <1>10, <1>11
        DEF FeedNext, StreamStep

\* No stream is open when the node starts.
LEMMA FeedInitially == FeedInit => FeedInv
<1>1. NoStream \in Receiver /\ Len(NoStream.rx) = 0 /\ NoStream.stage = "off"
  BY DEF NoStream, Receiver
<1> QED BY <1>1, FeedAssumption DEF FeedInit, FeedInv, Followed

\* RoomNotify and stream_messages: for any writers, streams, long polls and
\* capacity of the channel, a stream that waits with nothing in its channel
\* has shown every message that is notified, unless a writer is about to.
THEOREM StreamsStayCurrent == FeedSpec => []StreamIsCurrent
<1>1. FeedInv => StreamIsCurrent
  BY DEF FeedInv, StreamIsCurrent, Followed, Announced
<1> QED BY <1>1, FeedInitially, FeedStep, PTL DEF FeedSpec

-----------------------------------------------------------------------------
(***************************************************************************)
(* Peer links.  The strengthening says in which stage every connection is, *)
(* and in the stage of plain frames that what is left over and on the wire *)
(* goes on with the frames that were not handed on yet (Follows).          *)
(***************************************************************************)
\* What a wire carries.
Unit == (Event \X Nat) \cup {Shake}
Marked == [unit : Unit, end : BOOLEAN]

\* Frames of w from the kth on, and where they begin among the units u: a
\* witness that grows with a write and moves with a read, so that no induction
\* over the frames is needed.
Placed(first, u, w, k, o, d) ==
    /\ first[k] = 1 - o
    /\ \A i \in k..Len(w) :
           /\ first[i + 1] = first[i] + Size[w[i]] + 1
           /\ first[i + 1] <= first[Len(w) + 1]
           /\ \A j \in 0..Size[w[i]] :
                  first[i] + j \in 1..Len(u) => u[first[i] + j] = <<w[i], j>>
    /\ Len(u) < first[Len(w) + 1]
    /\ d # "closed" => Len(u) = first[Len(w) + 1] - 1

\* The units u go on with the frames of w from the kth, o units of which are
\* gone; while the dialer d is there, nothing is missing at the end.
Follows(u, w, k, o, d) ==
    \E first \in [k..(Len(w) + 1) -> Int] : Placed(first, u, w, k, o, d)

\* v is what is left of u after n units.
Advances(u, n, v) ==
    /\ n <= Len(u) /\ Len(v) = Len(u) - n
    /\ \A i \in 1..Len(v) : v[i] = u[i + n]

\* Before the first frame is written nothing is to come.
LEMMA FollowsNothing ==
    ASSUME NEW d PROVE Follows(<<>>, <<>>, 1, 0, d)
<1>1. PICK f : f = [i \in 1..1 |-> 1]
  OBVIOUS
<1>2. f \in [1..(Len(<<>>) + 1) -> Int] /\ f[1] = 1
  BY <1>1
<1> QED BY <1>2 DEF Follows, Placed

\* A break of the connection leaves the beginning of what was to come.
LEMMA FollowsPrefix ==
    ASSUME NEW u \in Seq(Unit), NEW v \in Seq(Unit), NEW w \in Seq(Event),
           NEW k \in 1..(Len(w) + 1),
           NEW o \in {0, 1}, NEW d, Follows(u, w, k, o, d),
           Len(v) <= Len(u), \A i \in 1..Len(v) : v[i] = u[i]
    PROVE  Follows(v, w, k, o, "closed")
<1>1. PICK f \in [k..(Len(w) + 1) -> Int] : Placed(f, u, w, k, o, d)
  BY DEF Follows
<1>2. Len(w) + 1 \in k..(Len(w) + 1) /\ f[Len(w) + 1] \in Int
  BY <1>1
<1>3. ASSUME NEW i \in k..Len(w), NEW j \in 0..Size[w[i]], f[i] + j \in 1..Len(v)
      PROVE  v[f[i] + j] = <<w[i], j>>
  <2>1. f[i] + j \in 1..Len(u)
    BY <1>3
  <2> QED BY <1>1, <1>3, <2>1 DEF Placed
<1>4. Len(v) < f[Len(w) + 1]
  BY <1>1, <1>2 DEF Placed
<1>5. Placed(f, v, w, k, o, "closed")
  BY <1>1, <1>3, <1>4 DEF Placed
<1> QED BY <1>5 DEF Follows

\* After n units, whichever frame they end in, the rest still follows.
LEMMA FollowsRest ==
    ASSUME NEW u \in Seq(Unit), NEW v \in Seq(Unit), NEW w \in Seq(Event),
           NEW k \in 1..(Len(w) + 1),
           NEW o \in {0, 1}, NEW d,
           NEW f \in [k..(Len(w) + 1) -> Int], Placed(f, u, w, k, o, d),
           NEW n \in Nat, Advances(u, n, v),
           NEW l \in k..(Len(w) + 1), NEW q \in {0, 1}, f[l] - n = 1 - q
    PROVE  Follows(v, w, l, q, d)
<1>1. PICK g : g = [i \in l..(Len(w) + 1) |-> f[i] - n]
  OBVIOUS
<1>2. \A i \in l..(Len(w) + 1) : i \in k..(Len(w) + 1) /\ f[i] \in Int
  OBVIOUS
<1>3. g \in [l..(Len(w) + 1) -> Int] /\ \A i \in l..(Len(w) + 1) : g[i] = f[i] - n
  BY <1>1, <1>2
<1>4. g[l] = 1 - q
  <2>1. l \in l..(Len(w) + 1)
    OBVIOUS
  <2> QED BY <1>3, <2>1
<1>5. PICK z \in Int : z = f[Len(w) + 1] /\ g[Len(w) + 1] = z - n
  <2>1. Len(w) + 1 \in l..(Len(w) + 1)
    OBVIOUS
  <2> QED BY <1>2, <1>3, <2>1
<1>6. PICK m \in Nat : m = Len(u) /\ Len(v) = m - n /\ n <= m
  BY DEF Advances
<1>7. ASSUME NEW i \in l..Len(w)
      PROVE  /\ g[i + 1] = g[i] + Size[w[i]] + 1
             /\ g[i + 1] <= g[Len(w) + 1]
             /\ \A j \in 0..Size[w[i]] : g[i] + j \in 1..Len(v) => v[g[i] + j] = <<w[i], j>>
  <2>1. i \in k..Len(w) /\ i \in l..(Len(w) + 1) /\ i + 1 \in l..(Len(w) + 1)
    OBVIOUS
  <2>2. PICK p \in Nat : p = Size[w[i]]
    <3>1. i \in 1..Len(w) /\ w[i] \in Event
      BY <2>1
    <3> QED BY <3>1, LinkAssumption
  <2>3. PICK a \in Int : a = f[i] /\ g[i] = a - n
    BY <1>2, <1>3, <2>1
  <2>4. PICK b \in Int : b = f[i + 1] /\ g[i + 1] = b - n
    BY <1>2, <1>3, <2>1
  <2>5. b = a + p + 1 /\ b <= z
    BY <1>5, <2>1, <2>2, <2>3, <2>4 DEF Placed
  <2>6. ASSUME NEW j \in 0..p, (a - n) + j \in 1..(m - n) PROVE v[(a - n) + j] = <<w[i], j>>
    <3>1. a + j \in 1..m /\ ((a - n) + j) + n = a + j
      BY <1>6, <2>6
    <3>2. v[(a - n) + j] = u[a + j]
      BY <1>6, <2>6, <3>1 DEF Advances
    <3>3. u[a + j] = <<w[i], j>>
      BY <1>6, <2>1, <2>2, <2>3, <2>6, <3>1 DEF Placed
    <3> QED BY <3>2, <3>3
  <2>7. (b - n) = (a - n) + p + 1 /\ b - n <= z - n
    BY <2>5
  <2> QED BY <1>5, <1>6, <2>2, <2>3, <2>4, <2>6, <2>7
<1>8. m < z /\ (d # "closed" => m = z - 1)
  BY <1>5, <1>6 DEF Placed
<1>9. m - n < z - n /\ (d # "closed" => m - n = (z - n) - 1)
  BY <1>8
<1>10. Placed(g, v, w, l, q, d)
  BY <1>4, <1>5, <1>6, <1>7, <1>9 DEF Placed
<1> QED BY <1>3, <1>10 DEF Follows

\* read_exact of a length: it is the length of the next frame.
LEMMA FollowsHead ==
    ASSUME NEW u \in Seq(Unit), NEW v \in Seq(Unit), NEW w \in Seq(Event),
           NEW k \in 1..(Len(w) + 1),
           NEW d, Follows(u, w, k, 0, d), Advances(u, 1, v)
    PROVE  /\ k <= Len(w) /\ u[1] = <<w[k], 0>>
           /\ Follows(v, w, k, 1, d)
<1>1. PICK f \in [k..(Len(w) + 1) -> Int] : Placed(f, u, w, k, 0, d)
  BY DEF Follows
<1>2. k \in k..(Len(w) + 1) /\ f[k] = 1
  BY <1>1 DEF Placed
<1>3. Len(u) >= 1 /\ Len(u) \in Nat
  BY DEF Advances
<1>4. k <= Len(w)
  BY <1>1, <1>2, <1>3 DEF Placed
<1>5. Size[w[k]] \in Nat
  BY <1>4, LinkAssumption
<1>6. u[1] = <<w[k], 0>>
  <2>1. k \in k..Len(w) /\ 0 \in 0..Size[w[k]] /\ f[k] + 0 = 1 /\ 1 \in 1..Len(u)
    BY <1>2, <1>3, <1>4, <1>5
  <2> QED BY <1>1, <2>1 DEF Placed
<1>7. f[k] - 1 = 1 - 1
  BY <1>2
<1>8. Follows(v, w, k, 1, d)
  BY <1>1, <1>2, <1>7, FollowsRest
<1> QED BY <1>4, <1>6, <1>8

\* read_exact of a body: it is the body of the frame whose length was read.
LEMMA FollowsBody ==
    ASSUME NEW u \in Seq(Unit), NEW v \in Seq(Unit), NEW w \in Seq(Event), NEW k \in 1..Len(w),
           NEW d, Follows(u, w, k, 1, d), Advances(u, Size[w[k]], v)
    PROVE  /\ \A j \in 1..Size[w[k]] : u[j] = <<w[k], j>>
           /\ Follows(v, w, k + 1, 0, d)
<1>1. PICK f \in [k..(Len(w) + 1) -> Int] : Placed(f, u, w, k, 1, d)
  BY DEF Follows
<1>2. k \in k..Len(w) /\ k \in 1..(Len(w) + 1) /\ k + 1 \in k..(Len(w) + 1) /\ f[k] = 0
  BY <1>1 DEF Placed
<1>3. PICK n \in Nat : n = Size[w[k]]
  BY LinkAssumption
<1>4. PICK m \in Nat : m = Len(u) /\ n <= m
  BY <1>3 DEF Advances
<1>5. ASSUME NEW j \in 1..n PROVE u[j] = <<w[k], j>>
  <2>1. j \in 0..n /\ f[k] + j = j /\ j \in 1..m
    BY <1>2, <1>4
  <2> QED BY <1>1, <1>2, <1>3, <1>4, <2>1 DEF Placed
<1>6. f[k + 1] - n = 1 - 0
  <2>1. f[k + 1] = f[k] + Size[w[k]] + 1
    BY <1>1, <1>2 DEF Placed
  <2>2. f[k + 1] = n + 1
    BY <1>2, <1>3, <2>1
  <2> QED BY <2>2
<1>7. Follows(v, w, k + 1, 0, d)
  BY <1>1, <1>2, <1>3, <1>6, FollowsRest
<1> QED BY <1>3, <1>5, <1>7

\* v is u and then s.
Extends(u, s, v) ==
    /\ Len(v) = Len(u) + Len(s)
    /\ \A i \in 1..Len(u) : v[i] = u[i]
    /\ \A i \in 1..Len(s) : v[Len(u) + i] = s[i]

\* A frame is its length and then its body.
LEMMA FrameUnits ==
    ASSUME NEW e \in Event
    PROVE  /\ Size[e] \in Nat /\ Frame(e) \in Seq(Unit) /\ Len(Frame(e)) = Size[e] + 1
           /\ \A i \in 1..(Size[e] + 1) : Frame(e)[i] = <<e, i - 1>>
<1>1. Size[e] \in Nat /\ Size[e] + 1 \in Nat
  BY LinkAssumption
<1>2. \A i \in 1..(Size[e] + 1) : <<e, i - 1>> \in Unit
  BY <1>1 DEF Unit
<1> QED BY <1>1, <1>2 DEF Frame

\* write_event: a frame joins the end of what is to come, if nothing is
\* missing there.
LEMMA FollowsFrame ==
    ASSUME NEW u \in Seq(Unit), NEW v \in Seq(Unit), NEW w \in Seq(Event),
           NEW k \in 1..(Len(w) + 1),
           NEW o \in {0, 1}, NEW d, d # "closed", NEW b, Follows(u, w, k, o, d),
           NEW e \in Event,
           Extends(u, Frame(e), v)
    PROVE  Follows(v, Append(w, e), k, o, b)
<1>1. PICK f \in [k..(Len(w) + 1) -> Int] : Placed(f, u, w, k, o, d)
  BY DEF Follows
<1>2. PICK n \in Nat : n = Size[e]
  BY LinkAssumption
<1>3. PICK m \in Nat : m = Len(u)
  OBVIOUS
<1>4. PICK h \in Nat : h = Len(w)
  OBVIOUS
<1>5. k \in 1..(h + 1) /\ h + 1 \in k..(h + 1) /\ f \in [k..(h + 1) -> Int]
  BY <1>1, <1>4
<1>6. f[h + 1] = m + 1
  <2>1. f[h + 1] \in Int /\ m = f[h + 1] - 1
    BY <1>1, <1>3, <1>4, <1>5 DEF Placed
  <2> QED BY <2>1
<1>7. /\ Len(v) = m + n + 1
      /\ \A i \in 1..m : v[i] = u[i]
      /\ \A j \in 0..n : v[(m + 1) + j] = <<e, j>>
  <2>1. Len(Frame(e)) = n + 1 /\ \A i \in 1..(n + 1) : Frame(e)[i] = <<e, i - 1>>
    BY <1>2, FrameUnits
  <2>2. ASSUME NEW j \in 0..n PROVE v[(m + 1) + j] = <<e, j>>
    <3>1. PICK i \in 1..(n + 1) : i = j + 1
      OBVIOUS
    <3>2. v[m + i] = Frame(e)[i]
      BY <1>3, <2>1 DEF Extends
    <3>3. Frame(e)[i] = <<e, i - 1>>
      BY <2>1
    <3>4. m + i = (m + 1) + j /\ i - 1 = j
      BY <3>1
    <3> QED BY <3>2, <3>3, <3>4
  <2>3. Len(v) = Len(u) + Len(Frame(e)) /\ \A i \in 1..m : v[i] = u[i]
    BY <1>3 DEF Extends
  <2> QED BY <1>3, <2>1, <2>2, <2>3
<1>8. PICK x \in Seq(Event) : x = Append(w, e)
  BY AppendProperties
<1>9. Len(x) = h + 1 /\ x[h + 1] = e /\ \A i \in 1..h : x[i] = w[i]
  BY <1>4, <1>8, AppendProperties
<1>10. PICK g : g = [i \in k..(h + 2) |-> IF i = h + 2 THEN m + n + 2 ELSE f[i]]
  OBVIOUS
<1>11. g \in [k..(h + 2) -> Int] /\ g[h + 2] = m + n + 2 /\ \A i \in k..(h + 1) : g[i] = f[i]
  <2>1. h + 2 \in k..(h + 2) /\ m + n + 2 \in Int
    BY <1>5
  <2>2. \A i \in k..(h + 2) : i # h + 2 => i \in k..(h + 1)
    BY <1>5
  <2>3. \A i \in k..(h + 2) : i # h + 2 => f[i] \in Int
    BY <1>5, <2>2
  <2>4. \A i \in k..(h + 1) : i \in k..(h + 2) /\ i # h + 2
    BY <1>5
  <2> QED BY <1>10, <2>1, <2>3, <2>4
<1>12. ASSUME NEW i \in k..(h + 1)
       PROVE  /\ g[i + 1] = g[i] + Size[x[i]] + 1
              /\ g[i + 1] <= g[h + 2]
              /\ \A j \in 0..Size[x[i]] : g[i] + j \in 1..Len(v) => v[g[i] + j] = <<x[i], j>>
  <2>1. CASE i = h + 1
    <3>1. x[i] = e /\ Size[x[i]] = n /\ g[i] = m + 1 /\ i + 1 = h + 2
      BY <1>2, <1>5, <1>6, <1>9, <1>11, <2>1
    <3>2. g[i + 1] = (m + 1) + n + 1
      BY <1>11, <3>1
    <3>3. g[i + 1] = g[i] + Size[x[i]] + 1 /\ g[i + 1] <= g[h + 2]
      BY <1>11, <3>1, <3>2
    <3> QED BY <1>7, <3>1, <3>3
  <2>2. CASE i # h + 1
    <3>1. i \in k..h /\ i \in 1..h /\ i + 1 \in k..(h + 1)
      BY <1>5, <2>2
    <3>2. x[i] = w[i] /\ w[i] \in Event
      BY <1>4, <1>9, <3>1
    <3>3. PICK p \in Nat : p = Size[w[i]]
      BY <3>2, LinkAssumption
    <3>4. PICK a \in Int : a = f[i] /\ g[i] = a
      BY <1>5, <1>11
    <3>5. PICK c \in Int : c = f[i + 1] /\ g[i + 1] = c
      BY <1>5, <1>11, <3>1
    <3>6. c = a + p + 1 /\ c <= m + 1
      BY <1>1, <1>4, <1>6, <3>1, <3>3, <3>4, <3>5 DEF Placed
    <3>7. ASSUME NEW j \in 0..p, a + j \in 1..Len(v) PROVE v[a + j] = <<w[i], j>>
      <4>1. a + j \in 1..m
        BY <1>7, <3>6, <3>7
      <4>2. u[a + j] = <<w[i], j>>
        BY <1>1, <1>3, <1>4, <3>1, <3>3, <3>4, <4>1 DEF Placed
      <4> QED BY <1>7, <4>1, <4>2
    <3>8. c <= m + n + 2
      BY <3>6
    <3> QED BY <1>11, <3>2, <3>3, <3>4, <3>5, <3>6, <3>7, <3>8
  <2> QED BY <2>1, <2>2
<1>13. Len(v) < g[h + 2] /\ Len(v) = g[h + 2] - 1
  BY <1>7, <1>11
<1>14. k \in k..(h + 1) /\ g[k] = 1 - o
  BY <1>1, <1>5, <1>11 DEF Placed
<1>15. Len(x) + 1 = h + 2
  BY <1>9
<1>16. Placed(g, v, x, k, o, b)
  BY <1>9, <1>12, <1>13, <1>14, <1>15 DEF Placed
<1> QED BY <1>8, <1>11, <1>15, <1>16 DEF Follows

\* The units of pieces.
LEMMA TextOf ==
    ASSUME NEW s \in Seq(Marked)
    PROVE  /\ Text(s) \in Seq(Unit) /\ Len(Text(s)) = Len(s)
           /\ \A i \in 1..Len(s) : Text(s)[i] = s[i].unit
<1>1. \A i \in 1..Len(s) : s[i].unit \in Unit
  <2>1. \A i \in 1..Len(s) : s[i] \in Marked
    OBVIOUS
  <2> QED BY <2>1 DEF Marked
<1>2. DOMAIN s = 1..Len(s) /\ Len(s) \in Nat
  OBVIOUS
<1>3. Text(s) = [i \in 1..Len(s) |-> s[i].unit]
  BY <1>2 DEF Text
<1>4. Text(s) \in [1..Len(s) -> Unit]
  BY <1>1, <1>3
<1>5. Text(s) \in Seq(Unit) /\ Len(Text(s)) = Len(s)
  BY <1>2, <1>4, IsASeq, LenProperties
<1> QED BY <1>3, <1>5

\* No pieces, no units.
LEMMA TextOfNothing == Text(<<>>) = <<>>
<1>1. <<>> \in Seq(Marked)
  OBVIOUS
<1> QED BY <1>1, TextOf, EmptySeq

\* A frame on the wire, in single units or in messages, has the frame's units.
LEMMA FrameOnWire ==
    ASSUME NEW e \in Event, NEW x \in {Units(Frame(e)), Chunks(Frame(e))}
    PROVE  /\ x \in Seq(Marked) /\ Len(x) = Len(Frame(e))
           /\ \A i \in 1..Len(x) : x[i].unit = Frame(e)[i] /\ x[i] # Message
<1>1. PICK s \in Seq(Unit) : s = Frame(e)
  BY FrameUnits
<1>2. DOMAIN s = 1..Len(s) /\ Len(s) \in Nat
  OBVIOUS
<1>3. \A i \in 1..Len(s) : s[i] \in Unit
  OBVIOUS
<1>4. PICK y : x = [i \in 1..Len(s) |-> [unit |-> s[i], end |-> y[i]]]
               /\ y \in [1..Len(s) -> BOOLEAN]
  <2>1. CASE x = Units(s)
    <3>1. [i \in 1..Len(s) |-> TRUE] \in [1..Len(s) -> BOOLEAN]
      OBVIOUS
    <3>2. x = [i \in 1..Len(s) |-> [unit |-> s[i], end |-> [j \in 1..Len(s) |-> TRUE][i]]]
      BY <1>2, <2>1, Zenon DEF Units
    <3> QED BY <3>1, <3>2
  <2>2. CASE x = Chunks(s)
    <3>1. [i \in 1..Len(s) |-> i % MaxPlain = 0 \/ i = Len(s)] \in [1..Len(s) -> BOOLEAN]
      BY Zenon
    <3>2. x = [i \in 1..Len(s) |->
                  [unit |-> s[i], end |-> [j \in 1..Len(s) |-> j % MaxPlain = 0 \/ j = Len(s)][i]]]
      BY <1>2, <2>2, Zenon DEF Chunks
    <3> QED BY <3>1, <3>2
  <2> QED BY <1>1, <2>1, <2>2
<1>5. \A i \in 1..Len(s) : x[i] = [unit |-> s[i], end |-> y[i]] /\ y[i] \in BOOLEAN
  BY <1>4, Zenon
<1>6. ASSUME NEW i \in 1..Len(s) PROVE x[i] \in Marked /\ x[i].unit = s[i]
  <2>1. s[i] \in Unit /\ y[i] \in BOOLEAN /\ x[i] = [unit |-> s[i], end |-> y[i]]
    BY <1>3, <1>5, Zenon
  <2>2. CASE y[i] = TRUE
    <3>1. x[i] = [unit |-> s[i], end |-> TRUE]
      BY <2>1, <2>2, Zenon
    <3> QED BY <2>1, <3>1 DEF Marked
  <2>3. CASE y[i] = FALSE
    <3>1. x[i] = [unit |-> s[i], end |-> FALSE]
      BY <2>1, <2>3, Zenon
    <3> QED BY <2>1, <3>1 DEF Marked
  <2> QED BY <2>1, <2>2, <2>3
<1>7. x \in [1..Len(s) -> Marked]
  BY <1>4, <1>6
<1>8. x \in Seq(Marked) /\ Len(x) = Len(s)
  BY <1>2, <1>7, IsASeq, LenProperties
<1>9. ASSUME NEW i \in 1..Len(s) PROVE x[i] # Message
  <2>1. Len(s) = Size[e] + 1 /\ Size[e] \in Nat /\ s[i] = <<e, i - 1>>
    BY <1>1, FrameUnits
  <2>2. i - 1 \in Nat /\ s[i] \in Event \X Nat
    BY <2>1
  <2>3. s[i] # Shake
    BY <2>2, LinkAssumption
  <2> QED BY <1>6, <2>3 DEF Message
<1> QED BY <1>1, <1>6, <1>8, <1>9

\* Concatenation, by index.
LEMMA ConcatOf ==
    ASSUME NEW S, NEW s \in Seq(S), NEW t \in Seq(S)
    PROVE  /\ s \o t \in Seq(S) /\ Len(s \o t) = Len(s) + Len(t)
           /\ \A i \in 1..Len(s) : (s \o t)[i] = s[i]
           /\ \A i \in 1..Len(t) : (s \o t)[Len(s) + i] = t[i]
<1>1. s \o t \in Seq(S) /\ Len(s \o t) = Len(s) + Len(t)
  BY ConcatProperties
<1>2. \A i \in 1..(Len(s) + Len(t)) : (s \o t)[i] = IF i <= Len(s) THEN s[i] ELSE t[i - Len(s)]
  BY ConcatProperties
<1>3. ASSUME NEW i \in 1..Len(t) PROVE (s \o t)[Len(s) + i] = t[i]
  <2>1. PICK j \in 1..(Len(s) + Len(t)) : j = Len(s) + i
    OBVIOUS
  <2>2. ~(j <= Len(s)) /\ j - Len(s) = i
    BY <2>1
  <2> QED BY <1>2, <2>1, <2>2
<1>4. ASSUME NEW i \in 1..Len(s) PROVE (s \o t)[i] = s[i]
  <2>1. i \in 1..(Len(s) + Len(t)) /\ i <= Len(s)
    OBVIOUS
  <2> QED BY <1>2, <2>1
<1> QED BY <1>1, <1>3, <1>4

\* SubSeq, by index.
LEMMA SubSeqOf ==
    ASSUME NEW S, NEW s \in Seq(S), NEW a \in 1..(Len(s) + 1), NEW b \in (a - 1)..Len(s)
    PROVE  /\ SubSeq(s, a, b) \in Seq(S) /\ Len(SubSeq(s, a, b)) = b - a + 1
           /\ \A i \in 1..(b - a + 1) : SubSeq(s, a, b)[i] = s[a + i - 1]
<1>1. \A i \in a..b : s[i] \in S
  OBVIOUS
<1>2. a \in Int /\ b \in Int /\ b - a + 1 = IF a <= b THEN b - a + 1 ELSE 0
  OBVIOUS
<1>3. /\ SubSeq(s, a, b) \in Seq(S)
      /\ Len(SubSeq(s, a, b)) = IF a <= b THEN b - a + 1 ELSE 0
      /\ \A i \in 1..(b - a + 1) : SubSeq(s, a, b)[i] = s[a + i - 1]
  BY <1>1, <1>2, SubSeqProperties
<1> QED BY <1>2, <1>3

\* What is left over, and what comes from the wire.
Stock(b, s) == b \o Text(s)

\* Stock, by index.
LEMMA StockOf ==
    ASSUME NEW b \in Seq(Unit), NEW s \in Seq(Marked)
    PROVE  /\ Stock(b, s) \in Seq(Unit) /\ Len(Stock(b, s)) = Len(b) + Len(s)
           /\ \A i \in 1..Len(b) : Stock(b, s)[i] = b[i]
           /\ \A i \in 1..Len(s) : Stock(b, s)[Len(b) + i] = s[i].unit
<1>1. PICK t \in Seq(Unit) : t = Text(s) /\ Len(t) = Len(s)
                             /\ \A i \in 1..Len(s) : t[i] = s[i].unit
  BY TextOf
<1>2. /\ b \o t \in Seq(Unit) /\ Len(b \o t) = Len(b) + Len(t)
      /\ \A i \in 1..Len(b) : (b \o t)[i] = b[i]
      /\ \A i \in 1..Len(t) : (b \o t)[Len(b) + i] = t[i]
  BY ConcatOf
<1>3. Stock(b, s) = b \o t
  BY <1>1 DEF Stock
<1> QED BY <1>1, <1>2, <1>3

\* read_exact, on what is left over and on the wire.
LEMMA ReadOf ==
    ASSUME NEW b \in Seq(Unit), NEW s \in Seq(Marked), NEW n \in Nat, NEW p, NEW q,
           \/ n <= Len(b) /\ p = SubSeq(b, n + 1, Len(b)) /\ q = s
           \/ /\ n > Len(b)
              /\ \E k \in (n - Len(b))..Len(s) :
                     /\ p = Text(SubSeq(s, (n - Len(b)) + 1, k))
                     /\ q = SubSeq(s, k + 1, Len(s))
    PROVE  /\ p \in Seq(Unit) /\ q \in Seq(Marked)
           /\ Advances(Stock(b, s), n, Stock(p, q))
<1>1. PICK u \in Seq(Unit) : u = Stock(b, s)
  BY StockOf
<1>2. PICK y \in Nat, z \in Nat : y = Len(b) /\ z = Len(s) /\ Len(u) = y + z
  BY <1>1, StockOf
<1>3. (\A i \in 1..y : u[i] = b[i]) /\ (\A i \in 1..z : u[y + i] = s[i].unit)
  BY <1>1, <1>2, StockOf
<1>4. CASE n <= y /\ p = SubSeq(b, n + 1, y) /\ q = s
  <2>1. n + 1 \in 1..(y + 1) /\ y \in ((n + 1) - 1)..y /\ y - (n + 1) + 1 = y - n
    BY <1>4
  <2>2. p \in Seq(Unit) /\ Len(p) = y - n /\ \A i \in 1..(y - n) : p[i] = b[(n + 1) + i - 1]
    <3>1. n + 1 \in 1..(Len(b) + 1) /\ Len(b) \in ((n + 1) - 1)..Len(b)
      BY <1>2, <2>1
    <3>2. /\ SubSeq(b, n + 1, Len(b)) \in Seq(Unit)
          /\ Len(SubSeq(b, n + 1, Len(b))) = Len(b) - (n + 1) + 1
          /\ \A i \in 1..(Len(b) - (n + 1) + 1) : SubSeq(b, n + 1, Len(b))[i] = b[(n + 1) + i - 1]
      BY <3>1, SubSeqOf
    <3>3. p = SubSeq(b, n + 1, Len(b)) /\ Len(b) - (n + 1) + 1 = y - n
      BY <1>2, <1>4, <2>1
    <3> QED BY <3>2, <3>3
  <2>3. PICK v \in Seq(Unit) : v = Stock(p, q)
    BY <1>4, <2>2, StockOf
  <2>4. /\ Len(v) = (y - n) + z
        /\ \A i \in 1..(y - n) : v[i] = p[i]
        /\ \A i \in 1..z : v[(y - n) + i] = s[i].unit
    <3>1. /\ Len(v) = Len(p) + Len(s)
          /\ \A i \in 1..Len(p) : v[i] = p[i]
          /\ \A i \in 1..Len(s) : v[Len(p) + i] = s[i].unit
      BY <1>4, <2>2, <2>3, StockOf
    <3> QED BY <1>2, <2>2, <3>1
  <2>5. ASSUME NEW i \in 1..((y - n) + z) PROVE v[i] = u[i + n]
    <3>1. CASE i <= y - n
      <4>1. i \in 1..(y - n) /\ (n + 1) + i - 1 = i + n /\ i + n \in 1..y
        BY <3>1
      <4> QED BY <1>3, <2>2, <2>4, <4>1
    <3>2. CASE ~(i <= y - n)
      <4>1. PICK j \in 1..z : i = (y - n) + j /\ i + n = y + j
        <5>1. i - (y - n) \in 1..z /\ i = (y - n) + (i - (y - n)) /\ i + n = y + (i - (y - n))
          BY <1>4, <3>2
        <5> QED BY <5>1
      <4> QED BY <1>3, <2>4, <4>1
    <3> QED BY <3>1, <3>2
  <2>6. n <= Len(u) /\ Len(v) = Len(u) - n
    BY <1>2, <1>4, <2>4
  <2> QED BY <1>1, <1>4, <2>2, <2>3, <2>4, <2>5, <2>6 DEF Advances
<1>5. ASSUME n > y, NEW k \in (n - y)..z, p = Text(SubSeq(s, (n - y) + 1, k)),
             q = SubSeq(s, k + 1, z)
      PROVE  /\ p \in Seq(Unit) /\ q \in Seq(Marked)
             /\ Advances(Stock(b, s), n, Stock(p, q))
  <2>1. PICK m \in Nat : m = n - y /\ m > 0 /\ m <= k /\ k <= z /\ k \in Nat
    BY <1>5
  <2>2. PICK t : t = SubSeq(s, m + 1, k)
    OBVIOUS
  <2>3. m + 1 \in 1..(z + 1) /\ k \in ((m + 1) - 1)..z /\ k - (m + 1) + 1 = k - m
    BY <2>1
  <2>4. t \in Seq(Marked) /\ Len(t) = k - m /\ \A i \in 1..(k - m) : t[i] = s[(m + 1) + i - 1]
    BY <1>2, <2>2, <2>3, SubSeqOf
  <2>5. k + 1 \in 1..(z + 1) /\ z \in ((k + 1) - 1)..z /\ z - (k + 1) + 1 = z - k
    BY <2>1
  <2>6. q \in Seq(Marked) /\ Len(q) = z - k /\ \A i \in 1..(z - k) : q[i] = s[(k + 1) + i - 1]
    BY <1>2, <1>5, <2>5, SubSeqOf
  <2>7. p \in Seq(Unit) /\ Len(p) = k - m /\ \A i \in 1..(k - m) : p[i] = t[i].unit
    BY <1>5, <2>1, <2>2, <2>4, TextOf
  <2>8. PICK v \in Seq(Unit) : v = Stock(p, q)
    BY <2>6, <2>7, StockOf
  <2>9. /\ Len(v) = (k - m) + (z - k)
        /\ \A i \in 1..(k - m) : v[i] = p[i]
        /\ \A i \in 1..(z - k) : v[(k - m) + i] = q[i].unit
    <3>1. /\ Len(v) = Len(p) + Len(q)
          /\ \A i \in 1..Len(p) : v[i] = p[i]
          /\ \A i \in 1..Len(q) : v[Len(p) + i] = q[i].unit
      BY <2>6, <2>7, <2>8, StockOf
    <3> QED BY <2>6, <2>7, <3>1
  <2>10. (k - m) + (z - k) = z - m /\ n = y + m /\ n <= y + z /\ (y + z) - n = z - m
    BY <2>1
  <2>11. ASSUME NEW i \in 1..(z - m) PROVE v[i] = u[i + n]
    <3>1. CASE i <= k - m
      <4>1. i \in 1..(k - m) /\ (m + 1) + i - 1 = m + i /\ m + i \in 1..z /\ i + n = y + (m + i)
        BY <2>1, <3>1
      <4>2. v[i] = s[m + i].unit
        BY <2>4, <2>7, <2>9, <4>1
      <4> QED BY <1>3, <4>1, <4>2
    <3>2. CASE ~(i <= k - m)
      <4>1. PICK j \in 1..(z - k) : i = (k - m) + j
        <5>1. i - (k - m) \in 1..(z - k) /\ i = (k - m) + (i - (k - m))
          BY <2>1, <3>2
        <5> QED BY <5>1
      <4>2. (k + 1) + j - 1 = k + j /\ k + j \in 1..z /\ i + n = y + (k + j)
        BY <2>1, <4>1
      <4>3. v[i] = s[k + j].unit
        BY <2>6, <2>9, <4>1, <4>2
      <4> QED BY <1>3, <4>2, <4>3
    <3> QED BY <3>1, <3>2
  <2>12. n <= Len(u) /\ Len(v) = Len(u) - n /\ Len(v) = z - m
    BY <1>2, <2>9, <2>10
  <2> QED BY <1>1, <2>6, <2>7, <2>8, <2>11, <2>12 DEF Advances
<1> QED BY <1>2, <1>4, <1>5

\* What is written joins the end of what will be read.
LEMMA WriteOf ==
    ASSUME NEW b \in Seq(Unit), NEW s \in Seq(Marked), NEW e \in Event,
           NEW x \in {Units(Frame(e)), Chunks(Frame(e))}
    PROVE  /\ s \o x \in Seq(Marked)
           /\ Extends(Stock(b, s), Frame(e), Stock(b, s \o x))
<1>1. PICK m \in Nat : x \in Seq(Marked) /\ m = Len(x) /\ Len(Frame(e)) = m
                       /\ \A i \in 1..m : x[i].unit = Frame(e)[i]
  <2>1. /\ x \in Seq(Marked) /\ Len(x) = Len(Frame(e))
        /\ \A i \in 1..Len(x) : x[i].unit = Frame(e)[i]
    BY FrameOnWire
  <2>2. Len(x) \in Nat
    BY <2>1
  <2> QED BY <2>1, <2>2
<1>2. PICK y \in Nat, z \in Nat : y = Len(b) /\ z = Len(s)
  OBVIOUS
<1>3. PICK t \in Seq(Marked) : /\ t = s \o x /\ Len(t) = z + m
                               /\ \A i \in 1..z : t[i] = s[i]
                               /\ \A i \in 1..m : t[z + i] = x[i]
  <2>1. /\ s \o x \in Seq(Marked) /\ Len(s \o x) = Len(s) + Len(x)
        /\ \A i \in 1..Len(s) : (s \o x)[i] = s[i]
        /\ \A i \in 1..Len(x) : (s \o x)[Len(s) + i] = x[i]
    BY <1>1, ConcatOf
  <2> QED BY <1>1, <1>2, <2>1
<1>4. PICK u \in Seq(Unit) : u = Stock(b, s)
  BY StockOf
<1>5. Len(u) = y + z /\ (\A i \in 1..y : u[i] = b[i]) /\ (\A i \in 1..z : u[y + i] = s[i].unit)
  BY <1>2, <1>4, StockOf
<1>6. PICK v \in Seq(Unit) : v = Stock(b, t)
  BY StockOf
<1>7. /\ Len(v) = y + (z + m)
      /\ \A i \in 1..y : v[i] = b[i]
      /\ \A i \in 1..(z + m) : v[y + i] = t[i].unit
  <2>1. /\ Len(v) = Len(b) + Len(t)
        /\ \A i \in 1..Len(b) : v[i] = b[i]
        /\ \A i \in 1..Len(t) : v[Len(b) + i] = t[i].unit
    BY <1>6, StockOf
  <2> QED BY <1>2, <1>3, <2>1
<1>8. ASSUME NEW i \in 1..(y + z) PROVE v[i] = u[i]
  <2>1. CASE i <= y
    BY <1>5, <1>7, <2>1
  <2>2. CASE ~(i <= y)
    <3>1. PICK j \in 1..z : i = y + j
      <4>1. i - y \in 1..z /\ i = y + (i - y)
        BY <2>2
      <4> QED BY <4>1
    <3>2. j \in 1..(z + m)
      OBVIOUS
    <3> QED BY <1>3, <1>5, <1>7, <3>1, <3>2
  <2> QED BY <2>1, <2>2
<1>9. ASSUME NEW i \in 1..m PROVE v[(y + z) + i] = Frame(e)[i]
  <2>1. z + i \in 1..(z + m) /\ (y + z) + i = y + (z + i)
    OBVIOUS
  <2> QED BY <1>1, <1>3, <1>7, <2>1
<1>10. Len(v) = Len(u) + m
  BY <1>5, <1>7
<1> QED BY <1>1, <1>3, <1>4, <1>5, <1>6, <1>8, <1>9, <1>10 DEF Extends

\* A wire that breaks after n units leaves a prefix.
LEMMA BreakOf ==
    ASSUME NEW b \in Seq(Unit), NEW s \in Seq(Marked), NEW n \in 0..Len(s)
    PROVE  /\ SubSeq(s, 1, n) \in Seq(Marked) /\ Len(SubSeq(s, 1, n)) = n
           /\ \A i \in 1..n : SubSeq(s, 1, n)[i] = s[i]
           /\ Len(Stock(b, SubSeq(s, 1, n))) <= Len(Stock(b, s))
           /\ \A i \in 1..Len(Stock(b, SubSeq(s, 1, n))) :
                  Stock(b, SubSeq(s, 1, n))[i] = Stock(b, s)[i]
<1>1. 1 \in 1..(Len(s) + 1) /\ n \in (1 - 1)..Len(s) /\ n - 1 + 1 = n
  OBVIOUS
<1>2. PICK t \in Seq(Marked) : t = SubSeq(s, 1, n) /\ Len(t) = n
                               /\ \A i \in 1..n : t[i] = s[1 + i - 1]
  <2>1. /\ SubSeq(s, 1, n) \in Seq(Marked) /\ Len(SubSeq(s, 1, n)) = n - 1 + 1
        /\ \A i \in 1..(n - 1 + 1) : SubSeq(s, 1, n)[i] = s[1 + i - 1]
    BY <1>1, SubSeqOf
  <2> QED BY <1>1, <2>1
<1>3. \A i \in 1..n : t[i] = s[i]
  <2>1. \A i \in 1..n : 1 + i - 1 = i
    OBVIOUS
  <2> QED BY <1>2, <2>1
<1>4. PICK y \in Nat, z \in Nat : y = Len(b) /\ z = Len(s) /\ n <= z
  OBVIOUS
<1>5. PICK u \in Seq(Unit) : u = Stock(b, s)
  BY StockOf
<1>6. Len(u) = y + z /\ (\A i \in 1..y : u[i] = b[i]) /\ (\A i \in 1..z : u[y + i] = s[i].unit)
  BY <1>4, <1>5, StockOf
<1>7. PICK v \in Seq(Unit) : v = Stock(b, t)
  BY StockOf
<1>8. Len(v) = y + n /\ (\A i \in 1..y : v[i] = b[i]) /\ (\A i \in 1..n : v[y + i] = t[i].unit)
  <2>1. /\ Len(v) = Len(b) + Len(t)
        /\ \A i \in 1..Len(b) : v[i] = b[i]
        /\ \A i \in 1..Len(t) : v[Len(b) + i] = t[i].unit
    BY <1>7, StockOf
  <2> QED BY <1>2, <1>4, <2>1
<1>9. ASSUME NEW i \in 1..(y + n) PROVE v[i] = u[i]
  <2>1. CASE i <= y
    BY <1>6, <1>8, <2>1
  <2>2. CASE ~(i <= y)
    <3>1. PICK j \in 1..n : i = y + j
      <4>1. i - y \in 1..n /\ i = y + (i - y)
        BY <2>2
      <4> QED BY <4>1
    <3>2. j \in 1..z
      BY <1>4
    <3> QED BY <1>3, <1>6, <1>8, <3>1, <3>2
  <2> QED BY <2>1, <2>2
<1> QED BY <1>2, <1>3, <1>4, <1>5, <1>6, <1>7, <1>8, <1>9

\* The types of what the stages speak of.
LinkTypes ==
    /\ mode \in {"tcp", "noise", "quic"}
    /\ dialer \in [Conn -> {"idle", "shaking", "ready", "closed"}]
    /\ reader \in [Conn -> {"none", "first", "third", "tls", "stream", "head", "body",
                            "starved", "ended"}]
    /\ dialect \in [Conn -> {"tcp", "noise", "quic"}]
    /\ back \in [Conn -> BOOLEAN]
    /\ wire \in [Conn -> Seq(Marked)] /\ buf \in [Conn -> Seq(Unit)]
    /\ head \in [Conn -> Unit]
    /\ written \in [Conn -> Seq(Event)] /\ handed \in [Conn -> Seq(Seq(Unit))]

\* Nobody has dialed yet.
Undialed(c) ==
    /\ dialer[c] = "idle" /\ reader[c] = "none" /\ ~back[c]
    /\ wire[c] = <<>> /\ buf[c] = <<>> /\ written[c] = <<>> /\ handed[c] = <<>>

\* A Noise dialer has sent its first message and waits.
Greets(c) ==
    /\ mode # "quic" /\ dialect[c] = "noise" /\ ~back[c]
    /\ dialer[c] \in {"shaking", "closed"}
    /\ reader[c] \in {"none", IF mode = "noise" THEN "first" ELSE "head"}
    /\ wire[c] \in {<<>>, <<Message>>} /\ buf[c] = <<>>
    /\ written[c] = <<>> /\ handed[c] = <<>>

\* The listener has answered and waits for the third message.
Answered(c) ==
    /\ mode = "noise" /\ dialect[c] = "noise" /\ reader[c] = "third"
    /\ buf[c] = <<>> /\ handed[c] = <<>>
    /\ \/ dialer[c] = "shaking" /\ wire[c] = <<>> /\ written[c] = <<>>
       \/ dialer[c] = "closed" /\ wire[c] = <<>>
       \/ /\ dialer[c] \in {"ready", "closed"} /\ ~back[c]
          /\ wire[c] # <<>> /\ Head(wire[c]) = Message
          /\ Follows(Text(Tail(wire[c])), written[c], 1, 0, dialer[c])

\* Units of the frame that is being read which are gone.
Gone(r) == IF r = "body" THEN 1 ELSE 0

\* Both sides speak the same and nothing but frames is to come.
Plain(c) ==
    /\ dialect[c] = mode /\ ~back[c]
    /\ dialer[c] \in {"shaking", "ready", "closed"}
    /\ mode = "noise" => dialer[c] # "shaking"
    /\ reader[c] \in {"head", "body", "none", "tls", "stream"}
    /\ mode = "noise" => reader[c] \in {"head", "body"}
    /\ Len(handed[c]) <= Len(written[c])
    /\ reader[c] = "body" => /\ Len(handed[c]) < Len(written[c])
                             /\ head[c] = <<written[c][Len(handed[c]) + 1], 0>>
    /\ Follows(Stock(buf[c], wire[c]), written[c], Len(handed[c]) + 1, Gone(reader[c]),
               dialer[c])

\* A plain dialer at a Noise listener.
Misplaced(c) ==
    /\ mode = "noise" /\ dialect[c] = "tcp"
    /\ dialer[c] \in {"ready", "closed"} /\ reader[c] \in {"none", "first"}
    /\ \A i \in 1..Len(wire[c]) : wire[c][i] # Message

\* The task of a connection has ended or waits for units that never come.
Over(c) == reader[c] \in {"starved", "ended"} /\ dialer[c] # "idle"

\* FramesIntact, of one connection.
Intact(c) ==
    /\ Len(handed[c]) <= Len(written[c])
    /\ \A i \in DOMAIN handed[c] : handed[c][i] = Frame(written[c][i])

\* Where a connection is.
Stage(c) ==
    \/ Undialed(c) \/ Greets(c) \/ Answered(c) \/ Plain(c) \/ Misplaced(c) \/ Over(c)

LinkInv == LinkTypes /\ \A c \in Conn : Stage(c) /\ Intact(c)

\* A step does not touch d.
Stays(d) ==
    /\ dialer'[d] = dialer[d] /\ reader'[d] = reader[d] /\ dialect'[d] = dialect[d]
    /\ back'[d] = back[d] /\ wire'[d] = wire[d] /\ buf'[d] = buf[d] /\ head'[d] = head[d]
    /\ written'[d] = written[d] /\ handed'[d] = handed[d]

\* A step leaves the connections it does not touch in their stage.
LEMMA Untouched ==
    ASSUME NEW d \in Conn, Stage(d), Intact(d), Stays(d), mode' = mode
    PROVE  Stage(d)' /\ Intact(d)'
<1>1. Intact(d)'
  BY DEF Intact, Stays
<1>2. CASE Undialed(d)
  <2>1. Undialed(d)'
    BY <1>2, Zenon DEF Undialed, Stays
  <2> QED BY <1>1, <2>1 DEF Stage
<1>3. CASE Greets(d)
  <2>1. Greets(d)'
    BY <1>3, Zenon DEF Greets, Stays
  <2> QED BY <1>1, <2>1 DEF Stage
<1>4. CASE Answered(d)
  <2>1. Answered(d)'
    BY <1>4, Zenon DEF Answered, Stays
  <2> QED BY <1>1, <2>1 DEF Stage
<1>5. CASE Plain(d)
  <2>1. Plain(d)'
    BY <1>5, Zenon DEF Plain, Stays
  <2> QED BY <1>1, <2>1 DEF Stage
<1>6. CASE Misplaced(d)
  <2>1. Misplaced(d)'
    BY <1>6, Zenon DEF Misplaced, Stays
  <2> QED BY <1>1, <2>1 DEF Stage
<1>7. CASE Over(d)
  <2>1. Over(d)'
    BY <1>7, Zenon DEF Over, Stays
  <2> QED BY <1>1, <2>1 DEF Stage
<1> QED BY <1>2, <1>3, <1>4, <1>5, <1>6, <1>7 DEF Stage

\* A step of one connection.
LEMMA OneMoves ==
    ASSUME LinkInv, NEW c \in Conn, mode' = mode, LinkTypes', Stage(c)', Intact(c)',
           \A d \in Conn : d # c => Stays(d)
    PROVE  LinkInv'
<1>1. ASSUME NEW d \in Conn PROVE (Stage(d) /\ Intact(d))'
  <2>1. CASE d = c
    BY <2>1
  <2>2. CASE d # c
    BY <2>2, Untouched DEF LinkInv
  <2> QED BY <2>1, <2>2
<1> QED BY <1>1 DEF LinkInv

\* A handshake message on the wire.
LEMMA MessageMarked == Message \in Marked /\ <<Message>> \in Seq(Marked) /\ Len(<<Message>>) = 1
                       /\ <<Message>>[1] = Message /\ Head(<<Message>>) = Message
                       /\ Tail(<<Message>>) = <<>>
                       /\ Message.unit = Shake
<1>1. Message \in Marked /\ Message.unit = Shake
  BY DEF Message, Marked, Unit
<1> QED BY <1>1

\* Nothing left over and nothing on the wire.
LEMMA StockOfNothing == Stock(<<>>, <<>>) = <<>>
  BY TextOfNothing DEF Stock

\* No connection is dialed when the listener starts.
LEMMA LinkInitially == LinkInit => LinkInv
<1> SUFFICES ASSUME LinkInit PROVE LinkInv
  OBVIOUS
<1>1. LinkTypes
  BY LinkAssumption DEF LinkInit, LinkTypes, Unit
<1>2. ASSUME NEW c \in Conn PROVE Stage(c) /\ Intact(c)
  <2>1. Undialed(c)
    BY DEF LinkInit, Undialed
  <2> QED BY <2>1 DEF Stage, Intact, Undialed
<1> QED BY <1>1, <1>2 DEF LinkInv

\* NoiseTcpStream::connect, quic_connect and the node's dial.
LEMMA DialStage ==
    ASSUME LinkInv, NEW c \in Conn, NEW how \in {"tcp", "noise", "quic"}, Dial(c, how)
    PROVE  LinkInv'
<1>1. Undialed(c) /\ Intact(c)
  BY DEF LinkInv, Stage, Dial, Greets, Answered, Plain, Misplaced, Over
<1>2. /\ mode' = mode /\ dialect' = [dialect EXCEPT ![c] = how]
      /\ dialer' = [dialer EXCEPT ![c] = IF how = "tcp" THEN "ready" ELSE "shaking"]
      /\ wire' = [wire EXCEPT ![c] = IF how = "noise" THEN <<Message>> ELSE <<>>]
      /\ UNCHANGED <<reader, back, buf, head, written, handed>>
      /\ (how = "quic") = (mode = "quic")
  BY DEF Dial, Connects, policyVars
<1>3. LinkTypes'
  <2>1. <<>> \in Seq(Marked)
    OBVIOUS
  <2> QED BY <1>2, <2>1, MessageMarked DEF LinkInv, LinkTypes
<1>4. \A d \in Conn : d # c => Stays(d)
  BY <1>2 DEF Stays, LinkInv, LinkTypes
<1>5. Intact(c)'
  BY <1>1, <1>2 DEF Intact
<1>6. /\ dialect'[c] = how /\ dialer'[c] = (IF how = "tcp" THEN "ready" ELSE "shaking")
      /\ wire'[c] = (IF how = "noise" THEN <<Message>> ELSE <<>>)
      /\ reader'[c] = "none" /\ ~back'[c] /\ buf'[c] = <<>> /\ written'[c] = <<>>
      /\ handed'[c] = <<>>
      /\ mode \in {"tcp", "noise", "quic"}
  BY <1>1, <1>2 DEF Undialed, LinkInv, LinkTypes
<1>7. CASE how = "noise"
  <2>1. Greets(c)'
    BY <1>2, <1>6, <1>7 DEF Greets
  <2> QED BY <1>2, <1>3, <1>4, <1>5, <2>1, OneMoves DEF Stage
<1>8. CASE how = "tcp" /\ mode = "noise"
  <2>1. Misplaced(c)'
    BY <1>2, <1>6, <1>8 DEF Misplaced
  <2> QED BY <1>2, <1>3, <1>4, <1>5, <2>1, OneMoves DEF Stage
<1>9. CASE how = mode /\ mode # "noise"
  <2>1. Follows(Stock(<<>>, <<>>), <<>>, Len(<<>>) + 1, Gone("none"), dialer'[c])
    BY StockOfNothing, FollowsNothing DEF Gone
  <2>2. Plain(c)'
    BY <1>2, <1>6, <1>9, <2>1 DEF Plain
  <2> QED BY <1>2, <1>3, <1>4, <1>5, <2>2, OneMoves DEF Stage
<1> QED BY <1>2, <1>6, <1>7, <1>8, <1>9

\* The third handshake message comes before any frame.
LEMMA DialerShakesStage ==
    ASSUME LinkInv, NEW c \in Conn, DialerShakes(c) PROVE LinkInv'
<1>1. Intact(c) /\ wire[c] \in Seq(Marked) /\ (Answered(c) \/ Over(c))
  BY DEF LinkInv, LinkTypes, Stage, DialerShakes, Undialed, Greets, Plain, Misplaced
<1>2. /\ mode' = mode /\ dialer' = [dialer EXCEPT ![c] = "ready"]
      /\ back' = [back EXCEPT ![c] = FALSE]
      /\ wire' = [wire EXCEPT ![c] = Append(wire[c], Message)]
      /\ UNCHANGED <<dialect, reader, buf, head, written, handed>>
      /\ dialer[c] = "shaking"
  BY DEF DialerShakes, policyVars
<1>3. LinkTypes'
  <2>1. Append(wire[c], Message) \in Seq(Marked)
    BY <1>1, MessageMarked
  <2>2. back' \in [Conn -> BOOLEAN]
    BY <1>2, Zenon DEF LinkInv, LinkTypes
  <2> QED BY <1>2, <2>1, <2>2 DEF LinkInv, LinkTypes
<1>4. \A d \in Conn : d # c => Stays(d)
  BY <1>2 DEF Stays, LinkInv, LinkTypes
<1>5. Intact(c)'
  BY <1>1, <1>2 DEF Intact
<1>6. CASE Answered(c)
  <2>1. wire[c] = <<>> /\ written[c] = <<>> /\ mode = "noise" /\ dialect[c] = "noise"
        /\ reader[c] = "third" /\ buf[c] = <<>> /\ handed[c] = <<>>
    BY <1>2, <1>6 DEF Answered
  <2>2. Append(<<>>, Message) = <<Message>>
    OBVIOUS
  <2>3. wire'[c] = <<Message>> /\ dialer'[c] = "ready" /\ ~back'[c]
    BY <1>2, <2>1, <2>2 DEF LinkInv, LinkTypes
  <2>4. Follows(Text(Tail(wire'[c])), <<>>, 1, 0, "ready")
    BY <2>3, MessageMarked, TextOfNothing, FollowsNothing
  <2>5. wire'[c] # <<>> /\ Head(wire'[c]) = Message
    BY <2>3, MessageMarked
  <2>6. Answered(c)'
    BY <1>2, <2>1, <2>3, <2>4, <2>5 DEF Answered
  <2> QED BY <1>2, <1>3, <1>4, <1>5, <2>6, OneMoves DEF Stage
<1>7. CASE Over(c)
  <2>1. Over(c)'
    BY <1>2, <1>7 DEF Over, LinkInv, LinkTypes
  <2> QED BY <1>2, <1>3, <1>4, <1>5, <2>1, OneMoves DEF Stage
<1> QED BY <1>1, <1>6, <1>7

\* Tail, by index.
LEMMA TailOf ==
    ASSUME NEW s \in Seq(Marked), s # <<>>, NEW m, m = Len(s)
    PROVE  /\ Tail(s) \in Seq(Marked) /\ Len(Tail(s)) = m - 1
           /\ \A i \in 1..(m - 1) : Tail(s)[i] = s[i + 1]
  BY HeadTailProperties

\* Head and Tail of a concatenation.
LEMMA TailOfConcat ==
    ASSUME NEW s \in Seq(Marked), NEW t \in Seq(Marked), s # <<>>
    PROVE  /\ s \o t # <<>> /\ Head(s \o t) = Head(s)
           /\ Tail(s \o t) = Tail(s) \o t
<1>1. PICK m \in Nat, n \in Nat : m = Len(s) /\ n = Len(t) /\ m > 0
  OBVIOUS
<1>2. PICK r \in Seq(Marked) : /\ r = s \o t /\ Len(r) = m + n
                               /\ \A i \in 1..m : r[i] = s[i]
                               /\ \A i \in 1..n : r[m + i] = t[i]
  <2>1. /\ s \o t \in Seq(Marked) /\ Len(s \o t) = Len(s) + Len(t)
        /\ \A i \in 1..Len(s) : (s \o t)[i] = s[i]
        /\ \A i \in 1..Len(t) : (s \o t)[Len(s) + i] = t[i]
    BY ConcatOf
  <2> QED BY <1>1, <2>1
<1>3. r # <<>> /\ Head(r) = Head(s)
  BY <1>1, <1>2
<1>4. PICK p \in Seq(Marked) : p = Tail(s) /\ Len(p) = m - 1
                               /\ \A i \in 1..(m - 1) : p[i] = s[i + 1]
  BY <1>1, TailOf
<1>5. PICK q \in Seq(Marked) :
         q = Tail(r) /\ Len(q) = (m + n) - 1 /\ \A i \in 1..((m + n) - 1) : q[i] = r[i + 1]
  <2>1. PICK l \in Nat : l = Len(r) /\ l = m + n
    BY <1>2
  <2>2. /\ Tail(r) \in Seq(Marked) /\ Len(Tail(r)) = l - 1
        /\ \A i \in 1..(l - 1) : Tail(r)[i] = r[i + 1]
    BY <1>3, <2>1, TailOf
  <2> QED BY <2>1, <2>2
<1>6. PICK v \in Seq(Marked) : /\ v = p \o t /\ Len(v) = (m - 1) + n
                               /\ \A i \in 1..(m - 1) : v[i] = p[i]
                               /\ \A i \in 1..n : v[(m - 1) + i] = t[i]
  <2>1. /\ p \o t \in Seq(Marked) /\ Len(p \o t) = Len(p) + Len(t)
        /\ \A i \in 1..Len(p) : (p \o t)[i] = p[i]
        /\ \A i \in 1..Len(t) : (p \o t)[Len(p) + i] = t[i]
    BY ConcatOf
  <2>2. Len(p) = m - 1 /\ Len(t) = n
    BY <1>1, <1>4
  <2> QED BY <2>1, <2>2
<1>7. ASSUME NEW i \in 1..((m + n) - 1) PROVE q[i] = v[i]
  <2>1. CASE i <= m - 1
    <3>1. i \in 1..(m - 1) /\ i + 1 \in 1..m
      BY <1>1, <2>1
    <3> QED BY <1>2, <1>4, <1>5, <1>6, <3>1
  <2>2. CASE ~(i <= m - 1)
    <3>1. PICK j \in 1..n : i = (m - 1) + j /\ i + 1 = m + j
      <4>1. i - (m - 1) \in 1..n /\ i = (m - 1) + (i - (m - 1)) /\ i + 1 = m + (i - (m - 1))
        BY <1>1, <2>2
      <4> QED BY <4>1
    <3> QED BY <1>2, <1>5, <1>6, <3>1
  <2> QED BY <2>1, <2>2
<1>8. Len(q) = Len(v) /\ \A i \in 1..Len(q) : q[i] = v[i]
  BY <1>5, <1>6, <1>7
<1>9. q = v
  BY <1>8, SeqEqual
<1> QED BY <1>2, <1>3, <1>4, <1>5, <1>6, <1>9

\* write_event and noise_write_json.
LEMMA WriteStage ==
    ASSUME LinkInv, NEW c \in Conn, NEW e \in Event, Write(c, e) PROVE LinkInv'
<1>1. /\ Intact(c) /\ Stage(c) /\ wire[c] \in Seq(Marked) /\ buf[c] \in Seq(Unit)
      /\ written[c] \in Seq(Event) /\ handed[c] \in Seq(Seq(Unit))
  BY DEF LinkInv, LinkTypes
<1>2. PICK x : x = IF dialect[c] = "noise" THEN Chunks(Frame(e)) ELSE Units(Frame(e))
  OBVIOUS
<1>3. /\ mode' = mode /\ wire' = [wire EXCEPT ![c] = wire[c] \o x]
      /\ written' = [written EXCEPT ![c] = Append(written[c], e)]
      /\ dialer' = [dialer EXCEPT ![c] = IF dialect[c] = "tcp" THEN "closed" ELSE dialer[c]]
      /\ UNCHANGED <<dialect, reader, back, buf, head, handed>>
      /\ dialer[c] = "ready"
  BY <1>2 DEF Write, policyVars
<1>4. x \in {Units(Frame(e)), Chunks(Frame(e))}
  BY <1>2
<1>5. /\ x \in Seq(Marked) /\ wire[c] \o x \in Seq(Marked)
      /\ \A i \in 1..Len(x) : x[i] # Message
  BY <1>1, <1>4, FrameOnWire, WriteOf
<1>6. /\ Append(written[c], e) \in Seq(Event)
      /\ Len(Append(written[c], e)) = Len(written[c]) + 1
      /\ \A i \in 1..Len(written[c]) : Append(written[c], e)[i] = written[c][i]
  BY <1>1, AppendProperties
<1>7. LinkTypes'
  BY <1>3, <1>5, <1>6 DEF LinkInv, LinkTypes
<1>8. \A d \in Conn : d # c => Stays(d)
  BY <1>3 DEF Stays, LinkInv, LinkTypes
<1>9. /\ wire'[c] = wire[c] \o x /\ written'[c] = Append(written[c], e)
      /\ dialer'[c] = IF dialect[c] = "tcp" THEN "closed" ELSE "ready"
  BY <1>3 DEF LinkInv, LinkTypes
<1>10. Intact(c)'
  <2>1. \A i \in DOMAIN handed[c] : i \in 1..Len(written[c])
    BY <1>1 DEF Intact
  <2>2. Len(handed[c]) \in Nat /\ Len(written[c]) \in Nat
    BY <1>1
  <2> QED BY <1>1, <1>3, <1>6, <1>9, <2>1, <2>2 DEF Intact
<1>11. CASE Answered(c)
  <2>1. /\ mode = "noise" /\ dialect[c] = "noise" /\ reader[c] = "third" /\ buf[c] = <<>>
        /\ handed[c] = <<>>
        /\ ~back[c] /\ wire[c] # <<>> /\ Head(wire[c]) = Message
        /\ Follows(Text(Tail(wire[c])), written[c], 1, 0, "ready")
    BY <1>3, <1>11 DEF Answered
  <2>2. Tail(wire[c]) \in Seq(Marked)
    BY <1>1, <2>1
  <2>3. /\ wire[c] \o x # <<>> /\ Head(wire[c] \o x) = Message
        /\ Tail(wire[c] \o x) = Tail(wire[c]) \o x
    BY <1>1, <1>5, <2>1, TailOfConcat
  <2>4. PICK s \in Seq(Marked) : s = Tail(wire[c])
    BY <2>2
  <2>5. <<>> \in Seq(Unit) /\ s \o x \in Seq(Marked)
    BY <1>5, ConcatProperties
  <2>6. Extends(Stock(<<>>, s), Frame(e), Stock(<<>>, s \o x))
    BY <1>4, <2>5, WriteOf
  <2>7. Stock(<<>>, s) = Text(s) /\ Stock(<<>>, s \o x) = Text(s \o x)
        /\ Text(s) \in Seq(Unit) /\ Text(s \o x) \in Seq(Unit)
    BY <2>5, TextOf, ConcatEmptySeq DEF Stock
  <2>8. 1 \in 1..(Len(written[c]) + 1)
    BY <1>1
  <2>9. Follows(Text(s \o x), Append(written[c], e), 1, 0, "ready")
    BY <1>1, <2>1, <2>4, <2>6, <2>7, <2>8, FollowsFrame
  <2>10. Answered(c)'
    BY <1>3, <1>9, <2>1, <2>3, <2>4, <2>9 DEF Answered
  <2> QED BY <1>3, <1>7, <1>8, <1>10, <2>10, OneMoves DEF Stage
<1>12. CASE Plain(c)
  <2>1. PICK k \in 1..(Len(written[c]) + 1), o \in {0, 1} :
           /\ k = Len(handed[c]) + 1 /\ o = Gone(reader[c])
           /\ Follows(Stock(buf[c], wire[c]), written[c], k, o, "ready")
    <3>1. Len(handed[c]) + 1 \in 1..(Len(written[c]) + 1)
      BY <1>1 DEF Intact
    <3>2. Gone(reader[c]) \in {0, 1}
      BY DEF Gone
    <3>3. Follows(Stock(buf[c], wire[c]), written[c], Len(handed[c]) + 1, Gone(reader[c]), "ready")
      BY <1>3, <1>12 DEF Plain
    <3> QED BY <3>1, <3>2, <3>3
  <2>2. Extends(Stock(buf[c], wire[c]), Frame(e), Stock(buf[c], wire[c] \o x))
    BY <1>1, <1>4, WriteOf
  <2>3. Stock(buf[c], wire[c]) \in Seq(Unit) /\ Stock(buf[c], wire[c] \o x) \in Seq(Unit)
    BY <1>1, <1>5, StockOf
  <2>4. Follows(Stock(buf[c], wire[c] \o x), Append(written[c], e), k, o, dialer'[c])
    BY <1>1, <2>1, <2>2, <2>3, FollowsFrame
  <2>5. reader[c] = "body" => /\ Len(handed[c]) < Len(written[c]) + 1
                              /\ head[c] = <<Append(written[c], e)[Len(handed[c]) + 1], 0>>
    <3>1. ASSUME reader[c] = "body" PROVE Len(handed[c]) + 1 \in 1..Len(written[c])
      BY <1>1, <1>12, <3>1 DEF Plain
    <3> QED BY <1>1, <1>6, <1>12, <3>1 DEF Plain
  <2>6. Len(handed[c]) <= Len(written[c]) + 1
    BY <1>1 DEF Intact
  <2>7. Plain(c)'
    BY <1>3, <1>6, <1>9, <1>12, <2>1, <2>4, <2>5, <2>6 DEF Plain
  <2> QED BY <1>3, <1>7, <1>8, <1>10, <2>7, OneMoves DEF Stage
<1>13. CASE Misplaced(c)
  <2>1. ASSUME NEW i \in 1..Len(wire[c] \o x) PROVE (wire[c] \o x)[i] # Message
    <3>1. CASE i <= Len(wire[c])
      <4>1. i \in 1..Len(wire[c]) /\ (wire[c] \o x)[i] = wire[c][i]
        BY <1>1, <1>5, <3>1
      <4> QED BY <1>13, <4>1 DEF Misplaced
    <3>2. CASE ~(i <= Len(wire[c]))
      <4>1. i - Len(wire[c]) \in 1..Len(x) /\ (wire[c] \o x)[i] = x[i - Len(wire[c])]
        BY <1>1, <1>5, <3>2
      <4> QED BY <1>5, <4>1
    <3> QED BY <3>1, <3>2
  <2>2. Misplaced(c)'
    BY <1>3, <1>9, <1>13, <2>1 DEF Misplaced
  <2> QED BY <1>3, <1>7, <1>8, <1>10, <2>2, OneMoves DEF Stage
<1>14. CASE Over(c)
  <2>1. Over(c)'
    BY <1>3, <1>9, <1>14 DEF Over
  <2> QED BY <1>3, <1>7, <1>8, <1>10, <2>1, OneMoves DEF Stage
<1> QED BY <1>1, <1>3, <1>11, <1>12, <1>13, <1>14 DEF Stage, Undialed, Greets

\* The dialer is gone and what it wrote arrives up to some point.
LEMMA CloseStage ==
    ASSUME LinkInv, NEW c \in Conn, NEW n \in 0..Len(wire[c]),
           dialer[c] # "idle", dialer' = [dialer EXCEPT ![c] = "closed"],
           wire' = [wire EXCEPT ![c] = SubSeq(wire[c], 1, n)], mode' = mode,
           UNCHANGED <<dialect, written, reader, back, buf, head, handed>>
    PROVE  LinkInv'
<1>1. /\ Intact(c) /\ Stage(c) /\ wire[c] \in Seq(Marked) /\ buf[c] \in Seq(Unit)
      /\ written[c] \in Seq(Event) /\ handed[c] \in Seq(Seq(Unit))
  BY DEF LinkInv, LinkTypes
<1>2. PICK s \in Seq(Marked) : /\ s = SubSeq(wire[c], 1, n) /\ Len(s) = n
                               /\ \A i \in 1..n : s[i] = wire[c][i]
  BY <1>1, BreakOf
<1>3. LinkTypes'
  BY <1>2 DEF LinkInv, LinkTypes
<1>4. \A d \in Conn : d # c => Stays(d)
  BY DEF Stays, LinkInv, LinkTypes
<1>5. wire'[c] = s /\ dialer'[c] = "closed"
  BY <1>2 DEF LinkInv, LinkTypes
<1>6. Intact(c)'
  BY <1>1 DEF Intact
<1>7. CASE Greets(c)
  <2>1. s \in {<<>>, <<Message>>}
    <3>1. CASE wire[c] = <<>>
      BY <1>2, <3>1
    <3>2. CASE wire[c] = <<Message>>
      <4>1. n = 0 \/ n = 1
        BY <3>2, MessageMarked
      <4>2. CASE n = 0
        BY <1>2, <4>2
      <4>3. CASE n = 1
        <5>1. Len(s) = 1 /\ s[1] = Message
          BY <1>2, <3>2, <4>3, MessageMarked
        <5> QED BY <5>1, MessageMarked, SeqEqual
      <4> QED BY <4>1, <4>2, <4>3
    <3> QED BY <1>7, <3>1, <3>2 DEF Greets
  <2>2. Greets(c)'
    BY <1>5, <1>7, <2>1 DEF Greets
  <2> QED BY <1>3, <1>4, <1>6, <2>2, OneMoves DEF Stage
<1>8. CASE Answered(c)
  <2>1. mode = "noise" /\ dialect[c] = "noise" /\ reader[c] = "third" /\ buf[c] = <<>>
        /\ handed[c] = <<>>
    BY <1>8 DEF Answered
  <2>2. CASE s = <<>>
    <3>1. Answered(c)'
      BY <1>5, <2>1, <2>2 DEF Answered
    <3> QED BY <1>3, <1>4, <1>6, <3>1, OneMoves DEF Stage
  <2>3. CASE s # <<>>
    <3>1. n \in 1..Len(wire[c]) /\ wire[c] # <<>>
      BY <1>1, <1>2, <2>3
    <3>2. ~back[c] /\ Head(wire[c]) = Message
          /\ Follows(Text(Tail(wire[c])), written[c], 1, 0, dialer[c])
      BY <1>8, <3>1 DEF Answered
    <3>3. Head(s) = Message
      BY <1>1, <1>2, <2>3, <3>1, <3>2
    <3>4. PICK t \in Seq(Marked) : t = Tail(wire[c]) /\ Len(t) = Len(wire[c]) - 1
                                   /\ \A i \in 1..(Len(wire[c]) - 1) : t[i] = wire[c][i + 1]
      <4>1. /\ Tail(wire[c]) \in Seq(Marked) /\ Len(Tail(wire[c])) = Len(wire[c]) - 1
            /\ \A i \in 1..(Len(wire[c]) - 1) : Tail(wire[c])[i] = wire[c][i + 1]
        BY <1>1, <3>1, TailOf
      <4> QED BY <4>1
    <3>5. PICK r \in Seq(Marked) : r = Tail(s) /\ Len(r) = n - 1
                                   /\ \A i \in 1..(n - 1) : r[i] = s[i + 1]
      <4>1. /\ Tail(s) \in Seq(Marked) /\ Len(Tail(s)) = n - 1
            /\ \A i \in 1..(n - 1) : Tail(s)[i] = s[i + 1]
        BY <1>2, <2>3, TailOf
      <4> QED BY <4>1
    <3>6. \A i \in 1..(n - 1) : i \in 1..(Len(wire[c]) - 1) /\ i + 1 \in 1..n
      BY <1>1
    <3>7. \A i \in 1..(n - 1) : r[i] = t[i]
      BY <1>2, <3>4, <3>5, <3>6
    <3>8. /\ Text(t) \in Seq(Unit) /\ Len(Text(t)) = Len(wire[c]) - 1
          /\ \A i \in 1..(Len(wire[c]) - 1) : Text(t)[i] = t[i].unit
      BY <3>4, TextOf
    <3>9. /\ Text(r) \in Seq(Unit) /\ Len(Text(r)) = n - 1
          /\ \A i \in 1..(n - 1) : Text(r)[i] = r[i].unit
      BY <3>5, TextOf
    <3>10. Len(Text(r)) <= Len(Text(t)) /\ \A i \in 1..Len(Text(r)) : Text(r)[i] = Text(t)[i]
      <4>1. n - 1 <= Len(wire[c]) - 1
        BY <1>1, <3>1
      <4> QED BY <3>6, <3>7, <3>8, <3>9, <4>1
    <3>11. 1 \in 1..(Len(written[c]) + 1)
      BY <1>1
    <3>12. Follows(Text(r), written[c], 1, 0, "closed")
      BY <1>1, <3>2, <3>4, <3>8, <3>9, <3>10, <3>11, FollowsPrefix
    <3>13. Answered(c)'
      BY <1>5, <2>1, <2>3, <3>2, <3>3, <3>5, <3>12 DEF Answered
    <3> QED BY <1>3, <1>4, <1>6, <3>13, OneMoves DEF Stage
  <2> QED BY <2>2, <2>3
<1>9. CASE Plain(c)
  <2>1. PICK k \in 1..(Len(written[c]) + 1), o \in {0, 1} :
           /\ k = Len(handed[c]) + 1 /\ o = Gone(reader[c])
           /\ Follows(Stock(buf[c], wire[c]), written[c], k, o, dialer[c])
    <3>1. Len(handed[c]) + 1 \in 1..(Len(written[c]) + 1)
      BY <1>1 DEF Intact
    <3>2. Gone(reader[c]) \in {0, 1}
      BY DEF Gone
    <3>3. Follows(Stock(buf[c], wire[c]), written[c], Len(handed[c]) + 1, Gone(reader[c]), dialer[c])
      BY <1>9 DEF Plain
    <3> QED BY <3>1, <3>2, <3>3
  <2>2. Stock(buf[c], wire[c]) \in Seq(Unit) /\ Stock(buf[c], s) \in Seq(Unit)
    BY <1>1, StockOf
  <2>3. /\ Len(Stock(buf[c], s)) <= Len(Stock(buf[c], wire[c]))
        /\ \A i \in 1..Len(Stock(buf[c], s)) : Stock(buf[c], s)[i] = Stock(buf[c], wire[c])[i]
    BY <1>1, <1>2, BreakOf
  <2>4. Follows(Stock(buf[c], s), written[c], k, o, "closed")
    BY <1>1, <2>1, <2>2, <2>3, FollowsPrefix
  <2>5. Plain(c)'
    BY <1>5, <1>9, <2>1, <2>4 DEF Plain
  <2> QED BY <1>3, <1>4, <1>6, <2>5, OneMoves DEF Stage
<1>10. CASE Misplaced(c)
  <2>1. ASSUME NEW i \in 1..Len(s) PROVE s[i] # Message
    <3>1. i \in 1..n /\ i \in 1..Len(wire[c])
      BY <1>1, <1>2
    <3>2. s[i] = wire[c][i]
      BY <1>2, <3>1
    <3> QED BY <1>10, <3>1, <3>2 DEF Misplaced
  <2>2. Misplaced(c)'
    BY <1>5, <1>10, <2>1 DEF Misplaced
  <2> QED BY <1>3, <1>4, <1>6, <2>2, OneMoves DEF Stage
<1>11. CASE Over(c)
  <2>1. Over(c)'
    BY <1>5, <1>11 DEF Over
  <2> QED BY <1>3, <1>4, <1>6, <2>1, OneMoves DEF Stage
<1> QED BY <1>1, <1>7, <1>8, <1>9, <1>10, <1>11 DEF Stage, Undialed

\* The end of a dialer, and a cut.
LEMMA HangupStage ==
    ASSUME LinkInv, NEW c \in Conn, Hangup(c) \/ Cut(c) PROVE LinkInv'
<1>1. /\ mode' = mode /\ dialer[c] # "idle" /\ dialer' = [dialer EXCEPT ![c] = "closed"]
      /\ UNCHANGED <<dialect, written, reader, back, buf, head, handed>>
      /\ wire' = wire \/ \E n \in Breaks(wire[c]) : wire' = [wire EXCEPT ![c] = SubSeq(wire[c], 1, n)]
  BY DEF Hangup, Cut, policyVars
<1>2. PICK n \in 0..Len(wire[c]) : wire' = [wire EXCEPT ![c] = SubSeq(wire[c], 1, n)]
  <2>1. CASE wire' = wire
    <3>1. wire[c] \in Seq(Marked) /\ Len(wire[c]) \in 0..Len(wire[c])
      BY DEF LinkInv, LinkTypes
    <3>2. SubSeq(wire[c], 1, Len(wire[c])) = wire[c]
      BY <3>1, SubSeqFull
    <3>3. wire' = [wire EXCEPT ![c] = SubSeq(wire[c], 1, Len(wire[c]))]
      BY <2>1, <3>2 DEF LinkInv, LinkTypes
    <3> QED BY <3>1, <3>3
  <2>2. CASE \E n \in Breaks(wire[c]) : wire' = [wire EXCEPT ![c] = SubSeq(wire[c], 1, n)]
    BY <2>2 DEF Breaks
  <2> QED BY <1>1, <2>1, <2>2
<1> QED BY <1>1, <1>2, CloseStage

\* A step of the listener that changes nothing but its task's state.
LEMMA ReaderStage ==
    ASSUME LinkInv, NEW c \in Conn,
           NEW r \in {"none", "first", "third", "tls", "stream", "head", "body", "starved", "ended"},
           mode' = mode, reader' = [reader EXCEPT ![c] = r],
           UNCHANGED <<dialect, wire, back, buf, head, written, handed>>,
           dialer' \in [Conn -> {"idle", "shaking", "ready", "closed"}],
           \A d \in Conn : d # c => dialer'[d] = dialer[d], Stage(c)'
    PROVE  LinkInv'
<1>1. LinkTypes'
  BY DEF LinkInv, LinkTypes
<1>2. \A d \in Conn : d # c => Stays(d)
  BY DEF LinkInv, LinkTypes, Stays
<1>3. Intact(c)'
  BY DEF LinkInv, Intact
<1> QED BY <1>1, <1>2, <1>3, OneMoves

\* The accept loops of TCP and Noise.
LEMMA AcceptStage ==
    ASSUME LinkInv, NEW c \in Conn, Accept(c) PROVE LinkInv'
<1>1. PICK r \in {"first", "head"} : r = IF mode = "noise" THEN "first" ELSE "head"
  OBVIOUS
<1>2. /\ mode' = mode /\ mode # "quic" /\ dialer[c] # "idle" /\ reader[c] = "none"
      /\ reader' = [reader EXCEPT ![c] = r]
      /\ UNCHANGED <<dialer, dialect, wire, back, buf, head, written, handed>>
  BY <1>1 DEF Accept, Waiting, policyVars, connVars, readVars
<1>3. reader'[c] = r /\ dialer \in [Conn -> {"idle", "shaking", "ready", "closed"}]
  BY <1>2 DEF LinkInv, LinkTypes
<1>4. Stage(c)
  BY DEF LinkInv
<1>5. Stage(c)'
  <2>1. CASE Greets(c)
    <3>1. Greets(c)'
      BY <1>1, <1>2, <1>3, <2>1 DEF Greets
    <3> QED BY <3>1 DEF Stage
  <2>2. CASE Plain(c)
    <3>1. r = "head" /\ Gone("none") = 0 /\ Gone("head") = 0
      BY <1>1, <1>2, <2>2 DEF Plain, Gone
    <3>2. Plain(c)'
      BY <1>2, <1>3, <2>2, <3>1 DEF Plain
    <3> QED BY <3>2 DEF Stage
  <2>3. CASE Misplaced(c)
    <3>1. Misplaced(c)'
      BY <1>1, <1>2, <1>3, <2>3 DEF Misplaced
    <3> QED BY <3>1 DEF Stage
  <2> QED BY <1>2, <1>4, <2>1, <2>2, <2>3 DEF Stage, Undialed, Answered, Over
<1> QED BY <1>1, <1>2, <1>3, <1>5, ReaderStage

\* quic_accept, step by step.
LEMMA QuicStage ==
    ASSUME LinkInv, NEW c \in Conn,
           QuicAccept(c) \/ QuicShakes(c) \/ QuicStream(c)
    PROVE  LinkInv'
<1>1. PICK r \in {"tls", "stream", "head"}, b \in {dialer[c], "ready"} :
        /\ mode' = mode /\ dialer[c] # "idle" /\ b # "idle"
        /\ b = dialer[c] \/ dialer[c] # "closed"
        /\ (reader[c] = "none" /\ mode = "quic") \/ reader[c] \in {"tls", "stream"}
        /\ reader' = [reader EXCEPT ![c] = r] /\ dialer' = [dialer EXCEPT ![c] = b]
        /\ UNCHANGED <<dialect, wire, back, buf, head, written, handed>>
  <2>1. CASE QuicAccept(c)
    <3>1. dialer' = [dialer EXCEPT ![c] = dialer[c]]
      BY <2>1 DEF QuicAccept, connVars, LinkInv, LinkTypes
    <3> QED BY <2>1, <3>1 DEF QuicAccept, Waiting, policyVars, connVars, readVars
  <2>2. CASE QuicShakes(c)
    BY <2>2 DEF QuicShakes, policyVars, readVars
  <2>3. CASE QuicStream(c)
    <3>1. dialer' = [dialer EXCEPT ![c] = dialer[c]] /\ reader[c] = "stream"
      BY <2>3 DEF QuicStream, connVars, LinkInv, LinkTypes
    <3>2. dialer[c] # "idle"
      BY <3>1 DEF LinkInv, Stage, Undialed, Greets, Answered, Plain, Misplaced, Over
    <3> QED BY <2>3, <3>1, <3>2 DEF QuicStream, policyVars, connVars, readVars
  <2> QED BY <2>1, <2>2, <2>3
<1>2. Plain(c)
  BY <1>1 DEF LinkInv, Stage, Undialed, Greets, Answered, Misplaced, Over
<1>3. reader'[c] = r /\ dialer'[c] = b /\ b \in {"shaking", "ready", "closed"}
      /\ dialer' \in [Conn -> {"idle", "shaking", "ready", "closed"}]
      /\ \A d \in Conn : d # c => dialer'[d] = dialer[d]
  BY <1>1, <1>2 DEF LinkInv, LinkTypes, Plain
<1>4. Gone(reader[c]) = 0 /\ Gone(r) = 0 /\ mode # "noise"
  BY <1>1, <1>2 DEF Gone, Plain
<1>5. Follows(Stock(buf[c], wire[c]), written[c], Len(handed[c]) + 1, 0, b)
  <2>1. Follows(Stock(buf[c], wire[c]), written[c], Len(handed[c]) + 1, 0, dialer[c])
    BY <1>2, <1>4 DEF Plain
  <2> QED BY <1>1, <2>1 DEF Follows, Placed
<1>6. Plain(c)'
  BY <1>1, <1>2, <1>3, <1>4, <1>5 DEF Plain
<1> QED BY <1>1, <1>3, <1>6, ReaderStage DEF Stage

\* A connection, or the task that reads it, that has come to its end.
LEMMA EndStage ==
    ASSUME LinkInv, NEW c \in Conn, QuicFails(c) \/ ReadEnds(c) PROVE LinkInv'
<1>1. /\ mode' = mode /\ reader' = [reader EXCEPT ![c] = "ended"]
      /\ UNCHANGED <<dialect, wire, back, buf, head, written, handed>>
      /\ dialer' = [dialer EXCEPT ![c] = "closed"]
  <2>1. CASE QuicFails(c)
    BY <2>1 DEF QuicFails, policyVars, readVars
  <2>2. CASE ReadEnds(c)
    BY <2>2 DEF ReadEnds, Ends, policyVars, connVars, readVars, LinkInv, LinkTypes
  <2> QED BY <2>1, <2>2
<1>2. reader'[c] = "ended" /\ dialer'[c] = "closed"
      /\ dialer' \in [Conn -> {"idle", "shaking", "ready", "closed"}]
      /\ \A d \in Conn : d # c => dialer'[d] = dialer[d]
  BY <1>1 DEF LinkInv, LinkTypes
<1>3. Stage(c)'
  BY <1>2 DEF Stage, Over
<1> QED BY <1>1, <1>2, <1>3, ReaderStage

\* The responder's handshake: the first message of a plain dialer ends it.
LEMMA RespondsStage ==
    ASSUME LinkInv, NEW c \in Conn, Responds(c) PROVE LinkInv'
<1>1. /\ Intact(c) /\ Stage(c) /\ wire[c] \in Seq(Marked) /\ buf[c] \in Seq(Unit)
      /\ wire[c] # <<>> /\ reader[c] \in {"first", "third"}
  BY DEF LinkInv, LinkTypes, Responds
<1>2. /\ mode' = mode /\ wire' = [wire EXCEPT ![c] = Tail(wire[c])]
      /\ UNCHANGED <<dialer, dialect, buf, head, written, handed>>
  BY DEF Responds, policyVars, connVars
<1>3. \/ /\ Head(wire[c]) = Message
         /\ back' = [back EXCEPT ![c] = reader[c] = "first"]
         /\ reader' = [reader EXCEPT ![c] = IF reader[c] = "first" THEN "third" ELSE "head"]
      \/ /\ Head(wire[c]) # Message
         /\ back' = back /\ reader' = [reader EXCEPT ![c] = "ended"]
  BY DEF Responds, Ends
<1>4. Tail(wire[c]) \in Seq(Marked) /\ wire'[c] = Tail(wire[c]) /\ Head(wire[c]) = wire[c][1]
      /\ 1 \in 1..Len(wire[c])
  BY <1>1, <1>2 DEF LinkInv, LinkTypes
<1>5. LinkTypes'
  <2>1. back' \in [Conn -> BOOLEAN]
    BY <1>3, Zenon DEF LinkInv, LinkTypes
  <2>2. reader' \in [Conn -> {"none", "first", "third", "tls", "stream", "head", "body",
                              "starved", "ended"}]
    <3>1. PICK r \in {"third", "head", "ended"} : reader' = [reader EXCEPT ![c] = r]
      <4>1. CASE Head(wire[c]) = Message
        BY <1>3, <4>1
      <4>2. CASE Head(wire[c]) # Message
        BY <1>3, <4>2
      <4> QED BY <4>1, <4>2
    <3> QED BY <3>1 DEF LinkInv, LinkTypes
  <2> QED BY <1>2, <1>4, <2>1, <2>2 DEF LinkInv, LinkTypes
<1>6. \A d \in Conn : d # c => Stays(d)
  <2>1. ASSUME NEW d \in Conn, d # c PROVE back'[d] = back[d] /\ reader'[d] = reader[d]
    <3>1. back'[d] = back[d]
      <4>1. PICK v : back' = [back EXCEPT ![c] = v] \/ back' = back
        BY <1>3, Zenon
      <4> QED BY <2>1, <4>1, Zenon DEF LinkInv, LinkTypes
    <3>2. reader'[d] = reader[d]
      BY <1>3, <2>1 DEF LinkInv, LinkTypes
    <3> QED BY <3>1, <3>2
  <2> QED BY <1>2, <2>1 DEF Stays, LinkInv, LinkTypes
<1>7. Intact(c)'
  BY <1>1, <1>2 DEF Intact
<1>8. CASE Greets(c)
  <2>1. wire[c] = <<Message>> /\ reader[c] = "first" /\ mode = "noise" /\ dialect[c] = "noise"
        /\ buf[c] = <<>> /\ handed[c] = <<>> /\ written[c] = <<>>
        /\ dialer[c] \in {"shaking", "closed"}
    BY <1>1, <1>8 DEF Greets
  <2>2. reader'[c] = "third" /\ wire'[c] = <<>>
    BY <1>3, <1>4, <2>1, MessageMarked DEF LinkInv, LinkTypes
  <2>3. Answered(c)'
    BY <1>2, <2>1, <2>2 DEF Answered
  <2> QED BY <1>2, <1>5, <1>6, <1>7, <2>3, OneMoves DEF Stage
<1>9. CASE Answered(c)
  <2>1. /\ mode = "noise" /\ dialect[c] = "noise" /\ reader[c] = "third" /\ buf[c] = <<>>
        /\ handed[c] = <<>>
        /\ dialer[c] \in {"ready", "closed"} /\ Head(wire[c]) = Message
        /\ Follows(Text(Tail(wire[c])), written[c], 1, 0, dialer[c])
    BY <1>1, <1>9 DEF Answered
  <2>2. reader'[c] = "head"
    BY <1>3, <2>1 DEF LinkInv, LinkTypes
  <2>3. ~back'[c]
    <3>1. back' = [back EXCEPT ![c] = FALSE]
      BY <1>3, <2>1, Zenon
    <3> QED BY <3>1 DEF LinkInv, LinkTypes
  <2>4. Stock(<<>>, Tail(wire[c])) = Text(Tail(wire[c]))
    BY <1>4, TextOf, ConcatEmptySeq DEF Stock
  <2>5. Len(<<>>) + 1 = 1 /\ Gone("head") = 0 /\ Len(<<>>) <= Len(written[c])
    <3>1. written[c] \in Seq(Event)
      BY DEF LinkInv, LinkTypes
    <3> QED BY <3>1 DEF Gone
  <2>6. Plain(c)'
    BY <1>2, <1>4, <2>1, <2>2, <2>3, <2>4, <2>5 DEF Plain
  <2> QED BY <1>2, <1>5, <1>6, <1>7, <2>6, OneMoves DEF Stage
<1>10. CASE Misplaced(c)
  <2>1. reader'[c] = "ended" /\ dialer[c] # "idle"
    BY <1>3, <1>4, <1>10 DEF Misplaced, LinkInv, LinkTypes
  <2>2. Over(c)'
    BY <1>2, <2>1 DEF Over
  <2> QED BY <1>2, <1>5, <1>6, <1>7, <2>2, OneMoves DEF Stage
<1> QED BY <1>1, <1>8, <1>9, <1>10 DEF Stage, Undialed, Plain, Over

\* read_exact takes n units of what is left over and on the wire.
LEMMA ReadExactOf ==
    ASSUME LinkTypes, NEW c \in Conn, NEW n \in Nat, ReadExact(c, n)
    PROVE  /\ wire' \in [Conn -> Seq(Marked)] /\ buf' \in [Conn -> Seq(Unit)]
           /\ \A d \in Conn : d # c => wire'[d] = wire[d] /\ buf'[d] = buf[d]
           /\ Available(c) = Stock(buf[c], wire[c])
           /\ Advances(Stock(buf[c], wire[c]), n, Stock(buf'[c], wire'[c]))
<1>1. /\ wire \in [Conn -> Seq(Marked)] /\ buf \in [Conn -> Seq(Unit)]
      /\ wire[c] \in Seq(Marked) /\ buf[c] \in Seq(Unit)
  BY DEF LinkTypes
<1>2. PICK b \in Nat : b = Len(buf[c])
  BY <1>1
<1>3. CASE /\ n - b <= 0 /\ wire' = wire
           /\ buf' = [buf EXCEPT ![c] = SubSeq(buf[c], n + 1, Len(buf[c]))]
  <2>1. /\ wire'[c] = wire[c] /\ buf'[c] = SubSeq(buf[c], n + 1, Len(buf[c]))
        /\ n <= Len(buf[c])
    BY <1>1, <1>2, <1>3
  <2>2. /\ buf'[c] \in Seq(Unit) /\ wire'[c] \in Seq(Marked)
        /\ Advances(Stock(buf[c], wire[c]), n, Stock(buf'[c], wire'[c]))
    BY <1>1, <2>1, ReadOf
  <2> QED BY <1>1, <1>3, <2>2 DEF Available, Stock
<1>4. ASSUME n - b > 0, NEW k \in (n - b)..Len(wire[c]),
             wire' = [wire EXCEPT ![c] = SubSeq(wire[c], k + 1, Len(wire[c]))],
             buf' = [buf EXCEPT ![c] = Text(SubSeq(wire[c], (n - b) + 1, k))]
      PROVE  /\ wire' \in [Conn -> Seq(Marked)] /\ buf' \in [Conn -> Seq(Unit)]
             /\ \A d \in Conn : d # c => wire'[d] = wire[d] /\ buf'[d] = buf[d]
             /\ Available(c) = Stock(buf[c], wire[c])
             /\ Advances(Stock(buf[c], wire[c]), n, Stock(buf'[c], wire'[c]))
  <2>1. /\ wire'[c] = SubSeq(wire[c], k + 1, Len(wire[c]))
        /\ buf'[c] = Text(SubSeq(wire[c], (n - Len(buf[c])) + 1, k))
        /\ n > Len(buf[c]) /\ k \in (n - Len(buf[c]))..Len(wire[c])
    BY <1>1, <1>2, <1>4
  <2>2. /\ buf'[c] \in Seq(Unit) /\ wire'[c] \in Seq(Marked)
        /\ Advances(Stock(buf[c], wire[c]), n, Stock(buf'[c], wire'[c]))
    BY <1>1, <2>1, ReadOf
  <2> QED BY <1>1, <1>4, <2>2 DEF Available, Stock
<1> QED BY <1>2, <1>3, <1>4 DEF ReadExact, PieceEnds

\* read_event, up to the length.
LEMMA ReadHeadStage ==
    ASSUME LinkInv, NEW c \in Conn, ReadHead(c) PROVE LinkInv'
<1>1. PICK u : u = Available(c)[1]
  OBVIOUS
<1>2. /\ Intact(c) /\ Stage(c) /\ reader[c] = "head" /\ ReadExact(c, 1) /\ LinkTypes
      /\ written[c] \in Seq(Event) /\ handed[c] \in Seq(Seq(Unit))
      /\ wire[c] \in Seq(Marked) /\ buf[c] \in Seq(Unit)
  BY DEF LinkInv, LinkTypes, ReadHead
<1>3. /\ wire' \in [Conn -> Seq(Marked)] /\ buf' \in [Conn -> Seq(Unit)]
      /\ \A d \in Conn : d # c => wire'[d] = wire[d] /\ buf'[d] = buf[d]
      /\ Available(c) = Stock(buf[c], wire[c])
      /\ Advances(Stock(buf[c], wire[c]), 1, Stock(buf'[c], wire'[c]))
  BY <1>2, ReadExactOf
<1>4. /\ mode' = mode /\ UNCHANGED <<dialer, dialect, back, written, handed>>
      /\ head' = [head EXCEPT ![c] = u]
      /\ reader' = [reader EXCEPT ![c] = IF Foreign(u) THEN "starved"
                                         ELSE IF Length(u) > MaxFrame THEN "ended" ELSE "body"]
  BY <1>1 DEF ReadHead, Ends, policyVars, connVars
<1>5. PICK v \in Seq(Unit) : v = Stock(buf[c], wire[c]) /\ Len(v) >= 1 /\ v[1] = u /\ u \in Unit
  <2>1. Stock(buf[c], wire[c]) \in Seq(Unit)
    BY <1>2, StockOf
  <2>2. Len(Stock(buf[c], wire[c])) >= 1
    BY <1>3, <2>1 DEF Advances
  <2> QED BY <1>1, <1>3, <2>1, <2>2
<1>6. LinkTypes'
  BY <1>3, <1>4, <1>5 DEF LinkInv, LinkTypes
<1>7. \A d \in Conn : d # c => Stays(d)
  BY <1>3, <1>4 DEF Stays, LinkInv, LinkTypes
<1>8. Intact(c)'
  BY <1>2, <1>4 DEF Intact
<1>9. head'[c] = u /\ reader'[c] = IF Foreign(u) THEN "starved"
                                   ELSE IF Length(u) > MaxFrame THEN "ended" ELSE "body"
  BY <1>4 DEF LinkInv, LinkTypes
<1>10. CASE Greets(c)
  <2>1. buf[c] = <<>> /\ wire[c] \in {<<>>, <<Message>>} /\ dialer[c] # "idle"
    BY <1>10 DEF Greets
  <2>2. wire[c] = <<Message>>
    BY <1>5, <2>1, StockOfNothing
  <2>3. Stock(<<>>, <<Message>>)[Len(<<>>) + 1] = Message.unit
    <3>1. <<>> \in Seq(Unit) /\ 1 \in 1..Len(<<Message>>) /\ <<Message>> \in Seq(Marked)
      BY MessageMarked
    <3>2. Stock(<<>>, <<Message>>)[Len(<<>>) + 1] = <<Message>>[1].unit
      BY <3>1, StockOf
    <3> QED BY <3>2, MessageMarked
  <2>4. u = Shake
    BY <1>5, <2>1, <2>2, <2>3, MessageMarked
  <2>5. Over(c)'
    BY <1>4, <1>9, <2>1, <2>4 DEF Over, Foreign
  <2> QED BY <1>4, <1>6, <1>7, <1>8, <2>5, OneMoves DEF Stage
<1>11. CASE Plain(c)
  <2>1. PICK k \in 1..(Len(written[c]) + 1) :
          k = Len(handed[c]) + 1 /\ Follows(v, written[c], k, 0, dialer[c])
    <3>1. Len(handed[c]) + 1 \in 1..(Len(written[c]) + 1)
      BY <1>2 DEF Intact
    <3>2. Follows(v, written[c], Len(handed[c]) + 1, 0, dialer[c])
      BY <1>2, <1>5, <1>11 DEF Plain, Gone
    <3> QED BY <3>1, <3>2
  <2>2. PICK z \in Seq(Unit) : z = Stock(buf'[c], wire'[c]) /\ Advances(v, 1, z)
    <3>1. buf'[c] \in Seq(Unit) /\ wire'[c] \in Seq(Marked)
      BY <1>3
    <3> QED BY <1>3, <1>5, <3>1, StockOf
  <2>3. k <= Len(written[c]) /\ u = <<written[c][k], 0>>
        /\ Follows(z, written[c], k, 1, dialer[c])
    BY <1>2, <1>5, <2>1, <2>2, FollowsHead
  <2>4. ~Foreign(u) /\ dialer[c] # "idle"
    <3>1. u \in Event \X Nat
      BY <1>2, <2>1, <2>3
    <3>2. u # Shake
      BY <3>1, LinkAssumption
    <3> QED BY <1>11, <3>2 DEF Foreign, Plain
  <2>5. CASE Length(u) > MaxFrame
    <3>1. Over(c)'
      BY <1>4, <1>9, <2>4, <2>5 DEF Over
    <3> QED BY <1>4, <1>6, <1>7, <1>8, <3>1, OneMoves DEF Stage
  <2>6. CASE ~(Length(u) > MaxFrame)
    <3>1. reader'[c] = "body" /\ Gone("body") = 1
      BY <1>9, <2>4, <2>6 DEF Gone
    <3>2. Len(handed[c]) < Len(written[c])
      BY <1>2, <2>1, <2>3
    <3>3. Plain(c)'
      BY <1>4, <1>9, <1>11, <2>1, <2>2, <2>3, <3>1, <3>2 DEF Plain
    <3> QED BY <1>4, <1>6, <1>7, <1>8, <3>3, OneMoves DEF Stage
  <2> QED BY <2>5, <2>6
<1> QED BY <1>2, <1>10, <1>11 DEF Stage, Undialed, Answered, Misplaced, Over

\* read_event, the body: what is handed on is the next frame written.
LEMMA ReadBodyStage ==
    ASSUME LinkInv, NEW c \in Conn, ReadBody(c) PROVE LinkInv'
<1>1. /\ Intact(c) /\ Stage(c) /\ reader[c] = "body" /\ LinkTypes
      /\ written[c] \in Seq(Event) /\ handed[c] \in Seq(Seq(Unit))
      /\ wire[c] \in Seq(Marked) /\ buf[c] \in Seq(Unit)
  BY DEF LinkInv, LinkTypes, ReadBody
<1>2. Plain(c)
  BY <1>1 DEF Stage, Undialed, Greets, Answered, Misplaced, Over
<1>3. PICK k \in 1..Len(written[c]) :
        /\ k = Len(handed[c]) + 1 /\ head[c] = <<written[c][k], 0>>
        /\ Follows(Stock(buf[c], wire[c]), written[c], k, 1, dialer[c])
  <2>1. Len(handed[c]) + 1 \in 1..Len(written[c])
    BY <1>1, <1>2 DEF Plain
  <2>2. Gone("body") = 1
    BY DEF Gone
  <2> QED BY <1>1, <1>2, <2>1, <2>2 DEF Plain
<1>4. PICK e \in Event : e = written[c][k]
  BY <1>1
<1>5. PICK n \in Nat : n = Size[e] /\ n = Length(head[c])
  <2>1. head[c][2] = 0 /\ head[c][1] = e
    BY <1>3, <1>4
  <2>2. Length(head[c]) = Size[e] /\ Size[e] \in Nat
    BY <2>1, LinkAssumption DEF Length
  <2> QED BY <2>2
<1>6. PICK g : g = <<head[c]>> \o SubSeq(Available(c), 1, n)
  OBVIOUS
<1>7. /\ mode' = mode /\ UNCHANGED <<dialer, dialect, back, written, head>>
      /\ ReadExact(c, n) /\ handed' = [handed EXCEPT ![c] = Append(handed[c], g)]
      /\ reader' = [reader EXCEPT ![c] = "head"]
  BY <1>5, <1>6 DEF ReadBody, policyVars, connVars
<1>8. /\ wire' \in [Conn -> Seq(Marked)] /\ buf' \in [Conn -> Seq(Unit)]
      /\ \A d \in Conn : d # c => wire'[d] = wire[d] /\ buf'[d] = buf[d]
      /\ Available(c) = Stock(buf[c], wire[c])
      /\ Advances(Stock(buf[c], wire[c]), n, Stock(buf'[c], wire'[c]))
  BY <1>1, <1>7, ReadExactOf
<1>9. PICK v \in Seq(Unit) : v = Stock(buf[c], wire[c]) /\ n <= Len(v)
  <2>1. Stock(buf[c], wire[c]) \in Seq(Unit)
    BY <1>1, StockOf
  <2> QED BY <1>8, <2>1 DEF Advances
<1>10. PICK z \in Seq(Unit) : z = Stock(buf'[c], wire'[c])
                              /\ Advances(v, Size[written[c][k]], z)
  <2>1. buf'[c] \in Seq(Unit) /\ wire'[c] \in Seq(Marked)
    BY <1>8
  <2> QED BY <1>4, <1>5, <1>8, <1>9, <2>1, StockOf
<1>11. /\ \A j \in 1..Size[written[c][k]] : v[j] = <<written[c][k], j>>
       /\ Follows(z, written[c], k + 1, 0, dialer[c])
  BY <1>1, <1>3, <1>9, <1>10, FollowsBody
<1>12. g = Frame(e) /\ g \in Seq(Unit)
  <2>1. PICK h \in Seq(Unit) : h = SubSeq(v, 1, n) /\ Len(h) = n /\ \A i \in 1..n : h[i] = v[i]
    <3>1. 1 \in 1..(Len(v) + 1) /\ n \in (1 - 1)..Len(v) /\ n - 1 + 1 = n
      BY <1>9
    <3>2. /\ SubSeq(v, 1, n) \in Seq(Unit) /\ Len(SubSeq(v, 1, n)) = n - 1 + 1
          /\ \A i \in 1..(n - 1 + 1) : SubSeq(v, 1, n)[i] = v[1 + i - 1]
      BY <3>1, SubSeqOf
    <3>3. \A i \in 1..n : 1 + i - 1 = i
      OBVIOUS
    <3> QED BY <3>1, <3>2, <3>3
  <2>2. <<head[c]>> \in Seq(Unit) /\ Len(<<head[c]>>) = 1 /\ <<head[c]>>[1] = <<e, 0>>
    <3>1. head[c] \in Unit
      BY <1>1 DEF LinkTypes
    <3> QED BY <1>3, <1>4, <3>1
  <2>3. g = <<head[c]>> \o h
    BY <1>6, <1>8, <1>9, <2>1
  <2>4. /\ g \in Seq(Unit) /\ Len(g) = 1 + n
        /\ g[1] = <<e, 0>>
        /\ \A i \in 1..n : g[1 + i] = h[i]
    <3>1. /\ <<head[c]>> \o h \in Seq(Unit) /\ Len(<<head[c]>> \o h) = Len(<<head[c]>>) + Len(h)
          /\ \A i \in 1..Len(<<head[c]>>) : (<<head[c]>> \o h)[i] = <<head[c]>>[i]
          /\ \A i \in 1..Len(h) : (<<head[c]>> \o h)[Len(<<head[c]>>) + i] = h[i]
      BY <2>2, ConcatOf
    <3> QED BY <2>1, <2>2, <2>3, <3>1
  <2>5. Frame(e) \in Seq(Unit) /\ Len(Frame(e)) = n + 1
        /\ \A i \in 1..(n + 1) : Frame(e)[i] = <<e, i - 1>>
    BY <1>5, FrameUnits
  <2>6. ASSUME NEW i \in 1..(n + 1) PROVE g[i] = <<e, i - 1>>
    <3>1. CASE i = 1
      BY <2>4, <3>1
    <3>2. CASE i # 1
      <4>1. PICK j \in 1..n : i = 1 + j /\ i - 1 = j
        <5>1. i - 1 \in 1..n /\ i = 1 + (i - 1)
          BY <3>2
        <5> QED BY <5>1
      <4>2. h[j] = v[j] /\ v[j] = <<e, j>>
        BY <1>4, <1>5, <1>11, <2>1
      <4> QED BY <2>4, <4>1, <4>2
    <3> QED BY <3>1, <3>2
  <2>7. Len(g) = Len(Frame(e)) /\ \A i \in 1..Len(g) : g[i] = Frame(e)[i]
    <3>1. 1 + n = n + 1
      OBVIOUS
    <3> QED BY <2>4, <2>5, <2>6, <3>1
  <2>8. g = Frame(e)
    BY <2>4, <2>5, <2>7, SeqEqual
  <2> QED BY <2>4, <2>8
<1>13. /\ Append(handed[c], g) \in Seq(Seq(Unit))
       /\ Len(Append(handed[c], g)) = Len(handed[c]) + 1
       /\ \A i \in 1..Len(handed[c]) : Append(handed[c], g)[i] = handed[c][i]
       /\ Append(handed[c], g)[Len(handed[c]) + 1] = g
  BY <1>1, <1>12, AppendProperties
<1>14. LinkTypes'
  BY <1>7, <1>8, <1>13 DEF LinkInv, LinkTypes
<1>15. \A d \in Conn : d # c => Stays(d)
  BY <1>7, <1>8 DEF Stays, LinkInv, LinkTypes
<1>16. handed'[c] = Append(handed[c], g) /\ reader'[c] = "head"
  BY <1>7 DEF LinkInv, LinkTypes
<1>17. Intact(c)'
  <2>1. PICK l \in Nat : l = Len(handed[c]) /\ k = l + 1 /\ l + 1 <= Len(written[c])
    <3>1. Len(handed[c]) \in Nat /\ Len(written[c]) \in Nat
      BY <1>1
    <3> QED BY <1>3, <3>1
  <2>2. DOMAIN Append(handed[c], g) = 1..(l + 1) /\ DOMAIN handed[c] = 1..l
    BY <1>1, <1>13, <2>1
  <2>3. ASSUME NEW i \in 1..(l + 1) PROVE Append(handed[c], g)[i] = Frame(written[c][i])
    <3>1. CASE i = l + 1
      BY <1>4, <1>12, <1>13, <2>1, <3>1
    <3>2. CASE i # l + 1
      <4>1. i \in 1..l
        BY <3>2
      <4> QED BY <1>1, <1>13, <2>1, <2>2, <4>1 DEF Intact
    <3> QED BY <3>1, <3>2
  <2> QED BY <1>7, <1>13, <1>16, <2>1, <2>2, <2>3 DEF Intact
<1>18. Plain(c)'
  <2>1. Gone("head") = 0 /\ Len(Append(handed[c], g)) = k /\ k <= Len(written[c])
    BY <1>3, <1>13 DEF Gone
  <2> QED BY <1>2, <1>7, <1>10, <1>11, <1>16, <2>1 DEF Plain
<1> QED BY <1>7, <1>14, <1>15, <1>17, <1>18, OneMoves DEF Stage

\* Every step keeps the stages.
LEMMA LinkStep == LinkInv /\ [LinkNext]_linkVars => LinkInv'
<1> SUFFICES ASSUME LinkInv, [LinkNext]_linkVars PROVE LinkInv'
  OBVIOUS
<1>1. ASSUME mode' = mode,
             UNCHANGED <<dialer, reader, dialect, back, wire, buf, head, written, handed>>
      PROVE  LinkInv'
  <2>1. LinkTypes'
    BY <1>1 DEF LinkInv, LinkTypes
  <2>2. ASSUME NEW d \in Conn PROVE (Stage(d) /\ Intact(d))'
    BY <1>1, Untouched DEF LinkInv, Stays
  <2> QED BY <2>1, <2>2 DEF LinkInv
<1>2. CASE AcceptFails
  BY <1>1, <1>2 DEF AcceptFails, policyVars, connVars, readVars
<1>3. CASE UNCHANGED linkVars
  BY <1>1, <1>3 DEF linkVars, policyVars, connVars, readVars
<1>4. ASSUME NEW c \in Conn, NodeDial(c) \/ \E how \in {"noise", "quic"} : Dial(c, how)
      PROVE  LinkInv'
  BY <1>4, DialStage DEF NodeDial
<1>5. ASSUME NEW c \in Conn, DialerShakes(c) PROVE LinkInv'
  BY <1>5, DialerShakesStage
<1>6. ASSUME NEW c \in Conn, NEW e \in Event, Write(c, e) PROVE LinkInv'
  BY <1>6, WriteStage
<1>7. ASSUME NEW c \in Conn, Hangup(c) \/ Cut(c) PROVE LinkInv'
  BY <1>7, HangupStage
<1>8. ASSUME NEW c \in Conn, Listens(c) \/ Shakes(c) PROVE LinkInv'
  BY <1>8, AcceptStage, QuicStage, EndStage DEF Listens, Shakes
<1>9. ASSUME NEW c \in Conn, Reads(c) PROVE LinkInv'
  BY <1>9, RespondsStage, ReadHeadStage, ReadBodyStage, EndStage DEF Reads
<1> QED BY <1>2, <1>3, <1>4, <1>5, <1>6, <1>7, <1>8, <1>9 DEF LinkNext

\* NoiseTcpStream::read_exact and write_all, read_event, write_event: for any
\* connections, events, frame sizes, sizes of a Noise message and numbers of
\* breaks, the frames handed to ingest_remote are whole, in order and those
\* that the dialer wrote.
THEOREM FramesStayIntact == LinkSpec => []FramesIntact
<1>1. LinkInv => FramesIntact
  BY DEF LinkInv, Intact, FramesIntact
<1> QED BY <1>1, LinkInitially, LinkStep, PTL DEF LinkSpec

\* The pin check comes before the first stream: whoever is beyond it, or has
\* been heard, passed it.
Checked(c) ==
    mode = "quic" => /\ reader[c] \in {"none", "tls", "starved", "ended"} \/ PinAllowed(c)
                     /\ handed[c] # <<>> => PinAllowed(c)

\* The strengthening of PinnedPeersOnly.
PinInv ==
    /\ reader \in [Conn -> {"none", "first", "third", "tls", "stream", "head", "body",
                            "starved", "ended"}]
    /\ handed \in [Conn -> Seq(Seq(Unit))]
    /\ \A c \in Conn : Checked(c)

\* td-node reads the option as one of three values.
MtlsSet == opts.mtls \in {"unset", "on", "off"}

\* The options do not change while the listener runs.
LEMMA PinAllowedStays ==
    ASSUME NEW c \in Conn, UNCHANGED policyVars PROVE PinAllowed(c)' <=> PinAllowed(c)
  BY DEF policyVars, PinAllowed, Mtls

\* A step of one task, which ends or has passed the check before.
LEMMA CheckedMoves ==
    ASSUME PinInv, LinkTypes', NEW c \in Conn, UNCHANGED policyVars,
           \A d \in Conn : d # c => reader'[d] = reader[d] /\ handed'[d] = handed[d],
           Checked(c)'
    PROVE  PinInv'
<1>1. ASSUME NEW d \in Conn, d # c PROVE Checked(d)'
  <2>1. Checked(d) /\ (PinAllowed(d)' <=> PinAllowed(d))
    BY PinAllowedStays DEF PinInv
  <2> QED BY <1>1, <2>1 DEF Checked, policyVars
<1> QED BY <1>1 DEF PinInv, LinkTypes

\* Every step keeps the check of the pins.
LEMMA PinStep == LinkInv /\ LinkInv' /\ PinInv /\ [LinkNext]_linkVars => PinInv'
<1> SUFFICES ASSUME LinkInv, LinkInv', PinInv, [LinkNext]_linkVars PROVE PinInv'
  OBVIOUS
<1>1. LinkTypes /\ LinkTypes'
  BY DEF LinkInv
<1>2. ASSUME UNCHANGED policyVars, reader' = reader, handed' = handed PROVE PinInv'
  <2>1. ASSUME NEW d \in Conn PROVE Checked(d)'
    <3>1. Checked(d) /\ (PinAllowed(d)' <=> PinAllowed(d))
      BY <1>2, PinAllowedStays DEF PinInv
    <3> QED BY <1>2, <3>1 DEF Checked, policyVars
  <2> QED BY <1>2, <2>1 DEF PinInv
<1>3. ASSUME NEW c \in Conn, NEW r, UNCHANGED policyVars, handed' = handed,
             reader' = [reader EXCEPT ![c] = r],
             mode = "quic" => r \in {"none", "tls", "starved", "ended"} \/ PinAllowed(c)
      PROVE  PinInv'
  <2>1. Checked(c) /\ (PinAllowed(c)' <=> PinAllowed(c)) /\ mode' = mode
    BY <1>3, PinAllowedStays DEF PinInv, policyVars
  <2>2. reader'[c] = r /\ \A d \in Conn : d # c => reader'[d] = reader[d]
        /\ handed'[d] = handed[d]
    BY <1>1, <1>3 DEF LinkTypes
  <2>3. Checked(c)'
    BY <1>3, <2>1, <2>2 DEF Checked
  <2> QED BY <1>1, <1>3, <2>2, <2>3, CheckedMoves
<1>4. CASE AcceptFails \/ UNCHANGED linkVars
  BY <1>2, <1>4 DEF AcceptFails, linkVars, connVars, readVars
<1>5. ASSUME NEW c \in Conn,
             \/ NodeDial(c) \/ (\E how \in {"noise", "quic"} : Dial(c, how)) \/ DialerShakes(c)
             \/ (\E e \in Event : Write(c, e)) \/ Hangup(c) \/ Cut(c)
      PROVE  PinInv'
  BY <1>2, <1>5 DEF NodeDial, Dial, DialerShakes, Write, Hangup, Cut
<1>6. ASSUME NEW c \in Conn, Accept(c) PROVE PinInv'
  <2>1. UNCHANGED policyVars /\ mode # "quic" /\ handed' = handed
        /\ reader' = [reader EXCEPT ![c] = IF mode = "noise" THEN "first" ELSE "head"]
    BY <1>6 DEF Accept, readVars
  <2> QED BY <1>3, <2>1
<1>7. ASSUME NEW c \in Conn, QuicAccept(c) PROVE PinInv'
  BY <1>3, <1>7 DEF QuicAccept, readVars
<1>8. ASSUME NEW c \in Conn, QuicShakes(c) PROVE PinInv'
  BY <1>3, <1>8 DEF QuicShakes, readVars
<1>9. ASSUME NEW c \in Conn, reader[c] \notin {"none", "tls", "starved", "ended"}
      PROVE  mode = "quic" => PinAllowed(c)
  BY <1>9 DEF PinInv, Checked
<1>10. ASSUME NEW c \in Conn, QuicStream(c) PROVE PinInv'
  BY <1>3, <1>9, <1>10 DEF QuicStream, readVars
<1>11. ASSUME NEW c \in Conn, QuicFails(c) \/ ReadEnds(c) PROVE PinInv'
  BY <1>3, <1>11 DEF QuicFails, ReadEnds, Ends, readVars
<1>12. ASSUME NEW c \in Conn, Responds(c) PROVE PinInv'
  <2>1. UNCHANGED policyVars /\ handed' = handed /\ reader[c] \in {"first", "third"}
    BY <1>12 DEF Responds
  <2>2. PICK r : reader' = [reader EXCEPT ![c] = r]
    BY <1>12 DEF Responds, Ends
  <2> QED BY <1>3, <1>9, <2>1, <2>2
<1>13. ASSUME NEW c \in Conn, ReadHead(c) PROVE PinInv'
  <2>1. UNCHANGED policyVars /\ handed' = handed /\ reader[c] = "head"
    BY <1>13 DEF ReadHead
  <2>2. PICK r : reader' = [reader EXCEPT ![c] = r]
    BY <1>13 DEF ReadHead, Ends
  <2> QED BY <1>3, <1>9, <2>1, <2>2
<1>14. ASSUME NEW c \in Conn, ReadBody(c) PROVE PinInv'
  <2>1. UNCHANGED policyVars /\ mode' = mode /\ reader[c] = "body"
        /\ reader' = [reader EXCEPT ![c] = "head"]
    BY <1>14 DEF ReadBody, policyVars
  <2>2. PICK g : handed' = [handed EXCEPT ![c] = g]
    BY <1>14 DEF ReadBody
  <2>3. \A d \in Conn : d # c => reader'[d] = reader[d] /\ handed'[d] = handed[d]
    BY <1>1, <2>1, <2>2 DEF LinkTypes
  <2>4. mode = "quic" => PinAllowed(c)'
    BY <1>9, <2>1, PinAllowedStays
  <2>5. Checked(c)'
    BY <2>1, <2>4 DEF Checked
  <2> QED BY <1>1, <2>1, <2>3, <2>5, CheckedMoves
<1> QED BY <1>4, <1>5, <1>6, <1>7, <1>8, <1>10, <1>11, <1>12, <1>13, <1>14
        DEF LinkNext, Listens, Shakes, Reads

\* build_quic_tls_config, PinClientCertVerifier: whatever list of pins is set and
\* wherever the identity comes from, with client certificates not switched off
\* only pinned dialers are heard.
THEOREM PinnedPeersAreHeard == LinkSpec => []PinnedPeersOnly
<1>1. LinkInit => PinInv /\ MtlsSet
  <2> SUFFICES ASSUME LinkInit PROVE PinInv /\ MtlsSet
    OBVIOUS
  <2>1. MtlsSet
    <3>1. CASE mode = "quic"
      BY <3>1 DEF LinkInit, Options, MtlsSet
    <3>2. CASE mode # "quic"
      BY <3>2 DEF LinkInit, MtlsSet
    <3> QED BY <3>1, <3>2
  <2>2. ASSUME NEW c \in Conn PROVE reader[c] = "none" /\ handed[c] = <<>>
    BY DEF LinkInit
  <2>3. \A c \in Conn : Checked(c)
    BY <2>2 DEF Checked
  <2>4. reader \in [Conn -> {"none", "first", "third", "tls", "stream", "head", "body",
                            "starved", "ended"}]
    BY DEF LinkInit
  <2>5. handed \in [Conn -> Seq(Seq(Unit))]
    BY DEF LinkInit
  <2> QED BY <2>1, <2>3, <2>4, <2>5 DEF PinInv
<1>2. LinkNext \/ UNCHANGED linkVars => UNCHANGED policyVars
  BY DEF LinkNext, linkVars, AcceptFails, NodeDial, Dial, DialerShakes, Write, Hangup, Cut,
         Listens, Accept, QuicAccept, Shakes, QuicShakes, QuicStream, QuicFails,
         Reads, Responds, ReadHead, ReadBody, ReadEnds
<1>3. MtlsSet /\ [LinkNext]_linkVars => MtlsSet'
  BY <1>2 DEF policyVars, MtlsSet
<1>4. PinInv /\ MtlsSet => PinnedPeersOnly
  BY DEF MtlsSet, PinInv, Checked, PinnedPeersOnly, PinAllowed, Mtls
<1> QED BY <1>1, <1>3, <1>4, PinStep, LinkInitially, LinkStep, PTL DEF LinkSpec
=============================================================================
