----------------------- MODULE ConcurrentSessionProofs -----------------------
(***************************************************************************)
(* The concurrent controller, for any number of work items and windows:    *)
(* admission is sound, the controller agrees with its ports, and work that *)
(* ended stays ended.                                                      *)
(*                                                                         *)
(* The argument follows opMu: the operation that holds it is described by  *)
(* where it stands (OpInv), a revocation counting as what follows it; a    *)
(* permit is in one place, the controller or one revoking goroutine        *)
(* (PermitInv); and every other goroutine changes the fence in three ways  *)
(* only: not at all, by an invalidation, or by a cleanup that failed.      *)
(***************************************************************************)
EXTENDS ConcurrentSession, TLAPS

\* The types of a goroutine's place and of the controller's record.
ThreadType == [pc : Places, then : Places, permit : {0} \cup Permits, epoch : Nat,
               arg : {"none"} \cup Works \cup Windows, flag : BOOLEAN]
CtlType == [open : BOOLEAN, permit : {0} \cup Permits, permitEpoch : Nat, epoch : Nat,
            lifecycle : Lifecycles, revoked : BOOLEAN, blocked : BOOLEAN, started : BOOLEAN,
            disabled : BOOLEAN, failed : BOOLEAN, retired : BOOLEAN]

\* A step of thread t only: the others stand where they stood.
Moves(t) == /\ thr' \in [Threads -> ThreadType]
            /\ \A s \in Threads \ {t} : thr'[s] = thr[s]
\* Where it stands then, with what it carries.
Fields(t, pc, permit, epoch, arg) ==
  thr'[t].pc = pc /\ thr'[t].permit = permit /\ thr'[t].epoch = epoch /\ thr'[t].arg = arg

\* What a step does to the controller's record: nothing that matters, an
\* invalidation, or a cleanup marked as failed; and to the seam and the work.
Keeps == /\ ctl'.started = ctl.started /\ ctl'.disabled = ctl.disabled /\ ctl'.retired = ctl.retired
CtlSame == /\ ctl' \in CtlType /\ Keeps
           /\ ctl'.open = ctl.open /\ ctl'.permit = ctl.permit /\ ctl'.permitEpoch = ctl.permitEpoch
           /\ ctl'.epoch = ctl.epoch /\ ctl'.revoked = ctl.revoked /\ ctl'.failed = ctl.failed
CtlInvalid == /\ ctl' \in CtlType /\ Keeps
              /\ ~ctl'.open /\ ctl'.permit = 0 /\ ctl'.epoch = ctl.epoch + 1 /\ ctl'.revoked
              /\ ctl'.failed = ctl.failed
CtlFailed == /\ ctl' \in CtlType /\ Keeps
             /\ ~ctl'.open /\ ctl'.permit = ctl.permit /\ ctl'.epoch = ctl.epoch + 1 /\ ctl'.revoked
             /\ ctl'.failed
SeamEnds == /\ Seam!SeamTypeOK'
            /\ \A w \in Works : ticket'[w] = "completed" <=> ticket[w] = "completed"
WorkEnds == /\ work' \in [Works -> WorkStates]
            /\ \A w \in Works : work'[w] = IF work[w] = "active" THEN "cancelled" ELSE work[w]

\* The type invariant in the names used here.
LEMMA TypeFacts ==
  ASSUME CSTypeOK
  PROVE  /\ thr \in [Threads -> ThreadType] /\ ctl \in CtlType
         /\ \A t \in Threads : thr[t] \in ThreadType
BY DEF CSTypeOK, ThreadType, CtlType

\* Places that occur as defaults.
LEMMA PlaceFacts == "idle" \in Places /\ "revoking" \in Places
BY DEF Places

\* A goroutine may be put at any place.
LEMMA IdleFacts ==
  ASSUME NEW pc \in Places
  PROVE  [Idle EXCEPT !.pc = pc] \in ThreadType
BY PlaceFacts DEF Idle, ThreadType

\* Putting one goroutine somewhere moves no other.
LEMMA Put ==
  ASSUME CSTypeOK, NEW t \in Threads, NEW r \in ThreadType, thr' = [thr EXCEPT ![t] = r]
  PROVE  Moves(t) /\ thr'[t] = r
BY TypeFacts DEF Moves

\* What the moves of a goroutine do to its fields: Enter,
LEMMA EnterEffect ==
  ASSUME CSTypeOK, NEW t \in Threads, NEW pc \in Places, Enter(t, pc)
  PROVE  Moves(t) /\ Fields(t, pc, 0, 0, "none") /\ ~thr'[t].flag
<1>1. [Idle EXCEPT !.pc = pc] \in ThreadType
  BY IdleFacts
<1>2. Moves(t) /\ thr'[t] = [Idle EXCEPT !.pc = pc]
  BY <1>1, Put DEF Enter
<1> QED BY <1>2 DEF Fields, Idle

\* Return,
LEMMA ReturnEffect ==
  ASSUME CSTypeOK, NEW t \in Threads, Return(t)
  PROVE  Moves(t) /\ Fields(t, "idle", 0, 0, "none")
<1>1. Idle \in ThreadType
  BY PlaceFacts DEF Idle, ThreadType
<1>2. Moves(t) /\ thr'[t] = Idle
  BY <1>1, Put DEF Return
<1> QED BY <1>2 DEF Fields, Idle

\* Goto,
LEMMA GotoEffect ==
  ASSUME CSTypeOK, NEW t \in Threads, NEW pc \in Places, Goto(t, pc)
  PROVE  /\ Moves(t) /\ Fields(t, pc, thr[t].permit, thr[t].epoch, thr[t].arg)
         /\ thr'[t].flag = thr[t].flag
BY TypeFacts DEF Goto, Moves, Fields, ThreadType

\* Goto that also records whether an owner could not be closed,
LEMMA FlagEffect ==
  ASSUME CSTypeOK, NEW t \in Threads, NEW pc \in Places, NEW b \in BOOLEAN,
         thr' = [thr EXCEPT ![t].pc = pc, ![t].flag = b]
  PROVE  /\ Moves(t) /\ Fields(t, pc, thr[t].permit, thr[t].epoch, thr[t].arg)
         /\ thr'[t].flag = b
BY TypeFacts DEF Moves, Fields, ThreadType

\* and the way on after a revocation.
LEMMA ContinueEffect ==
  ASSUME CSTypeOK, NEW t \in Threads, Continue(t)
  PROVE  Moves(t) /\ Fields(t, thr[t].then, 0, 0, thr[t].arg)
<1> DEFINE r == [Idle EXCEPT !.pc = thr[t].then, !.arg = thr[t].arg]
<1>1. r \in ThreadType
  BY TypeFacts, PlaceFacts DEF Idle, ThreadType
<1>2. Moves(t) /\ thr'[t] = r
  BY <1>1, Put DEF Continue
<1> QED BY <1>2 DEF Fields, Idle

\* Revoking the authority completes nothing behind the seam.
LEMMA RevokeSeamEffect ==
  ASSUME CSTypeOK, RevokeSeam
  PROVE  SeamEnds
BY DEF CSTypeOK, RevokeSeam, SeamEnds, Seam!Revoke, Seam!SeamTypeOK, Seam!TicketStates, seamVars

\* Nor does a step that leaves the seam alone.
LEMMA SameSeam ==
  ASSUME CSTypeOK, UNCHANGED seamVars
  PROVE  SeamEnds
BY DEF CSTypeOK, SeamEnds, Seam!SeamTypeOK, seamVars

\* The fence is a number.
LEMMA NextEpoch ==
  ASSUME CSTypeOK
  PROVE  ctl.epoch \in Nat /\ ctl.epoch + 1 \in Nat
BY TypeFacts DEF CtlType

\* invalidateLocked forgets the permit, raises the fence and ends active work.
LEMMA InvalidateLockedEffect ==
  ASSUME CSTypeOK, invalidateLocked
  PROVE  CtlInvalid /\ WorkEnds /\ SeamEnds
<1> DEFINE e == ctl.epoch + 1
           l == IF ctl.disabled \/ ctl.lifecycle \in {"cleanupFailed", "collectorLost"}
                THEN ctl.lifecycle ELSE "starting"
<1>1. ctl' = [ctl EXCEPT !.open = FALSE, !.permit = 0, !.permitEpoch = 0, !.epoch = e,
                         !.revoked = TRUE, !.lifecycle = l]
  BY DEF invalidateLocked
<1>2. e \in Nat /\ l \in Lifecycles
  BY NextEpoch, TypeFacts DEF CtlType, Lifecycles
<1> HIDE DEF e, l
<1>3. ctl' \in CtlType
  BY <1>1, <1>2, TypeFacts DEF CtlType
<1>4. Keeps /\ ~ctl'.open /\ ctl'.permit = 0 /\ ctl'.epoch = e /\ ctl'.revoked /\ ctl'.failed = ctl.failed
  BY <1>1, TypeFacts DEF CtlType, Keeps
<1>5. WorkEnds
  BY DEF CSTypeOK, invalidateLocked, WorkEnds, CancelActive, WorkStates
<1> QED BY <1>3, <1>4, <1>5, RevokeSeamEffect DEF invalidateLocked, CtlInvalid, e

\* markCleanupFailedLocked raises the fence and ends active work, and keeps the permit.
LEMMA MarkEffect ==
  ASSUME CSTypeOK, markCleanupFailedLocked
  PROVE  CtlFailed /\ WorkEnds /\ SeamEnds
<1> DEFINE e == ctl.epoch + 1
<1>1. ctl' = [ctl EXCEPT !.failed = TRUE, !.open = FALSE, !.blocked = TRUE, !.epoch = e,
                         !.revoked = TRUE, !.lifecycle = "cleanupFailed"]
  BY DEF markCleanupFailedLocked
<1>2. e \in Nat
  BY NextEpoch
<1> HIDE DEF e
<1>3. ctl' \in CtlType
  BY <1>1, <1>2, TypeFacts DEF CtlType, Lifecycles
<1>4. /\ Keeps /\ ~ctl'.open /\ ctl'.permit = ctl.permit /\ ctl'.epoch = e /\ ctl'.revoked
      /\ ctl'.failed
  BY <1>1, TypeFacts DEF CtlType, Keeps
<1>5. WorkEnds
  BY DEF CSTypeOK, markCleanupFailedLocked, WorkEnds, CancelActive, WorkStates
<1> QED BY <1>3, <1>4, <1>5, RevokeSeamEffect DEF markCleanupFailedLocked, CtlFailed, e

\* Thread t now stands at pc, outside a revocation.
To(t, pc, epoch, arg) == /\ Moves(t) /\ thr'[t].pc = pc /\ pc # "revoking"
                         /\ thr'[t].epoch = epoch /\ thr'[t].arg = arg
\* Thread t has closed admission: if a permit was open it revokes it before it goes on.
Closes(t, then) ==
  /\ CtlInvalid /\ WorkEnds /\ SeamEnds /\ Moves(t)
  /\ thr'[t].epoch = 0 /\ thr'[t].arg = "none" /\ then # "revoking"
  /\ IF ctl.permit # 0 THEN thr'[t].pc = "revoking" /\ thr'[t].then = then
                            /\ thr'[t].permit = ctl.permit
                       ELSE thr'[t].pc = then
\* A cleanup is marked as failed; or nothing happens to fence, work and permit.
Fails == CtlFailed /\ WorkEnds /\ SeamEnds
Calm == CtlSame /\ UNCHANGED work /\ SeamEnds

\* The same moves, without the fields that matter only in a revocation.
LEMMA EnterTo ==
  ASSUME CSTypeOK, NEW t \in Threads, NEW pc \in Places \ {"revoking"}, Enter(t, pc)
  PROVE  To(t, pc, 0, "none") /\ ~thr'[t].flag
BY EnterEffect DEF To, Fields

\* A goroutine returns to idle.
LEMMA ReturnTo ==
  ASSUME CSTypeOK, NEW t \in Threads, Return(t)
  PROVE  To(t, "idle", 0, "none")
BY ReturnEffect DEF To, Fields

\* A goroutine goes on.
LEMMA GotoTo ==
  ASSUME CSTypeOK, NEW t \in Threads, NEW pc \in Places \ {"revoking"}, Goto(t, pc)
  PROVE  To(t, pc, thr[t].epoch, thr[t].arg) /\ thr'[t].flag = thr[t].flag
BY GotoEffect DEF To, Fields

\* A goroutine goes on and sets or clears its flag.
LEMMA FlagTo ==
  ASSUME CSTypeOK, NEW t \in Threads, NEW pc \in Places \ {"revoking"}, NEW b \in BOOLEAN,
         thr' = [thr EXCEPT ![t].pc = pc, ![t].flag = b]
  PROVE  To(t, pc, thr[t].epoch, thr[t].arg) /\ thr'[t].flag = b
BY FlagEffect DEF To, Fields

\* invalidate closes admission and leaves the permit to the goroutine that revokes it.
LEMMA InvalidateCloses ==
  ASSUME CSTypeOK, NEW t \in Threads, NEW then \in Places \ {"revoking"}, invalidate(t, then)
  PROVE  Closes(t, then) /\ ~thr'[t].flag
<1>1. CASE ctl.permit # 0
  <2> DEFINE r == [Idle EXCEPT !.pc = "revoking", !.then = then, !.permit = ctl.permit]
  <2>1. ctl.permit \in {0} \cup Permits
    BY TypeFacts DEF CtlType
  <2>2. r \in ThreadType
    BY <2>1, PlaceFacts DEF Idle, ThreadType
  <2>3. Moves(t) /\ thr'[t] = r
    BY <2>2, <1>1, Put DEF invalidate
  <2>4. /\ thr'[t].pc = "revoking" /\ thr'[t].then = then /\ thr'[t].permit = ctl.permit
        /\ thr'[t].epoch = 0 /\ thr'[t].arg = "none" /\ ~thr'[t].flag
    BY <2>3 DEF Idle
  <2>5. CtlInvalid /\ WorkEnds /\ SeamEnds
    BY InvalidateLockedEffect DEF invalidate
  <2> QED BY <1>1, <2>3, <2>4, <2>5 DEF Closes
<1>2. CASE ctl.permit = 0
  <2>1. Enter(t, then)
    BY <1>2 DEF invalidate, Enter
  <2> QED BY <1>2, <2>1, EnterEffect, InvalidateLockedEffect DEF invalidate, Fields, Closes
<1> QED BY <1>1, <1>2

\* markCleanupFailedLocked as a kind of step.
LEMMA MarkFails ==
  ASSUME CSTypeOK, markCleanupFailedLocked
  PROVE  Fails
BY MarkEffect DEF Fails

\* A step that leaves what invalidation writes alone.
LEMMA LocalCalm ==
  ASSUME CSTypeOK, UNCHANGED local
  PROVE  Calm
BY TypeFacts, SameSeam DEF local, Calm, CtlSame, Keeps, CSTypeOK

\* updateCleanupStateLocked moves the lifecycle only, or finds a revocation pending and fails.
LEMMA UpdateCleanup ==
  ASSUME CSTypeOK, updateCleanupStateLocked
  PROVE  Calm \/ Fails
<1>1. CASE Pending # {}
  BY <1>1, MarkFails DEF updateCleanupStateLocked
<1>2. CASE Pending = {}
  <2> DEFINE l == IF ctl.failed THEN "cleanupFailed"
                  ELSE IF NoneHeld /\ windows = {} THEN "cleanupComplete"
                  ELSE IF ctl.disabled /\ windows # {} THEN "disabledReaderRetained" ELSE ctl.lifecycle
  <2>1. l \in Lifecycles
    BY TypeFacts DEF CtlType, Lifecycles
  <2>2. ctl' = [ctl EXCEPT !.lifecycle = l] /\ UNCHANGED <<work, seamVars>>
    BY <1>2 DEF updateCleanupStateLocked
  <2> HIDE DEF l
  <2>3. CtlSame
    BY <2>1, <2>2, TypeFacts DEF CtlSame, CtlType, Keeps
  <2> QED BY <2>2, <2>3, SameSeam DEF Calm
<1> QED BY <1>1, <1>2

-----------------------------------------------------------------------------
(* The inductive invariant.                                                 *)

\* Where the operation under opMu is, a revocation counted as what follows it.
Phase == IF At("op", "revoking") THEN thr["op"].then ELSE thr["op"].pc

\* The stretches of an operation, and where goroutines may be.
Creating == {"createReader", "createCollector", "authorize", "proveReader", "proveCollector", "grant"}
Rechecking == {"recheck", "open"}
Retiring == {"decide", "decideProve", "decideGrant"}
Reopening == {"decideCheck", "decideOpen"}
ClosingAll == {"fail", "closeCollector", "closeReader", "closeEnd"}
DisablingOp == {"disable", "disableCollector", "disableReader", "disableEnd"}
AtWindow == {"openWindow", "windowOpen", "closeWindow"}
Shut == Creating \cup Rechecking \cup Retiring \cup Reopening \cup ClosingAll \cup DisablingOp
        \cup {"retire"}
OpPlaces == Shut \cup AtWindow \cup {"idle", "expired", "mark"}
AfterRevoking == {"idle", "fail", "closeCollector", "closeWindow", "mark", "disable"}
WatcherClosing == {"wait", "closeCollector", "closeReader", "closeEnd"}
WorkerCalls == {"claim", "complete", "claimCommit", "completeCommit"}

\* Where each goroutine may be.
PlaceInv ==
  /\ thr["worker"].pc \in WorkerCalls \cup {"idle", "expired", "mark", "revoking"}
  /\ At("worker", "revoking") => thr["worker"].then \in {"idle", "mark"}
  /\ thr["worker"].pc \in WorkerCalls => thr["worker"].arg \in Works
  /\ thr["caller"].pc \in {"idle", "expired", "lost", "renew", "revoking"}
  /\ At("caller", "revoking") => thr["caller"].then \in {"idle", "lost"}
  /\ thr["watcher"].pc \in WatcherClosing \cup {"unarmed", "armed", "revoking", "lock", "done"}
  /\ At("watcher", "revoking") => thr["watcher"].then = "lock"

\* No goroutine waits under a fence that is still to come.
EpochInv == \A t \in Threads : thr[t].epoch <= ctl.epoch

\* What holds at each place of the operation under opMu.
PhaseInv ==
  /\ Phase \in OpPlaces
  /\ At("op", "revoking") => Phase \in AfterRevoking
  /\ Phase \in AtWindow => thr["op"].arg \in Windows
  /\ Phase \in Shut => ~ctl.open
  /\ Phase = "closeWindow" /\ windows = {thr["op"].arg} => ~ctl.open /\ ctl.permit = 0
  /\ Phase \in {"closeWindow", "retire"} => held["reader"]
  /\ Phase \in {"retire"} \cup Retiring => windows = {} /\ ctl.permit = 0
  /\ Phase \in Retiring \cup Reopening => ctl.retired
  /\ Phase \in {"decideProve", "decideGrant"} \cup Reopening => setup = "independent" /\ held["collector"]
  /\ Phase \in Creating => ctl.permit = 0 /\ ~ctl.retired
  /\ Phase \in Creating \cup Rechecking => ctl.started
  /\ Phase \in (Creating \cup Rechecking) \ {"createReader"} => held["reader"]
  /\ Phase \in {"authorize", "proveReader", "proveCollector", "grant"} \cup Rechecking => held["collector"]
  /\ Phase \in {"proveReader", "proveCollector", "grant"} => ~Authorized
  /\ Phase = "authorize" => Authorized

\* What admission rests on, and what a controller that was not started has.
LatchInv ==
  /\ ctl.failed => ctl.revoked
  /\ ctl.retired => ~held["reader"]
  /\ ~ctl.started => NoneHeld /\ ~ctl.retired /\ ctl.permit = 0 /\ ~ctl.open
  /\ ctl.open => /\ held["collector"] /\ ~ctl.failed /\ ~ctl.disabled /\ ~ctl.revoked
                 /\ ctl.retired => setup = "independent"
                 /\ ~ctl.retired => held["reader"]
  /\ windows # {} => held["reader"]

\* A permit is of the fence under which admission is, or is about to be, opened.
FencePermit(p) == ctl.epoch = thr["op"].epoch => ctl.permit = p /\ ctl.permitEpoch = ctl.epoch

\* Which permit is remembered, and where one may be remembered at all.
CurrentInv ==
  /\ Phase \in Rechecking /\ ~Authorized => FencePermit(1)
  /\ Phase \in Reopening => FencePermit(2)
  /\ ctl.open /\ ~Authorized => ctl.permit # 0 /\ ctl.permitEpoch = ctl.epoch
  /\ ctl.permit # 0 => ctl.open \/ ctl.failed \/ Phase \in Rechecking \cup Reopening \cup {"fail"}

\* A permit that may still be asked for was not granted before.
FreshInv ==
  /\ ~ctl.started \/ Phase \in Creating => granted[1] = "none" /\ granted[2] = "none"
  /\ Phase \in Retiring \/ ~ctl.retired => granted[2] = "none"

\* After a cleanup of the watcher that did not fail there is nothing to operate on.
DoneInv == At("watcher", "done") /\ ~ctl.failed =>
             NoneHeld /\ ctl.permit = 0 /\ Phase \in {"idle"} \cup DisablingOp

\* The operation under opMu, and what admission rests on.
OpInv == PhaseInv /\ LatchInv /\ CurrentInv /\ FreshInv /\ DoneInv

\* A permit is in one place: remembered, or in the hands of one goroutine.
PermitInv ==
  /\ ctl.permit # 0 => /\ granted[ctl.permit] = "granted"
                       /\ \A t \in Threads : At(t, "revoking") => thr[t].permit # ctl.permit
  /\ \A t \in Threads : At(t, "revoking") =>
       /\ thr[t].permit # 0 /\ granted[thr[t].permit] = "granted"
       /\ \A s \in Threads : At(s, "revoking") /\ thr[s].permit = thr[t].permit => s = t

\* The watcher: opMu excludes the operations, and what it closed stays closed.
WatcherInv ==
  /\ thr["watcher"].pc \in WatcherClosing => At("op", "idle")
  /\ thr["watcher"].pc \notin {"unarmed", "armed"} => parent = "cancelled" /\ ~ctl.open
  /\ \A r \in Roles : OwnerCurrent(r) => held[r]
  /\ At("watcher", "closeReader") /\ ~thr["watcher"].flag => ~held["collector"]
  /\ At("watcher", "closeEnd") /\ ~thr["watcher"].flag => NoneHeld
  /\ At("watcher", "done") /\ ~ctl.failed => \A t \in Threads : ~At(t, "revoking")

\* An owner the port has is remembered, whatever its identity, unless the cleanup
\* failed or its creation was reported as failed.
OwnerInv == \A r \in Roles : owner[r] \in {"none", "stranded"} \/ held[r] \/ ctl.failed

\* The inductive invariant.
CSInv == /\ CSTypeOK /\ PlaceInv /\ EpochInv /\ OpInv /\ PermitInv /\ PermitTracked
         /\ WatcherInv /\ ActiveAdmitted /\ SinksAgree

-----------------------------------------------------------------------------
(* What a step keeps, by what it does to permits, work and types.           *)

\* A step of goroutine t leaves permits alone; takes the controller's into a
\* revocation; has one granted; or ends the one it revoked.
PermitStep(t) ==
  \/ /\ ctl'.permit = ctl.permit /\ UNCHANGED granted
     /\ ~At(t, "revoking") /\ thr'[t].pc # "revoking"
  \/ /\ ctl'.permit = 0 /\ UNCHANGED granted /\ ~At(t, "revoking")
     /\ IF ctl.permit # 0 THEN thr'[t].pc = "revoking" /\ thr'[t].permit = ctl.permit
                          ELSE thr'[t].pc # "revoking"
  \/ /\ \E p \in Permits : /\ ctl.permit = 0 /\ ctl'.permit = p /\ granted[p] = "none"
                           /\ granted' = [granted EXCEPT ![p] = "granted"]
     /\ ~At(t, "revoking") /\ thr'[t].pc # "revoking"
  \/ /\ ctl'.permit = ctl.permit /\ granted' = [granted EXCEPT ![thr[t].permit] = "ended"]
     /\ At(t, "revoking") /\ thr'[t].pc # "revoking"

\* Permits of the controller, the port and the goroutines.
LEMMA PermitType ==
  ASSUME CSTypeOK
  PROVE  /\ ctl.permit \in {0} \cup Permits
         /\ granted \in [Permits -> {"none", "granted", "ended"}]
         /\ \A t \in Threads : thr[t].permit \in {0} \cup Permits
BY TypeFacts DEF CSTypeOK, CtlType, ThreadType

\* Whichever of the four a step does, no permit is lost and none is in two places.
LEMMA PermitKept ==
  ASSUME CSTypeOK, PermitInv, PermitTracked, NEW t \in Threads, Moves(t), PermitStep(t)
  PROVE  /\ PermitInv' /\ PermitTracked'
         /\ granted' \in [Permits -> {"none", "granted", "ended"}]
<1> USE PermitType DEF PermitInv, PermitTracked, Moves, At, Pending
<1>1. CASE /\ ctl'.permit = ctl.permit /\ UNCHANGED granted
           /\ ~At(t, "revoking") /\ thr'[t].pc # "revoking"
  BY <1>1
<1>2. CASE /\ ctl'.permit = 0 /\ UNCHANGED granted /\ ~At(t, "revoking")
           /\ IF ctl.permit # 0 THEN thr'[t].pc = "revoking" /\ thr'[t].permit = ctl.permit
                                ELSE thr'[t].pc # "revoking"
  BY <1>2
<1>3. ASSUME NEW p \in Permits, ctl.permit = 0, ctl'.permit = p, granted[p] = "none",
             granted' = [granted EXCEPT ![p] = "granted"], ~At(t, "revoking"), thr'[t].pc # "revoking"
      PROVE  /\ PermitInv' /\ PermitTracked'
             /\ granted' \in [Permits -> {"none", "granted", "ended"}]
  BY <1>3 DEF Permits
<1>4. CASE /\ ctl'.permit = ctl.permit /\ granted' = [granted EXCEPT ![thr[t].permit] = "ended"]
           /\ At(t, "revoking") /\ thr'[t].pc # "revoking"
  BY <1>4
<1> QED BY <1>1, <1>2, <1>3, <1>4 DEF PermitStep

\* Work ends with admission, or both stay.
WorkStep == (WorkEnds /\ ~ctl'.open) \/ (UNCHANGED work /\ (ctl.open => ctl'.open))

\* Closing admission ends the active work, and completes none.
LEMMA WorkKept ==
  ASSUME CSTypeOK, ActiveAdmitted, SinksAgree, WorkStep, SeamEnds, UNCHANGED <<setup, sink>>
  PROVE  ActiveAdmitted' /\ SinksAgree' /\ work' \in [Works -> WorkStates]
<1>1. work \in [Works -> WorkStates]
  BY DEF CSTypeOK
<1>2. CASE WorkEnds /\ ~ctl'.open
  BY <1>1, <1>2 DEF WorkEnds, ActiveAdmitted, SinksAgree, SeamEnds, Authorized
<1>3. CASE UNCHANGED work /\ (ctl.open => ctl'.open)
  BY <1>1, <1>3 DEF ActiveAdmitted, SinksAgree, SeamEnds, Authorized
<1> QED BY <1>2, <1>3 DEF WorkStep

-----------------------------------------------------------------------------
(* Steps of the operation under opMu.                                       *)

\* What every such step leaves to others or keeps in its type.
OpFrame ==
  /\ Moves("op") /\ PermitStep("op") /\ WorkStep /\ SeamEnds
  /\ UNCHANGED <<setup, parent, sink, issued>>
  /\ ctl' \in CtlType /\ ctl.epoch <= ctl'.epoch /\ thr'["op"].epoch <= ctl'.epoch
  /\ held' \in [Roles -> BOOLEAN] /\ windows' \subseteq Windows /\ fresh' \in BOOLEAN
  /\ owner' \in [Roles -> {"none", "current", "other", "clash", "stranded"}]
  /\ \A r \in Roles : owner'[r] = "current" => held'[r]
  /\ (ctl'.open => ctl.open \/ parent = "alive") /\ (ctl.failed => ctl'.failed)

\* An operation that is under way excludes the watcher's cleanup, and is over
\* when the watcher is done, unless it is a disabling or the cleanup failed.
LEMMA OpKept ==
  ASSUME CSInv, OpFrame, ~At("op", "idle") \/ OpFree, OpInv'
  PROVE  CSInv'
<1>1. thr'["watcher"] = thr["watcher"] /\ thr'["worker"] = thr["worker"] /\ thr'["caller"] = thr["caller"]
  BY DEF OpFrame, Moves, Threads
<1>2. PermitInv' /\ PermitTracked' /\ granted' \in [Permits -> {"none", "granted", "ended"}]
  BY PermitKept DEF OpFrame, CSInv, Threads
<1>3. ActiveAdmitted' /\ SinksAgree' /\ work' \in [Works -> WorkStates]
  BY WorkKept DEF OpFrame, CSInv
<1>4. CSTypeOK'
  BY <1>2, <1>3 DEF CSInv, CSTypeOK, OpFrame, CtlType, ThreadType, Moves, SeamEnds
<1>5. PlaceInv'
  BY <1>1 DEF CSInv, PlaceInv, At
<1>6. EpochInv'
  <2>1. ctl.epoch \in Nat /\ ctl'.epoch \in Nat /\ \A t \in Threads : thr[t].epoch \in Nat
    BY TypeFacts DEF CSInv, OpFrame, CtlType, ThreadType
  <2> QED BY <2>1 DEF CSInv, EpochInv, OpFrame, Moves
<1>7. WatcherInv'
  <2>1. thr["watcher"].pc \notin WatcherClosing
    BY DEF CSInv, WatcherInv, OpFree, WatcherClosing
  <2>2. ASSUME At("watcher", "done"), ~ctl'.failed
        PROVE  \A t \in Threads : thr'[t].pc # "revoking"
    <3>1. ~ctl.failed /\ ctl.permit = 0 /\ \A t \in Threads : ~At(t, "revoking")
      BY <2>2 DEF OpFrame, CSInv, WatcherInv, OpInv, DoneInv
    <3>2. ctl'.permit = 0
      BY <1>1, <2>2 DEF OpInv, DoneInv, At
    <3>3. thr'["op"].pc # "revoking"
      BY <3>1, <3>2 DEF OpFrame, PermitStep, Permits
    <3> QED BY <3>1, <3>3 DEF OpFrame, Moves, At
  <2>3. \A r \in Roles : OwnerCurrent(r)' => held'[r]
    BY DEF OpFrame, OwnerCurrent
  <2> QED BY <1>1, <2>1, <2>2, <2>3 DEF CSInv, WatcherInv, OpFrame, At, WatcherClosing
<1> QED BY <1>2, <1>3, <1>4, <1>5, <1>6, <1>7 DEF CSInv

\* Owners, windows and proofs keep their types; a current owner is held.
PortsKept == /\ held' \in [Roles -> BOOLEAN] /\ windows' \subseteq Windows /\ fresh' \in BOOLEAN
             /\ owner' \in [Roles -> {"none", "current", "other", "clash", "stranded"}]
             /\ \A r \in Roles : owner'[r] = "current" => held'[r]

\* Ports that a step leaves alone keep agreeing with the controller.
LEMMA PortsSame ==
  ASSUME CSInv, UNCHANGED <<held, owner>>, windows' \subseteq Windows, fresh' \in BOOLEAN
  PROVE  PortsKept
BY DEF CSInv, CSTypeOK, WatcherInv, OwnerCurrent, PortsKept

\* An operation goes to another place, or closes admission, and asks for no permit.
LEMMA OpMoves ==
  ASSUME CSInv, PortsKept, ~At("op", "revoking"),
         UNCHANGED <<setup, parent, sink, issued, granted>>,
         \/ /\ Calm \/ Fails
            /\ Moves("op") /\ thr'["op"].pc # "revoking" /\ thr'["op"].epoch <= ctl.epoch
         \/ \E then \in Places : Closes("op", then)
  PROVE  OpFrame
<1>1. ctl.epoch \in Nat /\ CSTypeOK
  BY TypeFacts DEF CSInv, CtlType
<1>2. CASE /\ Calm \/ Fails
           /\ Moves("op") /\ thr'["op"].pc # "revoking" /\ thr'["op"].epoch <= ctl.epoch
  <2>1. thr'["op"].epoch \in Nat
    BY <1>2 DEF Moves, ThreadType, Threads
  <2>2. ctl' \in CtlType /\ SeamEnds /\ ctl.epoch <= ctl'.epoch /\ thr'["op"].epoch <= ctl'.epoch
    BY <1>1, <1>2, <2>1 DEF Calm, Fails, CtlSame, CtlFailed
  <2>3. WorkStep /\ (ctl'.open => ctl.open) /\ (ctl.failed => ctl'.failed) /\ ctl'.permit = ctl.permit
    BY <1>2 DEF Calm, Fails, CtlSame, CtlFailed, WorkStep
  <2>4. PermitStep("op")
    BY <1>2, <2>3 DEF PermitStep
  <2> QED BY <1>2, <2>2, <2>3, <2>4 DEF OpFrame, PortsKept
<1>3. CASE \E then \in Places : Closes("op", then)
  <2>1. PICK then \in Places : Closes("op", then)
    BY <1>3
  <2>2. ctl' \in CtlType /\ SeamEnds /\ ctl.epoch <= ctl'.epoch /\ thr'["op"].epoch <= ctl'.epoch
    BY <1>1, <2>1 DEF Closes, CtlInvalid
  <2>3. WorkStep /\ ~ctl'.open /\ (ctl.failed => ctl'.failed)
    BY <2>1 DEF Closes, CtlInvalid, WorkStep
  <2>4. PermitStep("op") /\ Moves("op")
    BY <2>1 DEF PermitStep, Closes, CtlInvalid
  <2> QED BY <2>2, <2>3, <2>4 DEF OpFrame, PortsKept
<1> QED BY <1>2, <1>3

\* The fence of the operation is not ahead of the controller's.
LEMMA OpEpoch ==
  ASSUME CSInv
  PROVE  /\ CSTypeOK /\ OpInv /\ "op" \in Threads /\ ctl.epoch \in Nat /\ thr["op"].epoch \in Nat
         /\ 0 <= ctl.epoch /\ thr["op"].epoch <= ctl.epoch /\ fresh \in BOOLEAN /\ windows \subseteq Windows
BY TypeFacts DEF CSInv, CSTypeOK, EpochInv, Threads, CtlType, ThreadType

\* A permit the port granted is remembered.
LEMMA RememberEffect ==
  ASSUME CSTypeOK, NEW p \in Permits, rememberPermit(p, thr["op"].epoch)
  PROVE  /\ ctl' \in CtlType /\ Keeps
         /\ ctl'.open = ctl.open /\ ctl'.epoch = ctl.epoch /\ ctl'.revoked = ctl.revoked
         /\ ctl'.failed = ctl.failed /\ ctl'.permit = p /\ ctl'.permitEpoch = thr["op"].epoch
         /\ granted' = [granted EXCEPT ![p] = "granted"]
<1>1. thr["op"].epoch \in Nat
  BY TypeFacts DEF ThreadType, Threads
<1> QED BY <1>1, TypeFacts DEF rememberPermit, Keeps, CtlType

\* Owners are created, closed or left by these steps only.
LEMMA OwnerTypes ==
  ASSUME CSInv
  PROVE  /\ held \in [Roles -> BOOLEAN] /\ owner \in [Roles -> {"none", "current", "other", "clash", "stranded"}]
         /\ \A r \in Roles : owner[r] = "current" => held[r]
BY DEF CSInv, CSTypeOK, WatcherInv, OwnerCurrent

\* Startup.
LEMMA CreateStep ==
  ASSUME CSInv, NEW r \in Roles, CreateOwner(r)
  PROVE  CSInv'
<1> USE DEF OpInv, PhaseInv, LatchInv, CurrentInv, FencePermit, FreshInv, DoneInv, NoneHeld, Roles,
            OpPlaces, Creating, Rechecking, Retiring, Reopening, ClosingAll, DisablingOp, AtWindow,
            Shut, AfterRevoking
<1>0. CSTypeOK /\ OpInv /\ "op" \in Threads
  BY OpEpoch
<1>1. /\ IF r = "reader" THEN Phase = "createReader" ELSE Phase = "createCollector"
      /\ UNCHANGED <<setup, windows, fresh, sink, issued, granted, parent>>
      /\ ~At("op", "idle") /\ ~At("op", "revoking")
  BY DEF CreateOwner, Phase, At
<1>2. /\ held' \in [Roles -> BOOLEAN] /\ owner' \in [Roles -> {"none", "current", "other", "clash", "stranded"}]
      /\ \A q \in Roles : owner'[q] = "current" => held'[q]
      /\ \A q \in Roles : held[q] => held'[q]
      /\ \A q \in Roles \ {r} : held'[q] = held[q]
  <2>1. /\ \E o \in {"none", "current", "other", "clash", "stranded"} : owner' = [owner EXCEPT ![r] = o]
        /\ held' = held \/ held' = [held EXCEPT ![r] = TRUE]
        /\ owner'[r] = "current" => held' = [held EXCEPT ![r] = TRUE]
    BY OwnerTypes DEF CreateOwner
  <2>2. /\ owner' \in [Roles -> {"none", "current", "other", "clash", "stranded"}]
        /\ \A q \in Roles \ {r} : owner'[q] = owner[q]
    BY <2>1, OwnerTypes
  <2>3. /\ held' \in [Roles -> BOOLEAN] /\ \A q \in Roles : held[q] => held'[q]
        /\ \A q \in Roles \ {r} : held'[q] = held[q]
        /\ owner'[r] = "current" => held'[r]
    BY <2>1, OwnerTypes
  <2> QED BY <2>2, <2>3, OwnerTypes
<1>3. \/ (Calm \/ Fails) /\ To("op", "fail", 0, "none")
      \/ Calm /\ held'[r] /\ r = "reader" /\ To("op", "createCollector", thr["op"].epoch, thr["op"].arg)
      \/ /\ Calm /\ held'[r] /\ r = "collector" /\ Authorized
         /\ To("op", "authorize", thr["op"].epoch, thr["op"].arg)
      \/ /\ Calm /\ held'[r] /\ r = "collector" /\ ~Authorized
         /\ To("op", "proveReader", thr["op"].epoch, thr["op"].arg)
  <2>1. CASE /\ held' = [held EXCEPT ![r] = TRUE] /\ FenceHeld("op") /\ Goto("op", AfterCreate(r))
             /\ UNCHANGED local
    <3>1. held'[r]
      BY <2>1, OwnerTypes
    <3> QED BY <1>0, <2>1, <3>1, GotoTo, LocalCalm DEF AfterCreate, Places
  <2>2. CASE Enter("op", "fail") /\ (UNCHANGED local \/ markCleanupFailedLocked)
    BY <1>0, <2>2, EnterTo, LocalCalm, MarkFails DEF Places
  <2> QED BY <2>1, <2>2 DEF CreateOwner
<1>4. OpFrame
  BY <1>1, <1>2, <1>3, OpMoves, OpEpoch DEF PortsKept, To
<1>5. OpInv'
  BY <1>0, <1>1, <1>2, <1>3 DEF Calm, Fails, CtlSame, CtlFailed, Keeps, To, Phase, At, Moves, Threads, Authorized
<1> QED BY <1>1, <1>4, <1>5, OpKept

\* The rest of the startup: proofs, the permit, the authority, the opening.
LEMMA StartupSteps ==
  ASSUME CSInv, Startup
  PROVE  CSInv'
<1> USE DEF OpInv, PhaseInv, LatchInv, CurrentInv, FencePermit, FreshInv, DoneInv, NoneHeld, Roles,
            OpPlaces, Creating, Rechecking, Retiring, Reopening, ClosingAll, DisablingOp, AtWindow,
            Shut, AfterRevoking
<1> DEFINE View == <<setup, held, windows, parent, sink, issued, owner>>
<1>0. CSTypeOK /\ OpInv /\ "op" \in Threads
  BY OpEpoch
<1>1. CASE prove("reader") \/ prove("collector")
  <2>1. /\ Phase \in {"proveReader", "proveCollector"} /\ UNCHANGED <<View, granted, fresh>>
        /\ ~At("op", "idle") /\ ~At("op", "revoking")
    BY <1>1 DEF prove, Phase, At, ports
  <2>2. Calm /\ \/ To("op", "fail", 0, "none")
                \/ Phase = "proveReader" /\ To("op", "proveCollector", thr["op"].epoch, thr["op"].arg)
                \/ Phase = "proveCollector" /\ To("op", "grant", thr["op"].epoch, thr["op"].arg)
    BY <1>0, <1>1, EnterTo, GotoTo, LocalCalm DEF prove, Places, Phase, At
  <2>3. OpFrame
    BY <2>1, <2>2, OpMoves, PortsSame, OpEpoch DEF To
  <2>4. OpInv'
    BY <1>0, <2>1, <2>2 DEF Calm, CtlSame, Keeps, To, Phase, At, Moves, Threads, Authorized
  <2> QED BY <2>1, <2>3, <2>4, OpKept
<1>2. CASE Grant
  <2>1. /\ Phase = "grant" /\ UNCHANGED <<View, fresh, work, seamVars>>
        /\ ~At("op", "idle") /\ ~At("op", "revoking")
    BY <1>2 DEF Grant, Phase, At
  <2>2. CASE rememberPermit(1, thr["op"].epoch) /\ (Goto("op", "recheck") \/ Enter("op", "fail"))
    <3>1. 1 \in Permits /\ 2 \in Permits
      BY DEF Permits
    <3>2. /\ ctl' \in CtlType /\ Keeps
          /\ ctl'.open = ctl.open /\ ctl'.epoch = ctl.epoch /\ ctl'.revoked = ctl.revoked
          /\ ctl'.failed = ctl.failed /\ ctl'.permit = 1 /\ ctl'.permitEpoch = thr["op"].epoch
          /\ granted' = [granted EXCEPT ![1] = "granted"]
      BY <1>0, <2>2, <3>1, RememberEffect
    <3>3. To("op", "recheck", thr["op"].epoch, thr["op"].arg) \/ To("op", "fail", 0, "none")
      BY <1>0, <2>2, EnterTo, GotoTo DEF Places
    <3>4. granted'[2] = granted[2]
      BY <3>1, <3>2, <1>0, PermitType
    <3>5. PermitStep("op")
      BY <1>0, <2>1, <3>1, <3>2, <3>3 DEF PermitStep, To
    <3>6. WorkStep /\ SeamEnds /\ PortsKept
      BY <1>0, <2>1, <3>2, SameSeam, PortsSame, OpEpoch DEF WorkStep
    <3>7. OpFrame
      BY <2>1, <3>2, <3>3, <3>5, <3>6, OpEpoch DEF OpFrame, PortsKept, To
    <3>8. OpInv'
      BY <1>0, <2>1, <3>2, <3>3, <3>4 DEF Keeps, To, Phase, At, Moves, Threads, Authorized
    <3> QED BY <2>1, <3>7, <3>8, OpKept
  <2>3. CASE Enter("op", "fail") /\ UNCHANGED <<granted, ctl>>
    <3>1. Calm /\ To("op", "fail", 0, "none")
      BY <1>0, <2>1, <2>3, EnterTo, LocalCalm DEF Places, local
    <3>2. OpFrame
      BY <2>1, <2>3, <3>1, OpMoves, PortsSame, OpEpoch DEF To
    <3>3. OpInv'
      BY <1>0, <2>1, <2>3, <3>1 DEF Calm, CtlSame, Keeps, To, Phase, At, Moves, Threads, Authorized
    <3> QED BY <2>1, <3>2, <3>3, OpKept
  <2> QED BY <1>2, <2>2, <2>3 DEF Grant
<1>3. CASE Authorize
  <2>1. /\ Phase = "authorize" /\ UNCHANGED <<View, granted, fresh, ctl, work>>
        /\ ~At("op", "idle") /\ ~At("op", "revoking")
    BY <1>3 DEF Authorize, Phase, At, ports
  <2>2. SeamEnds
    BY <1>0, <1>3, SameSeam DEF Authorize, Seam!Authorize, SeamEnds, Seam!SeamTypeOK, CSTypeOK
  <2>3. Calm /\ (To("op", "recheck", thr["op"].epoch, thr["op"].arg) \/ To("op", "fail", 0, "none"))
    BY <1>0, <1>3, <2>1, <2>2, EnterTo, GotoTo, TypeFacts DEF Authorize, Places, Calm, CtlSame, Keeps
  <2>4. OpFrame
    BY <2>1, <2>3, OpMoves, PortsSame, OpEpoch DEF To
  <2>5. OpInv'
    BY <1>0, <2>1, <2>3 DEF Calm, CtlSame, Keeps, To, Phase, At, Moves, Threads, Authorized
  <2> QED BY <2>1, <2>4, <2>5, OpKept
<1>4. CASE RecheckOwners
  <2>1. /\ Phase = "recheck" /\ UNCHANGED <<View, granted, fresh>>
        /\ ~At("op", "idle") /\ ~At("op", "revoking")
    BY <1>4 DEF RecheckOwners, Phase, At, ports
  <2>2. Calm /\ (To("op", "open", thr["op"].epoch, thr["op"].arg) \/ To("op", "fail", 0, "none"))
    BY <1>0, <1>4, EnterTo, GotoTo, LocalCalm DEF RecheckOwners, Places
  <2>3. OpFrame
    BY <2>1, <2>2, OpMoves, PortsSame, OpEpoch DEF To
  <2>4. OpInv'
    BY <1>0, <2>1, <2>2 DEF Calm, CtlSame, Keeps, To, Phase, At, Moves, Threads, Authorized
  <2> QED BY <2>1, <2>3, <2>4, OpKept
<1>5. CASE OpenAdmission
  <2>1. /\ Phase = "open" /\ UNCHANGED <<View, granted>> /\ fresh' \in BOOLEAN
        /\ ~At("op", "idle") /\ ~At("op", "revoking")
    BY <1>5, OpEpoch DEF OpenAdmission, Phase, At, ports, Authorized
  <2>2. CASE /\ FenceHeld("op") /\ ctl' = [ctl EXCEPT !.open = TRUE, !.lifecycle = "running"]
             /\ Return("op") /\ UNCHANGED <<work, seamVars>>
    <3>1. /\ ctl' \in CtlType /\ Keeps /\ ctl'.open
          /\ ctl'.epoch = ctl.epoch /\ ctl'.revoked = ctl.revoked /\ ctl'.failed = ctl.failed
          /\ ctl'.permit = ctl.permit /\ ctl'.permitEpoch = ctl.permitEpoch
      BY <1>0, <2>2, TypeFacts DEF CtlType, Keeps, Lifecycles
    <3>2. To("op", "idle", 0, "none")
      BY <1>0, <2>2, ReturnTo
    <3>3. ctl.epoch = thr["op"].epoch /\ ~ctl.revoked /\ ~ctl.disabled /\ parent = "alive"
      BY <2>2 DEF FenceHeld
    <3>4. WorkStep /\ SeamEnds /\ PortsKept /\ PermitStep("op")
      BY <1>0, <2>1, <2>2, <3>1, <3>2, SameSeam, PortsSame, OpEpoch DEF WorkStep, PermitStep, To
    <3>5. OpFrame
      BY <2>1, <3>1, <3>2, <3>3, <3>4, OpEpoch DEF OpFrame, PortsKept, To
    <3>6. thr["watcher"].pc # "done"
      BY <3>3 DEF CSInv, WatcherInv
    <3>7. OpInv'
      BY <1>0, <2>1, <3>1, <3>2, <3>3, <3>6 DEF Keeps, To, Phase, At, Moves, Threads, Authorized
    <3> QED BY <2>1, <3>5, <3>7, OpKept
  <2>3. CASE (Enter("op", "fail") /\ UNCHANGED local) \/ invalidate("op", "fail")
    <3>1. (Calm /\ To("op", "fail", 0, "none")) \/ Closes("op", "fail")
      BY <1>0, <2>3, EnterTo, LocalCalm, InvalidateCloses DEF Places
    <3>2. OpFrame
      BY <2>1, <3>1, OpMoves, PortsSame, OpEpoch DEF To, Places
    <3>3. OpInv'
      BY <1>0, <2>1, <3>1 DEF Calm, CtlSame, Keeps, To, Closes, CtlInvalid, Phase, At, Moves, Threads, Authorized
    <3> QED BY <2>1, <3>2, <3>3, OpKept
  <2> QED BY <1>5, <2>2, <2>3 DEF OpenAdmission
<1>6. CASE failStart
  <2>1. /\ Phase = "fail" /\ UNCHANGED <<View, granted, fresh>>
        /\ ~At("op", "idle") /\ ~At("op", "revoking")
    BY <1>6 DEF failStart, Phase, At, ports
  <2>2. Closes("op", "closeCollector")
    BY <1>0, <1>6, InvalidateCloses DEF failStart, Places
  <2>3. OpFrame
    BY <2>1, <2>2, OpMoves, PortsSame, OpEpoch DEF Places
  <2>4. OpInv'
    BY <1>0, <2>1, <2>2 DEF Closes, CtlInvalid, Keeps, Phase, At, Moves, Threads, Authorized
  <2> QED BY <2>1, <2>3, <2>4, OpKept
<1> QED BY <1>1, <1>2, <1>3, <1>4, <1>5, <1>6, CreateStep DEF Startup

\* Closing a role: what the port does to the owner, and what the controller then
\* forgets.
LEMMA ClosedPorts ==
  ASSUME CSInv, NEW r \in Roles, UNCHANGED fresh, windows' \subseteq Windows,
         \/ ClosedRole(r) /\ held' = [held EXCEPT ![r] = FALSE]
         \/ UnclosedRole(r) /\ UNCHANGED held
  PROVE  /\ PortsKept
         /\ \A q \in Roles \ {r} : held'[q] = held[q]
         /\ held'[r] => held[r]
BY OwnerTypes, OpEpoch DEF ClosedRole, UnclosedRole, OwnerCurrent, PortsKept

\* A reader that was closed is retired.
LEMMA RetireEffect ==
  ASSUME CSTypeOK, RetireReader
  PROVE  /\ ctl' \in CtlType /\ ctl'.started = ctl.started /\ ctl'.disabled = ctl.disabled /\ ctl'.retired
         /\ ctl'.open = ctl.open /\ ctl'.permit = ctl.permit /\ ctl'.permitEpoch = ctl.permitEpoch
         /\ ctl'.epoch = ctl.epoch /\ ctl'.revoked = ctl.revoked /\ ctl'.failed = ctl.failed
         /\ held' = [held EXCEPT !["reader"] = FALSE]
BY TypeFacts DEF RetireReader, CtlType

\* An operation that changes ctl in no field a permit or the work depends on.
LEMMA OpSets ==
  ASSUME CSInv, PortsKept, ~At("op", "revoking"),
         UNCHANGED <<setup, parent, sink, issued, granted, work, seamVars>>,
         ctl' \in CtlType, ctl'.open = ctl.open, ctl'.permit = ctl.permit, ctl'.epoch = ctl.epoch,
         ctl'.failed = ctl.failed,
         Moves("op"), thr'["op"].pc # "revoking", thr'["op"].epoch <= ctl.epoch
  PROVE  OpFrame
<1>1. WorkStep /\ SeamEnds /\ PermitStep("op")
  BY OpEpoch, SameSeam DEF WorkStep, PermitStep
<1> QED BY <1>1, OpEpoch DEF OpFrame, PortsKept

\* Windows, the retirement of the reader, and the collector that goes on alone.
LEMMA ReaderStep ==
  ASSUME CSInv, ReaderSteps
  PROVE  CSInv'
<1> USE DEF OpInv, PhaseInv, LatchInv, CurrentInv, FencePermit, FreshInv, DoneInv, NoneHeld, Roles,
            OpPlaces, Creating, Rechecking, Retiring, Reopening, ClosingAll, DisablingOp, AtWindow,
            Shut, AfterRevoking
<1>0. CSTypeOK /\ OpInv /\ "op" \in Threads
  BY OpEpoch
<1>1. CASE CheckReader
  <2>1. /\ Phase = "openWindow" /\ UNCHANGED <<setup, held, windows, parent, sink, issued, owner, granted, fresh>>
        /\ ~At("op", "idle") /\ ~At("op", "revoking")
    BY <1>1 DEF CheckReader, Phase, At, ports
  <2>2. \/ Calm /\ To("op", "windowOpen", thr["op"].epoch, thr["op"].arg)
        \/ Closes("op", "mark")
    BY <1>0, <1>1, GotoTo, LocalCalm, InvalidateCloses DEF CheckReader, Places
  <2>3. OpFrame
    BY <2>1, <2>2, OpMoves, PortsSame, OpEpoch DEF To, Places
  <2>4. OpInv'
    BY <1>0, <2>1, <2>2 DEF Calm, Fails, CtlSame, CtlFailed, Closes, CtlInvalid, Keeps, To, Phase, At, Moves, Threads, Authorized
  <2> QED BY <2>1, <2>3, <2>4, OpKept
<1>2. CASE WindowOpened
  <2>1. /\ Phase = "windowOpen" /\ UNCHANGED <<setup, held, parent, sink, issued, owner, granted, fresh>>
        /\ ~At("op", "idle") /\ ~At("op", "revoking")
    BY <1>2 DEF WindowOpened, Phase, At, ports
  <2>2. \/ Calm /\ To("op", "idle", 0, "none") /\ windows' = windows
        \/ Calm /\ To("op", "idle", 0, "none") /\ windows' = windows \cup {thr["op"].arg} /\ held["reader"]
        \/ Closes("op", "idle") /\ windows' = windows
    BY <1>0, <1>2, ReturnTo, LocalCalm, InvalidateCloses DEF WindowOpened, Places
  <2>3. windows' \subseteq Windows
    BY <1>0, <2>1, <2>2, OpEpoch
  <2>4. OpFrame
    BY <2>1, <2>2, <2>3, OpMoves, PortsSame, OpEpoch DEF To, Places
  <2>5. OpInv'
    BY <1>0, <2>1, <2>2 DEF Calm, CtlSame, Closes, CtlInvalid, Keeps, To, Phase, At, Moves, Threads, Authorized
  <2> QED BY <2>1, <2>4, <2>5, OpKept
<1>3. CASE WindowClosed
  <2>1. /\ Phase = "closeWindow" /\ UNCHANGED <<setup, held, parent, sink, issued, owner, granted, fresh>>
        /\ ~At("op", "idle") /\ ~At("op", "revoking")
    BY <1>3 DEF WindowClosed, Phase, At, ports
  <2>2. \/ Calm /\ To("op", "idle", 0, "none") /\ (windows' = windows \/ windows' = windows \ {thr["op"].arg})
        \/ Calm /\ To("op", "retire", 0, "none") /\ windows = {thr["op"].arg} /\ windows' = {}
        \/ Closes("op", "idle") /\ windows' = windows \ {thr["op"].arg}
    BY <1>0, <1>3, EnterTo, ReturnTo, LocalCalm, InvalidateCloses DEF WindowClosed, Places
  <2>3. windows' \subseteq Windows
    BY <2>2, OpEpoch
  <2>4. OpFrame
    BY <2>1, <2>2, <2>3, OpMoves, PortsSame, OpEpoch DEF To, Places
  <2>5. OpInv'
    BY <1>0, <2>1, <2>2 DEF Calm, CtlSame, Closes, CtlInvalid, Keeps, To, Phase, At, Moves, Threads, Authorized
  <2> QED BY <2>1, <2>4, <2>5, OpKept
<1>4. CASE ReaderRetires
  <2>1. /\ Phase = "retire" /\ UNCHANGED <<setup, windows, parent, sink, issued, granted, fresh>>
        /\ ~At("op", "idle") /\ ~At("op", "revoking")
    BY <1>4 DEF ReaderRetires, Phase, At
  <2>2. CASE ClosedRole("reader") /\ RetireReader /\ Goto("op", "decide") /\ UNCHANGED <<work, seamVars>>
    <3>1. To("op", "decide", thr["op"].epoch, thr["op"].arg)
      BY <1>0, <2>2, GotoTo DEF Places
    <3>2. /\ ctl' \in CtlType /\ ctl'.started = ctl.started /\ ctl'.disabled = ctl.disabled /\ ctl'.retired
          /\ ctl'.open = ctl.open /\ ctl'.permit = ctl.permit /\ ctl'.permitEpoch = ctl.permitEpoch
          /\ ctl'.epoch = ctl.epoch /\ ctl'.revoked = ctl.revoked /\ ctl'.failed = ctl.failed
          /\ held' = [held EXCEPT !["reader"] = FALSE]
      BY <1>0, <2>2, RetireEffect
    <3>3. PortsKept /\ held'["collector"] = held["collector"] /\ ~held'["reader"]
      BY <2>1, <2>2, <3>2, ClosedPorts, OwnerTypes, OpEpoch
    <3>4. OpFrame
      BY <2>1, <2>2, <3>1, <3>2, <3>3, OpSets, OpEpoch DEF To
    <3>5. OpInv'
      BY <1>0, <2>1, <3>1, <3>2, <3>3 DEF To, Phase, At, Moves, Threads, Authorized
    <3> QED BY <2>1, <3>4, <3>5, OpKept
  <2>3. CASE UnclosedRole("reader") /\ invalidate("op", "idle") /\ UNCHANGED held
    <3>1. Closes("op", "idle")
      BY <1>0, <2>3, InvalidateCloses DEF Places
    <3>2. OpFrame
      BY <2>1, <2>3, <3>1, OpMoves, ClosedPorts, OpEpoch DEF Places
    <3>3. OpInv'
      BY <1>0, <2>1, <2>3, <3>1 DEF Closes, CtlInvalid, Keeps, Phase, At, Moves, Threads, Authorized
    <3> QED BY <2>1, <3>2, <3>3, OpKept
  <2> QED BY <1>4, <2>2, <2>3 DEF ReaderRetires
<1>5. CASE readerRetiredDecision
  <2>1. /\ Phase = "decide" /\ UNCHANGED <<setup, held, windows, parent, sink, issued, owner, granted, fresh>>
        /\ ~At("op", "idle") /\ ~At("op", "revoking")
    BY <1>5 DEF readerRetiredDecision, Phase, At, ports
  <2>2. \/ (Calm \/ Fails) /\ To("op", "idle", 0, "none")
        \/ Closes("op", "idle")
        \/ /\ Calm /\ To("op", "decideProve", ctl.epoch, "none")
           /\ setup = "independent" /\ held["collector"]
    <3>1. CASE Return("op") /\ (UNCHANGED local \/ updateCleanupStateLocked)
      BY <1>0, <3>1, ReturnTo, LocalCalm, UpdateCleanup
    <3>2. CASE invalidate("op", "idle")
      BY <1>0, <3>2, InvalidateCloses DEF Places
    <3>3. CASE /\ setup = "independent" /\ held["collector"] /\ UNCHANGED local
               /\ thr' = [thr EXCEPT !["op"] = [Idle EXCEPT !.pc = "decideProve", !.epoch = ctl.epoch]]
      <4> DEFINE r == [Idle EXCEPT !.pc = "decideProve", !.epoch = ctl.epoch]
      <4>1. "decideProve" \in Places
        BY DEF Places
      <4>2. r \in ThreadType
        BY <4>1, OpEpoch, PlaceFacts DEF Idle, ThreadType
      <4>3. Moves("op") /\ thr'["op"] = r
        BY <1>0, <3>3, <4>2, Put
      <4>4. To("op", "decideProve", ctl.epoch, "none")
        BY <4>3 DEF To, Idle
      <4> QED BY <1>0, <3>3, <4>4, LocalCalm
    <3> QED BY <1>5, <3>1, <3>2, <3>3 DEF readerRetiredDecision
  <2>3. OpFrame
    BY <2>1, <2>2, OpMoves, PortsSame, OpEpoch DEF To, Places
  <2>4. OpInv'
    BY <1>0, <2>1, <2>2 DEF Calm, Fails, CtlSame, CtlFailed, Closes, CtlInvalid, Keeps, To, Phase, At,
                            Moves, Threads, Authorized
  <2> QED BY <2>1, <2>3, <2>4, OpKept
<1>6. CASE IndependentProof
  <2>1. /\ Phase = "decideProve" /\ UNCHANGED <<setup, held, windows, parent, sink, issued, owner, granted, fresh>>
        /\ ~At("op", "idle") /\ ~At("op", "revoking")
    BY <1>6 DEF IndependentProof, Phase, At, ports
  <2>2. \/ Calm /\ To("op", "decideGrant", thr["op"].epoch, thr["op"].arg)
        \/ Closes("op", "idle")
    BY <1>0, <1>6, GotoTo, LocalCalm, InvalidateCloses DEF IndependentProof, Places
  <2>3. OpFrame
    BY <2>1, <2>2, OpMoves, PortsSame, OpEpoch DEF To, Places
  <2>4. OpInv'
    BY <1>0, <2>1, <2>2 DEF Calm, Fails, CtlSame, CtlFailed, Closes, CtlInvalid, Keeps, To, Phase, At, Moves, Threads, Authorized
  <2> QED BY <2>1, <2>3, <2>4, OpKept
<1>7. CASE IndependentGrant
  <2>1. /\ Phase = "decideGrant" /\ UNCHANGED <<setup, held, windows, parent, sink, issued, owner, fresh>>
        /\ ~At("op", "idle") /\ ~At("op", "revoking")
    BY <1>7 DEF IndependentGrant, Phase, At
  <2>2. CASE rememberPermit(2, thr["op"].epoch) /\ Goto("op", "decideCheck") /\ UNCHANGED <<work, seamVars>>
    <3>1. 1 \in Permits /\ 2 \in Permits
      BY DEF Permits
    <3>2. /\ ctl' \in CtlType /\ Keeps
          /\ ctl'.open = ctl.open /\ ctl'.epoch = ctl.epoch /\ ctl'.revoked = ctl.revoked
          /\ ctl'.failed = ctl.failed /\ ctl'.permit = 2 /\ ctl'.permitEpoch = thr["op"].epoch
          /\ granted' = [granted EXCEPT ![2] = "granted"]
      BY <1>0, <2>2, <3>1, RememberEffect
    <3>3. To("op", "decideCheck", thr["op"].epoch, thr["op"].arg)
      BY <1>0, <2>2, GotoTo DEF Places
    <3>4. PermitStep("op")
      BY <1>0, <2>1, <3>1, <3>2, <3>3 DEF PermitStep, To
    <3>5. WorkStep /\ SeamEnds /\ PortsKept
      BY <1>0, <2>1, <2>2, <3>2, SameSeam, PortsSame, OpEpoch DEF WorkStep
    <3>6. OpFrame
      BY <2>1, <3>2, <3>3, <3>4, <3>5, OpEpoch DEF OpFrame, PortsKept, To
    <3>7. OpInv'
      BY <1>0, <2>1, <3>2, <3>3 DEF Keeps, To, Phase, At, Moves, Threads, Authorized
    <3> QED BY <2>1, <3>6, <3>7, OpKept
  <2>3. CASE invalidate("op", "idle") /\ UNCHANGED granted
    <3>1. Closes("op", "idle")
      BY <1>0, <2>3, InvalidateCloses DEF Places
    <3>2. OpFrame
      BY <2>1, <2>3, <3>1, OpMoves, PortsSame, OpEpoch DEF Places
    <3>3. OpInv'
      BY <1>0, <2>1, <2>3, <3>1 DEF Closes, CtlInvalid, Keeps, Phase, At, Moves, Threads, Authorized
    <3> QED BY <2>1, <3>2, <3>3, OpKept
  <2> QED BY <1>7, <2>2, <2>3 DEF IndependentGrant
<1>8. CASE IndependentCheck
  <2>1. /\ Phase = "decideCheck" /\ UNCHANGED <<setup, held, windows, parent, sink, issued, owner, granted, fresh>>
        /\ ~At("op", "idle") /\ ~At("op", "revoking")
    BY <1>8 DEF IndependentCheck, Phase, At, ports
  <2>2. \/ Calm /\ To("op", "decideOpen", thr["op"].epoch, thr["op"].arg)
        \/ Closes("op", "idle")
    BY <1>0, <1>8, GotoTo, LocalCalm, InvalidateCloses DEF IndependentCheck, Places
  <2>3. OpFrame
    BY <2>1, <2>2, OpMoves, PortsSame, OpEpoch DEF To, Places
  <2>4. OpInv'
    BY <1>0, <2>1, <2>2 DEF Calm, Fails, CtlSame, CtlFailed, Closes, CtlInvalid, Keeps, To, Phase, At, Moves, Threads, Authorized
  <2> QED BY <2>1, <2>3, <2>4, OpKept
<1>9. CASE IndependentOpen
  <2>1. /\ Phase = "decideOpen" /\ UNCHANGED <<setup, held, windows, parent, sink, issued, owner, granted>>
        /\ ~At("op", "idle") /\ ~At("op", "revoking") /\ fresh' \in BOOLEAN
    BY <1>9, OpEpoch DEF IndependentOpen, Phase, At, ports
  <2>2. CASE /\ ctl.epoch = thr["op"].epoch /\ ~ctl.disabled /\ ~ctl.failed /\ parent = "alive"
             /\ ctl' = [ctl EXCEPT !.open = TRUE, !.revoked = FALSE, !.lifecycle = "running"]
             /\ Return("op") /\ UNCHANGED <<work, seamVars>>
    <3>1. /\ ctl' \in CtlType /\ Keeps /\ ctl'.open
          /\ ctl'.epoch = ctl.epoch /\ ~ctl'.revoked /\ ctl'.failed = ctl.failed
          /\ ctl'.permit = ctl.permit /\ ctl'.permitEpoch = ctl.permitEpoch
      BY <1>0, <2>2, TypeFacts DEF CtlType, Keeps, Lifecycles
    <3>2. To("op", "idle", 0, "none")
      BY <1>0, <2>2, ReturnTo
    <3>3. WorkStep /\ SeamEnds /\ PortsKept /\ PermitStep("op")
      BY <1>0, <2>1, <2>2, <3>1, <3>2, SameSeam, PortsSame, OpEpoch DEF WorkStep, PermitStep, To
    <3>4. OpFrame
      BY <2>1, <2>2, <3>1, <3>2, <3>3, OpEpoch DEF OpFrame, PortsKept, To
    <3>5. thr["watcher"].pc # "done"
      BY <2>2 DEF CSInv, WatcherInv
    <3>6. OpInv'
      BY <1>0, <2>1, <2>2, <3>1, <3>2, <3>5 DEF Keeps, To, Phase, At, Moves, Threads, Authorized
    <3> QED BY <2>1, <3>4, <3>6, OpKept
  <2>3. CASE invalidate("op", "idle")
    <3>1. Closes("op", "idle")
      BY <1>0, <2>3, InvalidateCloses DEF Places
    <3>2. OpFrame
      BY <2>1, <2>3, <3>1, OpMoves, PortsSame, OpEpoch DEF Places
    <3>3. OpInv'
      BY <1>0, <2>1, <2>3, <3>1 DEF Closes, CtlInvalid, Keeps, Phase, At, Moves, Threads, Authorized
    <3> QED BY <2>1, <3>2, <3>3, OpKept
  <2> QED BY <1>9, <2>2, <2>3 DEF IndependentOpen
<1> QED BY <1>1, <1>2, <1>3, <1>4, <1>5, <1>6, <1>7, <1>8, <1>9 DEF ReaderSteps

\* Disabling.
LEMMA DisablingStep ==
  ASSUME CSInv, Disabling
  PROVE  CSInv'
<1> USE DEF OpInv, PhaseInv, LatchInv, CurrentInv, FencePermit, FreshInv, DoneInv, NoneHeld, Roles,
            OpPlaces, Creating, Rechecking, Retiring, Reopening, ClosingAll, DisablingOp, AtWindow,
            Shut, AfterRevoking
<1>0. CSTypeOK /\ OpInv /\ "op" \in Threads
  BY OpEpoch
<1>1. CASE DisableMark
  <2>1. /\ Phase = "disable" /\ ~At("op", "idle") /\ ~At("op", "revoking")
        /\ UNCHANGED <<setup, held, windows, parent, sink, issued, owner, granted, fresh, work, seamVars>>
    BY <1>1 DEF DisableMark, Phase, At, ports
  <2>2. To("op", "disableCollector", thr["op"].epoch, thr["op"].arg)
    BY <1>0, <1>1, GotoTo DEF DisableMark, Places
  <2>3. /\ ctl' \in CtlType /\ ctl'.started = ctl.started /\ ctl'.disabled /\ ctl'.retired = ctl.retired
        /\ ctl'.open = ctl.open /\ ctl'.permit = ctl.permit /\ ctl'.permitEpoch = ctl.permitEpoch
        /\ ctl'.epoch = ctl.epoch /\ ctl'.revoked = ctl.revoked /\ ctl'.failed = ctl.failed
    BY <1>0, <1>1, TypeFacts DEF DisableMark, CtlType, Lifecycles
  <2>4. OpFrame
    BY <2>1, <2>2, <2>3, OpSets, PortsSame, OpEpoch DEF To
  <2>5. OpInv'
    BY <1>0, <2>1, <2>2, <2>3 DEF To, Phase, At, Moves, Threads, Authorized
  <2> QED BY <2>1, <2>4, <2>5, OpKept
<1>2. CASE DisableCollector
  <2>1. /\ Phase = "disableCollector" /\ ~At("op", "idle") /\ ~At("op", "revoking")
        /\ UNCHANGED <<setup, windows, parent, sink, issued, granted, fresh>>
    BY <1>2 DEF DisableCollector, Phase, At
  <2>2. PortsKept /\ held'["reader"] = held["reader"] /\ (held'["collector"] => held["collector"])
    BY <1>2, <2>1, ClosedPorts, PortsSame, OpEpoch, OwnerTypes DEF DisableCollector
  <2>3. \/ Calm /\ To("op", "disableReader", thr["op"].epoch, thr["op"].arg)
        \/ Fails /\ To("op", "idle", 0, "none")
    BY <1>0, <1>2, GotoTo, ReturnTo, LocalCalm, MarkFails DEF DisableCollector, Places
  <2>4. OpFrame
    BY <2>1, <2>2, <2>3, OpMoves, OpEpoch DEF To
  <2>5. OpInv'
    BY <1>0, <2>1, <2>2, <2>3 DEF Calm, Fails, CtlSame, CtlFailed, Keeps, To, Phase, At, Moves, Threads, Authorized
  <2> QED BY <2>1, <2>4, <2>5, OpKept
<1>3. CASE DisableReader
  <2>1. /\ Phase = "disableReader" /\ ~At("op", "idle") /\ ~At("op", "revoking")
        /\ UNCHANGED <<setup, windows, parent, sink, issued, granted, fresh>>
    BY <1>3 DEF DisableReader, Phase, At
  <2>2. CASE /\ held["reader"] /\ windows = {} /\ ClosedRole("reader") /\ RetireReader
             /\ Goto("op", "disableEnd") /\ UNCHANGED <<work, seamVars>>
    <3>1. To("op", "disableEnd", thr["op"].epoch, thr["op"].arg)
      BY <1>0, <2>2, GotoTo DEF Places
    <3>2. /\ ctl' \in CtlType /\ ctl'.started = ctl.started /\ ctl'.disabled = ctl.disabled /\ ctl'.retired
          /\ ctl'.open = ctl.open /\ ctl'.permit = ctl.permit /\ ctl'.permitEpoch = ctl.permitEpoch
          /\ ctl'.epoch = ctl.epoch /\ ctl'.revoked = ctl.revoked /\ ctl'.failed = ctl.failed
          /\ held' = [held EXCEPT !["reader"] = FALSE]
      BY <1>0, <2>2, RetireEffect
    <3>3. PortsKept /\ held'["collector"] = held["collector"] /\ ~held'["reader"]
      BY <2>1, <2>2, <3>2, ClosedPorts, OwnerTypes, OpEpoch
    <3>4. OpFrame
      BY <2>1, <2>2, <3>1, <3>2, <3>3, OpSets, OpEpoch DEF To
    <3>5. OpInv'
      BY <1>0, <2>1, <2>2, <3>1, <3>2, <3>3 DEF To, Phase, At, Moves, Threads, Authorized
    <3> QED BY <2>1, <3>4, <3>5, OpKept
  <2>3. CASE \/ UnclosedRole("reader") /\ markCleanupFailedLocked /\ Return("op") /\ UNCHANGED held
             \/ Goto("op", "disableEnd") /\ UNCHANGED <<local, held, owner>>
    <3>1. PortsKept /\ UNCHANGED held
      BY <2>1, <2>3, ClosedPorts, PortsSame, OpEpoch
    <3>2. \/ Calm /\ To("op", "disableEnd", thr["op"].epoch, thr["op"].arg)
          \/ Fails /\ To("op", "idle", 0, "none")
      BY <1>0, <2>3, GotoTo, ReturnTo, LocalCalm, MarkFails DEF Places
    <3>3. OpFrame
      BY <2>1, <3>1, <3>2, OpMoves, OpEpoch DEF To
    <3>4. OpInv'
      BY <1>0, <2>1, <3>1, <3>2 DEF Calm, Fails, CtlSame, CtlFailed, Keeps, To, Phase, At, Moves, Threads,
                                    Authorized
    <3> QED BY <2>1, <3>3, <3>4, OpKept
  <2> QED BY <1>3, <2>2, <2>3 DEF DisableReader
<1>4. CASE DisableEnd
  <2>1. /\ Phase = "disableEnd" /\ ~At("op", "idle") /\ ~At("op", "revoking")
        /\ UNCHANGED <<setup, held, windows, parent, sink, issued, owner, granted, fresh>>
    BY <1>4 DEF DisableEnd, Phase, At, ports
  <2>2. (Calm \/ Fails) /\ To("op", "idle", 0, "none")
    BY <1>0, <1>4, ReturnTo, UpdateCleanup DEF DisableEnd
  <2>3. OpFrame
    BY <2>1, <2>2, OpMoves, PortsSame, OpEpoch DEF To
  <2>4. OpInv'
    BY <1>0, <2>1, <2>2 DEF Calm, Fails, CtlSame, CtlFailed, Keeps, To, Phase, At, Moves, Threads, Authorized
  <2> QED BY <2>1, <2>3, <2>4, OpKept
<1> QED BY <1>1, <1>2, <1>3, <1>4 DEF Disabling

\* What a step of closeOwnedTrees does, whoever runs it.
LEMMA CloseCollectorEffect ==
  ASSUME CSInv, NEW t \in Threads, CloseCollector(t)
  PROVE  /\ PortsKept /\ held'["reader"] = held["reader"] /\ (held'["collector"] => held["collector"])
         /\ UNCHANGED <<setup, windows, parent, sink, issued, granted, fresh>>
         /\ At(t, "closeCollector")
         /\ \/ Fails /\ To(t, "closeEnd", thr[t].epoch, thr[t].arg) /\ thr'[t].flag
            \/ /\ Calm /\ To(t, "closeReader", thr[t].epoch, thr[t].arg)
               /\ thr'[t].flag \/ ~held'["collector"]
<1>0. CSTypeOK /\ "reader" \in Roles /\ "collector" \in Roles
  BY DEF CSInv, Roles
<1>1. UNCHANGED <<setup, windows, parent, sink, issued, granted, fresh>> /\ At(t, "closeCollector")
  BY DEF CloseCollector
<1>2. CASE /\ markCleanupFailedLocked /\ UNCHANGED <<held, owner>>
           /\ thr' = [thr EXCEPT ![t].pc = "closeEnd", ![t].flag = TRUE]
  BY <1>0, <1>1, <1>2, FlagTo, MarkFails, PortsSame, OpEpoch DEF Places
<1>3. CASE ~held["collector"] /\ Goto(t, "closeReader") /\ UNCHANGED <<local, held, owner>>
  BY <1>0, <1>1, <1>3, GotoTo, LocalCalm, PortsSame, OpEpoch DEF Places
<1>4. CASE /\ ClosedRole("collector") /\ held' = [held EXCEPT !["collector"] = FALSE]
           /\ Goto(t, "closeReader") /\ UNCHANGED local
  <2>1. PortsKept /\ held'["reader"] = held["reader"] /\ ~held'["collector"]
    BY <1>0, <1>1, <1>4, ClosedPorts, OpEpoch, OwnerTypes DEF Roles
  <2> QED BY <1>0, <1>1, <1>4, <2>1, GotoTo, LocalCalm DEF Places
<1>5. CASE /\ UnclosedRole("collector") /\ UNCHANGED held /\ UNCHANGED local
           /\ thr' = [thr EXCEPT ![t].pc = "closeReader", ![t].flag = TRUE]
  BY <1>0, <1>1, <1>5, FlagTo, LocalCalm, ClosedPorts, OpEpoch DEF Places
<1> QED BY <1>2, <1>3, <1>4, <1>5 DEF CloseCollector

\* Its second step closes the reader and forgets its windows.
LEMMA CloseReaderEffect ==
  ASSUME CSInv, NEW t \in Threads, CloseReader(t)
  PROVE  /\ PortsKept /\ held'["collector"] = held["collector"] /\ (held'["reader"] => held["reader"])
         /\ windows' = {} \/ (windows' = windows /\ held' = held)
         /\ UNCHANGED <<setup, parent, sink, issued, granted, fresh, work, seamVars>>
         /\ At(t, "closeReader") /\ To(t, "closeEnd", thr[t].epoch, thr[t].arg)
         /\ ctl' \in CtlType /\ ctl'.started = ctl.started /\ ctl'.disabled = ctl.disabled
         /\ ctl'.open = ctl.open /\ ctl'.permit = ctl.permit /\ ctl'.permitEpoch = ctl.permitEpoch
         /\ ctl'.epoch = ctl.epoch /\ ctl'.revoked = ctl.revoked /\ ctl'.failed = ctl.failed
         /\ ctl'.retired = ctl.retired \/ (held["reader"] /\ ~held'["reader"] /\ ctl'.retired)
         /\ \/ thr'[t].flag
            \/ thr'[t].flag = thr[t].flag /\ ~held'["reader"]
<1>0. CSTypeOK /\ "reader" \in Roles /\ "collector" \in Roles
  BY DEF CSInv, Roles
<1>1. /\ UNCHANGED <<setup, parent, sink, issued, granted, fresh, work, seamVars>> /\ At(t, "closeReader")
  BY DEF CloseReader
<1>2. CASE ~held["reader"] /\ Goto(t, "closeEnd") /\ UNCHANGED <<ctl, held, owner, windows>>
  <2>1. PortsKept
    BY <1>1, <1>2, PortsSame, OpEpoch
  <2>2. To(t, "closeEnd", thr[t].epoch, thr[t].arg) /\ thr'[t].flag = thr[t].flag
    BY <1>0, <1>2, GotoTo DEF Places
  <2> QED BY <1>0, <1>1, <1>2, <2>1, <2>2, TypeFacts
<1>3. CASE /\ held["reader"] /\ ClosedRole("reader") /\ RetireReader /\ windows' = {} /\ Goto(t, "closeEnd")
  <2>1. /\ ctl' \in CtlType /\ ctl'.started = ctl.started /\ ctl'.disabled = ctl.disabled /\ ctl'.retired
        /\ ctl'.open = ctl.open /\ ctl'.permit = ctl.permit /\ ctl'.permitEpoch = ctl.permitEpoch
        /\ ctl'.epoch = ctl.epoch /\ ctl'.revoked = ctl.revoked /\ ctl'.failed = ctl.failed
        /\ held' = [held EXCEPT !["reader"] = FALSE]
    BY <1>0, <1>3, RetireEffect
  <2>2. PortsKept /\ held'["collector"] = held["collector"] /\ ~held'["reader"]
    BY <1>0, <1>1, <1>3, <2>1, ClosedPorts, OwnerTypes, OpEpoch DEF Roles
  <2>3. To(t, "closeEnd", thr[t].epoch, thr[t].arg) /\ thr'[t].flag = thr[t].flag
    BY <1>0, <1>3, GotoTo DEF Places
  <2> QED BY <1>1, <1>3, <2>1, <2>2, <2>3
<1>4. CASE /\ UnclosedRole("reader") /\ UNCHANGED <<ctl, held, windows>>
           /\ thr' = [thr EXCEPT ![t].pc = "closeEnd", ![t].flag = TRUE]
  <2>1. PortsKept
    BY <1>0, <1>1, <1>4, ClosedPorts, OpEpoch
  <2>2. To(t, "closeEnd", thr[t].epoch, thr[t].arg) /\ thr'[t].flag
    BY <1>0, <1>4, FlagTo DEF Places
  <2> QED BY <1>0, <1>1, <1>4, <2>1, <2>2, TypeFacts
<1> QED BY <1>2, <1>3, <1>4 DEF CloseReader

\* Its last step reports the cleanup: failed if an owner was not closed or a revocation is pending.
LEMMA CloseEndEffect ==
  ASSUME CSInv, NEW t \in Threads, CloseEnd(t)
  PROVE  /\ UNCHANGED <<setup, held, windows, parent, sink, issued, owner, granted, fresh>>
         /\ At(t, "closeEnd")
         /\ Fails \/ (Calm /\ ~thr[t].flag /\ Pending = {})
         /\ To(t, IF t = "watcher" THEN "done" ELSE "idle", 0, "none")
<1>0. CSTypeOK
  BY DEF CSInv
<1>1. UNCHANGED <<setup, held, windows, parent, sink, issued, owner, granted, fresh>> /\ At(t, "closeEnd")
  BY DEF CloseEnd, ports
<1>2. To(t, IF t = "watcher" THEN "done" ELSE "idle", 0, "none")
  <2>1. CASE t = "watcher"
    BY <1>0, <2>1, EnterTo DEF CloseEnd, Enter, Places
  <2>2. CASE t # "watcher"
    BY <1>0, <2>2, ReturnTo DEF CloseEnd, Return
  <2> QED BY <2>1, <2>2
<1>3. CASE thr[t].flag \/ Pending # {}
  BY <1>0, <1>1, <1>2, <1>3, MarkFails DEF CloseEnd
<1>4. CASE ~(thr[t].flag \/ Pending # {})
  <2> DEFINE l == IF ctl.failed THEN "cleanupFailed" ELSE IF NoneHeld THEN "cleanupComplete" ELSE ctl.lifecycle
  <2>1. l \in Lifecycles
    BY <1>0, TypeFacts DEF CtlType, Lifecycles
  <2>2. ctl' = [ctl EXCEPT !.lifecycle = l] /\ UNCHANGED <<work, seamVars>>
    BY <1>4 DEF CloseEnd
  <2> HIDE DEF l
  <2>3. CtlSame
    BY <1>0, <2>1, <2>2, TypeFacts DEF CtlSame, CtlType, Keeps
  <2> QED BY <1>0, <1>1, <1>2, <1>4, <2>2, <2>3, SameSeam DEF Calm
<1> QED BY <1>3, <1>4

\* The cleanup of a start that failed.
LEMMA ClosingStep ==
  ASSUME CSInv, Closing("op")
  PROVE  CSInv'
<1> USE DEF OpInv, PhaseInv, LatchInv, CurrentInv, FencePermit, FreshInv, DoneInv, NoneHeld, Roles,
            OpPlaces, Creating, Rechecking, Retiring, Reopening, ClosingAll, DisablingOp, AtWindow,
            Shut, AfterRevoking
<1>0. CSTypeOK /\ OpInv /\ "op" \in Threads
  BY OpEpoch
<1>1. CASE CloseCollector("op")
  <2>1. /\ PortsKept /\ held'["reader"] = held["reader"] /\ (held'["collector"] => held["collector"])
        /\ UNCHANGED <<setup, windows, parent, sink, issued, granted, fresh>>
        /\ At("op", "closeCollector")
        /\ \/ Fails /\ To("op", "closeEnd", thr["op"].epoch, thr["op"].arg)
           \/ Calm /\ To("op", "closeReader", thr["op"].epoch, thr["op"].arg)
    BY <1>0, <1>1, CloseCollectorEffect
  <2>2. Phase = "closeCollector" /\ ~At("op", "idle") /\ ~At("op", "revoking")
    BY <2>1 DEF Phase, At
  <2>3. OpFrame
    BY <2>1, <2>2, OpMoves, OpEpoch DEF To
  <2>4. OpInv'
    BY <1>0, <2>1, <2>2 DEF Calm, Fails, CtlSame, CtlFailed, Keeps, To, Phase, At, Moves, Threads, Authorized
  <2> QED BY <2>2, <2>3, <2>4, OpKept
<1>2. CASE CloseReader("op")
  <2>1. /\ PortsKept /\ held'["collector"] = held["collector"] /\ (held'["reader"] => held["reader"])
        /\ windows' = {} \/ (windows' = windows /\ held' = held)
        /\ UNCHANGED <<setup, parent, sink, issued, granted, fresh, work, seamVars>>
        /\ At("op", "closeReader") /\ To("op", "closeEnd", thr["op"].epoch, thr["op"].arg)
        /\ ctl' \in CtlType /\ ctl'.started = ctl.started /\ ctl'.disabled = ctl.disabled
        /\ ctl'.open = ctl.open /\ ctl'.permit = ctl.permit /\ ctl'.permitEpoch = ctl.permitEpoch
        /\ ctl'.epoch = ctl.epoch /\ ctl'.revoked = ctl.revoked /\ ctl'.failed = ctl.failed
        /\ ctl'.retired = ctl.retired \/ (held["reader"] /\ ~held'["reader"] /\ ctl'.retired)
    BY <1>0, <1>2, CloseReaderEffect
  <2>2. Phase = "closeReader" /\ ~At("op", "idle") /\ ~At("op", "revoking")
    BY <2>1 DEF Phase, At
  <2>3. OpFrame
    BY <2>1, <2>2, OpSets, OpEpoch DEF To
  <2>4. OpInv'
    BY <1>0, <2>1, <2>2 DEF To, Phase, At, Moves, Threads, Authorized
  <2> QED BY <2>2, <2>3, <2>4, OpKept
<1>3. CASE CloseEnd("op")
  <2>1. /\ UNCHANGED <<setup, held, windows, parent, sink, issued, owner, granted, fresh>>
        /\ At("op", "closeEnd") /\ (Fails \/ Calm) /\ To("op", "idle", 0, "none")
    BY <1>0, <1>3, CloseEndEffect
  <2>2. Phase = "closeEnd" /\ ~At("op", "idle") /\ ~At("op", "revoking")
    BY <2>1 DEF Phase, At
  <2>3. OpFrame
    BY <2>1, <2>2, OpMoves, PortsSame, OpEpoch DEF To
  <2>4. OpInv'
    BY <1>0, <2>1, <2>2 DEF Calm, Fails, CtlSame, CtlFailed, Keeps, To, Phase, At, Moves, Threads, Authorized
  <2> QED BY <2>2, <2>3, <2>4, OpKept
<1> QED BY <1>1, <1>2, <1>3 DEF Closing

\* The operations that are called while opMu is free.
LEMMA OpCalls ==
  ASSUME CSInv, Disable \/ \E id \in Windows : OpenReaderWindow(id) \/ CloseReaderWindow(id)
  PROVE  CSInv'
<1> USE DEF OpInv, PhaseInv, LatchInv, CurrentInv, FencePermit, FreshInv, DoneInv, NoneHeld, Roles,
            OpPlaces, Creating, Rechecking, Retiring, Reopening, ClosingAll, DisablingOp, AtWindow,
            Shut, AfterRevoking
<1>0. CSTypeOK /\ OpInv /\ "op" \in Threads
  BY OpEpoch
<1>1. /\ At("op", "idle") /\ OpFree /\ Phase = "idle" /\ ~At("op", "revoking")
      /\ UNCHANGED <<setup, held, windows, parent, sink, issued, owner, granted, fresh>>
  BY DEF Disable, OpenReaderWindow, CloseReaderWindow, OpFree, Phase, At, ports
<1>2. CASE Disable
  <2>1. Closes("op", "disable")
    BY <1>0, <1>2, InvalidateCloses DEF Disable, Places
  <2>2. OpFrame
    BY <1>1, <2>1, OpMoves, PortsSame, OpEpoch DEF Places
  <2>3. OpInv'
    BY <1>0, <1>1, <2>1 DEF Closes, CtlInvalid, Keeps, Phase, At, Moves, Threads, Authorized
  <2> QED BY <1>1, <2>2, <2>3, OpKept
<1>3. ASSUME NEW id \in Windows, OpenReaderWindow(id)
      PROVE  CSInv'
  <2>1. /\ Calm /\ ctl.open
        /\ To("op", "expired", 0, "none") \/ (To("op", "openWindow", ctl.epoch, id))
    <3>1. CASE ExpiredAt("op")
      BY <1>0, <3>1, EnterTo, LocalCalm DEF ExpiredAt, Places
    <3>2. CASE /\ ctl.open /\ UNCHANGED local
               /\ thr' = [thr EXCEPT !["op"] = [Idle EXCEPT !.pc = "openWindow", !.arg = id, !.epoch = ctl.epoch]]
      <4> DEFINE r == [Idle EXCEPT !.pc = "openWindow", !.arg = id, !.epoch = ctl.epoch]
      <4>1. "openWindow" \in Places
        BY DEF Places
      <4>2. r \in ThreadType
        BY <4>1, OpEpoch, PlaceFacts DEF Idle, ThreadType
      <4>3. thr' = [thr EXCEPT !["op"] = r] /\ r.pc = "openWindow" /\ r.epoch = ctl.epoch /\ r.arg = id
        BY <3>2 DEF Idle
      <4> HIDE DEF r
      <4>4. Moves("op") /\ thr'["op"] = r
        BY <1>0, <4>2, <4>3, Put
      <4>5. To("op", "openWindow", ctl.epoch, id)
        BY <4>3, <4>4 DEF To
      <4> QED BY <1>0, <3>2, <4>5, LocalCalm
    <3> QED BY <1>3, <3>1, <3>2 DEF OpenReaderWindow
  <2>2. OpFrame
    BY <1>1, <2>1, OpMoves, PortsSame, OpEpoch DEF To
  <2>3. thr["watcher"].pc # "done"
    BY <2>1 DEF CSInv, WatcherInv
  <2>4. OpInv'
    BY <1>0, <1>1, <1>3, <2>1, <2>3 DEF Calm, CtlSame, Keeps, To, Phase, At, Moves, Threads, Authorized
  <2> QED BY <1>1, <2>2, <2>4, OpKept
<1>4. ASSUME NEW id \in Windows, CloseReaderWindow(id)
      PROVE  CSInv'
  <2> DEFINE called == [Idle EXCEPT !.pc = "closeWindow", !.arg = id]
             after == [called EXCEPT !.pc = "revoking", !.then = "closeWindow", !.permit = ctl.permit]
  <2>1. id \in windows /\ held["reader"] /\ "closeWindow" \in Places
    BY <1>4 DEF CloseReaderWindow, Places
  <2>2. called \in ThreadType
    BY <2>1, PlaceFacts DEF Idle, ThreadType
  <2>3. after \in ThreadType
    BY <1>0, <2>1, PlaceFacts, PermitType DEF Idle, ThreadType
  <2>4. thr["watcher"].pc # "done" \/ ctl.failed
    BY <2>1 DEF CSInv, At
  <2>5. CASE windows # {id}
    <3>1. thr' = [thr EXCEPT !["op"] = called] /\ UNCHANGED local
      BY <1>4, <2>5 DEF CloseReaderWindow
    <3>2. Moves("op") /\ thr'["op"] = called
      BY <1>0, <2>2, <3>1, Put
    <3>3. Calm /\ To("op", "closeWindow", 0, id)
      <4>1. To("op", "closeWindow", 0, id)
        BY <3>2 DEF To, Idle
      <4> QED BY <1>0, <3>1, <4>1, LocalCalm
    <3>4. OpFrame
      BY <1>1, <3>3, OpMoves, PortsSame, OpEpoch DEF To
    <3>5. OpInv'
      BY <1>0, <1>1, <1>4, <2>1, <2>4, <2>5, <3>3 DEF Calm, CtlSame, Keeps, To, Phase, At, Moves, Threads, Authorized
    <3> QED BY <1>1, <3>4, <3>5, OpKept
  <2>6. CASE windows = {id}
    <3>1. CtlInvalid /\ WorkEnds /\ SeamEnds
      BY <1>0, <1>4, <2>6, InvalidateLockedEffect DEF CloseReaderWindow
    <3>2. /\ Moves("op") /\ thr'["op"].arg = id /\ thr'["op"].epoch = 0
          /\ IF ctl.permit # 0 THEN /\ thr'["op"].pc = "revoking" /\ thr'["op"].then = "closeWindow"
                                    /\ thr'["op"].permit = ctl.permit
                               ELSE thr'["op"].pc = "closeWindow"
      <4>1. CASE ctl.permit # 0
        <5>1. thr' = [thr EXCEPT !["op"] = after]
          BY <1>4, <2>6, <4>1 DEF CloseReaderWindow
        <5>2. Moves("op") /\ thr'["op"] = after
          BY <1>0, <2>3, <5>1, Put
        <5> QED BY <4>1, <5>2 DEF Idle
      <4>2. CASE ctl.permit = 0
        <5>1. thr' = [thr EXCEPT !["op"] = called]
          BY <1>4, <2>6, <4>2 DEF CloseReaderWindow
        <5>2. Moves("op") /\ thr'["op"] = called
          BY <1>0, <2>2, <5>1, Put
        <5> QED BY <4>2, <5>2 DEF Idle
      <4> QED BY <4>1, <4>2
    <3>3. ctl' \in CtlType /\ ctl.epoch <= ctl'.epoch /\ thr'["op"].epoch <= ctl'.epoch /\ WorkStep
      BY <3>1, <3>2, OpEpoch DEF CtlInvalid, WorkStep
    <3>4. PermitStep("op") /\ PortsKept
      BY <1>1, <3>1, <3>2, PortsSame, OpEpoch DEF PermitStep, CtlInvalid
    <3>5. OpFrame
      BY <1>1, <3>1, <3>2, <3>3, <3>4 DEF OpFrame, PortsKept, CtlInvalid
    <3>6. OpInv'
      BY <1>0, <1>1, <1>4, <2>1, <2>4, <2>6, <3>1, <3>2 DEF CtlInvalid, Keeps, Phase, At, Moves, Threads, Authorized
    <3> QED BY <1>1, <3>5, <3>6, OpKept
  <2> QED BY <2>5, <2>6
<1> QED BY <1>2, <1>3, <1>4

-----------------------------------------------------------------------------
(* Steps of the other goroutines, and the return of a revocation.           *)

\* What is left to show of a step of one goroutine.
LEMMA ThreadKept ==
  ASSUME CSInv, NEW t \in Threads, Moves(t), PermitStep(t),
         UNCHANGED setup, parent' \in {"alive", "cancelled"}, PortsKept,
         sink' \subseteq Works, issued' \in [Works -> Nat], work' \in [Works -> WorkStates],
         Seam!SeamTypeOK', ActiveAdmitted', SinksAgree',
         ctl' \in CtlType, ctl.epoch <= ctl'.epoch, thr'[t].epoch <= ctl'.epoch,
         PlaceInv', OpInv', WatcherInv'
  PROVE  CSInv'
<1>1. PermitInv' /\ PermitTracked' /\ granted' \in [Permits -> {"none", "granted", "ended"}]
  BY PermitKept DEF CSInv
<1>2. CSTypeOK'
  BY <1>1 DEF CSInv, CSTypeOK, PortsKept, CtlType, ThreadType, Moves
<1>3. EpochInv'
  <2>1. ctl.epoch \in Nat /\ ctl'.epoch \in Nat /\ \A s \in Threads : thr[s].epoch \in Nat
    BY TypeFacts DEF CSInv, CtlType, ThreadType
  <2> QED BY <2>1 DEF CSInv, EpochInv, Moves
<1> QED BY <1>1, <1>2, <1>3 DEF CSInv

\* What another goroutine does to the fence leaves the operation's facts true.
LEMMA OthersOp ==
  ASSUME CSInv, NEW t \in Threads \ {"op"}, Moves(t), PermitStep(t),
         UNCHANGED <<setup, held, windows>>, CtlSame \/ CtlInvalid \/ CtlFailed
  PROVE  PhaseInv' /\ LatchInv' /\ CurrentInv' /\ FreshInv'
<1>1. OpInv /\ CSTypeOK /\ PermitInv /\ thr'["op"] = thr["op"] /\ ctl.epoch \in Nat /\ thr["op"].epoch \in Nat
      /\ thr["op"].epoch <= ctl.epoch
  BY OpEpoch DEF Moves, CSInv
<1>2. Phase' = Phase /\ (At("op", "revoking")' <=> At("op", "revoking"))
  BY <1>1 DEF Phase, At
<1>3. /\ granted[1] = "none" => granted'[1] = "none"
      /\ granted[2] = "none" => granted'[2] = "none"
  BY <1>1, PermitType DEF PermitStep, PermitInv, Permits, CtlSame, CtlInvalid, CtlFailed
<1> QED BY <1>1, <1>2, <1>3 DEF OpInv, PhaseInv, LatchInv, CurrentInv, FencePermit, FreshInv, DoneInv, NoneHeld, Roles,
            OpPlaces, Creating, Rechecking, Retiring, Reopening, ClosingAll, DisablingOp, AtWindow,
            Shut, AfterRevoking, Phase, At, CtlSame, CtlInvalid, CtlFailed, Keeps, Authorized

\* A step of the worker or of a caller.
LEMMA OtherKept ==
  ASSUME CSInv, NEW t \in {"worker", "caller"}, Moves(t), PermitStep(t),
         UNCHANGED <<setup, held, windows, parent, owner>>, fresh' \in BOOLEAN,
         sink' \subseteq Works, issued' \in [Works -> Nat], work' \in [Works -> WorkStates],
         Seam!SeamTypeOK', ActiveAdmitted', SinksAgree',
         CtlSame \/ CtlInvalid \/ CtlFailed, thr'[t].epoch <= ctl.epoch, PlaceInv'
  PROVE  CSInv'
<1>0. t \in Threads /\ t \in Threads \ {"op"} /\ ctl.epoch \in Nat /\ parent \in {"alive", "cancelled"}
  BY OpEpoch DEF Threads, CSInv, CSTypeOK
<1>1. thr'["op"] = thr["op"] /\ thr'["watcher"] = thr["watcher"] /\ thr'[t].epoch \in Nat
  BY <1>0 DEF Moves, Threads, ThreadType
<1>2. PhaseInv' /\ LatchInv' /\ CurrentInv' /\ FreshInv'
  BY <1>0, OthersOp
<1>3. DoneInv' /\ Phase' = Phase
  BY <1>1 DEF CSInv, OpInv, DoneInv, Phase, At, NoneHeld, CtlSame, CtlInvalid, CtlFailed
<1>4. WatcherInv'
  <2>1. ASSUME At("watcher", "done"), ~ctl'.failed
        PROVE  \A s \in Threads : thr'[s].pc # "revoking"
    <3>1. ~ctl.failed /\ ctl.permit = 0 /\ \A s \in Threads : ~At(s, "revoking")
      BY <2>1 DEF CSInv, WatcherInv, OpInv, DoneInv, CtlSame, CtlInvalid, CtlFailed
    <3>2. thr'[t].pc # "revoking"
      BY <3>1, <1>0 DEF PermitStep, CtlSame, CtlInvalid, CtlFailed, Permits
    <3> QED BY <3>1, <3>2 DEF Moves, At
  <2>2. ctl'.open => ctl.open
    BY DEF CtlSame, CtlInvalid, CtlFailed
  <2> QED BY <1>1, <2>1, <2>2 DEF CSInv, WatcherInv, At, OwnerCurrent, NoneHeld
<1>5. PortsKept
  BY PortsSame, OpEpoch
<1>6. ctl' \in CtlType /\ ctl.epoch <= ctl'.epoch /\ thr'[t].epoch <= ctl'.epoch
  BY <1>0, <1>1 DEF CtlSame, CtlInvalid, CtlFailed
<1> QED BY <1>0, <1>2, <1>3, <1>4, <1>5, <1>6, ThreadKept DEF OpInv

\* A step of the worker or of a caller that ends no work but by closing admission.
LEMMA OtherMoves ==
  ASSUME CSInv, NEW t \in {"worker", "caller"}, ~At(t, "revoking"), PlaceInv',
         UNCHANGED <<setup, held, windows, parent, owner, fresh, sink, issued, granted>>,
         \/ (Calm \/ Fails) /\ Moves(t) /\ thr'[t].pc # "revoking" /\ thr'[t].epoch <= ctl.epoch
         \/ \E then \in Places : Closes(t, then)
  PROVE  CSInv'
<1>0. CSTypeOK /\ ctl.epoch \in Nat /\ 0 <= ctl.epoch
  BY OpEpoch
<1>1. CASE (Calm \/ Fails) /\ Moves(t) /\ thr'[t].pc # "revoking" /\ thr'[t].epoch <= ctl.epoch
  <2>1. SeamEnds /\ (CtlSame \/ CtlInvalid \/ CtlFailed) /\ WorkStep
    BY <1>1 DEF Calm, Fails, CtlSame, CtlFailed, WorkStep
  <2>2. PermitStep(t)
    BY <1>1 DEF Calm, Fails, CtlSame, CtlFailed, PermitStep
  <2>3. ActiveAdmitted' /\ SinksAgree' /\ work' \in [Works -> WorkStates]
    BY <1>0, <2>1, WorkKept DEF CSInv
  <2> QED BY <1>0, <1>1, <2>1, <2>2, <2>3, OtherKept DEF SeamEnds, CSTypeOK
<1>2. CASE \E then \in Places : Closes(t, then)
  <2>1. PICK then \in Places : Closes(t, then)
    BY <1>2
  <2>2. SeamEnds /\ (CtlSame \/ CtlInvalid \/ CtlFailed) /\ WorkStep
    BY <2>1 DEF Closes, CtlInvalid, WorkStep
  <2>3. PermitStep(t) /\ Moves(t) /\ thr'[t].epoch <= ctl.epoch
    BY <1>0, <2>1 DEF Closes, CtlInvalid, PermitStep
  <2>4. ActiveAdmitted' /\ SinksAgree' /\ work' \in [Works -> WorkStates]
    BY <1>0, <2>2, WorkKept DEF CSInv
  <2> QED BY <1>0, <2>2, <2>3, <2>4, OtherKept DEF SeamEnds, CSTypeOK
<1> QED BY <1>1, <1>2

\* Where a goroutine goes is where it may be.
LEMMA WorkerPlace ==
  ASSUME CSInv, Moves("worker"),
         \/ thr'["worker"].pc \in {"idle", "expired", "mark"}
         \/ thr'["worker"].pc = "revoking" /\ thr'["worker"].then \in {"idle", "mark"}
         \/ thr'["worker"].pc \in WorkerCalls /\ thr'["worker"].arg \in Works
  PROVE  PlaceInv'
BY DEF CSInv, PlaceInv, Moves, Threads, At, WorkerCalls

\* The same for a caller.
LEMMA CallerPlace ==
  ASSUME CSInv, Moves("caller"),
         \/ thr'["caller"].pc \in {"idle", "expired", "lost", "renew"}
         \/ thr'["caller"].pc = "revoking" /\ thr'["caller"].then \in {"idle", "lost"}
  PROVE  PlaceInv'
BY DEF CSInv, PlaceInv, Moves, Threads, At, WorkerCalls

\* The same for the watcher.
LEMMA WatcherPlace ==
  ASSUME CSInv, Moves("watcher"),
         \/ thr'["watcher"].pc \in WatcherClosing \cup {"unarmed", "armed", "lock", "done"}
         \/ thr'["watcher"].pc = "revoking" /\ thr'["watcher"].then = "lock"
  PROVE  PlaceInv'
BY DEF CSInv, PlaceInv, Moves, Threads, At, WatcherClosing

\* Work is queued, ticketed, claimed, completed, cancelled.
LEMMA WorkerStep ==
  ASSUME CSInv,
         \/ WorkerSteps
         \/ \E w \in Works : QueueWork(w) \/ Ticket(w) \/ Submit(w, "claim") \/ Submit(w, "complete") \/ Cancel(w)
  PROVE  CSInv'
<1>0. CSTypeOK /\ "worker" \in Threads /\ 0 <= ctl.epoch /\ "worker" \in {"worker", "caller"}
  BY OpEpoch DEF Threads
<1>1. CASE CheckOwners
  <2>1. PICK call \in {"claim", "complete"} :
          /\ At("worker", call)
          /\ \/ /\ thr' = [thr EXCEPT !["worker"].pc = Commit(call), !["worker"].flag = FALSE]
                /\ UNCHANGED local
             \/ invalidate("worker", "mark")
          /\ UNCHANGED <<setup, held, windows, fresh, sink, issued, owner, granted, parent>>
    BY <1>1 DEF CheckOwners, ports
  <2>2. ~At("worker", "revoking") /\ thr["worker"].arg \in Works /\ thr["worker"].epoch <= ctl.epoch
    BY <1>0, <2>1 DEF At, CSInv, PlaceInv, WorkerCalls, EpochInv
  <2>3. CASE /\ thr' = [thr EXCEPT !["worker"].pc = Commit(call), !["worker"].flag = FALSE]
             /\ UNCHANGED local
    <3>1. Calm /\ To("worker", Commit(call), thr["worker"].epoch, thr["worker"].arg)
      BY <1>0, <2>1, <2>3, FlagTo, LocalCalm DEF Commit, Places
    <3>2. PlaceInv'
      BY <2>1, <2>2, <3>1, WorkerPlace DEF To, Commit, WorkerCalls
    <3> QED BY <1>0, <2>1, <2>2, <3>1, <3>2, OtherMoves DEF To
  <2>4. CASE invalidate("worker", "mark")
    <3>1. Closes("worker", "mark")
      BY <1>0, <2>4, InvalidateCloses DEF Places
    <3>2. PlaceInv'
      BY <3>1, WorkerPlace DEF Closes
    <3> QED BY <1>0, <2>1, <2>2, <3>1, <3>2, OtherMoves DEF Places
  <2> QED BY <2>1, <2>3, <2>4
<1>2. ASSUME NEW w \in Works, Submit(w, "claim") \/ Submit(w, "complete")
      PROVE  CSInv'
  <2>1. /\ ~At("worker", "revoking") /\ ctl.epoch \in Nat
        /\ UNCHANGED <<setup, held, windows, fresh, sink, issued, owner, granted, parent>>
    BY <1>2, OpEpoch DEF Submit, Calling, At, ports
  <2>2. /\ Calm
        /\ \/ To("worker", "expired", 0, "none")
           \/ \E call \in {"claim", "complete"} : To("worker", call, 0, w)
    <3>1. CASE ExpiredAt("worker")
      BY <1>0, <3>1, EnterTo, LocalCalm DEF ExpiredAt, Places
    <3>2. ASSUME NEW call \in {"claim", "complete"}, UNCHANGED local,
                 thr' = [thr EXCEPT !["worker"] = [Idle EXCEPT !.pc = call, !.arg = w, !.flag = ~ctl.retired]]
          PROVE  Calm /\ To("worker", call, 0, w)
      <4> DEFINE r == [Idle EXCEPT !.pc = call, !.arg = w, !.flag = ~ctl.retired]
      <4>1. call \in Places
        BY DEF Places
      <4>2. r \in ThreadType
        BY <1>2, <4>1, PlaceFacts DEF Idle, ThreadType
      <4>3. Moves("worker") /\ thr'["worker"] = r
        BY <1>0, <3>2, <4>2, Put
      <4>4. To("worker", call, 0, w)
        BY <4>3 DEF To, Idle
      <4> QED BY <1>0, <3>2, <4>4, LocalCalm
    <3> QED BY <1>2, <3>1, <3>2 DEF Submit
  <2>3. PlaceInv'
    BY <1>2, <2>2, WorkerPlace DEF To, WorkerCalls
  <2> QED BY <1>0, <2>1, <2>2, <2>3, OtherMoves DEF To
<1>3. ASSUME ExpiredAt("worker") \/ (Return("worker") /\ UNCHANGED local), ~At("worker", "revoking"),
             UNCHANGED <<setup, held, windows, fresh, sink, issued, owner, granted, parent>>
      PROVE  CSInv'
  <2>1. Calm /\ (To("worker", "expired", 0, "none") \/ To("worker", "idle", 0, "none"))
    BY <1>0, <1>3, EnterTo, ReturnTo, LocalCalm DEF ExpiredAt, Places
  <2>2. PlaceInv'
    BY <2>1, WorkerPlace DEF To
  <2> QED BY <1>0, <1>3, <2>1, <2>2, OtherMoves DEF To
<1>4. ASSUME UNCHANGED <<setup, ctl, held, windows, fresh, owner, granted, parent>>,
             ~At("worker", "revoking"), To("worker", "idle", 0, "none") \/ UNCHANGED thr,
             sink' \subseteq Works, issued' \in [Works -> Nat], work' \in [Works -> WorkStates],
             Seam!SeamTypeOK', ActiveAdmitted', SinksAgree'
      PROVE  CSInv'
  <2>1. /\ Moves("worker") /\ PlaceInv' /\ thr'["worker"].pc # "revoking" /\ thr'["worker"].epoch <= ctl.epoch
    <3>1. CASE To("worker", "idle", 0, "none")
      BY <1>0, <3>1, WorkerPlace DEF To
    <3>2. CASE UNCHANGED thr
      BY <1>0, <1>4, <3>2, TypeFacts DEF CSInv, PlaceInv, EpochInv, Moves, At
    <3> QED BY <1>4, <3>1, <3>2
  <2>2. CtlSame /\ PermitStep("worker")
    BY <1>0, <1>4, <2>1, TypeFacts DEF CtlSame, Keeps, PermitStep
  <2> QED BY <1>0, <1>4, <2>1, <2>2, OtherKept, OpEpoch
<1>5. ASSUME NEW w \in Works, QueueWork(w)
      PROVE  CSInv'
  <2>1. /\ work' \in [Works -> WorkStates] /\ ActiveAdmitted' /\ SinksAgree'
    BY <1>0, <1>5 DEF QueueWork, CSInv, CSTypeOK, WorkStates, ActiveAdmitted, SinksAgree, Authorized, seamVars
  <2>2. /\ UNCHANGED <<setup, ctl, held, windows, fresh, owner, granted, parent, thr, sink, issued, authority, ticket>>
        /\ ~At("worker", "revoking")
    BY <1>5 DEF QueueWork, ports, seamVars, At
  <2> QED BY <1>0, <1>4, <2>1, <2>2 DEF CSTypeOK, Seam!SeamTypeOK
<1>6. ASSUME NEW w \in Works, Cancel(w)
      PROVE  CSInv'
  <2>1. /\ UNCHANGED <<setup, ctl, held, windows, fresh, owner, granted, parent, thr, sink, issued>>
        /\ ~At("worker", "revoking")
    BY <1>6 DEF Cancel, ports, At
  <2>2. /\ work' \in [Works -> WorkStates] /\ ActiveAdmitted' /\ SinksAgree' /\ Seam!SeamTypeOK'
    BY <1>0, <1>6 DEF Cancel, CSInv, CSTypeOK, WorkStates, ActiveAdmitted, SinksAgree, Authorized, seamVars,
                      Seam!Cancel, Seam!SeamTypeOK, Seam!TicketStates
  <2> QED BY <1>0, <1>4, <2>1, <2>2 DEF CSTypeOK
<1>7. ASSUME NEW w \in Works, Ticket(w)
      PROVE  CSInv'
  <2>1. UNCHANGED <<setup, held, windows, fresh, owner, granted, parent, sink>> /\ ~At("worker", "revoking")
    BY <1>7 DEF Ticket, ports, At, Calling
  <2>2. CASE ExpiredAt("worker") /\ UNCHANGED issued
    BY <1>3, <2>1, <2>2
  <2>3. CASE /\ issued' = [issued EXCEPT ![w] = ctl.epoch]
             /\ IF Authorized /\ ticket[w] = "none" THEN Seam!Dispatch(w) ELSE UNCHANGED seamVars
             /\ UNCHANGED <<ctl, work, thr>>
    <3>1. issued' \in [Works -> Nat]
      BY <1>0, <2>3, OpEpoch DEF CSTypeOK
    <3>2. ActiveAdmitted' /\ SinksAgree' /\ Seam!SeamTypeOK'
      BY <1>0, <1>7, <2>1, <2>3 DEF CSInv, CSTypeOK, ActiveAdmitted, SinksAgree, Authorized, seamVars,
                        Seam!Dispatch, Seam!SeamTypeOK, Seam!TicketStates
    <3> QED BY <1>0, <1>4, <2>1, <2>3, <3>1, <3>2 DEF CSTypeOK
  <2> QED BY <1>7, <2>2, <2>3 DEF Ticket
<1>8. CASE ClaimCommit
  <2>1. UNCHANGED <<setup, held, windows, fresh, owner, granted, parent, sink, issued>> /\ ~At("worker", "revoking")
    BY <1>8 DEF ClaimCommit, ports, At
  <2> DEFINE w == thr["worker"].arg
  <2>2. CASE ExpiredAt("worker") \/ (Return("worker") /\ UNCHANGED local)
    BY <1>3, <2>1, <2>2
  <2>3. CASE /\ ctl.open /\ work[w] = "queued"
             /\ IF Authorized THEN Seam!Claim(w) ELSE UNCHANGED seamVars
             /\ work' = [work EXCEPT ![w] = "active"] /\ Return("worker") /\ UNCHANGED ctl
    <3>1. w \in Works
      BY <1>8 DEF ClaimCommit, CSInv, PlaceInv, WorkerCalls, At
    <3> HIDE DEF w
    <3>2. /\ work' \in [Works -> WorkStates] /\ ActiveAdmitted' /\ SinksAgree' /\ Seam!SeamTypeOK'
      BY <1>0, <2>1, <2>3, <3>1 DEF CSInv, CSTypeOK, WorkStates, ActiveAdmitted, SinksAgree, Authorized, seamVars,
                        Seam!Claim, Seam!SeamTypeOK, Seam!TicketStates
    <3>3. To("worker", "idle", 0, "none")
      BY <1>0, <2>3, ReturnTo
    <3> QED BY <1>0, <1>4, <2>1, <2>3, <3>2, <3>3 DEF CSTypeOK
  <2> QED BY <1>8, <2>2, <2>3 DEF ClaimCommit, ticketCurrentLocked, Admitted
<1>9. CASE CompleteCommit
  <2>1. UNCHANGED <<setup, held, windows, fresh, owner, granted, parent, issued>> /\ ~At("worker", "revoking")
    BY <1>9 DEF CompleteCommit, ports, At
  <2> DEFINE w == thr["worker"].arg
  <2>2. CASE (ExpiredAt("worker") \/ (Return("worker") /\ UNCHANGED local)) /\ UNCHANGED sink
    BY <1>3, <2>1, <2>2
  <2>3. CASE /\ ctl.open /\ work[w] = "active"
             /\ IF Authorized THEN Seam!Complete(w) ELSE UNCHANGED seamVars
             /\ work' = [work EXCEPT ![w] = "complete"] /\ sink' = sink \cup {w}
             /\ Return("worker") /\ UNCHANGED ctl
    <3>1. w \in Works
      BY <1>9 DEF CompleteCommit, CSInv, PlaceInv, WorkerCalls, At
    <3> HIDE DEF w
    <3>2. /\ work' \in [Works -> WorkStates] /\ ActiveAdmitted' /\ SinksAgree' /\ Seam!SeamTypeOK' /\ sink' \subseteq Works
      BY <1>0, <2>1, <2>3, <3>1 DEF CSInv, CSTypeOK, WorkStates, ActiveAdmitted, SinksAgree, Authorized, seamVars,
                        Seam!Complete, Seam!SeamTypeOK, Seam!TicketStates
    <3>3. To("worker", "idle", 0, "none")
      BY <1>0, <2>3, ReturnTo
    <3> QED BY <1>0, <1>4, <2>1, <2>3, <3>2, <3>3 DEF CSTypeOK
  <2> QED BY <1>9, <2>2, <2>3 DEF CompleteCommit, ticketCurrentLocked, Admitted
<1> QED BY <1>1, <1>2, <1>5, <1>6, <1>7, <1>8, <1>9 DEF WorkerSteps

\* Notifications, renewals and observations.
LEMMA CallerStep ==
  ASSUME CSInv, CallerSteps \/ Revoke \/ Changed \/ CollectorLost \/ Snapshot \/ RenewEvidence
  PROVE  CSInv'
<1>0. CSTypeOK /\ "caller" \in Threads /\ 0 <= ctl.epoch /\ "caller" \in {"worker", "caller"} /\ ctl.epoch \in Nat
  BY OpEpoch DEF Threads
<1>1. /\ UNCHANGED <<setup, held, windows, parent, owner, fresh, sink, issued, granted>>
      /\ ~At("caller", "revoking")
  BY DEF CallerSteps, Revoke, Changed, CollectorLost, Snapshot, RenewEvidence, CollectorLostMark, RenewReturns,
         Calling, At, ports
<1>2. ASSUME NEW pc \in {"idle", "expired"}, Calm, To("caller", pc, 0, "none")
      PROVE  CSInv'
  <2>1. PlaceInv'
    BY <1>2, CallerPlace DEF To
  <2> QED BY <1>0, <1>1, <1>2, <2>1, OtherMoves DEF To
<1>3. ASSUME NEW then \in {"idle", "lost"}, Closes("caller", then)
      PROVE  CSInv'
  <2>1. PlaceInv'
    BY <1>3, CallerPlace DEF Closes
  <2> QED BY <1>0, <1>1, <1>3, <2>1, OtherMoves DEF Places
<1>4. ASSUME Block, UNCHANGED work, SeamEnds
      PROVE  CSInv'
  <2>1. CtlSame
    BY <1>0, <1>4, TypeFacts DEF Block, CtlSame, CtlType, Keeps
  <2>2. To("caller", "expired", 0, "none")
    BY <1>0, <1>4, EnterTo DEF Block, Places
  <2> QED BY <1>2, <1>4, <2>1, <2>2 DEF Calm
<1>5. CASE Revoke
  BY <1>0, <1>4, <1>5, SameSeam DEF Revoke
<1>6. CASE Changed
  BY <1>0, <1>4, <1>6, RevokeSeamEffect DEF Changed
<1>7. CASE CollectorLost
  BY <1>0, <1>3, <1>7, InvalidateCloses DEF CollectorLost, Places
<1>8. CASE CollectorLostMark
  <2>1. CtlSame
    BY <1>0, <1>8, TypeFacts DEF CollectorLostMark, CtlSame, CtlType, Keeps, Lifecycles
  <2>2. Calm
    BY <1>0, <1>8, <2>1, SameSeam DEF CollectorLostMark, Calm
  <2> QED BY <1>0, <1>2, <1>8, <2>2, ReturnTo DEF CollectorLostMark
<1>9. CASE Snapshot
  BY <1>0, <1>2, <1>9, EnterTo, LocalCalm DEF Snapshot, ExpiredAt, Places
<1>10. CASE RenewEvidence
  <2>1. CASE authority # "open"
    <3>1. Enter("caller", "expired") /\ UNCHANGED local
      BY <1>10, <2>1 DEF RenewEvidence, Enter
    <3> QED BY <1>0, <1>2, <3>1, EnterTo, LocalCalm DEF Places
  <2>2. CASE authority = "open"
    <3> DEFINE r == [Idle EXCEPT !.pc = "renew", !.epoch = ctl.epoch]
    <3>1. thr' = [thr EXCEPT !["caller"] = r] /\ UNCHANGED local
      BY <1>10, <2>2 DEF RenewEvidence
    <3>2. "renew" \in Places
      BY DEF Places
    <3>3. r \in ThreadType
      BY <1>0, <3>2, PlaceFacts DEF Idle, ThreadType
    <3>4. Moves("caller") /\ thr'["caller"] = r
      BY <1>0, <3>1, <3>3, Put
    <3>5. thr'["caller"].pc = "renew" /\ thr'["caller"].epoch = ctl.epoch /\ ctl.epoch <= ctl.epoch
      BY <1>0, <3>4 DEF Idle
    <3> HIDE DEF r
    <3>6. PlaceInv' /\ Calm
      BY <1>0, <3>1, <3>4, <3>5, CallerPlace, LocalCalm
    <3> QED BY <1>0, <1>1, <3>4, <3>5, <3>6, OtherMoves
  <2> QED BY <2>1, <2>2
<1>11. CASE RenewReturns
  BY <1>0, <1>2, <1>3, <1>11, ReturnTo, LocalCalm, InvalidateCloses DEF RenewReturns, Places
<1> QED BY <1>5, <1>6, <1>7, <1>8, <1>9, <1>10, <1>11 DEF CallerSteps

\* A goroutine other than the watcher returns from a revocation, gives up on a
\* cleanup, or closes admission because its evidence expired.
LEMMA ThreadStep ==
  ASSUME CSInv, NEW t \in {"worker", "caller"}, ThreadSteps(t)
  PROVE  CSInv'
<1>0. CSTypeOK /\ t \in Threads /\ 0 <= ctl.epoch /\ ctl.epoch \in Nat
  BY OpEpoch DEF Threads
<1>1. CASE RevokeReturns(t)
  <2>1. /\ At(t, "revoking") /\ granted' = [granted EXCEPT ![thr[t].permit] = "ended"]
        /\ UNCHANGED <<setup, held, windows, fresh, sink, issued, owner, parent>>
    BY <1>1 DEF RevokeReturns
  <2>2. Moves(t) /\ Fields(t, thr[t].then, 0, 0, thr[t].arg)
    BY <1>0, <1>1, ContinueEffect DEF RevokeReturns
  <2>3. thr[t].then # "revoking" /\ PlaceInv'
    <3>1. CASE t = "worker"
      BY <2>1, <2>2, <3>1, WorkerPlace DEF CSInv, PlaceInv, Fields
    <3>2. CASE t = "caller"
      BY <2>1, <2>2, <3>2, CallerPlace DEF CSInv, PlaceInv, Fields
    <3> QED BY <3>1, <3>2
  <2>4. Calm \/ Fails
    BY <1>0, <1>1, LocalCalm, MarkFails DEF RevokeReturns
  <2>5. SeamEnds /\ (CtlSame \/ CtlInvalid \/ CtlFailed) /\ WorkStep /\ ctl'.permit = ctl.permit
    BY <2>4 DEF Calm, Fails, CtlSame, CtlFailed, WorkStep
  <2>6. PermitStep(t)
    BY <2>1, <2>2, <2>3, <2>5 DEF PermitStep, Fields
  <2>7. ActiveAdmitted' /\ SinksAgree' /\ work' \in [Works -> WorkStates]
    BY <1>0, <2>1, <2>5, WorkKept DEF CSInv
  <2> QED BY <1>0, <2>1, <2>2, <2>3, <2>5, <2>6, <2>7, OtherKept DEF SeamEnds, CSTypeOK, Fields
<1>2. CASE MarkFailed(t)
  <2>1. /\ At(t, "mark") /\ ~At(t, "revoking")
        /\ UNCHANGED <<setup, held, windows, fresh, sink, issued, owner, granted, parent>>
    BY <1>2 DEF MarkFailed, ports, At
  <2>2. Fails /\ To(t, "idle", 0, "none")
    BY <1>0, <1>2, MarkFails, ReturnTo DEF MarkFailed
  <2>3. PlaceInv'
    BY <2>2, WorkerPlace, CallerPlace DEF To
  <2> QED BY <1>0, <2>1, <2>2, <2>3, OtherMoves DEF To
<1>3. CASE InvalidateExpired(t)
  <2>1. /\ At(t, "expired") /\ ~At(t, "revoking")
        /\ UNCHANGED <<setup, held, windows, fresh, sink, issued, owner, granted, parent>>
    BY <1>3 DEF InvalidateExpired, ports, At
  <2>2. Closes(t, "idle")
    BY <1>0, <1>3, InvalidateCloses DEF InvalidateExpired, Places
  <2>3. PlaceInv'
    BY <2>2, WorkerPlace, CallerPlace DEF Closes
  <2> QED BY <1>0, <2>1, <2>2, <2>3, OtherMoves DEF Places
<1> QED BY <1>1, <1>2, <1>3 DEF ThreadSteps

\* The same for the operation under opMu.
LEMMA OpThreadStep ==
  ASSUME CSInv, ThreadSteps("op")
  PROVE  CSInv'
<1> USE DEF OpInv, PhaseInv, LatchInv, CurrentInv, FencePermit, FreshInv, DoneInv, NoneHeld, Roles,
            OpPlaces, Creating, Rechecking, Retiring, Reopening, ClosingAll, DisablingOp, AtWindow,
            Shut, AfterRevoking
<1>0. CSTypeOK /\ OpInv /\ "op" \in Threads /\ ctl.epoch \in Nat /\ 0 <= ctl.epoch
  BY OpEpoch
<1>1. CASE RevokeReturns("op")
  <2>1. /\ At("op", "revoking") /\ granted' = [granted EXCEPT ![thr["op"].permit] = "ended"]
        /\ UNCHANGED <<setup, held, windows, fresh, sink, issued, owner, parent>> /\ ~At("op", "idle")
    BY <1>1 DEF RevokeReturns, At
  <2>2. Moves("op") /\ Fields("op", thr["op"].then, 0, 0, thr["op"].arg)
    BY <1>0, <1>1, ContinueEffect DEF RevokeReturns
  <2>3. Phase = thr["op"].then /\ Phase \in AfterRevoking /\ thr["op"].then # "revoking"
    BY <1>0, <2>1 DEF Phase
  <2>4. Calm \/ Fails
    BY <1>0, <1>1, LocalCalm, MarkFails DEF RevokeReturns
  <2>5. SeamEnds /\ (CtlSame \/ CtlFailed) /\ WorkStep /\ ctl'.permit = ctl.permit
    BY <2>4 DEF Calm, Fails, CtlSame, CtlFailed, WorkStep
  <2>6. PermitStep("op") /\ PortsKept
    BY <2>1, <2>2, <2>3, <2>5, PortsSame, OpEpoch DEF PermitStep, Fields
  <2>7. OpFrame
    BY <1>0, <2>1, <2>2, <2>5, <2>6 DEF OpFrame, PortsKept, Fields, CtlSame, CtlFailed
  <2>8. /\ granted[1] = "none" => granted'[1] = "none"
        /\ granted[2] = "none" => granted'[2] = "none"
    BY <1>0, <2>1, PermitType DEF CSInv, PermitInv, Permits
  <2>9. OpInv'
    BY <1>0, <2>1, <2>2, <2>3, <2>5, <2>8 DEF CtlSame, CtlFailed, Keeps, Fields, Phase, At, Moves, Threads, Authorized
  <2> QED BY <2>1, <2>7, <2>9, OpKept
<1>2. CASE MarkFailed("op")
  <2>1. /\ ~At("op", "idle") /\ ~At("op", "revoking") /\ Phase = "mark"
        /\ UNCHANGED <<setup, held, windows, fresh, sink, issued, owner, granted, parent>>
    BY <1>2 DEF MarkFailed, ports, At, Phase
  <2>2. Fails /\ To("op", "idle", 0, "none")
    BY <1>0, <1>2, MarkFails, ReturnTo DEF MarkFailed
  <2>3. OpFrame
    BY <1>0, <2>1, <2>2, OpMoves, PortsSame, OpEpoch DEF To
  <2>4. OpInv'
    BY <1>0, <2>1, <2>2 DEF Fails, CtlFailed, Keeps, To, Phase, At, Moves, Threads, Authorized
  <2> QED BY <2>1, <2>3, <2>4, OpKept
<1>3. CASE InvalidateExpired("op")
  <2>1. /\ ~At("op", "idle") /\ ~At("op", "revoking") /\ Phase = "expired"
        /\ UNCHANGED <<setup, held, windows, fresh, sink, issued, owner, granted, parent>>
    BY <1>3 DEF InvalidateExpired, ports, At, Phase
  <2>2. Closes("op", "idle")
    BY <1>0, <1>3, InvalidateCloses DEF InvalidateExpired, Places
  <2>3. OpFrame
    BY <2>1, <2>2, OpMoves, PortsSame, OpEpoch DEF Places
  <2>4. OpInv'
    BY <1>0, <2>1, <2>2 DEF Closes, CtlInvalid, Keeps, Phase, At, Moves, Threads, Authorized
  <2> QED BY <2>1, <2>3, <2>4, OpKept
<1> QED BY <1>1, <1>2, <1>3 DEF ThreadSteps

\* A step of the watcher that keeps the work or ends it by closing admission.
LEMMA WatcherKept ==
  ASSUME CSInv, Moves("watcher"), PermitStep("watcher"), WorkStep, SeamEnds, PortsKept,
         UNCHANGED <<setup, parent, sink, issued>>, ctl' \in CtlType,
         ctl.epoch <= ctl'.epoch, thr'["watcher"].epoch <= ctl'.epoch,
         PlaceInv', OpInv', WatcherInv'
  PROVE  CSInv'
<1>1. ActiveAdmitted' /\ SinksAgree' /\ work' \in [Works -> WorkStates]
  BY WorkKept DEF CSInv
<1>2. "watcher" \in Threads
  BY DEF Threads
<1> QED BY <1>1, <1>2, ThreadKept DEF CSInv, CSTypeOK, SeamEnds

\* What the watcher's move leaves to be shown.
LEMMA WatcherMoves ==
  ASSUME CSInv, PortsKept, ~At("watcher", "revoking"),
         UNCHANGED <<setup, parent, sink, issued, granted>>,
         PlaceInv', OpInv', WatcherInv',
         \/ /\ Calm \/ Fails
            /\ Moves("watcher") /\ thr'["watcher"].pc # "revoking" /\ thr'["watcher"].epoch <= ctl.epoch
         \/ Closes("watcher", "lock")
  PROVE  CSInv'
<1>0. ctl.epoch \in Nat /\ "watcher" \in Threads
  BY OpEpoch DEF Threads
<1>1. CASE /\ Calm \/ Fails
           /\ Moves("watcher") /\ thr'["watcher"].pc # "revoking" /\ thr'["watcher"].epoch <= ctl.epoch
  <2>1. thr'["watcher"].epoch \in Nat
    BY <1>0, <1>1 DEF Moves, ThreadType
  <2>2. ctl' \in CtlType /\ SeamEnds /\ ctl.epoch <= ctl'.epoch /\ thr'["watcher"].epoch <= ctl'.epoch /\ WorkStep
    BY <1>0, <1>1, <2>1 DEF Calm, Fails, CtlSame, CtlFailed, WorkStep
  <2>3. PermitStep("watcher")
    BY <1>1 DEF PermitStep, Calm, Fails, CtlSame, CtlFailed
  <2> QED BY <1>1, <2>2, <2>3, WatcherKept
<1>2. CASE Closes("watcher", "lock")
  <2>1. ctl' \in CtlType /\ SeamEnds /\ ctl.epoch <= ctl'.epoch /\ thr'["watcher"].epoch <= ctl'.epoch /\ WorkStep
    BY <1>0, <1>2 DEF Closes, CtlInvalid, WorkStep
  <2>2. PermitStep("watcher") /\ Moves("watcher")
    BY <1>2 DEF PermitStep, Closes, CtlInvalid
  <2> QED BY <2>1, <2>2, WatcherKept
<1> QED BY <1>1, <1>2

\* The handler of the parent's cancellation.
LEMMA WatcherStep ==
  ASSUME CSInv, WatcherSteps \/ WatcherLock \/ ThreadSteps("watcher")
  PROVE  CSInv'
<1>0. /\ CSTypeOK /\ OpInv /\ WatcherInv /\ "watcher" \in Threads /\ "watcher" \in Threads \ {"op"}
      /\ ctl.epoch \in Nat /\ 0 <= ctl.epoch /\ thr["watcher"].epoch <= ctl.epoch
  BY OpEpoch DEF Threads, CSInv, EpochInv
<1>1. CASE ParentGone
  <2>1. /\ At("watcher", "armed") /\ ~At("watcher", "revoking") /\ parent = "cancelled"
        /\ UNCHANGED <<setup, held, windows, fresh, sink, issued, owner, granted, parent>>
    BY <1>1 DEF ParentGone, ports, At
  <2>2. Closes("watcher", "lock")
    BY <1>0, <1>1, InvalidateCloses DEF ParentGone, Places
  <2>3. /\ PermitStep("watcher") /\ Moves("watcher") /\ CtlInvalid /\ PortsKept
        /\ thr'["op"] = thr["op"] /\ thr'["watcher"].pc \in {"revoking", "lock"}
    BY <2>1, <2>2, PortsSame, OpEpoch DEF PermitStep, Closes, CtlInvalid, Moves, Threads
  <2>4. PlaceInv'
    BY <2>2, WatcherPlace DEF Closes
  <2>5. OpInv'
    BY <1>0, <2>1, <2>3, OthersOp DEF OpInv, DoneInv, At
  <2>6. WatcherInv'
    BY <1>0, <2>1, <2>3 DEF WatcherInv, WatcherClosing, At, OwnerCurrent, CtlInvalid
  <2> QED BY <2>1, <2>2, <2>3, <2>4, <2>5, <2>6, WatcherMoves
<1>2. CASE RevokeReturns("watcher")
  <2>1. /\ At("watcher", "revoking") /\ granted' = [granted EXCEPT ![thr["watcher"].permit] = "ended"]
        /\ UNCHANGED <<setup, held, windows, fresh, sink, issued, owner, parent>>
    BY <1>2 DEF RevokeReturns
  <2>2. Moves("watcher") /\ Fields("watcher", "lock", 0, 0, thr["watcher"].arg)
    BY <1>0, <1>2, <2>1, ContinueEffect DEF RevokeReturns, CSInv, PlaceInv
  <2>3. Calm \/ Fails
    BY <1>0, <1>2, LocalCalm, MarkFails DEF RevokeReturns
  <2>4. /\ SeamEnds /\ (CtlSame \/ CtlInvalid \/ CtlFailed) /\ WorkStep /\ ctl'.permit = ctl.permit
        /\ ctl' \in CtlType /\ ctl.epoch <= ctl'.epoch /\ 0 <= ctl'.epoch /\ (ctl'.open => ctl.open)
    BY <1>0, <2>3 DEF Calm, Fails, CtlSame, CtlFailed, WorkStep
  <2>5. PermitStep("watcher") /\ PortsKept /\ thr'["op"] = thr["op"]
    BY <2>1, <2>2, <2>4, PortsSame, OpEpoch DEF PermitStep, Fields, Moves, Threads
  <2>6. PlaceInv'
    BY <2>2, WatcherPlace DEF Fields
  <2>7. OpInv'
    BY <1>0, <2>1, <2>2, <2>4, <2>5, OthersOp DEF OpInv, DoneInv, At, Fields
  <2>8. WatcherInv'
    BY <1>0, <2>1, <2>2, <2>4, <2>5 DEF WatcherInv, WatcherClosing, At, OwnerCurrent, Fields
  <2> QED BY <2>1, <2>2, <2>4, <2>5, <2>6, <2>7, <2>8, WatcherKept DEF Fields
<1>3. ~MarkFailed("watcher") /\ ~InvalidateExpired("watcher")
  BY DEF MarkFailed, InvalidateExpired, CSInv, PlaceInv, At, WatcherClosing
<1>4. CASE WatcherLock \/ waitRevocations
  <2>1. /\ UNCHANGED <<setup, held, windows, fresh, sink, issued, owner, granted, parent>>
        /\ ~At("watcher", "revoking") /\ ~At("watcher", "unarmed") /\ ~At("watcher", "armed")
        /\ ~At("watcher", "done") /\ At("op", "idle")
    BY <1>0, <1>4 DEF WatcherLock, waitRevocations, ports, At, WatcherInv, WatcherClosing, OpFree
  <2>2. /\ Calm \/ Fails
        /\ \E pc \in {"wait", "closeCollector"} : To("watcher", pc, thr["watcher"].epoch, thr["watcher"].arg)
    BY <1>0, <1>4, GotoTo, LocalCalm, MarkFails DEF WatcherLock, waitRevocations, Places
  <2>3. /\ PermitStep("watcher") /\ Moves("watcher") /\ (CtlSame \/ CtlInvalid \/ CtlFailed) /\ PortsKept
        /\ thr'["op"] = thr["op"] /\ thr'["watcher"].pc \in {"wait", "closeCollector"} /\ (ctl'.open => ctl.open)
    BY <2>1, <2>2, PortsSame, OpEpoch DEF PermitStep, To, Calm, Fails, CtlSame, CtlFailed, Moves, Threads
  <2>4. PlaceInv'
    BY <2>3, WatcherPlace DEF WatcherClosing
  <2>5. OpInv'
    BY <1>0, <2>1, <2>3, OthersOp DEF OpInv, DoneInv, At
  <2>6. WatcherInv'
    BY <1>0, <2>1, <2>3 DEF WatcherInv, WatcherClosing, At, OwnerCurrent
  <2> QED BY <1>0, <2>1, <2>2, <2>3, <2>4, <2>5, <2>6, WatcherMoves DEF To
<1>5. CASE Closing("watcher")
  <2> USE DEF PhaseInv, LatchInv, CurrentInv, FencePermit, FreshInv, DoneInv, NoneHeld, Roles,
              OpPlaces, Creating, Rechecking, Retiring, Reopening, ClosingAll, DisablingOp, AtWindow,
              Shut, AfterRevoking
  <2>1. CASE CloseCollector("watcher")
    <3>1. /\ PortsKept /\ held'["reader"] = held["reader"] /\ (held'["collector"] => held["collector"])
          /\ UNCHANGED <<setup, windows, parent, sink, issued, granted, fresh>>
          /\ At("watcher", "closeCollector")
          /\ \/ Fails /\ To("watcher", "closeEnd", thr["watcher"].epoch, thr["watcher"].arg) /\ thr'["watcher"].flag
             \/ /\ Calm /\ To("watcher", "closeReader", thr["watcher"].epoch, thr["watcher"].arg)
                /\ thr'["watcher"].flag \/ ~held'["collector"]
      BY <1>0, <2>1, CloseCollectorEffect
    <3>2. /\ At("op", "idle") /\ Phase = "idle" /\ ~ctl.open /\ ~At("watcher", "revoking")
          /\ parent = "cancelled" /\ ~At("watcher", "done")
      BY <1>0, <3>1 DEF WatcherInv, WatcherClosing, At, Phase
    <3>3. Moves("watcher") /\ thr'["op"] = thr["op"] /\ thr'["watcher"].pc \in {"closeEnd", "closeReader"}
      BY <3>1 DEF To, Moves, Threads
    <3>4. PlaceInv'
      BY <3>3, WatcherPlace DEF WatcherClosing
    <3>5. OpInv'
      BY <1>0, <3>1, <3>2, <3>3 DEF OpInv, Phase, At, Calm, Fails, CtlSame, CtlFailed, Keeps, Authorized
    <3>6. WatcherInv'
      BY <1>0, <3>1, <3>2, <3>3 DEF WatcherInv, WatcherClosing, At, OwnerCurrent, PortsKept, To,
                                    Calm, Fails, CtlSame, CtlFailed
    <3> QED BY <1>0, <3>1, <3>2, <3>4, <3>5, <3>6, WatcherMoves DEF To
  <2>2. CASE CloseReader("watcher")
    <3>1. /\ PortsKept /\ held'["collector"] = held["collector"] /\ (held'["reader"] => held["reader"])
          /\ windows' = {} \/ (windows' = windows /\ held' = held)
          /\ UNCHANGED <<setup, parent, sink, issued, granted, fresh, work, seamVars>>
          /\ At("watcher", "closeReader") /\ To("watcher", "closeEnd", thr["watcher"].epoch, thr["watcher"].arg)
          /\ ctl' \in CtlType /\ ctl'.started = ctl.started /\ ctl'.disabled = ctl.disabled
          /\ ctl'.open = ctl.open /\ ctl'.permit = ctl.permit /\ ctl'.permitEpoch = ctl.permitEpoch
          /\ ctl'.epoch = ctl.epoch /\ ctl'.revoked = ctl.revoked /\ ctl'.failed = ctl.failed
          /\ ctl'.retired = ctl.retired \/ (held["reader"] /\ ~held'["reader"] /\ ctl'.retired)
          /\ \/ thr'["watcher"].flag
             \/ thr'["watcher"].flag = thr["watcher"].flag /\ ~held'["reader"]
      BY <1>0, <2>2, CloseReaderEffect
    <3>2. /\ At("op", "idle") /\ Phase = "idle" /\ ~ctl.open /\ ~At("watcher", "revoking")
          /\ parent = "cancelled" /\ ~At("watcher", "done")
      BY <1>0, <3>1 DEF WatcherInv, WatcherClosing, At, Phase
    <3>3. Moves("watcher") /\ thr'["op"] = thr["op"] /\ thr'["watcher"].pc = "closeEnd"
      BY <3>1 DEF To, Moves, Threads
    <3>4. PlaceInv'
      BY <3>3, WatcherPlace DEF WatcherClosing
    <3>5. OpInv'
      BY <1>0, <3>1, <3>2, <3>3 DEF OpInv, Phase, At, Authorized
    <3>6. WatcherInv'
      BY <1>0, <3>1, <3>2, <3>3 DEF WatcherInv, WatcherClosing, At, OwnerCurrent, PortsKept
    <3>7. PermitStep("watcher") /\ WorkStep /\ SeamEnds
      BY <1>0, <3>1, <3>2, <3>3, SameSeam DEF PermitStep, WorkStep
    <3> QED BY <1>0, <3>1, <3>3, <3>4, <3>5, <3>6, <3>7, WatcherKept DEF To
  <2>3. CASE CloseEnd("watcher")
    <3>1. /\ UNCHANGED <<setup, held, windows, parent, sink, issued, owner, granted, fresh>>
          /\ At("watcher", "closeEnd") /\ To("watcher", "done", 0, "none")
          /\ Fails \/ (Calm /\ ~thr["watcher"].flag /\ Pending = {})
      BY <1>0, <2>3, CloseEndEffect
    <3>2. /\ At("op", "idle") /\ Phase = "idle" /\ ~ctl.open /\ ~At("watcher", "revoking") /\ parent = "cancelled"
          /\ ~thr["watcher"].flag => NoneHeld
      BY <1>0, <3>1 DEF WatcherInv, WatcherClosing, At, Phase
    <3>3. Moves("watcher") /\ thr'["op"] = thr["op"] /\ thr'["watcher"].pc = "done"
      BY <3>1 DEF To, Moves, Threads
    <3>4. PlaceInv'
      BY <3>3, WatcherPlace
    <3>5. OpInv'
      BY <1>0, <3>1, <3>2, <3>3 DEF OpInv, Phase, At, Calm, Fails, CtlSame, CtlFailed, Keeps, Authorized
    <3>6. ~ctl'.failed => \A t \in Threads : thr'[t].pc # "revoking"
      BY <3>1, <3>3 DEF Pending, At, Moves, Fails, CtlFailed
    <3>7. WatcherInv'
      BY <1>0, <3>1, <3>2, <3>3, <3>6 DEF WatcherInv, WatcherClosing, At, OwnerCurrent,
                                    Calm, Fails, CtlSame, CtlFailed
    <3>8. PortsKept
      BY <3>1, PortsSame, OpEpoch
    <3> QED BY <1>0, <3>1, <3>2, <3>4, <3>5, <3>7, <3>8, WatcherMoves DEF To
  <2> QED BY <1>5, <2>1, <2>2, <2>3 DEF Closing
<1> QED BY <1>1, <1>2, <1>3, <1>4, <1>5 DEF WatcherSteps, ThreadSteps

\* The goroutine that watches the parent is armed before a start is refused.
LEMMA StartStep ==
  ASSUME CSInv, Start
  PROVE  CSInv'
<1> USE DEF PhaseInv, LatchInv, CurrentInv, FencePermit, FreshInv, DoneInv, NoneHeld, Roles,
            OpPlaces, Creating, Rechecking, Retiring, Reopening, ClosingAll, DisablingOp, AtWindow,
            Shut, AfterRevoking
<1> DEFINE armed == [thr EXCEPT !["watcher"].pc = IF @ = "unarmed" THEN "armed" ELSE @]
           created == [Idle EXCEPT !.pc = "createReader", !.epoch = ctl.epoch]
           refused == ctl.started \/ ctl.disabled \/ ctl.failed \/ parent # "alive"
<1>0. /\ CSTypeOK /\ OpInv /\ WatcherInv /\ "op" \in Threads /\ "watcher" \in Threads
      /\ ctl.epoch \in Nat /\ 0 <= ctl.epoch
  BY OpEpoch DEF Threads, CSInv
<1>1. /\ UNCHANGED <<setup, work, seamVars, held, windows, fresh, sink, issued, owner, granted, parent>>
      /\ At("op", "idle") /\ Phase = "idle" /\ thr["watcher"].pc \notin WatcherClosing
  BY DEF Start, ports, OpFree, At, Phase, WatcherClosing
<1>2. /\ armed \in [Threads -> ThreadType]
      /\ \A t \in Threads \ {"watcher"} : armed[t] = thr[t]
      /\ armed["watcher"].pc = IF thr["watcher"].pc = "unarmed" THEN "armed" ELSE thr["watcher"].pc
      /\ armed["watcher"].permit = thr["watcher"].permit /\ armed["watcher"].epoch = thr["watcher"].epoch
      /\ armed["watcher"].then = thr["watcher"].then /\ armed["watcher"].flag = thr["watcher"].flag
  <2>1. "armed" \in Places
    BY DEF Places
  <2> QED BY <1>0, <2>1, TypeFacts DEF ThreadType
<1>3. created \in ThreadType /\ created.pc = "createReader" /\ created.epoch = ctl.epoch
  <2>1. "createReader" \in Places
    BY DEF Places
  <2> QED BY <1>0, <2>1, PlaceFacts DEF Idle, ThreadType
<1>4. \/ /\ refused /\ thr' = armed /\ UNCHANGED ctl
      \/ /\ ~refused /\ ctl' = [ctl EXCEPT !.started = TRUE, !.revoked = FALSE, !.lifecycle = "starting"]
         /\ thr' = [armed EXCEPT !["op"] = created]
  BY DEF Start
<1> HIDE DEF armed, created
<1>5. /\ thr' \in [Threads -> ThreadType]
      /\ \A t \in Threads : /\ thr'[t].pc = "revoking" <=> thr[t].pc = "revoking"
                            /\ thr[t].pc = "revoking" => thr'[t].permit = thr[t].permit
      /\ thr'["worker"] = thr["worker"] /\ thr'["caller"] = thr["caller"]
      /\ thr'["watcher"].pc = IF thr["watcher"].pc = "unarmed" THEN "armed" ELSE thr["watcher"].pc
      /\ thr'["watcher"].then = thr["watcher"].then /\ thr'["watcher"].epoch = thr["watcher"].epoch
      /\ thr'["watcher"].flag = thr["watcher"].flag
      /\ IF refused THEN thr'["op"] = thr["op"]
                    ELSE thr'["op"].pc = "createReader" /\ thr'["op"].epoch = ctl.epoch
  BY <1>0, <1>1, <1>2, <1>3, <1>4 DEF At, Threads
<1>6. /\ ctl' \in CtlType /\ ctl'.open = ctl.open /\ ctl'.permit = ctl.permit /\ ctl'.epoch = ctl.epoch
      /\ ctl'.permitEpoch = ctl.permitEpoch /\ ctl'.disabled = ctl.disabled /\ ctl'.failed = ctl.failed
      /\ ctl'.retired = ctl.retired
      /\ IF refused THEN ctl' = ctl ELSE ctl'.started /\ ~ctl'.revoked
  BY <1>0, <1>4, TypeFacts DEF CtlType, Lifecycles
<1>7. PermitInv' /\ PermitTracked'
  BY <1>1, <1>5, <1>6 DEF CSInv, PermitInv, PermitTracked, Pending, At
<1>8. ActiveAdmitted' /\ SinksAgree'
  BY <1>1, <1>6 DEF CSInv, ActiveAdmitted, SinksAgree, Authorized, seamVars
<1>9. CSTypeOK'
  BY <1>0, <1>1, <1>5, <1>6 DEF CSTypeOK, ThreadType, CtlType, Seam!SeamTypeOK, seamVars
<1>10. PlaceInv'
  BY <1>5 DEF CSInv, PlaceInv, At
<1>11. EpochInv'
  BY <1>0, <1>5, <1>6 DEF CSInv, EpochInv, Threads
<1>12. OpInv'
  BY <1>0, <1>1, <1>5, <1>6 DEF OpInv, WatcherInv, Phase, At, Authorized
<1>13. WatcherInv'
  BY <1>0, <1>1, <1>5, <1>6 DEF WatcherInv, WatcherClosing, At, OwnerCurrent
<1> QED BY <1>7, <1>8, <1>9, <1>10, <1>11, <1>12, <1>13 DEF CSInv

\* Owners that exit, evidence that expires, a parent that is cancelled.
LEMMA WorldStep ==
  ASSUME CSInv, World \/ UNCHANGED csVars
  PROVE  CSInv'
<1>1. /\ UNCHANGED <<setup, ctl, work, held, windows, sink, issued, granted, thr>>
      /\ (parent = "cancelled" => parent' = "cancelled") /\ parent' \in {"alive", "cancelled"}
      /\ owner' \in [Roles -> {"none", "current", "other", "clash", "stranded"}]
      /\ \A r \in Roles : owner'[r] = "current" => owner[r] = "current"
      /\ fresh' \in BOOLEAN
  <2>1. /\ owner \in [Roles -> {"none", "current", "other", "clash", "stranded"}] /\ fresh \in BOOLEAN
        /\ parent \in {"alive", "cancelled"}
    BY DEF CSInv, CSTypeOK
  <2>2. CASE \E r \in Roles : OwnerExits(r)
    BY <2>1, <2>2 DEF OwnerExits, local
  <2>3. CASE Expire \/ ParentCancel \/ UNCHANGED csVars
    BY <2>1, <2>3 DEF Expire, ParentCancel, csVars, local, ports
  <2> QED BY <2>2, <2>3 DEF World
<1>2. Seam!SeamTypeOK' /\ \A w \in Works : ticket'[w] = "completed" <=> ticket[w] = "completed"
  <2>1. Seam!SeamTypeOK
    BY DEF CSInv, CSTypeOK
  <2>2. CASE UNCHANGED seamVars
    BY <2>1, <2>2 DEF seamVars, Seam!SeamTypeOK
  <2>3. CASE Seam!Revoke
    BY <2>1, <2>3 DEF Seam!SeamTypeOK, Seam!Revoke, Seam!TicketStates
  <2>4. (\E r \in Roles : OwnerExits(r)) \/ ParentCancel \/ UNCHANGED csVars => UNCHANGED seamVars
    BY DEF OwnerExits, ParentCancel, csVars, local, seamVars
  <2>5. Expire => Seam!Revoke \/ UNCHANGED seamVars
    BY DEF Expire
  <2> QED BY <2>2, <2>3, <2>4, <2>5 DEF World
<1>3. CSTypeOK'
  BY <1>1, <1>2 DEF CSInv, CSTypeOK
<1>4. PlaceInv' /\ EpochInv' /\ PermitInv' /\ PermitTracked' /\ ActiveAdmitted'
  BY <1>1 DEF CSInv, PlaceInv, EpochInv, PermitInv, PermitTracked, ActiveAdmitted, Pending, At
<1>5. SinksAgree'
  BY <1>1, <1>2 DEF CSInv, SinksAgree, Authorized
<1>6. OpInv'
  BY <1>1 DEF CSInv, OpInv, PhaseInv, LatchInv, CurrentInv, FreshInv, DoneInv, FencePermit, NoneHeld, Phase, At, Authorized
<1>7. WatcherInv'
  BY <1>1 DEF CSInv, WatcherInv, OwnerCurrent, NoneHeld, At
<1> QED BY <1>3, <1>4, <1>5, <1>6, <1>7 DEF CSInv

\* A new controller has neither owners, nor permits, nor work.
LEMMA InitInv ==
  ASSUME CSInit
  PROVE  CSInv
<1>1. /\ thr \in [Threads -> ThreadType] /\ thr["op"].pc = "idle" /\ thr["worker"].pc = "idle"
      /\ thr["caller"].pc = "idle" /\ thr["watcher"].pc = "unarmed"
      /\ \A t \in Threads : thr[t].epoch = 0 /\ thr[t].pc # "revoking"
  <2>1. "idle" \in Places /\ "unarmed" \in Places
    BY DEF Places
  <2> QED BY <2>1 DEF CSInit, Threads, ThreadType, Idle
<1>2. CSTypeOK
  BY <1>1 DEF CSInit, CSTypeOK, ThreadType, Lifecycles, WorkStates, Seam!SeamInit, Seam!SeamTypeOK,
              Seam!TicketStates
<1>3. PlaceInv /\ EpochInv /\ PermitInv /\ PermitTracked /\ ActiveAdmitted /\ SinksAgree /\ WatcherInv
  BY <1>1 DEF CSInit, PlaceInv, EpochInv, PermitInv, PermitTracked, ActiveAdmitted, SinksAgree, WatcherInv,
              At, OwnerCurrent, WatcherClosing, WorkerCalls, Seam!SeamInit, Threads
<1>4. OpInv
  BY <1>1 DEF CSInit, OpInv, PhaseInv, LatchInv, CurrentInv, FencePermit, FreshInv, DoneInv, NoneHeld, Roles,
            OpPlaces, Creating, Rechecking, Retiring, Reopening, ClosingAll, DisablingOp, AtWindow,
            Shut, AfterRevoking, Phase, At, Permits
<1> QED BY <1>2, <1>3, <1>4 DEF CSInv

\* The controller always satisfies CSInv: every handler of
\* development_concurrent_session.go, in any interleaving of its goroutines, keeps it.
THEOREM SessionInvariant == CSSpec => []CSInv
<1>1. CSInit => CSInv
  BY InitInv
<1>2. CSInv /\ [CSNext]_csVars => CSInv'
  <2> SUFFICES ASSUME CSInv, [CSNext]_csVars PROVE CSInv'
    OBVIOUS
  <2>1. CASE OpSteps
    BY <2>1, StartupSteps, ReaderStep, DisablingStep, ClosingStep DEF OpSteps
  <2>2. ASSUME NEW t \in Threads, ThreadSteps(t) PROVE CSInv'
    BY <2>2, ThreadStep, OpThreadStep, WatcherStep DEF Threads
  <2>3. CASE WorkerSteps
    BY <2>3, WorkerStep
  <2>4. CASE CallerSteps
    BY <2>4, CallerStep
  <2>5. CASE WatcherSteps \/ WatcherLock
    BY <2>5, WatcherStep
  <2>6. CASE Calls
    BY <2>6, StartStep, OpCalls, WorkerStep, CallerStep DEF Calls
  <2>7. CASE World \/ UNCHANGED csVars
    BY <2>7, WorldStep
  <2> QED BY <2>1, <2>2, <2>3, <2>4, <2>5, <2>6, <2>7 DEF CSNext
<1> QED BY <1>1, <1>2, PTL DEF CSSpec

\* Admission is sound for any number of work items and windows: work is active only
\* under open admission, admission is open only with its owners held, its fence's
\* permit granted and no revocation, disabling or failed cleanup since, and a permit
\* the port grants is remembered or being revoked.
THEOREM AdmissionIsSound == CSSpec => []AdmissionSound
<1>1. CSInv => AdmissionSound
  <2> SUFFICES ASSUME CSInv PROVE AdmissionSound
    OBVIOUS
  <2>1. CSTypeOK /\ ActiveAdmitted /\ PermitTracked /\ LatchInv /\ CurrentInv /\ PermitInv
    BY DEF CSInv, OpInv
  <2>2. AdmissionBacked
    BY <2>1 DEF AdmissionBacked, LatchInv, CurrentInv, PermitInv
  <2> QED BY <2>1, <2>2 DEF AdmissionSound
<1> QED BY <1>1, SessionInvariant, PTL

\* A step without effect on the owners leaves them remembered, and a cleanup that
\* failed remains so.
LEMMA OwnersAlone ==
  ASSUME CSTypeOK, OwnerInv, UNCHANGED <<owner, held>>, ctl.failed => ctl'.failed
  PROVE  OwnerInv'
BY DEF OwnerInv, CSTypeOK

\* Closing a role forgets the owner it found gone, and no other.
LEMMA OwnersClosed ==
  ASSUME CSInv, OwnerInv, NEW r \in Roles, ctl.failed => ctl'.failed,
         \/ ClosedRole(r) /\ held' = [held EXCEPT ![r] = FALSE]
         \/ UnclosedRole(r) /\ UNCHANGED held
  PROVE  OwnerInv'
<1>1. CASE ClosedRole(r) /\ held' = [held EXCEPT ![r] = FALSE]
  <2>1. owner'[r] = "none" /\ \A q \in Roles \ {r} : owner'[q] = owner[q] /\ held'[q] = held[q]
    BY <1>1, OwnerTypes DEF ClosedRole
  <2> QED BY <2>1 DEF OwnerInv
<1>2. CASE UnclosedRole(r) /\ UNCHANGED held
  <2>1. \A q \in Roles : owner'[q] \in {owner[q], "none"}
    BY <1>2, OwnerTypes DEF UnclosedRole
  <2> QED BY <1>2, <2>1 DEF OwnerInv
<1> QED BY <1>1, <1>2

\* What every step does to the owners.
LEMMA OwnersKept ==
  ASSUME CSInv, OwnerInv, [CSNext]_csVars
  PROVE  OwnerInv'
<1>0. CSTypeOK
  BY DEF CSInv
<1>1. markCleanupFailedLocked \/ invalidateLocked \/ updateCleanupStateLocked \/ UNCHANGED ctl
        => (ctl.failed => ctl'.failed)
  <2>1. markCleanupFailedLocked => (ctl.failed => ctl'.failed)
    BY <1>0, MarkEffect DEF CtlFailed
  <2>2. invalidateLocked => (ctl.failed => ctl'.failed)
    BY <1>0, InvalidateLockedEffect DEF CtlInvalid
  <2>3. updateCleanupStateLocked => (ctl.failed => ctl'.failed)
    BY <1>0, <2>1, TypeFacts DEF updateCleanupStateLocked, CtlType
  <2> QED BY <2>1, <2>2, <2>3
<1>2. RetireReader => (ctl.failed => ctl'.failed) /\ held' = [held EXCEPT !["reader"] = FALSE]
  BY <1>0, TypeFacts DEF RetireReader, CtlType
<1>3. "reader" \in Roles /\ "collector" \in Roles
  BY DEF Roles
<1>4. ASSUME NEW r \in Roles, CreateOwner(r) PROVE OwnerInv'
  <2>1. ctl.failed => ctl'.failed
    BY <1>1, <1>4 DEF CreateOwner, local
  <2>2. \A q \in Roles \ {r} : owner'[q] = owner[q] /\ (held[q] => held'[q])
    BY <1>4, OwnerTypes DEF CreateOwner
  <2>3. owner'[r] \in {"none", "stranded"} \/ held'[r] \/ ctl'.failed
    <3>1. markCleanupFailedLocked => ctl'.failed
      BY <1>0, MarkEffect DEF CtlFailed
    <3> QED BY <1>4, <3>1, OwnerTypes DEF CreateOwner
  <2> QED BY <2>1, <2>2, <2>3 DEF OwnerInv
<1>5. ASSUME NEW t \in Threads, Closing(t) PROVE OwnerInv'
  <2>1. CASE CloseCollector(t)
    BY <1>0, <1>1, <1>3, <2>1, OwnersAlone, OwnersClosed DEF CloseCollector, local
  <2>2. CASE CloseReader(t)
    <3>1. CASE ~held["reader"]
      BY <1>0, <1>1, <2>2, <3>1, OwnersAlone DEF CloseReader
    <3>2. CASE held["reader"]
      BY <1>1, <1>2, <1>3, <2>2, <3>2, OwnersClosed DEF CloseReader
    <3> QED BY <3>1, <3>2
  <2>3. CASE CloseEnd(t)
    <3>1. UNCHANGED <<owner, held>> /\ (ctl.failed => ctl'.failed)
      BY <1>0, <1>1, <2>3, TypeFacts DEF CloseEnd, CtlType, ports
    <3> QED BY <1>0, <3>1, OwnersAlone
  <2> QED BY <1>5, <2>1, <2>2, <2>3 DEF Closing
<1>6. CASE DisableCollector \/ DisableReader
  <2>1. CASE DisableCollector
    BY <1>0, <1>1, <1>3, <2>1, OwnersAlone, OwnersClosed DEF DisableCollector, local
  <2>2. CASE DisableReader
    BY <1>0, <1>1, <1>2, <1>3, <2>2, OwnersAlone, OwnersClosed DEF DisableReader, local
  <2> QED BY <1>6, <2>1, <2>2
<1>7. CASE ReaderRetires
  BY <1>1, <1>2, <1>3, <1>7, OwnersClosed DEF ReaderRetires, invalidate
<1>8. CASE \E r \in Roles : OwnerExits(r)
  <2>1. UNCHANGED <<ctl, held>>
    BY <1>8 DEF OwnerExits, local
  <2>2. \A q \in Roles : owner'[q] \in {owner[q], "none"} \/ OwnerCurrent(q)
    BY <1>8, OwnerTypes DEF OwnerExits, OwnerCurrent
  <2> QED BY <2>1, <2>2, OwnerTypes DEF OwnerInv, OwnerCurrent
<1>9. ASSUME UNCHANGED <<owner, held>>, ctl.failed => ctl'.failed PROVE OwnerInv'
  BY <1>0, <1>9, OwnersAlone
<1> USE DEF local, ports
<1>10. CASE Startup
  <2>1. CASE \E r \in Roles : CreateOwner(r)
    BY <1>4, <2>1
  <2>2. CASE prove("reader") \/ prove("collector") \/ RecheckOwners \/ Authorize
    BY <1>9, <2>2 DEF prove, RecheckOwners, Authorize
  <2>3. CASE Grant
    <3>1. ctl.failed => ctl'.failed
      BY <2>3, <1>0, TypeFacts DEF Grant, rememberPermit, CtlType
    <3> QED BY <1>9, <2>3, <3>1 DEF Grant
  <2>4. CASE OpenAdmission \/ failStart
    <3>1. ctl.failed => ctl'.failed
      BY <2>4, <1>0, <1>1, TypeFacts DEF OpenAdmission, failStart, invalidate, CtlType
    <3> QED BY <1>9, <2>4, <3>1 DEF OpenAdmission, failStart
  <2> QED BY <1>3, <1>10, <2>1, <2>2, <2>3, <2>4 DEF Startup
<1>11. CASE ReaderSteps
  <2>1. CASE CheckReader \/ WindowOpened \/ WindowClosed \/ readerRetiredDecision \/ IndependentProof \/ IndependentCheck
    <3>1. ctl.failed => ctl'.failed
      BY <1>1, <2>1 DEF CheckReader, WindowOpened, WindowClosed, readerRetiredDecision, IndependentProof,
           IndependentCheck, invalidate
    <3> QED BY <1>9, <2>1, <3>1 DEF CheckReader, WindowOpened, WindowClosed, readerRetiredDecision,
           IndependentProof, IndependentCheck
  <2>2. CASE IndependentGrant \/ IndependentOpen
    <3>1. ctl.failed => ctl'.failed
      BY <1>0, <1>1, <2>2, TypeFacts DEF IndependentGrant, IndependentOpen, rememberPermit, invalidate, CtlType
    <3> QED BY <1>9, <2>2, <3>1 DEF IndependentGrant, IndependentOpen
  <2> QED BY <1>7, <1>11, <2>1, <2>2 DEF ReaderSteps
<1>12. CASE Disabling
  <2>1. CASE DisableMark \/ DisableEnd
    <3>1. ctl.failed => ctl'.failed
      BY <1>0, <1>1, <2>1, TypeFacts DEF DisableMark, DisableEnd, CtlType
    <3> QED BY <1>9, <2>1, <3>1 DEF DisableMark, DisableEnd
  <2> QED BY <1>6, <1>12, <2>1 DEF Disabling
<1>13. CASE \E t \in Threads : ThreadSteps(t)
  <2>1. ctl.failed => ctl'.failed
    BY <1>1, <1>13 DEF ThreadSteps, RevokeReturns, MarkFailed, InvalidateExpired, invalidate
  <2> QED BY <1>9, <1>13, <2>1 DEF ThreadSteps, RevokeReturns, MarkFailed, InvalidateExpired
<1>14. CASE WorkerSteps \/ CallerSteps
  <2>1. ctl.failed => ctl'.failed
    BY <1>0, <1>1, <1>14, TypeFacts DEF WorkerSteps, CallerSteps, CheckOwners, ClaimCommit, CompleteCommit,
         ExpiredAt, CollectorLostMark, RenewReturns, invalidate, CtlType
  <2> QED BY <1>9, <1>14, <2>1 DEF WorkerSteps, CallerSteps, CheckOwners, ClaimCommit, CompleteCommit,
         CollectorLostMark, RenewReturns
<1>15. CASE WatcherSteps \/ WatcherLock
  <2>1. CASE ParentGone \/ waitRevocations \/ WatcherLock
    <3>1. ctl.failed => ctl'.failed
      BY <1>1, <2>1 DEF ParentGone, waitRevocations, WatcherLock, invalidate
    <3> QED BY <1>9, <2>1, <3>1 DEF ParentGone, waitRevocations, WatcherLock
  <2> QED BY <1>5, <1>15, <2>1 DEF WatcherSteps, Threads
<1>16. CASE Calls
  <2>1. ctl.failed => ctl'.failed
    BY <1>0, <1>1, <1>16, TypeFacts DEF Calls, Start, Disable, OpenReaderWindow, CloseReaderWindow, QueueWork, Ticket,
         Submit, Cancel, Revoke, Changed, Block, CollectorLost, Snapshot, RenewEvidence, ExpiredAt, invalidate, CtlType
  <2> QED BY <1>9, <1>16, <2>1 DEF Calls, Start, Disable, OpenReaderWindow, CloseReaderWindow, QueueWork, Ticket,
         Submit, Cancel, Revoke, Changed, CollectorLost, Snapshot, RenewEvidence
<1>17. CASE World \/ UNCHANGED csVars
  BY <1>8, <1>9, <1>17 DEF World, Expire, ParentCancel, csVars
<1>18. CASE OpSteps
  BY <1>5, <1>10, <1>11, <1>12, <1>18 DEF OpSteps, Threads
<1> QED BY <1>13, <1>14, <1>15, <1>16, <1>17, <1>18 DEF CSNext

\* Every owner but a stranded one is remembered, or the cleanup is known as failed.
THEOREM OwnerInvariant == CSSpec => []OwnerInv
<1>1. CSInit => OwnerInv
  BY DEF CSInit, OwnerInv
<1> QED BY <1>1, OwnersKept, SessionInvariant, PTL DEF CSSpec

\* The controller and its ports agree for any number of work items and windows: the
\* completed work is exactly what reached the sinks, a reader with windows is held,
\* and a cleanup after the parent's cancellation that reports success has left no
\* window, permit or admission behind, and no owner but one whose creation the port
\* reported as failed.
THEOREM PortsAlwaysAgree == CSSpec => []PortsAgree
<1>1. CSInv /\ OwnerInv => PortsAgree
  <2> SUFFICES ASSUME CSInv, OwnerInv PROVE PortsAgree
    OBVIOUS
  <2>1. SinksAgree /\ WindowsHeld /\ WatcherInv /\ DoneInv /\ PermitTracked
    BY DEF CSInv, OpInv, LatchInv, WindowsHeld
  <2>2. ParentCleanup
    <3> SUFFICES ASSUME At("watcher", "done"), ~ctl.failed
                 PROVE  /\ NoneHeld /\ (\A r \in Roles : owner[r] \in {"none", "stranded"})
                        /\ windows = {} /\ ~ctl.open
                        /\ \A p \in Permits : granted[p] # "granted"
      BY DEF ParentCleanup
    <3>1. NoneHeld /\ ctl.permit = 0 /\ Pending = {} /\ ~ctl.open
      BY <2>1 DEF DoneInv, WatcherInv, Pending, At
    <3>2. windows = {} /\ \A r \in Roles : owner[r] \in {"none", "stranded"}
      BY <2>1, <3>1, OwnerTypes DEF OwnerInv, NoneHeld, WindowsHeld, Roles
    <3>3. \A p \in Permits : granted[p] # "granted"
      BY <2>1, <3>1 DEF PermitTracked, Permits
    <3> QED BY <3>1, <3>2, <3>3
  <2> QED BY <2>1, <2>2 DEF PortsAgree
<1> QED BY <1>1, SessionInvariant, OwnerInvariant, PTL

\* What a step may do to work that ended.
LEMMA EndedKept ==
  ASSUME CSTypeOK, PlaceInv, [CSNext]_csVars, NEW w \in Works, work[w] \in {"complete", "cancelled"}
  PROVE  work'[w] = work[w]
<1>1. work \in [Works -> WorkStates]
  BY DEF CSTypeOK
<1>2. CASE UNCHANGED work
  BY <1>2
<1>3. CASE work' = CancelActive
  BY <1>3 DEF CancelActive
<1>4. ASSUME NEW v \in Works, NEW s \in WorkStates, work[v] \in {"none", "queued", "active"},
             work' = [work EXCEPT ![v] = s]
      PROVE  work'[w] = work[w]
  BY <1>1, <1>4
<1> USE DEF local, invalidate, invalidateLocked, markCleanupFailedLocked
<1>5. CASE OpSteps
  <2>1. CASE Startup
    BY <1>2, <1>3, <2>1 DEF Startup, CreateOwner, prove, Grant, Authorize, RecheckOwners, OpenAdmission, failStart
  <2>2. CASE ReaderSteps
    BY <1>2, <1>3, <2>2 DEF ReaderSteps, CheckReader, WindowOpened, WindowClosed, ReaderRetires,
        readerRetiredDecision, IndependentProof, IndependentGrant, IndependentCheck, IndependentOpen, updateCleanupStateLocked
  <2>3. CASE Disabling
    BY <1>2, <1>3, <2>3 DEF Disabling, DisableMark, DisableCollector, DisableReader, DisableEnd, updateCleanupStateLocked
  <2>4. CASE Closing("op")
    BY <1>2, <1>3, <2>4 DEF Closing, CloseCollector, CloseReader, CloseEnd
  <2> QED BY <1>5, <2>1, <2>2, <2>3, <2>4 DEF OpSteps
<1>6. CASE \E t \in Threads : ThreadSteps(t)
  BY <1>2, <1>3, <1>6 DEF ThreadSteps, RevokeReturns, MarkFailed, InvalidateExpired
<1>7. CASE WorkerSteps
  <2>1. CASE CheckOwners
    BY <1>2, <1>3, <2>1 DEF CheckOwners
  <2>2. CASE ClaimCommit \/ CompleteCommit
    <3>1. thr["worker"].arg \in Works
      BY <2>2 DEF ClaimCommit, CompleteCommit, PlaceInv, WorkerCalls, At
    <3> QED BY <1>2, <1>4, <2>2, <3>1 DEF ClaimCommit, CompleteCommit, ExpiredAt, WorkStates
  <2> QED BY <1>7, <2>1, <2>2 DEF WorkerSteps
<1>8. CASE CallerSteps \/ WatcherSteps \/ WatcherLock \/ World \/ UNCHANGED csVars
  BY <1>2, <1>3, <1>8 DEF CallerSteps, CollectorLostMark, RenewReturns, WatcherSteps, ParentGone, waitRevocations,
        Closing, CloseCollector, CloseReader, CloseEnd, WatcherLock, World, OwnerExits, Expire, ParentCancel, csVars
<1>9. CASE Calls
  <2>1. ASSUME NEW v \in Works, QueueWork(v) \/ Ticket(v) \/ Submit(v, "claim") \/ Submit(v, "complete") \/ Cancel(v)
        PROVE  work'[w] = work[w]
    BY <1>2, <1>4, <2>1 DEF QueueWork, Ticket, Submit, Cancel, ExpiredAt, WorkStates
  <2>2. CASE \/ Start \/ Disable \/ (\E id \in Windows : OpenReaderWindow(id) \/ CloseReaderWindow(id))
             \/ Revoke \/ Changed \/ CollectorLost \/ Snapshot \/ RenewEvidence
    BY <1>2, <1>3, <2>2 DEF Start, Disable, OpenReaderWindow, CloseReaderWindow, Revoke, Changed, CollectorLost,
        Snapshot, RenewEvidence, ExpiredAt
  <2> QED BY <1>9, <2>1, <2>2 DEF Calls
<1> QED BY <1>5, <1>6, <1>7, <1>8, <1>9 DEF CSNext

\* Completed or cancelled work is never claimed, completed or cancelled again, by
\* however late a call of Claim, Complete or Cancel.
THEOREM EndedWorkStaysEnded == CSSpec => EndedWorkStays
<1>1. CSInv /\ [CSNext]_csVars =>
        [\A w \in Works : work[w] \in {"complete", "cancelled"} => work'[w] = work[w]]_csVars
  BY EndedKept DEF CSInv
<1> QED BY <1>1, SessionInvariant, PTL DEF CSSpec, EndedWorkStays
=============================================================================
