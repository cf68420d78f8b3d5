------------------------ MODULE CollectionCoordinator ------------------------
(***************************************************************************)
(* The collection coordinator (internal/collection/coordinator.go) over    *)
(* the capture runtime manager it drives.  One reconciliation loop turns   *)
(* the requested mode and the borrowers' intents into calls of Replace and *)
(* Recover; borrowers poll until the owner is a browser and then take a    *)
(* lease; sessions take leases on whatever owner there is.                 *)
(*                                                                         *)
(* Every value read under Coordinator.mu or from a Snapshot is read in one *)
(* step and used in a later one, as the code does.  The fixture, develop-  *)
(* ment and concurrent-session hooks, nil in ordinary builds, are left     *)
(* out.  The counters interactive, nativeReaders and browserCollection are *)
(* the cardinalities of sets of borrowers: each increment is undone by a   *)
(* sync.Once.                                                              *)
(***************************************************************************)
EXTENDS CaptureRuntime

CONSTANTS Modes,     \* modes the settings may request
          Roles,     \* kinds of borrow
          Shutdowns  \* whether the owner may be retained or terminated

ASSUME ModesAssumption == Modes \subseteq Drivers /\ "browser" \in Modes
ASSUME RolesAssumption ==
  Roles \subseteq {"source", "native", "collection"} /\ "source" \in Roles
ASSUME ShutdownsAssumption == Shutdowns \in BOOLEAN

VARIABLES
  requested,    \* Coordinator.requested
  failure,      \* Coordinator.failure is not empty
  retry,        \* Coordinator.retry
  nativeGen,    \* Coordinator.nativeReaderGeneration
  headlessGen,  \* the process in Coordinator.headless; None is nil
  readers,      \* processes that really were launched as native_reader
  phase,        \* where each caller is in its borrow
  role,         \* which borrow it is
  rpc,          \* the step reconcile is at
  rlocal        \* its locals: mode, retry, nativeOnly, launchReader, s.State

intents == <<requested, failure, retry>>
borrows == <<phase, role>>
loop == <<rpc, rlocal>>
backends == <<nativeGen, headlessGen, readers>>
cvars == <<vars, intents, borrows, loop, backends>>

Interested == {"waiting", "missed", "seen", "acquire", "mismatch", "held", "unleased"}

\* What the three counters count.
Interactive == {l \in Leases : role[l] \in {"source", "native"} /\ phase[l] \in Interested}
NativeReaders ==
  {l \in Leases : role[l] = "native" /\ phase[l] \in Interested \cup {"opening", "closing"}}
BrowserCollection == {l \in Leases : role[l] = "collection" /\ phase[l] \in Interested}

SnapshotDriver == IF current = None THEN "" ELSE driver[current]
ReadyBrowser == state = "ready" /\ SnapshotDriver = "browser"
NativeReaderOnly == nativeGen # None /\ nativeGen = generation

CTypeOK ==
  /\ requested \in Modes /\ failure \in BOOLEAN /\ retry \in BOOLEAN
  /\ nativeGen \in {None} \cup Generations /\ headlessGen \in {None} \cup Generations
  /\ readers \subseteq Generations
  /\ phase \in [Leases -> Interested \cup {"none", "opening", "closing", "session"}]
  /\ role \in [Leases -> Roles]
  /\ rpc \in {"idle", "decide", "validate", "operate", "transition", "failed", "succeeded"}
  /\ rlocal \in [mode : Drivers, retry : BOOLEAN, nativeOnly : BOOLEAN,
                 launchReader : BOOLEAN, state : States, retiring : BOOLEAN]

\* The locals of reconcile, cleared as soon as the code uses them no more.
NoLocals == [mode |-> "browser", retry |-> FALSE, nativeOnly |-> FALSE,
             launchReader |-> FALSE, state |-> "ready", retiring |-> FALSE]

CInit ==
  /\ Init /\ driver[1] = "browser"
  /\ requested = "browser" /\ failure = FALSE /\ retry = FALSE
  /\ nativeGen = None /\ headlessGen = None /\ readers = {}
  /\ phase = [l \in Leases |-> "none"] /\ role = [l \in Leases |-> "source"]
  /\ rpc = "idle"
  /\ rlocal = NoLocals

-----------------------------------------------------------------------------
(***************************************************************************)
(* Intent.                                                                 *)
(***************************************************************************)
Request(mode) ==
  /\ IF persistent /\ mode # "browser"
       THEN failure' = TRUE /\ UNCHANGED <<requested, retry>>
       ELSE requested' = mode /\ retry' = TRUE /\ failure' = FALSE
  /\ UNCHANGED <<vars, borrows, loop, backends>>

Retry ==
  /\ retry' = TRUE /\ failure' = FALSE
  /\ UNCHANGED <<vars, requested, borrows, loop, backends>>

-----------------------------------------------------------------------------
(***************************************************************************)
(* Reconciliation, run on every tick and on every wake.                    *)
(***************************************************************************)
\* Every interactive borrow is a reader's, by the counters.
OnlyReadersWait ==
  /\ requested = "headless" /\ NativeReaders # {}
  /\ Cardinality(Interactive) = Cardinality(NativeReaders)
  /\ BrowserCollection = {}

Reconcile ==
  /\ rpc = "idle" /\ ~persistent
  /\ rpc' = "decide"
  /\ rlocal' =
       [mode |-> IF Interactive # {} \/ BrowserCollection # {} THEN "browser" ELSE requested,
        retry |-> retry,
        nativeOnly |-> NativeReaderOnly,
        launchReader |-> OnlyReadersWait,
        state |-> "ready", retiring |-> FALSE]
  /\ UNCHANGED <<vars, intents, borrows, backends>>

\* Fault: any ready owner satisfies the mode.
AnyReadyOwner == state = "ready" /\ ~(rlocal.nativeOnly /\ ~rlocal.launchReader)

Satisfied ==
  /\ state = "ready" /\ SnapshotDriver = rlocal.mode
  /\ ~(rlocal.nativeOnly /\ ~rlocal.launchReader)

\* Manager.Retiring: a browser whose close was attempted may be waiting for
\* its remaining windows.
RetiringReports ==
  IF current \in intentional /\ driver[current] = "browser" THEN BOOLEAN ELSE {FALSE}

Decide ==
  /\ rpc = "decide"
  /\ \E retiring \in RetiringReports :
       LET nothingToDo ==
             \/ Satisfied
             \/ leases > 0
             \/ /\ state \in {"blocked", "failed"}
                /\ ~rlocal.retry /\ ~retiring /\ ~rlocal.nativeOnly
       IN /\ rpc' = IF nothingToDo THEN "idle"
                    ELSE IF rlocal.mode = "headless" THEN "validate" ELSE "operate"
          /\ rlocal' = IF nothingToDo THEN NoLocals
                       ELSE [mode |-> rlocal.mode, retry |-> FALSE, nativeOnly |-> FALSE,
                             launchReader |-> rlocal.launchReader,
                             state |-> state, retiring |-> retiring]
  /\ UNCHANGED <<vars, intents, borrows, backends>>

\* The worker assets are checked, and the retained permissions confirmed,
\* before a healthy owner is given up.
Validated ==
  /\ rpc = "validate" /\ rpc' = "operate"
  /\ UNCHANGED <<vars, intents, borrows, rlocal, backends>>

AssetsMissing ==
  /\ rpc = "validate" /\ rpc' = "idle"
  /\ failure' = TRUE /\ retry' = FALSE /\ rlocal' = NoLocals
  /\ UNCHANGED <<vars, requested, borrows, backends>>

PermissionsUnconfirmed ==
  /\ rpc = "validate" /\ ~rlocal.retiring /\ rpc' = "idle"
  /\ failure' = TRUE /\ rlocal' = NoLocals
  /\ UNCHANGED <<vars, requested, retry, borrows, backends>>

Launching ==
  rlocal' = [mode |-> rlocal.mode, retry |-> FALSE, nativeOnly |-> FALSE,
             launchReader |-> rlocal.launchReader, state |-> "ready", retiring |-> FALSE]
Recovering == rlocal.state \in {"blocked", "failed"}

CallReplace ==
  /\ rpc = "operate" /\ rpc' = "transition" /\ ~Recovering
  /\ Replace /\ Launching
  /\ UNCHANGED <<intents, borrows, backends>>

CallRecover ==
  /\ rpc = "operate" /\ rpc' = "transition" /\ Recovering
  /\ Recover /\ Launching
  /\ UNCHANGED <<intents, borrows, backends>>

\* The manager refuses: ErrPersistent, ErrStopped, ErrUnavailable or ErrBusy.
CallRefused ==
  /\ rpc = "operate" /\ rpc' = "failed" /\ pc = "idle"
  /\ \/ persistent \/ stopped \/ leases # 0
     \/ ~Recovering /\ launchBlocked
     \/ Recovering /\ (current = None \/ state \notin {"blocked", "failed"})
  /\ UNCHANGED <<vars, intents, borrows, rlocal, backends>>

\* A step of the transition up to the call of the factory; it ends in an error.
Handoff ==
  /\ rpc = "transition"
  /\ \/ TransitionReady \/ TransitionNotReady \/ OwnerReady \/ OwnerNotReady
     \/ CloseOwner \/ CloseFails \/ Vacate \/ LaunchCancelled
  /\ rpc' = IF pc' = "idle" THEN "failed" ELSE rpc
  /\ UNCHANGED <<intents, borrows, rlocal, backends>>

AsReader == rlocal.mode = "browser" /\ rlocal.launchReader

\* What the factory records when the launch succeeds.
Factory ==
  /\ headlessGen' = IF rlocal.mode = "headless" THEN generation ELSE None
  /\ nativeGen' = IF AsReader THEN generation ELSE None
  /\ readers' = IF AsReader THEN readers \cup {generation} ELSE readers

HandoffDone ==
  /\ rpc = "transition" /\ rpc' = "succeeded"
  /\ Launched(rlocal.mode)
  /\ Factory
  /\ UNCHANGED <<intents, borrows, rlocal>>

\* The factory failed, or it succeeded after the 90 second context had ended.
HandoffFails ==
  /\ rpc = "transition" /\ rpc' = "failed"
  /\ \/ \E returned, left \in BOOLEAN :
          LaunchFails(returned, left, rlocal.mode) /\ UNCHANGED backends
     \/ LaunchFails(TRUE, TRUE, rlocal.mode) /\ Factory
  /\ UNCHANGED <<intents, borrows, rlocal>>

Finish ==
  /\ rpc \in {"failed", "succeeded"} /\ rpc' = "idle"
  /\ failure' = (rpc = "failed") /\ retry' = FALSE /\ rlocal' = NoLocals
  /\ UNCHANGED <<vars, requested, borrows, backends>>

-----------------------------------------------------------------------------
(***************************************************************************)
(* Borrows: borrowBrowserMode and its callers.                             *)
(***************************************************************************)
\* The caller moves on; a call that has returned has no role.
At(l, p) ==
  /\ phase' = [phase EXCEPT ![l] = p]
  /\ role' = [role EXCEPT ![l] = IF p = "none" THEN "source" ELSE @]

Enter(l, r, p) == phase' = [phase EXCEPT ![l] = p] /\ role' = [role EXCEPT ![l] = r]

\* BorrowNativeReader counts the reader before its intent is registered.
OpenNative(l) ==
  /\ "native" \in Roles /\ phase[l] = "none"
  /\ Enter(l, "native", "opening")
  /\ UNCHANGED <<vars, intents, loop, backends>>

BeginBorrow(l, r) ==
  /\ phase[l] = IF r = "native" THEN "opening" ELSE "none"
  /\ Enter(l, r, "waiting")
  /\ retry' = TRUE /\ failure' = FALSE
  /\ UNCHANGED <<vars, requested, loop, backends>>

Poll(l) ==
  /\ phase[l] = "waiting"
  /\ At(l, IF ReadyBrowser THEN "seen" ELSE "missed")
  /\ UNCHANGED <<vars, intents, loop, backends>>

\* releaseIntent; a reader is still counted until its done runs.
Withdrawn(l) == IF role[l] = "native" THEN "closing" ELSE "none"

\* Only readers may use a reader-only owner.
CheckReader(l) ==
  /\ phase[l] = "seen"
  /\ At(l, IF NativeReaderOnly /\ role[l] # "native" THEN Withdrawn(l) ELSE "acquire")
  /\ UNCHANGED <<vars, intents, loop, backends>>

\* The failure of a reconciliation, or the end of the context, ends the wait.
Missed(l) ==
  /\ phase[l] = "missed"
  /\ \/ At(l, Withdrawn(l))
     \/ ~failure /\ At(l, "waiting")
  /\ UNCHANGED <<vars, intents, loop, backends>>

\* Fault: the driver of the lease is not looked at again.
AcquireAnyDriver(l) ==
  /\ phase[l] = "acquire"
  /\ \/ Acquire(l) /\ At(l, IF leaseState'[l] = "held" THEN "held" ELSE Withdrawn(l))
     \/ (stopped \/ state # "ready" \/ current = None) /\ At(l, Withdrawn(l)) /\ UNCHANGED vars
  /\ UNCHANGED <<intents, loop, backends>>

AcquireBrowser(l) ==
  /\ phase[l] = "acquire"
  /\ \/ /\ Acquire(l)
        /\ At(l, IF leaseState'[l] # "held" THEN Withdrawn(l)
                 ELSE IF driver[current] = "browser" THEN "held" ELSE "mismatch")
     \/ /\ stopped \/ state # "ready" \/ current = None
        /\ At(l, Withdrawn(l)) /\ UNCHANGED vars
  /\ UNCHANGED <<intents, loop, backends>>

\* The owner changed between the snapshot and the lease: try again.
ReturnMismatch(l) ==
  /\ phase[l] = "mismatch" /\ At(l, "waiting") /\ Release(l)
  /\ UNCHANGED <<intents, loop, backends>>

ReturnLease(l) ==
  /\ phase[l] = "held" /\ At(l, "unleased") /\ Release(l)
  /\ UNCHANGED <<intents, loop, backends>>

ReleaseIntent(l) ==
  /\ phase[l] = "unleased" /\ At(l, Withdrawn(l))
  /\ UNCHANGED <<vars, intents, loop, backends>>

ReaderDone(l) ==
  /\ phase[l] = "closing" /\ At(l, "none")
  /\ retry' = TRUE
  /\ UNCHANGED <<vars, requested, failure, loop, backends>>

\* A session or a capture step pins whatever owner there is.
SessionAcquire(l) ==
  /\ phase[l] = "none" /\ Acquire(l)
  /\ At(l, IF leaseState'[l] = "held" THEN "session" ELSE "none")
  /\ UNCHANGED <<intents, loop, backends>>

SessionRelease(l) ==
  /\ phase[l] = "session" /\ At(l, "none") /\ Release(l)
  /\ UNCHANGED <<intents, loop, backends>>

-----------------------------------------------------------------------------
\* The owner on its own: exits of processes and the end of the application.
Environment ==
  /\ \/ \E p \in Generations : RootExit(p) \/ TreeExit(p) \/ watch(p)
     \/ Shutdowns /\ Terminate
  /\ UNCHANGED <<intents, borrows, loop, backends>>

Retain ==
  /\ Shutdowns /\ RetainForProcess
  /\ UNCHANGED <<intents, borrows, loop, backends>>

ReconcileStep ==
  \/ Reconcile \/ Decide
  \/ Validated \/ AssetsMissing \/ PermissionsUnconfirmed
  \/ CallReplace \/ CallRecover \/ CallRefused
  \/ Handoff \/ HandoffDone \/ HandoffFails \/ Finish

Borrow(l) ==
  \/ OpenNative(l) \/ \E r \in Roles : BeginBorrow(l, r)
  \/ Poll(l) \/ CheckReader(l) \/ Missed(l)
  \/ AcquireBrowser(l) \/ ReturnMismatch(l)
  \/ ReturnLease(l) \/ ReleaseIntent(l) \/ ReaderDone(l)
  \/ SessionAcquire(l) \/ SessionRelease(l)

CNext ==
  \/ \E mode \in Modes : Request(mode)
  \/ Retry \/ ReconcileStep
  \/ \E l \in Leases : Borrow(l)
  \/ Environment \/ Retain

CSpec == CInit /\ [][CNext]_cvars

\* The loop ticks every second and each of its waits is bounded.
CFairSpec == CSpec /\ WF_cvars(ReconcileStep)

-----------------------------------------------------------------------------
(***************************************************************************)
(* Properties.                                                             *)
(***************************************************************************)

\* A borrower that was handed a lease has a browser, and still the same one,
\* though the owner may have been replaced by a headless worker between its
\* snapshot and its lease (the Driver check of borrowBrowserMode).
BorrowedBrowser ==
  \A l \in Leases : phase[l] = "held" =>
    l \in Held /\ leaseGen[l] = current /\ driver[leaseGen[l]] = "browser"

\* A headless worker kept for Capture is the ready owner itself, never a
\* process of an earlier or of a failed launch: Capture compares no generation.
CaptureWorkerCurrent ==
  state = "ready" /\ SnapshotDriver = "headless" => headlessGen = current

\* A ready owner is reported as reader-only exactly when it was launched as a
\* native reader, whatever launches failed or timed out in between.
ReaderOnlyAccurate ==
  state = "ready" => (NativeReaderOnly <=> current \in readers)

\* A mode switch is not forgotten: a ready owner of the other driver, with no
\* lease and no borrower to keep it, does not stay silently.
SwitchPending ==
  /\ state = "ready" /\ SnapshotDriver # requested
  /\ Interactive = {} /\ BrowserCollection = {} /\ leases = 0
  /\ ~failure /\ ~persistent /\ ~stopped /\ generation < MaxGeneration
SwitchHappens == []<>~SwitchPending

\* Source and collection borrows are refused on a reader-only owner.
ReaderOnlyRejects ==
  \A l \in Leases : phase[l] = "held" /\ leaseGen[l] \in readers => role[l] = "native"

\* What the coordinator recorded describes the owner that is there: the worker
\* and the reader role of the ready generation, and the browser of a borrower.
CoordinatorSound == CTypeOK /\ CaptureWorkerCurrent /\ ReaderOnlyAccurate /\ BorrowedBrowser
=============================================================================
