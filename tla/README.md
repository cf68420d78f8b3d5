# AkuSidecar: a TLA+ verification project

AkuSidecar is the local Go runtime of AkuBrowser.  It drives one managed
browser (or a windowless collector) that owns the user's authenticated profile,
collects posts from X, LinkedIn, Facebook and Instagram through a browser
extension ("the bridge"), reasons about them with a language-model provider and
composes the accepted ones into a Timeline, all in one process over one SQLite
file.  This directory models the parts of it where several goroutines, requests
and operating-system processes meet, model-checks them with TLC, and proves
their main safety properties with TLAPS.

Paths below are relative to the repository.  `PROJECT.json` lists every
component, run, mutant, finding, hazard and theorem, and maps every definition
to the lines it models.

1. Inventory
2. What is modelled
3. Runs, bounds and fairness
4. What is proved
5. Where the code disagrees with the repository's words
6. What was met while modelling
7. What is not modelled
8. Plan

## 1. Inventory

### The parts and how they interact

```
 HTTP handlers        update scheduler        UI, extension, reader helper
        |              |      AutoUpdate         |  SplitTransport
        v              v                         v
   session engine  <-----> lanes (recapture, living topics, detection, vision)
   SessionPipeline          |  MediaRecapture, LivingTopics
     |      |  schedule     |
     |      |  mutex        v
     |      +------> store (internal/store, SQLite: one transaction at a time)
     |               PersonalMemory, and the rows of all of the above
     |  sessions, readers and recaptures pin an owner
     v
   collection coordinator  CollectionCoordinator
     |  one loop: Replace / Recover
     v
   capture runtime manager  CaptureRuntime, ExclusiveProfile
     |  factory, CloseForRetry, watcher
     v
   browser / headless process trees, one authenticated profile

   concurrent session controller  ConcurrentSession
     |  the seam  AuthoritySeam
     v
   evidence authority and its adapter  EvidenceAuthority
```

| part | state it keeps | operations | what makes it correct |
|---|---|---|---|
| Capture runtime manager (`internal/captureruntime`) | state, owner, generation, lease counter, stopped / launchBlocked / persistent | `Acquire`, `Release`, `Replace`, `Recover`, `RetainForProcess`, `Terminate`, `watch` | at most one process tree on the profile; a lease pins its owner; nothing is launched after a stop; no transition stays in `replacing` |
| Collection coordinator (`internal/collection/coordinator.go`) | requested mode, failure, retry, three borrow counters, recorded worker and reader generation | `Request`, `Retry`, the reconciliation loop, the three borrows | a borrower gets a browser, Capture gets the worker that is running, a requested mode is attempted |
| Session store lifecycle and session engine | rows of sessions, runs, commands, observations; schedule mutex, workers, reruns | create, start, claim, save, fail, complete, finalize, cancel, retry, shutdown, resumption | one active session; sources in order; settled commands stay settled; a published session has all its results; accepted evidence is evaluated |
| X capture pause | one latch | set by a challenge, confirmed by the user | nothing of X is started or open while it is set |
| Media recapture (`engine/media_recapture.go`, `engine/capture_runtime.go`, `store/recapture.go`) | durable jobs with stamps, leases and holds in memory | queue, admit, dispatch, claim, accept, fail, clean up | a surface keeps its browser until cleaned; stale work is never dispatched; what ended gives the browser back |
| Automatic updates and first-run calibration | due ticks, receipts, batches, budget, usage pause, calibration rows | tick, admit, start, finalize, reveal, expire, calibrate, reset | limits hold up to the races of callers; a tick is decided; the calibration that gates updates is offered |
| Concurrent session controller (`development_concurrent_session.go`) | fence, permit, readers, windows, work, cleanups in flight | start, claim, complete, close, disable, revoke, the parent's watcher | work only under open admission; no permit lost; the parent's cleanup ends |
| Evidence authority (`development_concurrent_authorization.go`) | evidence versions and links, permit, tickets, sink | authorize, renew, dispatch, claim, complete, cancel, revoke | a permit never outlives its evidence; a revocation is final |
| Split transport (`internal/httpapi/split_capture.go`, `native_reader.go`) | queue of actions, conversations, key of the owner, reader gate | queue, claim, result, cancel, direct reader, rotation | no lease lost, no claim replayed, an owner leaves drained |
| Personal memory (`store/personal_memory.go`, `feedback.go`) | items, aliases, provenance, versions, tombstones | More, Less, Keep, Read later, Done, Release, Remove, Forget | a forgotten post does not come back; a text is stored while it is asked for |
| Living topics (`store/living_topic*.go`, `engine/living_topics.go`) | topics, memberships, moves, three job tables | criteria, review, add, move, undo, refresh; three workers | the understanding follows the topic; queued rows are taken up; limits and undo order |
| Reload actions, detection, vision, semantic events | queues and rows | enqueue, claim, complete, retry, recover | each item is worked on once and ends |
| Manual pilot, daily collection, reader broker, activation guard, owned RPC | permits, holds, pending calls | grant, consume, release; call, reply, break | used at most once; a reply reaches its own call |
| Selection, capture reconciliation, pacing | none: pure functions | rank, merge, schedule | equal to a reference definition |
| Providers, app shell, HTTP routing, credentials, diagnostics, schema | I/O | | see section 7 |

### Where it is hard

* **Unlocked windows.**  `Replace` leaves its mutex for checks, close and launch
  while the owner's watcher may report its exit; `reconcile` acts up to 90
  seconds after it looked; `startNext` reads a session, then its runs, then
  writes; `startAutoUpdateMode` checks every limit before it takes the lock;
  `Claim` of the concurrent controller asks a port between check and commit; a
  renewal collects evidence without the authority's lock.
* **Workers that outlive their reason.**  A run's worker, a topic's goroutine or
  a reader's handler stays registered until it retires; what arrives before that
  is queued or dropped, depending on who asks.
* **Durable and volatile state.**  A crash or shutdown loses workers, reruns,
  leases and handlers between two transactions; the next process rebuilds them
  from the rows alone.
* **Changes in several transactions.**  A topic's change commits before its
  derivation is queued; a routed item is looked up, created and joined in three
  transactions; a session's end and its batch are two statements.
* **Remote parties.**  The bridge and the reader's helper answer late, twice or
  never; commands expire, and a late answer races the expiry; a client that goes
  away cancels the context of a handler between two of its calls.
* **Processes and clocks are not under control.**  A root may exit before its
  children, a close or a factory may fail half-way, a clock may go back.

The hazards of `PROJECT.json` give each of these at its line, with the property
that would catch it going wrong.

## 2. What is modelled

Two conventions hold throughout.  A critical section, a Store transaction or an
external call is one step; what a goroutine does between two of them is not a
step of its own.  Calls that are refused at their first guard change nothing and
are left out, except where a caller observes the refusal.

### CaptureRuntime, and ExclusiveProfile above it

`CaptureRuntime` is `internal/captureruntime` whole: `manager.go` and
`profile_lease.go`.  Its variables are the fields of `Manager`, the owners'
fields (`driver`, `intentional`, `idleHold`, `watching`), the step and the
locals of the one `Replace` or `Recover` that may run (`pc`, `kind`, `prior`;
`Manager.operation` is held exactly when `pc # "idle"`), the lease objects, and
the operating-system processes (`roots`, `trees`).  A process is named by its
generation, since every launch is preceded by an increment.

`Replace` or `Recover` enters, `TransitionReady` and `OwnerReady` are the checks
(with their refusals), `CloseOwner` or `CloseFails` is `CloseForRetry`, `Vacate`
gives up the owner, `Launched` or `LaunchFails` is the factory, whose failure may
hand back a process, leave a tree behind, or both.  `watch(p)` is the goroutine of
a process, `RootExit` and `TreeExit` the world.

`ExclusiveProfile` is what callers may rely on: epochs of exclusive use of one
profile, opened only when nothing is pinned and the profile has been given back.
The manager implements it (`ImplementsProfile`), with the epoch as the
generation, the holder as the tree that is alive, and the pins as the leases.

### CollectionCoordinator, over CaptureRuntime

It EXTENDS the manager's module, so that a step of the coordinator *is* a step
of the manager conjoined with what the coordinator does.  `Reconcile` is the
first section of `reconcile` (the locals), `Decide` its second look
(`Snapshot` and `Retiring`, merged into one step: nothing it decides depends on
a change between the two that a later step would not meet as well), `Validated`,
`AssetsMissing` and `PermissionsUnconfirmed` the checks before a healthy owner
is given up, `CallReplace`, `CallRecover` and `CallRefused` the call,
`Handoff`, `HandoffDone` and `HandoffFails` its course, with `Factory` recording
the worker and the reader generation, and `Finish` the last section.  A borrower
goes through `BeginBorrow`, `Poll`, `CheckReader`, `AcquireBrowser` and the
return steps; native readers add `OpenNative` and `ReaderDone`, since
`BorrowNativeReader` counts itself in a section of its own.  `SessionAcquire`
and `SessionRelease` are the sessions that pin whatever owner there is.  The
counters `interactive`, `nativeReaders` and `browserCollection` are the
cardinalities of sets of borrowers: each increment is undone by a `sync.Once`.
The development, fixture and concurrent-session hooks are nil in ordinary builds
and left out.

### SessionPipeline

The life of an update session over the durable rows.  `calls` holds the
goroutines that are about to call `startNext`, `launchProcess` or
`CancelSession`; `sched` is the holder of the schedule mutex with the session
and the run it read; `worker[r]` is the goroutine registered for a run, with the
state of its context (`dead`), whether it may plan a second acquisition round
(`plan`), and whether it met a usage limit (`usage`).

* Admission, one request at a time under `Engine.operation`, in the Store calls
  `startSession` and `ReevaluateFailedRun` make: `AdmitSources` reads the X latch,
  `AdmitAlone` looks for an active session, `CreateSession` inserts session and runs
  without looking at the latch again; `ReevaluateFailedRun` checks, `RetryFailedRun`
  writes; `AdmissionFails` gives up at any of them.
* `startNext`: `NextBegin`, `NextPick`, `StartRun`, `NextAbort` when the caller's
  context is cancelled, then `Compose`, `Finalizing`, `Publish` and
  `PublishWrite` (FinalizeSession computes the outcome and writes it in two
  statements).
* The bridge: `ClaimCommand`, `AcceptObservation`, `FailCommand` with or without
  a challenge of X, `ExpireCommand`; the user: `ConfirmXCaptureRecovery`.
* The worker: `WorkerRead` to `WorkerComplete`, the error path
  (`FailCapturedRunReasoning`, `FailRun`, `FailQueuedAfterReasoningFailure`),
  `WorkerRetire` with its queued rerun.
* The process: `CancelSession` (marks in memory) and `CancelStored` (the
  transaction), `Disconnect` of a client, `Shutdown`, `Restart` with
  `ResumePendingReasoning`.

Evidence, candidates and answers of the provider are the choices the control flow
makes of them: there are candidates or not, a follow-up is asked for or not, the
call fails or not, with a usage limit or not.  Time is "an open command may
expire".  Setting the composition stage and composing are one step.  Only the
ordinary bridge route is modelled, without a hybrid driver plan and without the
daily native collectors.

Three history variables, which no step reads, remember the runs whose launch
`admitRun` dropped (`dropped`) or whose handler lost its client (`gone`), and the
sessions created on a latch read before X was paused (`stale`).  With them
`NothingForgotten`, in `SessionOutcomes`, says that an active session, and accepted evidence, is in
somebody's hands everywhere else.

### MediaRecapture

The jobs of `media_recaptures` (`row`: status, item, mode, reason, route, stamp of
epoch, generation and driver, admission phase, outcome, cleanup), the owner as the
engine sees it, the leases (`captureRecaptures`), the Browser holds
(`browserCollection` intents), the marks the pump keeps of what it dispatched
(`running`, `started`, `confirmed`), and the calls to the bridge that are out.

`QueueBegin` to `QueueInsert` or `QueueRefused` is
`QueueMediaRecaptureForReason`; `ClaimCheck` and `ClaimMediaRecapture`,
`AcceptMediaRecapture`, `FailMediaRecapture` the bridge's side; `PumpRead`,
`PumpAdmit`, `PumpDispatch`, `DispatchReturns` the pump's, which reads a row before
it takes `captureMu` and acts on it afterwards; `releaseTerminal`,
`CleanupReturns`, `CleanupSaved`, `CleanupFails` the return of a Browser;
`Reconcile`, `Launched`, `OwnerFails` the coordinator as far as it matters here;
`Restart` what `AttachCaptureRuntime` restores.  Left out: the window before
`AttachCaptureRuntime`, rows of versions that had no stamp, the refusal during an
active session, `NativeReaderOnly`, the leases of abandoned transport actions, and
claims of jobs that already ended.  Pacing and the account gate are a
nondeterministic refusal.

### AuthoritySeam, EvidenceAuthority, ConcurrentSession

`AuthoritySeam` is the interface between the concurrent controller and the
authority behind it: opened at most once, closed for good, work moves only while
open, claimed work is invalidated by closing.

`EvidenceAuthority` models the adapter and the authority it owns.  A permit rests
on a vector of evidence; `authorize` and `renewValidated` begin an acquisition
(outside the lock), `PublishVector` ends it if nothing came between,
`AcquisitionFails` otherwise; `dispatch`, `claimWithCommit`,
`completeWithCommit`, `cancelWithCommit` move a ticket under a chain of versions;
`ClockFails`, `check`, `updateReaderWindows`, `AdapterCloses` with
`AuthorityRevoked` are what ends it.  Every handler reads some time, which may
lie before the last one read.  It implements the seam (`ImplementsSeam`).

`ConcurrentSession` is the controller over that seam: four threads (`op` for the
operations under `opMu`, `worker`, `caller` and the parent's `watcher`), what the
owner and the permit port know, the fence, the work and the windows.  Each port call
is outside `mu` and a step of its own.  A creation that fails may have registered its
owner before (`stranded`), as the fixture port does; a grant that fails has granted
nothing, as in every permit port of the repository.

### AutoUpdate

Three callers of `startAutoUpdateMode` (the loop, an explicit request, the retry
after a reader closed) go through `CheckStoppers`, `StartPrepared` and
`CompleteTick`; `Publish`, `FinishBatch` and `CalibrateFinalized` are the steps of a
finalization.  Then batches that are prepared, revealed and
expired, the usage pause, the first-run calibration with its creation,
resolution and completion, the full reset and the crash.  A unit of time is five
minutes, windows are scaled, a session costs one unit of tokens, and what it
captured is an input.  The pressure policy is a choice; settings, pause and plan
are read in one step; the wake channel, retention and timestamps that only the
status page reads are left out.

### SplitTransport

`queue` and `act` are the transport's actions, `post` the request that queued
each, `helper` and `conv` the helper and conversation of a click, `direct` the
direct reader, `gate` the native reader gate with its epoch, `rt` and `tr` the
owner and the key the transport gave it.  Handlers are cut at the transport's
mutex.  The rotation (`RotateSplitCapture`), the close of the reader and the exit
of an owner interleave with claims, results, deadlines and cancellations.  Left
out: pruning of tombstones and the limit of 256 conversations, wake hints, audit,
the window with a nil runtime, `ordinaryXAction`, capability variants and assets.

### PersonalMemory

A Timeline row is known by its strong aliases and the fingerprint of its text,
which may change when it is captured again (`Evidence`).  An item's row holds
aliases, provenance, the stored versions, the flags saved and keep, the search
row, and its membership of one topic.  Every store operation is one step, except
`AddFeedback`, which reads its clock and evidence before its transaction, and
the automatic membership, which takes four.  `raced` and `owed` are ghosts that
say when a promise about feedback applies.  Left out: search and storage
reports, import, the reset against the tombstone key, operations without a
production caller (`UpdateMemoryRecallStub`, `KeepMemoryFullCopy`,
`RecordMemory*`), several sources.

### LivingTopics

Topics with their criteria revision, memberships, verdicts and moves; the tables
of understanding, activation and routing jobs with one goroutine each (`u`, `a`,
`r`), their retirement and the look that follows it (`checks`); requests that
commit a change and queue its derivation in later calls (`Calls`); a stop, a crash
and the recovery.  The digest of an understanding is the criteria revision and the
live members, each with the version of its content.  `Touch` stands for what changes
that content (Keep, Read later, Done, Release, a new capture) and `Less` for the
routine Less that deletes the row of a member; neither queues anything.  `Less` may
take any item that was in the library from the start, whether it has other reasons
to stay being `PersonalMemory`'s question, but none that is queued or at work in the
routing (a bound).  What the provider answers is an input.  `lost` and `stuck` are
ghosts: the topics whose derivation was lost in a window the code leaves open, or
that the library changed without a word (section 6), until they are next queued or
read.
`Restart` is one step: the window in which a resumed worker queues an
understanding before `ResetRunningUnderstanding` is left out, since the reset only
touches running rows.  A goroutine that `Shutdown` cancels leaves its row running
(`orphan`), and the launches do not look at `shuttingDown`, so that another
goroutine may claim a second row before the process is gone.

## 3. Runs, bounds and fairness

Every run finishes within five minutes with two workers; sizes are distinct
states.  A property that is a conjunction names its parts in the module, each with
its own comment.

| run | bounds | states | shows |
|---|---|---|---|
| `runtime_manager` | 2 leases, 3 generations | 158 k | `ManagerSound` (types, `LeasePinsOwner`, `SingleTree`, `LeaseCountExact`, `LeasedWorkerHeld`), `OwnersFinal` (`StoppedIsFinal`, `PersistentOwnerKept`), `ImplementsProfile`, `TransitionEnds` |
| `session_sources` | 1 session, 2 sources (one X), 2 rounds, 1 crash or shutdown, 1 re-evaluation, 1 disconnect | 649 k | `CommandInv` (types, one claim, one planner, nothing of X started or open while paused), `RunsInOrder` (wanted commands, serial sources), `WholePublication` (the barrier before finalization, what is published), `NothingForgotten` (an active session, and accepted evidence, is in the hands of a caller, a launch, a worker or an open command), `CommandsAreNotRecycled` |
| `session_settles` | 2 sessions of one X source, 1 round, 1 cancellation, 1 crash or shutdown, 1 re-evaluation | 1.5 M | `SettledSession` (a cancelled session, or one published while nothing was cancelled, leaves nothing open), `CompletedIsFinal`, `PauseClearsX` (also for an update admitted just before the pause of an earlier one) |
| `coordinator` | 1 caller that borrows in any way, 2 generations, with retention and termination | 783 k | `CoordinatorSound`, `SwitchHappens` |
| `recapture` | 1 new job after an earlier attempt, a Facebook and an X item, 2 owners, 2 lives of the process | 244 k | `RecaptureSound` (`SurfaceHeld`, `ClaimPinsOwner`, `DispatchToOwner`, `ForegroundAfterBackground`), `EndedStays`, `HoldReturned` |
| `concurrent_session` | 1 work item, 1 window, an independent collector or one behind an authority; the collector may exit by itself | 334 k | `AdmissionSound` (`ActiveAdmitted`, `AdmissionBacked`, `PermitTracked`), `PortsAgree` (`SinksAgree`, `WindowsHeld`, `ParentCleanup`), `EndedWorkStays`, `ParentCleanupEnds` |
| `evidence_authority` | 1 command, 3 versions, 6 clock readings | 110 k | `EvidenceSound` (`PermitFresh`, `ChainContiguous`, `CompletedCovered`), `RevokedForGood`, `ImplementsSeam` |
| `updates` | six instances of callers, modes, outcomes, a reset and a crash | 458 k | `UpdateLimits`, `CalibrationHonest`, `BatchesFinal`, `SchedulerProgress` |
| `split_transport` | six instances of two actions and the host action, up to 3 generations | 219 k | `TransportSound`, `OwnerHandedOver`, `AnswersFinal`, `LeasesReturn` |
| `memory` | 3 Timeline rows of 2 posts that share aliases or a text, 2 items, up to 2 requests in flight | 468 k | `LibrarySound`, `FeedbackKept`, `NeverRecaptured`, `UserDecides` |
| `living_topics` | fifteen instances: 1 or 2 topics, 1 or 2 concurrent clients, up to 3 requests, a crash or a stop | 296 k | `JobsHonest`, `MembershipSound`, `ReviewKept`, `QueuesDrain` |
| `session_revived` | 1 session, 1 source, 1 cancellation | | violated, section 5 |

**Why the bounds are enough.**  Two leases are the first and the last of several;
three generations let one launch fail between two that succeed, and let an exit
be that of a later generation, which the watcher treats differently from the
first.  Two sources are a current and a next one, one of them X; two rounds are
all `MaxAcquisitionRounds` allows; two sessions are one whose challenge pauses X and
one that was being admitted.  One restart, cancellation, re-evaluation and
disconnect, each at every point, cover the windows between any two steps of the
others.  One new recapture after an old one is what a foreground attempt needs;
its second life meets everything the first left.  The collector of the
concurrent controller may exit by itself (`Exits`); every other way an owner is lost
is met where its creation, its check or its close fails.  Three evidence versions are a
start and a chain of two renewals; six readings on evidence of age three and a
binding of age two let a permit expire, be renewed in time and be renewed late.
The instances of the last four modules name, in their MC module, the race each is
for: `Init` chooses one, so that one run asks every question of the component.
Two Timeline rows of one post and a second post that is captured with the text,
then with the link, of the first are the three ways items come to share an
identity; a limit of one member makes every path to a membership meet it.

`CHECK_DEADLOCK FALSE` is set where an idle system with its bounds used up may
stop; the manager, the coordinator and the recaptures are checked for deadlock.
Identifiers of memory items are symmetric and the run that says so checks no
liveness.

**Mutants.**  Each property has a mutant: a definition with a plausible fault (a
dropped guard, a forgotten reset, a swapped order) under which TLC finds it
violated.  The faults stand in the modules, marked "Fault", before the
definitions they alter.

**Further configurations**, kept for the questions they answer and not part of the
list of runs: `SessionOutcomes_liveness` (two sessions of two rounds, a re-evaluation
and a disconnect: `NothingForgotten`, and under fairness `EverythingSettles`, that
attended work ends; 216 k, holds), `SessionPipeline_sessions` (two sessions of two
rounds: `OneActiveSession`, `PauseClearsX`; 861 k, holds), `SessionPipeline_cancelled`
(a cancellation and a re-evaluation with two rounds: `SettledSession`,
`CompletedIsFinal`; holds),
`CollectionCoordinator_generations`
(three generations, 2.5 M states; holds), and the counterexamples of sections 5 and 6.
`ConcurrentSession_exits` lets either owner exit at any moment and leave nothing, or
another process, in its place (849 k states, the safety properties; they hold).
`ConcurrentSession` was also checked with the paired setup and a fence bound of 3
(3.8 M states), and the moves of `LivingTopics` with four requests (632 k).

**Fairness.**  Nothing is ever assumed of the bridge, the extension, the user,
requests, crashes or the exits of processes.  What is assumed:

* `CaptureRuntime`: a transition under way goes on (its waits are bounded by the
  caller's context), and a watcher whose process has exited is scheduled.
* `CollectionCoordinator`: the reconciliation loop runs; it ticks every second, and
  a transition has a context of 90 seconds.
* `SessionPipeline`: some goroutine that can go on does (`Progress`, in `LiveSpec`): a
  worker (calls of the provider have timeouts), the
  holder of the schedule mutex or somebody who waits for it, a launch or cancellation
  that was started, the scheduler's tick that expires a command nobody settles, the
  start after a shutdown.
* `MediaRecapture`: the pump and the reconciliation loop tick, calls to the bridge
  return (they have deadlines), a request goes on; strongly, each job is reached by
  the pump, which walks all of them on every tick, and a saved cleanup comes after
  finitely many failures of the same database.
* `ConcurrentSession`: operations and revocations go on, the watcher goes on, and,
  strongly, it gets `opMu`, which `sync.Mutex` hands to a starving waiter.
* `AutoUpdate`: each caller and the finalization go on.
* `SplitTransport`: handlers and the direct reader go on (deadlines bound their
  waits).
* `LivingTopics`: calls and the three goroutines go on, as one.

## 4. What is proved

From the named assumptions on the constants only, for any number of leases,
generations, sessions, sources, commands, evidence versions, clock readings, work
items, reader windows, recapture jobs, Timeline rows, library items and topics, any
limits, cadences and windows of the updates, and any bounds on restarts,
cancellations, retries and disconnects:

**The manager, in `SchedulingProofs`**: `ManagerIsSound`, `OwnersAreFinal`, their parts under
names of their own, and `ManagerImplementsProfile`.  None of the invariants is
inductive alone.  `Inv` adds `OwnerInv` (the owner is the process of the current
generation, and a ready runtime has one), `TransitionInv` (a transition runs
without leases, and once its owner's close is announced the runtime cannot stop,
because the watcher takes that exit as intended) and `TreeInv` (only the current
generation's tree can exist; without an owner there is one only behind
`launchBlocked`).  `SingleTree` rests on the last: it is what makes the launch of
a new generation find the profile free.

**`SessionPipelineProofs`**: `CommandDiscipline` (`CommandInv` is invariant), hence
`TypeCorrect`, `OneClaim`, `PausedX` and `SinglePlanner`, and `SettledCommandsStay`.
`PausedX` (`PauseClearsX`) speaks of what is started and open: a run may well be
queued while X is paused, by an admission that read the latch before, and it is
`StartRun` and the claim that refuse it.  That a run never has more observations than
rounds is part of its type, and that alone needs the whole chain: observations are
counted by completed commands (`ObservationsCounted`), a command is issued once
because a run that is started has none (`FreshRuns`) and the second round is asked
for by at most one of the calls, reruns and workers of the run (`OnePlanner`); that
in turn needs launches to follow evidence (`EvidenceLaunched`) and the holder of the
schedule mutex to be a goroutine that is still there (`HolderWaits`), or a run could
be started by a caller that has gone.

`SourcesInOrder` and `PublicationIsWhole` state `RunsInOrder` and `WholePublication`
of every behaviour in which nothing was cancelled (`spent["cancels"] = 0`), through
any restarts, crashes, retries, pauses and disconnects.  The hypothesis is needed:
`CancelSession` takes neither the schedule mutex nor the operation mutex, and section
6 tells how it and a `startNext` under way then break the order.  `OrderInv`,
inductive beside `CommandInv` and `AdmittedAlone` (behind an admission's look at the
sessions none becomes active, because every other way to one takes `Engine.operation`
too), says why the order holds otherwise:

* an open command belongs to a run that waits for the bridge, and a session with
  unfinished runs is active (`RowOf`, `RunsHaveSession`);
* the accepted evidence of a run is in one hand only, a launch that is on its way,
  a queued rerun or a worker that has not settled (`TokenOf`), which is why no
  second worker writes a result and no late one fails a completed run;
* only a shutdown takes a worker's context away (`Uncancelled`), so that a worker
  that gives up without settling its run leaves it to the restart;
* what the holder of the schedule mutex has read stays true while it holds it: a
  session it found settled stays settled, nothing joins what it composed, and the
  run it is about to start is still unstarted (`HolderInv`);
* in `full_wait` the turn is with one open run or with one caller of `startNext`
  (`TurnOf`), as long as there is a source left to start.

`OutcomeIsSettled` (`SettledSession`) and `ResultsAreKept` (`CompletedIsFinal`) hold
of every behaviour.  Where nothing was cancelled they follow from `OrderInv`; for the
rest there are two invariants:

* `CancelInv`: the Store's `CancelSession` is only called for runs the engine has
  marked, the worker of a marked run has lost its context and in this process no
  other launch of the run is admitted, and in a session stored as cancelled nothing
  is open, nor at work in a later process.  The holder of the schedule mutex may
  still write a run it read before; what it may write is bounded by `HolderWrites`.
* `ResultInv`, as long as nothing was re-evaluated: a completed run has evidence and
  no open command, and the evidence of a run is in one hand unless it is marked.

A cancellation and a re-evaluation together are excluded because the code loses a
result there (section 6).

**The coordinator, in the same module**: `CoordinatorIsSound` with its parts, on the
manager's invariants, which hold of the composition because each of its steps is one
of the manager's or leaves it alone.  What the factory recorded has to be right
not only while the owner is ready but while it *may be ready again*: a refused
`Replace` puts `ready` back, so `WorkerInv` and `ReaderInv` are stated under
`MayBeReady`.

**`EvidenceAuthorityProofs`**: `EvidenceIsSound`, `RevocationIsFinal` and
`AuthorityImplementsSeam`.  The inductive invariant adds `AcqInv` (an acquisition
that is out remembers the coverage of the version it began from, so a renewal
published later links to the right checkpoint) and `StartInv` (nothing is open
before the adapter started).  Steps are first sorted by what they do to the
evidence: rest, revoke, publish, or move one command (`StepKinds`); every
conjunct and the refinement are proved by these four cases.  In the refinement a
renewal is invisible, the first permit is the seam's `Authorize`, and an adapter
that is closed before it ever attached counts as revoked, which `ShutStays` shows
to be for good.

**`ConcurrentSessionProofs`**: `SessionInvariant`, and from it `AdmissionIsSound`,
`PortsAlwaysAgree` and `EndedWorkStaysEnded`; `OwnerInvariant` beside it.  The
inductive invariant `CSInv` describes the long operation by where it stands under
`opMu` (`OpInv`): which owners it has created, whether it may still open admission,
and, if it is revoking, what follows the revocation.  A granted permit is in one
place, the controller or one goroutine that revokes it (`PermitInv`); that is what
makes `PermitTracked` inductive when a start fails after its grant.  Every other
goroutine changes the fence in three ways only, not at all, by an invalidation or by
a cleanup that failed, so its steps are proved by these three cases.  `ParentCleanup`
needs that the watcher, once it closes the owners, has `opMu` and that a dead parent
lets no operation open admission again; and `OwnerInvariant`: every owner the port
has is remembered, or the cleanup is known as failed, or its creation was reported as
failed, which `ParentCleanup` therefore excepts (section 6).

**`PersonalMemoryProofs`**: `LibraryInvariant`, and from it `LibraryIsSound`,
`FeedbackIsKept`, `ForgottenStaysForgotten` and `UserDecisionsStand`.  Rows are
first shown to stay sound under each rewriting (`RowSound`: a text is stored
exactly where somebody asked for it, and indexed as it is named).  An accepted
upsert found every owner of its strong aliases, so no alias gets a second one
(`UniqueInv`).  That a Less finds what its More created rests on the evidence key,
a column of the Timeline row that every evidence of it carries (assumed of
`Evidence`, as `EvidenceAssumption` says): every item that a More holds has it
(`KeyInv`), and a row whose requests do not overlap has at most one request, which
is in order (`AloneInv`, `HeldInv`).

**`MediaRecaptureProofs`**: `RecaptureInvariant`, and from it `RecaptureIsSound` and
`EndedJobsStay`.  Whatever a step does to the rows, a row that is there keeps its
item, its stamp once it has one, its outcome once it has ended and its acknowledged
cleanup (`Later`); every handler is first shown to be such a step on the rows
(`RowsStep`), and one lemma (`Step`) carries over the parts of the invariant that the
handler does not touch.  A lease is always one on the present owner, since nobody
replaces an owner under a lease (`LeasesCurrent`), so a claim that passed its check
still holds it at its transaction, unless the job ended meanwhile and the transaction
refuses it (`ClaimChecked`); and the pump, which decides on a row as it read it,
decides on a phase and a stamp that no longer change (`PumpInv`).  A restart keeps
the rows, makes every stamp an earlier life's and restores the holds from the rows.

**`LivingTopicsProofs`**: `MembershipInvariant`, and from it `MembershipIsSound` and
`ReviewsAreKept`.  `MoveIdLive` is not inductive: an undo could restore a membership
that names the move being undone, or leave one that another move would restore.
`MembershipInv` adds that a move that made a membership is one of an item the target
did not hold, and that what a standing move would restore names an older move; since
only the latest move of an item is undone, nothing left names it.  The limit rests on
each inserting transaction counting for itself (`LimitKept`), and on topics that start
within it (`TopicAssumption`).

`JobsInvariant`, and from it `JobsAreHonest` (`JobsHonest`), are about what the
status columns claim.  The inductive invariant `JobsInv` adds to the property:

* `BusyInv`, `StopInv`: a running row belongs to the goroutine whose program counter
  says so; only `Shutdown` cancels, a goroutine it cancelled leaves at most one row
  behind, and a process that is up has none of these;
* `CountInv`, `OnceInv`: a topic has at most three understanding rows, of which one
  may run and one may be left by `Shutdown`; a revision has one activation row;
* `RouteInv`: status and activation row of a topic agree unless a call that queues or
  marks its *present* revision is still to come (`Awaited`), or it is `stuck`.  The
  property itself only asks for some activation call of the topic, which a call of an
  earlier revision would satisfy, so it is not inductive;
* `HeldInv`, with the versions of contents: a member, and an item about to become
  one, is or was in the library, so that remembering a post changes the digest of no
  topic;
* `SeenInv`: an understanding under way has read the present topic, or another row is
  pending, or a call that queues one is owed or was lost, or the library changed the
  topic without one.  This is where "the running row does not stand for the request"
  is used.

A step is sorted by what it disturbs: a request or call by what its thread owed and
owes (`ThreadStep`), the library's own changes by the topics they add to `lost`
(`LibraryRequests`), the read of an understanding (`ReadInputStep`), a goroutine that
leaves the tables alone (`WorkOnly`), the routing by the topics it has still to queue
(`RoutingStep`), the queueing itself (`QueueStep`); claims, ends and the restart each
have a proof of their own.  The counts of rows rest on lemmas about `Append`,
`Without`, `Tail` and concatenation of sequences (`CountAppend`, `CountWithout`,
`CountTail`, `BeforeRows`).  The proof corrected the model: it took the running row
for the only one, whereas a launch after `Shutdown` lets a second goroutine claim
another row of the same topic, so that a restart may find three rows of it; and it
let a cancelled routing forget the topics it had joined.

**`SplitTransportProofs`**: `SplitInvariant`, and from it `TransportSoundTheorem`,
`OwnerHandedOverTheorem` and `AnswersFinalTheorem`.  The inductive invariant
`SplitInv` has three parts about what is shared and four about each action:

* `OwnerInv`: the key is the generation's, only a browser is asked to close, and a
  closing one tracks all its source windows;
* `QueueInv`: no entry twice, at most one close of the host, which is answered
  before the profile is vacant, and the limit for everything else;
* `GateInv`: the click that borrows, queues or waits holds the gate, and so does a
  close, which opens the window only when no click is unanswered;
* `AdmittedInv`, `ClaimInv`: an action nobody queued is untouched; a queued one was
  queued under the present owner; who claimed it is the worker of the owner it was
  queued under, or the direct reader; a success was claimed;
* `LeaseInv`: a lease belongs to a queued action or to the request that is about to
  queue it, and an owner that gives way or never came has none.  `NothingLeaked`
  and the drain rest on it;
* `ToldInv`: nothing is told by a helper that never attached, a direct reader only
  succeeds with what a helper told, an attached action is not cancelled.

Of these it took TLC's counterexamples to find that a direct reader which has not
attached yet never has an answered action in the queue, that a claim precedes every
success, and that an owner stays tracked while it closes.  Most
steps touch one action (`OneAction` carries over all others), and the owner's steps
only its own state (`OwnerMoves`).  `OwnerDrained` is no consequence of the leases
alone: manual reader actions of X and the close of the host hold none.  It needs the
factory's own check (`Rotatable`) and that a close of the host is never queued
beside another, which the code has by reusing any that is queued
(`split_capture_handoff.go:57`); `CloseHost` states that guard for any number of
host actions.

**The updates, in `SchedulingProofs` too** (its two parts share nothing but the
module): `UpdateInvariant`, and from it `UpdatesLimited`, `CalibrationIsHonest` and
`BatchesAreFinal`.  None of the limits is inductive, since each is checked steps
before it is used.  `UpdateInv` counts what may still come:

* `CountInv`: the batches that are prepared *or still can be* (`HeldBatches`: those of
  active sessions, and the one whose finalization has yet to write its batch) and the
  callers past their stoppers (`Starting`) are together no more than the limit and
  the callers; the same holds of the automatic sessions, the active one included,
  over the baseline.  That a caller got past its budget shows that the allowance is
  not zero, which a reset of the baseline under a caller on its way needs;
* `WindowInv`: the adaptive loop past its plan has room for one session in its window,
  because nobody else makes sessions of the scheduler and time only ages them out;
* `TickInv`: the last receipt is of the last tick, through completions and resets;
* `FreshInv`: before onboarding there is neither session nor calibration, so that
  `CompleteOnboarding` cannot unsettle a completed one.

What a step does to the sessions is one of three things, it changes rows in place
(`Tended`), creates the only active one (`Created`) or wipes them (`SessionsStep`), and
most of the invariant is proved by these cases.  `UpdateAssumption` asks that the
allowance is a natural number, which the settings enforce (`domain/types.go:412`).

**Only model-checked**: all liveness (proofs under fairness are out of the prover's
reach), and `NothingForgotten`.  Every other invariant and every action property of a
passing run is stated by a theorem.

## 5. Where the code disagrees with the repository's words

`session_revived` (`CancelledStaysCancelled`) is a run and a finding of
`PROJECT.json`: a cancellation commits between the read of the session and
`StartRun` or `FinalizeSession`, which write without a status guard, against
`internal/engine/development_session_test.go:1008`.

Each of the following is a configuration TLC finds violated; the trace it prints is
the scenario.

* `CaptureRuntime_exited` (`ExitedOwnerNotReady`), `manager.go:238`: the owner
  exits, and its watcher reports it, while `Replace` is in a readiness check that
  then refuses.  `Replace` writes the saved `ready` over the failure.  The runtime
  is then ready on an exited owner, `launchBlocked` refuses every `Replace` and
  the ready state every `Recover`.  `manager_test.go:336` says of a reported exit
  `t.Fatal("exited runtime still ready")`.
* `SessionOutcomes_dropped` (`NoLaunchDropped`), `bridge_commands.go:185`: a
  follow-up fails while the worker that queued it has not retired; the fallback's
  launch is dropped, and nobody evaluates the run until a restart.
  `engine_test.go:506` states the fallback, and sleeps 20 ms before the failure.
* `SessionOutcomes_stale` (`PauseRespected`), `session_admission.go:137`: a new update
  reads the X latch, the session before it meets a challenge of X and ends, and the
  new one is created with its X run.  `docs/batch-behavior-policy.md:37` says of the
  pause "Queued X capture runs stop"; this one stays queued, and as `StartRun` refuses
  it, the session stays active until it is cancelled.
* `SessionPipeline_paused` (`FinalizationHappens`), `session_execution.go:158`: a
  shutdown between the last `CompleteRun` and the finalization; only runs in
  reasoning are resumed, although `engine_lifecycle.go:49` logs that the run
  "will resume from accepted capture".
* `CollectionCoordinator_reader_lease` (`ReaderOnlyRejects`),
  `coordinator.go:525`: a source borrow that passed its reader-only check takes
  its lease on a reader-only owner launched since.
  `docs/collection-modes-roadmap.md:830`: "Reader-only generations reject
  source/Browser-collection borrows".
* `PersonalMemory_retraction` (`RetractionComplete`), `personal_memory.go:1652`:
  Less of a stub that is in a topic leaves its membership, invisible to readers
  and still counted against `LivingTopicMaxMembers`; the comment there says
  "remove the searchable row and all durable rows for the stub".

## 6. What was met while modelling

These are no runs, since nothing in the repository promises otherwise, or the
property is stated with the exception.

*Sessions and coordinator*
* A re-evaluation before the worker that failed the run has retired has its
  launch dropped in the same way as the fallback's (`dropped`).
* A mode requested while an attempt at the other mode is failing has its retry
  flag cleared by the end of that attempt (`Finish`); the loop then finds the
  owner blocked and no retry, and the failure shown is the other mode's.
* After `LaunchCancelled` the runtime is blocked with no owner and `launchBlocked`
  unset.  The coordinator then only calls `Recover`, which refuses a nil owner,
  although a `Replace` would be admitted: `Retry` does not help.
* `CancelSession` cancels the workers before its transaction.  A worker that has
  just queued the second round then fails its run; `FailRun`
  (`store/capture_failure.go:89`) leaves the command open, `startNext` goes on, and
  the session may be published with that command still open.  After a restart the
  run may be re-evaluated and completed from its first round; when the command left
  behind expires, `failCommand`, whose update of the run (line 84) has no status
  guard, fails the completed run.  Both were found when the unrestricted statements
  of `SettledSession` and `CompletedIsFinal` were checked with two rounds and a
  cancellation; the properties state the exceptions.  `RunsInOrder` is checked and
  proved without cancellations.
* A client that goes away between `SaveObservation` and the launch leaves the
  evidence without a worker until the next restart, and one that goes away in
  `FailCommand` before `startNext` (`bridge_commands.go:182`) leaves the session
  without anybody who starts its next source (`gone`).
* A crash between the creation of a session and its `startNext` leaves it queued;
  it is not resumed and refuses later updates until it is cancelled.

*Media recapture*
* A late dispatch of a job that ended may overlap its cleanup.  A failed Browser
  owner is not recovered while a hybrid job's lease pins it (the escape of
  `HoldReturned`).  The foreground check is not in the transaction of the insert.
  Passive evidence of X can be overwritten by an older write.

*Concurrent controller*
* `ConcurrentSession_stranded` (`NoOwnerLeft`, violated): the fixture port registers an
  owner and then fails (`development_concurrent_chrome_fixture_windows.go:437`, `:460`,
  `:470`).  The controller records only owners it is given
  (`development_concurrent_session.go:463`, `:481`), so the cleanup closes nothing of
  it and reports that it is complete.
* After a claim's drift marks the cleanup failed while `readerRetiredDecision` is
  out, a second permit may stay granted while admission is closed; it is
  remembered, so `PermitTracked` holds.  `Disable` overwrites the lifecycle, so
  that `WaitParentCleanup` may report success for a cleanup that failed.
  `Revoke` or `CollectorLost` after `cleanupComplete` moves the lifecycle back.  A
  claim whose own context is cancelled is treated as drift of the owner.

*Automatic updates*
* `RecordUIAccess` counts in adaptive mode only.  A crash between the two
  statements of `FinalizeSession` leaves the batch `preparing` for good, and one
  after a consumed tick leaves its receipt `checking`.  Racing callers overshoot
  the prepared limit, by at most one each (`PreparedBounded`).  `FullReset` keeps
  `auto_update_queue_vacancy_at`.

*Split transport*
* Manual reader actions of X hold no lease, so one queued between the close and
  `RotateSplitCapture` makes the rotation busy and the launch fails for good.
  Engine jobs nobody claimed keep their lease if the owner exits, so that
  `Recover` is refused; a claimed action of an exited owner likewise.  A
  cancellation acknowledged after the helper attached answers `cancelled` and
  does not stop it.

*Personal memory*
* Overlapping `AddFeedback` calls may commit in the opposite order of their
  `created_at` (`raced`).  The automatic membership may join an item that was
  removed or forgotten since it was looked up.  Aliases that conflict after a
  recapture refuse More, Less and Keep altogether.  The tombstone of a
  fingerprint refuses later actions for another post with the same text.
  `Release` drops the text although the item is still saved for later.  A verdict
  to exclude is lost when the item is created anew.

*Living topics*
* `LivingTopics_drifted` (`SettledIsPresent`, violated): `livingTopicInputDigest`
  (`engine/living_topics.go:471`) takes the update time, title, summary, text and tags
  of every member.  Keep, Read later, Done, Release and a new capture change them,
  and a routine Less deletes the row of a member (`personal_memory.go:1655`); nothing
  is queued for either, and the topic stays `current` on a digest that is no longer
  its own.  `UnderstandingCatchesUp` excepts these topics until they are next queued
  or read.
* A crash between a change and its queueing loses the understanding, and a library
  removal reads the topics before it removes (`library_removal.go:10`): both in
  `lost`.  `QueueLivingTopicActivation`'s two statements can leave a topic
  `pending` for good (`stuck`).  An activation request during a running job of the
  same revision is swallowed.  A stop during routing settles the job.  Launches after
  `Shutdown` are not refused (`living_topics.go:522`, `:595`): a second goroutine may
  claim another row while the row of the cancelled one is still marked running.
  `no_change` after `insufficient_evidence` makes the status `current` without a
  snapshot.  Rejecting an accepted candidate that is a manual member leaves it a
  member with the verdict exclude.  A coalesced `refresh_now` loses its force.  A
  crash between the save of a snapshot and the end of its job duplicates it.

## 7. What is not modelled

* Code whose guarantees are another system's: SQLite and its migrations, Windows
  job objects and file handles, credential stores, DevTools and window handling
  in the app shell, provider clients, C2PA parsing, Codex discovery.
* Text and numbers: prompts, similarity scores, URL canonicalisation, full-text
  search, preference weights; domain record types and configuration parsing.
* Build-tagged qualification harnesses around Windows processes (pilots,
  fixtures) and the account checkpoint fence of auth-session builds.
* The JavaScript worker under `internal/collection/headless/worker`: it stands
  behind the driver, exit and idle hold the manager sees.
* Of the parts marked `partly`: section 2 says for each what is left out; of the
  session engine, the hybrid driver plan and the daily collectors.

The map covers about 13 % of the implementation's lines.  Most of the rest is of
the kinds above: of the 95 thousand lines, the larger part is I/O, text
processing, record types, SQL projections and platform code, for which a state
machine has nothing to say, and the models concentrate on the code where steps of
several actors meet.

## 8. Plan

In order of how much of the system's correctness hangs on them:

1. **HybridCollection**, over `CollectionCoordinator`: the engine's per-session
   leases and the Facebook browser exception (`engine/capture_runtime.go`,
   `capture_rounds.go`).  No lease is waited for while another is retained; every
   lease and intent of a session is returned when it ends.
2. **WorkQueues** and **ReloadActions**: AI detection and vision lanes over one
   abstract queue with attempts and recovery; the one-slot request and its
   acknowledgement.
3. **ManualPilot**, **ActivationGuard**, **ReaderBroker**: one-use permits and the
   durable hold, with crashes between grant and use.
4. **OwnedRPC**: correlation, cancellation and the broken pipe.
5. **SemanticCorrections**: corrections against later resolution.
6. **Selection** and **Reconcile**: the pure algorithms as operators over bounded
   inputs against a reference definition.
