--------------------------- MODULE SessionPipeline ---------------------------
(***************************************************************************)
(* An update session of AkuSidecar: the durable rows (sessions, runs,       *)
(* bridge_commands, observations, assessments), the reasoning workers that  *)
(* process accepted observations, and startNext, the function under the     *)
(* schedule mutex that starts the next source or finalizes the session.     *)
(*                                                                          *)
(* A transaction of the Store is one step; two Store calls of one goroutine *)
(* are two steps, and anything may happen between them.  A goroutine that   *)
(* has yet to call startNext or launchProcess is a member of calls.         *)
(* Contexts are modelled: a worker whose context is cancelled, or a handler *)
(* whose client went away, fails at its next Store call.                    *)
(*                                                                          *)
(* Only the ordinary collection route is modelled: commands of the bridge,  *)
(* no hybrid driver plan and no daily collector.                            *)
(***************************************************************************)
EXTENDS Naturals, FiniteSets

CONSTANTS
    Sessions,        \* identifiers of update sessions
    Ordinals,        \* positions of the sources in a session: 1 .. n
    XOrdinals,       \* the positions whose source is X
    Rounds,          \* MaxAcquisitionRounds of the configuration
    MaxCancels,      \* bound on CancelSession requests
    MaxRestarts,     \* bound on ends of the process
    Crashes,         \* whether it may end without a shutdown
    MaxRetries,      \* bound on ReevaluateFailedRun requests
    MaxDisconnects   \* bound on clients that go away during a request

ASSUME PipelineAssumption ==
    /\ IsFiniteSet(Sessions) /\ Sessions # {}
    /\ IsFiniteSet(Ordinals) /\ Ordinals # {} /\ Ordinals \subseteq Nat
    /\ XOrdinals \subseteq Ordinals
    /\ Rounds \in {1, 2}
    /\ Crashes \in BOOLEAN
    /\ {MaxCancels, MaxRestarts, MaxRetries, MaxDisconnects} \subseteq Nat

VARIABLES
    sess,          \* sessions.status
    wait,          \* sourceWaitMode, frozen into the session
    composed,      \* the completed runs ComposeSession has put on the Timeline
    run,           \* runs.status
    stage,         \* runs.stage
    cmd,           \* bridge_commands.status, by run and acquisition round
    obs,           \* number of accepted observations of a run
    assessed,      \* whether candidate_assessments holds rows of the run
    xPaused,       \* the X capture pause latch
    worker,        \* the worker registered in active, by run
    pending,       \* the queued rerun of a run, with its allowPlanning
    cancelled,     \* runs marked by CancelSession in this process
    shuttingDown,
    admission,     \* the holder of Engine.operation and where it stands
    calls,         \* goroutines about to call startNext, launchProcess or CancelSession
    sched,         \* the holder of the schedule mutex and where it stands
    spent,         \* how much of each bound is used
    dropped,       \* history: runs whose launch admitRun dropped behind their own worker,
    gone,          \* runs whose handler lost its client before its next Store call,
    stale          \* sessions created with an X source although X was paused by then

durable == <<sess, wait, composed, run, stage, cmd, obs, assessed, xPaused>>
memory  == <<worker, pending, cancelled, shuttingDown, admission>>
history == <<dropped, gone, stale>>
vars    == <<durable, memory, calls, sched, spent, history>>

-----------------------------------------------------------------------------
Runs     == Sessions \X Ordinals
Commands == Runs \X {1, 2}

ActiveSession == {"queued", "running"}
Published     == {"completed", "partial", "failed"}
SessionStatus == ActiveSession \cup Published \cup {"absent", "cancelled"}
WaitModes     == {"full_wait", "progressive_wait"}
OpenRun       == {"waiting_for_bridge", "reasoning"}
TerminalRun   == {"completed", "failed", "cancelled"}
RunStatus     == {"absent", "queued"} \cup OpenRun \cup TerminalRun
Stages        == {"queued", "capture", "follow_up_capture", "reasoning", "acquisition_planning",
                  "candidate_evaluation", "completed", "cancelled"}
OpenCommand   == {"queued", "claimed"}
CommandStatus == OpenCommand \cup {"none", "completed", "failed", "cancelled"}

\* process with its context, then the error path with a fresh one.
Processing == {"process", "planning", "followUp", "receipt", "evaluate", "empty", "complete"}
WorkerPCs  == Processing \cup {"none", "advance", "error", "failCaptured", "failRun", "stopPeers",
                               "advanceAfter", "retire"}
\* plan: allowPlanning; dead: its context is cancelled; usage: it met a usage
\* limit of the provider; ok: process returned without an error.
Workers == [pc : WorkerPCs, plan : BOOLEAN, dead : BOOLEAN, usage : BOOLEAN, ok : BOOLEAN]
NoWorker == [pc |-> "none", plan |-> FALSE, dead |-> FALSE, usage |-> FALSE, ok |-> FALSE]

\* next: startNext; next_launch: startNext, then launchProcess; launch: launchProcess.
Calls == [k : {"next", "next_launch", "launch", "cancel", "worker"}, r : Runs,
          plan : BOOLEAN, queue : BOOLEAN, http : BOOLEAN]
Call(k, r, plan, queue, http) ==
    [k |-> k, r |-> r, plan |-> plan, queue |-> queue, http |-> http]
WorkerCall(r) == Call("worker", r, FALSE, FALSE, FALSE)

SchedPCs == {"idle", "pick", "start", "compose", "finalizing", "publish", "write"}
\* by: the caller; settled: every run was terminal in the session it read;
\* r: the run it picked; status: the outcome FinalizeSession computed.
Scheds == [pc : SchedPCs, by : Calls, settled : BOOLEAN, r : Runs, status : SessionStatus]
IdleSched ==
    LET r == CHOOSE r \in Runs : TRUE
    IN [pc |-> "idle", by |-> WorkerCall(r), settled |-> FALSE, r |-> r, status |-> "absent"]

\* Between the Store calls of startSession and ReevaluateFailedRun.  check: the
\* sources are chosen; insert: no session was active; retry: none was, for run r.
AdmissionPCs == {"idle", "check", "insert", "retry"}
Admissions == [pc : AdmissionPCs, mode : WaitModes, sources : SUBSET Ordinals, r : Runs]
NoAdmission == [pc |-> "idle", mode |-> "full_wait", sources |-> {}, r |-> CHOOSE r \in Runs : TRUE]

RunsOf(s)   == {r \in Runs : r[1] = s}
IsX(r)      == r[2] \in XOrdinals
\* requireSourceCaptureAllowed
CaptureAllowed(r) == ~ (xPaused /\ IsX(r))
HasWorker(r) == worker[r].pc # "none"
NoActiveSession == \A s \in Sessions : sess[s] \notin ActiveSession
Settled(s) == \A r \in RunsOf(s) : run[r] \in TerminalRun \cup {"absent"}
CompletedRuns(s) == {r \in RunsOf(s) : run[r] = "completed"}

Init ==
    /\ sess = [s \in Sessions |-> "absent"]
    /\ wait = [s \in Sessions |-> "full_wait"]
    /\ composed = [s \in Sessions |-> {}]
    /\ run = [r \in Runs |-> "absent"]
    /\ stage = [r \in Runs |-> "queued"]
    /\ cmd = [c \in Commands |-> "none"]
    /\ obs = [r \in Runs |-> 0]
    /\ assessed = [r \in Runs |-> FALSE]
    /\ xPaused = FALSE
    /\ worker = [r \in Runs |-> NoWorker]
    /\ pending = [r \in Runs |-> "none"]
    /\ cancelled = [r \in Runs |-> FALSE]
    /\ shuttingDown = FALSE
    /\ admission = NoAdmission
    /\ calls = {}
    /\ sched = IdleSched
    /\ spent = [what \in {"cancels", "restarts", "retries", "disconnects"} |-> 0]
    /\ dropped = {} /\ gone = {} /\ stale = {}

Spend(what) == spent' = [spent EXCEPT ![what] = @ + 1]
-----------------------------------------------------------------------------
(* Admission.  Engine.operation is held over the calls of startSession and   *)
(* of ReevaluateFailedRun: there is one admission at a time, but bridge,     *)
(* workers, startNext and cancellations go on between its calls.             *)

Admitting(pc) == admission.pc = pc
OnlyAdmission == UNCHANGED <<durable, worker, pending, cancelled, shuttingDown, calls, sched, spent, history>>

\* captureBehaviorSources: a paused X is left out, and a source has to be left.
AdmitSources(mode) ==
    LET sources == {o \in Ordinals : ~ (xPaused /\ o \in XOrdinals)}
    IN /\ Admitting("idle")
       /\ \E s \in Sessions : sess[s] = "absent"
       /\ sources # {}
       /\ admission' = [NoAdmission EXCEPT !.pc = "check", !.mode = mode, !.sources = sources]
       /\ OnlyAdmission

\* createUpdateSession refuses beside an active session, ...
AdmitAlone ==
    /\ Admitting("check")
    /\ admission' = IF NoActiveSession THEN [admission EXCEPT !.pc = "insert"] ELSE NoAdmission
    /\ OnlyAdmission

\* ... and inserts the session with the sources as they were chosen.
CreateSession(s) ==
    LET sources == {r \in RunsOf(s) : r[2] \in admission.sources}
    IN /\ Admitting("insert")
       /\ sess[s] = "absent"
       /\ sess' = [sess EXCEPT ![s] = "queued"]
       /\ wait' = [wait EXCEPT ![s] = admission.mode]
       /\ run' = [r \in Runs |-> IF r \in sources THEN "queued" ELSE run[r]]
       /\ \E r \in sources : calls' = calls \cup {Call("next", r, FALSE, FALSE, TRUE)}
       /\ admission' = NoAdmission
       /\ stale' = IF xPaused /\ admission.sources \cap XOrdinals # {} THEN stale \cup {s} ELSE stale
       /\ UNCHANGED <<composed, stage, cmd, obs, assessed, xPaused, worker, pending, cancelled,
                      shuttingDown, sched, spent, dropped, gone>>

\* ReevaluateFailedRun goes on when no update is active, ...
ReevaluateFailedRun(r) ==
    /\ Admitting("idle")
    /\ spent["retries"] < MaxRetries
    /\ NoActiveSession
    /\ run[r] # "absent"
    /\ admission' = [NoAdmission EXCEPT !.pc = "retry", !.r = r]
    /\ OnlyAdmission

\* ... and RetryFailedRun opens the session again around a failed run whose
\* observations are not assessed yet.
RetryFailedRun(r) ==
    /\ Admitting("retry") /\ r = admission.r
    /\ spent["retries"] < MaxRetries
    /\ run[r] = "failed" /\ obs[r] > 0 /\ ~ assessed[r]
    /\ sess' = [sess EXCEPT ![r[1]] = "running"]
    /\ run' = [run EXCEPT ![r] = "reasoning"]
    /\ stage' = [stage EXCEPT ![r] = "reasoning"]
    /\ calls' = calls \cup {Call("launch", r, FALSE, FALSE, FALSE)}
    /\ admission' = NoAdmission
    /\ Spend("retries")
    /\ UNCHANGED <<wait, composed, cmd, obs, assessed, xPaused, worker, pending, cancelled,
                   shuttingDown, sched, history>>

\* A refusal of RetryFailedRun, a failing call or a client that went away.
AdmissionFails ==
    /\ ~ Admitting("idle")
    /\ admission' = NoAdmission
    /\ OnlyAdmission

-----------------------------------------------------------------------------
(* startNext, serialized by the schedule mutex.                             *)

\* The callers of startNext: handlers, and workers that are done with their run.
Callers ==
    {c \in calls : c.k \in {"next", "next_launch"}} \cup
    {WorkerCall(r) : r \in {q \in Runs : worker[q].pc \in {"advance", "advanceAfter"}}}

\* process passes its own context to startNext, failRunAfterProcessError a fresh one.
ContextDead(c) == c.k = "worker" /\ worker[c.r].pc = "advance" /\ worker[c.r].dead

\* What the caller does with the result: a worker in process takes an error as
\* a failure of its run, an accepted observation is not launched after one.
Return(c, ok) ==
    /\ sched' = IdleSched
    /\ calls' = IF c.k = "next_launch" /\ ok
                  THEN (calls \ {c}) \cup {[c EXCEPT !.k = "launch"]}
                  ELSE calls \ {c}
    /\ worker' = IF c.k # "worker" THEN worker
                 ELSE [worker EXCEPT ![c.r].pc = IF @ = "advance" /\ ~ ok THEN "error" ELSE "retire",
                                     ![c.r].ok = ok /\ worker[c.r].pc = "advance"]
    /\ UNCHANGED <<pending, cancelled, shuttingDown, admission, spent, history>>

Step(pc) == sched.pc = pc
Goto(pc) == sched' = [sched EXCEPT !.pc = pc] /\ UNCHANGED <<memory, calls, spent, history>>

\* The mutex is taken and the session read; only an active one goes on.
NextBegin(c) ==
    /\ Step("idle") /\ c \in Callers
    /\ IF ContextDead(c) \/ sess[c.r[1]] \notin ActiveSession
         THEN Return(c, ~ ContextDead(c))
         ELSE /\ sched' = [IdleSched EXCEPT !.pc = "pick", !.by = c, !.settled = Settled(c.r[1])]
              /\ UNCHANGED <<memory, calls, spent, history>>
    /\ UNCHANGED durable

NextAbort ==
    /\ ~ Step("idle") /\ ContextDead(sched.by)
    /\ Return(sched.by, FALSE)
    /\ UNCHANGED durable

Live(pc) == Step(pc) /\ ~ ContextDead(sched.by)

\* AdvanceSession reads the runs again: the first queued one is started.
Pick(finalize, settled) ==
    LET queued == {r \in RunsOf(sched.by.r[1]) : run[r] = "queued"}
    IN /\ Live("pick")
       /\ \/ \E r \in queued :
               /\ \A q \in queued : r[2] <= q[2]
               /\ sched' = [sched EXCEPT !.pc = "start", !.r = r]
               /\ UNCHANGED <<memory, calls, spent, history>>
          \/ queued = {} /\ settled /\ Goto(finalize)
          \/ queued = {} /\ ~ settled /\ Return(sched.by, TRUE)
       /\ UNCHANGED durable

\* Fault: finalization does not wait for open runs.
PickUnsettled == Pick("compose", TRUE)

\* With no queued run the session is finalized, if all were terminal in the
\* earlier read.
NextPick == Pick("compose", sched.settled)

\* Fault: the latch is not looked at.
StartPausedX ==
    /\ Live("start")
    /\ sess' = [sess EXCEPT ![sched.r[1]] = "running"]
    /\ run' = [run EXCEPT ![sched.r] = "waiting_for_bridge"]
    /\ stage' = [stage EXCEPT ![sched.r] = "capture"]
    /\ cmd' = [cmd EXCEPT ![<<sched.r, 1>>] = "queued"]
    /\ Return(sched.by, TRUE)
    /\ UNCHANGED <<wait, composed, obs, assessed, xPaused>>

\* StartRun updates the session and the run without looking at their status.
StartRun ==
    LET r == sched.r
    IN /\ Live("start")
       /\ IF ~ CaptureAllowed(r)
            THEN Return(sched.by, FALSE) /\ UNCHANGED durable
            ELSE /\ sess' = [sess EXCEPT ![r[1]] = "running"]
                 /\ run' = [run EXCEPT ![r] = "waiting_for_bridge"]
                 /\ stage' = [stage EXCEPT ![r] = "capture"]
                 /\ cmd' = [cmd EXCEPT ![<<r, 1>>] = "queued"]
                 /\ Return(sched.by, TRUE)
                 /\ UNCHANGED <<wait, composed, obs, assessed, xPaused>>

-----------------------------------------------------------------------------
(* finalizeSessionLocked, still under the mutex.  Each SetSessionPipeline-  *)
(* Stage demands an active session; the publication does not.               *)

\* Semantic events, then ComposeSession; its stage and the composition are one
\* step, since only a cancellation comes between them and Finalizing refuses it.
Compose ==
    LET s == sched.by.r[1]
    IN /\ Live("compose")
       /\ IF sess[s] \in ActiveSession
            THEN composed' = [composed EXCEPT ![s] = CompletedRuns(s)] /\ Goto("finalizing")
            ELSE Return(sched.by, FALSE) /\ UNCHANGED composed
       /\ UNCHANGED <<sess, wait, run, stage, cmd, obs, assessed, xPaused>>

\* Fast detection, then the stage finalizing.
Finalizing ==
    /\ Live("finalizing")
    /\ IF sess[sched.by.r[1]] \in ActiveSession THEN Goto("publish") ELSE Return(sched.by, FALSE)
    /\ UNCHANGED durable

\* FinalizeSession lists the runs and refuses an open one, ...
Publish ==
    LET s == sched.by.r[1]
    IN /\ Live("publish")
       /\ IF Settled(s)
            THEN /\ sched' = [sched EXCEPT !.pc = "write", !.status =
                       CASE \A r \in RunsOf(s) : run[r] \in {"completed", "absent"} -> "completed"
                         [] CompletedRuns(s) = {} -> "failed"
                         [] OTHER -> "partial"]
                 /\ UNCHANGED <<memory, calls, spent, history>>
            ELSE Return(sched.by, FALSE)
       /\ UNCHANGED durable

\* ... and writes the outcome whatever the session's status is by then.
PublishWrite ==
    /\ Live("write")
    /\ sess' = [sess EXCEPT ![sched.by.r[1]] = sched.status]
    /\ Return(sched.by, TRUE)
    /\ UNCHANGED <<wait, composed, run, stage, cmd, obs, assessed, xPaused>>

-----------------------------------------------------------------------------
(* The bridge: one request of the browser extension each.                   *)

\* claimCommandWithBehavior: at most one claimed command in a session.  The
\* run's status is not consulted.
ClaimCommand(r, k) ==
    /\ cmd[<<r, k>>] = "queued"
    /\ CaptureAllowed(r)
    /\ \A q \in RunsOf(r[1]), j \in {1, 2} : cmd[<<q, j>>] # "claimed"
    /\ cmd' = [cmd EXCEPT ![<<r, k>>] = "claimed"]
    /\ UNCHANGED <<sess, wait, composed, run, stage, obs, assessed, xPaused, memory, calls, sched, spent,
                   history>>

\* SaveObservation, whatever the run's status is, then the call that follows.
SaveObservation(r, k, plan, mode) ==
    /\ CaptureAllowed(r)
    /\ cmd' = [cmd EXCEPT ![<<r, k>>] = "completed"]
    /\ obs' = [obs EXCEPT ![r] = @ + 1]
    /\ run' = [run EXCEPT ![r] = "reasoning"]
    /\ stage' = [stage EXCEPT ![r] = "reasoning"]
    /\ calls' = calls \cup
         {Call(IF mode = "progressive_wait" THEN "next_launch" ELSE "launch", r, plan, TRUE, TRUE)}
    /\ UNCHANGED <<sess, wait, composed, assessed, xPaused, memory, sched, spent, history>>

\* AcceptObservation: in progressive_wait the next source is started before the
\* launch; planning is not allowed during first-run calibration.
AcceptObservation(r, k, plan) == cmd[<<r, k>>] = "claimed" /\ SaveObservation(r, k, plan, wait[r[1]])

\* A failed follow-up falls back to the accepted observation.
Fallback(r) == stage[r] = "follow_up_capture" /\ obs[r] > 0

\* failCommand.  A challenge of X sets the latch and ends all other X work in
\* the same transaction.
FailCommandTx(r, k, challenge) ==
    LET pause    == challenge /\ IsX(r)
        fallback == Fallback(r)
        peers    == {q \in Runs : pause /\ IsX(q) /\ q # r /\ run[q] \in {"queued", "waiting_for_bridge"}}
    IN /\ xPaused' = (xPaused \/ pause)
       /\ cmd' = [c \in Commands |->
                    IF c = <<r, k>> \/ (pause /\ IsX(c[1]) /\ cmd[c] \in OpenCommand) THEN "failed" ELSE cmd[c]]
       /\ run' = [q \in Runs |-> CASE q = r -> IF fallback THEN "reasoning" ELSE "failed"
                                   [] q \in peers -> "failed"
                                   [] OTHER -> run[q]]
       /\ stage' = [q \in Runs |-> CASE q = r -> IF fallback THEN "reasoning" ELSE "capture"
                                     [] q \in peers -> "capture"
                                     [] OTHER -> stage[q]]
       /\ UNCHANGED <<sess, wait, composed, obs, assessed, memory, sched, spent, history>>

\* Fault: only the fallback is followed up.
FailedCommandStops(r, k, challenge, http) ==
    /\ FailCommandTx(r, k, challenge)
    /\ calls' = IF Fallback(r) THEN calls \cup {Call("launch", r, FALSE, FALSE, http)} ELSE calls

\* The run is evaluated as it is after a fallback; otherwise the session goes on.
FailedCommand(r, k, challenge, http) ==
    /\ FailCommandTx(r, k, challenge)
    /\ calls' = calls \cup {Call(IF Fallback(r) THEN "launch" ELSE "next", r, FALSE, FALSE, http)}

FailCommand(r, k, challenge) ==
    /\ cmd[<<r, k>>] = "claimed"
    /\ FailedCommand(r, k, challenge, TRUE)

\* Fault: a command that was settled meanwhile expires.
ExpireAnyCommand(r, k) ==
    /\ cmd[<<r, k>>] # "none"
    /\ ~ shuttingDown
    /\ FailedCommand(r, k, FALSE, FALSE)

\* recoverExpiredBridgeCommands, at the latest on a tick of the update
\* scheduler: a command waited too long for its claim or for its result.
ExpireCommand(r, k) ==
    /\ cmd[<<r, k>>] \in OpenCommand
    /\ ~ shuttingDown
    /\ FailedCommand(r, k, FALSE, FALSE)

ConfirmXCaptureRecovery ==
    /\ xPaused
    /\ xPaused' = FALSE
    /\ UNCHANGED <<sess, wait, composed, run, stage, cmd, obs, assessed, memory, calls, sched, spent, history>>

-----------------------------------------------------------------------------
(* launchProcess, cancellation and the process.                             *)

\* A launch behind an active worker that does not queue a rerun is dropped.
Drops(c) == ~ shuttingDown /\ ~ cancelled[c.r] /\ HasWorker(c.r) /\ ~ c.queue

\* admitRun: refused in a shutdown or after a cancellation; an active worker
\* keeps the run, and only an accepted observation queues a rerun behind it.
Launch(c) ==
    /\ c \in calls /\ c.k = "launch"
    /\ calls' = calls \ {c}
    /\ CASE shuttingDown \/ cancelled[c.r] -> UNCHANGED <<worker, pending>>
         [] ~ (shuttingDown \/ cancelled[c.r]) /\ HasWorker(c.r) ->
              /\ pending' = IF c.queue
                              THEN [pending EXCEPT ![c.r] = IF c.plan \/ @ = "plan" THEN "plan" ELSE "skip"]
                              ELSE pending
              /\ UNCHANGED worker
         [] OTHER ->
              /\ worker' = [worker EXCEPT ![c.r] = [NoWorker EXCEPT !.pc = "process", !.plan = c.plan]]
              /\ UNCHANGED pending
    /\ dropped' = IF Drops(c) THEN dropped \cup {c.r} ELSE dropped
    /\ UNCHANGED <<durable, cancelled, shuttingDown, admission, sched, spent, gone, stale>>

\* CancelSession marks the runs and cancels their workers in memory ...
CancelSession(s) ==
    /\ spent["cancels"] < MaxCancels
    /\ sess[s] # "absent"
    /\ cancelled' = [r \in Runs |-> cancelled[r] \/ r[1] = s]
    /\ pending' = [r \in Runs |-> IF r[1] = s THEN "none" ELSE pending[r]]
    /\ worker' = [r \in Runs |-> IF r[1] = s /\ HasWorker(r) THEN [worker[r] EXCEPT !.dead = TRUE] ELSE worker[r]]
    /\ \E r \in RunsOf(s) : calls' = calls \cup {Call("cancel", r, FALSE, FALSE, TRUE)}
    /\ Spend("cancels")
    /\ UNCHANGED <<durable, shuttingDown, admission, sched, history>>

\* CancelSession of the Store, on the runs in the given states.
CancelTx(c, open) ==
    LET s == c.r[1]
    IN /\ c \in calls /\ c.k = "cancel"
       /\ calls' = calls \ {c}
       /\ sess' = IF sess[s] \in ActiveSession THEN [sess EXCEPT ![s] = "cancelled"] ELSE sess
       /\ run' = [r \in Runs |-> IF r[1] = s /\ run[r] \in open THEN "cancelled" ELSE run[r]]
       /\ stage' = [r \in Runs |-> IF r[1] = s /\ run[r] \in open THEN "cancelled" ELSE stage[r]]
       /\ cmd' = [d \in Commands |-> IF d[1][1] = s /\ cmd[d] \in OpenCommand THEN "cancelled" ELSE cmd[d]]
       /\ UNCHANGED <<wait, composed, obs, assessed, xPaused, memory, sched, spent, history>>

\* Fault: a run in reasoning is left to its worker.
CancelUnreasoned(c) == CancelTx(c, {"queued", "waiting_for_bridge"})

\* ... and then the rows, in one transaction.
CancelStored(c) == CancelTx(c, {"queued"} \cup OpenRun)

\* A client goes away: its handler's context is cancelled, so the next Store
\* call fails and the handler returns; the mutex is released if it held it.
Disconnect(c) ==
    /\ spent["disconnects"] < MaxDisconnects
    /\ c \in calls /\ c.http
    /\ calls' = calls \ {c}
    /\ sched' = IF ~ Step("idle") /\ sched.by = c THEN IdleSched ELSE sched
    /\ gone' = gone \cup {c.r}
    /\ Spend("disconnects")
    /\ UNCHANGED <<durable, memory, dropped, stale>>

Shutdown ==
    /\ spent["restarts"] < MaxRestarts
    /\ ~ shuttingDown
    /\ shuttingDown' = TRUE
    /\ worker' = [r \in Runs |-> IF HasWorker(r) THEN [worker[r] EXCEPT !.dead = TRUE] ELSE worker[r]]
    /\ UNCHANGED <<durable, pending, cancelled, admission, calls, sched, spent, history>>

\* The process ends, after a shutdown or in a crash, and the next one calls
\* ResumePendingReasoning: each resumable run is launched, in progressive_wait
\* behind one startNext of its session.
ResumePendingReasoning(resumable, plan) ==
    LET First(r)  == \A q \in resumable : q[1] = r[1] => r[2] <= q[2]
    IN /\ spent["restarts"] < MaxRestarts
       /\ shuttingDown \/ Crashes
       /\ worker' = [r \in Runs |-> NoWorker]
       /\ pending' = [r \in Runs |-> "none"]
       /\ cancelled' = [r \in Runs |-> FALSE]
       /\ shuttingDown' = FALSE
       /\ admission' = NoAdmission
       /\ sched' = IdleSched
       /\ calls' = {Call(IF wait[r[1]] = "progressive_wait" /\ First(r) THEN "next_launch" ELSE "launch",
                         r, plan, FALSE, FALSE) : r \in resumable}
       /\ Spend("restarts")
       /\ UNCHANGED <<durable, history>>

\* ResumableReasoningRunIDs
Resumable == {r \in Runs : run[r] = "reasoning" /\ obs[r] > 0}

\* Fault: planning is repeated.
RestartPlans == ResumePendingReasoning(Resumable, TRUE)

\* Planning is not repeated: the evidence is already durable.
Restart == ResumePendingReasoning(Resumable, FALSE)

-----------------------------------------------------------------------------
(* The worker of a run: process, then the error path, then retireRun.       *)

At(r, pc) == worker[r].pc = pc
Alive(r, pc) == At(r, pc) /\ ~ worker[r].dead
To(r, pc) == worker' = [worker EXCEPT ![r].pc = pc]
OnlyWorker == UNCHANGED <<pending, cancelled, shuttingDown, admission, calls, sched, spent, history>>

\* A cancelled context fails the next Store or provider call of process.
WorkerInterrupted(r) ==
    /\ worker[r].pc \in Processing /\ worker[r].dead
    /\ To(r, "error")
    /\ OnlyWorker /\ UNCHANGED durable

\* The provider fails or refuses an invalid answer; a usage limit is remembered.
WorkerFails(r) ==
    /\ Alive(r, "planning") \/ Alive(r, "evaluate")
    /\ \E limit \in BOOLEAN :
          worker' = [worker EXCEPT ![r].pc = "error", ![r].usage = limit]
    /\ OnlyWorker /\ UNCHANGED durable

\* process reads the observations: with no candidate left the run completes
\* without reasoning; a first round may ask for a second one, which X decides
\* locally or the provider is asked about.
WorkerRead(r) ==
    /\ Alive(r, "process")
    /\ \E pc \in IF obs[r] = 0 THEN {"error"}
                 ELSE {"empty", "evaluate"} \cup
                      (IF worker[r].plan /\ obs[r] = 1 /\ Rounds > 1
                         THEN {"planning"} \cup (IF IsX(r) THEN {"followUp"} ELSE {}) ELSE {}) :
          To(r, pc)
    /\ OnlyWorker /\ UNCHANGED durable

\* SetRunPipelineStage touches a run in reasoning only.
Staged(r, name) ==
    /\ stage' = IF run[r] = "reasoning" THEN [stage EXCEPT ![r] = name] ELSE stage
    /\ UNCHANGED <<sess, wait, composed, run, cmd, obs, assessed, xPaused>>

WorkerPlan(r) ==
    /\ Alive(r, "planning")
    /\ \E pc \in {"followUp", "evaluate"} : To(r, pc)
    /\ Staged(r, "acquisition_planning")
    /\ OnlyWorker

\* Fault: the command is inserted, the run stays in reasoning.
FollowUpKeepsRun(r) ==
    /\ Alive(r, "followUp")
    /\ cmd' = [cmd EXCEPT ![<<r, 2>>] = "queued"]
    /\ To(r, "receipt")
    /\ OnlyWorker /\ UNCHANGED <<sess, wait, composed, run, stage, obs, assessed, xPaused>>

\* QueueFollowUp: the run goes back to the bridge if it is in reasoning; the
\* command of the second round is inserted in any case.
WorkerFollowUp(r) ==
    /\ Alive(r, "followUp")
    /\ IF CaptureAllowed(r)
         THEN /\ run' = IF run[r] = "reasoning" THEN [run EXCEPT ![r] = "waiting_for_bridge"] ELSE run
              /\ stage' = IF run[r] = "reasoning" THEN [stage EXCEPT ![r] = "follow_up_capture"] ELSE stage
              /\ cmd' = [cmd EXCEPT ![<<r, 2>>] = "queued"]
              /\ To(r, "receipt")
         ELSE To(r, "error") /\ UNCHANGED <<run, stage, cmd>>
    /\ OnlyWorker /\ UNCHANGED <<sess, wait, composed, obs, assessed, xPaused>>

\* SetRunCoverageField, after which process returns.
WorkerReceipt(r) ==
    /\ Alive(r, "receipt")
    /\ worker' = [worker EXCEPT ![r].pc = "retire", ![r].ok = TRUE]
    /\ OnlyWorker /\ UNCHANGED durable

WorkerEvaluate(r) ==
    /\ Alive(r, "evaluate")
    /\ To(r, "complete")
    /\ Staged(r, "candidate_evaluation")
    /\ OnlyWorker

\* CompleteRun: the assessments are inserted under (run, evidence), so a second
\* evaluation fails as a whole; the run's status is not consulted.
WorkerComplete(r) ==
    /\ Alive(r, "complete") \/ Alive(r, "empty")
    /\ IF At(r, "complete") /\ assessed[r]
         THEN To(r, "error") /\ UNCHANGED <<run, stage, assessed>>
         ELSE /\ run' = [run EXCEPT ![r] = "completed"]
              /\ stage' = [stage EXCEPT ![r] = "completed"]
              /\ assessed' = [assessed EXCEPT ![r] = @ \/ At(r, "complete")]
              /\ To(r, "advance")
    /\ OnlyWorker /\ UNCHANGED <<sess, wait, composed, cmd, obs, xPaused>>

\* process returned an error: a shutdown leaves the run as it is; otherwise
\* failRunAfterProcessError reads the run to choose how to fail it.
WorkerError(r) ==
    /\ At(r, "error")
    /\ To(r, CASE shuttingDown /\ worker[r].dead -> "retire"
               [] run[r] = "reasoning" /\ ~ (shuttingDown /\ worker[r].dead) -> "failCaptured"
               [] OTHER -> "failRun")
    /\ OnlyWorker /\ UNCHANGED durable

AfterFailure(r) == To(r, IF worker[r].usage THEN "stopPeers" ELSE "advanceAfter")
FailedRun(q) ==
    /\ run' = [run EXCEPT ![q] = "failed"]
    /\ stage' = [stage EXCEPT ![q] = "reasoning"]

\* FailCapturedRunReasoning refuses unless the run is still in reasoning and its
\* session running; startNext is then not called.
FailCapturedRunReasoning(r) ==
    /\ At(r, "failCaptured")
    /\ IF run[r] = "reasoning" /\ sess[r[1]] = "running"
         THEN FailedRun(r) /\ AfterFailure(r)
         ELSE To(r, "retire") /\ UNCHANGED <<run, stage>>
    /\ OnlyWorker /\ UNCHANGED <<sess, wait, composed, cmd, obs, assessed, xPaused>>

\* Fault: a terminal run is failed too.
FailRunUnguarded(r) ==
    /\ At(r, "failRun")
    /\ FailedRun(r)
    /\ AfterFailure(r)
    /\ OnlyWorker /\ UNCHANGED <<sess, wait, composed, cmd, obs, assessed, xPaused>>

\* FailRun leaves a terminal run alone.
FailRun(r) ==
    /\ At(r, "failRun")
    /\ IF run[r] \in TerminalRun THEN UNCHANGED <<run, stage>> ELSE FailedRun(r)
    /\ AfterFailure(r)
    /\ OnlyWorker /\ UNCHANGED <<sess, wait, composed, cmd, obs, assessed, xPaused>>

\* FailQueuedAfterReasoningFailure: a usage limit fails the sources that have
\* not been started.
FailQueuedAfterReasoningFailure(r) ==
    LET stop   == run[r] = "failed" /\ stage[r] = "reasoning" /\ sess[r[1]] = "running"
        queued == {q \in RunsOf(r[1]) : stop /\ run[q] = "queued"}
    IN /\ At(r, "stopPeers")
       /\ run' = [q \in Runs |-> IF q \in queued THEN "failed" ELSE run[q]]
       /\ stage' = [q \in Runs |-> IF q \in queued THEN "reasoning" ELSE stage[q]]
       /\ To(r, IF stop THEN "advanceAfter" ELSE "retire")
       /\ OnlyWorker /\ UNCHANGED <<sess, wait, composed, cmd, obs, assessed, xPaused>>

\* retireRun: a queued rerun follows a worker that succeeded.
WorkerRetire(r) ==
    /\ At(r, "retire")
    /\ worker' = [worker EXCEPT ![r] = NoWorker]
    /\ pending' = [pending EXCEPT ![r] = "none"]
    /\ calls' = IF worker[r].ok /\ pending[r] # "none" /\ ~ cancelled[r] /\ ~ shuttingDown
                  THEN calls \cup {Call("launch", r, pending[r] = "plan", FALSE, FALSE)} ELSE calls
    /\ UNCHANGED <<durable, cancelled, shuttingDown, admission, sched, spent, history>>

-----------------------------------------------------------------------------
ScheduleStep == NextAbort \/ NextPick \/ StartRun \/ Compose \/ Finalizing \/ Publish \/ PublishWrite

WorkerStep(r) ==
    \/ WorkerInterrupted(r) \/ WorkerFails(r) \/ WorkerRead(r) \/ WorkerPlan(r) \/ WorkerFollowUp(r)
    \/ WorkerReceipt(r) \/ WorkerEvaluate(r) \/ WorkerComplete(r) \/ WorkerError(r)
    \/ FailCapturedRunReasoning(r) \/ FailRun(r) \/ FailQueuedAfterReasoningFailure(r) \/ WorkerRetire(r)

\* What an admission does without storing anything.
AdmissionReads ==
    \/ \E mode \in WaitModes : AdmitSources(mode)
    \/ \E r \in Runs : ReevaluateFailedRun(r)
    \/ AdmitAlone \/ AdmissionFails

Bridge(r, k) ==
    \/ ClaimCommand(r, k)
    \/ \E plan \in BOOLEAN : AcceptObservation(r, k, plan)
    \/ \E challenge \in BOOLEAN : FailCommand(r, k, challenge)
    \/ ExpireCommand(r, k)

Next ==
    \/ AdmissionReads
    \/ \E s \in Sessions : CancelSession(s) \/ CreateSession(s)
    \/ \E r \in Runs : RetryFailedRun(r) \/ WorkerStep(r)
    \/ \E r \in Runs, k \in {1, 2} : Bridge(r, k)
    \/ \E c \in Callers : NextBegin(c)
    \/ \E c \in calls : Launch(c) \/ CancelStored(c) \/ Disconnect(c)
    \/ ScheduleStep \/ ConfirmXCaptureRecovery \/ Shutdown \/ Restart

Spec == Init /\ [][Next]_vars

\* A worker (the provider's calls have timeouts), the holder of the mutex or one
\* who waits for it, a goroutine about to launch or cancel, the scheduler's tick
\* that ends a command nobody claims or completes, and the start that follows a
\* shutdown: while one of them can go on, one does.
Progress ==
    \/ \E r \in Runs : WorkerStep(r)
    \/ ScheduleStep
    \/ \E c \in Callers : NextBegin(c)
    \/ \E c \in calls : Launch(c) \/ CancelStored(c)
    \/ \E r \in Runs, k \in {1, 2} : ExpireCommand(r, k)
    \/ shuttingDown /\ Restart

LiveSpec == Spec /\ WF_vars(Progress)

-----------------------------------------------------------------------------
\* Every variable keeps its type; a run has at most one accepted observation per
\* acquisition round (SaveObservation consumes a claimed command).
TypeOK ==
    /\ sess \in [Sessions -> SessionStatus]
    /\ wait \in [Sessions -> WaitModes]
    /\ composed \in [Sessions -> SUBSET Runs]
    /\ run \in [Runs -> RunStatus]
    /\ stage \in [Runs -> Stages]
    /\ cmd \in [Commands -> CommandStatus]
    /\ obs \in [Runs -> 0 .. 2]
    /\ assessed \in [Runs -> BOOLEAN]
    /\ xPaused \in BOOLEAN
    /\ worker \in [Runs -> Workers]
    /\ pending \in [Runs -> {"none", "plan", "skip"}]
    /\ cancelled \in [Runs -> BOOLEAN]
    /\ shuttingDown \in BOOLEAN
    /\ admission \in Admissions
    /\ calls \subseteq Calls
    /\ sched \in Scheds
    /\ spent \in [{"cancels", "restarts", "retries", "disconnects"} -> Nat]

\* The bridge works on one command of a session at a time, also when
\* progressive_wait has started the next source (claimCommandWithBehavior).
OneClaimPerSession ==
    \A c, d \in Commands : c[1][1] = d[1][1] /\ cmd[c] = "claimed" /\ cmd[d] = "claimed" => c = d

\* While X is paused the bridge has nothing of X to do: no X run waits for it
\* and no X command is open, whatever is started, followed up or admitted
\* meanwhile (pauseXCaptureTx, requireSourceCaptureAllowed).
PauseClearsX ==
    xPaused => \A r \in Runs : IsX(r) =>
                 /\ run[r] # "waiting_for_bridge"
                 /\ \A k \in {1, 2} : cmd[<<r, k>>] \notin OpenCommand

\* An open command belongs to a run that waits for the bridge in a running
\* session: the only work a browser extension can be handed is wanted work.
CommandNeedsRun ==
    \A c \in Commands : cmd[c] \in OpenCommand =>
        run[c[1]] = "waiting_for_bridge" /\ sess[c[1][1]] = "running"

\* At most one session is active (startSession and ReevaluateFailedRun).
OneActiveSession ==
    \A s, t \in Sessions : sess[s] \in ActiveSession /\ sess[t] \in ActiveSession => s = t

\* A cancelled session, and a published one if nothing was cancelled, has no
\* open run and no open command left behind.  A cancellation may interrupt a
\* worker that has just asked for the second round: FailRun then fails the run,
\* leaves its command open, and the session is published around it.
SettledSession ==
    \A s \in Sessions :
        sess[s] = "cancelled" \/ (sess[s] \in Published /\ spent["cancels"] = 0) =>
            /\ Settled(s)
            /\ \A r \in RunsOf(s), k \in {1, 2} : cmd[<<r, k>>] \notin OpenCommand

\* A session is published with every completed source composed into the
\* Timeline, after re-evaluations, restarts and failed finalizations too.
PublishedComposition ==
    \A s \in Sessions : sess[s] \in {"completed", "partial"} => composed[s] = CompletedRuns(s)

\* full_wait collects and reasons about one source at a time.
FullWaitSerial ==
    \A q, r \in Runs :
        q[1] = r[1] /\ wait[q[1]] = "full_wait" /\ {run[q], run[r]} \subseteq OpenRun => q = r

\* Finalization starts, and stays, behind the last source: no run is open while
\* the Timeline is composed and the session published.
FinalizationBarrier ==
    sched.pc \in {"compose", "finalizing", "publish", "write"} => Settled(sched.by.r[1])

\* Assessments exist of completed runs only: a run is never open or failed with
\* its result stored, so no evaluation of accepted evidence meets the primary
\* key of an earlier one (CompleteRun, RetryFailedRun).
AssessedRunsCompleted ==
    \A r \in Runs : assessed[r] => run[r] = "completed" /\ obs[r] > 0

\* A command that was completed, failed or cancelled is never used again:
\* "Outstanding work is terminated, not recycled" (source_capture_pause.go).
CommandsAreNotRecycled ==
    [][\A c \in Commands : cmd[c] \notin OpenCommand \cup {"none"} => cmd'[c] = cmd[c]]_vars

\* The result of a completed run is kept: later failures of startNext, of peers,
\* cancellations and restarts do not take it back.  Only a cancellation and a
\* re-evaluation together can: the command the cancelled run left open outlives
\* its re-evaluation, and failCommand fails the completed run.
CompletedIsFinal ==
    [][\A r \in Runs : run[r] = "completed" /\ run'[r] # "completed" =>
                          spent["cancels"] > 0 /\ spent["retries"] > 0]_vars

\* A cancelled session stays cancelled.
CancelledStaysCancelled ==
    [][\A s \in Sessions : sess[s] = "cancelled" => sess'[s] = "cancelled"]_vars

\* A running session whose runs have settled, with a result among them, is
\* published (startNext by the worker, finalizeSessionLocked).
FinalizationHappens ==
    \A s \in Sessions :
        sess[s] = "running" /\ Settled(s) /\ CompletedRuns(s) # {} ~> sess[s] # "running"

-----------------------------------------------------------------------------
(* What makes the command properties inductive: which commands are still to *)
(* be issued, and who may ask for the second round.                         *)

\* One observation per completed command.
ObservationsCounted ==
    \A r \in Runs : obs[r] = (IF cmd[<<r, 1>>] = "completed" THEN 1 ELSE 0)
                           + (IF cmd[<<r, 2>>] = "completed" THEN 1 ELSE 0)

\* A run that has not been started, or is about to be, has no command; a session
\* that was not created has no runs, and none is published as such.
FreshRuns ==
    /\ \A s \in Sessions : sess[s] = "absent" => \A r \in RunsOf(s) : run[r] = "absent"
    /\ \A r \in Runs : run[r] \in {"absent", "queued"} => cmd[<<r, 1>>] = "none" /\ cmd[<<r, 2>>] = "none"
    /\ sched.pc = "start" => cmd[<<sched.r, 1>>] = "none"
    /\ sched.pc = "write" => sched.status # "absent"

\* Who launches or processes a run has an accepted observation of it.
EvidenceLaunched ==
    /\ \A c \in calls : c.k \in {"launch", "next_launch"} => obs[c.r] > 0
    /\ \A r \in Runs : HasWorker(r) => obs[r] > 0

\* The holder of the schedule mutex is a goroutine that is still there.
HolderWaits == sched.pc # "idle" => sched.by \in Callers

PlanCalls(r) == {c \in calls : c.plan /\ c.r = r}
Planning(r)  == worker[r].pc \in {"planning", "followUp"} \/ (worker[r].pc = "process" /\ worker[r].plan)

\* Between the first observation and the second at most one of a call, a queued
\* rerun and a worker may still plan, and only until the second round is asked for.
PlannerOf(r) ==
    /\ obs[r] = 0 => /\ PlanCalls(r) = {} /\ pending[r] # "plan" /\ ~ Planning(r)
                     /\ cmd[<<r, 2>>] = "none"
    /\ worker[r].pc \in {"planning", "followUp"} => obs[r] = 1
    /\ obs[r] = 1 =>
         /\ PlanCalls(r) # {} \/ pending[r] = "plan" \/ Planning(r) => cmd[<<r, 2>>] = "none"
         /\ \A c, d \in PlanCalls(r) : c = d
         /\ PlanCalls(r) # {} => pending[r] # "plan" /\ ~ Planning(r)
         /\ pending[r] = "plan" => ~ Planning(r)
\* No evidence is planned about twice: launches, reruns, resumption after a
\* restart, re-evaluation and fallbacks together ask for one follow-up at most.
OnePlanner == \A r \in Runs : PlannerOf(r)

CommandInv ==
    /\ TypeOK /\ ObservationsCounted /\ FreshRuns /\ EvidenceLaunched /\ HolderWaits
    /\ OnePlanner /\ OneClaimPerSession /\ PauseClearsX

\* The sources of a session in their order: commands of waiting runs only, one
\* source at a time in full_wait, results of completed runs only.
RunsInOrder == CommandNeedsRun /\ FullWaitSerial /\ AssessedRunsCompleted

\* What is published is the whole session: finalization stays behind the last
\* source, and the Timeline holds exactly the completed ones.
WholePublication == FinalizationBarrier /\ PublishedComposition
=============================================================================
