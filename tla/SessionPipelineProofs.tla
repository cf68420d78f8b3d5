------------------------ MODULE SessionPipelineProofs ------------------------
(***************************************************************************)
(* What is proved of the session pipeline, for any sessions, sources and    *)
(* numbers of cancellations, restarts, retries and disconnects: types, the  *)
(* discipline of the bridge commands (CommandInv is inductive), while       *)
(* nothing is cancelled the order of the sources and of the publication     *)
(* (OrderInv is inductive beside it), and what a cancellation leaves        *)
(* (CancelInv and ResultInv).                                               *)
(***************************************************************************)
EXTENDS SessionPipeline, TLAPS

\* A run is a pair, and the first and second round of it are two commands.
LEMMA RunFacts ==
    /\ Runs # {}
    /\ \A r \in Runs : r[1] \in Sessions /\ r[2] \in Ordinals /\ r = <<r[1], r[2]>>
    /\ \A r \in Runs : <<r, 1>> \in Commands /\ <<r, 2>> \in Commands
    /\ \A c \in Commands : c[1] \in Runs /\ c[2] \in {1, 2} /\ c = <<c[1], c[2]>>
<1>1. PICK s \in Sessions, o \in Ordinals : TRUE
  BY PipelineAssumption
<1>2. <<s, o>> \in Runs
  BY <1>1 DEF Runs
<1>3. \A r \in Runs : r[1] \in Sessions /\ r[2] \in Ordinals /\ r = <<r[1], r[2]>>
  BY DEF Runs
<1>4. \A r \in Runs : <<r, 1>> \in Commands /\ <<r, 2>> \in Commands
  BY DEF Commands
<1>5. \A c \in Commands : c[1] \in Runs /\ c[2] \in {1, 2} /\ c = <<c[1], c[2]>>
  BY DEF Commands
<1> QED
  BY <1>2, <1>3, <1>4, <1>5

\* A constructed call has the type of one.
LEMMA CallType ==
    ASSUME NEW k \in {"next", "next_launch", "launch", "cancel", "worker"}, NEW r \in Runs,
           NEW plan \in BOOLEAN, NEW queue \in BOOLEAN, NEW http \in BOOLEAN
    PROVE  Call(k, r, plan, queue, http) \in Calls
BY DEF Call, Calls

\* The schedule mutex that nobody holds is of the mutex's type.
LEMMA IdleType == IdleSched \in Scheds
<1> DEFINE r0 == CHOOSE r \in Runs : TRUE
<1>1. r0 \in Runs
  BY RunFacts
<1>2. WorkerCall(r0) \in Calls
  BY <1>1, CallType DEF WorkerCall
<1> QED
  BY <1>1, <1>2 DEF IdleSched, Scheds, SchedPCs, SessionStatus

\* Nobody in active is of the workers' type.
LEMMA NoWorkerType == NoWorker \in Workers /\ NoWorker.pc = "none"
BY DEF NoWorker, Workers, WorkerPCs

\* No admission is of the admissions' type.
LEMMA NoAdmissionType == NoAdmission \in Admissions
<1>1. (CHOOSE r \in Runs : TRUE) \in Runs
  BY RunFacts
<1>2. "idle" \in AdmissionPCs /\ "full_wait" \in WaitModes /\ {} \in SUBSET Ordinals
  BY DEF AdmissionPCs, WaitModes
<1> QED
  BY <1>1, <1>2 DEF NoAdmission, Admissions

\* Returning from startNext keeps the types of what it touches.
LEMMA ReturnType ==
    ASSUME TypeOK, NEW c \in Calls, NEW ok \in BOOLEAN, Return(c, ok)
    PROVE  /\ sched' \in Scheds
           /\ calls' \subseteq Calls
           /\ worker' \in [Runs -> Workers]
           /\ UNCHANGED <<pending, cancelled, shuttingDown, admission, spent>>
<1>1. c.r \in Runs /\ [c EXCEPT !.k = "launch"] \in Calls
  BY DEF Calls
<1>2. sched' \in Scheds
  BY IdleType DEF Return
<1>3. calls' \subseteq Calls
  BY <1>1 DEF Return, TypeOK
<1>4. worker' \in [Runs -> Workers]
  <2>1. CASE c.k # "worker"
    BY <2>1 DEF Return, TypeOK
  <2>2. CASE c.k = "worker"
    <3> DEFINE w == worker[c.r]
    <3>1. w \in Workers
      BY <1>1 DEF TypeOK
    <3>2. w.pc \in WorkerPCs /\ w.plan \in BOOLEAN /\ w.dead \in BOOLEAN /\ w.usage \in BOOLEAN
      BY <3>1 DEF Workers
    <3>3. \A pc \in WorkerPCs, b \in BOOLEAN : [[w EXCEPT !.pc = pc] EXCEPT !.ok = b] \in Workers
      BY <3>1, <3>2 DEF Workers
    <3>4. worker' = [worker EXCEPT ![c.r] = [[w EXCEPT !.pc = IF w.pc = "advance" /\ ~ ok THEN "error" ELSE "retire"]
                                             EXCEPT !.ok = (ok /\ w.pc = "advance")]]
      BY <2>2, <1>1, <3>1 DEF Return, TypeOK, Workers
    <3> QED
      BY <3>3, <3>4 DEF TypeOK, WorkerPCs
  <2> QED
    BY <2>1, <2>2
<1> QED
  BY <1>2, <1>3, <1>4 DEF Return

\* Moving a worker keeps the workers' types.
LEMMA ToType ==
    ASSUME TypeOK, NEW r \in Runs, NEW pc \in WorkerPCs, To(r, pc)
    PROVE  worker' \in [Runs -> Workers]
<1>1. worker[r] \in Workers
  BY DEF TypeOK
<1>2. [worker[r] EXCEPT !.pc = pc] \in Workers
  BY <1>1 DEF Workers
<1>3. worker' = [worker EXCEPT ![r] = [worker[r] EXCEPT !.pc = pc]]
  BY <1>1 DEF To, TypeOK, Workers
<1> QED
  BY <1>2, <1>3 DEF TypeOK

\* A cancelled context keeps the workers' types.
LEMMA DeadType ==
    ASSUME NEW w \in Workers
    PROVE  [w EXCEPT !.dead = TRUE] \in Workers
BY DEF Workers

\* The parts of the mutex's record.
LEMMA SchedFacts ==
    ASSUME TypeOK
    PROVE  /\ sched.by \in Calls /\ sched.r \in Runs /\ sched.status \in SessionStatus
           /\ sched.settled \in BOOLEAN
           /\ sched.by.r \in Runs /\ sched.by.r[1] \in Sessions
           /\ \A pc \in SchedPCs : [sched EXCEPT !.pc = pc] \in Scheds
           /\ \A c \in calls : c \in Calls /\ c.r \in Runs /\ c.plan \in BOOLEAN /\ c.queue \in BOOLEAN
<1>1. sched \in Scheds /\ calls \subseteq Calls
  BY DEF TypeOK
<1>2. /\ sched.by \in Calls /\ sched.r \in Runs /\ sched.status \in SessionStatus
      /\ sched.settled \in BOOLEAN
  BY <1>1 DEF Scheds
<1>3. \A c \in Calls : c.r \in Runs /\ c.plan \in BOOLEAN /\ c.queue \in BOOLEAN
  BY DEF Calls
<1>4. \A pc \in SchedPCs : [sched EXCEPT !.pc = pc] \in Scheds
  BY <1>1 DEF Scheds
<1> QED
  BY <1>1, <1>2, <1>3, <1>4, RunFacts

\* The callers of startNext are calls of some run.
LEMMA CallersType ==
    ASSUME TypeOK
    PROVE  \A c \in Callers : c \in Calls /\ c.r \in Runs /\ c.r[1] \in Sessions
<1>1. \A r \in Runs : WorkerCall(r) \in Calls
  BY CallType DEF WorkerCall
<1>2. \A c \in Callers : c \in Calls
  BY <1>1 DEF Callers, TypeOK
<1> QED
  BY <1>2, RunFacts DEF Calls

-----------------------------------------------------------------------------
(* Type correctness, action by action.                                      *)

USE DEF durable, memory

\* Between its Store calls an admission changes nothing but where it stands.
LEMMA AdmissionOnly ==
    ASSUME TypeOK, AdmissionReads
    PROVE  OnlyAdmission /\ admission' \in Admissions
<1>1. ASSUME NEW mode \in WaitModes, AdmitSources(mode)
      PROVE  OnlyAdmission /\ admission' \in Admissions
  <2>1. "check" \in AdmissionPCs
    BY DEF AdmissionPCs
  <2>2. PICK sources \in SUBSET Ordinals :
           admission' = [NoAdmission EXCEPT !.pc = "check", !.mode = mode, !.sources = sources]
    BY <1>1 DEF AdmitSources
  <2> QED
    BY <1>1, <2>1, <2>2, NoAdmissionType DEF AdmitSources, Admissions
<1>2. ASSUME NEW r \in Runs, ReevaluateFailedRun(r)
      PROVE  OnlyAdmission /\ admission' \in Admissions
  <2>1. "retry" \in AdmissionPCs
    BY DEF AdmissionPCs
  <2> QED
    BY <1>2, <2>1, NoAdmissionType DEF ReevaluateFailedRun, Admissions
<1>3. CASE AdmitAlone
  <2>1. "insert" \in AdmissionPCs /\ admission \in Admissions
    BY DEF AdmissionPCs, TypeOK
  <2> QED
    BY <1>3, <2>1, NoAdmissionType DEF AdmitAlone, Admissions
<1>4. CASE AdmissionFails
  BY <1>4, NoAdmissionType DEF AdmissionFails
<1> QED
  BY <1>1, <1>2, <1>3, <1>4 DEF AdmissionReads

\* Admission keeps the types.
LEMMA AdmissionType ==
    ASSUME TypeOK,
           \/ AdmissionReads
           \/ \E s \in Sessions : CreateSession(s)
           \/ \E r \in Runs : RetryFailedRun(r)
    PROVE  TypeOK'
<1>1. ASSUME NEW s \in Sessions, CreateSession(s)
      PROVE  TypeOK'
  <2>1. calls' \subseteq Calls
    BY <1>1, CallType DEF CreateSession, TypeOK, RunsOf
  <2>2. sess' \in [Sessions -> SessionStatus] /\ wait' \in [Sessions -> WaitModes]
    <3>1. admission.mode \in WaitModes
      BY DEF TypeOK, Admissions
    <3> QED
      BY <1>1, <3>1 DEF CreateSession, TypeOK, SessionStatus, ActiveSession
  <2>3. run' \in [Runs -> RunStatus]
    BY <1>1 DEF CreateSession, TypeOK, RunStatus
  <2> QED
    BY <1>1, <2>1, <2>2, <2>3, NoAdmissionType DEF CreateSession, TypeOK
<1>2. ASSUME NEW r \in Runs, RetryFailedRun(r)
      PROVE  TypeOK'
  <2>0. Call("launch", r, FALSE, FALSE, FALSE) \in Calls
    BY <1>2, CallType
  <2>1. calls' \subseteq Calls
    BY <1>2, <2>0 DEF RetryFailedRun, TypeOK
  <2>2. sess' \in [Sessions -> SessionStatus]
    BY <1>2, RunFacts DEF RetryFailedRun, TypeOK, SessionStatus, ActiveSession
  <2>3. run' \in [Runs -> RunStatus] /\ stage' \in [Runs -> Stages]
    BY <1>2 DEF RetryFailedRun, TypeOK, RunStatus, OpenRun, Stages
  <2>4. spent' \in [{"cancels", "restarts", "retries", "disconnects"} -> Nat]
    BY <1>2 DEF RetryFailedRun, TypeOK, Spend
  <2> QED
    BY <1>2, <2>1, <2>2, <2>3, <2>4, NoAdmissionType DEF RetryFailedRun, TypeOK
<1>3. CASE AdmissionReads
  BY <1>3, AdmissionOnly DEF OnlyAdmission, TypeOK
<1> QED
  BY <1>1, <1>2, <1>3

\* What startNext writes into the schedule state keeps its type.
LEMMA SchedUpdate ==
    ASSUME NEW q \in Scheds, NEW pc \in SchedPCs
    PROVE  /\ \A b \in Calls, d \in BOOLEAN : [q EXCEPT !.pc = pc, !.by = b, !.settled = d] \in Scheds
           /\ \A r \in Runs : [q EXCEPT !.pc = pc, !.r = r] \in Scheds
           /\ \A st \in SessionStatus : [q EXCEPT !.pc = pc, !.status = st] \in Scheds
BY DEF Scheds

\* The steps of startNext keep the types.
LEMMA ScheduleType ==
    ASSUME TypeOK, ScheduleStep \/ \E c \in Callers : NextBegin(c)
    PROVE  TypeOK'
<1> USE SchedFacts
<1>1. ASSUME NEW c \in Callers, NextBegin(c)
      PROVE  TypeOK'
  <2>1. c \in Calls /\ c.r \in Runs /\ c.r[1] \in Sessions
    BY CallersType
  <2>2. CASE Return(c, ~ ContextDead(c))
    BY <1>1, <2>1, <2>2, ReturnType DEF NextBegin, TypeOK
  <2>3. CASE /\ sched' = [IdleSched EXCEPT !.pc = "pick", !.by = c, !.settled = Settled(c.r[1])]
             /\ UNCHANGED <<memory, calls, spent>>
    <3>1. Settled(c.r[1]) \in BOOLEAN
      BY DEF Settled
    <3>2. IdleSched \in Scheds /\ "pick" \in SchedPCs
      BY IdleType DEF SchedPCs
    <3>3. sched' \in Scheds
      BY <2>1, <2>3, <3>1, <3>2, SchedUpdate
    <3> QED
      BY <1>1, <2>3, <3>3 DEF NextBegin, TypeOK
  <2> QED
    BY <1>1, <2>2, <2>3 DEF NextBegin
<1>2. CASE NextAbort
  BY <1>2, ReturnType DEF NextAbort, TypeOK
<1>3. CASE NextPick
  <2>1. CASE Return(sched.by, TRUE)
    BY <1>3, <2>1, ReturnType DEF NextPick, Pick, TypeOK
  <2>2. CASE Goto("compose")
    BY <1>3, <2>2 DEF NextPick, Pick, Goto, TypeOK, SchedPCs
  <2>3. ASSUME NEW r \in Runs, sched' = [sched EXCEPT !.pc = "start", !.r = r], UNCHANGED <<memory, calls, spent>>
        PROVE  TypeOK'
    <3>1. "start" \in SchedPCs /\ sched \in Scheds
      BY DEF TypeOK, SchedPCs
    <3>2. sched' \in Scheds
      BY <2>3, <3>1, SchedUpdate
    <3> QED
      BY <1>3, <2>3, <3>2 DEF NextPick, Pick, TypeOK
  <2> QED
    BY <1>3, <2>1, <2>2, <2>3 DEF NextPick, Pick, RunsOf
<1>4. CASE StartRun
  <2>1. CASE Return(sched.by, FALSE) /\ UNCHANGED durable
    BY <1>4, <2>1, ReturnType DEF TypeOK
  <2>2. CASE CaptureAllowed(sched.r)
    <3>1. sess' \in [Sessions -> SessionStatus] /\ run' \in [Runs -> RunStatus] /\ stage' \in [Runs -> Stages]
      <4>1. /\ sess' = [sess EXCEPT ![sched.r[1]] = "running"]
            /\ run' = [run EXCEPT ![sched.r] = "waiting_for_bridge"]
            /\ stage' = [stage EXCEPT ![sched.r] = "capture"]
        BY <1>4, <2>2 DEF StartRun
      <4>2. "running" \in SessionStatus /\ "waiting_for_bridge" \in RunStatus /\ "capture" \in Stages
        BY DEF SessionStatus, ActiveSession, RunStatus, OpenRun, Stages
      <4> QED BY <4>1, <4>2 DEF TypeOK
    <3>2. cmd' \in [Commands -> CommandStatus]
      BY <1>4, <2>2, RunFacts DEF StartRun, TypeOK, CommandStatus, OpenCommand
    <3>3. Return(sched.by, TRUE) /\ UNCHANGED <<wait, composed, obs, assessed, xPaused>>
      BY <1>4, <2>2 DEF StartRun
    <3> QED
      BY <3>1, <3>2, <3>3, ReturnType DEF TypeOK
  <2> QED
    BY <1>4, <2>1, <2>2 DEF StartRun
<1>5. CASE Compose
  <2>1. CompletedRuns(sched.by.r[1]) \in SUBSET Runs
    BY DEF CompletedRuns, RunsOf
  <2>2. composed' \in [Sessions -> SUBSET Runs]
    BY <1>5, <2>1 DEF Compose, TypeOK
  <2> QED
    BY <1>5, <2>2, ReturnType DEF Compose, Goto, TypeOK, SchedPCs
<1>6. CASE Finalizing
  BY <1>6, ReturnType DEF Finalizing, Goto, TypeOK, SchedPCs
<1>7. CASE Publish
  <2>1. CASE Return(sched.by, FALSE)
    BY <1>7, <2>1, ReturnType DEF Publish, TypeOK
  <2>2. CASE Settled(sched.by.r[1])
    <3>1. PICK st \in SessionStatus : sched' = [sched EXCEPT !.pc = "write", !.status = st]
      BY <1>7, <2>2 DEF Publish, SessionStatus, Published
    <3>2. "write" \in SchedPCs /\ sched \in Scheds
      BY DEF TypeOK, SchedPCs
    <3>3. sched' \in Scheds
      BY <3>1, <3>2, SchedUpdate
    <3> QED
      BY <1>7, <2>2, <3>3 DEF Publish, TypeOK
  <2> QED
    BY <1>7, <2>1, <2>2 DEF Publish
<1>8. CASE PublishWrite
  BY <1>8, ReturnType DEF PublishWrite, TypeOK
<1> QED
  BY <1>1, <1>2, <1>3, <1>4, <1>5, <1>6, <1>7, <1>8 DEF ScheduleStep

\* A failed command keeps the types.
LEMMA FailedCommandType ==
    ASSUME TypeOK, NEW r \in Runs, NEW k \in {1, 2}, NEW challenge \in BOOLEAN, NEW http \in BOOLEAN,
           FailedCommand(r, k, challenge, http)
    PROVE  TypeOK'
<1>1. Call("launch", r, FALSE, FALSE, http) \in Calls /\ Call("next", r, FALSE, FALSE, http) \in Calls
  BY CallType
<1>2. calls' \subseteq Calls
  BY <1>1 DEF FailedCommand, TypeOK
<1>3. xPaused' \in BOOLEAN
  BY DEF FailedCommand, FailCommandTx, TypeOK, IsX
<1>4. cmd' \in [Commands -> CommandStatus]
  BY DEF FailedCommand, FailCommandTx, TypeOK, CommandStatus
<1>5. run' \in [Runs -> RunStatus]
  BY DEF FailedCommand, FailCommandTx, TypeOK, RunStatus, OpenRun, TerminalRun
<1>6. stage' \in [Runs -> Stages]
  BY DEF FailedCommand, FailCommandTx, TypeOK, Stages
<1> QED
  BY <1>2, <1>3, <1>4, <1>5, <1>6 DEF FailedCommand, FailCommandTx, TypeOK

\* The requests of the bridge keep the types; a claimed command leaves room for
\* its observation.
LEMMA BridgeType ==
    ASSUME TypeOK, ObservationsCounted,
           (\E r \in Runs, k \in {1, 2} : Bridge(r, k)) \/ ConfirmXCaptureRecovery
    PROVE  TypeOK'
<1>1. ASSUME NEW r \in Runs, NEW k \in {1, 2}, ClaimCommand(r, k)
      PROVE  TypeOK'
  <2>1. cmd' \in [Commands -> CommandStatus]
    BY <1>1, RunFacts DEF ClaimCommand, TypeOK, CommandStatus, OpenCommand
  <2> QED
    BY <1>1, <2>1 DEF ClaimCommand, TypeOK
<1>2. ASSUME NEW r \in Runs, NEW k \in {1, 2}, NEW plan \in BOOLEAN, AcceptObservation(r, k, plan)
      PROVE  TypeOK'
  <2>1. /\ Call("launch", r, plan, TRUE, TRUE) \in Calls
        /\ Call("next_launch", r, plan, TRUE, TRUE) \in Calls
    BY CallType
  <2>2. calls' \subseteq Calls
    BY <1>2, <2>1 DEF AcceptObservation, SaveObservation, TypeOK
  <2>3. cmd' \in [Commands -> CommandStatus]
    BY <1>2, RunFacts DEF AcceptObservation, SaveObservation, TypeOK, CommandStatus
  <2>6. run' \in [Runs -> RunStatus]
    BY <1>2 DEF AcceptObservation, SaveObservation, TypeOK, RunStatus, OpenRun
  <2>7. stage' \in [Runs -> Stages]
    BY <1>2 DEF AcceptObservation, SaveObservation, TypeOK, Stages
  <2>4. obs[r] \in {0, 1}
    <3> DEFINE done(j) == IF cmd[<<r, j>>] = "completed" THEN 1 ELSE 0
    <3>1. obs[r] = done(1) + done(2)
      BY DEF ObservationsCounted
    <3>2. done(k) = 0 /\ done(1) \in {0, 1} /\ done(2) \in {0, 1}
      BY <1>2 DEF AcceptObservation
    <3> QED
      BY <3>1, <3>2
  <2>5. obs' \in [Runs -> 0 .. 2]
    BY <1>2, <2>4 DEF AcceptObservation, SaveObservation, TypeOK
  <2> QED
    BY <1>2, <2>2, <2>3, <2>5, <2>6, <2>7 DEF AcceptObservation, SaveObservation, TypeOK
<1>3. ASSUME NEW r \in Runs, NEW k \in {1, 2}, NEW challenge \in BOOLEAN, FailCommand(r, k, challenge)
      PROVE  TypeOK'
  BY <1>3, FailedCommandType DEF FailCommand
<1>4. ASSUME NEW r \in Runs, NEW k \in {1, 2}, ExpireCommand(r, k)
      PROVE  TypeOK'
  BY <1>4, FailedCommandType DEF ExpireCommand
<1>5. CASE ConfirmXCaptureRecovery
  BY <1>5 DEF ConfirmXCaptureRecovery, TypeOK
<1> QED
  BY <1>1, <1>2, <1>3, <1>4, <1>5 DEF Bridge

\* Launches, cancellations and the life of the process keep the types.
LEMMA ProcessType ==
    ASSUME TypeOK,
           \/ \E c \in calls : Launch(c) \/ CancelStored(c) \/ Disconnect(c)
           \/ \E s \in Sessions : CancelSession(s)
           \/ Shutdown \/ Restart
    PROVE  TypeOK'
<1> USE SchedFacts
<1>1. ASSUME NEW c \in calls, Launch(c)
      PROVE  TypeOK'
  <2>1. [NoWorker EXCEPT !.pc = "process", !.plan = c.plan] \in Workers
    BY NoWorkerType DEF Workers, WorkerPCs, Processing
  <2>2. worker' \in [Runs -> Workers]
    BY <1>1, <2>1 DEF Launch, TypeOK
  <2>3. pending' \in [Runs -> {"none", "plan", "skip"}]
    BY <1>1 DEF Launch, TypeOK
  <2> QED
    BY <1>1, <2>2, <2>3 DEF Launch, TypeOK
<1>2. ASSUME NEW c \in calls, CancelStored(c)
      PROVE  TypeOK'
  <2>1. sess' \in [Sessions -> SessionStatus]
    BY <1>2, RunFacts DEF CancelStored, CancelTx, TypeOK, SessionStatus
  <2>2. run' \in [Runs -> RunStatus]
    BY <1>2 DEF CancelStored, CancelTx, TypeOK, RunStatus, TerminalRun
  <2>3. stage' \in [Runs -> Stages]
    BY <1>2 DEF CancelStored, CancelTx, TypeOK, Stages
  <2>4. cmd' \in [Commands -> CommandStatus]
    BY <1>2 DEF CancelStored, CancelTx, TypeOK, CommandStatus
  <2> QED
    BY <1>2, <2>1, <2>2, <2>3, <2>4 DEF CancelStored, CancelTx, TypeOK
<1>3. ASSUME NEW c \in calls, Disconnect(c)
      PROVE  TypeOK'
  <2>1. spent' \in [{"cancels", "restarts", "retries", "disconnects"} -> Nat]
    BY <1>3 DEF Disconnect, TypeOK, Spend
  <2> QED
    BY <1>3, <2>1, IdleType DEF Disconnect, TypeOK
<1>4. ASSUME NEW s \in Sessions, CancelSession(s)
      PROVE  TypeOK'
  <2>1. worker' \in [Runs -> Workers]
    BY <1>4, DeadType DEF CancelSession, TypeOK
  <2>2. cancelled' \in [Runs -> BOOLEAN] /\ pending' \in [Runs -> {"none", "plan", "skip"}]
    BY <1>4 DEF CancelSession, TypeOK
  <2>3. \A r \in Runs : Call("cancel", r, FALSE, FALSE, TRUE) \in Calls
    BY CallType
  <2>4. calls' \subseteq Calls
    BY <1>4, <2>3 DEF CancelSession, TypeOK, RunsOf
  <2>5. spent' \in [{"cancels", "restarts", "retries", "disconnects"} -> Nat]
    BY <1>4 DEF CancelSession, TypeOK, Spend
  <2> QED
    BY <1>4, <2>1, <2>2, <2>4, <2>5 DEF CancelSession, TypeOK
<1>5. CASE Shutdown
  <2>1. worker' \in [Runs -> Workers]
    BY <1>5, DeadType DEF Shutdown, TypeOK
  <2> QED
    BY <1>5, <2>1 DEF Shutdown, TypeOK
<1>6. CASE Restart
  <2>1. \A r \in Runs : /\ Call("launch", r, FALSE, FALSE, FALSE) \in Calls
                        /\ Call("next_launch", r, FALSE, FALSE, FALSE) \in Calls
    BY CallType
  <2>2. calls' \subseteq Calls
    <3>1. Resumable \subseteq Runs
      BY DEF Resumable
    <3>2. \A c \in calls' : \E r \in Resumable :
             c = Call("launch", r, FALSE, FALSE, FALSE) \/ c = Call("next_launch", r, FALSE, FALSE, FALSE)
      BY <1>6 DEF Restart, ResumePendingReasoning
    <3> QED BY <2>1, <3>1, <3>2
  <2>3. worker' \in [Runs -> Workers] /\ sched' \in Scheds
    BY <1>6, NoWorkerType, IdleType DEF Restart, ResumePendingReasoning
  <2>4. spent' \in [{"cancels", "restarts", "retries", "disconnects"} -> Nat]
    BY <1>6 DEF Restart, ResumePendingReasoning, TypeOK, Spend
  <2> QED
    BY <1>6, <2>2, <2>3, <2>4, NoAdmissionType DEF Restart, ResumePendingReasoning, TypeOK
<1> QED
  BY <1>1, <1>2, <1>3, <1>4, <1>5, <1>6

\* The steps of a worker keep the types.
LEMMA WorkerType ==
    ASSUME TypeOK, NEW r \in Runs, WorkerStep(r)
    PROVE  TypeOK'
<1> USE DEF OnlyWorker
<1>0. worker[r] \in Workers /\ worker[r].usage \in BOOLEAN
  BY DEF TypeOK, Workers
<1>1. CASE WorkerInterrupted(r)
  <2>1. worker' \in [Runs -> Workers]
    BY <1>1, ToType DEF WorkerInterrupted, WorkerPCs
  <2> QED
    BY <1>1, <2>1 DEF WorkerInterrupted, TypeOK
<1>2. CASE WorkerFails(r)
  <2>1. PICK limit \in BOOLEAN : worker' = [worker EXCEPT ![r].pc = "error", ![r].usage = limit]
    BY <1>2 DEF WorkerFails
  <2>2. [[worker[r] EXCEPT !.pc = "error"] EXCEPT !.usage = limit] \in Workers
    BY <1>0 DEF Workers, WorkerPCs
  <2>3. worker' = [worker EXCEPT ![r] = [[worker[r] EXCEPT !.pc = "error"] EXCEPT !.usage = limit]]
    BY <1>0, <2>1 DEF TypeOK, Workers
  <2>4. worker' \in [Runs -> Workers]
    BY <2>2, <2>3 DEF TypeOK
  <2> QED
    BY <1>2, <2>4 DEF WorkerFails, TypeOK
<1>3. CASE WorkerRead(r)
  <2>1. \E pc \in WorkerPCs : To(r, pc)
    BY <1>3 DEF WorkerRead, WorkerPCs, Processing
  <2>2. worker' \in [Runs -> Workers]
    BY <2>1, ToType
  <2> QED
    BY <1>3, <2>2 DEF WorkerRead, TypeOK
<1>4. CASE WorkerPlan(r)
  <2>1. \E pc \in WorkerPCs : To(r, pc)
    BY <1>4 DEF WorkerPlan, WorkerPCs, Processing
  <2>2. worker' \in [Runs -> Workers]
    BY <2>1, ToType
  <2>3. stage' \in [Runs -> Stages]
    BY <1>4 DEF WorkerPlan, Staged, TypeOK, Stages
  <2> QED
    BY <1>4, <2>2, <2>3 DEF WorkerPlan, Staged, TypeOK
<1>5. CASE WorkerFollowUp(r)
  <2>1. \E pc \in WorkerPCs : To(r, pc)
    BY <1>5 DEF WorkerFollowUp, WorkerPCs, Processing
  <2>2. worker' \in [Runs -> Workers]
    BY <2>1, ToType
  <2>3. run' \in [Runs -> RunStatus]
    BY <1>5 DEF WorkerFollowUp, TypeOK, RunStatus, OpenRun
  <2>4. stage' \in [Runs -> Stages]
    BY <1>5 DEF WorkerFollowUp, TypeOK, Stages
  <2>5. cmd' \in [Commands -> CommandStatus]
    BY <1>5, RunFacts DEF WorkerFollowUp, TypeOK, CommandStatus, OpenCommand
  <2> QED
    BY <1>5, <2>2, <2>3, <2>4, <2>5 DEF WorkerFollowUp, TypeOK
<1>6. CASE WorkerReceipt(r)
  <2>1. [[worker[r] EXCEPT !.pc = "retire"] EXCEPT !.ok = TRUE] \in Workers
    BY <1>0 DEF Workers, WorkerPCs
  <2>2. worker' = [worker EXCEPT ![r] = [[worker[r] EXCEPT !.pc = "retire"] EXCEPT !.ok = TRUE]]
    BY <1>0, <1>6 DEF WorkerReceipt, TypeOK, Workers
  <2>3. worker' \in [Runs -> Workers]
    BY <2>1, <2>2 DEF TypeOK
  <2> QED
    BY <1>6, <2>3 DEF WorkerReceipt, TypeOK
<1>7. CASE WorkerEvaluate(r)
  <2>1. worker' \in [Runs -> Workers]
    BY <1>7, ToType DEF WorkerEvaluate, WorkerPCs, Processing
  <2>2. stage' \in [Runs -> Stages]
    BY <1>7 DEF WorkerEvaluate, Staged, TypeOK, Stages
  <2> QED
    BY <1>7, <2>1, <2>2 DEF WorkerEvaluate, Staged, TypeOK
<1>8. CASE WorkerComplete(r)
  <2>1. \E pc \in WorkerPCs : To(r, pc)
    BY <1>8 DEF WorkerComplete, WorkerPCs
  <2>2. worker' \in [Runs -> Workers]
    BY <2>1, ToType
  <2>3. run' \in [Runs -> RunStatus]
    BY <1>8 DEF WorkerComplete, TypeOK, RunStatus, TerminalRun
  <2>4. stage' \in [Runs -> Stages]
    BY <1>8 DEF WorkerComplete, TypeOK, Stages
  <2>5. assessed' \in [Runs -> BOOLEAN]
    BY <1>8 DEF WorkerComplete, TypeOK, At
  <2> QED
    BY <1>8, <2>2, <2>3, <2>4, <2>5 DEF WorkerComplete, TypeOK
<1>9. CASE WorkerError(r)
  <2>1. \E pc \in WorkerPCs : To(r, pc)
    BY <1>9 DEF WorkerError, WorkerPCs
  <2>2. worker' \in [Runs -> Workers]
    BY <2>1, ToType
  <2> QED
    BY <1>9, <2>2 DEF WorkerError, TypeOK
<1>10. CASE FailCapturedRunReasoning(r)
  <2>1. \E pc \in WorkerPCs : To(r, pc)
    BY <1>10, <1>0 DEF FailCapturedRunReasoning, AfterFailure, WorkerPCs
  <2>2. worker' \in [Runs -> Workers]
    BY <2>1, ToType
  <2>3. run' \in [Runs -> RunStatus]
    BY <1>10 DEF FailCapturedRunReasoning, FailedRun, TypeOK, RunStatus, TerminalRun
  <2>4. stage' \in [Runs -> Stages]
    BY <1>10 DEF FailCapturedRunReasoning, FailedRun, TypeOK, Stages
  <2> QED
    BY <1>10, <2>2, <2>3, <2>4 DEF FailCapturedRunReasoning, TypeOK
<1>11. CASE FailRun(r)
  <2>1. \E pc \in WorkerPCs : To(r, pc)
    BY <1>11, <1>0 DEF FailRun, AfterFailure, WorkerPCs
  <2>2. worker' \in [Runs -> Workers]
    BY <2>1, ToType
  <2>3. run' \in [Runs -> RunStatus]
    BY <1>11 DEF FailRun, FailedRun, TypeOK, RunStatus, TerminalRun
  <2>4. stage' \in [Runs -> Stages]
    BY <1>11 DEF FailRun, FailedRun, TypeOK, Stages
  <2> QED
    BY <1>11, <2>2, <2>3, <2>4 DEF FailRun, TypeOK
<1>12. CASE FailQueuedAfterReasoningFailure(r)
  <2>1. \E pc \in WorkerPCs : To(r, pc)
    BY <1>12 DEF FailQueuedAfterReasoningFailure, WorkerPCs
  <2>2. worker' \in [Runs -> Workers]
    BY <2>1, ToType
  <2>3. run' \in [Runs -> RunStatus]
    BY <1>12 DEF FailQueuedAfterReasoningFailure, TypeOK, RunStatus, TerminalRun
  <2>4. stage' \in [Runs -> Stages]
    BY <1>12 DEF FailQueuedAfterReasoningFailure, TypeOK, Stages
  <2> QED
    BY <1>12, <2>2, <2>3, <2>4 DEF FailQueuedAfterReasoningFailure, TypeOK
<1>13. CASE WorkerRetire(r)
  <2>1. worker' \in [Runs -> Workers] /\ pending' \in [Runs -> {"none", "plan", "skip"}]
    BY <1>13, NoWorkerType DEF WorkerRetire, TypeOK
  <2>2. Call("launch", r, pending[r] = "plan", FALSE, FALSE) \in Calls
    BY CallType
  <2> QED
    BY <1>13, <2>1, <2>2 DEF WorkerRetire, TypeOK
<1> QED
  BY <1>1, <1>2, <1>3, <1>4, <1>5, <1>6, <1>7, <1>8, <1>9, <1>10, <1>11, <1>12, <1>13 DEF WorkerStep

\* Every step keeps the types.
LEMMA TypeStep ==
    ASSUME TypeOK, ObservationsCounted, [Next]_vars
    PROVE  TypeOK'
<1>1. CASE UNCHANGED vars
  BY <1>1 DEF vars, TypeOK
<1>2. CASE Next
  BY <1>2, AdmissionType, ScheduleType, BridgeType, ProcessType, WorkerType DEF Next
<1> QED
  BY <1>1, <1>2

-----------------------------------------------------------------------------
(* The commands: what a step can do to them, and what follows.              *)

\* A step issues a first or a second round, claims or completes one command,
\* ends open ones, or leaves commands and observations alone.
Issue(c)    == cmd' = [cmd EXCEPT ![c] = "queued"] /\ obs' = obs /\ xPaused' = xPaused /\ CaptureAllowed(c[1])
Claim(c)    == /\ cmd[c] = "queued" /\ CaptureAllowed(c[1])
               /\ \A q \in RunsOf(c[1][1]), j \in {1, 2} : cmd[<<q, j>>] # "claimed"
               /\ cmd' = [cmd EXCEPT ![c] = "claimed"] /\ obs' = obs /\ xPaused' = xPaused
Complete(c) == /\ cmd[c] = "claimed"
               /\ cmd' = [cmd EXCEPT ![c] = "completed"]
               /\ obs' = [obs EXCEPT ![c[1]] = @ + 1] /\ xPaused' = xPaused
End == /\ obs' = obs
       /\ \A c \in Commands : cmd'[c] = cmd[c] \/ (cmd[c] \in OpenCommand /\ cmd'[c] \in {"failed", "cancelled"})

\* No action treats the commands in another way.
LEMMA CommandSteps ==
    ASSUME TypeOK, Next
    PROVE  \/ UNCHANGED <<cmd, obs>>
           \/ /\ sched.pc = "start" /\ Issue(<<sched.r, 1>>)
              /\ run'[sched.r] = "waiting_for_bridge" /\ sched' = IdleSched
           \/ \E r \in Runs : worker[r].pc = "followUp" /\ Issue(<<r, 2>>)
           \/ \E c \in Commands : Claim(c) \/ Complete(c)
           \/ End
<1>1. ASSUME \/ AdmissionReads
             \/ \E s \in Sessions : CancelSession(s) \/ CreateSession(s)
             \/ \E r \in Runs : RetryFailedRun(r)
             \/ ConfirmXCaptureRecovery \/ Shutdown \/ Restart
      PROVE  UNCHANGED <<cmd, obs>>
  BY <1>1, AdmissionOnly DEF OnlyAdmission, CancelSession, CreateSession, RetryFailedRun,
              ConfirmXCaptureRecovery, Shutdown, Restart, ResumePendingReasoning
<1>2. ASSUME NEW r \in Runs, WorkerStep(r), ~ WorkerFollowUp(r)
      PROVE  UNCHANGED <<cmd, obs>>
  BY <1>2 DEF WorkerStep, WorkerInterrupted, WorkerFails, WorkerRead, WorkerPlan, WorkerReceipt,
              WorkerEvaluate, WorkerComplete, WorkerError, FailCapturedRunReasoning, FailRun,
              FailQueuedAfterReasoningFailure, WorkerRetire, Staged
<1>3. ASSUME NEW r \in Runs, WorkerFollowUp(r)
      PROVE  UNCHANGED <<cmd, obs>> \/ (worker[r].pc = "followUp" /\ Issue(<<r, 2>>))
  BY <1>3 DEF WorkerFollowUp, Alive, At, Issue
<1>4. ASSUME \E c \in calls : Launch(c) \/ Disconnect(c)
      PROVE  UNCHANGED <<cmd, obs>>
  BY <1>4 DEF Launch, Disconnect
<1>5. ASSUME NEW c \in calls, CancelStored(c)
      PROVE  End
  BY <1>5 DEF CancelStored, CancelTx, End, TypeOK
<1>6. ASSUME (\E c \in Callers : NextBegin(c)) \/ (ScheduleStep /\ ~ StartRun)
      PROVE  UNCHANGED <<cmd, obs>>
  BY <1>6 DEF NextBegin, ScheduleStep, NextAbort, NextPick, Pick, Compose, Finalizing, Publish, PublishWrite
<1>7. ASSUME StartRun
      PROVE  \/ UNCHANGED <<cmd, obs>>
             \/ /\ sched.pc = "start" /\ Issue(<<sched.r, 1>>)
                /\ run'[sched.r] = "waiting_for_bridge" /\ sched' = IdleSched
  BY <1>7, SchedFacts DEF StartRun, Live, Step, Issue, Return, TypeOK
<1>8. ASSUME NEW r \in Runs, NEW k \in {1, 2}, Bridge(r, k)
      PROVE  Claim(<<r, k>>) \/ Complete(<<r, k>>) \/ End
  <2>1. CASE ClaimCommand(r, k)
    BY <2>1 DEF ClaimCommand, Claim
  <2>2. CASE \E plan \in BOOLEAN : AcceptObservation(r, k, plan)
    BY <2>2 DEF AcceptObservation, SaveObservation, Complete
  <2>3. ASSUME NEW challenge, NEW http, cmd[<<r, k>>] \in OpenCommand, FailedCommand(r, k, challenge, http)
        PROVE  End
    <3> DEFINE ended(c) == c = <<r, k>> \/ ((challenge /\ IsX(r)) /\ IsX(c[1]) /\ cmd[c] \in OpenCommand)
    <3>1. obs' = obs /\ cmd' = [c \in Commands |-> IF ended(c) THEN "failed" ELSE cmd[c]]
      BY <2>3 DEF FailedCommand, FailCommandTx
    <3>2. \A c \in Commands : ended(c) => cmd[c] \in OpenCommand
      BY <2>3
    <3> HIDE DEF ended
    <3> QED
      BY <3>1, <3>2 DEF End
  <2>4. ASSUME NEW challenge, FailCommand(r, k, challenge)
        PROVE  End
    <3>1. cmd[<<r, k>>] \in OpenCommand
      BY <2>4 DEF FailCommand, OpenCommand
    <3>2. FailedCommand(r, k, challenge, TRUE)
      BY <2>4 DEF FailCommand
    <3> QED
      BY <2>3, <3>1, <3>2
  <2>5. CASE ExpireCommand(r, k)
    BY <2>3, <2>5 DEF ExpireCommand
  <2> QED
    BY <1>8, <2>1, <2>2, <2>4, <2>5 DEF Bridge
<1>9. \A r \in Runs, k \in {1, 2} : <<r, k>> \in Commands
  BY RunFacts
<1> QED
  BY <1>1, <1>2, <1>3, <1>4, <1>5, <1>6, <1>7, <1>8, <1>9 DEF Next

\* A command is issued where there was none.
LEMMA IssuedOnce ==
    ASSUME TypeOK, FreshRuns, OnePlanner
    PROVE  /\ sched.pc = "start" => cmd[<<sched.r, 1>>] = "none" /\ <<sched.r, 1>> \in Commands
           /\ \A r \in Runs : worker[r].pc = "followUp" => cmd[<<r, 2>>] = "none"
<1>1. \A r \in Runs : worker[r].pc = "followUp" => cmd[<<r, 2>>] = "none"
  BY DEF OnePlanner, PlannerOf, Planning
<1> QED
  BY <1>1, SchedFacts, RunFacts DEF FreshRuns

\* Observations are counted by completed commands.
LEMMA ObservationsStep ==
    ASSUME CommandInv, Next
    PROVE  ObservationsCounted'
<1> DEFINE D(c) == IF cmd[c] = "completed" THEN 1 ELSE 0
           Dn(c) == IF cmd'[c] = "completed" THEN 1 ELSE 0
<1> USE RunFacts
<1>0. TypeOK /\ FreshRuns /\ OnePlanner /\ (\A r \in Runs : obs[r] = D(<<r, 1>>) + D(<<r, 2>>))
  BY DEF CommandInv, ObservationsCounted
<1>1. SUFFICES ASSUME NEW r \in Runs PROVE obs'[r] = Dn(<<r, 1>>) + Dn(<<r, 2>>)
  BY DEF ObservationsCounted
<1>2. /\ <<r, 1>> \in Commands /\ <<r, 2>> \in Commands /\ <<r, 1>> # <<r, 2>>
      /\ obs[r] = D(<<r, 1>>) + D(<<r, 2>>) /\ obs[r] \in Nat
  BY <1>0 DEF TypeOK
<1>3. ASSUME NEW c \in Commands, cmd[c] = "none" \/ cmd[c] = "queued", obs' = obs,
             cmd' = [cmd EXCEPT ![c] = "queued"] \/ cmd' = [cmd EXCEPT ![c] = "claimed"]
      PROVE  obs'[r] = Dn(<<r, 1>>) + Dn(<<r, 2>>)
  <2>1. \A d \in Commands : Dn(d) = D(d)
    BY <1>0, <1>3 DEF TypeOK
  <2> QED
    BY <1>2, <1>3, <2>1
<1>4. ASSUME NEW c \in Commands, Complete(c)
      PROVE  obs'[r] = Dn(<<r, 1>>) + Dn(<<r, 2>>)
  <2>1. D(c) = 0 /\ Dn(c) = 1 /\ \A d \in Commands : d # c => Dn(d) = D(d)
    BY <1>0, <1>4 DEF Complete, TypeOK
  <2>2. CASE c[1] # r
    <3>1. <<r, 1>> # c /\ <<r, 2>> # c
      BY <2>2
    <3>2. obs'[r] = obs[r]
      BY <1>0, <1>4, <2>2 DEF Complete, TypeOK
    <3> HIDE DEF D, Dn
    <3> QED
      BY <1>2, <2>1, <3>1, <3>2
  <2>3. CASE c[1] = r
    <3>1. obs'[r] = obs[r] + 1
      BY <1>0, <1>4, <2>3 DEF Complete, TypeOK
    <3>2. c = <<r, 1>> \/ c = <<r, 2>>
      BY <2>3
    <3>3. D(<<r, 1>>) \in Nat /\ D(<<r, 2>>) \in Nat
      OBVIOUS
    <3> HIDE DEF D, Dn
    <3> QED
      BY <1>2, <2>1, <3>1, <3>2, <3>3
  <2> QED
    BY <2>2, <2>3
<1>5. CASE End
  <2>1. \A d \in Commands : Dn(d) = D(d)
    BY <1>5 DEF End, OpenCommand
  <2> QED
    BY <1>2, <1>5, <2>1 DEF End
<1>6. CASE UNCHANGED <<cmd, obs>>
  BY <1>2, <1>6
<1> QED
  BY <1>0, <1>3, <1>4, <1>5, <1>6, CommandSteps, IssuedOnce DEF Issue, Claim

\* A settled command stays as it is.
LEMMA RecycleStep ==
    ASSUME CommandInv, [Next]_vars
    PROVE  \A c \in Commands : cmd[c] \notin OpenCommand \cup {"none"} => cmd'[c] = cmd[c]
<1> SUFFICES ASSUME NEW c \in Commands, cmd[c] \notin OpenCommand \cup {"none"}
             PROVE  cmd'[c] = cmd[c]
  OBVIOUS
<1>0. TypeOK /\ FreshRuns /\ OnePlanner
  BY DEF CommandInv
<1>1. CASE UNCHANGED vars
  BY <1>1 DEF vars
<1>2. CASE Next
  <2>1. ASSUME NEW d \in Commands, cmd[d] \in OpenCommand \cup {"none"}, NEW v, cmd' = [cmd EXCEPT ![d] = v]
        PROVE  cmd'[c] = cmd[c]
    BY <1>0, <2>1 DEF TypeOK
  <2>2. CASE UNCHANGED <<cmd, obs>>
    BY <2>2
  <2>3. CASE sched.pc = "start" /\ Issue(<<sched.r, 1>>)
    BY <1>0, <2>1, <2>3, IssuedOnce DEF Issue
  <2>4. CASE \E r \in Runs : worker[r].pc = "followUp" /\ Issue(<<r, 2>>)
    BY <1>0, <2>1, <2>4, IssuedOnce, RunFacts DEF Issue
  <2>5. CASE \E d \in Commands : Claim(d) \/ Complete(d)
    BY <2>1, <2>5 DEF Claim, Complete, OpenCommand
  <2>6. CASE End
    BY <2>6 DEF End
  <2> QED
    BY <1>0, <1>2, <2>2, <2>3, <2>4, <2>5, <2>6, CommandSteps
<1> QED
  BY <1>1, <1>2

\* One claimed command in a session.
LEMMA ClaimStep ==
    ASSUME CommandInv, Next
    PROVE  OneClaimPerSession'
<1>0. TypeOK /\ FreshRuns /\ OnePlanner /\ OneClaimPerSession
  BY DEF CommandInv
<1>1. ASSUME \A c \in Commands : cmd'[c] = "claimed" => cmd[c] = "claimed"
      PROVE  OneClaimPerSession'
  BY <1>0, <1>1 DEF OneClaimPerSession
<1>2. ASSUME NEW d \in Commands, NEW v, v # "claimed", cmd' = [cmd EXCEPT ![d] = v]
      PROVE  OneClaimPerSession'
  BY <1>0, <1>1, <1>2 DEF TypeOK
<1>3. ASSUME NEW d \in Commands, Claim(d)
      PROVE  OneClaimPerSession'
  <2>1. ASSUME NEW c \in Commands, c[1][1] = d[1][1]
        PROVE  cmd[c] # "claimed"
    <3>1. c[1] \in RunsOf(d[1][1]) /\ c[2] \in {1, 2} /\ c = <<c[1], c[2]>>
      BY <2>1, RunFacts DEF RunsOf
    <3>2. cmd[<<c[1], c[2]>>] # "claimed"
      BY <1>3, <3>1 DEF Claim
    <3> QED
      BY <3>1, <3>2
  <2>2. \A c \in Commands : cmd'[c] = "claimed" => cmd[c] = "claimed" \/ c = d
    BY <1>0, <1>3 DEF Claim, TypeOK
  <2> QED
    BY <1>0, <2>1, <2>2 DEF OneClaimPerSession
<1>4. CASE UNCHANGED <<cmd, obs>>
  BY <1>1, <1>4
<1>5. CASE sched.pc = "start" /\ Issue(<<sched.r, 1>>)
  BY <1>0, <1>2, <1>5, IssuedOnce DEF Issue
<1>6. CASE \E r \in Runs : worker[r].pc = "followUp" /\ Issue(<<r, 2>>)
  BY <1>2, <1>6, RunFacts DEF Issue
<1>7. CASE \E d \in Commands : Claim(d) \/ Complete(d)
  BY <1>2, <1>3, <1>7 DEF Complete
<1>8. CASE End
  BY <1>1, <1>8 DEF End
<1> QED
  BY <1>0, <1>4, <1>5, <1>6, <1>7, <1>8, CommandSteps

-----------------------------------------------------------------------------
(* The runs and the schedule mutex.                                         *)

\* A run is queued when its session is created, goes to the bridge when capture
\* is allowed by then, and otherwise moves on from where it was started.
RunMoves(q) ==
    \/ run'[q] = run[q]
    \/ run[q] = "absent" /\ run'[q] = "queued" /\ sess'[q[1]] # "absent" /\ cmd' = cmd
    \/ run'[q] = "waiting_for_bridge" /\ CaptureAllowed(q) /\ sess'[q[1]] # "absent"
    \/ run[q] # "absent" /\ run'[q] \in {"reasoning"} \cup TerminalRun

\* Evidence or a command of a run: it was started, in a session that exists.
LEMMA StartedRun ==
    ASSUME CommandInv, NEW r \in Runs,
           obs[r] > 0 \/ cmd[<<r, 1>>] # "none" \/ cmd[<<r, 2>>] # "none"
    PROVE  run[r] \notin {"absent", "queued"} /\ sess[r[1]] # "absent"
<1>1. run[r] \notin {"absent", "queued"}
  BY DEF CommandInv, FreshRuns, ObservationsCounted
<1>2. r \in RunsOf(r[1]) /\ r[1] \in Sessions
  BY RunFacts DEF RunsOf
<1> QED
  BY <1>1, <1>2 DEF CommandInv, FreshRuns

\* The run of a worker was started.
LEMMA WorkedRun ==
    ASSUME CommandInv, NEW r \in Runs, HasWorker(r)
    PROVE  run[r] \notin {"absent", "queued"} /\ sess[r[1]] # "absent"
BY StartedRun DEF CommandInv, EvidenceLaunched

\* ... and no session disappears.
RunsMove ==
    /\ \A q \in Runs : RunMoves(q)
    /\ \A s \in Sessions : sess'[s] = "absent" => sess[s] = "absent"

\* No step treats the runs in another way, and no session disappears.
LEMMA RunSteps ==
    ASSUME CommandInv, Next
    PROVE  RunsMove
<1>0. TypeOK /\ FreshRuns
  BY DEF CommandInv
<1>1. ASSUME UNCHANGED <<run, sess>>
      PROVE  RunsMove
  BY <1>1 DEF RunsMove, RunMoves
<1>2. ASSUME NEW s \in Sessions, CreateSession(s)
      PROVE  RunsMove
  <2>1. /\ sess[s] = "absent" /\ sess' = [sess EXCEPT ![s] = "queued"] /\ cmd' = cmd
        /\ run' = [r \in Runs |-> IF r \in {q \in RunsOf(s) : q[2] \in admission.sources} THEN "queued" ELSE run[r]]
    BY <1>2 DEF CreateSession
  <2>2. \A r \in RunsOf(s) : r[1] = s /\ run[r] = "absent"
    BY <1>0, <2>1 DEF FreshRuns, RunsOf
  <2>3. sess'[s] = "queued" /\ \A t \in Sessions : sess'[t] = "absent" => sess[t] = "absent"
    BY <1>0, <2>1 DEF TypeOK
  <2>4. \A q \in Runs : RunMoves(q)
    BY <2>1, <2>2, <2>3 DEF RunsMove, RunMoves
  <2> QED
    BY <2>3, <2>4 DEF RunsMove
<1>3. ASSUME NEW r \in Runs, RetryFailedRun(r)
      PROVE  RunsMove
  BY <1>0, <1>3, RunFacts DEF RetryFailedRun, RunsMove, RunMoves, TypeOK
<1>4. CASE StartRun
  <2>1. CASE UNCHANGED durable
    BY <1>1, <2>1
  <2>2. CASE CaptureAllowed(sched.r)
    <3>1. /\ sess' = [sess EXCEPT ![sched.r[1]] = "running"]
          /\ run' = [run EXCEPT ![sched.r] = "waiting_for_bridge"]
      BY <1>4, <2>2 DEF StartRun
    <3>2. sched.r \in Runs /\ sched.r[1] \in Sessions
      BY <1>0, SchedFacts, RunFacts
    <3> QED
      BY <1>0, <2>2, <3>1, <3>2 DEF RunsMove, RunMoves, TypeOK
  <2> QED
    BY <1>4, <2>1, <2>2 DEF StartRun
<1>5. CASE PublishWrite
  BY <1>0, <1>5, SchedFacts DEF PublishWrite, Live, Step, FreshRuns, RunsMove, RunMoves, TypeOK
<1>6. ASSUME (\E c \in Callers : NextBegin(c)) \/ NextAbort \/ NextPick \/ Compose \/ Finalizing \/ Publish
      PROVE  UNCHANGED <<run, sess>>
  BY <1>6 DEF NextBegin, NextAbort, NextPick, Pick, Compose, Finalizing, Publish
<1>7. ASSUME NEW r \in Runs, NEW k \in {1, 2}, Bridge(r, k)
      PROVE  RunsMove
  <2>1. CASE ClaimCommand(r, k)
    BY <1>1, <2>1 DEF ClaimCommand
  <2>2. ASSUME cmd[<<r, k>>] # "none"
        PROVE  run[r] # "absent"
    BY <2>2, StartedRun
  <2>3. ASSUME NEW plan, AcceptObservation(r, k, plan)
        PROVE  RunsMove
    BY <1>0, <2>2, <2>3 DEF AcceptObservation, SaveObservation, RunsMove, RunMoves, TypeOK
  <2>4. ASSUME NEW challenge, NEW http, cmd[<<r, k>>] # "none", FailedCommand(r, k, challenge, http)
        PROVE  RunsMove
    <3>1. sess' = sess
      BY <2>4 DEF FailedCommand, FailCommandTx
    <3>2. \A q \in Runs : \/ run'[q] = run[q]
                          \/ q = r /\ run'[q] \in {"reasoning", "failed"}
                          \/ run[q] \in {"queued", "waiting_for_bridge"} /\ run'[q] = "failed"
      BY <2>4 DEF FailedCommand, FailCommandTx
    <3> QED
      BY <2>2, <2>4, <3>1, <3>2 DEF RunsMove, RunMoves, TerminalRun
  <2> QED
    BY <1>7, <2>1, <2>3, <2>4 DEF Bridge, FailCommand, ExpireCommand, OpenCommand
<1>8. ASSUME NEW c \in calls, CancelStored(c)
      PROVE  RunsMove
  <2>1. c.r[1] \in Sessions
    BY <1>0, SchedFacts, RunFacts
  <2>2. \A s \in Sessions : sess'[s] = "absent" => sess[s] = "absent"
    BY <1>0, <1>8, <2>1 DEF CancelStored, CancelTx, TypeOK
  <2>3. \A q \in Runs : run'[q] = run[q] \/ (run[q] # "absent" /\ run'[q] = "cancelled")
    BY <1>8 DEF CancelStored, CancelTx, OpenRun
  <2> QED
    BY <2>2, <2>3 DEF RunsMove, RunMoves, TerminalRun
<1>9. ASSUME NEW r \in Runs, WorkerStep(r)
      PROVE  RunsMove
  <2>1. ASSUME \/ WorkerInterrupted(r) \/ WorkerFails(r) \/ WorkerRead(r) \/ WorkerPlan(r) \/ WorkerReceipt(r)
               \/ WorkerEvaluate(r) \/ WorkerError(r) \/ WorkerRetire(r)
        PROVE  UNCHANGED <<run, sess>>
    BY <2>1 DEF WorkerInterrupted, WorkerFails, WorkerRead, WorkerPlan, WorkerReceipt, WorkerEvaluate,
                WorkerError, WorkerRetire, Staged
  <2>2. CASE WorkerFollowUp(r)
    <3>1. sess' = sess /\ sess[r[1]] # "absent"
      BY <2>2, WorkedRun DEF WorkerFollowUp, Alive, At, HasWorker
    <3>2. run' = run \/ (CaptureAllowed(r) /\ run' = [run EXCEPT ![r] = "waiting_for_bridge"])
      BY <2>2 DEF WorkerFollowUp
    <3> QED
      BY <1>0, <3>1, <3>2 DEF RunsMove, RunMoves, TypeOK
  <2>3. CASE WorkerComplete(r) \/ FailCapturedRunReasoning(r) \/ FailRun(r)
    <3>1. sess' = sess /\ run[r] # "absent"
      BY <2>3, WorkedRun DEF WorkerComplete, FailCapturedRunReasoning, FailRun, Alive, At, HasWorker
    <3>2. run' = run \/ \E st \in {"completed", "failed"} : run' = [run EXCEPT ![r] = st]
      BY <2>3 DEF WorkerComplete, FailCapturedRunReasoning, FailRun, FailedRun
    <3> QED
      BY <1>0, <3>1, <3>2 DEF RunsMove, RunMoves, TerminalRun, TypeOK
  <2>4. CASE FailQueuedAfterReasoningFailure(r)
    <3>1. sess' = sess /\ \A q \in Runs : run'[q] = run[q] \/ (run[q] = "queued" /\ run'[q] = "failed")
      BY <2>4 DEF FailQueuedAfterReasoningFailure
    <3> QED
      BY <3>1 DEF RunsMove, RunMoves, TerminalRun
  <2> QED
    BY <1>1, <1>9, <2>1, <2>2, <2>3, <2>4 DEF WorkerStep
<1>10. ASSUME \/ \E c \in calls : Launch(c) \/ Disconnect(c)
              \/ \E s \in Sessions : CancelSession(s)
              \/ AdmissionReads
              \/ ConfirmXCaptureRecovery \/ Shutdown \/ Restart
       PROVE  UNCHANGED <<run, sess>>
  BY <1>10, <1>0, AdmissionOnly DEF OnlyAdmission, Launch, Disconnect, CancelSession, ConfirmXCaptureRecovery, Shutdown, Restart, ResumePendingReasoning
<1>11. CASE ScheduleStep \/ \E c \in Callers : NextBegin(c)
  BY <1>1, <1>4, <1>5, <1>6, <1>11 DEF ScheduleStep
<1>12. CASE \E c \in calls : Launch(c) \/ CancelStored(c) \/ Disconnect(c)
  BY <1>1, <1>8, <1>10, <1>12
<1>13. CASE \/ \E s \in Sessions : CancelSession(s) \/ CreateSession(s)
            \/ AdmissionReads \/ ConfirmXCaptureRecovery \/ Shutdown \/ Restart
  BY <1>1, <1>2, <1>10, <1>13
<1>14. CASE \E r \in Runs : RetryFailedRun(r) \/ WorkerStep(r)
  BY <1>3, <1>9, <1>14
<1> QED
  BY <1>7, <1>11, <1>12, <1>13, <1>14 DEF Next

\* A step of startNext either lets the mutex go or is taken for a caller that
\* goes on waiting; a run is picked while it is queued.
SchedMoves ==
    \/ sched' = IdleSched
    \/ /\ UNCHANGED <<worker, calls, cmd>> /\ sched'.by \in Callers
       /\ sched'.pc = "start" => sched'.r \in Runs /\ run[sched'.r] = "queued"
       /\ sched'.pc = "write" => sched'.status # "absent"

\* Every step of startNext is of this kind.
LEMMA SchedSteps ==
    ASSUME CommandInv, ScheduleStep \/ \E c \in Callers : NextBegin(c)
    PROVE  SchedMoves
<1>0. TypeOK /\ HolderWaits /\ sched \in Scheds
  BY DEF CommandInv, TypeOK
<1>1. ASSUME NEW c \in Callers, NextBegin(c)
      PROVE  SchedMoves
  <2>1. \/ sched' = IdleSched
        \/ /\ sched' = [IdleSched EXCEPT !.pc = "pick", !.by = c, !.settled = Settled(c.r[1])]
           /\ UNCHANGED <<worker, calls, cmd>>
    BY <1>1 DEF NextBegin, Return
  <2> QED
    BY <2>1, IdleType DEF SchedMoves, Scheds
<1>2. ASSUME NEW pc \in {"compose", "finalizing", "publish"}, sched.pc # "idle", Goto(pc), cmd' = cmd
      PROVE  SchedMoves
  BY <1>0, <1>2 DEF SchedMoves, Goto, HolderWaits, Scheds
<1>3. CASE NextAbort
  BY <1>3 DEF NextAbort, Return, SchedMoves
<1>4. CASE NextPick
  <2>1. CASE Return(sched.by, TRUE)
    BY <2>1 DEF Return, SchedMoves
  <2>2. CASE Goto("compose")
    BY <1>2, <1>4, <2>2 DEF NextPick, Pick, Live, Step
  <2>3. ASSUME NEW r \in RunsOf(sched.by.r[1]), run[r] = "queued",
               sched' = [sched EXCEPT !.pc = "start", !.r = r], UNCHANGED <<memory, calls, spent>>
        PROVE  SchedMoves
    <3>1. sched.pc = "pick" /\ cmd' = cmd
      BY <1>4 DEF NextPick, Pick, Live, Step
    <3>2. r \in Runs
      BY DEF RunsOf
    <3> QED
      BY <1>0, <2>3, <3>1, <3>2 DEF SchedMoves, HolderWaits, Scheds
  <2> QED
    BY <1>4, <2>1, <2>2, <2>3 DEF NextPick, Pick
<1>5. CASE StartRun \/ PublishWrite
  BY <1>5 DEF StartRun, PublishWrite, Return, SchedMoves
<1>6. CASE Compose
  BY <1>2, <1>6 DEF Compose, Return, SchedMoves, Live, Step
<1>7. CASE Finalizing
  BY <1>2, <1>7 DEF Finalizing, Return, SchedMoves, Live, Step
<1>8. CASE Publish
  <2>1. CASE Return(sched.by, FALSE)
    BY <2>1 DEF Return, SchedMoves
  <2>2. CASE Settled(sched.by.r[1])
    <3>1. /\ \E st \in Published : sched' = [sched EXCEPT !.pc = "write", !.status = st]
          /\ UNCHANGED <<worker, calls, cmd>> /\ sched.pc # "idle"
      BY <1>8, <2>2 DEF Publish, Published, Live, Step
    <3> QED
      BY <1>0, <3>1 DEF SchedMoves, HolderWaits, Scheds, Published
  <2> QED
    BY <1>8, <2>1, <2>2 DEF Publish
<1> QED
  BY <1>1, <1>3, <1>4, <1>5, <1>6, <1>7, <1>8 DEF ScheduleStep

\* A caller that is neither withdrawn nor moved keeps waiting.
LEMMA CallerKept ==
    ASSUME NEW c \in Callers, c \in calls /\ c.k \in {"next", "next_launch"} => c \in calls',
           \A q \in Runs : worker[q].pc \in {"advance", "advanceAfter"} => worker'[q].pc = worker[q].pc
    PROVE  c \in Callers'
<1>1. CASE c \in calls /\ c.k \in {"next", "next_launch"}
  BY <1>1 DEF Callers
<1>2. ASSUME NEW r \in Runs, worker[r].pc \in {"advance", "advanceAfter"}, c = WorkerCall(r)
      PROVE  c \in Callers'
  BY <1>2 DEF Callers, WorkerCall, Call
<1> QED
  BY <1>1, <1>2 DEF Callers

\* The other steps leave the mutex to its holder, or end the holder.
LEMMA HolderKept ==
    ASSUME CommandInv, Next, ~ (ScheduleStep \/ \E c \in Callers : NextBegin(c))
    PROVE  sched' = IdleSched \/ (sched' = sched /\ (sched.pc # "idle" => sched.by \in Callers'))
<1>0. TypeOK /\ HolderWaits
  BY DEF CommandInv
<1>1. ASSUME sched' = sched, calls \subseteq calls',
             \A q \in Runs : worker[q].pc \in {"advance", "advanceAfter"} => worker'[q].pc = worker[q].pc
      PROVE  sched' = sched /\ (sched.pc # "idle" => sched.by \in Callers')
  BY <1>0, <1>1, CallerKept DEF HolderWaits
<1>2. ASSUME \/ \E s \in Sessions : CreateSession(s)
             \/ \E r \in Runs : RetryFailedRun(r)
             \/ \E r \in Runs, k \in {1, 2} : Bridge(r, k)
             \/ AdmissionReads \/ ConfirmXCaptureRecovery
      PROVE  sched' = sched /\ calls \subseteq calls' /\ worker' = worker
  <2>1. ASSUME NEW s \in Sessions, CreateSession(s)
        PROVE  sched' = sched /\ calls \subseteq calls' /\ worker' = worker
    BY <2>1 DEF CreateSession, memory
  <2>2. ASSUME NEW r \in Runs, RetryFailedRun(r)
        PROVE  sched' = sched /\ calls \subseteq calls' /\ worker' = worker
    BY <2>2 DEF RetryFailedRun, memory
  <2>3. ASSUME NEW r \in Runs, NEW k \in {1, 2}, Bridge(r, k)
        PROVE  sched' = sched /\ calls \subseteq calls' /\ worker' = worker
    <3>1. ASSUME NEW challenge, NEW http, FailedCommand(r, k, challenge, http)
          PROVE  sched' = sched /\ calls \subseteq calls' /\ worker' = worker
      BY <3>1 DEF FailedCommand, FailCommandTx, memory
    <3>2. ASSUME NEW plan, AcceptObservation(r, k, plan)
          PROVE  sched' = sched /\ calls \subseteq calls' /\ worker' = worker
      BY <3>2 DEF AcceptObservation, SaveObservation, memory
    <3>3. CASE ClaimCommand(r, k)
      BY <3>3 DEF ClaimCommand, memory
    <3> QED BY <2>3, <3>1, <3>2, <3>3 DEF Bridge, FailCommand, ExpireCommand
  <2>4. CASE ConfirmXCaptureRecovery
    BY <2>4 DEF ConfirmXCaptureRecovery, memory
  <2>5. CASE AdmissionReads
    BY <1>0, <2>5, AdmissionOnly DEF OnlyAdmission
  <2> QED BY <1>2, <2>1, <2>2, <2>3, <2>4, <2>5
<1>3. ASSUME (\E s \in Sessions : CancelSession(s)) \/ Shutdown
      PROVE  sched' = sched /\ calls \subseteq calls' /\ \A q \in Runs : worker'[q].pc = worker[q].pc
  <2>1. sched' = sched /\ calls \subseteq calls'
    BY <1>3 DEF CancelSession, Shutdown
  <2>2. \A q \in Runs : worker'[q] = worker[q] \/ worker'[q] = [worker[q] EXCEPT !.dead = TRUE]
    BY <1>3 DEF CancelSession, Shutdown
  <2>3. \A w \in Workers : [w EXCEPT !.dead = TRUE].pc = w.pc
    BY DEF Workers
  <2>4. \A q \in Runs : worker[q] \in Workers
    BY <1>0 DEF TypeOK
  <2> QED
    BY <2>1, <2>2, <2>3, <2>4
<1>4. CASE Restart
  BY <1>4 DEF Restart, ResumePendingReasoning
<1>5. ASSUME NEW c \in calls, Launch(c) \/ CancelStored(c)
      PROVE  sched' = sched /\ (sched.pc # "idle" => sched.by \in Callers')
  <2>1. sched' = sched /\ calls' = calls \ {c} /\ c.k \in {"launch", "cancel"} /\ c.r \in Runs
    <3>1. c.r \in Runs
      BY <1>0, SchedFacts
    <3>2. CASE Launch(c)
      BY <3>1, <3>2 DEF Launch
    <3>3. CASE CancelStored(c)
      BY <3>1, <3>3 DEF CancelStored, CancelTx
    <3> QED
      BY <1>5, <3>2, <3>3
  <2>2. CASE Launch(c)
    <3>1. worker' = worker \/ (~ HasWorker(c.r) /\ \E w : worker' = [worker EXCEPT ![c.r] = w])
      BY <2>2 DEF Launch
    <3>2. \A q \in Runs : worker[q].pc \in {"advance", "advanceAfter"} => worker'[q] = worker[q]
      BY <1>0, <2>1, <3>1 DEF HasWorker, TypeOK
    <3> QED
      BY <1>0, <2>1, <3>2, CallerKept DEF HolderWaits
  <2>3. CASE CancelStored(c)
    <3>1. worker' = worker
      BY <2>3 DEF CancelStored, CancelTx
    <3> QED
      BY <1>0, <2>1, <3>1, CallerKept DEF HolderWaits
  <2> QED
    BY <1>5, <2>2, <2>3
<1>6. ASSUME NEW c \in calls, Disconnect(c)
      PROVE  sched' = IdleSched \/ (sched' = sched /\ (sched.pc # "idle" => sched.by \in Callers'))
  <2>1. calls' = calls \ {c} /\ worker' = worker
    BY <1>6 DEF Disconnect
  <2>2. sched' = IdleSched \/ (sched' = sched /\ (sched.pc # "idle" => sched.by # c))
    BY <1>6 DEF Disconnect, Step
  <2> QED
    BY <1>0, <2>1, <2>2, CallerKept DEF HolderWaits
<1>7. ASSUME NEW r \in Runs, WorkerStep(r)
      PROVE  sched' = sched /\ (sched.pc # "idle" => sched.by \in Callers')
  <2>1. sched' = sched /\ calls \subseteq calls'
    BY <1>7 DEF WorkerStep, WorkerInterrupted, WorkerFails, WorkerRead, WorkerPlan, WorkerFollowUp, WorkerReceipt,
                WorkerEvaluate, WorkerComplete, WorkerError, FailCapturedRunReasoning, FailRun,
                FailQueuedAfterReasoningFailure, WorkerRetire, OnlyWorker
  <2>2. worker[r].pc \notin {"advance", "advanceAfter"}
    BY <1>7 DEF WorkerStep, WorkerInterrupted, WorkerFails, WorkerRead, WorkerPlan, WorkerFollowUp, WorkerReceipt,
                WorkerEvaluate, WorkerComplete, WorkerError, FailCapturedRunReasoning, FailRun,
                FailQueuedAfterReasoningFailure, WorkerRetire, Alive, At, Processing
  <2>3. \A q \in Runs : q # r => worker'[q] = worker[q]
    BY <1>0, <1>7 DEF WorkerStep, WorkerInterrupted, WorkerFails, WorkerRead, WorkerPlan, WorkerFollowUp, WorkerReceipt,
                WorkerEvaluate, WorkerComplete, WorkerError, FailCapturedRunReasoning, FailRun, AfterFailure,
                FailQueuedAfterReasoningFailure, WorkerRetire, To, TypeOK
  <2> QED
    BY <1>1, <2>1, <2>2, <2>3
<1> QED
  BY <1>1, <1>2, <1>3, <1>4, <1>5, <1>6, <1>7 DEF Next

\* The holder of the mutex stays among those who wait for startNext.
LEMMA HolderStep ==
    ASSUME CommandInv, Next
    PROVE  HolderWaits'
<1>1. IdleSched.pc = "idle"
  BY DEF IdleSched
<1>2. CASE ScheduleStep \/ \E c \in Callers : NextBegin(c)
  BY <1>1, <1>2, SchedSteps DEF SchedMoves, HolderWaits, Callers
<1>3. CASE ~ (ScheduleStep \/ \E c \in Callers : NextBegin(c))
  BY <1>1, <1>3, HolderKept DEF HolderWaits
<1> QED
  BY <1>2, <1>3

\* Runs without a command stay so until startNext starts them.
LEMMA FreshStep ==
    ASSUME CommandInv, Next
    PROVE  FreshRuns'
<1>0. TypeOK /\ FreshRuns /\ OnePlanner
  BY DEF CommandInv
<1>1. ASSUME NEW s \in Sessions, sess'[s] = "absent", NEW r \in RunsOf(s)
      PROVE  run'[r] = "absent"
  <2>1. sess[s] = "absent" /\ r \in Runs /\ r[1] = s
    BY <1>1, RunSteps DEF RunsMove, RunsOf
  <2>2. run[r] = "absent"
    BY <1>0, <2>1 DEF FreshRuns
  <2> QED
    BY <1>1, <2>1, <2>2, RunSteps DEF RunsMove, RunMoves
<1>2. ASSUME NEW r \in Runs, run'[r] \in {"absent", "queued"}, NEW k \in {1, 2}
      PROVE  cmd'[<<r, k>>] = "none"
  <2>1. run[r] \in {"absent", "queued"}
    BY <1>2, RunSteps DEF RunsMove, RunMoves, TerminalRun
  <2>2. cmd[<<r, k>>] = "none" /\ <<r, k>> \in Commands
    BY <1>0, <2>1, RunFacts DEF FreshRuns
  <2>3. ~ HasWorker(r)
    BY <2>1, WorkedRun
  <2>4. ASSUME NEW d \in Commands, d # <<r, k>>, NEW v, cmd' = [cmd EXCEPT ![d] = v]
        PROVE  cmd'[<<r, k>>] = "none"
    BY <1>0, <2>2, <2>4 DEF TypeOK
  <2>5. CASE UNCHANGED <<cmd, obs>>
    BY <2>2, <2>5
  <2>6. CASE sched.pc = "start" /\ Issue(<<sched.r, 1>>) /\ run'[sched.r] = "waiting_for_bridge"
    <3>1. <<sched.r, 1>> # <<r, k>> /\ <<sched.r, 1>> \in Commands
      BY <1>0, <1>2, <2>6, IssuedOnce
    <3> QED
      BY <2>4, <2>6, <3>1 DEF Issue
  <2>7. ASSUME NEW q \in Runs, worker[q].pc = "followUp" /\ Issue(<<q, 2>>)
        PROVE  cmd'[<<r, k>>] = "none"
    <3>1. <<q, 2>> # <<r, k>> /\ <<q, 2>> \in Commands
      BY <2>3, <2>7, RunFacts DEF HasWorker
    <3> QED
      BY <2>4, <2>7, <3>1 DEF Issue
  <2>8. CASE \E d \in Commands : Claim(d) \/ Complete(d)
    BY <2>2, <2>4, <2>8 DEF Claim, Complete
  <2>9. CASE End
    BY <2>2, <2>9 DEF End, OpenCommand
  <2> QED
    BY <1>0, <2>5, <2>6, <2>7, <2>8, <2>9, CommandSteps
<1>3. ASSUME sched'.pc = "start"
      PROVE  cmd'[<<sched'.r, 1>>] = "none"
  <2>0. IdleSched.pc = "idle"
    BY DEF IdleSched
  <2>1. CASE ScheduleStep \/ \E c \in Callers : NextBegin(c)
    BY <1>0, <1>3, <2>0, <2>1, SchedSteps DEF SchedMoves, FreshRuns
  <2>2. CASE ~ (ScheduleStep \/ \E c \in Callers : NextBegin(c))
    <3>1. sched' = sched
      BY <1>3, <2>0, <2>2, HolderKept
    <3>2. cmd[<<sched.r, 1>>] = "none" /\ <<sched.r, 1>> \in Commands
      BY <1>0, <1>3, <3>1, IssuedOnce
    <3>3. ASSUME NEW d \in Commands, d # <<sched.r, 1>>, NEW v, cmd' = [cmd EXCEPT ![d] = v]
          PROVE  cmd'[<<sched.r, 1>>] = "none"
      BY <1>0, <3>2, <3>3 DEF TypeOK
    <3>4. CASE UNCHANGED <<cmd, obs>>
      BY <3>1, <3>2, <3>4
    <3>5. CASE sched' = IdleSched
      BY <1>3, <2>0, <3>5
    <3>6. ASSUME NEW q \in Runs, worker[q].pc = "followUp" /\ Issue(<<q, 2>>)
          PROVE  cmd'[<<sched'.r, 1>>] = "none"
      <4>1. <<q, 2>> \in Commands
        BY RunFacts
      <4>2. <<q, 2>> # <<sched.r, 1>>
        OBVIOUS
      <4> QED
        BY <3>1, <3>3, <3>6, <4>1, <4>2 DEF Issue
    <3>7. CASE \E d \in Commands : Claim(d) \/ Complete(d)
      BY <3>1, <3>2, <3>3, <3>7 DEF Claim, Complete
    <3>8. CASE End
      BY <3>1, <3>2, <3>8 DEF End, OpenCommand
    <3> QED
      BY <1>0, <3>4, <3>5, <3>6, <3>7, <3>8, CommandSteps
  <2> QED
    BY <2>1, <2>2
<1>4. ASSUME sched'.pc = "write"
      PROVE  sched'.status # "absent"
  <2>0. IdleSched.pc = "idle"
    BY DEF IdleSched
  <2>1. CASE ScheduleStep \/ \E c \in Callers : NextBegin(c)
    BY <1>4, <2>0, <2>1, SchedSteps DEF SchedMoves
  <2>2. CASE ~ (ScheduleStep \/ \E c \in Callers : NextBegin(c))
    BY <1>0, <1>4, <2>0, <2>2, HolderKept DEF FreshRuns
  <2> QED
    BY <2>1, <2>2
<1> QED
  BY <1>1, <1>2, <1>3, <1>4 DEF FreshRuns, RunsOf

\* While X is paused no step opens work of X, and the step that pauses X ends it.
LEMMA PauseStep ==
    ASSUME CommandInv, Next
    PROVE  PauseClearsX'
<1>0. TypeOK /\ PauseClearsX /\ FreshRuns /\ OnePlanner
  BY DEF CommandInv
<1> SUFFICES ASSUME xPaused', NEW r \in Runs, IsX(r)
             PROVE  /\ run'[r] # "waiting_for_bridge"
                    /\ \A k \in {1, 2} : cmd'[<<r, k>>] \notin OpenCommand
  BY DEF PauseClearsX, IsX
<1>1. ASSUME xPaused
      PROVE  /\ run'[r] # "waiting_for_bridge"
             /\ \A k \in {1, 2} : cmd'[<<r, k>>] \notin OpenCommand
  <2>1. ~ CaptureAllowed(r) /\ run[r] # "waiting_for_bridge"
        /\ \A k \in {1, 2} : cmd[<<r, k>>] \notin OpenCommand
    BY <1>0, <1>1 DEF PauseClearsX, CaptureAllowed
  <2>2. run'[r] # "waiting_for_bridge"
    BY <2>1, RunSteps DEF RunsMove, RunMoves, TerminalRun
  <2>3. ASSUME NEW k \in {1, 2}
        PROVE  cmd'[<<r, k>>] \notin OpenCommand
    <3>1. <<r, k>> \in Commands /\ <<r, k>>[1] = r /\ cmd[<<r, k>>] \notin OpenCommand
      BY <2>1, RunFacts
    <3>2. ASSUME NEW d \in Commands, d # <<r, k>>, NEW v, cmd' = [cmd EXCEPT ![d] = v]
          PROVE  cmd'[<<r, k>>] \notin OpenCommand
      BY <1>0, <3>1, <3>2 DEF TypeOK
    <3>3. ASSUME NEW d \in Commands, Issue(d) \/ Claim(d)
          PROVE  cmd'[<<r, k>>] \notin OpenCommand
      BY <2>1, <3>1, <3>2, <3>3 DEF Issue, Claim
    <3>4. ASSUME NEW d \in Commands, Complete(d)
          PROVE  cmd'[<<r, k>>] \notin OpenCommand
      BY <3>1, <3>2, <3>4 DEF Complete, OpenCommand
    <3>5. CASE sched.pc = "start" /\ Issue(<<sched.r, 1>>)
      BY <1>0, <3>3, <3>5, IssuedOnce
    <3>6. CASE \E q \in Runs : worker[q].pc = "followUp" /\ Issue(<<q, 2>>)
      BY <3>3, <3>6, RunFacts
    <3>7. CASE End
      BY <3>1, <3>7 DEF End, OpenCommand
    <3>8. CASE UNCHANGED <<cmd, obs>>
      BY <3>1, <3>8
    <3> QED
      BY <1>0, <3>3, <3>4, <3>5, <3>6, <3>7, <3>8, CommandSteps
  <2> QED
    BY <2>2, <2>3
<1>2. ASSUME ~ xPaused
      PROVE  /\ run'[r] # "waiting_for_bridge"
             /\ \A k \in {1, 2} : cmd'[<<r, k>>] \notin OpenCommand
  <2>1. PICK q \in Runs, j \in {1, 2}, challenge \in BOOLEAN, http \in BOOLEAN : FailedCommand(q, j, challenge, http)
    <3>1. ASSUME NEW q \in Runs, WorkerStep(q)
          PROVE  xPaused' = xPaused
      BY <3>1 DEF WorkerStep, WorkerInterrupted, WorkerFails, WorkerRead, WorkerPlan, WorkerFollowUp, WorkerReceipt,
                  WorkerEvaluate, WorkerComplete, WorkerError, FailCapturedRunReasoning, FailRun,
                  FailQueuedAfterReasoningFailure, WorkerRetire, Staged
    <3>2. ASSUME ScheduleStep \/ \E c \in Callers : NextBegin(c)
          PROVE  xPaused' = xPaused
      BY <3>2 DEF ScheduleStep, NextBegin, NextAbort, NextPick, Pick, StartRun, Compose, Finalizing, Publish, PublishWrite
    <3>3. ASSUME \/ \E s \in Sessions : CancelSession(s) \/ CreateSession(s)
                 \/ \E q \in Runs : RetryFailedRun(q)
                 \/ \E c \in calls : Launch(c) \/ CancelStored(c) \/ Disconnect(c)
                 \/ AdmissionReads \/ ConfirmXCaptureRecovery \/ Shutdown \/ Restart
          PROVE  xPaused' => xPaused
      BY <1>0, <3>3, AdmissionOnly DEF OnlyAdmission, CancelSession, CreateSession, RetryFailedRun, Launch, CancelStored,
                  CancelTx, Disconnect, ConfirmXCaptureRecovery, Shutdown, Restart, ResumePendingReasoning
    <3>4. ASSUME NEW q \in Runs, NEW j \in {1, 2}, Bridge(q, j)
          PROVE  xPaused' = xPaused \/ \E challenge \in BOOLEAN, http \in BOOLEAN : FailedCommand(q, j, challenge, http)
      BY <3>4 DEF Bridge, ClaimCommand, AcceptObservation, SaveObservation, FailCommand, ExpireCommand
    <3> QED
      BY <1>2, <3>1, <3>2, <3>3, <3>4 DEF Next
  <2>2. challenge /\ IsX(q)
    BY <1>2, <2>1 DEF FailedCommand, FailCommandTx
  <2>3. run'[r] # "waiting_for_bridge"
    <3>1. CASE r = q
      BY <2>1, <3>1 DEF FailedCommand, FailCommandTx
    <3>2. CASE r # q /\ run[r] \in {"queued", "waiting_for_bridge"}
      BY <2>1, <2>2, <3>2 DEF FailedCommand, FailCommandTx
    <3>3. CASE r # q /\ run[r] \notin {"queued", "waiting_for_bridge"}
      BY <2>1, <3>3 DEF FailedCommand, FailCommandTx
    <3> QED
      BY <3>1, <3>2, <3>3
  <2>4. ASSUME NEW k \in {1, 2}
        PROVE  cmd'[<<r, k>>] \notin OpenCommand
    <3>1. <<r, k>> \in Commands /\ <<r, k>>[1] = r
      BY RunFacts
    <3>2. cmd'[<<r, k>>] = "failed" \/ (cmd[<<r, k>>] \notin OpenCommand /\ cmd'[<<r, k>>] = cmd[<<r, k>>])
      BY <2>1, <2>2, <3>1 DEF FailedCommand, FailCommandTx
    <3> QED
      BY <3>2 DEF OpenCommand
  <2> QED
    BY <2>3, <2>4
<1> QED
  BY <1>1, <1>2

-----------------------------------------------------------------------------
(* Calls and workers.                                                       *)

\* What a returning startNext leaves: its caller is gone, or about to launch.
LEMMA ReturnCalls ==
    ASSUME CommandInv, NEW c \in Callers, NEW ok, Return(c, ok)
    PROVE  /\ \A d \in calls' : \/ d \in calls /\ d # c
                                \/ /\ d = [c EXCEPT !.k = "launch"] /\ d.k = "launch" /\ d.r = c.r /\ d.plan = c.plan
                                   /\ c \in calls /\ c.k = "next_launch"
           /\ UNCHANGED pending
           /\ \A q \in Runs : worker'[q] = worker[q] \/ /\ worker[q].pc \in {"advance", "advanceAfter"}
                                                        /\ worker'[q].pc \in {"error", "retire"}
<1>0. TypeOK /\ c \in Calls /\ c.r \in Runs
  BY CallersType DEF CommandInv
<1>1. ASSUME NEW d \in calls'
      PROVE  \/ d \in calls /\ d # c
             \/ /\ d = [c EXCEPT !.k = "launch"] /\ d.k = "launch" /\ d.r = c.r /\ d.plan = c.plan
                /\ c \in calls /\ c.k = "next_launch"
  <2>1. [c EXCEPT !.k = "launch"].k = "launch" /\ [c EXCEPT !.k = "launch"].r = c.r
        /\ [c EXCEPT !.k = "launch"].plan = c.plan
    BY <1>0 DEF Calls
  <2>2. c.k = "next_launch" => c \in calls
    BY DEF Callers, WorkerCall, Call
  <2> QED
    BY <1>1, <2>1, <2>2 DEF Return
<1>2. ASSUME NEW q \in Runs
      PROVE  worker'[q] = worker[q] \/ (worker[q].pc \in {"advance", "advanceAfter"} /\ worker'[q].pc \in {"error", "retire"})
  <2>1. CASE c.k # "worker"
    BY <2>1 DEF Return
  <2>2. CASE c.k = "worker"
    <3>1. \A x \in calls : x.k \in {"next", "next_launch"} => x # c
      BY <2>2
    <3>2. PICK p \in Runs : worker[p].pc \in {"advance", "advanceAfter"} /\ c = WorkerCall(p)
      BY <3>1 DEF Callers
    <3>3. c.r = p
      BY <3>2 DEF WorkerCall, Call
    <3>4. q # p => worker'[q] = worker[q]
      BY <1>0, <2>2, <3>3 DEF Return, TypeOK
    <3>5. worker'[p].pc \in {"error", "retire"}
      BY <1>0, <2>2, <3>3 DEF Return, TypeOK, Workers
    <3> QED
      BY <3>2, <3>4, <3>5
  <2> QED
    BY <2>1, <2>2
<1> QED
  BY <1>1, <1>2 DEF Return

\* A step of startNext returns to its caller or changes no call and no worker.
LEMMA ScheduleReturns ==
    ASSUME CommandInv, ScheduleStep \/ \E c \in Callers : NextBegin(c)
    PROVE  UNCHANGED <<worker, calls, pending>> \/ \E c \in Callers, ok \in BOOLEAN : Return(c, ok)
<1>1. sched.pc # "idle" => sched.by \in Callers
  BY DEF CommandInv, HolderWaits
<1>2. ASSUME NEW c \in Callers, NextBegin(c)
      PROVE  UNCHANGED <<worker, calls, pending>> \/ \E d \in Callers, ok \in BOOLEAN : Return(d, ok)
  <2>1. (~ ContextDead(c)) \in BOOLEAN
    OBVIOUS
  <2> QED
    BY <1>2, <2>1 DEF NextBegin
<1>3. CASE ScheduleStep
  <2>1. UNCHANGED <<worker, calls, pending>> \/ \E ok \in BOOLEAN : Return(sched.by, ok)
    BY <1>3 DEF ScheduleStep, NextAbort, NextPick, Pick, StartRun, Compose, Finalizing, Publish, PublishWrite, Goto
  <2>2. sched.pc # "idle"
    BY <1>3 DEF ScheduleStep, NextAbort, NextPick, Pick, StartRun, Compose, Finalizing, Publish, PublishWrite, Live, Step
  <2> QED
    BY <1>1, <2>1, <2>2
<1> QED
  BY <1>2, <1>3

\* Observations stay.
LEMMA ObservationsStay ==
    ASSUME CommandInv, Next, NEW r \in Runs, obs[r] > 0
    PROVE  obs'[r] > 0
<1>0. TypeOK /\ obs[r] \in Nat
  BY DEF CommandInv, TypeOK
<1>1. ASSUME NEW c \in Commands, Complete(c)
      PROVE  obs'[r] > 0
  BY <1>0, <1>1, RunFacts DEF Complete, TypeOK
<1> QED
  BY <1>0, <1>1, CommandSteps DEF Issue, Claim, End

\* Whoever launches or processes a run has an observation of it.
LEMMA EvidenceStep ==
    ASSUME CommandInv, Next
    PROVE  EvidenceLaunched'
<1> DEFINE NewCalls == \A d \in calls' : d \in calls \/ d.k \notin {"launch", "next_launch"} \/ (d.r \in Runs /\ obs'[d.r] > 0)
           NewWorkers == \A q \in Runs : worker[q].pc = "none" /\ worker'[q].pc # "none" => obs'[q] > 0
<1>0. TypeOK /\ EvidenceLaunched /\ \A c \in calls : c.r \in Runs
  BY SchedFacts DEF CommandInv
<1>1. SUFFICES NewCalls /\ NewWorkers
  BY <1>0, ObservationsStay DEF EvidenceLaunched, HasWorker
<1>2. CASE ScheduleStep \/ \E c \in Callers : NextBegin(c)
  <2>1. CASE UNCHANGED <<worker, calls, pending>>
    BY <2>1
  <2>2. ASSUME NEW c \in Callers, NEW ok \in BOOLEAN, Return(c, ok)
        PROVE  NewCalls /\ NewWorkers
    <3>1. c \in calls /\ c.k = "next_launch" => c.r \in Runs /\ obs'[c.r] > 0
      BY <1>0, ObservationsStay DEF EvidenceLaunched
    <3>2. NewCalls
      BY <2>2, <3>1, ReturnCalls
    <3>3. NewWorkers
      BY <2>2, ReturnCalls
    <3> QED
      BY <3>2, <3>3
  <2> QED
    BY <1>2, <2>1, <2>2, ScheduleReturns
<1>3. ASSUME NEW s \in Sessions, CancelSession(s)
      PROVE  NewCalls /\ NewWorkers
  <2>1. NewCalls
    BY <1>3 DEF CancelSession, Call
  <2>2. NewWorkers
    BY <1>3 DEF CancelSession, HasWorker
  <2> QED
    BY <2>1, <2>2
<1>4. ASSUME NEW s \in Sessions, CreateSession(s)
      PROVE  NewCalls /\ NewWorkers
  BY <1>4 DEF CreateSession, Call
<1>5. ASSUME NEW r \in Runs, RetryFailedRun(r)
      PROVE  NewCalls /\ NewWorkers
  BY <1>5 DEF RetryFailedRun, Call
<1>6. ASSUME NEW r \in Runs, NEW k \in {1, 2}, Bridge(r, k)
      PROVE  NewCalls /\ NewWorkers
  <2>1. CASE ClaimCommand(r, k)
    BY <2>1 DEF ClaimCommand
  <2>2. ASSUME NEW plan, AcceptObservation(r, k, plan)
        PROVE  NewCalls /\ NewWorkers
    <3>1. obs'[r] > 0 /\ worker' = worker
      BY <1>0, <2>2 DEF AcceptObservation, SaveObservation, TypeOK
    <3>2. \A d \in calls' : d \in calls \/ d.r = r
      BY <2>2 DEF AcceptObservation, SaveObservation, Call
    <3> QED
      BY <3>1, <3>2
  <2>3. ASSUME NEW challenge, NEW http, FailedCommand(r, k, challenge, http)
        PROVE  NewCalls /\ NewWorkers
    <3>1. obs' = obs /\ worker' = worker
      BY <2>3 DEF FailedCommand, FailCommandTx
    <3>2. \A d \in calls' : d \in calls \/ (d.r = r /\ (Fallback(r) \/ d.k = "next"))
      BY <2>3 DEF FailedCommand, Call
    <3> QED
      BY <3>1, <3>2 DEF Fallback
  <2> QED
    BY <1>6, <2>1, <2>2, <2>3 DEF Bridge, FailCommand, ExpireCommand
<1>7. ASSUME NEW c \in calls, Launch(c)
      PROVE  NewCalls /\ NewWorkers
  <2>1. calls' \subseteq calls /\ obs' = obs /\ c.r \in Runs /\ obs[c.r] > 0
    BY <1>0, <1>7 DEF Launch, EvidenceLaunched
  <2>2. \A q \in Runs : q # c.r => worker'[q] = worker[q]
    BY <1>0, <1>7 DEF Launch, TypeOK
  <2> QED
    BY <2>1, <2>2
<1>8. ASSUME NEW c \in calls, CancelStored(c) \/ Disconnect(c)
      PROVE  NewCalls /\ NewWorkers
  BY <1>8 DEF CancelStored, CancelTx, Disconnect
<1>9. CASE ConfirmXCaptureRecovery
  BY <1>9 DEF ConfirmXCaptureRecovery
<1>10. CASE Shutdown
  BY <1>10 DEF Shutdown, HasWorker
<1>11. CASE Restart
  <2>1. obs' = obs /\ \A d \in calls' : d.r \in Resumable
    BY <1>11 DEF Restart, ResumePendingReasoning, Call
  <2>2. \A q \in Runs : worker'[q].pc = "none"
    BY <1>11, NoWorkerType DEF Restart, ResumePendingReasoning
  <2> QED
    BY <2>1, <2>2 DEF Resumable
<1>12. ASSUME NEW r \in Runs, WorkerStep(r)
       PROVE  NewCalls /\ NewWorkers
  <2>1. worker[r].pc # "none"
    BY <1>12 DEF WorkerStep, WorkerInterrupted, WorkerFails, WorkerRead, WorkerPlan, WorkerFollowUp, WorkerReceipt,
                WorkerEvaluate, WorkerComplete, WorkerError, FailCapturedRunReasoning, FailRun,
                FailQueuedAfterReasoningFailure, WorkerRetire, Alive, At, Processing
  <2>2. \A q \in Runs : q # r => worker'[q] = worker[q]
    BY <1>0, <1>12 DEF WorkerStep, WorkerInterrupted, WorkerFails, WorkerRead, WorkerPlan, WorkerFollowUp, WorkerReceipt,
                WorkerEvaluate, WorkerComplete, WorkerError, FailCapturedRunReasoning, FailRun, AfterFailure,
                FailQueuedAfterReasoningFailure, WorkerRetire, To, TypeOK
  <2>3. \A d \in calls' : d \in calls \/ d.r = r
    BY <1>12 DEF WorkerStep, WorkerInterrupted, WorkerFails, WorkerRead, WorkerPlan, WorkerFollowUp, WorkerReceipt,
                WorkerEvaluate, WorkerComplete, WorkerError, FailCapturedRunReasoning, FailRun,
                FailQueuedAfterReasoningFailure, WorkerRetire, OnlyWorker, Call
  <2>4. obs'[r] > 0
    BY <1>0, <2>1, ObservationsStay DEF EvidenceLaunched, HasWorker
  <2> QED
    BY <2>1, <2>2, <2>3, <2>4
<1>13. CASE \E c \in calls : Launch(c) \/ CancelStored(c) \/ Disconnect(c)
  BY <1>7, <1>8, <1>13
<1>14. CASE \E s \in Sessions : CancelSession(s) \/ CreateSession(s)
  BY <1>3, <1>4, <1>14
<1>15. CASE \E r \in Runs : RetryFailedRun(r) \/ WorkerStep(r)
  BY <1>5, <1>12, <1>15
<1>16. CASE AdmissionReads
  BY <1>0, <1>16, AdmissionOnly DEF OnlyAdmission
<1> QED
  BY <1>2, <1>6, <1>9, <1>10, <1>11, <1>13, <1>14, <1>15, <1>16 DEF Next

-----------------------------------------------------------------------------
(* One planner per run.                                                     *)

\* No new planner and no new second round: the planners of a run stay in order.
LEMMA PlannersShrink ==
    ASSUME CommandInv, NEW q \in Runs, obs'[q] = obs[q],
           cmd[<<q, 2>>] = "none" => cmd'[<<q, 2>>] = "none",
           \A d \in calls' : d.plan /\ d.r = q => d \in calls,
           pending'[q] = "plan" => pending[q] = "plan",
           Planning(q)' => Planning(q),
           worker'[q].pc \in {"planning", "followUp"} => obs[q] = 1
    PROVE  PlannerOf(q)'
<1>1. PlannerOf(q)
  BY DEF CommandInv, OnePlanner
<1>2. PlanCalls(q)' \subseteq PlanCalls(q)
  BY DEF PlanCalls
<1> QED
  BY <1>1, <1>2 DEF PlannerOf

\* One planner takes the place of another.
LEMMA PlannerMoves ==
    ASSUME CommandInv, NEW q \in Runs, obs'[q] = obs[q],
           cmd[<<q, 2>>] = "none" => cmd'[<<q, 2>>] = "none",
           PlanCalls(q) # {} \/ pending[q] = "plan" \/ Planning(q),
           \A c, d \in PlanCalls(q)' : obs[q] = 1 => c = d,
           PlanCalls(q)' # {} /\ obs[q] = 1 => pending'[q] # "plan" /\ ~ Planning(q)',
           pending'[q] = "plan" /\ obs[q] = 1 => ~ Planning(q)',
           worker'[q].pc \in {"planning", "followUp"} => obs[q] = 1
    PROVE  PlannerOf(q)'
<1>1. PlannerOf(q)
  BY DEF CommandInv, OnePlanner
<1> QED
  BY <1>1 DEF PlannerOf

\* startNext turns a caller that will launch into one that launches.
LEMMA SchedulePlanner ==
    ASSUME CommandInv, ScheduleStep \/ (\E c \in Callers : NextBegin(c)), NEW q \in Runs
    PROVE  PlannerOf(q)'
<1>0. TypeOK /\ PlannerOf(q)
  BY DEF CommandInv, OnePlanner
<1>1. obs' = obs /\ cmd'[<<q, 2>>] = cmd[<<q, 2>>]
  <2>1. CASE StartRun
    <3>1. obs' = obs /\ (cmd' = cmd \/ cmd' = [cmd EXCEPT ![<<sched.r, 1>>] = "queued"])
      BY <2>1 DEF StartRun
    <3>2. <<sched.r, 1>> # <<q, 2>>
      OBVIOUS
    <3> QED
      BY <1>0, <3>1, <3>2, RunFacts DEF TypeOK
  <2>2. CASE ~ StartRun
    BY <2>2 DEF ScheduleStep, NextBegin, NextAbort, NextPick, Pick, Compose, Finalizing, Publish, PublishWrite
  <2> QED
    BY <2>1, <2>2
<1>2. CASE UNCHANGED <<worker, calls, pending>>
  BY <1>0, <1>1, <1>2 DEF PlannerOf, PlanCalls, Planning
<1>3. ASSUME NEW c \in Callers, NEW ok \in BOOLEAN, Return(c, ok)
      PROVE  PlannerOf(q)'
  <2>1. /\ \A d \in calls' : \/ d \in calls /\ d # c
                             \/ /\ d = [c EXCEPT !.k = "launch"] /\ d.k = "launch" /\ d.r = c.r /\ d.plan = c.plan
                                /\ c \in calls /\ c.k = "next_launch"
        /\ UNCHANGED pending
        /\ worker'[q] = worker[q] \/ /\ worker[q].pc \in {"advance", "advanceAfter"}
                                     /\ worker'[q].pc \in {"error", "retire"}
    BY <1>3, ReturnCalls
  <2>2. /\ Planning(q)' => Planning(q)
        /\ worker'[q].pc \in {"planning", "followUp"} => worker[q].pc \in {"planning", "followUp"}
    BY <2>1 DEF Planning
  <2>3. CASE c \in calls /\ c.plan /\ c.r = q
    <3>1. c \in PlanCalls(q)
      BY <2>3 DEF PlanCalls
    <3>2. obs[q] = 1 => PlanCalls(q) = {c} /\ pending[q] # "plan" /\ ~ Planning(q)
      BY <1>0, <3>1 DEF PlannerOf
    <3>3. obs[q] = 1 => \A d \in PlanCalls(q)' : d = [c EXCEPT !.k = "launch"]
      BY <2>1, <3>2 DEF PlanCalls
    <3>4. worker'[q].pc \in {"planning", "followUp"} => obs[q] = 1
      BY <1>0, <2>2 DEF PlannerOf
    <3> QED
      BY <1>1, <2>1, <2>2, <3>1, <3>2, <3>3, <3>4, PlannerMoves
  <2>4. CASE ~ (c \in calls /\ c.plan /\ c.r = q)
    <3>1. \A d \in calls' : d.plan /\ d.r = q => d \in calls
      BY <2>1, <2>4
    <3>2. worker'[q].pc \in {"planning", "followUp"} => obs[q] = 1
      BY <1>0, <2>2 DEF PlannerOf
    <3> QED
      BY <1>1, <2>1, <2>2, <3>1, <3>2, PlannersShrink
  <2> QED
    BY <2>3, <2>4
<1> QED
  BY <1>2, <1>3, ScheduleReturns

\* A launch turns a call into a worker or a queued rerun, or drops it.
LEMMA LaunchPlanner ==
    ASSUME CommandInv, NEW c \in calls, Launch(c), NEW q \in Runs
    PROVE  PlannerOf(q)'
<1>0. TypeOK /\ PlannerOf(q) /\ c.r \in Runs /\ c.plan \in BOOLEAN
  BY SchedFacts DEF CommandInv, OnePlanner
<1>1. UNCHANGED <<cmd, obs>> /\ calls' = calls \ {c}
  BY DEF Launch
<1>2. \/ UNCHANGED <<worker, pending>>
      \/ /\ worker' = worker
         /\ pending' = [pending EXCEPT ![c.r] = IF c.plan \/ pending[c.r] = "plan" THEN "plan" ELSE "skip"]
      \/ /\ ~ HasWorker(c.r) /\ pending' = pending
         /\ worker' = [worker EXCEPT ![c.r] = [NoWorker EXCEPT !.pc = "process", !.plan = c.plan]]
  BY DEF Launch
<1>3. [NoWorker EXCEPT !.pc = "process", !.plan = c.plan].pc = "process"
      /\ [NoWorker EXCEPT !.pc = "process", !.plan = c.plan].plan = c.plan
  BY DEF NoWorker
<1>4. CASE c.r # q \/ ~ c.plan
  <2>1. pending'[q] = "plan" => pending[q] = "plan"
    BY <1>0, <1>2, <1>4 DEF TypeOK
  <2>2. worker'[q] = worker[q] \/ (worker'[q].pc = "process" /\ worker'[q].plan = c.plan /\ ~ c.plan)
    BY <1>0, <1>2, <1>3, <1>4 DEF TypeOK
  <2>3. /\ Planning(q)' => Planning(q)
        /\ worker'[q].pc \in {"planning", "followUp"} => obs[q] = 1
    BY <1>0, <2>2 DEF Planning, PlannerOf
  <2> QED
    BY <1>1, <2>1, <2>3, PlannersShrink
<1>5. CASE c.r = q /\ c.plan
  <2>1. c \in PlanCalls(q)
    BY <1>5 DEF PlanCalls
  <2>2. obs[q] = 1 => PlanCalls(q) = {c} /\ pending[q] # "plan" /\ ~ Planning(q)
    BY <1>0, <2>1 DEF PlannerOf
  <2>3. obs[q] = 1 => PlanCalls(q)' = {}
    BY <1>1, <2>2 DEF PlanCalls
  <2>4. pending'[q] = "plan" /\ obs[q] = 1 => worker'[q] = worker[q]
    BY <1>0, <1>2, <1>5, <2>2 DEF TypeOK
  <2>5. pending'[q] = "plan" /\ obs[q] = 1 => ~ Planning(q)'
    BY <2>2, <2>4 DEF Planning
  <2>6. worker'[q] = worker[q] \/ worker'[q].pc = "process"
    BY <1>0, <1>2, <1>3, <1>5 DEF TypeOK
  <2>7. worker'[q].pc \in {"planning", "followUp"} => obs[q] = 1
    BY <1>0, <2>6 DEF PlannerOf
  <2> QED
    BY <1>1, <2>1, <2>3, <2>5, <2>7, PlannerMoves
<1> QED
  BY <1>4, <1>5

\* A worker plans only while it reads, asks and queues the follow-up.
LEMMA WorkerPlanner ==
    ASSUME CommandInv, NEW r \in Runs, WorkerStep(r), NEW q \in Runs
    PROVE  PlannerOf(q)'
<1>0. TypeOK /\ PlannerOf(q) /\ PlannerOf(r) /\ worker[r] \in Workers
  BY DEF CommandInv, OnePlanner, TypeOK
<1>1. ASSUME NEW pc, To(r, pc)
      PROVE  worker'[r].pc = pc
  BY <1>0, <1>1 DEF To, TypeOK, Workers
<1>2. obs' = obs
  BY DEF WorkerStep, WorkerInterrupted, WorkerFails, WorkerRead, WorkerPlan, WorkerFollowUp, WorkerReceipt,
         WorkerEvaluate, WorkerComplete, WorkerError, FailCapturedRunReasoning, FailRun,
         FailQueuedAfterReasoningFailure, WorkerRetire, Staged
<1>3. CASE q # r
  <2>1. worker'[q] = worker[q]
    BY <1>0, <1>3 DEF WorkerStep, WorkerInterrupted, WorkerFails, WorkerRead, WorkerPlan, WorkerFollowUp, WorkerReceipt,
                WorkerEvaluate, WorkerComplete, WorkerError, FailCapturedRunReasoning, FailRun, AfterFailure,
                FailQueuedAfterReasoningFailure, WorkerRetire, To, TypeOK
  <2>2. \A d \in calls' : d \in calls \/ d.r = r
    BY DEF WorkerStep, WorkerInterrupted, WorkerFails, WorkerRead, WorkerPlan, WorkerFollowUp, WorkerReceipt,
           WorkerEvaluate, WorkerComplete, WorkerError, FailCapturedRunReasoning, FailRun,
           FailQueuedAfterReasoningFailure, WorkerRetire, OnlyWorker, Call
  <2>3. pending'[q] = pending[q]
    BY <1>0, <1>3 DEF WorkerStep, WorkerInterrupted, WorkerFails, WorkerRead, WorkerPlan, WorkerFollowUp, WorkerReceipt,
           WorkerEvaluate, WorkerComplete, WorkerError, FailCapturedRunReasoning, FailRun,
           FailQueuedAfterReasoningFailure, WorkerRetire, OnlyWorker, TypeOK
  <2>4. cmd' = cmd \/ cmd' = [cmd EXCEPT ![<<r, 2>>] = "queued"]
    BY DEF WorkerStep, WorkerInterrupted, WorkerFails, WorkerRead, WorkerPlan, WorkerFollowUp, WorkerReceipt,
           WorkerEvaluate, WorkerComplete, WorkerError, FailCapturedRunReasoning, FailRun,
           FailQueuedAfterReasoningFailure, WorkerRetire, Staged
  <2>5. cmd'[<<q, 2>>] = cmd[<<q, 2>>]
    BY <1>0, <1>3, <2>4, RunFacts DEF TypeOK
  <2>6. Planning(q)' => Planning(q)
    BY <2>1 DEF Planning
  <2>7. worker'[q].pc \in {"planning", "followUp"} => obs[q] = 1
    BY <1>0, <2>1 DEF PlannerOf
  <2>8. \A d \in calls' : d.plan /\ d.r = q => d \in calls
    BY <1>3, <2>2
  <2> QED
    BY <1>2, <2>3, <2>5, <2>6, <2>7, <2>8, PlannersShrink
<1>4. ASSUME q = r, UNCHANGED <<cmd, calls, pending>>,
             Planning(q)' => Planning(q), worker'[q].pc \in {"planning", "followUp"} => obs[q] = 1
      PROVE  PlannerOf(q)'
  BY <1>2, <1>4, PlannersShrink
<1>5. CASE q = r /\ (WorkerRead(r) \/ WorkerPlan(r))
  <2>1. PICK pc : /\ To(r, pc)
                  /\ pc \in {"planning", "followUp"} =>
                       \/ worker[r].pc = "planning"
                       \/ worker[r].pc = "process" /\ worker[r].plan /\ obs[r] = 1
                  /\ pc # "process"
    BY <1>5 DEF WorkerRead, WorkerPlan, Alive, At
  <2>2. UNCHANGED <<cmd, calls, pending>>
    BY <1>5 DEF WorkerRead, WorkerPlan, Staged, OnlyWorker
  <2>3. worker'[r].pc = pc
    BY <1>1, <2>1
  <2>4. Planning(q)' => Planning(q)
    BY <1>5, <2>1, <2>3 DEF Planning
  <2>5. worker'[q].pc \in {"planning", "followUp"} => obs[q] = 1
    BY <1>0, <1>5, <2>1, <2>3 DEF PlannerOf
  <2> QED
    BY <1>4, <1>5, <2>2, <2>4, <2>5
<1>6. CASE q = r /\ WorkerFollowUp(r)
  <2>1. worker[r].pc = "followUp" /\ UNCHANGED <<pending, calls>>
    BY <1>6 DEF WorkerFollowUp, Alive, At, OnlyWorker
  <2>2. obs[r] = 1 /\ PlanCalls(r) = {} /\ pending[r] # "plan"
    BY <1>0, <2>1 DEF PlannerOf, Planning
  <2>3. worker'[r].pc \in {"receipt", "error"}
    BY <1>1, <1>6 DEF WorkerFollowUp
  <2>4. PlanCalls(r)' = {} /\ ~ Planning(r)'
    BY <2>1, <2>2, <2>3 DEF PlanCalls, Planning
  <2> QED
    BY <1>2, <1>6, <2>1, <2>2, <2>3, <2>4 DEF PlannerOf
<1>7. CASE q = r /\ WorkerRetire(r)
  <2> DEFINE new == Call("launch", r, pending[r] = "plan", FALSE, FALSE)
  <2>1. /\ worker[r].pc = "retire" /\ worker'[r].pc = "none" /\ pending'[r] = "none" /\ cmd' = cmd
        /\ \A d \in calls' : d \in calls \/ d = new
    BY <1>0, <1>7, NoWorkerType DEF WorkerRetire, At, TypeOK
  <2>2. ~ Planning(r)' /\ worker'[r].pc \notin {"planning", "followUp"}
    BY <2>1 DEF Planning
  <2>3. new.plan = (pending[r] = "plan")
    BY DEF Call
  <2>4. CASE pending[r] # "plan"
    <3>1. \A d \in calls' : d.plan /\ d.r = q => d \in calls
      BY <2>1, <2>3, <2>4
    <3> QED
      BY <1>2, <1>7, <2>1, <2>2, <3>1, PlannersShrink
  <2>5. CASE pending[r] = "plan"
    <3>1. obs[r] = 1 => PlanCalls(r) = {}
      BY <1>0, <2>5 DEF PlannerOf
    <3>2. obs[r] = 1 => \A d \in PlanCalls(r)' : d = new
      BY <2>1, <3>1 DEF PlanCalls
    <3> HIDE DEF new
    <3> QED
      BY <1>2, <1>7, <2>1, <2>2, <2>5, <3>2, PlannerMoves
  <2> QED
    BY <2>4, <2>5
<1>8. CASE q = r /\ ~ (WorkerRead(r) \/ WorkerPlan(r) \/ WorkerFollowUp(r) \/ WorkerRetire(r))
  <2>1. UNCHANGED <<cmd, calls, pending>>
    BY <1>8 DEF WorkerStep, WorkerInterrupted, WorkerFails, WorkerReceipt, WorkerEvaluate, WorkerComplete, WorkerError,
                FailCapturedRunReasoning, FailRun, FailQueuedAfterReasoningFailure, OnlyWorker, Staged
  <2>2. worker'[r].pc \notin {"process", "planning", "followUp"}
    <3>1. CASE WorkerFails(r)
      BY <1>0, <3>1 DEF WorkerFails, TypeOK, Workers
    <3>2. CASE WorkerReceipt(r)
      BY <1>0, <3>2 DEF WorkerReceipt, TypeOK, Workers
    <3>3. CASE WorkerError(r)
      BY <1>1, <3>3 DEF WorkerError
    <3>4. CASE WorkerInterrupted(r) \/ WorkerEvaluate(r) \/ WorkerComplete(r)
      BY <1>1, <3>4 DEF WorkerInterrupted, WorkerEvaluate, WorkerComplete
    <3>5. CASE FailCapturedRunReasoning(r) \/ FailRun(r) \/ FailQueuedAfterReasoningFailure(r)
      BY <1>1, <3>5 DEF FailCapturedRunReasoning, FailRun, FailQueuedAfterReasoningFailure, AfterFailure
    <3> QED
      BY <1>8, <3>1, <3>2, <3>3, <3>4, <3>5 DEF WorkerStep
  <2> QED
    BY <1>4, <1>8, <2>1, <2>2 DEF Planning
<1> QED
  BY <1>3, <1>5, <1>6, <1>7, <1>8

\* An accepted observation is the only thing that brings a planner into being.
LEMMA AcceptPlanner ==
    ASSUME CommandInv, NEW r \in Runs, NEW k \in {1, 2}, NEW plan \in BOOLEAN, AcceptObservation(r, k, plan),
           NEW q \in Runs
    PROVE  PlannerOf(q)'
<1>0. TypeOK /\ PlannerOf(q) /\ ObservationsCounted /\ obs[q] \in Nat
  BY DEF CommandInv, OnePlanner, TypeOK
<1>1. PICK kind \in {"next_launch", "launch"} : calls' = calls \cup {Call(kind, r, plan, TRUE, TRUE)}
  BY DEF AcceptObservation, SaveObservation
<1> DEFINE new == Call(kind, r, plan, TRUE, TRUE)
<1>2. new.r = r /\ UNCHANGED <<worker, pending>> /\ cmd[<<r, k>>] = "claimed"
      /\ cmd' = [cmd EXCEPT ![<<r, k>>] = "completed"] /\ obs' = [obs EXCEPT ![r] = @ + 1]
  BY DEF AcceptObservation, SaveObservation, Call
<1>3. CASE q # r
  <2>1. obs'[q] = obs[q]
    BY <1>0, <1>2, <1>3 DEF TypeOK
  <2>2. cmd'[<<q, 2>>] = cmd[<<q, 2>>]
    BY <1>0, <1>2, <1>3, RunFacts DEF TypeOK
  <2>3. \A d \in calls' : d.plan /\ d.r = q => d \in calls
    BY <1>1, <1>2, <1>3
  <2>4. /\ Planning(q)' => Planning(q)
        /\ worker'[q].pc \in {"planning", "followUp"} => obs[q] = 1
    BY <1>0, <1>2 DEF Planning, PlannerOf
  <2> QED
    BY <1>2, <2>1, <2>2, <2>3, <2>4, PlannersShrink
<1>4. CASE q = r /\ obs[q] = 0
  <2>1. /\ PlanCalls(q) = {} /\ pending[q] # "plan" /\ ~ Planning(q) /\ cmd[<<q, 2>>] = "none"
        /\ worker[q].pc \notin {"planning", "followUp"}
    BY <1>0, <1>4 DEF PlannerOf
  <2>2. k = 1 /\ obs'[q] = 1
    BY <1>0, <1>2, <1>4, <2>1 DEF TypeOK
  <2>3. cmd'[<<q, 2>>] = "none"
    BY <1>0, <1>2, <1>4, <2>1, <2>2, RunFacts DEF TypeOK
  <2>4. ~ Planning(q)'
    BY <1>2, <2>1 DEF Planning
  <2>5. \A d \in PlanCalls(q)' : d = new
    BY <1>1, <2>1 DEF PlanCalls
  <2> HIDE DEF new
  <2> QED
    BY <1>2, <2>1, <2>2, <2>3, <2>4, <2>5 DEF PlannerOf
<1>5. CASE q = r /\ obs[q] > 0
  <2>1. obs[q] = (IF cmd[<<q, 1>>] = "completed" THEN 1 ELSE 0) + (IF cmd[<<q, 2>>] = "completed" THEN 1 ELSE 0)
    BY <1>0 DEF ObservationsCounted
  <2>2. ~ (cmd[<<q, 1>>] = "completed" /\ cmd[<<q, 2>>] = "none")
    BY <1>2, <1>5
  <2>3. worker[q].pc \notin {"planning", "followUp"}
    <3>1. SUFFICES ASSUME worker[q].pc \in {"planning", "followUp"} PROVE FALSE
      OBVIOUS
    <3>2. obs[q] = 1 /\ cmd[<<q, 2>>] = "none"
      BY <1>0, <3>1 DEF PlannerOf, Planning
    <3> QED
      BY <2>1, <2>2, <3>2
  <2>4. obs'[q] # 0 /\ obs'[q] # 1
    BY <1>0, <1>2, <1>5 DEF TypeOK
  <2> QED
    BY <1>2, <2>3, <2>4 DEF PlannerOf
<1> QED
  BY <1>0, <1>3, <1>4, <1>5

\* Planners stay in order.
LEMMA PlannerStep ==
    ASSUME CommandInv, Next
    PROVE  OnePlanner'
<1> SUFFICES ASSUME NEW q \in Runs PROVE PlannerOf(q)'
  BY DEF OnePlanner
<1>0. TypeOK /\ PlannerOf(q)
  BY DEF CommandInv, OnePlanner
<1>1. ASSUME obs' = obs, cmd[<<q, 2>>] = "none" => cmd'[<<q, 2>>] = "none", pending' = pending \/ pending'[q] = "none",
             \A d \in calls' : d \in calls \/ d.plan = FALSE,
             \/ worker'[q] = worker[q]
             \/ worker'[q] = NoWorker
             \/ worker'[q] = [worker[q] EXCEPT !.dead = TRUE]
      PROVE  PlannerOf(q)'
  <2>1. worker[q] \in Workers
    BY <1>0 DEF TypeOK
  <2>2. worker'[q].pc = "none" \/ (worker'[q].pc = worker[q].pc /\ worker'[q].plan = worker[q].plan)
    BY <1>1, <2>1, NoWorkerType DEF Workers
  <2>3. /\ Planning(q)' => Planning(q)
        /\ worker'[q].pc \in {"planning", "followUp"} => obs[q] = 1
    BY <1>0, <2>2 DEF Planning, PlannerOf
  <2> QED
    BY <1>1, <2>3, PlannersShrink
<1>2. ASSUME \E s \in Sessions : CreateSession(s)
      PROVE  PlannerOf(q)'
  <2>1. UNCHANGED <<cmd, obs, worker, pending>>
    BY <1>2 DEF CreateSession
  <2>2. \A d \in calls' : d \in calls \/ d.plan = FALSE
    BY <1>2 DEF CreateSession, Call
  <2> QED
    BY <1>1, <2>1, <2>2
<1>3. ASSUME NEW r \in Runs, RetryFailedRun(r)
      PROVE  PlannerOf(q)'
  <2>1. UNCHANGED <<cmd, obs, worker, pending>>
    BY <1>3 DEF RetryFailedRun
  <2>2. \A d \in calls' : d \in calls \/ d.plan = FALSE
    BY <1>3 DEF RetryFailedRun, Call
  <2> QED
    BY <1>1, <2>1, <2>2
<1>4. ASSUME NEW r \in Runs, NEW k \in {1, 2}, ClaimCommand(r, k)
      PROVE  PlannerOf(q)'
  <2>1. cmd[<<q, 2>>] = "none" => cmd'[<<q, 2>>] = "none"
    BY <1>0, <1>4, RunFacts DEF ClaimCommand, TypeOK
  <2> QED
    BY <1>1, <1>4, <2>1 DEF ClaimCommand
<1>5. ASSUME NEW r \in Runs, NEW k \in {1, 2}, cmd[<<r, k>>] \in OpenCommand, NEW challenge, NEW http,
             FailedCommand(r, k, challenge, http)
      PROVE  PlannerOf(q)'
  <2>1. cmd[<<q, 2>>] = "none" => cmd'[<<q, 2>>] = "none"
    BY <1>5, RunFacts DEF FailedCommand, FailCommandTx, OpenCommand
  <2>2. UNCHANGED <<obs, worker, pending>>
    BY <1>5 DEF FailedCommand, FailCommandTx
  <2>3. \A d \in calls' : d \in calls \/ d.plan = FALSE
    BY <1>5 DEF FailedCommand, Call
  <2> QED
    BY <1>1, <2>1, <2>2, <2>3
<1>6. ASSUME NEW r \in Runs, NEW k \in {1, 2}, Bridge(r, k)
      PROVE  PlannerOf(q)'
  <2>1. ASSUME NEW challenge, FailCommand(r, k, challenge)
        PROVE  PlannerOf(q)'
    <3>1. cmd[<<r, k>>] \in OpenCommand
      BY <2>1 DEF FailCommand, OpenCommand
    <3>2. FailedCommand(r, k, challenge, TRUE)
      BY <2>1 DEF FailCommand
    <3> QED
      BY <1>5, <3>1, <3>2
  <2>2. CASE ExpireCommand(r, k)
    BY <1>5, <2>2 DEF ExpireCommand
  <2> QED
    BY <1>4, <1>6, <2>1, <2>2, AcceptPlanner DEF Bridge
<1>7. ASSUME NEW s \in Sessions, CancelSession(s)
      PROVE  PlannerOf(q)'
  <2>1. UNCHANGED <<obs, cmd>> /\ \A d \in calls' : d \in calls \/ d.plan = FALSE
    BY <1>7 DEF CancelSession, Call
  <2>2. pending'[q] = "none" \/ pending'[q] = pending[q]
    BY <1>7 DEF CancelSession
  <2>3. worker'[q] = worker[q] \/ worker'[q] = [worker[q] EXCEPT !.dead = TRUE]
    BY <1>7 DEF CancelSession
  <2>4. worker'[q].pc = worker[q].pc /\ worker'[q].plan = worker[q].plan
    BY <1>0, <2>3 DEF TypeOK, Workers
  <2>5. /\ Planning(q)' => Planning(q)
        /\ worker'[q].pc \in {"planning", "followUp"} => obs[q] = 1
    BY <1>0, <2>4 DEF Planning, PlannerOf
  <2> QED
    BY <2>1, <2>2, <2>5, PlannersShrink
<1>8. CASE Shutdown
  BY <1>1, <1>8 DEF Shutdown
<1>9. CASE Restart
  <2>1. UNCHANGED <<cmd, obs>> /\ worker'[q] = NoWorker /\ pending'[q] = "none"
    BY <1>9 DEF Restart, ResumePendingReasoning
  <2>2. \A d \in calls' : d.plan = FALSE
    BY <1>9 DEF Restart, ResumePendingReasoning, Call
  <2> QED
    BY <1>1, <2>1, <2>2
<1>10. CASE ConfirmXCaptureRecovery
  BY <1>1, <1>10 DEF ConfirmXCaptureRecovery
<1>11. ASSUME NEW c \in calls, CancelStored(c) \/ Disconnect(c)
       PROVE  PlannerOf(q)'
  <2>1. cmd[<<q, 2>>] = "none" => cmd'[<<q, 2>>] = "none"
    BY <1>11, RunFacts DEF CancelStored, CancelTx, Disconnect, OpenCommand
  <2> QED
    BY <1>1, <1>11, <2>1 DEF CancelStored, CancelTx, Disconnect
<1>12. CASE \E s \in Sessions : CancelSession(s) \/ CreateSession(s)
  BY <1>2, <1>7, <1>12
<1>13. CASE \E c \in calls : Launch(c) \/ CancelStored(c) \/ Disconnect(c)
  BY <1>11, <1>13, LaunchPlanner
<1>14. CASE \E r \in Runs : RetryFailedRun(r) \/ WorkerStep(r)
  BY <1>3, <1>14, WorkerPlanner
<1>15. CASE AdmissionReads
  BY <1>0, <1>1, <1>15, AdmissionOnly DEF OnlyAdmission
<1> QED
  BY <1>6, <1>8, <1>9, <1>10, <1>12, <1>13, <1>14, <1>15, SchedulePlanner DEF Next

-----------------------------------------------------------------------------
(* The inductive invariant and what follows from it.                        *)

\* CommandInv holds at first.
LEMMA CommandInit == Init => CommandInv
<1> SUFFICES ASSUME Init PROVE CommandInv
  OBVIOUS
<1>1. TypeOK
  <2>1. sess \in [Sessions -> SessionStatus] /\ wait \in [Sessions -> WaitModes]
    BY DEF Init, SessionStatus, WaitModes
  <2>2. run \in [Runs -> RunStatus] /\ stage \in [Runs -> Stages] /\ cmd \in [Commands -> CommandStatus]
    BY DEF Init, RunStatus, Stages, CommandStatus
  <2>3. worker \in [Runs -> Workers] /\ sched \in Scheds
    BY NoWorkerType, IdleType DEF Init
  <2>4. spent \in [{"cancels", "restarts", "retries", "disconnects"} -> Nat]
    BY DEF Init
  <2>5. /\ obs \in [Runs -> 0 .. 2] /\ composed \in [Sessions -> SUBSET Runs]
        /\ pending \in [Runs -> {"none", "plan", "skip"}] /\ calls \subseteq Calls
    BY DEF Init
  <2>6. /\ assessed \in [Runs -> BOOLEAN] /\ cancelled \in [Runs -> BOOLEAN]
        /\ xPaused \in BOOLEAN /\ shuttingDown \in BOOLEAN /\ admission \in Admissions
    BY NoAdmissionType DEF Init
  <2> QED
    BY <2>1, <2>2, <2>3, <2>4, <2>5, <2>6 DEF TypeOK
<1>2. IdleSched.pc = "idle"
  BY DEF IdleSched
<1>3. ObservationsCounted
  <2> DEFINE done(c) == IF cmd[c] = "completed" THEN 1 ELSE 0
  <2>1. SUFFICES ASSUME NEW r \in Runs PROVE obs[r] = done(<<r, 1>>) + done(<<r, 2>>)
    BY DEF ObservationsCounted
  <2>2. obs[r] = 0 /\ done(<<r, 1>>) = 0 /\ done(<<r, 2>>) = 0
    BY RunFacts DEF Init
  <2> HIDE DEF done
  <2> QED
    BY <2>2
<1>4. FreshRuns
  BY <1>2, RunFacts DEF Init, FreshRuns, RunsOf
<1>5. EvidenceLaunched /\ HolderWaits
  BY <1>2, NoWorkerType DEF Init, EvidenceLaunched, HolderWaits, HasWorker
<1>6. OnePlanner
  BY NoWorkerType, RunFacts DEF Init, OnePlanner, PlannerOf, PlanCalls, Planning
<1>7. OneClaimPerSession /\ PauseClearsX
  BY DEF Init, OneClaimPerSession, PauseClearsX
<1> QED
  BY <1>1, <1>3, <1>4, <1>5, <1>6, <1>7 DEF CommandInv

\* Every step keeps CommandInv.
LEMMA CommandStep == CommandInv /\ [Next]_vars => CommandInv'
<1> SUFFICES ASSUME CommandInv, [Next]_vars PROVE CommandInv'
  OBVIOUS
<1>1. CASE Next
  <2>1. TypeOK'
    BY <1>1, TypeStep DEF CommandInv
  <2> QED
    BY <1>1, <2>1, ObservationsStep, FreshStep, EvidenceStep, HolderStep, PlannerStep, ClaimStep, PauseStep
       DEF CommandInv
<1>2. CASE UNCHANGED vars
  BY <1>2 DEF vars, CommandInv, TypeOK, ObservationsCounted, FreshRuns, EvidenceLaunched, HolderWaits, Callers,
              HasWorker, OnePlanner, PlannerOf, PlanCalls, Planning, OneClaimPerSession, PauseClearsX
<1> QED
  BY <1>1, <1>2

\* The discipline of the bridge commands holds in every reachable state.
THEOREM CommandDiscipline == Spec => []CommandInv
BY CommandInit, CommandStep, PTL DEF Spec

\* Every variable keeps its type; a run has at most one observation per round.
THEOREM TypeCorrect == Spec => []TypeOK
<1>1. CommandInv => TypeOK
  BY DEF CommandInv
<1> QED
  BY <1>1, CommandDiscipline, PTL

\* The bridge works on one command of a session at a time
\* (claimCommandWithBehavior), whatever is cancelled, restarted or retried.
THEOREM OneClaim == Spec => []OneClaimPerSession
<1>1. CommandInv => OneClaimPerSession
  BY DEF CommandInv
<1> QED
  BY <1>1, CommandDiscipline, PTL

\* While X is paused no command of X is open and no run of X waits for the bridge
\* (pauseXCaptureTx and the checks of requireSourceCaptureAllowed), also beside a
\* session that was admitted with its sources chosen before the pause.
THEOREM PausedX == Spec => []PauseClearsX
<1>1. CommandInv => PauseClearsX
  BY DEF CommandInv
<1> QED
  BY <1>1, CommandDiscipline, PTL

\* Launches, reruns, resumption, re-evaluation and fallbacks together ask for
\* at most one follow-up of a run.
THEOREM SinglePlanner == Spec => []OnePlanner
<1>1. CommandInv => OnePlanner
  BY DEF CommandInv
<1> QED
  BY <1>1, CommandDiscipline, PTL

\* Outstanding work is terminated, not recycled: a settled command is final.
THEOREM SettledCommandsStay == Spec => CommandsAreNotRecycled
<1>1. CommandInv /\ [Next]_vars =>
        [\A c \in Commands : cmd[c] \notin OpenCommand \cup {"none"} => cmd'[c] = cmd[c]]_vars
  BY RecycleStep
<1> QED
  BY <1>1, CommandDiscipline, PTL DEF Spec, CommandsAreNotRecycled

-----------------------------------------------------------------------------
(* The order of a session that nobody cancels.  OrderInv is inductive beside *)
(* CommandInv; a cancellation is excluded because the code does break the    *)
(* order then (CancelSession and a startNext under way overtake each other). *)

\* The launches that are on their way to a run, and the callers who only want
\* the next source of a session started.
Launches(r)  == {c \in calls : c.k \in {"launch", "next_launch"} /\ c.r = r}
NextCalls(s) == {c \in calls : c.k = "next" /\ c.r[1] = s}

\* A worker that may still write the result of its run, or fail it.
Working(r) ==
    \/ worker[r].pc \in {"process", "planning", "followUp", "evaluate", "empty", "complete", "failCaptured"}
    \/ worker[r].pc = "error" /\ ~ worker[r].dead /\ run[r] # "completed"

\* The turn of a session is with a run that is open or whose worker is about to
\* call startNext.
Busy(r) ==
    \/ run[r] \in OpenRun
    \/ worker[r].pc \in {"advance", "failRun", "stopPeers", "advanceAfter"}
    \/ worker[r].pc = "error" /\ ~ worker[r].dead

\* A source of the session is still to be started.
Unstarted(s) ==
    \/ \E r \in RunsOf(s) : run[r] = "queued"
    \/ sched.pc = "start" /\ sched.by.r[1] = s

\* Nothing was cancelled: only a shutdown takes a worker's context away.
Uncancelled ==
    /\ \A c \in calls : c.k # "cancel" /\ sess[c.r[1]] # "absent"
    /\ \A s \in Sessions : sess[s] # "cancelled"
    /\ \A r \in Runs : run[r] # "cancelled" /\ ~ cancelled[r] /\ (worker[r].dead => shuttingDown)

\* Unfinished runs belong to active sessions.
RunsHaveSession ==
    \A r \in Runs : /\ run[r] \in OpenRun => sess[r[1]] = "running"
                    /\ run[r] = "queued" => sess[r[1]] \in ActiveSession

\* What the holder of the mutex has read is still so.
HolderInv ==
    LET s == sched.by.r[1]
    IN /\ sched.pc # "idle" => sess[s] \in ActiveSession
       /\ sched.pc # "idle" /\ sched.settled => Settled(s)
       /\ sched.pc \in {"compose", "finalizing", "publish", "write"} => sched.settled
       /\ sched.pc \in {"finalizing", "publish", "write"} => composed[s] = CompletedRuns(s)
       /\ sched.pc = "start" => /\ obs[sched.r] = 0 /\ run[sched.r] \in {"queued", "failed"}
                                /\ sched.r[1] = s /\ ~ sched.settled
       /\ sched.pc = "write" => sched.status \in Published

\* A published session has settled, with what it completed on the Timeline.
PublishedRuns ==
    \A s \in Sessions : sess[s] \in Published =>
        Settled(s) /\ (sess[s] # "failed" => composed[s] = CompletedRuns(s))

\* One of a launch, a queued rerun and a worker has the accepted evidence of a
\* run in its hands, and only while the run is in reasoning.
TokenOf(r) ==
    /\ \A c, d \in Launches(r) : c = d
    /\ Launches(r) # {} => run[r] = "reasoning" /\ pending[r] = "none"
    /\ pending[r] # "none" => run[r] = "reasoning"
    /\ Working(r) => run[r] = "reasoning" /\ pending[r] = "none" /\ Launches(r) = {}
    /\ worker[r].pc \in {"advance", "failRun"} => run[r] = "completed"
    /\ run[r] = "waiting_for_bridge" =>
          \/ worker[r].pc \in {"none", "receipt", "retire"}
          \/ worker[r].pc = "error" /\ worker[r].dead

\* The rows of a run and what is in memory of it.
RowOf(r) ==
    /\ TokenOf(r)
    /\ \A k \in {1, 2} : cmd[<<r, k>>] \in OpenCommand => run[r] = "waiting_for_bridge"
    /\ assessed[r] => run[r] = "completed" /\ obs[r] > 0

\* While a source is still to be started in full_wait, the turn is with one run
\* or with one caller of startNext.
TurnOf(s) == wait[s] = "full_wait" =>
    /\ \A c \in calls : c.k = "next_launch" => c.r[1] # s
    /\ Unstarted(s) =>
        /\ \A c, d \in NextCalls(s) : c = d
        /\ \A q, r \in RunsOf(s) : Busy(q) /\ Busy(r) => q = r
        /\ NextCalls(s) # {} => \A r \in RunsOf(s) : ~ Busy(r)
        /\ \A r \in RunsOf(s) : worker[r].pc \in {"stopPeers", "advanceAfter"} => run[r] \notin OpenRun

\* While an admission goes on behind its look at the sessions, none is active.
AdmittedAlone == admission.pc \in {"insert", "retry"} => NoActiveSession

OrderInv ==
    /\ Uncancelled /\ RunsHaveSession /\ HolderInv /\ PublishedRuns /\ FullWaitSerial
    /\ \A r \in Runs : RowOf(r)
    /\ \A s \in Sessions : TurnOf(s)

\* Moving a worker changes nothing else of it, and no other.
LEMMA WorkerMoves ==
    ASSUME TypeOK, NEW r \in Runs, NEW pc, To(r, pc)
    PROVE  /\ worker'[r].pc = pc /\ worker'[r].dead = worker[r].dead
           /\ \A q \in Runs : q # r => worker'[q] = worker[q]
<1>1. worker[r] \in Workers
  BY DEF TypeOK
<1> QED
  BY <1>1 DEF To, TypeOK, Workers

\* What the property is about follows from the invariant.
LEMMA OrderImplies ==
    ASSUME OrderInv
    PROVE  RunsInOrder /\ WholePublication /\ SettledSession
<1>1. CommandNeedsRun
  <2>1. SUFFICES ASSUME NEW c \in Commands, cmd[c] \in OpenCommand
                 PROVE  run[c[1]] = "waiting_for_bridge" /\ sess[c[1][1]] = "running"
    BY DEF CommandNeedsRun
  <2>2. c[1] \in Runs /\ c[2] \in {1, 2} /\ c = <<c[1], c[2]>>
    BY RunFacts
  <2>3. run[c[1]] = "waiting_for_bridge"
    BY <2>1, <2>2 DEF OrderInv, RowOf
  <2> QED
    BY <2>2, <2>3 DEF OrderInv, RunsHaveSession, OpenRun
<1>2. AssessedRunsCompleted /\ FullWaitSerial
  BY DEF OrderInv, RowOf, AssessedRunsCompleted
<1>3. WholePublication
  <2>1. FinalizationBarrier
    BY DEF OrderInv, HolderInv, FinalizationBarrier
  <2>2. PublishedComposition
    BY DEF OrderInv, PublishedRuns, PublishedComposition, Published
  <2> QED
    BY <2>1, <2>2 DEF WholePublication
<1>4. SettledSession
  <2>1. SUFFICES ASSUME NEW s \in Sessions, sess[s] \in Published \cup {"cancelled"}
                 PROVE  Settled(s) /\ \A r \in RunsOf(s), k \in {1, 2} : cmd[<<r, k>>] \notin OpenCommand
    BY DEF SettledSession
  <2>2. sess[s] \in Published
    BY <2>1 DEF OrderInv, Uncancelled
  <2>3. Settled(s)
    BY <2>2 DEF OrderInv, PublishedRuns
  <2>4. \A r \in RunsOf(s) : r \in Runs /\ run[r] # "waiting_for_bridge"
    BY <2>3 DEF Settled, RunsOf, TerminalRun
  <2> QED
    BY <2>3, <2>4 DEF OrderInv, RowOf
<1> QED
  BY <1>1, <1>2, <1>3, <1>4 DEF RunsInOrder

\* A run keeps its row when its status stays and nothing is added to it.
LEMMA RowKept ==
    ASSUME NEW q \in Runs, RowOf(q), run'[q] = run[q], assessed'[q] = assessed[q],
           obs[q] > 0 => obs'[q] > 0,
           \A k \in {1, 2} : cmd'[<<q, k>>] \in OpenCommand => cmd[<<q, k>>] \in OpenCommand,
           pending'[q] = pending[q] \/ pending'[q] = "none",
           \A c \in calls' : c.k \in {"launch", "next_launch"} /\ c.r = q => c \in calls,
           worker'[q].pc = "none" \/ (worker'[q].pc = worker[q].pc /\ (worker[q].dead => worker'[q].dead))
    PROVE  RowOf(q)'
<1>1. Launches(q)' \subseteq Launches(q)
  BY DEF Launches
<1>2. Working(q)' => Working(q)
  BY DEF Working
<1>3. TokenOf(q)'
  BY <1>1, <1>2 DEF TokenOf, RowOf
<1> QED
  BY <1>3 DEF RowOf

\* A session keeps its turn when nobody is added to it.
LEMMA TurnKept ==
    ASSUME NEW s \in Sessions, TurnOf(s), wait'[s] = wait[s],
           \A c \in calls' : wait[s] = "full_wait" /\ c.k = "next_launch" /\ c.r[1] = s => c \in calls,
           Unstarted(s)' => Unstarted(s),
           \A c \in calls' : c.k = "next" /\ c.r[1] = s => c \in calls,
           \A r \in RunsOf(s) : Busy(r)' => Busy(r),
           \A r \in RunsOf(s) : worker'[r].pc \in {"stopPeers", "advanceAfter"} /\ run'[r] \in OpenRun =>
                                worker[r].pc \in {"stopPeers", "advanceAfter"} /\ run[r] \in OpenRun
    PROVE  TurnOf(s)'
<1>1. NextCalls(s)' \subseteq NextCalls(s)
  BY DEF NextCalls
<1>2. RunsOf(s)' = RunsOf(s)
  BY DEF RunsOf
<1> QED
  BY <1>1, <1>2 DEF TurnOf

\* A step that moves open runs only, or ends queued ones, and lets the mutex be
\* or frees it.
FlowOf(q) ==
    /\ \/ run'[q] = run[q]
       \/ run[q] \in OpenRun /\ run'[q] \in OpenRun \cup {"completed", "failed"}
       \/ run[q] = "queued" /\ run'[q] = "failed"
    /\ obs'[q] = obs[q] \/ run[q] \in OpenRun
Flow ==
    /\ UNCHANGED <<sess, wait, composed>>
    /\ sched' = sched \/ sched' = IdleSched
    /\ \A q \in Runs : FlowOf(q)

\* A settled session stays as it is in such a step.
LEMMA FlowSettled ==
    ASSUME Flow, NEW s \in Sessions, Settled(s)
    PROVE  Settled(s)' /\ CompletedRuns(s)' = CompletedRuns(s)
<1>1. ASSUME NEW q \in RunsOf(s) PROVE run'[q] = run[q]
  BY <1>1 DEF Flow, FlowOf, Settled, TerminalRun, OpenRun, RunsOf
<1> QED
  BY <1>1 DEF Settled, CompletedRuns, RunsOf

\* What such a step keeps of the sessions and the mutex.
LEMMA FlowKeeps ==
    ASSUME TypeOK, OrderInv, Flow
    PROVE  RunsHaveSession' /\ HolderInv' /\ PublishedRuns' /\ FullWaitSerial'
<1>1. IdleSched.pc = "idle"
  BY DEF IdleSched
<1>2. RunsHaveSession'
  BY DEF OrderInv, RunsHaveSession, Flow, FlowOf, OpenRun, ActiveSession
<1>3. HolderInv'
  <2>1. CASE sched' = IdleSched
    BY <1>1, <2>1 DEF HolderInv
  <2>2. CASE sched' = sched
    <3>1. PICK s \in Sessions : s = sched.by.r[1] /\ sched.r \in Runs
      BY SchedFacts
    <3>2. HolderInv
      BY DEF OrderInv
    <3>3. sched.pc # "idle" => sess'[s] \in ActiveSession
      BY <3>1, <3>2 DEF Flow, HolderInv
    <3>4. sched.pc # "idle" /\ sched.settled => Settled(s)' /\ CompletedRuns(s)' = CompletedRuns(s)
      BY <3>1, <3>2, FlowSettled DEF HolderInv
    <3>5. sched.pc \in {"finalizing", "publish", "write"} => composed'[s] = CompletedRuns(s)'
      BY <3>1, <3>2, <3>4 DEF Flow, HolderInv
    <3>6. sched.pc = "start" => obs'[sched.r] = 0 /\ run'[sched.r] \in {"queued", "failed"}
      BY <3>1, <3>2 DEF Flow, FlowOf, HolderInv, OpenRun
    <3> QED
      BY <2>2, <3>1, <3>2, <3>3, <3>4, <3>5, <3>6 DEF HolderInv
  <2> QED
    BY <2>1, <2>2 DEF Flow
<1>4. PublishedRuns'
  <2>1. SUFFICES ASSUME NEW s \in Sessions, sess'[s] \in Published
                 PROVE  Settled(s)' /\ (sess'[s] # "failed" => composed'[s] = CompletedRuns(s)')
    BY DEF PublishedRuns
  <2>2. sess'[s] = sess[s] /\ composed'[s] = composed[s]
    BY DEF Flow
  <2>3. Settled(s) /\ (sess[s] # "failed" => composed[s] = CompletedRuns(s))
    BY <2>1, <2>2 DEF OrderInv, PublishedRuns
  <2> QED
    BY <2>2, <2>3, FlowSettled
<1>5. FullWaitSerial'
  <2>1. \A q \in Runs : run'[q] \in OpenRun => run[q] \in OpenRun
    BY DEF Flow, FlowOf, OpenRun
  <2> QED
    BY <2>1 DEF OrderInv, FullWaitSerial, Flow
<1> QED
  BY <1>2, <1>3, <1>4, <1>5

\* Nobody new starts a source in such a step.
LEMMA FlowUnstarted ==
    ASSUME Flow, NEW s \in Sessions
    PROVE  Unstarted(s)' => Unstarted(s)
<1>1. IdleSched.pc = "idle"
  BY DEF IdleSched
<1>2. \A r \in Runs : run'[r] = "queued" => run[r] = "queued"
  BY DEF Flow, FlowOf, OpenRun
<1> QED
  BY <1>1, <1>2 DEF Flow, Unstarted, RunsOf

\* Calls that are of sessions that exist, and no cancellation among them.
LEMMA CallsKept ==
    ASSUME OrderInv, TypeOK, UNCHANGED cancelled,
           \A s \in Sessions : (sess'[s] = "absent" => sess[s] = "absent") /\ sess'[s] # "cancelled",
           \A r \in Runs : run'[r] # "cancelled" /\ (worker'[r].dead => shuttingDown'),
           \A c \in calls' : c \in calls \/ (c.k # "cancel" /\ sess[c.r[1]] # "absent" /\ c.r \in Runs)
    PROVE  Uncancelled'
<1>1. \A c \in calls : c.r \in Runs /\ c.k # "cancel" /\ sess[c.r[1]] # "absent"
  BY SchedFacts DEF OrderInv, Uncancelled
<1>2. \A c \in calls' : c.r[1] \in Sessions /\ c.k # "cancel" /\ sess[c.r[1]] # "absent"
  BY <1>1, RunFacts
<1> QED
  BY <1>2 DEF OrderInv, Uncancelled

\* Only the holder of the mutex moves.
LEMMA OnlyHolder ==
    ASSUME OrderInv, UNCHANGED <<durable, memory, calls>>, HolderInv',
           sched'.pc = "start" => \E r \in RunsOf(sched'.by.r[1]) : run[r] = "queued"
    PROVE  OrderInv'
<1>1. ASSUME NEW r \in Runs PROVE RowOf(r)'
  <2>1. RowOf(r)
    BY DEF OrderInv
  <2> QED
    BY <2>1, RowKept
<1>2. ASSUME NEW s \in Sessions PROVE TurnOf(s)'
  <2>1. TurnOf(s)
    BY DEF OrderInv
  <2>2. Unstarted(s)' => Unstarted(s)
    BY DEF Unstarted, RunsOf
  <2>3. \A r \in RunsOf(s) : Busy(r)' => Busy(r)
    BY DEF Busy
  <2> QED
    BY <2>1, <2>2, <2>3, TurnKept
<1>3. Uncancelled' /\ RunsHaveSession' /\ PublishedRuns' /\ FullWaitSerial'
  BY DEF OrderInv, Uncancelled, RunsHaveSession, PublishedRuns, FullWaitSerial, Settled, CompletedRuns, RunsOf
<1> QED
  BY <1>1, <1>2, <1>3 DEF OrderInv

\* What a returning startNext leaves of the workers: its own caller, if it is
\* one, is done with the call or takes its refusal as an error.
LEMMA ReturnWorker ==
    ASSUME TypeOK, NEW c \in Callers, NEW ok, Return(c, ok), NEW q \in Runs
    PROVE  \/ worker'[q] = worker[q] /\ c # WorkerCall(q)
           \/ /\ c = WorkerCall(q) /\ worker[q].pc \in {"advance", "advanceAfter"}
              /\ worker'[q].dead = worker[q].dead
              /\ worker'[q].pc = "retire" \/ (worker'[q].pc = "error" /\ worker[q].pc = "advance" /\ ~ ok)
<1>0. c \in Calls /\ c.r \in Runs /\ WorkerCall(q).k = "worker" /\ WorkerCall(q).r = q
  BY CallersType DEF WorkerCall, Call
<1>1. CASE c.k # "worker"
  BY <1>0, <1>1 DEF Return
<1>2. CASE c.k = "worker"
  <2>1. \A x \in calls : x.k \in {"next", "next_launch"} => x # c
    BY <1>2
  <2>2. PICK p \in Runs : worker[p].pc \in {"advance", "advanceAfter"} /\ c = WorkerCall(p)
    BY <2>1 DEF Callers
  <2>3. c.r = p
    BY <2>2 DEF WorkerCall, Call
  <2>4. q # p => worker'[q] = worker[q]
    BY <1>0, <1>2, <2>3 DEF Return, TypeOK
  <2>5. worker[p] \in Workers
    BY DEF TypeOK
  <2>6. /\ worker'[p].dead = worker[p].dead
        /\ worker'[p].pc = "retire" \/ (worker'[p].pc = "error" /\ worker[p].pc = "advance" /\ ~ ok)
    BY <1>0, <1>2, <2>2, <2>3, <2>5 DEF Return, TypeOK, Workers
  <2> QED
    BY <1>0, <2>2, <2>3, <2>4, <2>6
<1> QED
  BY <1>1, <1>2

\* A run whose rows stay keeps its evidence in one hand when startNext returns.
LEMMA ReturnRow ==
    ASSUME CommandInv, NEW c \in Callers, NEW ok, Return(c, ok), NEW q \in Runs, RowOf(q),
           run'[q] = run[q], assessed'[q] = assessed[q], obs'[q] = obs[q],
           \A k \in {1, 2} : cmd'[<<q, k>>] = cmd[<<q, k>>]
    PROVE  RowOf(q)'
<1>0. TypeOK
  BY DEF CommandInv
<1>1. /\ \A d \in Launches(q)' : \/ d \in Launches(q) /\ d # c
                                 \/ d = [c EXCEPT !.k = "launch"] /\ c \in Launches(q)
      /\ pending'[q] = pending[q]
  BY ReturnCalls DEF Launches
<1>2. (\A d, e \in Launches(q) : d = e) => (\A d, e \in Launches(q)' : d = e)
  BY <1>1
<1>3. Launches(q)' # {} => Launches(q) # {}
  BY <1>1
<1>4. CASE worker'[q] = worker[q]
  BY <1>1, <1>2, <1>3, <1>4 DEF RowOf, TokenOf, Working
<1>5. CASE /\ worker[q].pc \in {"advance", "advanceAfter"}
           /\ worker'[q].pc = "retire" \/ (worker'[q].pc = "error" /\ worker[q].pc = "advance")
  <2>1. run[q] # "waiting_for_bridge" /\ ~ Working(q)'
    BY <1>5 DEF RowOf, TokenOf, Working
  <2> QED
    BY <1>1, <1>2, <1>3, <1>5, <2>1 DEF RowOf, TokenOf
<1> QED
  BY <1>0, <1>4, <1>5, ReturnWorker

\* Nor does a session get more callers or busy runs by it.
LEMMA ReturnTurn ==
    ASSUME CommandInv, NEW c \in Callers, NEW ok, Return(c, ok), NEW s \in Sessions, TurnOf(s),
           UNCHANGED wait, \A q \in RunsOf(s) : run'[q] = run[q]
    PROVE  TurnOf(s)'
<1>0. TypeOK
  BY DEF CommandInv
<1>1. \A d \in calls' : d.k \in {"next", "next_launch"} => d \in calls
  BY ReturnCalls
<1>2. sched'.pc = "idle"
  BY DEF Return, IdleSched
<1>3. Unstarted(s)' => Unstarted(s)
  BY <1>2 DEF Unstarted, RunsOf
<1>4. ASSUME NEW r \in RunsOf(s)
      PROVE  /\ Busy(r)' => Busy(r)
             /\ worker'[r].pc \in {"stopPeers", "advanceAfter"} /\ run'[r] \in OpenRun =>
                worker[r].pc \in {"stopPeers", "advanceAfter"} /\ run[r] \in OpenRun
  <2>1. r \in Runs
    BY DEF RunsOf
  <2> QED
    BY <1>0, <2>1, ReturnWorker DEF Busy
<1> QED
  BY <1>1, <1>3, <1>4, TurnKept

\* Returning is no cancellation.
LEMMA ReturnUncancelled ==
    ASSUME CommandInv, OrderInv, NEW c \in Callers, NEW ok, Return(c, ok),
           \A s \in Sessions : (sess'[s] = "absent" => sess[s] = "absent") /\ sess'[s] # "cancelled",
           \A r \in Runs : run'[r] # "cancelled"
    PROVE  Uncancelled'
<1>0. TypeOK /\ UNCHANGED <<cancelled, shuttingDown>>
  BY DEF CommandInv, Return
<1>1. ASSUME NEW d \in calls' PROVE d \in calls \/ (d.k # "cancel" /\ sess[d.r[1]] # "absent" /\ d.r \in Runs)
  <2>1. CASE d \in calls
    BY <2>1
  <2>2. CASE d.k = "launch" /\ d.r = c.r /\ c \in calls
    BY <1>0, <2>2, SchedFacts DEF OrderInv, Uncancelled
  <2> QED
    BY <2>1, <2>2, ReturnCalls
<1>2. ASSUME NEW r \in Runs PROVE worker'[r].dead => shuttingDown'
  BY <1>0, ReturnWorker DEF OrderInv, Uncancelled
<1> QED
  BY <1>0, <1>1, <1>2, CallsKept

\* startNext returns without having written anything.
LEMMA ReturnOrder ==
    ASSUME CommandInv, OrderInv, NEW c \in Callers, NEW ok, Return(c, ok), UNCHANGED durable
    PROVE  OrderInv'
<1>0. TypeOK /\ sched' = IdleSched
  BY DEF CommandInv, Return
<1>1. Flow
  BY <1>0 DEF Flow, FlowOf
<1>2. RunsHaveSession' /\ HolderInv' /\ PublishedRuns' /\ FullWaitSerial'
  BY <1>0, <1>1, FlowKeeps
<1>3. Uncancelled'
  <2>1. \A s \in Sessions : sess[s] # "cancelled"
    BY DEF OrderInv, Uncancelled
  <2>2. \A r \in Runs : run[r] # "cancelled"
    BY DEF OrderInv, Uncancelled
  <2> QED
    BY <2>1, <2>2, ReturnUncancelled
<1>4. ASSUME NEW r \in Runs PROVE RowOf(r)'
  <2>1. RowOf(r)
    BY DEF OrderInv
  <2> QED
    BY <2>1, ReturnRow
<1>5. ASSUME NEW s \in Sessions PROVE TurnOf(s)'
  <2>1. TurnOf(s)
    BY DEF OrderInv
  <2> QED
    BY <2>1, ReturnTurn
<1> QED
  BY <1>2, <1>3, <1>4, <1>5 DEF OrderInv

\* In full_wait the holder that is about to start a source has the turn.
LEMMA HolderTurn ==
    ASSUME CommandInv, OrderInv, sched.pc = "start", NEW s \in Sessions, s = sched.by.r[1], wait[s] = "full_wait"
    PROVE  \/ sched.by \in NextCalls(s) /\ \A q \in RunsOf(s) : ~ Busy(q)
           \/ \E u \in RunsOf(s) : /\ sched.by = WorkerCall(u) /\ run[u] \notin OpenRun
                                   /\ NextCalls(s) = {} /\ \A q \in RunsOf(s) : Busy(q) => q = u
<1>1. sched.by \in Callers /\ TurnOf(s) /\ Unstarted(s)
  BY DEF CommandInv, HolderWaits, OrderInv, Unstarted
<1>2. CASE sched.by \in calls /\ sched.by.k \in {"next", "next_launch"}
  <2>1. sched.by.k = "next"
    BY <1>1, <1>2 DEF TurnOf
  <2>2. sched.by \in NextCalls(s)
    BY <1>2, <2>1 DEF NextCalls
  <2> QED
    BY <1>1, <2>2 DEF TurnOf
<1>3. ASSUME NEW u \in Runs, sched.by = WorkerCall(u), worker[u].pc \in {"advance", "advanceAfter"}
      PROVE  \E x \in RunsOf(s) : /\ sched.by = WorkerCall(x) /\ run[x] \notin OpenRun
                                  /\ NextCalls(s) = {} /\ \A q \in RunsOf(s) : Busy(q) => q = x
  <2>1. u \in RunsOf(s) /\ Busy(u)
    BY <1>3 DEF WorkerCall, Call, RunsOf, Busy
  <2>2. run[u] \notin OpenRun
    <3>1. CASE worker[u].pc = "advance"
      BY <3>1 DEF OrderInv, RowOf, TokenOf, OpenRun
    <3>2. CASE worker[u].pc = "advanceAfter"
      BY <1>1, <2>1, <3>2 DEF TurnOf
    <3> QED
      BY <1>3, <3>1, <3>2
  <2>3. NextCalls(s) = {} /\ \A q \in RunsOf(s) : Busy(q) => q = u
    BY <1>1, <2>1 DEF TurnOf
  <2> QED
    BY <1>3, <2>1, <2>2, <2>3
<1> QED
  BY <1>1, <1>2, <1>3 DEF Callers

\* startNext starts a source and returns.
LEMMA StartRunOrder ==
    ASSUME CommandInv, OrderInv, StartRun
    PROVE  OrderInv'
<1>0. TypeOK /\ HolderInv /\ FreshRuns /\ EvidenceLaunched
  BY DEF CommandInv, OrderInv
<1>1. PICK s \in Sessions, r \in Runs : s = sched.by.r[1] /\ r = sched.r
  BY <1>0, SchedFacts
<1>2. sched.pc = "start" /\ sched.by \in Callers
  BY DEF StartRun, Live, Step, CommandInv, HolderWaits
<1>3. /\ r[1] = s /\ obs[r] = 0 /\ run[r] \in {"queued", "failed"} /\ sess[s] \in ActiveSession
      /\ r \in RunsOf(s)
  BY <1>0, <1>1, <1>2 DEF HolderInv, RunsOf
<1>4. CASE Return(sched.by, FALSE) /\ UNCHANGED durable
  BY <1>2, <1>4, ReturnOrder
<1>5. CASE CaptureAllowed(r)
  <2>1. /\ sess' = [sess EXCEPT ![s] = "running"] /\ run' = [run EXCEPT ![r] = "waiting_for_bridge"]
        /\ cmd' = [cmd EXCEPT ![<<r, 1>>] = "queued"] /\ Return(sched.by, TRUE)
        /\ UNCHANGED <<wait, composed, obs, assessed>>
    BY <1>1, <1>3, <1>5 DEF StartRun
  <2>2. /\ run'[r] = "waiting_for_bridge" /\ \A q \in Runs : q # r => run'[q] = run[q]
        /\ sess'[s] = "running" /\ \A t \in Sessions : t # s => sess'[t] = sess[t]
        /\ \A q \in Runs, k \in {1, 2} : q # r => cmd'[<<q, k>>] = cmd[<<q, k>>]
    BY <1>0, <2>1, RunFacts DEF TypeOK
  <2>3. sched'.pc = "idle"
    BY <2>1 DEF Return, IdleSched
  <2>4. worker[r].pc = "none" /\ worker'[r] = worker[r]
    <3>1. worker[r].pc = "none"
      BY <1>0, <1>3 DEF EvidenceLaunched, HasWorker
    <3> QED
      BY <1>0, <1>2, <2>1, <3>1, ReturnWorker
  <2>5. Uncancelled'
    <3>1. \A t \in Sessions : (sess'[t] = "absent" => sess[t] = "absent") /\ sess'[t] # "cancelled"
      BY <2>2 DEF OrderInv, Uncancelled
    <3>2. \A q \in Runs : run'[q] # "cancelled"
      BY <2>2 DEF OrderInv, Uncancelled
    <3> QED
      BY <1>2, <2>1, <3>1, <3>2, ReturnUncancelled
  <2>6. RunsHaveSession'
    BY <1>3, <2>2, RunFacts DEF OrderInv, RunsHaveSession, OpenRun, ActiveSession
  <2>7. HolderInv'
    BY <2>3 DEF HolderInv
  <2>8. PublishedRuns'
    <3>1. SUFFICES ASSUME NEW t \in Sessions, sess'[t] \in Published
                   PROVE  Settled(t)' /\ (sess'[t] # "failed" => composed'[t] = CompletedRuns(t)')
      BY DEF PublishedRuns
    <3>2. t # s /\ sess[t] = sess'[t] /\ \A q \in RunsOf(t) : run'[q] = run[q]
      BY <1>3, <2>2, <3>1 DEF Published, RunsOf
    <3> QED
      BY <2>1, <3>1, <3>2 DEF OrderInv, PublishedRuns, Settled, CompletedRuns, RunsOf
  <2>9. wait[s] = "full_wait" => \A q \in RunsOf(s) : run[q] \notin OpenRun
    BY <1>1, <1>2, HolderTurn DEF Busy
  <2>10. FullWaitSerial'
    <3>1. SUFFICES ASSUME NEW p \in Runs, NEW q \in Runs, p[1] = q[1], wait[p[1]] = "full_wait",
                          run'[p] \in OpenRun, run'[q] \in OpenRun
                   PROVE  p = q
      BY <2>1 DEF FullWaitSerial
    <3>2. p \in RunsOf(p[1]) /\ q \in RunsOf(p[1])
      BY <3>1 DEF RunsOf
    <3> QED
      BY <1>3, <2>2, <2>9, <3>1, <3>2 DEF OrderInv, FullWaitSerial
  <2>11. ASSUME NEW q \in Runs PROVE RowOf(q)'
    <3>0. RowOf(q)
      BY DEF OrderInv
    <3>1. CASE q # r
      BY <1>2, <2>1, <2>2, <3>0, <3>1, ReturnRow
    <3>2. CASE q = r
      <4>1. pending[r] = "none" /\ Launches(r) = {} /\ ~ assessed[r]
        BY <1>3, <3>0, <3>2 DEF RowOf, TokenOf
      <4>2. pending'[r] = "none" /\ Launches(r)' = {}
        <5>1. UNCHANGED pending
          BY <1>2, <2>1, ReturnCalls
        <5>2. \A d \in calls' : d.k \in {"launch", "next_launch"} /\ d.r = r =>
                \/ d \in Launches(r)
                \/ sched.by \in Launches(r)
          BY <1>2, <2>1, ReturnCalls DEF Launches
        <5> QED
          BY <4>1, <5>1, <5>2 DEF Launches
      <4>3. TokenOf(r)'
        BY <2>2, <2>4, <4>2 DEF TokenOf, Working
      <4> QED
        BY <2>1, <2>2, <3>2, <4>1, <4>3 DEF RowOf
    <3> QED
      BY <3>1, <3>2
  <2>12. ASSUME NEW t \in Sessions PROVE TurnOf(t)'
    <3>0. TurnOf(t)
      BY DEF OrderInv
    <3>1. CASE t # s
      <4>1. \A q \in RunsOf(t) : run'[q] = run[q]
        BY <1>3, <2>2, <3>1 DEF RunsOf
      <4> QED
        BY <1>2, <2>1, <3>0, <4>1, ReturnTurn
    <3>2. CASE t = s /\ wait[s] = "full_wait"
      <4>1. \A d \in calls' : d.k \in {"next", "next_launch"} => d \in calls /\ d # sched.by
        BY <1>2, <2>1, ReturnCalls
      <4>2. \A d \in calls' : d.k = "next_launch" => d.r[1] # s
        BY <3>0, <3>2, <4>1 DEF TurnOf
      <4>3. Unstarted(s)
        BY <1>1, <1>2 DEF Unstarted
      <4>4. NextCalls(s)' = {}
        <5>1. CASE sched.by \in NextCalls(s)
          BY <3>0, <3>2, <4>1, <4>3, <5>1 DEF TurnOf, NextCalls
        <5>2. CASE NextCalls(s) = {}
          BY <4>1, <5>2 DEF NextCalls
        <5> QED
          BY <1>1, <1>2, <3>2, <5>1, <5>2, HolderTurn
      <4>5. ASSUME NEW q \in RunsOf(s), q # r
            PROVE  ~ Busy(q)'
        <5>0. q \in Runs /\ run'[q] = run[q]
          BY <2>2, <4>5 DEF RunsOf
        <5>1. CASE ~ Busy(q)
          <6>1. worker'[q] = worker[q] \/ worker'[q].pc = "retire"
            BY <1>0, <1>2, <2>1, <5>0, ReturnWorker
          <6> QED
            BY <5>0, <5>1, <6>1 DEF Busy
        <5>2. CASE sched.by = WorkerCall(q) /\ run[q] \notin OpenRun
          <6>1. worker'[q].pc = "retire"
            BY <1>0, <1>2, <2>1, <5>0, <5>2, ReturnWorker
          <6> QED
            BY <5>0, <5>2, <6>1 DEF Busy
        <5> QED
          BY <1>1, <1>2, <3>2, <5>1, <5>2, HolderTurn
      <4>6. \A q \in RunsOf(s) : worker'[q].pc \in {"stopPeers", "advanceAfter"} => run'[q] \notin OpenRun
        BY <2>4, <4>5 DEF Busy
      <4>7. RunsOf(s)' = RunsOf(s)
        BY DEF RunsOf
      <4> QED
        BY <3>2, <4>2, <4>4, <4>5, <4>6, <4>7 DEF TurnOf
    <3>3. CASE t = s /\ wait[s] # "full_wait"
      BY <2>1, <3>3 DEF TurnOf
    <3> QED
      BY <3>1, <3>2, <3>3
  <2> QED
    BY <2>5, <2>6, <2>7, <2>8, <2>10, <2>11, <2>12 DEF OrderInv
<1> QED
  BY <1>1, <1>4, <1>5 DEF StartRun

\* The outcome is written over a session that has settled.
LEMMA PublishWriteOrder ==
    ASSUME CommandInv, OrderInv, PublishWrite
    PROVE  OrderInv'
<1>0. TypeOK /\ HolderInv
  BY DEF CommandInv, OrderInv
<1>1. PICK s \in Sessions : s = sched.by.r[1]
  BY <1>0, SchedFacts
<1>2. sched.pc = "write" /\ sched.by \in Callers
  BY DEF PublishWrite, Live, Step, CommandInv, HolderWaits
<1>3. Settled(s) /\ composed[s] = CompletedRuns(s) /\ sched.status \in Published
  BY <1>0, <1>1, <1>2 DEF HolderInv
<1>4. sess' = [sess EXCEPT ![s] = sched.status] /\ Return(sched.by, TRUE)
      /\ UNCHANGED <<wait, composed, run, cmd, obs, assessed>>
  BY <1>1 DEF PublishWrite
<1>5. sess'[s] = sched.status /\ \A t \in Sessions : t # s => sess'[t] = sess[t]
  BY <1>0, <1>4 DEF TypeOK
<1>6. sched'.pc = "idle"
  BY <1>4 DEF Return, IdleSched
<1>7. Uncancelled'
  <2>1. \A t \in Sessions : (sess'[t] = "absent" => sess[t] = "absent") /\ sess'[t] # "cancelled"
    BY <1>3, <1>5 DEF OrderInv, Uncancelled, Published
  <2>2. \A q \in Runs : run'[q] # "cancelled"
    BY <1>4 DEF OrderInv, Uncancelled
  <2> QED
    BY <1>2, <1>4, <2>1, <2>2, ReturnUncancelled
<1>8. RunsHaveSession'
  <2>1. \A q \in RunsOf(s) : run[q] \notin OpenRun /\ run[q] # "queued"
    BY <1>3 DEF Settled, TerminalRun, OpenRun
  <2> QED
    BY <1>4, <1>5, <2>1, RunFacts DEF OrderInv, RunsHaveSession, RunsOf
<1>9. HolderInv'
  BY <1>6 DEF HolderInv
<1>10. PublishedRuns'
  BY <1>3, <1>4, <1>5 DEF OrderInv, PublishedRuns, Settled, CompletedRuns, RunsOf
<1>11. FullWaitSerial'
  BY <1>4 DEF OrderInv, FullWaitSerial
<1>12. ASSUME NEW r \in Runs PROVE RowOf(r)'
  <2>1. RowOf(r)
    BY DEF OrderInv
  <2> QED
    BY <1>2, <1>4, <2>1, ReturnRow
<1>13. ASSUME NEW t \in Sessions PROVE TurnOf(t)'
  <2>1. TurnOf(t)
    BY DEF OrderInv
  <2> QED
    BY <1>2, <1>4, <2>1, ReturnTurn
<1> QED
  BY <1>7, <1>8, <1>9, <1>10, <1>11, <1>12, <1>13 DEF OrderInv

\* The holder goes on in a session it found settled.
LEMMA GotoOrder ==
    ASSUME CommandInv, OrderInv, UNCHANGED durable,
           NEW pc \in {"compose", "finalizing", "publish"}, Goto(pc), sched.pc # "idle", sched.settled,
           pc \in {"finalizing", "publish"} => composed[sched.by.r[1]] = CompletedRuns(sched.by.r[1])
    PROVE  OrderInv'
<1>0. TypeOK /\ HolderInv /\ sched \in Scheds
  BY DEF CommandInv, OrderInv, TypeOK
<1>1. /\ sched'.pc = pc /\ sched'.by = sched.by /\ sched'.settled = sched.settled
      /\ UNCHANGED <<memory, calls>>
  BY <1>0 DEF Goto, Scheds
<1>2. PICK s \in Sessions : s = sched.by.r[1] /\ s = sched'.by.r[1]
  BY <1>0, <1>1, SchedFacts
<1>3. sess[s] \in ActiveSession /\ Settled(s) /\ (pc \in {"finalizing", "publish"} => composed[s] = CompletedRuns(s))
  BY <1>0, <1>2 DEF HolderInv
<1>4. Settled(s)' /\ CompletedRuns(s)' = CompletedRuns(s)
  BY <1>3 DEF Settled, CompletedRuns, RunsOf
<1>5. HolderInv'
  BY <1>1, <1>2, <1>3, <1>4 DEF HolderInv
<1> QED
  BY <1>1, <1>5, OnlyHolder

\* A caller takes the mutex, or finds its session no longer active.
LEMMA NextBeginOrder ==
    ASSUME CommandInv, OrderInv, NEW c \in Callers, NextBegin(c)
    PROVE  OrderInv'
<1>0. TypeOK
  BY DEF CommandInv
<1>1. CASE Return(c, ~ ContextDead(c))
  BY <1>1, ReturnOrder DEF NextBegin
<1>2. CASE /\ sess[c.r[1]] \in ActiveSession
           /\ sched' = [IdleSched EXCEPT !.pc = "pick", !.by = c, !.settled = Settled(c.r[1])]
           /\ UNCHANGED <<memory, calls, spent>>
  <2>1. sched'.pc = "pick" /\ sched'.by = c /\ sched'.settled = Settled(c.r[1])
    BY <1>2, IdleType DEF Scheds
  <2>2. PICK s \in Sessions : s = c.r[1]
    BY <1>0, CallersType
  <2>3. Settled(s) => Settled(s)'
    BY DEF NextBegin, Settled, RunsOf
  <2>4. HolderInv'
    BY <1>2, <2>1, <2>2, <2>3 DEF HolderInv, NextBegin
  <2> QED
    BY <1>2, <2>1, <2>4, OnlyHolder DEF NextBegin
<1> QED
  BY <1>1, <1>2 DEF NextBegin

\* AdvanceSession picks the first queued source, finalizes or is done.
LEMMA NextPickOrder ==
    ASSUME CommandInv, OrderInv, NextPick
    PROVE  OrderInv'
<1>0. TypeOK /\ HolderInv /\ FreshRuns /\ ObservationsCounted /\ sched \in Scheds
  BY DEF CommandInv, OrderInv, TypeOK
<1>1. sched.pc = "pick" /\ sched.by \in Callers /\ UNCHANGED durable
  BY DEF NextPick, Pick, Live, Step, CommandInv, HolderWaits
<1>2. CASE Return(sched.by, TRUE)
  BY <1>1, <1>2, ReturnOrder
<1>3. CASE sched.settled /\ Goto("compose")
  BY <1>1, <1>3, GotoOrder
<1>4. ASSUME NEW r \in RunsOf(sched.by.r[1]), run[r] = "queued",
             sched' = [sched EXCEPT !.pc = "start", !.r = r], UNCHANGED <<memory, calls, spent>>
      PROVE  OrderInv'
  <2>1. sched'.pc = "start" /\ sched'.by = sched.by /\ sched'.settled = sched.settled /\ sched'.r = r
    BY <1>0, <1>4 DEF Scheds
  <2>2. PICK s \in Sessions : s = sched.by.r[1]
    BY <1>0, SchedFacts
  <2>3. r \in Runs /\ r[1] = s /\ obs[r] = 0
    <3>1. r \in Runs /\ r[1] = s
      BY <1>4, <2>2 DEF RunsOf
    <3>2. cmd[<<r, 1>>] = "none" /\ cmd[<<r, 2>>] = "none"
      BY <1>0, <1>4, <3>1 DEF FreshRuns
    <3>3. obs[r] = 0 + 0
      BY <1>0, <3>1, <3>2 DEF ObservationsCounted
    <3> QED
      BY <3>1, <3>3
  <2>4. sess[s] \in ActiveSession /\ ~ sched.settled
    BY <1>0, <1>1, <1>4, <2>2 DEF HolderInv, Settled, TerminalRun
  <2>5. HolderInv'
    BY <1>1, <1>4, <2>1, <2>2, <2>3, <2>4, <1>0 DEF HolderInv, TypeOK
  <2> QED
    BY <1>1, <1>4, <2>1, <2>5, OnlyHolder
<1> QED
  BY <1>2, <1>3, <1>4 DEF NextPick, Pick

\* The Timeline is composed of what the settled session has completed.
LEMMA ComposeOrder ==
    ASSUME CommandInv, OrderInv, Compose
    PROVE  OrderInv'
<1>0. TypeOK /\ HolderInv /\ sched \in Scheds
  BY DEF CommandInv, OrderInv, TypeOK
<1>1. PICK s \in Sessions : s = sched.by.r[1]
  BY <1>0, SchedFacts
<1>2. sched.pc = "compose" /\ sched.by \in Callers /\ sess[s] \in ActiveSession /\ Settled(s) /\ sched.settled
  BY <1>0, <1>1 DEF Compose, Live, Step, CommandInv, HolderWaits, HolderInv
<1>3. /\ composed' = [composed EXCEPT ![s] = CompletedRuns(s)] /\ Goto("finalizing")
      /\ UNCHANGED <<sess, wait, run, cmd, obs, assessed>>
  BY <1>1, <1>2 DEF Compose
<1>4. composed'[s] = CompletedRuns(s) /\ \A t \in Sessions : t # s => composed'[t] = composed[t]
  BY <1>0, <1>3 DEF TypeOK
<1>5. \A t \in Sessions : Settled(t)' = Settled(t) /\ CompletedRuns(t)' = CompletedRuns(t)
  BY <1>3 DEF Settled, CompletedRuns, RunsOf
<1>6. sched'.pc = "finalizing" /\ sched'.by = sched.by /\ sched'.settled = sched.settled /\ UNCHANGED <<memory, calls>>
  BY <1>0, <1>3 DEF Goto, Scheds
<1>7. HolderInv'
  BY <1>1, <1>2, <1>3, <1>4, <1>5, <1>6 DEF HolderInv
<1>8. PublishedRuns'
  BY <1>2, <1>3, <1>4, <1>5 DEF OrderInv, PublishedRuns, Published, ActiveSession
<1>9. Uncancelled' /\ RunsHaveSession' /\ FullWaitSerial'
  BY <1>3, <1>6 DEF OrderInv, Uncancelled, RunsHaveSession, FullWaitSerial
<1>10. ASSUME NEW r \in Runs PROVE RowOf(r)'
  <2>1. RowOf(r)
    BY DEF OrderInv
  <2> QED
    BY <1>3, <1>6, <2>1, RowKept
<1>11. ASSUME NEW t \in Sessions PROVE TurnOf(t)'
  <2>1. TurnOf(t)
    BY DEF OrderInv
  <2>2. Unstarted(t)' => Unstarted(t)
    BY <1>3, <1>6 DEF Unstarted, RunsOf
  <2>3. \A r \in RunsOf(t) : Busy(r)' => Busy(r)
    BY <1>3, <1>6 DEF Busy
  <2> QED
    BY <1>3, <1>6, <2>1, <2>2, <2>3, TurnKept
<1> QED
  BY <1>7, <1>8, <1>9, <1>10, <1>11 DEF OrderInv

\* Every step of startNext keeps the order.
LEMMA ScheduleOrder ==
    ASSUME CommandInv, OrderInv, ScheduleStep \/ \E c \in Callers : NextBegin(c)
    PROVE  OrderInv'
<1>0. TypeOK /\ HolderInv /\ sched \in Scheds
  BY DEF CommandInv, OrderInv, TypeOK
<1>1. sched.pc # "idle" => sched.by \in Callers
  BY DEF CommandInv, HolderWaits
<1>2. CASE NextAbort
  BY <1>1, <1>2, ReturnOrder DEF NextAbort, Step
<1>3. CASE Finalizing
  <2>1. sched.pc = "finalizing" /\ UNCHANGED durable
    BY <1>3 DEF Finalizing, Live, Step
  <2>2. CASE Return(sched.by, FALSE)
    BY <1>1, <2>1, <2>2, ReturnOrder
  <2>3. CASE Goto("publish")
    <3>1. sched.settled /\ composed[sched.by.r[1]] = CompletedRuns(sched.by.r[1])
      BY <1>0, <2>1 DEF HolderInv
    <3> QED
      BY <2>1, <2>3, <3>1, GotoOrder
  <2> QED
    BY <1>3, <2>2, <2>3 DEF Finalizing
<1>4. CASE Publish
  <2>1. sched.pc = "publish" /\ UNCHANGED durable
    BY <1>4 DEF Publish, Live, Step
  <2>2. CASE Return(sched.by, FALSE)
    BY <1>1, <2>1, <2>2, ReturnOrder
  <2>3. CASE Settled(sched.by.r[1])
    <3>1. PICK st \in Published : sched' = [sched EXCEPT !.pc = "write", !.status = st]
      BY <1>4, <2>3 DEF Publish, Published
    <3>2. UNCHANGED <<memory, calls>>
      BY <1>4, <2>3 DEF Publish
    <3>3. /\ sched'.pc = "write" /\ sched'.by = sched.by /\ sched'.settled = sched.settled
          /\ sched'.status \in Published
      BY <1>0, <3>1 DEF Scheds
    <3>4. PICK s \in Sessions : s = sched.by.r[1]
      BY <1>0, SchedFacts
    <3>5. sess[s] \in ActiveSession /\ sched.settled /\ composed[s] = CompletedRuns(s) /\ Settled(s)
      BY <1>0, <2>1, <3>4 DEF HolderInv
    <3>6. Settled(s)' /\ CompletedRuns(s)' = CompletedRuns(s)
      BY <2>1, <3>5 DEF Settled, CompletedRuns, RunsOf
    <3>7. HolderInv'
      BY <2>1, <3>3, <3>4, <3>5, <3>6 DEF HolderInv
    <3> QED
      BY <2>1, <3>2, <3>3, <3>7, OnlyHolder
  <2> QED
    BY <1>4, <2>2, <2>3 DEF Publish
<1> QED
  BY <1>2, <1>3, <1>4, NextBeginOrder, NextPickOrder, ComposeOrder, StartRunOrder, PublishWriteOrder DEF ScheduleStep

\* A step of one run: nothing else is touched, and the turn of its session does
\* not come to it by the step.
LEMMA OneRunMoves ==
    ASSUME CommandInv, OrderInv, Flow, NEW r \in Runs, RowOf(r)',
           UNCHANGED <<cancelled, shuttingDown>>,
           \A q \in Runs : q # r =>
               /\ run'[q] = run[q] /\ worker'[q] = worker[q] /\ pending'[q] = pending[q]
               /\ assessed'[q] = assessed[q] /\ obs'[q] = obs[q]
               /\ \A k \in {1, 2} : cmd'[<<q, k>>] \in OpenCommand => cmd[<<q, k>>] \in OpenCommand,
           \A c \in calls' :
               \/ c \in calls
               \/ /\ c.r = r /\ sess[r[1]] # "absent"
                  /\ c.k = "launch" \/ (c.k = "next_launch" /\ wait[r[1]] # "full_wait"),
           worker'[r].dead => worker[r].dead,
           Busy(r)' => Busy(r),
           worker'[r].pc \in {"stopPeers", "advanceAfter"} /\ run'[r] \in OpenRun =>
               worker[r].pc \in {"stopPeers", "advanceAfter"} /\ run[r] \in OpenRun
    PROVE  OrderInv'
<1>0. TypeOK
  BY DEF CommandInv
<1>1. RunsHaveSession' /\ HolderInv' /\ PublishedRuns' /\ FullWaitSerial'
  BY <1>0, FlowKeeps
<1>2. Uncancelled'
  <2>1. \A s \in Sessions : (sess'[s] = "absent" => sess[s] = "absent") /\ sess'[s] # "cancelled"
    BY DEF OrderInv, Uncancelled, Flow
  <2>2. \A q \in Runs : run'[q] # "cancelled"
    BY DEF OrderInv, Uncancelled, Flow, FlowOf, OpenRun
  <2>3. \A q \in Runs : worker'[q].dead => shuttingDown'
    BY DEF OrderInv, Uncancelled
  <2>4. \A c \in calls' : c \in calls \/ (c.k # "cancel" /\ sess[c.r[1]] # "absent" /\ c.r \in Runs)
    OBVIOUS
  <2> QED
    BY <1>0, <2>1, <2>2, <2>3, <2>4, CallsKept
<1>3. ASSUME NEW q \in Runs PROVE RowOf(q)'
  <2>1. CASE q # r
    <3>1. RowOf(q)
      BY DEF OrderInv
    <3>2. \A c \in calls' : c.k \in {"launch", "next_launch"} /\ c.r = q => c \in calls
      BY <2>1
    <3> QED
      BY <2>1, <3>1, <3>2, RowKept
  <2> QED
    BY <2>1
<1>4. ASSUME NEW s \in Sessions PROVE TurnOf(s)'
  <2>1. TurnOf(s) /\ wait'[s] = wait[s] /\ (Unstarted(s)' => Unstarted(s))
    BY FlowUnstarted DEF OrderInv, Flow
  <2>2. \A c \in calls' : wait[s] = "full_wait" /\ c.k = "next_launch" /\ c.r[1] = s => c \in calls
    OBVIOUS
  <2>3. \A c \in calls' : c.k = "next" /\ c.r[1] = s => c \in calls
    OBVIOUS
  <2>4. ASSUME NEW q \in RunsOf(s)
        PROVE  /\ Busy(q)' => Busy(q)
               /\ worker'[q].pc \in {"stopPeers", "advanceAfter"} /\ run'[q] \in OpenRun =>
                  worker[q].pc \in {"stopPeers", "advanceAfter"} /\ run[q] \in OpenRun
    <3>1. q \in Runs
      BY DEF RunsOf
    <3> QED
      BY <3>1 DEF Busy
  <2> QED
    BY <2>1, <2>2, <2>3, <2>4, TurnKept
<1> QED
  BY <1>1, <1>2, <1>3, <1>4 DEF OrderInv

\* Both rounds of a run are never open together.
LEMMA OneOpenRound ==
    ASSUME CommandInv, NEW r \in Runs
    PROVE  ~ (cmd[<<r, 1>>] \in OpenCommand /\ cmd[<<r, 2>>] \in OpenCommand)
<1>1. SUFFICES ASSUME cmd[<<r, 1>>] \in OpenCommand, cmd[<<r, 2>>] \in OpenCommand PROVE FALSE
  OBVIOUS
<1>2. cmd[<<r, 1>>] # "completed" /\ cmd[<<r, 2>>] \notin {"completed", "none"}
  BY <1>1 DEF OpenCommand
<1>3. obs[r] = 0 + 0
  BY <1>2 DEF CommandInv, ObservationsCounted
<1> QED
  BY <1>2, <1>3 DEF CommandInv, OnePlanner, PlannerOf

\* A run with an open command waits for the bridge: nobody has its evidence.
LEMMA WaitingRun ==
    ASSUME OrderInv, NEW r \in Runs, NEW k \in {1, 2}, cmd[<<r, k>>] \in OpenCommand
    PROVE  /\ run[r] = "waiting_for_bridge" /\ sess[r[1]] = "running" /\ ~ assessed[r]
           /\ Launches(r) = {} /\ pending[r] = "none" /\ ~ Working(r)
           /\ worker[r].pc \in {"none", "receipt", "retire"} \/ (worker[r].pc = "error" /\ worker[r].dead)
           /\ Busy(r)
<1>1. RowOf(r) /\ RunsHaveSession
  BY DEF OrderInv
<1> QED
  BY <1>1 DEF RowOf, TokenOf, RunsHaveSession, Busy, OpenRun

\* The bridge claims a command.
LEMMA ClaimOrder ==
    ASSUME CommandInv, OrderInv, NEW r \in Runs, NEW k \in {1, 2}, ClaimCommand(r, k)
    PROVE  OrderInv'
<1>1. /\ cmd[<<r, k>>] = "queued" /\ cmd' = [cmd EXCEPT ![<<r, k>>] = "claimed"]
      /\ UNCHANGED <<sess, wait, composed, run, obs, assessed, memory, calls, sched>>
  BY DEF ClaimCommand
<1>2. \A q \in Runs, j \in {1, 2} : cmd'[<<q, j>>] \in OpenCommand => cmd[<<q, j>>] \in OpenCommand
  BY <1>1, RunFacts DEF CommandInv, TypeOK, OpenCommand
<1>3. Flow /\ (Busy(r)' => Busy(r))
  BY <1>1 DEF Flow, FlowOf, Busy
<1>4. RowOf(r)'
  BY <1>1, <1>2, RowKept DEF OrderInv
<1> QED
  BY <1>1, <1>2, <1>3, <1>4, OneRunMoves

\* An observation is accepted and its launch is on the way.
LEMMA AcceptOrder ==
    ASSUME CommandInv, OrderInv, NEW r \in Runs, NEW k \in {1, 2}, NEW plan \in BOOLEAN, AcceptObservation(r, k, plan)
    PROVE  OrderInv'
<1>0. TypeOK
  BY DEF CommandInv
<1>1. PICK kind \in {"launch", "next_launch"} :
        /\ kind = "next_launch" => wait[r[1]] # "full_wait"
        /\ calls' = calls \cup {Call(kind, r, plan, TRUE, TRUE)}
  BY DEF AcceptObservation, SaveObservation
<1>2. /\ cmd[<<r, k>>] = "claimed" /\ cmd' = [cmd EXCEPT ![<<r, k>>] = "completed"]
      /\ obs' = [obs EXCEPT ![r] = @ + 1] /\ run' = [run EXCEPT ![r] = "reasoning"]
      /\ UNCHANGED <<sess, wait, composed, assessed, memory, sched>>
  BY DEF AcceptObservation, SaveObservation
<1>3. cmd[<<r, k>>] \in OpenCommand
  BY <1>2 DEF OpenCommand
<1>4. /\ run[r] = "waiting_for_bridge" /\ sess[r[1]] = "running" /\ ~ assessed[r]
      /\ Launches(r) = {} /\ pending[r] = "none" /\ Busy(r)
      /\ worker[r].pc \in {"none", "receipt", "retire"} \/ (worker[r].pc = "error" /\ worker[r].dead)
  BY <1>3, WaitingRun
<1>5. run'[r] = "reasoning" /\ \A q \in Runs : q # r => run'[q] = run[q] /\ obs'[q] = obs[q]
  BY <1>0, <1>2 DEF TypeOK
<1>6. \A q \in Runs, j \in {1, 2} : cmd'[<<q, j>>] \in OpenCommand => cmd[<<q, j>>] \in OpenCommand /\ <<q, j>> # <<r, k>>
  BY <1>0, <1>2, RunFacts DEF TypeOK, OpenCommand
<1>7. \A c \in calls' : c \in calls \/ (c.r = r /\ c.k = kind /\ c = Call(kind, r, plan, TRUE, TRUE))
  <2>1. Call(kind, r, plan, TRUE, TRUE).k = kind /\ Call(kind, r, plan, TRUE, TRUE).r = r
    BY DEF Call
  <2> QED
    BY <1>1, <2>1
<1>8. RowOf(r)'
  <2>1. \A c \in Launches(r)' : c = Call(kind, r, plan, TRUE, TRUE)
    BY <1>4, <1>7 DEF Launches
  <2>2. ~ Working(r)'
    BY <1>2, <1>4 DEF Working
  <2>3. TokenOf(r)'
    BY <1>2, <1>4, <1>5, <2>1, <2>2 DEF TokenOf
  <2>4. \A j \in {1, 2} : cmd'[<<r, j>>] \notin OpenCommand
    BY <1>3, <1>6, OneOpenRound
  <2> QED
    BY <1>2, <1>4, <2>3, <2>4 DEF RowOf
<1>9. Flow
  BY <1>2, <1>4, <1>5 DEF Flow, FlowOf, OpenRun
<1>10. \A c \in calls' : \/ c \in calls
                         \/ /\ c.r = r /\ sess[r[1]] # "absent"
                            /\ c.k = "launch" \/ (c.k = "next_launch" /\ wait[r[1]] # "full_wait")
  BY <1>1, <1>4, <1>7
<1> QED
  BY <1>2, <1>4, <1>5, <1>6, <1>8, <1>9, <1>10, OneRunMoves

\* A command fails or expires: its run falls back to the accepted evidence or
\* ends, and so does what a pause takes with it.
LEMMA FailedCommandOrder ==
    ASSUME CommandInv, OrderInv, NEW r \in Runs, NEW k \in {1, 2}, cmd[<<r, k>>] \in OpenCommand,
           NEW challenge \in BOOLEAN, NEW http \in BOOLEAN, FailedCommand(r, k, challenge, http)
    PROVE  OrderInv'
<1>0. TypeOK
  BY DEF CommandInv
<1> DEFINE paused(q) == challenge /\ IsX(r) /\ IsX(q)
           kind == IF Fallback(r) THEN "launch" ELSE "next"
<1>1. PICK new : /\ new.k = kind /\ new.r = r /\ calls' = calls \cup {new}
  <2> DEFINE call == Call(kind, r, FALSE, FALSE, http)
  <2>1. calls' = calls \cup {call}
    BY DEF FailedCommand
  <2>2. call.k = kind /\ call.r = r
    BY DEF Call
  <2> HIDE DEF call
  <2> QED
    BY <2>1, <2>2
<1>2. UNCHANGED <<sess, wait, composed, obs, assessed, memory, sched>>
  BY DEF FailedCommand, FailCommandTx
<1>3. /\ run[r] = "waiting_for_bridge" /\ sess[r[1]] = "running" /\ ~ assessed[r]
      /\ Launches(r) = {} /\ pending[r] = "none" /\ Busy(r) /\ ~ Working(r)
      /\ worker[r].pc \in {"none", "receipt", "retire"} \/ (worker[r].pc = "error" /\ worker[r].dead)
  BY WaitingRun
<1>4. run'[r] = IF Fallback(r) THEN "reasoning" ELSE "failed"
  BY DEF FailedCommand, FailCommandTx
<1>5. \A q \in Runs : q # r =>
        run'[q] = IF paused(q) /\ run[q] \in {"queued", "waiting_for_bridge"} THEN "failed" ELSE run[q]
  BY DEF FailedCommand, FailCommandTx
<1>6. \A q \in Runs, j \in {1, 2} :
        cmd'[<<q, j>>] \in OpenCommand => cmd[<<q, j>>] \in OpenCommand /\ <<q, j>> # <<r, k>> /\ ~ paused(q)
  <2>1. \A c \in Commands : cmd'[c] = IF c = <<r, k>> \/ (paused(c[1]) /\ cmd[c] \in OpenCommand) THEN "failed" ELSE cmd[c]
    BY DEF FailedCommand, FailCommandTx
  <2>2. "failed" \notin OpenCommand /\ \A q \in Runs, j \in {1, 2} : <<q, j>> \in Commands /\ <<q, j>>[1] = q
    BY DEF OpenCommand, Commands
  <2> HIDE DEF paused
  <2>3. ASSUME NEW q \in Runs, NEW j \in {1, 2}, cmd'[<<q, j>>] \in OpenCommand
        PROVE  cmd[<<q, j>>] \in OpenCommand /\ <<q, j>> # <<r, k>> /\ ~ paused(q)
    BY <2>1, <2>2, <2>3
  <2> QED
    BY <2>3
<1> HIDE DEF paused
<1>7. Flow
  <2>1. \A q \in Runs : FlowOf(q)
    BY <1>2, <1>3, <1>4, <1>5 DEF FlowOf, OpenRun
  <2> QED
    BY <1>2, <2>1 DEF Flow
<1>8. RunsHaveSession' /\ HolderInv' /\ PublishedRuns' /\ FullWaitSerial'
  BY <1>0, <1>7, FlowKeeps
<1>9. Uncancelled'
  <2>1. \A s \in Sessions : (sess'[s] = "absent" => sess[s] = "absent") /\ sess'[s] # "cancelled"
    BY <1>2 DEF OrderInv, Uncancelled
  <2>2. \A q \in Runs : run'[q] # "cancelled" /\ (worker'[q].dead => shuttingDown')
    BY <1>2, <1>4, <1>5 DEF OrderInv, Uncancelled
  <2>3. \A c \in calls' : c \in calls \/ (c.k # "cancel" /\ sess[c.r[1]] # "absent" /\ c.r \in Runs)
    BY <1>1, <1>3
  <2> QED
    BY <1>0, <1>2, <2>1, <2>2, <2>3, CallsKept
<1>10. ASSUME NEW q \in Runs PROVE RowOf(q)'
  <2>0. RowOf(q)
    BY DEF OrderInv
  <2>1. CASE q = r
    <3>1. Launches(r)' \subseteq {new} /\ (~ Fallback(r) => Launches(r)' = {})
      BY <1>1, <1>3 DEF Launches
    <3>2. ~ Working(r)'
      BY <1>2, <1>3 DEF Working
    <3>3. TokenOf(r)'
      BY <1>2, <1>3, <1>4, <3>1, <3>2 DEF TokenOf
    <3>4. \A j \in {1, 2} : cmd'[<<r, j>>] \notin OpenCommand
      BY <1>6, OneOpenRound
    <3> QED
      BY <1>2, <1>3, <2>1, <3>3, <3>4 DEF RowOf
  <2>2. CASE q # r /\ run'[q] = run[q]
    <3>1. \A c \in calls' : c.k \in {"launch", "next_launch"} /\ c.r = q => c \in calls
      BY <1>1, <2>2
    <3> QED
      BY <1>2, <1>6, <2>0, <2>2, <3>1, RowKept
  <2>3. CASE q # r /\ run[q] \in {"queued", "waiting_for_bridge"} /\ run'[q] = "failed" /\ paused(q)
    <3>1. Launches(q)' = {} /\ ~ Working(q)'
      BY <1>1, <1>2, <2>0, <2>3 DEF RowOf, TokenOf, Launches, Working
    <3>2. TokenOf(q)'
      BY <1>2, <2>0, <2>3, <3>1 DEF RowOf, TokenOf
    <3> QED
      BY <1>2, <1>6, <2>0, <2>3, <3>2 DEF RowOf
  <2> QED
    BY <1>5, <2>1, <2>2, <2>3
<1>11. ASSUME NEW s \in Sessions PROVE TurnOf(s)'
  <2>1. TurnOf(s) /\ (Unstarted(s)' => Unstarted(s))
    BY <1>7, FlowUnstarted DEF OrderInv
  <2>2. ASSUME NEW q \in RunsOf(s)
        PROVE  /\ Busy(q)' => Busy(q)
               /\ worker'[q].pc \in {"stopPeers", "advanceAfter"} /\ run'[q] \in OpenRun =>
                  worker[q].pc \in {"stopPeers", "advanceAfter"} /\ run[q] \in OpenRun
    <3>1. q \in Runs /\ (run'[q] \in OpenRun => run[q] \in OpenRun)
      BY <1>3, <1>5 DEF RunsOf, OpenRun
    <3> QED
      BY <1>2, <3>1 DEF Busy
  <2>3. CASE Fallback(r) \/ s # r[1]
    <3>1. \A c \in calls' : (c.k = "next" /\ c.r[1] = s => c \in calls) /\ (c.k = "next_launch" => c \in calls)
      BY <1>1, <2>3
    <3> QED
      BY <1>2, <2>1, <2>2, <3>1, TurnKept
  <2>4. CASE ~ Fallback(r) /\ s = r[1]
    <3>1. r \in RunsOf(s) /\ RunsOf(s)' = RunsOf(s)
      BY <2>4 DEF RunsOf
    <3>2. ~ Busy(r)'
      BY <1>2, <1>3, <1>4, <2>4 DEF Busy, OpenRun
    <3>3. NextCalls(s)' \subseteq NextCalls(s) \cup {new}
      BY <1>1 DEF NextCalls
    <3>4. \A c \in calls' : c.k = "next_launch" => c \in calls
      BY <1>1, <2>4
    <3> QED
      BY <1>2, <1>3, <2>1, <2>2, <3>1, <3>2, <3>3, <3>4 DEF TurnOf
  <2> QED
    BY <2>3, <2>4
<1> QED
  BY <1>8, <1>9, <1>10, <1>11 DEF OrderInv

\* A launch gives the run to a worker, queues it behind one, or is refused.
LEMMA LaunchOrder ==
    ASSUME CommandInv, OrderInv, NEW c \in calls, Launch(c)
    PROVE  OrderInv'
<1>0. TypeOK
  BY DEF CommandInv
<1>1. PICK r \in Runs : r = c.r
  BY <1>0, SchedFacts
<1>2. /\ c.k = "launch" /\ calls' = calls \ {c} /\ c \in Launches(r)
      /\ UNCHANGED <<durable, cancelled, shuttingDown, sched>>
  BY <1>1 DEF Launch, Launches
<1>3. /\ run[r] = "reasoning" /\ pending[r] = "none" /\ ~ Working(r) /\ Launches(r)' = {}
      /\ RowOf(r) /\ ~ cancelled[r]
  <2>1. RowOf(r) /\ ~ cancelled[r]
    BY DEF OrderInv, Uncancelled
  <2>2. Launches(r)' = {}
    BY <1>2, <2>1 DEF RowOf, TokenOf, Launches
  <2> QED
    BY <1>2, <2>1, <2>2 DEF RowOf, TokenOf
<1>4. /\ worker'[r] = worker[r] \/ (worker'[r].pc = "process" /\ ~ worker'[r].dead /\ pending'[r] = pending[r])
      /\ \A q \in Runs : q # r => worker'[q] = worker[q] /\ pending'[q] = pending[q]
  <2>1. CASE shuttingDown \/ cancelled[r]
    BY <1>1, <2>1 DEF Launch
  <2>2. CASE ~ (shuttingDown \/ cancelled[r]) /\ HasWorker(r)
    <3>1. worker' = worker /\ \E p : pending' = [pending EXCEPT ![r] = p] \/ pending' = pending
      BY <1>1, <2>2 DEF Launch
    <3> QED
      BY <1>0, <3>1 DEF TypeOK
  <2>3. CASE ~ (shuttingDown \/ cancelled[r]) /\ ~ HasWorker(r)
    <3>1. worker' = [worker EXCEPT ![r] = [NoWorker EXCEPT !.pc = "process", !.plan = c.plan]] /\ pending' = pending
      BY <1>1, <2>3 DEF Launch
    <3>2. [NoWorker EXCEPT !.pc = "process", !.plan = c.plan].pc = "process"
          /\ ~ [NoWorker EXCEPT !.pc = "process", !.plan = c.plan].dead
      BY DEF NoWorker
    <3> QED
      BY <1>0, <3>1, <3>2 DEF TypeOK
  <2> QED
    BY <2>1, <2>2, <2>3
<1>5. RowOf(r)'
  <2>1. TokenOf(r)'
    <3>1. CASE worker'[r] = worker[r]
      <4>1. ~ Working(r)' /\ run'[r] = "reasoning" /\ worker[r].pc \notin {"advance", "failRun"}
        BY <1>2, <1>3, <3>1 DEF Working, RowOf, TokenOf
      <4> QED
        BY <1>3, <3>1, <4>1 DEF TokenOf
    <3>2. CASE worker'[r].pc = "process" /\ pending'[r] = pending[r]
      BY <1>2, <1>3, <3>2 DEF TokenOf
    <3> QED
      BY <1>4, <3>1, <3>2
  <2> QED
    BY <1>2, <1>3, <2>1 DEF RowOf
<1>6. Flow /\ Busy(r) /\ (worker'[r].dead => worker[r].dead)
  BY <1>2, <1>3, <1>4 DEF Flow, FlowOf, Busy, OpenRun
<1>7. worker'[r].pc \in {"stopPeers", "advanceAfter"} => worker[r].pc \in {"stopPeers", "advanceAfter"}
  BY <1>4
<1> QED
  BY <1>2, <1>3, <1>4, <1>5, <1>6, <1>7, OneRunMoves DEF OpenRun

\* A client goes away.
LEMMA DisconnectOrder ==
    ASSUME CommandInv, OrderInv, NEW c \in calls, Disconnect(c)
    PROVE  OrderInv'
<1>0. TypeOK
  BY DEF CommandInv
<1>1. PICK r \in Runs : r = c.r
  BY <1>0, SchedFacts
<1>2. calls' \subseteq calls /\ UNCHANGED <<durable, memory>> /\ (sched' = sched \/ sched' = IdleSched)
  BY DEF Disconnect
<1>3. Flow /\ (Busy(r)' => Busy(r))
  BY <1>2 DEF Flow, FlowOf, Busy
<1>4. RowOf(r)'
  BY <1>2, RowKept DEF OrderInv
<1> QED
  BY <1>2, <1>3, <1>4, OneRunMoves

\* A shutdown takes the contexts of the workers away.
LEMMA ShutdownOrder ==
    ASSUME CommandInv, OrderInv, Shutdown
    PROVE  OrderInv'
<1>0. TypeOK
  BY DEF CommandInv
<1>1. UNCHANGED <<durable, pending, cancelled, calls, sched>> /\ shuttingDown' = TRUE
  BY DEF Shutdown
<1>2. \A q \in Runs : worker'[q].pc = worker[q].pc /\ (worker[q].dead => worker'[q].dead)
  <2>1. \A w \in Workers : [w EXCEPT !.dead = TRUE].pc = w.pc /\ [w EXCEPT !.dead = TRUE].dead
    BY DEF Workers
  <2>2. \A q \in Runs : worker[q] \in Workers
    BY <1>0 DEF TypeOK
  <2>3. \A q \in Runs : worker'[q] = worker[q] \/ worker'[q] = [worker[q] EXCEPT !.dead = TRUE]
    BY DEF Shutdown
  <2> QED
    BY <2>1, <2>2, <2>3
<1>3. Flow
  BY <1>1 DEF Flow, FlowOf
<1>4. RunsHaveSession' /\ HolderInv' /\ PublishedRuns' /\ FullWaitSerial'
  BY <1>0, <1>3, FlowKeeps
<1>5. Uncancelled'
  BY <1>1 DEF OrderInv, Uncancelled
<1>6. ASSUME NEW q \in Runs PROVE RowOf(q)'
  BY <1>1, <1>2, RowKept DEF OrderInv
<1>7. ASSUME NEW s \in Sessions PROVE TurnOf(s)'
  <2>1. TurnOf(s) /\ (Unstarted(s)' => Unstarted(s))
    BY <1>3, FlowUnstarted DEF OrderInv
  <2>2. \A q \in RunsOf(s) : q \in Runs
    BY DEF RunsOf
  <2>3. \A q \in RunsOf(s) : Busy(q)' => Busy(q)
    BY <1>1, <1>2, <2>2 DEF Busy
  <2> QED
    BY <1>1, <1>2, <2>1, <2>2, <2>3, TurnKept
<1> QED
  BY <1>4, <1>5, <1>6, <1>7 DEF OrderInv

\* The next process launches each run that has its evidence, once.
LEMMA RestartOrder ==
    ASSUME CommandInv, OrderInv, Restart
    PROVE  OrderInv'
<1>0. TypeOK /\ IdleSched.pc = "idle" /\ NoWorker.pc = "none" /\ NoWorker.dead = FALSE
  BY DEF CommandInv, IdleSched, NoWorker
<1>1. /\ UNCHANGED durable /\ sched' = IdleSched /\ shuttingDown' = FALSE
      /\ \A q \in Runs : worker'[q] = NoWorker /\ pending'[q] = "none" /\ ~ cancelled'[q]
  BY DEF Restart, ResumePendingReasoning
<1> DEFINE first(q) == wait[q[1]] = "progressive_wait" /\ \A p \in Resumable : p[1] = q[1] => q[2] <= p[2]
           kind(q) == IF first(q) THEN "next_launch" ELSE "launch"
           call(q) == Call(kind(q), q, FALSE, FALSE, FALSE)
<1>2. \A d \in calls' : \E q \in Resumable : d = call(q)
  BY DEF Restart, ResumePendingReasoning
<1>3. \A q \in Resumable : /\ q \in Runs /\ call(q).k \in {"launch", "next_launch"} /\ call(q).r = q
                           /\ call(q).k = "next_launch" => wait[q[1]] = "progressive_wait"
  BY DEF Call, Resumable
<1> HIDE DEF call
<1>4. \A d \in calls' : /\ d.r \in Resumable /\ d.r \in Runs /\ d.k \in {"launch", "next_launch"}
                        /\ d.k = "next_launch" => wait[d.r[1]] = "progressive_wait"
  BY <1>2, <1>3
<1>5. \A d, e \in calls' : d.r = e.r => d = e
  BY <1>2, <1>3
<1>6. Flow
  BY <1>1 DEF Flow, FlowOf
<1>7. RunsHaveSession' /\ HolderInv' /\ PublishedRuns' /\ FullWaitSerial'
  BY <1>0, <1>6, FlowKeeps
<1>8. Uncancelled'
  <2>1. \A d \in calls' : d.k # "cancel" /\ sess[d.r[1]] # "absent"
    BY <1>4 DEF Resumable, OrderInv, RunsHaveSession, OpenRun
  <2> QED
    BY <1>0, <1>1, <2>1 DEF OrderInv, Uncancelled
<1>9. ASSUME NEW q \in Runs PROVE RowOf(q)'
  <2>1. (\A d, e \in Launches(q)' : d = e) /\ (Launches(q)' # {} => run[q] = "reasoning")
    BY <1>4, <1>5 DEF Launches, Resumable
  <2>2. TokenOf(q)'
    BY <1>0, <1>1, <2>1 DEF TokenOf, Working
  <2> QED
    BY <1>1, <2>2 DEF OrderInv, RowOf
<1>10. ASSUME NEW s \in Sessions PROVE TurnOf(s)'
  <2>1. NextCalls(s)' = {} /\ RunsOf(s)' = RunsOf(s)
    BY <1>4 DEF NextCalls, RunsOf
  <2>2. \A q \in RunsOf(s) : q \in Runs /\ q[1] = s
    BY DEF RunsOf
  <2>3. \A q \in RunsOf(s) : Busy(q)' => run[q] \in OpenRun
    BY <1>0, <1>1, <2>2 DEF Busy
  <2>4. wait[s] = "full_wait" => \A d \in calls' : d.k = "next_launch" => d.r[1] # s
    BY <1>4
  <2>5. wait[s] = "full_wait" => \A p, q \in RunsOf(s) : Busy(p)' /\ Busy(q)' => p = q
    BY <2>2, <2>3 DEF OrderInv, FullWaitSerial
  <2>6. \A q \in RunsOf(s) : worker'[q].pc = "none"
    BY <1>0, <1>1, <2>2
  <2> QED
    BY <1>1, <2>1, <2>4, <2>5, <2>6 DEF TurnOf
<1> QED
  BY <1>7, <1>8, <1>9, <1>10 DEF OrderInv

\* With no active session nothing is under way: no run is open or queued and
\* nobody holds the mutex.
LEMMA NothingActive ==
    ASSUME TypeOK, OrderInv, NoActiveSession
    PROVE  sched.pc = "idle" /\ \A q \in Runs : run[q] \notin OpenRun /\ run[q] # "queued"
<1>1. sched.pc = "idle"
  BY SchedFacts DEF OrderInv, HolderInv, NoActiveSession
<1>2. \A q \in Runs : run[q] \notin OpenRun /\ run[q] # "queued"
  BY RunFacts DEF OrderInv, RunsHaveSession, NoActiveSession, ActiveSession
<1> QED
  BY <1>1, <1>2

\* A new session starts with one caller of startNext.
LEMMA CreateSessionOrder ==
    ASSUME CommandInv, OrderInv, AdmittedAlone, NEW s \in Sessions, CreateSession(s)
    PROVE  OrderInv'
<1>0. TypeOK /\ FreshRuns /\ EvidenceLaunched
  BY DEF CommandInv
<1> DEFINE sources == {r \in RunsOf(s) : r[2] \in admission.sources}
<1>1. /\ sess[s] = "absent" /\ NoActiveSession
      /\ sess' = [sess EXCEPT ![s] = "queued"]
      /\ run' = [r \in Runs |-> IF r \in sources THEN "queued" ELSE run[r]]
      /\ wait' = [wait EXCEPT ![s] = admission.mode]
      /\ UNCHANGED <<composed, cmd, obs, assessed, worker, pending, cancelled, shuttingDown, sched>>
  BY DEF AdmittedAlone, Admitting, CreateSession
<1>2. PICK new : new.k = "next" /\ new.r \in RunsOf(s) /\ calls' = calls \cup {new}
  <2>1. PICK r \in sources : calls' = calls \cup {Call("next", r, FALSE, FALSE, TRUE)}
    BY DEF CreateSession
  <2> DEFINE call == Call("next", r, FALSE, FALSE, TRUE)
  <2>2. call.k = "next" /\ call.r = r
    BY DEF Call
  <2>3. call.k = "next" /\ call.r \in RunsOf(s) /\ calls' = calls \cup {call}
    BY <2>1, <2>2
  <2> HIDE DEF call
  <2> QED
    BY <2>3
<1>3. /\ sess'[s] = "queued" /\ \A t \in Sessions : t # s => sess'[t] = sess[t] /\ wait'[t] = wait[t]
      /\ \A q \in Runs : run'[q] = (IF q \in sources THEN "queued" ELSE run[q])
      /\ \A q \in sources : q \in Runs /\ q[1] = s
      /\ \A q \in Runs : q[1] = s => run[q] = "absent"
  BY <1>0, <1>1 DEF TypeOK, RunsOf, FreshRuns
<1> HIDE DEF sources
<1>4. sched.pc = "idle" /\ \A q \in Runs : run[q] \notin OpenRun /\ run[q] # "queued"
  BY <1>0, <1>1, NothingActive
<1>5. Uncancelled'
  BY <1>1, <1>2, <1>3, SchedFacts, <1>0 DEF OrderInv, Uncancelled, RunsOf
<1>6. RunsHaveSession'
  BY <1>3, <1>4 DEF RunsHaveSession, OpenRun, ActiveSession
<1>7. HolderInv'
  BY <1>1, <1>4 DEF HolderInv
<1>8. PublishedRuns'
  <2>1. SUFFICES ASSUME NEW t \in Sessions, sess'[t] \in Published
                 PROVE  Settled(t)' /\ (sess'[t] # "failed" => composed'[t] = CompletedRuns(t)')
    BY DEF PublishedRuns
  <2>2. t # s /\ \A q \in RunsOf(t) : q \in Runs /\ run'[q] = run[q]
    BY <1>3, <2>1 DEF Published, RunsOf
  <2>3. Settled(t)' = Settled(t) /\ CompletedRuns(t)' = CompletedRuns(t)
    BY <2>2 DEF Settled, CompletedRuns, RunsOf
  <2> QED
    BY <1>1, <1>3, <2>1, <2>2, <2>3 DEF OrderInv, PublishedRuns
<1>9. FullWaitSerial'
  BY <1>3, <1>4 DEF FullWaitSerial, OpenRun
<1>10. ASSUME NEW q \in Runs PROVE RowOf(q)'
  <2>0. RowOf(q)
    BY DEF OrderInv
  <2>1. \A c \in calls' : c.k \in {"launch", "next_launch"} /\ c.r = q => c \in calls
    BY <1>2
  <2>2. CASE run'[q] = run[q]
    BY <1>1, <2>0, <2>1, <2>2, RowKept
  <2>3. CASE run[q] = "absent" /\ run'[q] = "queued"
    <3>1. Launches(q)' = {} /\ ~ Working(q)'
      BY <1>1, <2>0, <2>1, <2>3 DEF RowOf, TokenOf, Launches, Working
    <3>2. TokenOf(q)'
      BY <1>1, <2>0, <2>3, <3>1 DEF RowOf, TokenOf
    <3> QED
      BY <1>1, <2>0, <2>3, <3>2 DEF RowOf
  <2> QED
    BY <1>3, <2>2, <2>3
<1>11. ASSUME NEW t \in Sessions PROVE TurnOf(t)'
  <2>0. TurnOf(t) /\ RunsOf(t)' = RunsOf(t)
    BY DEF OrderInv, RunsOf
  <2>1. CASE t # s
    <3>1. ~ Unstarted(t)'
      BY <1>1, <1>3, <1>4, <2>1 DEF Unstarted, RunsOf
    <3>2. \A c \in calls' : c.k = "next_launch" => c \in calls
      BY <1>2
    <3> QED
      BY <1>3, <2>0, <2>1, <3>1, <3>2 DEF TurnOf
  <2>2. CASE t = s
    <3>1. \A c \in calls : c.r[1] # s
      BY <1>1 DEF OrderInv, Uncancelled
    <3>2. \A c \in calls' : c.r[1] = s => c = new
      BY <1>2, <3>1
    <3>3. NextCalls(s)' \subseteq {new} /\ \A c \in calls' : c.k = "next_launch" => c.r[1] # s
      BY <1>2, <3>2 DEF NextCalls
    <3>4. \A q \in RunsOf(s) : worker[q].pc = "none" /\ run'[q] \notin OpenRun
      <4>1. ASSUME NEW q \in Runs, q[1] = s PROVE ~ HasWorker(q)
        BY <1>1, <4>1, WorkedRun
      <4> QED
        BY <1>3, <4>1 DEF HasWorker, RunsOf, OpenRun
    <3>5. \A q \in RunsOf(s) : ~ Busy(q)'
      BY <1>1, <3>4 DEF Busy
    <3> QED
      BY <1>1, <2>0, <2>2, <3>3, <3>4, <3>5 DEF TurnOf
  <2> QED
    BY <2>1, <2>2
<1> QED
  BY <1>5, <1>6, <1>7, <1>8, <1>9, <1>10, <1>11 DEF OrderInv

\* A failed run is evaluated again when nothing else is under way.
LEMMA RetryOrder ==
    ASSUME CommandInv, OrderInv, AdmittedAlone, NEW r \in Runs, RetryFailedRun(r)
    PROVE  OrderInv'
<1>0. TypeOK /\ r[1] \in Sessions
  BY RunFacts DEF CommandInv
<1>1. /\ NoActiveSession /\ run[r] = "failed" /\ ~ assessed[r] /\ obs[r] > 0
      /\ sess' = [sess EXCEPT ![r[1]] = "running"] /\ run' = [run EXCEPT ![r] = "reasoning"]
      /\ UNCHANGED <<wait, composed, cmd, obs, assessed, worker, pending, cancelled, shuttingDown, sched>>
  BY DEF AdmittedAlone, Admitting, RetryFailedRun
<1>2. PICK new : new.k = "launch" /\ new.r = r /\ calls' = calls \cup {new}
  <2> DEFINE call == Call("launch", r, FALSE, FALSE, FALSE)
  <2>1. calls' = calls \cup {call}
    BY DEF RetryFailedRun
  <2>2. call.k = "launch" /\ call.r = r
    BY DEF Call
  <2> HIDE DEF call
  <2> QED
    BY <2>1, <2>2
<1>3. /\ run'[r] = "reasoning" /\ \A q \in Runs : q # r => run'[q] = run[q]
      /\ sess'[r[1]] = "running" /\ \A t \in Sessions : t # r[1] => sess'[t] = sess[t]
  BY <1>0, <1>1 DEF TypeOK
<1>4. sched.pc = "idle" /\ \A q \in Runs : run[q] \notin OpenRun /\ run[q] # "queued"
  BY <1>0, <1>1, NothingActive
<1>5. Uncancelled'
  <2>1. sess[r[1]] # "absent"
    BY <1>1, StartedRun
  <2>2. \A s \in Sessions : (sess'[s] = "absent" => sess[s] = "absent") /\ sess'[s] # "cancelled"
    BY <1>3 DEF OrderInv, Uncancelled
  <2>3. \A q \in Runs : run'[q] # "cancelled" /\ (worker'[q].dead => shuttingDown')
    BY <1>1, <1>3 DEF OrderInv, Uncancelled
  <2>4. \A c \in calls' : c \in calls \/ (c.k # "cancel" /\ sess[c.r[1]] # "absent" /\ c.r \in Runs)
    BY <1>2, <2>1
  <2> QED
    BY <1>0, <1>1, <2>2, <2>3, <2>4, CallsKept
<1>6. RunsHaveSession'
  BY <1>3, <1>4 DEF RunsHaveSession
<1>7. HolderInv'
  BY <1>1, <1>4 DEF HolderInv
<1>8. PublishedRuns'
  <2>1. SUFFICES ASSUME NEW t \in Sessions, sess'[t] \in Published
                 PROVE  Settled(t)' /\ (sess'[t] # "failed" => composed'[t] = CompletedRuns(t)')
    BY DEF PublishedRuns
  <2>2. t # r[1] /\ \A q \in RunsOf(t) : q \in Runs /\ run'[q] = run[q]
    BY <1>3, <2>1 DEF Published, RunsOf
  <2>3. Settled(t)' = Settled(t) /\ CompletedRuns(t)' = CompletedRuns(t)
    BY <2>2 DEF Settled, CompletedRuns, RunsOf
  <2> QED
    BY <1>1, <1>3, <2>1, <2>2, <2>3 DEF OrderInv, PublishedRuns
<1>9. FullWaitSerial'
  BY <1>3, <1>4 DEF FullWaitSerial
<1>10. ASSUME NEW q \in Runs PROVE RowOf(q)'
  <2>0. RowOf(q)
    BY DEF OrderInv
  <2>1. CASE q # r
    <3>1. \A c \in calls' : c.k \in {"launch", "next_launch"} /\ c.r = q => c \in calls
      BY <1>2, <2>1
    <3> QED
      BY <1>1, <1>3, <2>0, <2>1, <3>1, RowKept
  <2>2. CASE q = r
    <3>1. Launches(r) = {} /\ pending[r] = "none" /\ ~ Working(r) /\ worker[r].pc \notin {"advance", "failRun"}
      BY <1>1, <2>0, <2>2 DEF RowOf, TokenOf
    <3>2. Launches(r)' \subseteq {new}
      BY <1>2, <3>1 DEF Launches
    <3>3. ~ Working(r)'
      BY <1>1, <1>3, <3>1 DEF Working
    <3>4. TokenOf(r)'
      BY <1>1, <1>3, <3>1, <3>2, <3>3 DEF TokenOf
    <3> QED
      BY <1>1, <2>0, <2>2, <3>4 DEF RowOf
  <2> QED
    BY <2>1, <2>2
<1>11. ASSUME NEW t \in Sessions PROVE TurnOf(t)'
  <2>1. ~ Unstarted(t)'
    BY <1>1, <1>3, <1>4 DEF Unstarted, RunsOf
  <2>2. \A c \in calls' : c.k = "next_launch" => c \in calls
    BY <1>2
  <2> QED
    BY <1>1, <2>1, <2>2 DEF OrderInv, TurnOf
<1> QED
  BY <1>5, <1>6, <1>7, <1>8, <1>9, <1>10, <1>11 DEF OrderInv

\* A worker moves on within process, or from it to the error path, and takes
\* the accepted evidence with it.
LEMMA WorkerGoesOn ==
    ASSUME CommandInv, OrderInv, NEW r \in Runs, Working(r),
           UNCHANGED <<sess, wait, composed, run, cmd, obs, assessed, pending, cancelled, shuttingDown, calls, sched>>,
           worker'[r].dead = worker[r].dead, \A q \in Runs : q # r => worker'[q] = worker[q],
           worker'[r].pc \in {"error", "planning", "followUp", "evaluate", "empty", "complete", "failCaptured"}
    PROVE  OrderInv'
<1>1. RowOf(r) /\ run[r] = "reasoning" /\ pending[r] = "none" /\ Launches(r) = {}
  BY DEF OrderInv, RowOf, TokenOf
<1>2. TokenOf(r)'
  BY <1>1 DEF TokenOf, Launches
<1>3. RowOf(r)'
  BY <1>1, <1>2 DEF RowOf
<1>4. Flow /\ Busy(r)
  BY <1>1 DEF Flow, FlowOf, Busy, OpenRun
<1> QED
  BY <1>3, <1>4, OneRunMoves

\* The steps of process that write nothing the order is about.
LEMMA ProcessOrder ==
    ASSUME CommandInv, OrderInv, NEW r \in Runs,
           WorkerFails(r) \/ WorkerRead(r) \/ WorkerPlan(r) \/ WorkerEvaluate(r)
    PROVE  OrderInv'
<1>0. TypeOK /\ worker[r] \in Workers
  BY DEF CommandInv, TypeOK
<1>1. Working(r) /\ UNCHANGED <<sess, wait, composed, run, cmd, obs, assessed, pending, cancelled, shuttingDown, calls, sched>>
  BY DEF WorkerFails, WorkerRead, WorkerPlan, WorkerEvaluate, Alive, At, Working, Staged, OnlyWorker
<1>2. CASE WorkerFails(r)
  <2>1. worker'[r].pc = "error" /\ worker'[r].dead = worker[r].dead /\ \A q \in Runs : q # r => worker'[q] = worker[q]
    <3>1. PICK limit \in BOOLEAN : worker' = [worker EXCEPT ![r].pc = "error", ![r].usage = limit]
      BY <1>2 DEF WorkerFails
    <3> QED
      BY <1>0, <3>1 DEF TypeOK, Workers
  <2> QED
    BY <1>1, <2>1, WorkerGoesOn
<1>3. CASE WorkerRead(r) \/ WorkerPlan(r) \/ WorkerEvaluate(r)
  <2>1. PICK pc \in {"error", "planning", "followUp", "evaluate", "empty", "complete"} : To(r, pc)
    BY <1>3 DEF WorkerRead, WorkerPlan, WorkerEvaluate
  <2>2. worker'[r].pc = pc /\ worker'[r].dead = worker[r].dead /\ \A q \in Runs : q # r => worker'[q] = worker[q]
    BY <1>0, <2>1, WorkerMoves
  <2> QED
    BY <1>1, <2>2, WorkerGoesOn
<1> QED
  BY <1>2, <1>3

\* A worker without its context ends process with an error, or process is done.
LEMMA InterruptOrder ==
    ASSUME CommandInv, OrderInv, NEW r \in Runs, WorkerInterrupted(r) \/ WorkerReceipt(r)
    PROVE  OrderInv'
<1>0. TypeOK /\ worker[r] \in Workers
  BY DEF CommandInv, TypeOK
<1>1. UNCHANGED <<durable, pending, cancelled, shuttingDown, calls, sched>>
  BY DEF WorkerInterrupted, WorkerReceipt, OnlyWorker
<1>2. /\ worker'[r].dead = worker[r].dead /\ \A q \in Runs : q # r => worker'[q] = worker[q]
      /\ worker'[r].pc = "retire" \/ (worker'[r].pc = "error" /\ worker[r].dead)
  <2>1. CASE WorkerInterrupted(r)
    BY <1>0, <2>1, WorkerMoves DEF WorkerInterrupted
  <2>2. CASE WorkerReceipt(r)
    BY <1>0, <2>2 DEF WorkerReceipt, TypeOK, Workers
  <2> QED
    BY <2>1, <2>2
<1>3. RowOf(r) /\ Launches(r)' = Launches(r) /\ ~ Working(r)'
  BY <1>1, <1>2 DEF OrderInv, Launches, Working
<1>4. TokenOf(r)'
  BY <1>1, <1>2, <1>3 DEF RowOf, TokenOf
<1>5. RowOf(r)'
  BY <1>1, <1>3, <1>4 DEF RowOf
<1>6. Flow /\ (Busy(r)' => Busy(r))
  BY <1>1, <1>2 DEF Flow, FlowOf, Busy
<1> QED
  BY <1>1, <1>2, <1>5, <1>6, OneRunMoves

\* The run of a follow-up goes back to the bridge.
LEMMA FollowUpOrder ==
    ASSUME CommandInv, OrderInv, NEW r \in Runs, WorkerFollowUp(r)
    PROVE  OrderInv'
<1>0. TypeOK
  BY DEF CommandInv
<1>1. /\ Working(r)
      /\ UNCHANGED <<sess, wait, composed, obs, assessed, pending, cancelled, shuttingDown, calls, sched>>
  BY DEF WorkerFollowUp, Alive, At, Working, OnlyWorker
<1>2. RowOf(r) /\ run[r] = "reasoning" /\ pending[r] = "none" /\ Launches(r) = {} /\ ~ assessed[r]
  BY <1>1 DEF OrderInv, RowOf, TokenOf
<1>3. CASE ~ CaptureAllowed(r)
  <2>1. To(r, "error") /\ UNCHANGED <<run, cmd>>
    BY <1>3 DEF WorkerFollowUp
  <2>2. worker'[r].pc = "error" /\ worker'[r].dead = worker[r].dead /\ \A q \in Runs : q # r => worker'[q] = worker[q]
    BY <1>0, <2>1, WorkerMoves
  <2> QED
    BY <1>1, <2>1, <2>2, WorkerGoesOn
<1>4. CASE CaptureAllowed(r)
  <2>1. /\ run' = [run EXCEPT ![r] = "waiting_for_bridge"] /\ cmd' = [cmd EXCEPT ![<<r, 2>>] = "queued"]
        /\ To(r, "receipt")
    BY <1>2, <1>4 DEF WorkerFollowUp
  <2>2. worker'[r].pc = "receipt" /\ worker'[r].dead = worker[r].dead /\ \A q \in Runs : q # r => worker'[q] = worker[q]
    BY <1>0, <2>1, WorkerMoves
  <2>3. /\ run'[r] = "waiting_for_bridge" /\ \A q \in Runs : q # r => run'[q] = run[q]
        /\ \A q \in Runs, k \in {1, 2} : q # r => cmd'[<<q, k>>] = cmd[<<q, k>>]
    BY <1>0, <2>1, RunFacts DEF TypeOK
  <2>4. TokenOf(r)'
    BY <1>1, <1>2, <2>2, <2>3 DEF TokenOf, Launches, Working
  <2>5. RowOf(r)'
    BY <1>1, <1>2, <2>3, <2>4 DEF RowOf
  <2>6. Flow /\ Busy(r)
    BY <1>1, <1>2, <2>3 DEF Flow, FlowOf, Busy, OpenRun
  <2> QED
    BY <1>1, <2>2, <2>3, <2>5, <2>6, OneRunMoves
<1> QED
  BY <1>3, <1>4

\* A result is stored, once.
LEMMA CompleteOrder ==
    ASSUME CommandInv, OrderInv, NEW r \in Runs, WorkerComplete(r)
    PROVE  OrderInv'
<1>0. TypeOK
  BY DEF CommandInv
<1>1. /\ Working(r) /\ HasWorker(r)
      /\ UNCHANGED <<sess, wait, composed, cmd, obs, pending, cancelled, shuttingDown, calls, sched>>
  BY DEF WorkerComplete, Alive, At, Working, OnlyWorker, HasWorker
<1>2. RowOf(r) /\ run[r] = "reasoning" /\ pending[r] = "none" /\ Launches(r) = {} /\ ~ assessed[r] /\ obs[r] > 0
  BY <1>1 DEF OrderInv, RowOf, TokenOf, CommandInv, EvidenceLaunched
<1>3. /\ run' = [run EXCEPT ![r] = "completed"] /\ \A q \in Runs : q # r => assessed'[q] = assessed[q]
      /\ To(r, "advance")
  BY <1>0, <1>2 DEF WorkerComplete, TypeOK
<1>4. worker'[r].pc = "advance" /\ worker'[r].dead = worker[r].dead /\ \A q \in Runs : q # r => worker'[q] = worker[q]
  BY <1>0, <1>3, WorkerMoves
<1>5. run'[r] = "completed" /\ \A q \in Runs : q # r => run'[q] = run[q]
  BY <1>0, <1>3 DEF TypeOK
<1>6. TokenOf(r)'
  BY <1>1, <1>2, <1>4, <1>5 DEF TokenOf, Launches, Working
<1>7. RowOf(r)'
  BY <1>1, <1>2, <1>5, <1>6 DEF RowOf
<1>8. Flow /\ Busy(r)
  BY <1>1, <1>2, <1>5 DEF Flow, FlowOf, Busy, OpenRun
<1> QED
  BY <1>1, <1>3, <1>4, <1>5, <1>7, <1>8, OneRunMoves

\* The error path: a run in reasoning fails, a completed one is left alone.
LEMMA FailureOrder ==
    ASSUME CommandInv, OrderInv, NEW r \in Runs,
           WorkerError(r) \/ FailCapturedRunReasoning(r) \/ FailRun(r)
    PROVE  OrderInv'
<1>0. TypeOK /\ RowOf(r)
  BY DEF CommandInv, OrderInv
<1>1. UNCHANGED <<sess, wait, composed, cmd, obs, assessed, pending, cancelled, shuttingDown, calls, sched>>
  BY DEF WorkerError, FailCapturedRunReasoning, FailRun, OnlyWorker
<1>2. CASE WorkerError(r)
  <2>1. worker[r].pc = "error" /\ UNCHANGED run
    BY <1>2 DEF WorkerError, At
  <2>2. worker[r].dead => shuttingDown
    BY DEF OrderInv, Uncancelled
  <2>3. PICK pc \in {"retire", "failCaptured", "failRun"} :
          /\ To(r, pc)
          /\ worker[r].dead => pc = "retire"
          /\ ~ worker[r].dead => pc = IF run[r] = "reasoning" THEN "failCaptured" ELSE "failRun"
    BY <1>2, <2>2 DEF WorkerError
  <2>4. worker'[r].pc = pc /\ worker'[r].dead = worker[r].dead /\ \A q \in Runs : q # r => worker'[q] = worker[q]
    BY <1>0, <2>3, WorkerMoves
  <2>5. ~ worker[r].dead => Working(r) \/ run[r] = "completed"
    BY <2>1 DEF Working
  <2>6. ~ worker[r].dead => \/ run[r] = "reasoning" /\ pending[r] = "none" /\ Launches(r) = {}
                            \/ run[r] = "completed"
    BY <1>0, <2>5 DEF RowOf, TokenOf
  <2>7. Working(r)' => run[r] = "reasoning" /\ ~ worker[r].dead
    BY <2>3, <2>4 DEF Working
  <2>8. TokenOf(r)'
    BY <1>0, <1>1, <2>1, <2>3, <2>4, <2>6, <2>7 DEF RowOf, TokenOf, Launches
  <2>9. RowOf(r)'
    BY <1>0, <1>1, <2>1, <2>8 DEF RowOf
  <2>10. Flow /\ (Busy(r)' => Busy(r))
    BY <1>1, <2>1, <2>3, <2>4 DEF Flow, FlowOf, Busy
  <2> QED
    BY <1>1, <2>1, <2>4, <2>9, <2>10, OneRunMoves
<1>3. CASE FailCapturedRunReasoning(r) \/ FailRun(r)
  <2>1. /\ run[r] \in {"reasoning", "completed"}
        /\ run[r] = "reasoning" => pending[r] = "none" /\ Launches(r) = {} /\ sess[r[1]] = "running"
        /\ Busy(r)
    BY <1>0, <1>3 DEF FailCapturedRunReasoning, FailRun, At, RowOf, TokenOf, Working, OrderInv, RunsHaveSession, Busy, OpenRun
  <2>2. /\ run'[r] = (IF run[r] = "reasoning" THEN "failed" ELSE "completed")
        /\ \A q \in Runs : q # r => run'[q] = run[q]
        /\ \E pc \in {"stopPeers", "advanceAfter", "retire"} : To(r, pc)
    <3>1. CASE FailRun(r)
      <4>1. run[r] = "completed"
        BY <1>0, <3>1 DEF FailRun, At, RowOf, TokenOf
      <4> QED
        BY <3>1, <4>1 DEF FailRun, AfterFailure, TerminalRun
    <3>2. CASE FailCapturedRunReasoning(r)
      <4>1. run[r] = "reasoning"
        BY <1>0, <3>2 DEF FailCapturedRunReasoning, At, RowOf, TokenOf, Working
      <4> QED
        BY <1>0, <2>1, <3>2, <4>1 DEF FailCapturedRunReasoning, FailedRun, AfterFailure, TypeOK
    <3> QED
      BY <1>3, <3>1, <3>2
  <2>3. PICK pc \in {"stopPeers", "advanceAfter", "retire"} : To(r, pc)
    BY <2>2
  <2>4. worker'[r].pc = pc /\ worker'[r].dead = worker[r].dead /\ \A q \in Runs : q # r => worker'[q] = worker[q]
    BY <1>0, <2>3, WorkerMoves
  <2>5. ~ Working(r)' /\ run'[r] \notin OpenRun /\ Launches(r)' = Launches(r)
    BY <1>1, <2>2, <2>4 DEF Working, OpenRun, Launches
  <2>6. TokenOf(r)'
    BY <1>0, <1>1, <2>1, <2>2, <2>4, <2>5 DEF RowOf, TokenOf
  <2>7. RowOf(r)'
    BY <1>0, <1>1, <2>1, <2>2, <2>6 DEF RowOf
  <2>8. Flow
    BY <1>1, <2>1, <2>2 DEF Flow, FlowOf, OpenRun
  <2> QED
    BY <1>1, <2>1, <2>2, <2>4, <2>5, <2>7, <2>8, OneRunMoves
<1> QED
  BY <1>2, <1>3

\* A worker leaves; the queued rerun behind it is launched.
LEMMA RetireOrder ==
    ASSUME CommandInv, OrderInv, NEW r \in Runs, WorkerRetire(r)
    PROVE  OrderInv'
<1>0. TypeOK /\ RowOf(r) /\ NoWorker.pc = "none" /\ ~ NoWorker.dead
  BY DEF CommandInv, OrderInv, NoWorker
<1>1. /\ worker[r].pc = "retire" /\ worker' = [worker EXCEPT ![r] = NoWorker]
      /\ pending' = [pending EXCEPT ![r] = "none"] /\ UNCHANGED <<durable, cancelled, shuttingDown, sched>>
  BY DEF WorkerRetire, At
<1>2. /\ worker'[r].pc = "none" /\ ~ worker'[r].dead /\ pending'[r] = "none"
      /\ \A q \in Runs : q # r => worker'[q] = worker[q] /\ pending'[q] = pending[q]
  BY <1>0, <1>1 DEF TypeOK
<1>3. PICK new : /\ new.k = "launch" /\ new.r = r
                 /\ calls' = calls \/ (calls' = calls \cup {new} /\ pending[r] # "none")
  <2> DEFINE call == Call("launch", r, pending[r] = "plan", FALSE, FALSE)
  <2>1. calls' = calls \/ (calls' = calls \cup {call} /\ pending[r] # "none")
    BY DEF WorkerRetire
  <2>2. call.k = "launch" /\ call.r = r
    BY DEF Call
  <2> HIDE DEF call
  <2> QED
    BY <2>1, <2>2
<1>4. (\A c, d \in Launches(r)' : c = d) /\ (Launches(r)' # {} => run[r] = "reasoning")
  <2>1. CASE calls' = calls
    BY <1>0, <2>1 DEF RowOf, TokenOf, Launches
  <2>2. CASE calls' = calls \cup {new} /\ pending[r] # "none"
    <3>1. Launches(r) = {} /\ run[r] = "reasoning"
      BY <1>0, <2>2 DEF RowOf, TokenOf
    <3>2. Launches(r)' \subseteq {new}
      BY <2>2, <3>1 DEF Launches
    <3> QED
      BY <3>1, <3>2
  <2> QED
    BY <1>3, <2>1, <2>2
<1>5. TokenOf(r)'
  BY <1>1, <1>2, <1>4 DEF TokenOf, Working
<1>6. RowOf(r)'
  BY <1>0, <1>1, <1>5 DEF RowOf
<1>7. Flow /\ (Busy(r)' => Busy(r))
  BY <1>1, <1>2 DEF Flow, FlowOf, Busy
<1>8. sess[r[1]] # "absent"
  BY <1>1, WorkedRun DEF HasWorker
<1> QED
  BY <1>1, <1>2, <1>3, <1>6, <1>7, <1>8, OneRunMoves

\* A usage limit fails the sources that were not started.
LEMMA StopPeersOrder ==
    ASSUME CommandInv, OrderInv, NEW r \in Runs, FailQueuedAfterReasoningFailure(r)
    PROVE  OrderInv'
<1>0. TypeOK
  BY DEF CommandInv
<1>1. /\ worker[r].pc = "stopPeers"
      /\ UNCHANGED <<sess, wait, composed, cmd, obs, assessed, pending, cancelled, shuttingDown, calls, sched>>
  BY DEF FailQueuedAfterReasoningFailure, At, OnlyWorker
<1>2. \A q \in Runs : run'[q] = run[q] \/ (run[q] = "queued" /\ run'[q] = "failed")
  BY DEF FailQueuedAfterReasoningFailure
<1>3. /\ worker'[r].pc \in {"advanceAfter", "retire"} /\ worker'[r].dead = worker[r].dead
      /\ \A q \in Runs : q # r => worker'[q] = worker[q]
  <2>1. PICK pc \in {"advanceAfter", "retire"} : To(r, pc)
    BY DEF FailQueuedAfterReasoningFailure
  <2> QED
    BY <1>0, <2>1, WorkerMoves
<1>4. run'[r] = run[r]
  BY <1>1, <1>2, WorkedRun DEF HasWorker
<1>5. Flow
  BY <1>1, <1>2 DEF Flow, FlowOf
<1>6. RunsHaveSession' /\ HolderInv' /\ PublishedRuns' /\ FullWaitSerial'
  BY <1>0, <1>5, FlowKeeps
<1>7. Uncancelled'
  BY <1>1, <1>2, <1>3 DEF OrderInv, Uncancelled
<1>8. ASSUME NEW q \in Runs PROVE RowOf(q)'
  <2>0. RowOf(q) /\ Launches(q)' = Launches(q)
    BY <1>1 DEF OrderInv, Launches
  <2>1. CASE q = r
    <3>1. TokenOf(r)'
      BY <1>1, <1>3, <1>4, <2>0, <2>1 DEF RowOf, TokenOf, Working
    <3> QED
      BY <1>1, <1>4, <2>0, <2>1, <3>1 DEF RowOf
  <2>2. CASE q # r /\ run'[q] = run[q]
    BY <1>1, <1>3, <2>0, <2>2, RowKept
  <2>3. CASE q # r /\ run[q] = "queued" /\ run'[q] = "failed"
    <3>1. TokenOf(q)'
      BY <1>1, <1>3, <2>0, <2>3 DEF RowOf, TokenOf, Working
    <3> QED
      BY <1>1, <2>0, <2>3, <3>1 DEF RowOf
  <2> QED
    BY <1>2, <2>1, <2>2, <2>3, <1>4
<1>9. ASSUME NEW s \in Sessions PROVE TurnOf(s)'
  <2>1. TurnOf(s) /\ (Unstarted(s)' => Unstarted(s))
    BY <1>5, FlowUnstarted DEF OrderInv
  <2>2. ASSUME NEW q \in RunsOf(s)
        PROVE  /\ Busy(q)' => Busy(q)
               /\ worker'[q].pc \in {"stopPeers", "advanceAfter"} /\ run'[q] \in OpenRun =>
                  worker[q].pc \in {"stopPeers", "advanceAfter"} /\ run[q] \in OpenRun
    <3>1. q \in Runs /\ (run'[q] \in OpenRun => run[q] \in OpenRun)
      BY <1>2 DEF RunsOf, OpenRun
    <3>2. CASE q = r
      BY <1>1, <3>1, <3>2 DEF Busy
    <3>3. CASE q # r
      BY <1>3, <3>1, <3>3 DEF Busy
    <3> QED
      BY <3>2, <3>3
  <2> QED
    BY <1>1, <2>1, <2>2, TurnKept
<1> QED
  BY <1>6, <1>7, <1>8, <1>9 DEF OrderInv

\* What a step does to the counts of the bounds.
LEMMA SpentSteps ==
    ASSUME Next
    PROVE  \/ UNCHANGED spent
           \/ \E s \in Sessions : CancelSession(s)
           \/ \E r \in Runs : RetryFailedRun(r)
           \/ \E what \in {"restarts", "disconnects"} : Spend(what)
<1>1. ASSUME NEW s \in Sessions, CreateSession(s)
      PROVE  UNCHANGED spent
  BY <1>1 DEF CreateSession
<1>2. ASSUME NEW r \in Runs, WorkerStep(r)
      PROVE  UNCHANGED spent
  BY <1>2 DEF WorkerStep, WorkerInterrupted, WorkerFails, WorkerRead, WorkerPlan, WorkerFollowUp, WorkerReceipt,
              WorkerEvaluate, WorkerComplete, WorkerError, FailCapturedRunReasoning, FailRun,
              FailQueuedAfterReasoningFailure, WorkerRetire, OnlyWorker
<1>3. ASSUME NEW r \in Runs, NEW k \in {1, 2}, Bridge(r, k)
      PROVE  UNCHANGED spent
  BY <1>3 DEF Bridge, ClaimCommand, AcceptObservation, SaveObservation, FailCommand, ExpireCommand,
              FailedCommand, FailCommandTx
<1>4. ASSUME (\E c \in Callers : NextBegin(c)) \/ ScheduleStep
      PROVE  UNCHANGED spent
  BY <1>4 DEF NextBegin, ScheduleStep, NextAbort, NextPick, Pick, StartRun, Compose, Finalizing, Publish,
              PublishWrite, Return, Goto
<1>5. ASSUME NEW c \in calls, Launch(c) \/ CancelStored(c) \/ Disconnect(c)
      PROVE  UNCHANGED spent \/ Spend("disconnects")
  BY <1>5 DEF Launch, CancelStored, CancelTx, Disconnect
<1>6. ASSUME AdmissionReads \/ ConfirmXCaptureRecovery \/ Shutdown \/ Restart
      PROVE  UNCHANGED spent \/ Spend("restarts")
  BY <1>6 DEF AdmissionReads, AdmitSources, AdmitAlone, ReevaluateFailedRun, AdmissionFails, OnlyAdmission,
              ConfirmXCaptureRecovery, Shutdown, Restart, ResumePendingReasoning
<1> QED
  BY <1>1, <1>2, <1>3, <1>4, <1>5, <1>6 DEF Next

\* A cancellation is counted and never taken back.
LEMMA CancelsCounted ==
    ASSUME TypeOK, Next, spent'["cancels"] = 0
    PROVE  spent["cancels"] = 0 /\ ~ \E s \in Sessions : CancelSession(s)
<1>1. spent["cancels"] \in Nat
  BY DEF TypeOK
<1>2. ASSUME NEW s \in Sessions, CancelSession(s) PROVE FALSE
  BY <1>1, <1>2 DEF CancelSession, Spend, TypeOK
<1>3. ASSUME NEW r \in Runs, RetryFailedRun(r) PROVE Spend("retries")
  BY <1>3 DEF RetryFailedRun
<1>4. ASSUME NEW what \in {"restarts", "retries", "disconnects"}, Spend(what)
      PROVE  spent'["cancels"] = spent["cancels"]
  BY <1>4 DEF Spend, TypeOK
<1> QED
  BY <1>2, <1>3, <1>4, SpentSteps

\* The order holds at first.
LEMMA OrderInit == Init => OrderInv
<1> SUFFICES ASSUME Init PROVE OrderInv
  OBVIOUS
<1>1. IdleSched.pc = "idle" /\ NoWorker.pc = "none" /\ ~ NoWorker.dead
  BY DEF IdleSched, NoWorker
<1>2. /\ \A s \in Sessions : sess[s] = "absent"
      /\ \A r \in Runs : /\ run[r] = "absent" /\ worker[r] = NoWorker /\ pending[r] = "none"
                         /\ ~ assessed[r] /\ ~ cancelled[r]
      /\ \A c \in Commands : cmd[c] = "none"
      /\ calls = {} /\ sched = IdleSched
  BY DEF Init
<1>3. Uncancelled /\ RunsHaveSession /\ HolderInv /\ PublishedRuns /\ FullWaitSerial
  BY <1>1, <1>2 DEF Uncancelled, RunsHaveSession, HolderInv, PublishedRuns, FullWaitSerial, OpenRun, Published
<1>4. ASSUME NEW r \in Runs PROVE RowOf(r)
  BY <1>1, <1>2, RunFacts DEF RowOf, TokenOf, Launches, Working, OpenCommand
<1>5. ASSUME NEW s \in Sessions PROVE TurnOf(s)
  BY <1>1, <1>2 DEF TurnOf, Unstarted, RunsOf
<1> QED
  BY <1>3, <1>4, <1>5 DEF OrderInv

\* Every step but a cancellation keeps it.
LEMMA OrderStep ==
    ASSUME CommandInv, OrderInv, AdmittedAlone, Next, ~ \E s \in Sessions : CancelSession(s)
    PROVE  OrderInv'
<1>1. ASSUME NEW r \in Runs, WorkerStep(r) PROVE OrderInv'
  BY <1>1, ProcessOrder, InterruptOrder, FollowUpOrder, CompleteOrder, FailureOrder, RetireOrder, StopPeersOrder
     DEF WorkerStep
<1>2. ASSUME NEW r \in Runs, NEW k \in {1, 2}, Bridge(r, k) PROVE OrderInv'
  <2>1. ASSUME NEW challenge \in BOOLEAN, FailCommand(r, k, challenge) PROVE OrderInv'
    BY <2>1, FailedCommandOrder DEF FailCommand, OpenCommand
  <2>2. CASE ExpireCommand(r, k)
    BY <2>2, FailedCommandOrder DEF ExpireCommand
  <2> QED
    BY <1>2, <2>1, <2>2, ClaimOrder, AcceptOrder DEF Bridge
<1>3. ASSUME NEW c \in calls, CancelStored(c) PROVE FALSE
  BY <1>3 DEF CancelStored, CancelTx, OrderInv, Uncancelled
<1>4. CASE AdmissionReads \/ ConfirmXCaptureRecovery
  <2>1. UNCHANGED <<sess, wait, composed, run, stage, cmd, obs, assessed, worker, pending, cancelled, shuttingDown, calls, sched>>
    BY <1>4, AdmissionOnly DEF OnlyAdmission, ConfirmXCaptureRecovery, CommandInv
  <2> QED
    BY <2>1 DEF OrderInv, Uncancelled, RunsHaveSession, HolderInv, PublishedRuns, FullWaitSerial, RowOf, TokenOf, TurnOf,
                Settled, CompletedRuns, RunsOf, Launches, NextCalls, Working, Busy, Unstarted
<1>5. CASE \E c \in calls : Launch(c) \/ CancelStored(c) \/ Disconnect(c)
  BY <1>3, <1>5, LaunchOrder, DisconnectOrder
<1> QED
  BY <1>1, <1>2, <1>4, <1>5, CreateSessionOrder, RetryOrder, ScheduleOrder, ShutdownOrder, RestartOrder DEF Next

\* A step that makes a session active goes through an admission: startNext only
\* writes sessions that are active, or publishes them.
LEMMA AloneStep ==
    ASSUME CommandInv, OrderInv, AdmittedAlone, Next
    PROVE  AdmittedAlone'
<1>0. TypeOK
  BY DEF CommandInv
<1>1. ASSUME admission'.pc = "idle" PROVE AdmittedAlone'
  BY <1>1 DEF AdmittedAlone
<1>2. ASSUME admission' = admission, \A s \in Sessions : sess'[s] \in ActiveSession => sess[s] \in ActiveSession
      PROVE  AdmittedAlone'
  BY <1>2 DEF AdmittedAlone, NoActiveSession
<1>3. NoAdmission.pc = "idle"
  BY DEF NoAdmission
<1>4. CASE AdmissionReads
  <2>1. sess' = sess
    BY <1>0, <1>4, AdmissionOnly DEF OnlyAdmission
  <2>2. CASE AdmitAlone
    BY <1>1, <1>3, <2>1, <2>2 DEF AdmitAlone, AdmittedAlone, NoActiveSession
  <2>3. ASSUME NEW r \in Runs, ReevaluateFailedRun(r) PROVE AdmittedAlone'
    BY <2>1, <2>3 DEF ReevaluateFailedRun, AdmittedAlone, NoActiveSession
  <2>4. ASSUME NEW mode \in WaitModes, AdmitSources(mode) PROVE AdmittedAlone'
    <3>1. admission'.pc = "check"
      BY <2>4 DEF AdmitSources, NoAdmission
    <3> QED
      BY <3>1 DEF AdmittedAlone
  <2> QED
    BY <1>1, <1>3, <1>4, <2>2, <2>3, <2>4 DEF AdmissionReads, AdmissionFails
<1>5. ASSUME \/ \E s \in Sessions : CreateSession(s)
             \/ \E r \in Runs : RetryFailedRun(r)
             \/ Restart
      PROVE  AdmittedAlone'
  BY <1>1, <1>3, <1>5 DEF CreateSession, RetryFailedRun, Restart, ResumePendingReasoning
<1>6. ASSUME NEW r \in Runs, WorkerStep(r) PROVE AdmittedAlone'
  <2>1. sess' = sess /\ admission' = admission
    BY <1>6 DEF WorkerStep, WorkerInterrupted, WorkerFails, WorkerRead, WorkerPlan, WorkerFollowUp, WorkerReceipt,
                WorkerEvaluate, WorkerComplete, WorkerError, FailCapturedRunReasoning, FailRun, Staged,
                FailQueuedAfterReasoningFailure, WorkerRetire, OnlyWorker
  <2> QED
    BY <1>2, <2>1
<1>7. ASSUME NEW r \in Runs, NEW k \in {1, 2}, Bridge(r, k) PROVE AdmittedAlone'
  <2>1. sess' = sess /\ admission' = admission
    BY <1>7 DEF Bridge, ClaimCommand, AcceptObservation, SaveObservation, FailCommand, ExpireCommand, FailedCommand,
                FailCommandTx
  <2> QED
    BY <1>2, <2>1
<1>8. CASE ScheduleStep \/ \E c \in Callers : NextBegin(c)
  <2>1. admission' = admission
    BY <1>8 DEF ScheduleStep, NextBegin, NextAbort, NextPick, Pick, StartRun, Compose, Finalizing, Publish, PublishWrite,
                Return, Goto
  <2>2. CASE sess' = sess
    BY <1>2, <2>1, <2>2
  <2>3. ASSUME StartRun, sess' # sess PROVE AdmittedAlone'
    <3>1. sched.pc = "start" /\ sess' = [sess EXCEPT ![sched.r[1]] = "running"]
      BY <2>3 DEF StartRun, Live, Step
    <3>2. sess[sched.r[1]] \in ActiveSession
      BY <3>1 DEF OrderInv, HolderInv
    <3> QED
      BY <1>0, <1>2, <2>1, <3>1, <3>2 DEF TypeOK
  <2>4. CASE PublishWrite
    <3>1. sess' = [sess EXCEPT ![sched.by.r[1]] = sched.status] /\ sched.status \in Published
      BY <2>4 DEF PublishWrite, Live, Step, OrderInv, HolderInv
    <3> QED
      BY <1>0, <1>2, <2>1, <3>1 DEF TypeOK, Published, ActiveSession
  <2> QED
    BY <1>8, <2>2, <2>3, <2>4 DEF ScheduleStep, NextBegin, NextAbort, NextPick, Pick, StartRun, Compose, Finalizing, Publish
<1>9. ASSUME NEW c \in calls, CancelStored(c) PROVE FALSE
  BY <1>9 DEF CancelStored, CancelTx, OrderInv, Uncancelled
<1>10. ASSUME \/ \E c \in calls : Launch(c) \/ Disconnect(c)
              \/ \E s \in Sessions : CancelSession(s)
              \/ ConfirmXCaptureRecovery \/ Shutdown
       PROVE  AdmittedAlone'
  <2>1. sess' = sess /\ admission' = admission
    BY <1>10 DEF Launch, Disconnect, CancelSession, ConfirmXCaptureRecovery, Shutdown
  <2> QED
    BY <1>2, <2>1
<1>11. CASE \E c \in calls : Launch(c) \/ CancelStored(c) \/ Disconnect(c)
  BY <1>9, <1>10, <1>11
<1> QED
  BY <1>4, <1>5, <1>6, <1>7, <1>8, <1>10, <1>11 DEF Next

\* As long as nothing is cancelled the order is kept.
LEMMA UncancelledOrder == Spec => [](spent["cancels"] = 0 => OrderInv)
<1> DEFINE Alone == spent["cancels"] = 0 => OrderInv /\ AdmittedAlone
<1>1. Init => Alone
  BY OrderInit DEF Init, AdmittedAlone, NoAdmission
<1>2. CommandInv /\ Alone /\ [Next]_vars => Alone'
  <2> SUFFICES ASSUME CommandInv, Alone, [Next]_vars, spent'["cancels"] = 0
               PROVE  OrderInv' /\ AdmittedAlone'
    OBVIOUS
  <2>1. CASE Next
    <3>1. TypeOK
      BY DEF CommandInv
    <3> QED
      BY <2>1, <3>1, CancelsCounted, OrderStep, AloneStep
  <2>2. CASE UNCHANGED vars
    <3>1. OrderInv /\ AdmittedAlone
      BY <2>2 DEF vars
    <3> QED
      BY <2>2, <3>1 DEF vars, OrderInv, Uncancelled, RunsHaveSession, HolderInv, PublishedRuns, FullWaitSerial, RowOf,
                TokenOf, TurnOf, Settled, CompletedRuns, RunsOf, Launches, NextCalls, Working, Busy, Unstarted,
                AdmittedAlone, NoActiveSession
  <2> QED
    BY <2>1, <2>2
<1>3. Alone => (spent["cancels"] = 0 => OrderInv)
  OBVIOUS
<1> QED
  BY <1>1, <1>2, <1>3, CommandDiscipline, PTL DEF Spec

\* The sources of a session are worked on in order: only waiting runs of running
\* sessions have commands, full_wait has one source in hand at a time, and only
\* completed runs have results (StartRun, QueueFollowUp, CompleteRun,
\* RetryFailedRun), through restarts, retries, pauses and disconnects.  A
\* cancellation is excluded: CancelSession and startNext may overtake each other.
THEOREM SourcesInOrder == Spec => [](spent["cancels"] = 0 => RunsInOrder)
<1>1. (spent["cancels"] = 0 => OrderInv) => (spent["cancels"] = 0 => RunsInOrder)
  BY OrderImplies
<1> QED
  BY <1>1, UncancelledOrder, PTL

\* What is published is the whole session: finalizeSessionLocked stays behind
\* the last source, and the Timeline holds exactly what was completed.
THEOREM PublicationIsWhole == Spec => [](spent["cancels"] = 0 => WholePublication)
<1>1. (spent["cancels"] = 0 => OrderInv) => (spent["cancels"] = 0 => WholePublication)
  BY OrderImplies
<1> QED
  BY <1>1, UncancelledOrder, PTL

-----------------------------------------------------------------------------
(* Cancellations.  They take the order away, but not everything: CancelInv   *)
(* holds whatever happens, and ResultOf of every run unless one is           *)
(* re-evaluated.                                                             *)

\* CancelSession of the Store is called for marked runs.
CancelCalls == \A c \in calls : c.k = "cancel" => \A q \in RunsOf(c.r[1]) : cancelled[q]

\* What the holder of the mutex is about to write.
HolderWrites ==
    /\ sched.pc = "start" => obs[sched.r] = 0
    /\ sched.pc = "write" => sched.status \in Published

\* A cancellation takes the context of a run's worker away, and in a session
\* that is stored as cancelled nothing of the run is open or, in a later
\* process, at work.
GuardOf(r) ==
    /\ HasWorker(r) /\ cancelled[r] => worker[r].dead
    /\ worker[r].dead => cancelled[r] \/ shuttingDown
    /\ sess[r[1]] = "cancelled" =>
         /\ run[r] \in TerminalRun \cup {"absent"}
         /\ \A k \in {1, 2} : cmd[<<r, k>>] \notin OpenCommand
         /\ ~ cancelled[r] => ~ HasWorker(r) /\ Launches(r) = {}

CancelInv == CancelCalls /\ HolderWrites /\ \A r \in Runs : GuardOf(r)

\* A completed run has no open command, and unless it is marked the evidence of
\* a run is in one hand as before.
ResultOf(r) ==
    /\ pending[r] # "none" => HasWorker(r)
    /\ run[r] = "completed" => obs[r] > 0
    /\ \A k \in {1, 2} : cmd[<<r, k>>] \in OpenCommand => run[r] \in {"waiting_for_bridge", "failed"}
    /\ ~ cancelled[r] => TokenOf(r)

ResultInv == spent["retries"] = 0 => \A r \in Runs : ResultOf(r)

\* A step keeps what is said of a run.
Kept(q) == GuardOf(q)' /\ (ResultOf(q) => ResultOf(q)')

\* A run that is left alone, or ends before anybody has evidence of it.
StillOf(q) ==
    /\ run'[q] = run[q] \/ (run[q] \in {"queued", "waiting_for_bridge"} /\ run'[q] = "failed")
    /\ worker'[q] = worker[q] /\ pending'[q] = pending[q] /\ obs'[q] = obs[q] /\ cancelled'[q] = cancelled[q]
    /\ \A k \in {1, 2} : cmd'[<<q, k>>] \in OpenCommand => cmd[<<q, k>>] \in OpenCommand
    /\ Launches(q)' \subseteq Launches(q)
    /\ sess'[q[1]] = "cancelled" => sess[q[1]] = "cancelled"

\* What is said of such a run is kept.
LEMMA StillKept ==
    ASSUME NEW q \in Runs, StillOf(q), GuardOf(q), shuttingDown => shuttingDown'
    PROVE  Kept(q)
<1>1. HasWorker(q)' = HasWorker(q)
  BY DEF StillOf, HasWorker
<1>2. GuardOf(q)'
  BY <1>1 DEF StillOf, GuardOf, TerminalRun
<1>3. ASSUME ResultOf(q) PROVE ResultOf(q)'
  <2>1. ASSUME TokenOf(q) PROVE TokenOf(q)'
    <3>1. CASE run'[q] = run[q]
      <4>1. Working(q)' => Working(q)
        BY <3>1 DEF StillOf, Working
      <4> QED
        BY <2>1, <3>1, <4>1 DEF StillOf, TokenOf
    <3>2. CASE run[q] \in {"queued", "waiting_for_bridge"} /\ run'[q] = "failed"
      <4>1. ~ Working(q)' /\ Launches(q)' = {} /\ pending'[q] = "none"
        BY <2>1, <3>2 DEF StillOf, TokenOf, Working
      <4> QED
        BY <2>1, <3>2, <4>1 DEF StillOf, TokenOf
    <3> QED
      BY <3>1, <3>2 DEF StillOf
  <2>2. cancelled'[q] = cancelled[q]
    BY DEF StillOf
  <2>3. ~ cancelled'[q] => TokenOf(q)'
    BY <1>3, <2>1, <2>2 DEF ResultOf
  <2> QED
    BY <1>1, <1>3, <2>3 DEF StillOf, ResultOf
<1> QED
  BY <1>2, <1>3 DEF Kept

\* startNext returns: the runs whose rows stay are kept.
LEMMA ReturnKept ==
    ASSUME CommandInv, NEW c \in Callers, NEW ok, Return(c, ok), NEW q \in Runs, GuardOf(q),
           run'[q] = run[q], obs'[q] = obs[q], \A k \in {1, 2} : cmd'[<<q, k>>] = cmd[<<q, k>>],
           sess'[q[1]] = "cancelled" => sess[q[1]] = "cancelled"
    PROVE  Kept(q)
<1>0. TypeOK /\ UNCHANGED <<pending, cancelled, shuttingDown>>
  BY DEF CommandInv, Return
<1>1. \A d \in Launches(q)' : \/ d \in Launches(q) /\ d # c
                              \/ d = [c EXCEPT !.k = "launch"] /\ c \in Launches(q)
  BY ReturnCalls DEF Launches
<1>2. (\A d, e \in Launches(q) : d = e) => (\A d, e \in Launches(q)' : d = e)
  BY <1>1
<1>3. Launches(q)' # {} => Launches(q) # {}
  BY <1>1
<1>4. CASE worker'[q] = worker[q]
  <2>1. HasWorker(q)' = HasWorker(q) /\ (Working(q)' => Working(q))
    BY <1>4 DEF HasWorker, Working
  <2>2. GuardOf(q)'
    BY <1>0, <1>3, <1>4, <2>1 DEF GuardOf
  <2>3. TokenOf(q) => TokenOf(q)'
    BY <1>0, <1>2, <1>3, <1>4, <2>1 DEF TokenOf
  <2> QED
    BY <1>0, <2>1, <2>2, <2>3 DEF Kept, ResultOf
<1>5. CASE /\ worker[q].pc \in {"advance", "advanceAfter"} /\ worker'[q].dead = worker[q].dead
           /\ worker'[q].pc = "retire" \/ (worker'[q].pc = "error" /\ worker[q].pc = "advance")
  <2>1. HasWorker(q) /\ HasWorker(q)'
    BY <1>5 DEF HasWorker
  <2>2. GuardOf(q)'
    BY <1>0, <1>3, <1>5, <2>1 DEF GuardOf
  <2>3. ASSUME TokenOf(q) PROVE TokenOf(q)'
    <3>1. run[q] # "waiting_for_bridge" /\ ~ Working(q)'
      BY <1>5, <2>3 DEF TokenOf, Working
    <3> QED
      BY <1>0, <1>2, <1>3, <1>5, <2>3, <3>1 DEF TokenOf
  <2> QED
    BY <1>0, <2>1, <2>2, <2>3 DEF Kept, ResultOf
<1> QED
  BY <1>0, <1>4, <1>5, ReturnWorker

\* A source is started whose run has no evidence, and so nobody at work.
LEMMA StartRunKept ==
    ASSUME CommandInv, CancelInv, StartRun, NEW q \in Runs
    PROVE  Kept(q)
<1>0. TypeOK /\ EvidenceLaunched /\ HolderWrites /\ GuardOf(q)
  BY DEF CommandInv, CancelInv
<1>1. PICK r \in Runs : r = sched.r /\ r[1] \in Sessions
  BY <1>0, SchedFacts, RunFacts
<1>2. sched.pc = "start" /\ sched.by \in Callers /\ obs[r] = 0
  BY <1>0, <1>1 DEF StartRun, Live, Step, CommandInv, HolderWaits, HolderWrites
<1>3. CASE Return(sched.by, FALSE) /\ UNCHANGED durable
  BY <1>0, <1>2, <1>3, ReturnKept
<1>4. CASE CaptureAllowed(r)
  <2>1. /\ sess' = [sess EXCEPT ![r[1]] = "running"] /\ run' = [run EXCEPT ![r] = "waiting_for_bridge"]
        /\ cmd' = [cmd EXCEPT ![<<r, 1>>] = "queued"] /\ Return(sched.by, TRUE)
        /\ UNCHANGED <<obs, pending, cancelled, shuttingDown>>
    BY <1>1, <1>4 DEF StartRun, Return
  <2>2. /\ run'[r] = "waiting_for_bridge" /\ \A p \in Runs : p # r => run'[p] = run[p]
        /\ sess'[r[1]] = "running" /\ \A t \in Sessions : t # r[1] => sess'[t] = sess[t]
        /\ \A p \in Runs, k \in {1, 2} : p # r => cmd'[<<p, k>>] = cmd[<<p, k>>]
    BY <1>0, <1>1, <2>1, RunFacts DEF TypeOK
  <2>3. CASE q # r
    <3>1. q[1] \in Sessions
      BY RunFacts
    <3>2. sess'[q[1]] = "cancelled" => sess[q[1]] = "cancelled"
      BY <2>2, <3>1
    <3> QED
      BY <1>0, <1>2, <2>1, <2>2, <2>3, <3>2, ReturnKept
  <2>4. CASE q = r
    <3>1. worker[r].pc = "none" /\ worker'[r] = worker[r]
      <4>1. worker[r].pc = "none"
        BY <1>0, <1>2 DEF EvidenceLaunched, HasWorker
      <4> QED
        BY <1>0, <1>2, <2>1, <4>1, ReturnWorker
    <3>2. Launches(r) = {}
      BY <1>0, <1>2 DEF EvidenceLaunched, Launches
    <3>3. Launches(r)' = {}
      <4>1. \A d \in calls' : d.k \in {"launch", "next_launch"} /\ d.r = r =>
                \/ d \in Launches(r)
                \/ sched.by \in Launches(r)
        BY <1>2, <2>1, ReturnCalls DEF Launches
      <4> QED
        BY <3>2, <4>1 DEF Launches
    <3>4. GuardOf(r)'
      BY <1>0, <2>1, <2>2, <2>4, <3>1 DEF GuardOf, HasWorker
    <3>5. ASSUME ResultOf(r) PROVE ResultOf(r)'
      <4>1. pending'[r] = "none"
        BY <2>1, <3>1, <3>5 DEF ResultOf, HasWorker
      <4>2. TokenOf(r)'
        BY <2>2, <3>1, <3>3, <4>1 DEF TokenOf, Working
      <4> QED
        BY <2>2, <4>1, <4>2 DEF ResultOf
    <3> QED
      BY <2>4, <3>4, <3>5 DEF Kept
  <2> QED
    BY <2>3, <2>4
<1> QED
  BY <1>1, <1>3, <1>4 DEF StartRun

\* Every step of startNext keeps every run.
LEMMA ScheduleKept ==
    ASSUME CommandInv, CancelInv, ScheduleStep \/ \E c \in Callers : NextBegin(c), NEW q \in Runs
    PROVE  Kept(q)
<1>0. TypeOK /\ HolderWrites /\ GuardOf(q) /\ q[1] \in Sessions
  BY RunFacts DEF CommandInv, CancelInv
<1>1. sched.pc # "idle" => sched.by \in Callers
  BY DEF CommandInv, HolderWaits
<1>2. ASSUME UNCHANGED <<sess, run, cmd, obs, worker, pending, cancelled, shuttingDown, calls>>
      PROVE  Kept(q)
  <2>1. StillOf(q)
    BY <1>2 DEF StillOf, Launches
  <2> QED
    BY <1>0, <1>2, <2>1, StillKept
<1>3. ASSUME NEW c \in Callers, NEW ok, Return(c, ok), UNCHANGED <<sess, run, cmd, obs>>
      PROVE  Kept(q)
  BY <1>0, <1>3, ReturnKept
<1>4. ASSUME NEW c \in Callers, NextBegin(c) PROVE Kept(q)
  BY <1>2, <1>3, <1>4 DEF NextBegin
<1>5. CASE NextAbort \/ NextPick \/ Compose \/ Finalizing \/ Publish
  <2>1. /\ UNCHANGED <<sess, run, cmd, obs>> /\ sched.pc # "idle"
        /\ \/ UNCHANGED <<worker, pending, cancelled, shuttingDown, calls>>
           \/ Return(sched.by, TRUE) \/ Return(sched.by, FALSE)
    BY <1>5 DEF NextAbort, NextPick, Pick, Compose, Finalizing, Publish, Goto, Live, Step
  <2> QED
    BY <1>1, <1>2, <1>3, <2>1
<1>6. CASE PublishWrite
  <2>1. /\ sched.pc = "write" /\ UNCHANGED <<run, cmd, obs>> /\ Return(sched.by, TRUE)
        /\ sess' = [sess EXCEPT ![sched.by.r[1]] = sched.status]
    BY <1>6 DEF PublishWrite, Live, Step
  <2>2. sched.status # "cancelled"
    BY <1>0, <2>1 DEF HolderWrites, Published
  <2>3. sess'[q[1]] = "cancelled" => sess[q[1]] = "cancelled"
    BY <1>0, <2>1, <2>2 DEF TypeOK
  <2> QED
    BY <1>0, <1>1, <2>1, <2>3, ReturnKept
<1> QED
  BY <1>4, <1>5, <1>6, StartRunKept DEF ScheduleStep

\* Whoever has an open command of a run: its session is not cancelled, and
\* nobody has the evidence of the run in hand unless the run is marked.
LEMMA CommandHeld ==
    ASSUME CommandInv, CancelInv, NEW r \in Runs, NEW k \in {1, 2}, cmd[<<r, k>>] \in OpenCommand
    PROVE  /\ sess[r[1]] # "cancelled"
           /\ ResultOf(r) /\ ~ cancelled[r] =>
                /\ run[r] \in {"waiting_for_bridge", "failed"} /\ Launches(r) = {} /\ pending[r] = "none"
                /\ ~ Working(r) /\ worker[r].pc \notin {"advance", "failRun"}
                /\ worker[r].pc = "error" => worker[r].dead
<1>1. sess[r[1]] # "cancelled"
  BY DEF CancelInv, GuardOf
<1>2. ASSUME ResultOf(r), ~ cancelled[r]
      PROVE  /\ run[r] \in {"waiting_for_bridge", "failed"} /\ Launches(r) = {} /\ pending[r] = "none"
             /\ ~ Working(r) /\ worker[r].pc \notin {"advance", "failRun"}
             /\ worker[r].pc = "error" => worker[r].dead
  <2>1. run[r] \in {"waiting_for_bridge", "failed"} /\ TokenOf(r)
    BY <1>2 DEF ResultOf
  <2> QED
    BY <2>1 DEF TokenOf, Working
<1> QED
  BY <1>1, <1>2

\* The run of a settled command, with at most one call for it.
LEMMA SettledKept ==
    ASSUME CommandInv, CancelInv, NEW r \in Runs, NEW k \in {1, 2}, cmd[<<r, k>>] \in OpenCommand,
           UNCHANGED <<sess, memory>>, run'[r] \in {"reasoning", "failed"},
           obs'[r] = obs[r] \/ run'[r] = "reasoning",
           \A j \in {1, 2} : cmd'[<<r, j>>] \notin OpenCommand,
           NEW new, calls' = calls \cup {new}, new.k \in {"launch", "next_launch"} => run'[r] = "reasoning"
    PROVE  Kept(r)
<1>1. GuardOf(r) /\ sess'[r[1]] # "cancelled"
  BY CommandHeld DEF CancelInv
<1>2. GuardOf(r)'
  BY <1>1 DEF GuardOf, HasWorker
<1>3. ASSUME ResultOf(r) PROVE ResultOf(r)'
  <2>1. ASSUME ~ cancelled[r] PROVE TokenOf(r)'
    <3>1. /\ Launches(r) = {} /\ pending[r] = "none" /\ worker[r].pc \notin {"advance", "failRun"}
          /\ ~ Working(r) /\ (worker[r].pc = "error" => worker[r].dead)
      BY <1>3, <2>1, CommandHeld
    <3>2. Launches(r)' \subseteq {new} /\ (Launches(r)' # {} => run'[r] = "reasoning")
      BY <3>1 DEF Launches
    <3>3. ~ Working(r)'
      BY <3>1 DEF Working
    <3> QED
      BY <3>1, <3>2, <3>3 DEF TokenOf
  <2> QED
    BY <1>3, <2>1 DEF ResultOf, HasWorker
<1> QED
  BY <1>2, <1>3 DEF Kept

\* The bridge claims a command, or an observation is accepted.
LEMMA BridgeKept ==
    ASSUME CommandInv, CancelInv, NEW r \in Runs, NEW k \in {1, 2}, NEW q \in Runs,
           ClaimCommand(r, k) \/ \E plan \in BOOLEAN : AcceptObservation(r, k, plan)
    PROVE  Kept(q)
<1>0. TypeOK /\ GuardOf(q)
  BY DEF CommandInv, CancelInv
<1>1. CASE ClaimCommand(r, k)
  <2>1. /\ cmd[<<r, k>>] = "queued" /\ cmd' = [cmd EXCEPT ![<<r, k>>] = "claimed"]
        /\ UNCHANGED <<sess, run, obs, memory, calls>>
    BY <1>1 DEF ClaimCommand
  <2>2. \A p \in Runs, j \in {1, 2} : cmd'[<<p, j>>] \in OpenCommand => cmd[<<p, j>>] \in OpenCommand
    BY <1>0, <2>1, RunFacts DEF TypeOK, OpenCommand
  <2>3. StillOf(q)
    BY <2>1, <2>2 DEF StillOf, Launches
  <2> QED
    BY <1>0, <2>1, <2>3, StillKept
<1>2. ASSUME NEW plan \in BOOLEAN, AcceptObservation(r, k, plan) PROVE Kept(q)
  <2>1. /\ cmd[<<r, k>>] = "claimed" /\ cmd' = [cmd EXCEPT ![<<r, k>>] = "completed"]
        /\ obs' = [obs EXCEPT ![r] = @ + 1] /\ run' = [run EXCEPT ![r] = "reasoning"]
        /\ UNCHANGED <<sess, memory>>
    BY <1>2 DEF AcceptObservation, SaveObservation
  <2>2. cmd[<<r, k>>] \in OpenCommand
    BY <2>1 DEF OpenCommand
  <2>3. PICK new : new.r = r /\ calls' = calls \cup {new}
    <3>1. PICK kind : calls' = calls \cup {Call(kind, r, plan, TRUE, TRUE)}
      BY <1>2 DEF AcceptObservation, SaveObservation
    <3>2. Call(kind, r, plan, TRUE, TRUE).r = r
      BY DEF Call
    <3> QED
      BY <3>1, <3>2
  <2>4. run'[r] = "reasoning" /\ \A p \in Runs : p # r => run'[p] = run[p] /\ obs'[p] = obs[p]
    BY <1>0, <2>1 DEF TypeOK
  <2>5. \A p \in Runs, j \in {1, 2} : cmd'[<<p, j>>] \in OpenCommand => cmd[<<p, j>>] \in OpenCommand /\ <<p, j>> # <<r, k>>
    BY <1>0, <2>1, RunFacts DEF TypeOK, OpenCommand
  <2>6. CASE q # r
    <3>1. Launches(q)' \subseteq Launches(q)
      BY <2>3, <2>6 DEF Launches
    <3>2. StillOf(q)
      BY <2>1, <2>4, <2>5, <2>6, <3>1 DEF StillOf
    <3> QED
      BY <1>0, <2>1, <3>2, StillKept
  <2>7. CASE q = r
    <3>1. \A j \in {1, 2} : cmd'[<<r, j>>] \notin OpenCommand
      BY <2>2, <2>5, OneOpenRound
    <3> QED
      BY <2>1, <2>2, <2>3, <2>4, <2>7, <3>1, SettledKept
  <2> QED
    BY <2>6, <2>7
<1> QED
  BY <1>1, <1>2

\* A command fails or expires, and with it what a pause ends.
LEMMA FailedCommandKept ==
    ASSUME CommandInv, CancelInv, NEW r \in Runs, NEW k \in {1, 2}, cmd[<<r, k>>] \in OpenCommand,
           NEW challenge \in BOOLEAN, NEW http \in BOOLEAN, FailedCommand(r, k, challenge, http), NEW q \in Runs
    PROVE  Kept(q)
<1>0. TypeOK /\ GuardOf(q)
  BY DEF CommandInv, CancelInv
<1> DEFINE paused(p) == challenge /\ IsX(r) /\ IsX(p)
           kind == IF Fallback(r) THEN "launch" ELSE "next"
<1>1. PICK new : /\ new.k = kind /\ new.r = r /\ calls' = calls \cup {new}
  <2> DEFINE call == Call(kind, r, FALSE, FALSE, http)
  <2>1. calls' = calls \cup {call}
    BY DEF FailedCommand
  <2>2. call.k = kind /\ call.r = r
    BY DEF Call
  <2> HIDE DEF call
  <2> QED
    BY <2>1, <2>2
<1>2. UNCHANGED <<sess, obs, memory>>
  BY DEF FailedCommand, FailCommandTx
<1>3. run'[r] = IF Fallback(r) THEN "reasoning" ELSE "failed"
  BY DEF FailedCommand, FailCommandTx
<1>4. \A p \in Runs : p # r =>
        run'[p] = IF paused(p) /\ run[p] \in {"queued", "waiting_for_bridge"} THEN "failed" ELSE run[p]
  BY DEF FailedCommand, FailCommandTx
<1>5. \A p \in Runs, j \in {1, 2} :
        cmd'[<<p, j>>] \in OpenCommand => cmd[<<p, j>>] \in OpenCommand /\ <<p, j>> # <<r, k>>
  <2>1. \A c \in Commands : cmd'[c] = IF c = <<r, k>> \/ (paused(c[1]) /\ cmd[c] \in OpenCommand) THEN "failed" ELSE cmd[c]
    BY DEF FailedCommand, FailCommandTx
  <2>2. "failed" \notin OpenCommand /\ \A p \in Runs, j \in {1, 2} : <<p, j>> \in Commands /\ <<p, j>>[1] = p
    BY DEF OpenCommand, Commands
  <2> HIDE DEF paused
  <2>3. ASSUME NEW p \in Runs, NEW j \in {1, 2}, cmd'[<<p, j>>] \in OpenCommand
        PROVE  cmd[<<p, j>>] \in OpenCommand /\ <<p, j>> # <<r, k>>
    BY <2>1, <2>2, <2>3
  <2> QED
    BY <2>3
<1> HIDE DEF paused
<1>6. CASE q = r
  <2>1. \A j \in {1, 2} : cmd'[<<r, j>>] \notin OpenCommand
    BY <1>5, OneOpenRound
  <2> QED
    BY <1>1, <1>2, <1>3, <1>6, <2>1, SettledKept
<1>7. CASE q # r
  <2>1. Launches(q)' \subseteq Launches(q)
    BY <1>1, <1>7 DEF Launches
  <2>2. StillOf(q)
    BY <1>2, <1>4, <1>5, <1>7, <2>1 DEF StillOf
  <2> QED
    BY <1>0, <1>2, <2>2, StillKept
<1> QED
  BY <1>6, <1>7

\* A new session: its runs were not there before.
LEMMA CreateSessionKept ==
    ASSUME CommandInv, CancelInv, NEW s \in Sessions, CreateSession(s), NEW q \in Runs
    PROVE  Kept(q)
<1>0. TypeOK /\ FreshRuns /\ EvidenceLaunched /\ GuardOf(q) /\ q[1] \in Sessions
  BY RunFacts DEF CommandInv, CancelInv
<1>1. /\ sess[s] = "absent" /\ sess' = [sess EXCEPT ![s] = "queued"]
      /\ run' = [r \in Runs |-> IF r \in {p \in RunsOf(s) : p[2] \in admission.sources} THEN "queued" ELSE run[r]]
      /\ UNCHANGED <<cmd, obs, worker, pending, cancelled, shuttingDown>>
  BY DEF CreateSession
<1>2. PICK new : new.k = "next" /\ calls' = calls \cup {new}
  <2>1. PICK r \in Runs : calls' = calls \cup {Call("next", r, FALSE, FALSE, TRUE)}
    BY DEF CreateSession, RunsOf
  <2>2. Call("next", r, FALSE, FALSE, TRUE).k = "next"
    BY DEF Call
  <2> QED
    BY <2>1, <2>2
<1>3. Launches(q)' \subseteq Launches(q)
  BY <1>2 DEF Launches
<1>4. sess'[q[1]] = "cancelled" => sess[q[1]] = "cancelled"
  BY <1>0, <1>1 DEF TypeOK
<1>5. CASE run'[q] = run[q]
  <2>1. StillOf(q)
    BY <1>1, <1>3, <1>4, <1>5 DEF StillOf
  <2> QED
    BY <1>0, <1>1, <2>1, StillKept
<1>6. CASE q \in RunsOf(s)
  <2>1. run[q] = "absent" /\ q[1] = s /\ sess'[s] = "queued" /\ run'[q] \in {"absent", "queued"}
    BY <1>0, <1>1, <1>6 DEF FreshRuns, RunsOf, TypeOK
  <2>2. ~ HasWorker(q)
    BY <2>1, WorkedRun
  <2>3. Launches(q) = {}
    <3>1. ~ obs[q] > 0
      BY <2>1, StartedRun
    <3> QED
      BY <1>0, <3>1 DEF EvidenceLaunched, Launches
  <2>4. \A k \in {1, 2} : cmd[<<q, k>>] \notin OpenCommand
    BY <1>0, <2>1 DEF FreshRuns, OpenCommand
  <2>5. GuardOf(q)'
    BY <1>0, <1>1, <2>1 DEF GuardOf, HasWorker
  <2>6. ASSUME ResultOf(q) PROVE ResultOf(q)'
    <3>1. pending[q] = "none" /\ worker[q].pc = "none"
      BY <2>2, <2>6 DEF ResultOf, HasWorker
    <3>2. TokenOf(q)'
      BY <1>1, <1>3, <2>1, <2>3, <3>1 DEF TokenOf, Working
    <3> QED
      BY <1>1, <2>1, <2>4, <3>1, <3>2 DEF ResultOf
  <2> QED
    BY <2>5, <2>6 DEF Kept
<1> QED
  BY <1>1, <1>5, <1>6

\* A run is opened again for its re-evaluation.
LEMMA RetryGuarded ==
    ASSUME CommandInv, CancelInv, NEW r \in Runs, RetryFailedRun(r), NEW q \in Runs
    PROVE  GuardOf(q)'
<1>0. TypeOK /\ GuardOf(q) /\ q[1] \in Sessions /\ r[1] \in Sessions
  BY RunFacts DEF CommandInv, CancelInv
<1>1. /\ run' = [run EXCEPT ![r] = "reasoning"] /\ sess' = [sess EXCEPT ![r[1]] = "running"]
      /\ UNCHANGED <<cmd, worker, pending, cancelled, shuttingDown>>
  BY DEF RetryFailedRun
<1>2. PICK new : new.r = r /\ calls' = calls \cup {new}
  <2>1. calls' = calls \cup {Call("launch", r, FALSE, FALSE, FALSE)}
    BY DEF RetryFailedRun
  <2>2. Call("launch", r, FALSE, FALSE, FALSE).r = r
    BY DEF Call
  <2> QED
    BY <2>1, <2>2
<1>3. CASE q[1] = r[1]
  <2>1. sess'[q[1]] # "cancelled"
    BY <1>0, <1>1, <1>3 DEF TypeOK
  <2> QED
    BY <1>0, <1>1, <2>1 DEF GuardOf, HasWorker
<1>4. CASE q[1] # r[1]
  <2>1. run'[q] = run[q] /\ sess'[q[1]] = sess[q[1]] /\ Launches(q)' \subseteq Launches(q)
    BY <1>0, <1>1, <1>2, <1>4 DEF TypeOK, Launches
  <2> QED
    BY <1>0, <1>1, <2>1 DEF GuardOf, HasWorker
<1> QED
  BY <1>3, <1>4

\* A launch gives the run to a worker, queues it behind one, or is refused.
LEMMA LaunchKept ==
    ASSUME CommandInv, CancelInv, NEW c \in calls, Launch(c), NEW q \in Runs
    PROVE  Kept(q)
<1>0. TypeOK /\ GuardOf(q)
  BY DEF CommandInv, CancelInv
<1>1. PICK r \in Runs : r = c.r
  BY <1>0, SchedFacts
<1>2. /\ c.k = "launch" /\ calls' = calls \ {c} /\ c \in Launches(r)
      /\ UNCHANGED <<durable, cancelled, shuttingDown, sched>>
  BY <1>1 DEF Launch, Launches
<1>3. Launches(q)' \subseteq Launches(q)
  BY <1>2 DEF Launches
<1>4. \/ UNCHANGED <<worker, pending>>
      \/ /\ q # r /\ worker'[q] = worker[q] /\ pending'[q] = pending[q]
      \/ /\ q = r /\ ~ cancelled[r] /\ HasWorker(r) /\ worker'[r] = worker[r]
      \/ /\ q = r /\ ~ cancelled[r] /\ ~ HasWorker(r) /\ pending'[r] = pending[r]
         /\ worker'[r].pc = "process" /\ ~ worker'[r].dead
  <2>1. CASE shuttingDown \/ cancelled[r]
    BY <1>1, <2>1 DEF Launch
  <2>2. CASE ~ (shuttingDown \/ cancelled[r]) /\ HasWorker(r)
    <3>1. worker' = worker /\ \E p : pending' = [pending EXCEPT ![r] = p] \/ pending' = pending
      BY <1>1, <2>2 DEF Launch
    <3> QED
      BY <1>0, <2>2, <3>1 DEF TypeOK
  <2>3. CASE ~ (shuttingDown \/ cancelled[r]) /\ ~ HasWorker(r)
    <3>1. worker' = [worker EXCEPT ![r] = [NoWorker EXCEPT !.pc = "process", !.plan = c.plan]] /\ pending' = pending
      BY <1>1, <2>3 DEF Launch
    <3>2. [NoWorker EXCEPT !.pc = "process", !.plan = c.plan].pc = "process"
          /\ ~ [NoWorker EXCEPT !.pc = "process", !.plan = c.plan].dead
      BY DEF NoWorker
    <3> QED
      BY <1>0, <2>3, <3>1, <3>2 DEF TypeOK
  <2> QED
    BY <2>1, <2>2, <2>3
<1>5. CASE worker'[q] = worker[q] /\ pending'[q] = pending[q]
  <2>1. StillOf(q)
    BY <1>2, <1>3, <1>5 DEF StillOf
  <2> QED
    BY <1>0, <1>2, <2>1, StillKept
<1>6. CASE q = r /\ ~ cancelled[r] /\ ((worker'[r] = worker[r] /\ HasWorker(r))
                                       \/ (worker'[r].pc = "process" /\ ~ worker'[r].dead /\ pending'[r] = pending[r]))
  <2>1. sess[r[1]] # "cancelled" /\ HasWorker(r)'
    BY <1>0, <1>2, <1>6 DEF GuardOf, HasWorker
  <2>2. GuardOf(r)'
    BY <1>0, <1>2, <1>6, <2>1 DEF GuardOf
  <2>3. ASSUME ResultOf(r) PROVE ResultOf(r)'
    <3>1. TokenOf(r) /\ Launches(r)' = {}
      BY <1>2, <1>6, <2>3 DEF ResultOf, TokenOf, Launches
    <3>2. run[r] = "reasoning" /\ pending[r] = "none" /\ ~ Working(r) /\ worker[r].pc \notin {"advance", "failRun"}
      BY <1>2, <3>1 DEF TokenOf
    <3>3. TokenOf(r)'
      <4>1. CASE worker'[r] = worker[r]
        <5>1. ~ Working(r)'
          BY <1>2, <3>2, <4>1 DEF Working
        <5> QED
          BY <1>2, <3>1, <3>2, <4>1, <5>1 DEF TokenOf
      <4>2. CASE worker'[r].pc = "process" /\ pending'[r] = pending[r]
        BY <1>2, <3>1, <3>2, <4>2 DEF TokenOf
      <4> QED
        BY <1>6, <4>1, <4>2
    <3> QED
      BY <1>2, <2>1, <2>3, <3>3 DEF ResultOf
  <2> QED
    BY <1>6, <2>2, <2>3 DEF Kept
<1> QED
  BY <1>4, <1>5, <1>6

\* CancelSession marks the runs and takes the contexts of their workers away.
LEMMA MarkKept ==
    ASSUME CommandInv, CancelInv, NEW s \in Sessions, CancelSession(s), NEW q \in Runs
    PROVE  Kept(q)
<1>0. TypeOK /\ GuardOf(q) /\ worker[q] \in Workers
  BY DEF CommandInv, CancelInv, TypeOK
<1>1. UNCHANGED <<durable, shuttingDown>>
  BY DEF CancelSession
<1>2. PICK new : new.k = "cancel" /\ calls' = calls \cup {new}
  <2>1. PICK r \in Runs : calls' = calls \cup {Call("cancel", r, FALSE, FALSE, TRUE)}
    BY DEF CancelSession, RunsOf
  <2>2. Call("cancel", r, FALSE, FALSE, TRUE).k = "cancel"
    BY DEF Call
  <2> QED
    BY <2>1, <2>2
<1>3. Launches(q)' \subseteq Launches(q)
  BY <1>2 DEF Launches
<1>4. CASE q[1] # s
  <2>1. worker'[q] = worker[q] /\ pending'[q] = pending[q] /\ cancelled'[q] = cancelled[q]
    <3>1. cancelled'[q] = (cancelled[q] \/ q[1] = s) /\ cancelled[q] \in BOOLEAN
      BY <1>0 DEF CancelSession, TypeOK
    <3> QED
      BY <1>4, <3>1 DEF CancelSession
  <2>2. StillOf(q)
    BY <1>1, <1>3, <2>1 DEF StillOf
  <2> QED
    BY <1>0, <1>1, <2>2, StillKept
<1>5. CASE q[1] = s
  <2>1. cancelled'[q] /\ pending'[q] = "none"
    BY <1>5 DEF CancelSession
  <2>2. worker'[q] = IF HasWorker(q) THEN [worker[q] EXCEPT !.dead = TRUE] ELSE worker[q]
    BY <1>5 DEF CancelSession
  <2>3. worker'[q].pc = worker[q].pc /\ (HasWorker(q)' => worker'[q].dead)
    BY <1>0, <2>2 DEF Workers, HasWorker
  <2> QED
    BY <1>0, <1>1, <2>1, <2>3 DEF Kept, GuardOf, ResultOf
<1> QED
  BY <1>4, <1>5

\* CancelSession of the Store ends what is open of the marked runs.
LEMMA CancelStoredKept ==
    ASSUME CommandInv, CancelInv, NEW c \in calls, CancelStored(c), NEW q \in Runs
    PROVE  Kept(q)
<1>0. TypeOK /\ GuardOf(q) /\ q[1] \in Sessions
  BY RunFacts DEF CommandInv, CancelInv
<1>1. PICK s \in Sessions : s = c.r[1]
  BY <1>0, SchedFacts, RunFacts
<1>2. /\ c.k = "cancel" /\ calls' = calls \ {c} /\ UNCHANGED <<obs, memory>>
      /\ sess' = IF sess[s] \in ActiveSession THEN [sess EXCEPT ![s] = "cancelled"] ELSE sess
      /\ run'[q] = IF q[1] = s /\ run[q] \in {"queued"} \cup OpenRun THEN "cancelled" ELSE run[q]
  BY <1>1 DEF CancelStored, CancelTx
<1>3. \A d \in Commands : cmd'[d] = IF d[1][1] = s /\ cmd[d] \in OpenCommand THEN "cancelled" ELSE cmd[d]
  BY <1>1 DEF CancelStored, CancelTx
<1>4. \A k \in {1, 2} : cmd'[<<q, k>>] = IF q[1] = s /\ cmd[<<q, k>>] \in OpenCommand THEN "cancelled" ELSE cmd[<<q, k>>]
  <2>1. \A k \in {1, 2} : <<q, k>> \in Commands /\ <<q, k>>[1] = q
    BY DEF Commands
  <2> QED
    BY <1>3, <2>1
<1>5. Launches(q)' \subseteq Launches(q)
  BY <1>2 DEF Launches
<1>6. CASE q[1] # s
  <2>1. sess'[q[1]] = sess[q[1]]
    BY <1>0, <1>1, <1>2, <1>6 DEF TypeOK
  <2>2. StillOf(q)
    BY <1>2, <1>4, <1>5, <1>6, <2>1 DEF StillOf
  <2> QED
    BY <1>0, <1>2, <2>2, StillKept
<1>7. CASE q[1] = s
  <2>1. cancelled'[q]
    BY <1>1, <1>2, <1>7 DEF CancelInv, CancelCalls, RunsOf
  <2>2. run'[q] \in TerminalRun \cup {"absent"} /\ (run'[q] = "completed" => run[q] = "completed")
    BY <1>0, <1>2, <1>7 DEF TypeOK, RunStatus, OpenRun, TerminalRun
  <2>3. \A k \in {1, 2} : cmd'[<<q, k>>] \notin OpenCommand
    BY <1>4, <1>7 DEF OpenCommand
  <2>4. GuardOf(q)'
    BY <1>0, <1>2, <2>1, <2>2, <2>3 DEF GuardOf, HasWorker
  <2> QED
    BY <1>2, <2>1, <2>2, <2>3, <2>4 DEF Kept, ResultOf, HasWorker
<1> QED
  BY <1>6, <1>7

\* A client goes away, X is confirmed, or the contexts of all workers end.
LEMMA ShutdownKept ==
    ASSUME CommandInv, CancelInv, Shutdown \/ ConfirmXCaptureRecovery \/ \E c \in calls : Disconnect(c), NEW q \in Runs
    PROVE  Kept(q)
<1>0. TypeOK /\ GuardOf(q) /\ worker[q] \in Workers
  BY DEF CommandInv, CancelInv, TypeOK
<1>1. CASE ConfirmXCaptureRecovery \/ \E c \in calls : Disconnect(c)
  <2>1. UNCHANGED <<sess, run, cmd, obs, memory>> /\ calls' \subseteq calls
    BY <1>1 DEF ConfirmXCaptureRecovery, Disconnect
  <2>2. StillOf(q)
    BY <2>1 DEF StillOf, Launches
  <2> QED
    BY <1>0, <2>1, <2>2, StillKept
<1>2. CASE Shutdown
  <2>1. UNCHANGED <<durable, pending, cancelled, calls>> /\ shuttingDown' = TRUE
    BY <1>2 DEF Shutdown
  <2>2. worker'[q] = IF HasWorker(q) THEN [worker[q] EXCEPT !.dead = TRUE] ELSE worker[q]
    BY <1>2 DEF Shutdown
  <2>3. /\ worker'[q].pc = worker[q].pc /\ (HasWorker(q) => worker'[q].dead)
        /\ HasWorker(q)' = HasWorker(q) /\ (worker[q].dead => worker'[q].dead)
    BY <1>0, <2>2 DEF Workers, HasWorker
  <2>4. GuardOf(q)'
    BY <1>0, <2>1, <2>3 DEF GuardOf, Launches
  <2>5. ASSUME ResultOf(q) PROVE ResultOf(q)'
    <3>1. ASSUME TokenOf(q) PROVE TokenOf(q)'
      <4>1. Working(q)' => Working(q)
        BY <2>1, <2>3 DEF Working
      <4>2. Launches(q)' = Launches(q)
        BY <2>1 DEF Launches
      <4> QED
        BY <2>1, <2>3, <3>1, <4>1, <4>2 DEF TokenOf
    <3> QED
      BY <2>1, <2>3, <2>5, <3>1 DEF ResultOf
  <2> QED
    BY <2>4, <2>5 DEF Kept
<1> QED
  BY <1>1, <1>2

\* The next process forgets the marks, and launches what is in reasoning.
LEMMA RestartKept ==
    ASSUME CommandInv, CancelInv, Restart, NEW q \in Runs
    PROVE  Kept(q)
<1>0. NoWorker.pc = "none" /\ NoWorker.dead = FALSE /\ GuardOf(q)
  BY DEF CancelInv, NoWorker
<1>1. UNCHANGED durable /\ worker'[q] = NoWorker /\ pending'[q] = "none" /\ ~ cancelled'[q]
  BY DEF Restart, ResumePendingReasoning
<1> DEFINE first(p) == wait[p[1]] = "progressive_wait" /\ \A o \in Resumable : o[1] = p[1] => p[2] <= o[2]
           kind(p) == IF first(p) THEN "next_launch" ELSE "launch"
           call(p) == Call(kind(p), p, FALSE, FALSE, FALSE)
<1>2. \A d \in calls' : \E p \in Resumable : d = call(p)
  BY DEF Restart, ResumePendingReasoning
<1>3. \A p \in Resumable : call(p).r = p
  BY DEF Call
<1> HIDE DEF call
<1>4. (\A d, e \in Launches(q)' : d = e) /\ (Launches(q)' # {} => run[q] = "reasoning")
  BY <1>2, <1>3 DEF Launches, Resumable
<1>5. ~ HasWorker(q)' /\ ~ Working(q)'
  BY <1>0, <1>1 DEF HasWorker, Working
<1>6. GuardOf(q)'
  BY <1>0, <1>1, <1>4, <1>5 DEF GuardOf, TerminalRun
<1>7. TokenOf(q)'
  BY <1>0, <1>1, <1>4, <1>5 DEF TokenOf
<1> QED
  BY <1>1, <1>6, <1>7 DEF Kept, ResultOf

\* A worker moves on and nothing else does: it stays registered, its run has
\* nobody else with its evidence, and its new place suits the run.
LEMMA WorkerKept ==
    ASSUME CommandInv, CancelInv, NEW r \in Runs, NEW q \in Runs,
           UNCHANGED <<sess, cmd, obs, pending, cancelled, shuttingDown, calls>>,
           worker'[r].dead = worker[r].dead, HasWorker(r), HasWorker(r)',
           \A p \in Runs : p # r => worker'[p] = worker[p],
           run'[r] = run[r] \/ (run[r] \notin TerminalRun /\ run'[r] = "failed"),
           \A p \in Runs : p # r => run'[p] = run[p] \/ (run[p] = "queued" /\ run'[p] = "failed"),
           ~ cancelled[r] /\ TokenOf(r) => TokenOf(r)'
    PROVE  Kept(q)
<1>0. GuardOf(q) /\ Launches(q)' = Launches(q)
  BY DEF CancelInv, Launches
<1>1. CASE q # r
  <2>1. StillOf(q)
    BY <1>0, <1>1 DEF StillOf
  <2> QED
    BY <1>0, <2>1, StillKept
<1>2. CASE q = r
  <2>1. GuardOf(r)'
    <3>1. run[r] # "absent"
      BY WorkedRun
    <3> QED
      BY <1>0, <1>2, <3>1 DEF GuardOf, TerminalRun
  <2>2. ASSUME ResultOf(r) PROVE ResultOf(r)'
    <3>1. obs[r] > 0
      BY DEF CommandInv, EvidenceLaunched
    <3>2. \A k \in {1, 2} : cmd'[<<r, k>>] \in OpenCommand => run'[r] \in {"waiting_for_bridge", "failed"}
      BY <2>2 DEF ResultOf
    <3> QED
      BY <2>2, <3>1, <3>2 DEF ResultOf
  <2> QED
    BY <1>2, <2>1, <2>2 DEF Kept
<1> QED
  BY <1>1, <1>2

\* A worker inside process, or about to fail its run, holds the evidence.
LEMMA HandKept ==
    ASSUME NEW r \in Runs, Working(r), UNCHANGED <<run, pending, calls>>, TokenOf(r),
           worker'[r].pc \in {"error", "planning", "followUp", "evaluate", "empty", "complete", "failCaptured", "retire"}
    PROVE  TokenOf(r)'
<1>1. run[r] = "reasoning" /\ pending[r] = "none" /\ Launches(r) = {} /\ Launches(r)' = {}
  BY DEF TokenOf, Launches
<1> QED
  BY <1>1 DEF TokenOf

\* The steps of process that move the worker only.
LEMMA ProcessKept ==
    ASSUME CommandInv, CancelInv, NEW r \in Runs,
           WorkerInterrupted(r) \/ WorkerFails(r) \/ WorkerRead(r) \/ WorkerPlan(r) \/ WorkerEvaluate(r) \/ WorkerReceipt(r),
           NEW q \in Runs
    PROVE  Kept(q)
<1>0. TypeOK /\ worker[r] \in Workers
  BY DEF CommandInv, TypeOK
<1>1. HasWorker(r) /\ UNCHANGED <<sess, run, cmd, obs, pending, cancelled, shuttingDown, calls>>
  BY DEF WorkerInterrupted, WorkerFails, WorkerRead, WorkerPlan, WorkerEvaluate, WorkerReceipt, Alive, At, HasWorker,
         Processing, Staged, OnlyWorker
<1>2. /\ worker'[r].dead = worker[r].dead /\ \A p \in Runs : p # r => worker'[p] = worker[p]
      /\ \/ Working(r) /\ worker'[r].pc \in {"error", "planning", "followUp", "evaluate", "empty", "complete"}
         \/ worker[r].pc \in Processing /\ worker[r].dead /\ worker'[r].pc = "error"
         \/ worker[r].pc = "receipt" /\ worker'[r].pc = "retire"
  <2>1. CASE WorkerInterrupted(r)
    BY <1>0, <2>1, WorkerMoves DEF WorkerInterrupted
  <2>2. CASE WorkerReceipt(r)
    BY <1>0, <2>2 DEF WorkerReceipt, Alive, At, TypeOK, Workers
  <2>3. CASE WorkerFails(r)
    <3>1. PICK limit \in BOOLEAN : worker' = [worker EXCEPT ![r].pc = "error", ![r].usage = limit]
      BY <2>3 DEF WorkerFails
    <3>2. Working(r)
      BY <2>3 DEF WorkerFails, Alive, At, Working
    <3> QED
      BY <1>0, <3>1, <3>2 DEF TypeOK, Workers
  <2>4. CASE WorkerRead(r) \/ WorkerPlan(r) \/ WorkerEvaluate(r)
    <3>1. PICK pc \in {"error", "planning", "followUp", "evaluate", "empty", "complete"} : To(r, pc)
      BY <2>4 DEF WorkerRead, WorkerPlan, WorkerEvaluate
    <3>2. Working(r)
      BY <2>4 DEF WorkerRead, WorkerPlan, WorkerEvaluate, Alive, At, Working
    <3> QED
      BY <1>0, <3>1, <3>2, WorkerMoves
  <2> QED
    BY <2>1, <2>2, <2>3, <2>4
<1>3. HasWorker(r)'
  BY <1>2 DEF HasWorker
<1>4. ASSUME TokenOf(r) PROVE TokenOf(r)'
  <2>1. CASE Working(r) /\ worker'[r].pc \in {"error", "planning", "followUp", "evaluate", "empty", "complete"}
    BY <1>1, <1>4, <2>1, HandKept
  <2>2. CASE worker[r].pc \in Processing /\ worker[r].dead /\ worker'[r].pc = "error"
    <3>1. Launches(r)' = Launches(r) /\ ~ Working(r)'
      BY <1>1, <1>2, <2>2 DEF Launches, Working
    <3> QED
      BY <1>1, <1>2, <1>4, <2>2, <3>1 DEF TokenOf
  <2>3. CASE worker[r].pc = "receipt" /\ worker'[r].pc = "retire"
    <3>1. Launches(r)' = Launches(r) /\ ~ Working(r)'
      BY <1>1, <2>3 DEF Launches, Working
    <3> QED
      BY <1>1, <1>4, <2>3, <3>1 DEF TokenOf
  <2> QED
    BY <1>2, <2>1, <2>2, <2>3
<1> QED
  BY <1>1, <1>2, <1>3, <1>4, WorkerKept

\* What a worker with its context knows: its run is not marked, its session not
\* cancelled.
LEMMA AliveFacts ==
    ASSUME CancelInv, NEW r \in Runs, HasWorker(r), ~ worker[r].dead
    PROVE  ~ cancelled[r] /\ sess[r[1]] # "cancelled"
BY DEF CancelInv, GuardOf

\* The run of a follow-up goes back to the bridge.
LEMMA FollowUpKept ==
    ASSUME CommandInv, CancelInv, NEW r \in Runs, WorkerFollowUp(r), NEW q \in Runs
    PROVE  Kept(q)
<1>0. TypeOK
  BY DEF CommandInv
<1>1. /\ Working(r) /\ HasWorker(r) /\ ~ worker[r].dead
      /\ UNCHANGED <<sess, obs, pending, cancelled, shuttingDown, calls>>
  BY DEF WorkerFollowUp, Alive, At, Working, HasWorker, OnlyWorker
<1>2. ~ cancelled[r] /\ sess[r[1]] # "cancelled"
  BY <1>1, AliveFacts
<1>3. CASE ~ CaptureAllowed(r)
  <2>1. To(r, "error") /\ UNCHANGED <<run, cmd>>
    BY <1>3 DEF WorkerFollowUp
  <2>2. worker'[r].pc = "error" /\ worker'[r].dead = worker[r].dead /\ \A p \in Runs : p # r => worker'[p] = worker[p]
    BY <1>0, <2>1, WorkerMoves
  <2>3. HasWorker(r)'
    BY <2>2 DEF HasWorker
  <2>4. TokenOf(r) => TokenOf(r)'
    BY <1>1, <2>1, <2>2, HandKept
  <2> QED
    BY <1>1, <2>1, <2>2, <2>3, <2>4, WorkerKept
<1>4. CASE CaptureAllowed(r)
  <2>1. /\ run' = (IF run[r] = "reasoning" THEN [run EXCEPT ![r] = "waiting_for_bridge"] ELSE run)
        /\ cmd' = [cmd EXCEPT ![<<r, 2>>] = "queued"] /\ To(r, "receipt")
    BY <1>4 DEF WorkerFollowUp
  <2>2. worker'[r].pc = "receipt" /\ worker'[r].dead = worker[r].dead /\ \A p \in Runs : p # r => worker'[p] = worker[p]
    BY <1>0, <2>1, WorkerMoves
  <2>3. /\ \A p \in Runs : p # r => run'[p] = run[p]
        /\ run'[r] = IF run[r] = "reasoning" THEN "waiting_for_bridge" ELSE run[r]
        /\ \A p \in Runs, k \in {1, 2} : p # r => cmd'[<<p, k>>] = cmd[<<p, k>>]
    BY <1>0, <2>1, RunFacts DEF TypeOK
  <2>4. HasWorker(r)'
    BY <2>2 DEF HasWorker
  <2>5. CASE q # r
    <3>1. StillOf(q)
      BY <1>1, <2>2, <2>3, <2>5 DEF StillOf, Launches
    <3>2. GuardOf(q)
      BY DEF CancelInv
    <3> QED
      BY <1>1, <3>1, <3>2, StillKept
  <2>6. CASE q = r
    <3>1. GuardOf(r)'
      BY <1>1, <1>2, <2>2 DEF GuardOf
    <3>2. ASSUME ResultOf(r) PROVE ResultOf(r)'
      <4>1. run[r] = "reasoning" /\ pending[r] = "none" /\ Launches(r) = {}
        BY <1>1, <1>2, <3>2 DEF ResultOf, TokenOf
      <4>2. TokenOf(r)'
        BY <1>1, <2>2, <2>3, <4>1 DEF TokenOf, Launches, Working
      <4> QED
        BY <1>1, <2>3, <4>1, <4>2 DEF ResultOf
    <3> QED
      BY <2>6, <3>1, <3>2 DEF Kept
  <2> QED
    BY <2>5, <2>6
<1> QED
  BY <1>3, <1>4

\* A result is stored of a run that has its evidence and no open command.
LEMMA CompleteKept ==
    ASSUME CommandInv, CancelInv, NEW r \in Runs, WorkerComplete(r), NEW q \in Runs
    PROVE  Kept(q)
<1>0. TypeOK /\ GuardOf(q)
  BY DEF CommandInv, CancelInv
<1>1. /\ Working(r) /\ HasWorker(r) /\ ~ worker[r].dead
      /\ UNCHANGED <<sess, cmd, obs, pending, cancelled, shuttingDown, calls>>
  BY DEF WorkerComplete, Alive, At, Working, HasWorker, OnlyWorker
<1>2. ~ cancelled[r] /\ sess[r[1]] # "cancelled" /\ obs[r] > 0
  BY <1>1, AliveFacts DEF CommandInv, EvidenceLaunched
<1>3. \/ UNCHANGED run /\ To(r, "error")
      \/ run' = [run EXCEPT ![r] = "completed"] /\ To(r, "advance")
  BY DEF WorkerComplete
<1>4. PICK pc \in {"error", "advance"} :
        /\ worker'[r].pc = pc /\ worker'[r].dead = worker[r].dead /\ \A p \in Runs : p # r => worker'[p] = worker[p]
        /\ run'[r] = (IF pc = "error" THEN run[r] ELSE "completed") /\ \A p \in Runs : p # r => run'[p] = run[p]
        /\ pc = "error" => UNCHANGED run
  <2>1. CASE UNCHANGED run /\ To(r, "error")
    BY <1>0, <2>1, WorkerMoves
  <2>2. CASE run' = [run EXCEPT ![r] = "completed"] /\ To(r, "advance")
    BY <1>0, <2>2, WorkerMoves DEF TypeOK
  <2> QED
    BY <1>3, <2>1, <2>2
<1>5. CASE q # r
  <2>1. StillOf(q)
    BY <1>1, <1>4, <1>5 DEF StillOf, Launches
  <2> QED
    BY <1>0, <1>1, <2>1, StillKept
<1>6. CASE q = r
  <2>1. HasWorker(r)' /\ GuardOf(r)'
    BY <1>0, <1>1, <1>2, <1>4, <1>6 DEF GuardOf, HasWorker
  <2>2. ASSUME ResultOf(r) PROVE ResultOf(r)'
    <3>1. TokenOf(r) /\ run[r] = "reasoning" /\ pending[r] = "none" /\ Launches(r) = {}
      BY <1>1, <1>2, <2>2 DEF ResultOf, TokenOf
    <3>2. \A k \in {1, 2} : cmd[<<r, k>>] \notin OpenCommand
      BY <2>2, <3>1 DEF ResultOf
    <3>3. TokenOf(r)'
      <4>1. CASE pc = "error"
        BY <1>1, <1>4, <3>1, <4>1, HandKept
      <4>2. CASE pc = "advance"
        BY <1>1, <1>4, <3>1, <4>2 DEF TokenOf, Launches, Working
      <4> QED
        BY <4>1, <4>2
    <3> QED
      BY <1>1, <1>2, <2>1, <3>2, <3>3 DEF ResultOf
  <2> QED
    BY <1>6, <2>1, <2>2 DEF Kept
<1> QED
  BY <1>5, <1>6

\* The error path: a run that has not ended fails, and its peers may with it.
LEMMA FailureKept ==
    ASSUME CommandInv, CancelInv, NEW r \in Runs,
           WorkerError(r) \/ FailCapturedRunReasoning(r) \/ FailRun(r) \/ FailQueuedAfterReasoningFailure(r), NEW q \in Runs
    PROVE  Kept(q)
<1>0. TypeOK /\ GuardOf(r)
  BY DEF CommandInv, CancelInv
<1>1. /\ HasWorker(r) /\ UNCHANGED <<sess, cmd, obs, pending, cancelled, shuttingDown, calls>>
  BY DEF WorkerError, FailCapturedRunReasoning, FailRun, FailQueuedAfterReasoningFailure, At, HasWorker, OnlyWorker
<1>2. \A pc : To(r, pc) => /\ worker'[r].pc = pc /\ worker'[r].dead = worker[r].dead
                           /\ \A p \in Runs : p # r => worker'[p] = worker[p]
  BY <1>0, WorkerMoves
<1>3. CASE WorkerError(r)
  <2>1. worker[r].pc = "error" /\ UNCHANGED run
    BY <1>3 DEF WorkerError, At
  <2>2. PICK pc \in {"retire", "failCaptured", "failRun"} :
          /\ To(r, pc)
          /\ worker[r].dead /\ shuttingDown => pc = "retire"
          /\ ~ worker[r].dead => pc = IF run[r] = "reasoning" THEN "failCaptured" ELSE "failRun"
    BY <1>3 DEF WorkerError
  <2>3. worker'[r].pc = pc /\ worker'[r].dead = worker[r].dead /\ \A p \in Runs : p # r => worker'[p] = worker[p]
    BY <1>2, <2>2
  <2>4. HasWorker(r)'
    BY <2>3 DEF HasWorker
  <2>5. ASSUME ~ cancelled[r], TokenOf(r) PROVE TokenOf(r)'
    <3>1. worker[r].dead => shuttingDown
      BY <1>0, <2>5 DEF GuardOf
    <3>2. Launches(r)' = Launches(r)
      BY <1>1 DEF Launches
    <3>3. ~ worker[r].dead => Working(r) \/ run[r] = "completed"
      BY <2>1 DEF Working
    <3>4. ~ worker[r].dead => \/ run[r] = "reasoning" /\ pending[r] = "none" /\ Launches(r) = {}
                              \/ run[r] = "completed"
      BY <2>5, <3>3 DEF TokenOf
    <3>5. Working(r)' => run[r] = "reasoning" /\ ~ worker[r].dead
      BY <2>2, <2>3, <3>1 DEF Working
    <3> QED
      BY <1>1, <2>1, <2>2, <2>3, <2>5, <3>1, <3>2, <3>4, <3>5 DEF TokenOf
  <2> QED
    BY <1>1, <2>1, <2>3, <2>4, <2>5, WorkerKept
<1>4. CASE FailCapturedRunReasoning(r) \/ FailRun(r)
  <2>1. PICK pc \in {"stopPeers", "advanceAfter", "retire"} : To(r, pc)
    BY <1>4 DEF FailCapturedRunReasoning, FailRun, AfterFailure
  <2>2. worker'[r].pc = pc /\ worker'[r].dead = worker[r].dead /\ \A p \in Runs : p # r => worker'[p] = worker[p]
    BY <1>2, <2>1
  <2>3. UNCHANGED run \/ (run[r] \notin TerminalRun /\ run' = [run EXCEPT ![r] = "failed"])
    BY <1>4 DEF FailCapturedRunReasoning, FailRun, FailedRun, TerminalRun
  <2>4. /\ run'[r] = run[r] \/ (run[r] \notin TerminalRun /\ run'[r] = "failed")
        /\ \A p \in Runs : p # r => run'[p] = run[p]
    BY <1>0, <2>3 DEF TypeOK
  <2>5. HasWorker(r)' /\ ~ Working(r)' /\ Launches(r)' = Launches(r)
    BY <1>1, <2>2 DEF HasWorker, Working, Launches
  <2>6. ASSUME TokenOf(r) PROVE TokenOf(r)'
    <3>1. CASE FailRun(r)
      <4>1. run[r] = "completed"
        BY <2>6, <3>1 DEF FailRun, At, TokenOf
      <4>2. run'[r] = "completed"
        BY <2>4, <4>1 DEF TerminalRun
      <4> QED
        BY <1>1, <2>2, <2>5, <2>6, <4>1, <4>2 DEF TokenOf
    <3>2. CASE FailCapturedRunReasoning(r)
      <4>1. run[r] = "reasoning" /\ pending[r] = "none" /\ Launches(r) = {}
        BY <2>6, <3>2 DEF FailCapturedRunReasoning, At, TokenOf, Working
      <4> QED
        BY <1>1, <2>2, <2>4, <2>5, <4>1 DEF TokenOf
    <3> QED
      BY <1>4, <3>1, <3>2
  <2> QED
    BY <1>1, <2>2, <2>4, <2>5, <2>6, WorkerKept
<1>5. CASE FailQueuedAfterReasoningFailure(r)
  <2>1. \A p \in Runs : run'[p] = run[p] \/ (run[p] = "queued" /\ run'[p] = "failed")
    BY <1>5 DEF FailQueuedAfterReasoningFailure
  <2>2. run'[r] = run[r]
    BY <1>1, <2>1, WorkedRun
  <2>3. PICK pc \in {"advanceAfter", "retire"} : To(r, pc)
    BY <1>5 DEF FailQueuedAfterReasoningFailure
  <2>4. worker'[r].pc = pc /\ worker'[r].dead = worker[r].dead /\ \A p \in Runs : p # r => worker'[p] = worker[p]
    BY <1>2, <2>3
  <2>5. HasWorker(r)' /\ ~ Working(r)' /\ Launches(r)' = Launches(r)
    BY <1>1, <2>4 DEF HasWorker, Working, Launches
  <2>6. worker[r].pc = "stopPeers"
    BY <1>5 DEF FailQueuedAfterReasoningFailure, At
  <2>7. TokenOf(r) => TokenOf(r)'
    BY <1>1, <2>2, <2>4, <2>5, <2>6 DEF TokenOf
  <2> QED
    BY <1>1, <2>1, <2>2, <2>4, <2>5, <2>7, WorkerKept
<1> QED
  BY <1>3, <1>4, <1>5

\* A worker leaves; the queued rerun behind it is launched unless it is marked.
LEMMA RetireKept ==
    ASSUME CommandInv, CancelInv, NEW r \in Runs, WorkerRetire(r), NEW q \in Runs
    PROVE  Kept(q)
<1>0. TypeOK /\ GuardOf(q) /\ NoWorker.pc = "none" /\ ~ NoWorker.dead
  BY DEF CommandInv, CancelInv, NoWorker
<1>1. /\ worker[r].pc = "retire" /\ worker' = [worker EXCEPT ![r] = NoWorker]
      /\ pending' = [pending EXCEPT ![r] = "none"] /\ UNCHANGED <<durable, cancelled, shuttingDown, sched>>
  BY DEF WorkerRetire, At
<1>2. /\ worker'[r].pc = "none" /\ ~ worker'[r].dead /\ pending'[r] = "none"
      /\ \A p \in Runs : p # r => worker'[p] = worker[p] /\ pending'[p] = pending[p]
  BY <1>0, <1>1 DEF TypeOK
<1>3. PICK new : /\ new.k = "launch" /\ new.r = r
                 /\ calls' = calls \/ (calls' = calls \cup {new} /\ pending[r] # "none" /\ ~ cancelled[r])
  <2> DEFINE call == Call("launch", r, pending[r] = "plan", FALSE, FALSE)
  <2>1. calls' = calls \/ (calls' = calls \cup {call} /\ pending[r] # "none" /\ ~ cancelled[r])
    BY DEF WorkerRetire
  <2>2. call.k = "launch" /\ call.r = r
    BY DEF Call
  <2> HIDE DEF call
  <2> QED
    BY <2>1, <2>2
<1>4. CASE q # r
  <2>1. Launches(q)' \subseteq Launches(q)
    BY <1>3, <1>4 DEF Launches
  <2>2. StillOf(q)
    BY <1>1, <1>2, <1>4, <2>1 DEF StillOf
  <2> QED
    BY <1>0, <1>1, <2>2, StillKept
<1>5. CASE q = r
  <2>1. HasWorker(r) /\ ~ HasWorker(r)' /\ ~ Working(r)'
    BY <1>1, <1>2 DEF HasWorker, Working
  <2>2. GuardOf(r)'
    BY <1>0, <1>1, <1>2, <1>5, <2>1 DEF GuardOf
  <2>3. ASSUME ResultOf(r) PROVE ResultOf(r)'
    <3>1. ASSUME TokenOf(r)
          PROVE  (\A c, d \in Launches(r)' : c = d) /\ (Launches(r)' # {} => run[r] = "reasoning")
      <4>1. CASE calls' = calls
        BY <3>1, <4>1 DEF TokenOf, Launches
      <4>2. CASE calls' = calls \cup {new} /\ pending[r] # "none"
        <5>1. Launches(r) = {} /\ run[r] = "reasoning"
          BY <3>1, <4>2 DEF TokenOf
        <5>2. Launches(r)' \subseteq {new}
          BY <4>2, <5>1 DEF Launches
        <5> QED
          BY <5>1, <5>2
      <4> QED
        BY <1>3, <4>1, <4>2
    <3>2. TokenOf(r) => TokenOf(r)'
      BY <1>1, <1>2, <2>1, <3>1 DEF TokenOf
    <3> QED
      BY <1>1, <1>2, <2>3, <3>2 DEF ResultOf
  <2> QED
    BY <1>5, <2>2, <2>3 DEF Kept
<1> QED
  BY <1>4, <1>5

\* Every step guards a cancelled run, and what is said of a result is kept by
\* every step but a re-evaluation.
LEMMA RunsKept ==
    ASSUME CommandInv, CancelInv, Next, NEW q \in Runs
    PROVE  GuardOf(q)' /\ (Kept(q) \/ \E r \in Runs : RetryFailedRun(r))
<1>1. ASSUME NEW r \in Runs, WorkerStep(r) PROVE Kept(q)
  BY <1>1, ProcessKept, FollowUpKept, CompleteKept, FailureKept, RetireKept DEF WorkerStep
<1>2. ASSUME NEW r \in Runs, NEW k \in {1, 2}, Bridge(r, k) PROVE Kept(q)
  <2>1. ASSUME NEW challenge \in BOOLEAN, FailCommand(r, k, challenge) PROVE Kept(q)
    BY <2>1, FailedCommandKept DEF FailCommand, OpenCommand
  <2>2. CASE ExpireCommand(r, k)
    BY <2>2, FailedCommandKept DEF ExpireCommand
  <2> QED
    BY <1>2, <2>1, <2>2, BridgeKept DEF Bridge
<1>3. ASSUME NEW c \in calls, Launch(c) \/ CancelStored(c) PROVE Kept(q)
  BY <1>3, LaunchKept, CancelStoredKept
<1>4. ASSUME NEW s \in Sessions, CancelSession(s) PROVE Kept(q)
  BY <1>4, MarkKept
<1>5. ASSUME NEW s \in Sessions, CreateSession(s) PROVE Kept(q)
  BY <1>5, CreateSessionKept
<1>6. ASSUME ScheduleStep \/ \E c \in Callers : NextBegin(c) PROVE Kept(q)
  BY <1>6, ScheduleKept
<1>7. ASSUME Shutdown \/ ConfirmXCaptureRecovery \/ \E c \in calls : Disconnect(c) PROVE Kept(q)
  BY <1>7, ShutdownKept
<1>8. ASSUME Restart PROVE Kept(q)
  BY <1>8, RestartKept
<1>9. ASSUME NEW r \in Runs, RetryFailedRun(r) PROVE GuardOf(q)'
  BY <1>9, RetryGuarded
<1>10. ASSUME AdmissionReads PROVE Kept(q)
  <2>1. UNCHANGED <<sess, run, cmd, obs, worker, pending, cancelled, shuttingDown, calls>> /\ GuardOf(q)
    BY <1>10, AdmissionOnly DEF OnlyAdmission, CommandInv, CancelInv
  <2>2. StillOf(q)
    BY <2>1 DEF StillOf, Launches
  <2> QED
    BY <2>1, <2>2, StillKept
<1>11. Kept(q) \/ \E r \in Runs : RetryFailedRun(r)
  BY <1>1, <1>2, <1>3, <1>4, <1>5, <1>6, <1>7, <1>8, <1>10 DEF Next
<1> QED
  BY <1>9, <1>11 DEF Kept

\* Calls of CancelSession of the Store come from CancelSession alone, and marks
\* stay until the process ends.
LEMMA CancelCallsStep ==
    ASSUME CommandInv, CancelCalls, Next
    PROVE  CancelCalls'
<1>0. TypeOK
  BY DEF CommandInv
<1>1. ASSUME UNCHANGED cancelled, \A c \in calls' : c \in calls \/ c.k # "cancel"
      PROVE  CancelCalls'
  BY <1>1 DEF CancelCalls, RunsOf
<1>2. CASE ScheduleStep \/ \E c \in Callers : NextBegin(c)
  <2>1. UNCHANGED cancelled
    BY <1>2 DEF ScheduleStep, NextBegin, NextAbort, NextPick, Pick, StartRun, Compose, Finalizing, Publish, PublishWrite,
                Return, Goto
  <2>2. ASSUME NEW c \in Callers, NEW ok, Return(c, ok), NEW d \in calls' PROVE d \in calls \/ d.k # "cancel"
    BY <2>2, ReturnCalls
  <2>3. \A d \in calls' : d \in calls \/ d.k # "cancel"
    BY <1>2, <2>2, ScheduleReturns
  <2> QED
    BY <1>1, <2>1, <2>3
<1>3. ASSUME NEW r \in Runs, NEW k \in {1, 2}, Bridge(r, k) PROVE CancelCalls'
  <2>1. UNCHANGED cancelled
    BY <1>3 DEF Bridge, ClaimCommand, AcceptObservation, SaveObservation, FailCommand, ExpireCommand, FailedCommand,
                FailCommandTx
  <2>2. \/ UNCHANGED calls
        \/ \E kind \in {"next", "next_launch", "launch"}, plan \in BOOLEAN, queue, http \in BOOLEAN :
             calls' = calls \cup {Call(kind, r, plan, queue, http)}
    BY <1>3 DEF Bridge, ClaimCommand, AcceptObservation, SaveObservation, FailCommand, ExpireCommand, FailedCommand
  <2>3. \A c \in calls' : c \in calls \/ c.k # "cancel"
    BY <2>2 DEF Call
  <2> QED
    BY <1>1, <2>1, <2>3
<1>4. ASSUME NEW r \in Runs, WorkerStep(r) PROVE CancelCalls'
  <2>1. UNCHANGED cancelled /\ (UNCHANGED calls \/ \E plan : calls' = calls \cup {Call("launch", r, plan, FALSE, FALSE)})
    BY <1>4 DEF WorkerStep, WorkerInterrupted, WorkerFails, WorkerRead, WorkerPlan, WorkerFollowUp, WorkerReceipt,
                WorkerEvaluate, WorkerComplete, WorkerError, FailCapturedRunReasoning, FailRun,
                FailQueuedAfterReasoningFailure, WorkerRetire, OnlyWorker
  <2>2. \A c \in calls' : c \in calls \/ c.k # "cancel"
    BY <2>1 DEF Call
  <2> QED
    BY <1>1, <2>1, <2>2
<1>5. ASSUME NEW r \in Runs, RetryFailedRun(r) PROVE CancelCalls'
  <2>1. UNCHANGED cancelled /\ calls' = calls \cup {Call("launch", r, FALSE, FALSE, FALSE)}
    BY <1>5 DEF RetryFailedRun
  <2> QED
    BY <1>1, <2>1 DEF Call
<1>6. ASSUME NEW s \in Sessions, CreateSession(s) PROVE CancelCalls'
  <2>1. UNCHANGED cancelled /\ \E r \in Runs : calls' = calls \cup {Call("next", r, FALSE, FALSE, TRUE)}
    BY <1>6 DEF CreateSession, RunsOf
  <2> QED
    BY <1>1, <2>1 DEF Call
<1>7. ASSUME NEW c \in calls, Launch(c) \/ CancelStored(c) \/ Disconnect(c) PROVE CancelCalls'
  BY <1>1, <1>7 DEF Launch, CancelStored, CancelTx, Disconnect
<1>8. ASSUME NEW s \in Sessions, CancelSession(s) PROVE CancelCalls'
  <2>1. PICK r \in RunsOf(s) : calls' = calls \cup {Call("cancel", r, FALSE, FALSE, TRUE)}
    BY <1>8 DEF CancelSession
  <2>2. \A q \in Runs : (cancelled[q] => cancelled'[q]) /\ (q[1] = s => cancelled'[q])
    BY <1>8 DEF CancelSession
  <2>3. Call("cancel", r, FALSE, FALSE, TRUE).r[1] = s
    BY DEF Call, RunsOf
  <2> QED
    BY <2>1, <2>2, <2>3 DEF CancelCalls, RunsOf
<1>9. CASE AdmissionReads \/ ConfirmXCaptureRecovery \/ Shutdown
  BY <1>0, <1>1, <1>9, AdmissionOnly DEF OnlyAdmission, ConfirmXCaptureRecovery, Shutdown
<1>10. CASE Restart
  <2>1. \A c \in calls' : \E kind \in {"launch", "next_launch"}, q \in Runs : c = Call(kind, q, FALSE, FALSE, FALSE)
    BY <1>10 DEF Restart, ResumePendingReasoning, Resumable
  <2> QED
    BY <2>1 DEF CancelCalls, Call
<1> QED
  BY <1>2, <1>3, <1>4, <1>5, <1>6, <1>7, <1>8, <1>9, <1>10 DEF Next

\* Only a run without evidence is started, and only an outcome is published.
LEMMA HolderWritesStep ==
    ASSUME CommandInv, HolderWrites, Next
    PROVE  HolderWrites'
<1>0. TypeOK /\ FreshRuns /\ ObservationsCounted /\ OnePlanner /\ sched \in Scheds /\ IdleSched.pc = "idle"
  BY DEF CommandInv, TypeOK, IdleSched
<1>1. CASE ScheduleStep \/ \E c \in Callers : NextBegin(c)
  <2>1. UNCHANGED obs
    BY <1>1 DEF ScheduleStep, NextBegin, NextAbort, NextPick, Pick, StartRun, Compose, Finalizing, Publish, PublishWrite
  <2>2. ASSUME sched'.pc = "start" PROVE obs[sched'.r] = 0
    <3>1. sched'.r \in Runs /\ run[sched'.r] = "queued"
      BY <1>0, <1>1, <2>2, SchedSteps DEF SchedMoves
    <3>2. cmd[<<sched'.r, 1>>] = "none" /\ cmd[<<sched'.r, 2>>] = "none"
      BY <1>0, <3>1 DEF FreshRuns
    <3>3. obs[sched'.r] = 0 + 0
      BY <1>0, <3>1, <3>2 DEF ObservationsCounted
    <3> QED
      BY <3>3
  <2>3. ASSUME sched'.pc = "write" PROVE sched'.status \in Published
    <3>1. CASE Publish /\ Settled(sched.by.r[1])
      <4>1. \E st \in Published : sched' = [sched EXCEPT !.pc = "write", !.status = st]
        BY <3>1 DEF Publish, Published
      <4> QED
        BY <1>0, <4>1 DEF Scheds
    <3>2. \/ sched' = IdleSched
          \/ \E c \in Callers : sched' = [IdleSched EXCEPT !.pc = "pick", !.by = c, !.settled = Settled(c.r[1])]
          \/ \E r \in Runs : sched' = [sched EXCEPT !.pc = "start", !.r = r]
          \/ \E pc \in {"compose", "finalizing", "publish"} : sched' = [sched EXCEPT !.pc = pc]
          \/ Publish /\ Settled(sched.by.r[1])
      BY <1>1 DEF ScheduleStep, NextBegin, NextAbort, NextPick, Pick, StartRun, Compose, Finalizing, Publish, PublishWrite,
                  Return, Goto, RunsOf
    <3>3. sched' # IdleSched
      BY <1>0, <2>3
    <3> QED
      BY <1>0, <2>3, <3>1, <3>2, <3>3, IdleType DEF Scheds
  <2> QED
    BY <2>1, <2>2, <2>3 DEF HolderWrites
<1>2. ASSUME sched' = sched \/ sched' = IdleSched, UNCHANGED obs PROVE HolderWrites'
  BY <1>0, <1>2 DEF HolderWrites
<1>3. ASSUME NEW r \in Runs, NEW k \in {1, 2}, Bridge(r, k) PROVE HolderWrites'
  <2>1. UNCHANGED sched
    BY <1>3 DEF Bridge, ClaimCommand, AcceptObservation, SaveObservation, FailCommand, ExpireCommand, FailedCommand,
                FailCommandTx
  <2>2. ASSUME NEW plan \in BOOLEAN, AcceptObservation(r, k, plan) PROVE sched.pc = "start" => sched.r # r
    <3>1. cmd[<<r, k>>] = "claimed"
      BY <2>2 DEF AcceptObservation
    <3>2. SUFFICES ASSUME sched.pc = "start", sched.r = r PROVE FALSE
      OBVIOUS
    <3>3. cmd[<<r, 1>>] = "none" /\ obs[r] = 0
      BY <1>0, <3>2 DEF FreshRuns, HolderWrites
    <3>4. cmd[<<r, 2>>] = "none"
      BY <1>0, <3>3 DEF OnePlanner, PlannerOf
    <3> QED
      BY <3>1, <3>3, <3>4
  <2>3. ASSUME NEW plan \in BOOLEAN, AcceptObservation(r, k, plan) PROVE HolderWrites'
    <3>1. obs' = [obs EXCEPT ![r] = @ + 1] /\ sched.r \in Runs
      BY <1>0, <2>3, SchedFacts DEF AcceptObservation, SaveObservation
    <3> QED
      BY <1>0, <2>1, <2>2, <2>3, <3>1 DEF HolderWrites, TypeOK
  <2>4. (\E plan \in BOOLEAN : AcceptObservation(r, k, plan)) \/ UNCHANGED obs
    BY <1>3 DEF Bridge, ClaimCommand, FailCommand, ExpireCommand, FailedCommand, FailCommandTx
  <2> QED
    BY <1>2, <2>1, <2>3, <2>4
<1>4. ASSUME NEW r \in Runs, WorkerStep(r) \/ RetryFailedRun(r) PROVE HolderWrites'
  BY <1>2, <1>4 DEF WorkerStep, WorkerInterrupted, WorkerFails, WorkerRead, WorkerPlan, WorkerFollowUp, WorkerReceipt,
                WorkerEvaluate, WorkerComplete, WorkerError, FailCapturedRunReasoning, FailRun, Staged,
                FailQueuedAfterReasoningFailure, WorkerRetire, OnlyWorker, RetryFailedRun
<1>5. CASE \/ \E c \in calls : Launch(c) \/ CancelStored(c) \/ Disconnect(c)
           \/ \E s \in Sessions : CancelSession(s) \/ CreateSession(s)
           \/ AdmissionReads \/ ConfirmXCaptureRecovery \/ Shutdown \/ Restart
  BY <1>0, <1>2, <1>5, AdmissionOnly DEF OnlyAdmission, Launch, CancelStored, CancelTx, Disconnect, CancelSession, CreateSession,
                ConfirmXCaptureRecovery, Shutdown, Restart, ResumePendingReasoning
<1> QED
  BY <1>1, <1>3, <1>4, <1>5 DEF Next

\* Re-evaluations are counted and never taken back.
LEMMA RetriesCounted ==
    ASSUME TypeOK, Next, spent'["retries"] = 0
    PROVE  spent["retries"] = 0 /\ ~ \E r \in Runs : RetryFailedRun(r)
<1>1. spent["retries"] \in Nat
  BY DEF TypeOK
<1>2. ASSUME NEW r \in Runs, RetryFailedRun(r) PROVE FALSE
  BY <1>1, <1>2 DEF RetryFailedRun, Spend, TypeOK
<1>3. ASSUME NEW s \in Sessions, CancelSession(s) PROVE Spend("cancels")
  BY <1>3 DEF CancelSession
<1>4. ASSUME NEW what \in {"restarts", "cancels", "disconnects"}, Spend(what)
      PROVE  spent'["retries"] = spent["retries"]
  BY <1>4 DEF Spend, TypeOK
<1> QED
  BY <1>2, <1>3, <1>4, SpentSteps

\* Nothing is cancelled and nothing has a result at first.
LEMMA CancelInit == Init => CancelInv /\ ResultInv
<1> SUFFICES ASSUME Init PROVE CancelInv /\ ResultInv
  OBVIOUS
<1>1. IdleSched.pc = "idle" /\ NoWorker.pc = "none" /\ ~ NoWorker.dead
  BY DEF IdleSched, NoWorker
<1>2. /\ \A s \in Sessions : sess[s] = "absent"
      /\ \A r \in Runs : run[r] = "absent" /\ worker[r] = NoWorker /\ pending[r] = "none" /\ ~ cancelled[r]
      /\ \A c \in Commands : cmd[c] = "none"
      /\ calls = {} /\ sched = IdleSched
  BY DEF Init
<1>3. CancelCalls /\ HolderWrites
  BY <1>1, <1>2 DEF CancelCalls, HolderWrites
<1>4. ASSUME NEW r \in Runs PROVE GuardOf(r) /\ ResultOf(r)
  BY <1>1, <1>2, RunFacts DEF GuardOf, ResultOf, TokenOf, Launches, Working, HasWorker, OpenCommand
<1> QED
  BY <1>3, <1>4 DEF CancelInv, ResultInv

\* Every step keeps both.
LEMMA CancelStep ==
    ASSUME CommandInv, CancelInv, ResultInv, [Next]_vars
    PROVE  CancelInv' /\ ResultInv'
<1>1. CASE Next
  <2>1. CancelInv'
    BY <1>1, RunsKept, CancelCallsStep, HolderWritesStep DEF CancelInv
  <2>2. ASSUME spent'["retries"] = 0, NEW r \in Runs PROVE ResultOf(r)'
    <3>1. spent["retries"] = 0 /\ ~ \E q \in Runs : RetryFailedRun(q)
      BY <1>1, <2>2, RetriesCounted DEF CommandInv
    <3>2. Kept(r)
      BY <1>1, <3>1, RunsKept
    <3> QED
      BY <3>1, <3>2 DEF ResultInv, Kept
  <2> QED
    BY <2>1, <2>2 DEF ResultInv
<1>2. CASE UNCHANGED vars
  BY <1>2 DEF vars, CancelInv, CancelCalls, HolderWrites, GuardOf, ResultInv, ResultOf, TokenOf, HasWorker, Launches,
              Working, RunsOf
<1> QED
  BY <1>1, <1>2

\* Whatever is cancelled, restarted, or disconnected, and whatever is re-evaluated
\* without a cancellation, both hold.
LEMMA CancelledRuns == Spec => [](CancelInv /\ ResultInv)
<1>1. CommandInv /\ (CancelInv /\ ResultInv) /\ [Next]_vars => (CancelInv /\ ResultInv)'
  BY CancelStep
<1> QED
  BY <1>1, CancelInit, CommandDiscipline, PTL DEF Spec

\* A completed run is changed by its command or by the start of its source only.
LEMMA CompletedKept ==
    ASSUME CommandInv, Next, NEW r \in Runs, run[r] = "completed", run'[r] # "completed"
    PROVE  \/ \E k \in {1, 2} : cmd[<<r, k>>] \in OpenCommand
           \/ sched.pc = "start" /\ sched.r = r
<1>0. TypeOK /\ FreshRuns
  BY DEF CommandInv
<1>1. ASSUME UNCHANGED run PROVE FALSE
  BY <1>1
<1>2. ASSUME NEW q \in Runs, NEW k \in {1, 2}, Bridge(q, k)
      PROVE  \E j \in {1, 2} : cmd[<<r, j>>] \in OpenCommand
  <2>1. cmd[<<q, k>>] \in OpenCommand
    BY <1>1, <1>2 DEF Bridge, ClaimCommand, AcceptObservation, FailCommand, ExpireCommand, OpenCommand
  <2>2. q = r
    <3>1. CASE \E plan \in BOOLEAN : AcceptObservation(q, k, plan)
      BY <1>0, <3>1 DEF AcceptObservation, SaveObservation, TypeOK
    <3>2. CASE (\E challenge \in BOOLEAN : FailCommand(q, k, challenge)) \/ ExpireCommand(q, k)
      BY <3>2 DEF FailCommand, ExpireCommand, FailedCommand, FailCommandTx
    <3> QED
      BY <1>1, <1>2, <3>1, <3>2 DEF Bridge, ClaimCommand
  <2> QED
    BY <2>1, <2>2
<1>3. ASSUME NEW q \in Runs, WorkerStep(q) PROVE FALSE
  <2>1. ASSUME WorkerFollowUp(q) \/ WorkerComplete(q) \/ FailCapturedRunReasoning(q) \/ FailRun(q) PROVE FALSE
    BY <1>0, <2>1 DEF WorkerFollowUp, WorkerComplete, FailCapturedRunReasoning, FailRun, FailedRun, TerminalRun, TypeOK
  <2>2. ASSUME FailQueuedAfterReasoningFailure(q) PROVE FALSE
    BY <2>2 DEF FailQueuedAfterReasoningFailure
  <2> QED
    BY <1>1, <1>3, <2>1, <2>2
       DEF WorkerStep, WorkerInterrupted, WorkerFails, WorkerRead, WorkerPlan, WorkerReceipt, WorkerEvaluate, WorkerError,
           WorkerRetire, Staged
<1>4. ASSUME NEW q \in Runs, RetryFailedRun(q) PROVE FALSE
  BY <1>0, <1>4 DEF RetryFailedRun, TypeOK
<1>5. ASSUME NEW s \in Sessions, CreateSession(s) PROVE FALSE
  <2>1. sess[s] = "absent" /\ run' = [q \in Runs |-> IF q \in {p \in RunsOf(s) : p[2] \in admission.sources} THEN "queued" ELSE run[q]]
    BY <1>5 DEF CreateSession
  <2>2. r \notin RunsOf(s)
    BY <1>0, <2>1 DEF FreshRuns
  <2> QED
    BY <2>1, <2>2
<1>6. CASE ScheduleStep \/ \E c \in Callers : NextBegin(c)
  <2>1. StartRun
    BY <1>1, <1>6 DEF ScheduleStep, NextBegin, NextAbort, NextPick, Pick, Compose, Finalizing, Publish, PublishWrite
  <2>2. sched.pc = "start" /\ (run' = run \/ run' = [run EXCEPT ![sched.r] = "waiting_for_bridge"])
    BY <2>1 DEF StartRun, Live, Step
  <2> QED
    BY <1>0, <2>2 DEF TypeOK
<1>7. ASSUME NEW c \in calls, Launch(c) \/ CancelStored(c) \/ Disconnect(c) PROVE FALSE
  BY <1>7 DEF Launch, CancelStored, CancelTx, Disconnect, OpenRun
<1>8. ASSUME \/ \E s \in Sessions : CancelSession(s)
             \/ AdmissionReads \/ ConfirmXCaptureRecovery \/ Shutdown \/ Restart
      PROVE  FALSE
  BY <1>0, <1>1, <1>8, AdmissionOnly DEF OnlyAdmission, CancelSession, ConfirmXCaptureRecovery, Shutdown, Restart, ResumePendingReasoning
<1> QED
  BY <1>2, <1>3, <1>4, <1>5, <1>6, <1>7, <1>8 DEF Next

\* A session that is cancelled leaves no run open and no command behind
\* (CancelSession of the Store, behind the marks), through everything that the
\* interrupted workers still do; and so does a published one (FinalizeSession
\* refuses open runs, its write does not look again) while nothing is cancelled.
THEOREM OutcomeIsSettled == Spec => []SettledSession
<1>1. CommandInv /\ CancelInv /\ (spent["cancels"] = 0 => OrderInv) => SettledSession
  <2>1. SUFFICES ASSUME CommandInv, CancelInv, spent["cancels"] = 0 => OrderInv, NEW s \in Sessions,
                        sess[s] = "cancelled" \/ (sess[s] \in Published /\ spent["cancels"] = 0)
                 PROVE  Settled(s) /\ \A r \in RunsOf(s), k \in {1, 2} : cmd[<<r, k>>] \notin OpenCommand
    BY DEF SettledSession
  <2>2. CASE sess[s] = "cancelled"
    <3>1. \A r \in RunsOf(s) : r \in Runs /\ GuardOf(r) /\ r[1] = s
      BY <2>1 DEF CancelInv, RunsOf
    <3> QED
      BY <2>2, <3>1 DEF GuardOf, Settled
  <2>3. CASE sess[s] \in Published /\ spent["cancels"] = 0
    BY <2>1, <2>3, OrderImplies DEF SettledSession
  <2> QED
    BY <2>1, <2>2, <2>3
<1> QED
  BY <1>1, CommandDiscipline, CancelledRuns, UncancelledOrder, PTL

\* The result of a completed run is kept: no later failure, cancellation or
\* restart takes it back, unless a run was re-evaluated after a cancellation
\* (failCommand and StartRun do not look at the status of the run).
THEOREM ResultsAreKept == Spec => CompletedIsFinal
<1>1. /\ CommandInv /\ CancelInv /\ ResultInv /\ (spent["cancels"] = 0 => OrderInv) /\ [Next]_vars
      => [\A r \in Runs : run[r] = "completed" /\ run'[r] # "completed" =>
            spent["cancels"] > 0 /\ spent["retries"] > 0]_vars
  <2> SUFFICES ASSUME CommandInv, CancelInv, ResultInv, spent["cancels"] = 0 => OrderInv, Next,
                      NEW r \in Runs, run[r] = "completed", run'[r] # "completed"
               PROVE  spent["cancels"] > 0 /\ spent["retries"] > 0
    BY DEF vars
  <2>1. /\ spent["cancels"] \in Nat /\ spent["retries"] \in Nat
    BY DEF CommandInv, TypeOK
  <2>2. CASE \E k \in {1, 2} : cmd[<<r, k>>] \in OpenCommand
    <3>1. spent["cancels"] # 0
      BY <2>2 DEF OrderInv, RowOf
    <3>2. spent["retries"] # 0
      BY <2>2 DEF ResultInv, ResultOf
    <3> QED
      BY <2>1, <3>1, <3>2
  <2>3. CASE sched.pc = "start" /\ sched.r = r
    <3>1. spent["cancels"] # 0
      BY <2>3 DEF OrderInv, HolderInv
    <3>2. spent["retries"] # 0
      <4>1. ~ obs[r] > 0
        BY <2>3 DEF CancelInv, HolderWrites
      <4> QED
        BY <4>1 DEF ResultInv, ResultOf
    <3> QED
      BY <2>1, <3>1, <3>2
  <2> QED
    BY <2>2, <2>3, CompletedKept
<1> QED
  BY <1>1, CommandDiscipline, CancelledRuns, UncancelledOrder, PTL DEF Spec, CompletedIsFinal

=============================================================================
