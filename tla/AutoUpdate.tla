----------------------------- MODULE AutoUpdate -----------------------------
(***************************************************************************)
(* Who may start an update, and when: the automatic update scheduler       *)
(* (engine/auto_update.go, adaptive_update.go, scheduler_lifecycle.go and  *)
(* their store halves), the admission of sessions, the prepared batches    *)
(* they leave and the first-run calibration.                               *)
(*                                                                         *)
(* Three callers run startAutoUpdateMode: the scheduler's loop, an         *)
(* explicit request ("now") and the retry after a reader closed ("retry"). *)
(* Its checks hold no lock, so every group of reads is a step of its own;  *)
(* what runs under Engine.operation is one step.  What a session captures  *)
(* is the environment's choice, one unit of tokens each; one unit of time  *)
(* is five minutes.  Timestamps and messages that only the status page     *)
(* reads are left out.                                                     *)
(***************************************************************************)
EXTENDS Naturals, Sequences, FiniteSets, FiniteSetsExt

CONSTANTS Instances,          \* settings and bounds to start from, see below
          PreparedBatchLimit, \* settings.PreparedBatchLimit
          RefillCadence,      \* AutoUpdateRefillMinutes
          MaxAge,             \* PreparedBatchMaxAgeHours
          DailyBudget,        \* AutoUpdateDailyTokenBudget, in sessions
          Horizon,            \* bound on the clock of every instance
          PresenceWindow, GenerationWindow, StandbyCadence, AdaptiveCadence \* adaptive_update.go

Callers == {"loop", "now", "retry"}
Outcomes == [status : {"completed", "partial", "failed"}, items : {0, 1}, limited : BOOLEAN]

\* An instance: AutoUpdateMode, whether calibration is enabled ("pending" after onboarding), the
\* callers, the outcomes of sessions, and bounds on time, sessions, and resets and crashes.
ASSUME UpdateAssumption ==
  /\ \A i \in Instances :
       /\ i.mode \in {"continuous", "adaptive"} /\ i.firstRun \in {"pending", "disabled"}
       /\ i.callers \subseteq Callers /\ i.callers # {} /\ i.outcomes \subseteq Outcomes
       /\ i.time \in 0..Horizon /\ i.sessions \in Nat /\ i.disturbances \in Nat
       /\ i.allowance \in Nat
  /\ PreparedBatchLimit \in Nat \ {0} /\ RefillCadence \in Nat /\ MaxAge \in Nat
  /\ DailyBudget \in Nat /\ Horizon \in Nat
  /\ {PresenceWindow, GenerationWindow, StandbyCadence, AdaptiveCadence} \subseteq Nat

VARIABLES
  inst,        \* the instance, fixed
  now,
  sessions,    \* the sessions ever created, with the batch of each
  onboarding, firstRun, calibrations,
  pause,       \* auto_update_usage_limit_pause
  access, lastTick, receipts, baseline,
  starter,     \* the progress of each caller
  fin,         \* the finalization under way
  spent        \* resets and crashes so far

clock == <<now, access, lastTick, receipts>>
learning == <<onboarding, firstRun, calibrations>>
auvars == <<inst, now, sessions, onboarding, firstRun, calibrations, pause,
          access, lastTick, receipts, baseline, starter, fin, spent>>

Never == Horizon + 100            \* a timestamp that is not set
IdleStarter == [pc |-> "idle", receipt |-> 0]
IdleFin == [pc |-> "idle", s |-> 0, outcome |-> "failed", limited |-> FALSE]

AUInit ==
  /\ now = 0 /\ inst \in Instances /\ sessions = <<>> /\ pause = FALSE
  /\ onboarding = "not_started" /\ firstRun = "not_started" /\ calibrations = <<>>
  /\ access = Never /\ lastTick = Never /\ receipts = <<>>
  /\ baseline = [total |-> 0, automatic |-> 0]
  /\ starter = [p \in Callers |-> IdleStarter]
  /\ fin = IdleFin /\ spent = [resets |-> 0, crashes |-> 0]
-----------------------------------------------------------------------------
(* What the store's queries return.                                        *)

Rows == {s \in DOMAIN sessions : sessions[s].status # "deleted"}
ActiveSessions == {s \in Rows : sessions[s].status = "active"}
Ended == Rows \ ActiveSessions
Prepared == {s \in Rows : sessions[s].batch = "prepared"}

\* PreparedBatches expires overdue batches before it lists the rest.
Expired == {s \in Prepared : sessions[s].expires <= now}
ExpireBatches ==
  sessions' = [s \in DOMAIN sessions |->
                 IF s \in Expired THEN [sessions[s] EXCEPT !.batch = "expired"]
                 ELSE sessions[s]]
PreparedBatches == Prepared \ Expired

DailyTokenUsage == [total |-> Cardinality(Ended),
                    automatic |-> Cardinality({s \in Ended : sessions[s].delivery = "prepared"})]
Quota(kind) == IF DailyTokenUsage[kind] > baseline[kind]
               THEN DailyTokenUsage[kind] - baseline[kind] ELSE 0

Reviewing == {c \in DOMAIN calibrations : calibrations[c].status = "reviewing"}

\* Outcomes, newest first, of the sessions a user or the scheduler asked for.
Judged == {s \in Ended : sessions[s].trigger # "onboarding"}
OutcomeKind(s) == IF sessions[s].items > 0 THEN "productive"
                  ELSE CASE sessions[s].status \in {"failed", "partial"} -> "technical_failure"
                         [] sessions[s].status = "cancelled" -> "interrupted"
                         [] OTHER -> "valid_empty"
LastOutcome == Max(Judged)
Streak(kind) == Cardinality({s \in Judged :
                  \A t \in Judged : t >= s => OutcomeKind(t) = kind})

SupplyBackoff == CASE Streak("valid_empty") = 1 -> 3
                   [] Streak("valid_empty") = 2 -> 6
                   [] OTHER -> 12
TechnicalBackoff == CASE Streak("technical_failure") = 1 -> 1
                      [] Streak("technical_failure") = 2 -> 3
                      [] OTHER -> 6
CoolingDown(kind, backoff) ==
  Streak(kind) > 0 /\ now < sessions[LastOutcome].done + backoff

\* scheduledAutoUpdateAttempts.
GenerationAttempts ==
  {s \in Rows : /\ sessions[s].trigger = "scheduler" /\ sessions[s].delivery = "prepared"
                /\ sessions[s].created + GenerationWindow >= now}

Reveals == {sessions[s].revealed : s \in {t \in Rows : sessions[t].revealed # Never}}
-----------------------------------------------------------------------------
(* The plan of a tick.                                                     *)

\* nextScheduledAutoUpdateTick.
TickDue(cadence) == lastTick = Never \/ now >= lastTick + cadence

RecentTimelineDemand == access # Never /\ now <= access + PresenceWindow

PriorityRefill ==
  /\ RecentTimelineDemand /\ Reveals # {} /\ now <= Max(Reveals) + PresenceWindow
  /\ lastTick # Never => Max(Reveals) > lastTick

\* evaluateAdaptiveReadiness, with one item needed for a batch.
BufferReady(target) == Cardinality(PreparedBatches) >=
                         (IF target < PreparedBatchLimit THEN target ELSE PreparedBatchLimit)

\* The stoppers of buildAdaptiveUpdatePlan ahead of its cadence.
AdaptiveOpen(target) ==
  /\ ~BufferReady(target)
  /\ ~CoolingDown("valid_empty", SupplyBackoff)
  /\ ~CoolingDown("technical_failure", TechnicalBackoff)
  /\ Cardinality(GenerationAttempts) < PreparedBatchLimit

PressureAllows(delay) ==
  (delay > 0 /\ Judged # {}) => now >= sessions[LastOutcome].done + delay

AdaptiveEligible(target, delay) ==
  /\ AdaptiveOpen(target)
  /\ \/ PriorityRefill
     \/ ~RecentTimelineDemand /\ TickDue(StandbyCadence)
     \/ RecentTimelineDemand /\ PressureAllows(delay) /\ TickDue(AdaptiveCadence)

\* adaptiveRetryCanBypassCadence: eligible, or held up by the cadence alone.
AdaptiveRetry(target, delay) ==
  AdaptiveOpen(target)
    /\ (PriorityRefill \/ ~RecentTimelineDemand \/ PressureAllows(delay))

\* Batches to keep ahead, from the pace of consumption.
PreparedTargets == 1..PreparedBatchLimit
\* The delays that follow from the decayed pressure of reveals and updates.
PressureDelays == {0, 1, 2, 3}
\* Without recent demand one batch is kept, whatever the pressure.
PressurePolicies == IF RecentTimelineDemand THEN PreparedTargets \X PressureDelays ELSE {<<1, 0>>}
-----------------------------------------------------------------------------
(* startAutoUpdateMode.  Settings, pause and plan are read in one step,    *)
(* the stoppers in another: what is read may be stale two steps later.     *)

Moved(p, pc) == starter' = [starter EXCEPT ![p].pc = pc]
Settled(p) == starter' = [starter EXCEPT ![p] = IdleStarter]
FaultReturned(p) == Settled(p)
\* An early return: the deferred completion runs if a receipt was written.
Returned(p) == IF starter[p].receipt = 0 THEN Settled(p) ELSE Moved(p, "skipped")

\* An explicit request plans nothing.
StartPreparedUpdateNow(p) ==
  /\ p = "now" /\ starter[p].pc = "idle" /\ ~pause /\ Moved(p, "stoppers")
  /\ UNCHANGED <<clock, inst, sessions, learning, pause, baseline, fin, spent>>

\* A retry keeps the adaptive plan and gives up when it is against it.
RetryAfterReaderClose(p) ==
  /\ p = "retry" /\ starter[p].pc = "idle" /\ ~pause
  /\ IF inst.mode = "adaptive"
     THEN /\ ExpireBatches
          /\ \E policy \in PressurePolicies :
               IF AdaptiveRetry(policy[1], policy[2]) THEN Moved(p, "stoppers") ELSE UNCHANGED starter
     ELSE UNCHANGED sessions /\ Moved(p, "stoppers")
  /\ UNCHANGED <<clock, inst, learning, pause, baseline, fin, spent>>

\* The tick is consumed with a receipt.
RecordSchedulerTick ==
  /\ receipts' = Append(receipts, [tick |-> now, outcome |-> "checking"])
  /\ lastTick' = now
\* A reset may have dropped the receipt to complete.
CompleteSchedulerTick(r, outcome) ==
  receipts' = IF r \in DOMAIN receipts THEN [receipts EXCEPT ![r].outcome = outcome] ELSE receipts

\* The loop runs one check at a time, every 30 seconds or when woken.
LoopReady(p) == p = "loop" /\ starter[p].pc = "idle"

\* The loop's plan.  A tick that is due is consumed before the stoppers; no
\* one else reads or writes ticks, so plan and tick are one step.
PlanTick(p) ==
  /\ LoopReady(p) /\ ~pause
  /\ IF inst.mode = "adaptive"
     THEN ExpireBatches /\ \E policy \in PressurePolicies : AdaptiveEligible(policy[1], policy[2])
     ELSE UNCHANGED sessions /\ TickDue(RefillCadence)
  /\ RecordSchedulerTick
  /\ starter' = [starter EXCEPT ![p] = [pc |-> "stoppers", receipt |-> Len(receipts) + 1]]
  /\ UNCHANGED <<now, access, inst, learning, pause, baseline, fin, spent>>

\* Onboarding, session, calibration and capacity.
Stopped == \/ onboarding # "completed" \/ ActiveSessions # {} \/ Reviewing # {}
           \/ firstRun = "pending" \/ Cardinality(PreparedBatches) >= PreparedBatchLimit

EstimatedTokens == 1    \* what a session costs

WithinBudget == /\ Quota("total") + EstimatedTokens <= DailyBudget
                /\ Quota("automatic") + EstimatedTokens <= inst.allowance

CheckStoppers(p) ==
  /\ starter[p].pc = "stoppers"
  /\ ExpireBatches
  /\ \/ ~Stopped /\ WithinBudget /\ Moved(p, "start")
     \/ Returned(p)     \* a stopper, the budget, or the bridge is not ready
  /\ UNCHANGED <<clock, inst, learning, pause, baseline, fin, spent>>
-----------------------------------------------------------------------------
(* startSession, under Engine.operation.                                   *)

FaultOverlap == onboarding = "completed" /\ Reviewing = {}
\* The gates of startSession and createUpdateSession; bridge, sources, daily
\* clean-up and leases may refuse as well.
Admissible == onboarding = "completed" /\ Reviewing = {} /\ ActiveSessions = {}

\* createUpdateSession: the session, its runs and, if prepared, its batch.
CreateUpdateSession(trigger, delivery) ==
  sessions' = Append(sessions, [status |-> "active", trigger |-> trigger, delivery |-> delivery,
                created |-> now, done |-> Never, items |-> 0, assessed |-> FALSE,
                batch |-> IF delivery = "prepared" THEN "preparing" ELSE "none",
                expires |-> Never, revealed |-> Never])

StartPrepared(p) ==
  /\ starter[p].pc = "start"
  /\ \/ /\ Admissible /\ Len(sessions) < inst.sessions
        /\ CreateUpdateSession(IF p = "loop" THEN "scheduler" ELSE "user", "prepared")
        /\ IF starter[p].receipt = 0 THEN Settled(p) ELSE Moved(p, "started")
     \/ UNCHANGED sessions /\ Returned(p)
  /\ UNCHANGED <<clock, inst, learning, pause, baseline, fin, spent>>

\* The deferred completion.
CompleteTick(p) ==
  /\ starter[p].pc \in {"started", "skipped"}
  /\ CompleteSchedulerTick(starter[p].receipt, starter[p].pc)
  /\ Settled(p)
  /\ UNCHANGED <<now, access, lastTick, inst, sessions, learning, pause, baseline, fin, spent>>

StartVisibleUpdate ==
  /\ Len(sessions) < inst.sessions /\ Admissible
  /\ CreateUpdateSession(IF firstRun = "pending" THEN "onboarding" ELSE "user", "visible")
  /\ UNCHANGED <<clock, inst, learning, pause, baseline, starter, fin, spent>>
-----------------------------------------------------------------------------
(* finalizeSessionLocked and FinalizeSession, under the schedule mutex.    *)

PauseForUsageLimit(limited) == pause' = (pause \/ limited)

\* The runs are terminal: composition gives the session its items; a usage
\* limit met on the way pauses the automatic updates.
Compose(s) ==
  /\ fin.pc = "idle" /\ s \in ActiveSessions
  /\ \E outcome \in inst.outcomes :
       /\ sessions' = [sessions EXCEPT ![s].items = outcome.items,
                                      ![s].assessed = (outcome.status # "failed")]
       /\ fin' = [pc |-> "publish", s |-> s, outcome |-> outcome.status, limited |-> outcome.limited]
       /\ PauseForUsageLimit(outcome.limited)
  /\ UNCHANGED <<clock, inst, learning, baseline, starter, spent>>

\* FinalizeSession writes the session's status first ...
Publish ==
  /\ fin.pc = "publish" /\ fin' = [fin EXCEPT !.pc = "batch"]
  /\ IF fin.s \in Rows
     THEN sessions' = [sessions EXCEPT ![fin.s].status = fin.outcome, ![fin.s].done = now]
     ELSE UNCHANGED sessions
  /\ UNCHANGED <<clock, inst, learning, pause, baseline, starter, spent>>

\* The model calls of the session all worked.
ModelUsageProvesRestored == ~fin.limited
\* A completed visible session of the user proves that usage is restored.
ProvesRestored(s) ==
  /\ sessions[s].status = "completed" /\ sessions[s].trigger = "user"
  /\ sessions[s].delivery = "visible" /\ ModelUsageProvesRestored

\* ... its batch in a statement of its own, and lifts the usage pause.
FinishBatch ==
  /\ fin.pc = "batch" /\ fin' = [fin EXCEPT !.pc = "calibrate"]
  /\ pause' = (pause /\ ~(fin.s \in Rows /\ ProvesRestored(fin.s)))
  /\ IF fin.s \in Rows /\ sessions[fin.s].batch = "preparing"
     THEN sessions' = [sessions EXCEPT ![fin.s].expires = now + MaxAge,
            ![fin.s].batch = IF sessions[fin.s].items > 0 THEN "prepared" ELSE "expired"]
     ELSE UNCHANGED sessions
  /\ UNCHANGED <<clock, inst, learning, baseline, starter, spent>>

\* CancelSession takes neither mutex and leaves the batch as it is.
CancelSession(s) ==
  /\ s \in ActiveSessions
  /\ sessions' = [sessions EXCEPT ![s].status = "cancelled", ![s].done = now]
  /\ UNCHANGED <<clock, inst, learning, pause, baseline, starter, fin, spent>>
-----------------------------------------------------------------------------
(* First-run calibration.                                                  *)

Ordinals == {1, 2}     \* the samples of a calibration

CreateCalibration(s) ==
  calibrations' = Append(calibrations, [session |-> s, status |-> "reviewing",
                    after |-> Len(sessions), resolved |-> {}])
RecordDecision(c, o) == calibrations' = [calibrations EXCEPT ![c].resolved = @ \cup {o}]
CompleteCalibration(c) ==
  /\ calibrations' = [calibrations EXCEPT ![c].resolved = Ordinals, ![c].status = "completed"]
  /\ firstRun' = "completed"

\* Completed runs left assessed candidates whose evidence is still there.
HasCandidates(s) == sessions[s].assessed

Eligible(s) == /\ s \in Rows /\ sessions[s].status \in {"completed", "partial"}
               /\ HasCandidates(s)

\* startCalibrationLocked: an existing calibration is returned as it is.
StartCalibrationLocked(s) ==
  /\ calibrations = <<>> /\ Eligible(s) /\ inst.firstRun = "pending"
  /\ CreateCalibration(s)

\* At the end of a finalization, or for the latest eligible session.
EnsurePendingFirstCalibration(s) ==
  IF firstRun = "pending" /\ calibrations = <<>> /\ Eligible(s)
  THEN StartCalibrationLocked(s) ELSE UNCHANGED calibrations

\* The last step of a finalization; the detection lanes it launches are apart.
CalibrateFinalized ==
  /\ fin.pc = "calibrate" /\ fin' = IdleFin
  /\ EnsurePendingFirstCalibration(fin.s)
  /\ UNCHANGED <<clock, inst, sessions, onboarding, firstRun, pause, baseline, starter, spent>>

\* CalibrationOverview makes up for a calibration a crash prevented.
CalibrationOverview ==
  /\ \E s \in Ended : Eligible(s)
  /\ EnsurePendingFirstCalibration(Max({s \in Ended : Eligible(s)}))
  /\ UNCHANGED <<clock, inst, sessions, onboarding, firstRun, pause, baseline, starter, fin, spent>>

StartCalibration(s) ==
  /\ StartCalibrationLocked(s)
  /\ UNCHANGED <<clock, inst, sessions, onboarding, firstRun, pause, baseline, starter, fin, spent>>

\* DecideCalibration may be repeated for a sample; with the last one it
\* completes the calibration unless the preference fit fails.
FaultDecide(c, o) ==
  /\ c \in Reviewing
  /\ calibrations' = [calibrations EXCEPT ![c].resolved = @ \cup {o}, ![c].status = "completed"]
  /\ firstRun' = "completed"
  /\ UNCHANGED <<clock, inst, sessions, onboarding, pause, baseline, starter, fin, spent>>

DecideCalibration(c, o) ==
  /\ c \in Reviewing
  /\ \/ calibrations[c].resolved \cup {o} = Ordinals /\ CompleteCalibration(c)
     \/ RecordDecision(c, o) /\ UNCHANGED firstRun
  /\ UNCHANGED <<clock, inst, sessions, onboarding, pause, baseline, starter, fin, spent>>

CompleteOnboarding ==
  /\ onboarding = "not_started" /\ onboarding' = "completed"
  /\ firstRun' = inst.firstRun
  /\ UNCHANGED <<clock, inst, sessions, calibrations, pause, baseline, starter, fin, spent>>
-----------------------------------------------------------------------------
(* The user's other requests, the resets, the clock and a crash.           *)

\* The bound on resets and crashes.
Undisturbed == spent.resets + spent.crashes < inst.disturbances

FaultReveal(s) ==
  /\ s \in Rows /\ sessions[s].batch \in {"prepared", "expired"}
  /\ sessions' = [sessions EXCEPT ![s].batch = "visible", ![s].revealed = now]

Reveal(s) ==
  /\ s \in Prepared /\ sessions[s].expires > now
  /\ sessions' = [sessions EXCEPT ![s].batch = "visible", ![s].revealed = now]
\* A reveal is demand for the adaptive plan.
RevealPreparedBatch(s) ==
  /\ Reveal(s)
  /\ IF inst.mode = "adaptive" THEN access' = now ELSE access' = access
  /\ UNCHANGED <<now, lastTick, receipts, inst, learning, pause, baseline, starter, fin, spent>>

\* Only the adaptive plan reads the last access.
RecordUIAccess ==
  /\ inst.mode = "adaptive" /\ access' = now
  /\ UNCHANGED <<now, lastTick, receipts, inst, sessions, learning, pause, baseline, starter, fin, spent>>

\* Reading the status expires overdue batches too.
AutoUpdateStatus ==
  /\ Expired # {} /\ ExpireBatches
  /\ UNCHANGED <<clock, inst, learning, pause, baseline, starter, fin, spent>>

\* The store's resets refuse while a session is active.
RequireIdle == ActiveSessions = {} /\ Undisturbed /\ spent' = [spent EXCEPT !.resets = @ + 1]

ResetQuota == baseline' = DailyTokenUsage
ResetDailyQuota ==
  /\ RequireIdle /\ baseline # DailyTokenUsage /\ ResetQuota
  /\ UNCHANGED <<clock, inst, sessions, learning, pause, starter, fin>>

ConfirmUsageRestored ==
  /\ pause /\ ActiveSessions = {} /\ pause' = FALSE
  /\ UNCHANGED <<clock, inst, sessions, learning, baseline, starter, fin, spent>>

ResetLearning ==
  /\ RequireIdle /\ calibrations # <<>>
  /\ calibrations' = <<>> /\ firstRun' = "not_started"
  /\ UNCHANGED <<clock, inst, sessions, onboarding, pause, baseline, starter, fin>>

Deleted == [status |-> "deleted", trigger |-> "user", delivery |-> "visible", created |-> 0,
            done |-> 0, items |-> 0, assessed |-> FALSE, batch |-> "none",
            expires |-> Never, revealed |-> Never]

\* FullReset removes sessions with their batches and calibrations, settings,
\* schedule and onboarding; a caller or a finalization may be on its way.
FullReset ==
  /\ RequireIdle /\ Rows # {}
  /\ sessions' = [s \in DOMAIN sessions |-> Deleted]
  /\ onboarding' = "not_started" /\ firstRun' = "not_started" /\ calibrations' = <<>>
  /\ access' = Never /\ lastTick' = Never /\ receipts' = <<>> /\ pause' = FALSE
  /\ baseline' = [total |-> 0, automatic |-> 0]
  /\ UNCHANGED <<inst, now, starter, fin>>

Advance ==
  /\ now < inst.time /\ now' = now + 1
  /\ UNCHANGED <<access, lastTick, receipts, inst, sessions, learning, pause, baseline,
                 starter, fin, spent>>

Crash ==
  /\ Undisturbed /\ spent' = [spent EXCEPT !.crashes = @ + 1]
  /\ starter' = [p \in Callers |-> IdleStarter] /\ fin' = IdleFin
  /\ UNCHANGED <<clock, inst, sessions, learning, pause, baseline>>

CallerStep(p) == CheckStoppers(p) \/ StartPrepared(p) \/ CompleteTick(p)
FinStep == Publish \/ FinishBatch \/ CalibrateFinalized

AUNext ==
  \/ \E p \in inst.callers : StartPreparedUpdateNow(p) \/ RetryAfterReaderClose(p) \/ PlanTick(p)
  \/ \E p \in Callers : CallerStep(p)
  \/ FinStep
  \/ StartVisibleUpdate \/ CalibrationOverview \/ CompleteOnboarding
  \/ \E s \in DOMAIN sessions :
       \/ Compose(s) \/ CancelSession(s) \/ RevealPreparedBatch(s) \/ StartCalibration(s)
  \/ \E c \in DOMAIN calibrations, o \in Ordinals : DecideCalibration(c, o)
  \/ RecordUIAccess \/ AutoUpdateStatus \/ ConfirmUsageRestored
  \/ ResetDailyQuota \/ ResetLearning \/ FullReset
  \/ Advance \/ Crash

AUSpec == AUInit /\ [][AUNext]_auvars
\* The Go scheduler runs a caller that has begun and a finalization that has
\* begun; their store calls return.
AUFairSpec == AUSpec /\ (\A p \in Callers : WF_auvars(CallerStep(p))) /\ WF_auvars(FinStep)
-----------------------------------------------------------------------------
(* Properties.                                                             *)

\* Every variable has its type.
AUTypeOK ==
  /\ now \in 0..inst.time /\ inst \in Instances /\ pause \in BOOLEAN
  /\ onboarding \in {"not_started", "completed"}
  /\ firstRun \in {"not_started", "pending", "disabled", "completed"}
  /\ \A s \in DOMAIN sessions :
       /\ sessions[s].status \in {"active", "completed", "partial", "failed", "cancelled", "deleted"}
       /\ sessions[s].batch \in {"none", "preparing", "prepared", "visible", "expired"}
       /\ (sessions[s].delivery = "prepared") <=> (sessions[s].batch # "none")
  /\ \A p \in Callers : starter[p].pc \in {"idle", "stoppers", "start", "started", "skipped"}
  /\ \A r \in DOMAIN receipts : receipts[r].outcome \in {"checking", "started", "skipped"}

\* No two updates are active, whoever starts them (startSession).
OneActiveUpdate == Cardinality(ActiveSessions) <= 1

\* The checks of startAutoUpdateMode are stale by the time it starts: what is
\* prepared may exceed the limit, but by no more than one batch for every
\* caller, one of them because FinalizeSession ends the session before its
\* batch counts.
PreparedBounded ==
  Cardinality(Prepared) <= PreparedBatchLimit + Cardinality(inst.callers)

\* In the same way the automatic sessions of a day exceed the automatic
\* allowance by no more than the other callers.
AutomaticBounded ==
  Quota("automatic") <= inst.allowance + Cardinality(inst.callers) - 1

\* Two ticks the scheduler consumed are a full continuous cadence apart
\* (nextScheduledAutoUpdateTick), skipped ticks and restarts included.
TickSpacing ==
  inst.mode = "continuous" =>
    \A r \in 1..(Len(receipts) - 1) : receipts[r + 1].tick >= receipts[r].tick + RefillCadence

\* The adaptive scheduler starts no more than the allowance of sessions
\* within any generation window, whatever became of them.
AllowanceHeld ==
  inst.mode = "adaptive" =>
    \A s \in Rows : sessions[s].trigger = "scheduler" =>
      Cardinality({t \in Rows : /\ sessions[t].trigger = "scheduler"
                                /\ sessions[t].created <= sessions[s].created
                                /\ sessions[t].created + GenerationWindow >= sessions[s].created})
        <= PreparedBatchLimit

\* While a calibration is under review no update starts: an active session is
\* older than the calibration (startSession).
NoUpdateUnderReview ==
  \A c \in Reviewing, s \in ActiveSessions : s <= calibrations[c].after

\* There is one first-run calibration at most; a completed one has every
\* sample resolved and is known as completed (CompleteCalibration).
CalibrationSettled ==
  /\ Len(calibrations) <= 1
  /\ \A c \in DOMAIN calibrations :
       calibrations[c].status = "completed" =>
         calibrations[c].resolved = Ordinals /\ firstRun = "completed"

\* A batch that was shown or has expired stays so, and none is prepared twice,
\* while reveals, expiries and finalizations race.
BatchesFinal ==
  [][\A s \in DOMAIN sessions :
       sessions[s].batch # sessions'[s].batch /\ sessions'[s].status # "deleted" =>
         <<sessions[s].batch, sessions'[s].batch>> \in
           {<<"preparing", "prepared">>, <<"preparing", "expired">>,
            <<"prepared", "visible">>, <<"prepared", "expired">>}]_auvars

\* A consumed tick is decided: its receipt does not stay "checking" unless
\* the process ends or a reset drops it.
TicksSettle ==
  (\E r \in DOMAIN receipts : receipts[r].outcome = "checking")
    ~> \/ \A r \in DOMAIN receipts : receipts[r].outcome # "checking"
       \/ spent.crashes > 0

\* The first session with assessed candidates leads to the first-run
\* calibration, which gates the automatic updates until then.
FirstRunOffered ==
  (firstRun = "pending" /\ \E s \in Rows : Eligible(s))
    ~> \/ calibrations # <<>> \/ firstRun # "pending"
       \/ spent.crashes > 0 \/ spent.resets > 0

\* The limits of automatic updates under callers that check them without a lock.
UpdateLimits ==
  /\ AUTypeOK /\ OneActiveUpdate /\ PreparedBounded /\ AutomaticBounded
  /\ TickSpacing /\ AllowanceHeld

\* Updates and the first-run calibration exclude and follow each other.
CalibrationHonest == NoUpdateUnderReview /\ CalibrationSettled

\* The scheduler decides its ticks, and the first-run calibration that gates it
\* is offered.
SchedulerProgress == TicksSettle /\ FirstRunOffered
=============================================================================
