--------------------------- MODULE MediaRecapture ---------------------------
(***************************************************************************)
(* Media recapture: the durable jobs of store/recapture.go, the engine     *)
(* operations on them, and the hybrid Facebook route, in which a job       *)
(* queued in headless mode waits for the coordinator to hand the profile   *)
(* to a Browser, is bound to that Browser's generation, dispatched to the  *)
(* Bridge and, once terminal, keeps the Browser until the Bridge has       *)
(* acknowledged the release of its surfaces.                               *)
(*                                                                         *)
(* Rows survive a restart; leases, holds and dispatch marks do not.  The   *)
(* capture owner is reduced to what its Snapshot shows; CaptureRuntime and *)
(* CollectionCoordinator model how it changes.  captureMu sections and     *)
(* store transactions are atomic; everything between two of them is a      *)
(* separate step.                                                          *)
(***************************************************************************)
EXTENDS Naturals, FiniteSets

CONSTANTS MaxJobs,        \* rows ever inserted
          Items,          \* timeline items
          FacebookItems,  \* those captured from Facebook; the others from X
          Reasons,        \* why media is captured again
          MaxGeneration,  \* launches of the capture owner in one process life
          MaxEpoch,       \* lives of the sidecar process
          OwnerExits      \* whether the owner's process may fail

ASSUME RecaptureAssumption ==
  /\ MaxJobs \in Nat /\ MaxGeneration \in Nat \ {0} /\ MaxEpoch \in Nat \ {0}
  /\ IsFiniteSet(Items) /\ FacebookItems \subseteq Items
  /\ Reasons \subseteq {"missing_media", "playback_error"} /\ OwnerExits \in BOOLEAN

Jobs == 1..MaxJobs
Drivers == {"browser", "headless"}
Modes == {"background", "foreground"}
Collectors == {"bridge", "quiet", "headless"}

VARIABLES
  row,        \* media_recaptures
  evidence,   \* what timelineEvidence finds of each item: media absent or playable
  paused,     \* the X capture pause
  epoch,      \* Engine.epoch
  owner,      \* captureOwner.Snapshot()
  mode,       \* the saved collection mode
  access,     \* facebookSourceAuthorizedNow, from the Bridge's last report
  lease,      \* Engine.captureRecaptures
  holds,      \* Engine.collectionIntents
  cleaning,   \* Engine.collectionCleanupPending
  running, started, confirmed,   \* browserRecaptureDispatch*
  calls,      \* dispatch and cleanup goroutines in flight
  asking,     \* the QueueMediaRecaptureForReason that holds Engine.operation
  claim,      \* a claim between its owner check and its transaction
  pump        \* the job processHybridBrowserMediaRecaptures is at

durable == <<row, evidence, paused, mode>>
marks == <<running, started, confirmed>>
held == <<lease, holds, cleaning, marks>>
threads == <<calls, asking, claim, pump>>
mrVars == <<durable, epoch, owner, access, held, threads>>

NoLease == [gen |-> 0, driver |-> "none"]
NoStamp == [epoch |-> 0, gen |-> 0, driver |-> "none"]
Nothing == [job |-> 0]
NoRow == [status |-> "none"]

Active(r) == r.status \in {"queued", "claimed"}
Terminal(r) == r.status \in {"completed", "failed"}
Hybrid(r) == r.phase # "none"
Rows == {j \in Jobs : row[j].status # "none"}

Ready(d) == owner.state = "ready" /\ owner.driver = d
OwnerLease == [gen |-> owner.gen, driver |-> owner.driver]
OwnerStamp == [epoch |-> epoch, gen |-> owner.gen, driver |-> owner.driver]

RowType ==
  {NoRow} \cup
  [status : {"queued", "claimed", "completed", "failed"}, item : Items,
   mode : Modes, reason : Reasons \cup {"missing_media"},
   phase : {"none", "waiting", "admitted"},
   stamp : {NoStamp} \cup [epoch : 1..MaxEpoch, gen : 1..MaxGeneration, driver : Drivers],
   route : Collectors, outcome : {"none", "recovered", "unavailable"},
   cleanup : {"none", "pending", "released"}, done : 0..MaxJobs]

\* Rows have the shape the store writes: an admission marker is waiting exactly
\* as long as the row has no runtime stamp (MediaRecaptureAdmission).
MRTypeOK ==
  /\ row \in [Jobs -> RowType]
  /\ \A j \in Rows : Hybrid(row[j]) =>
       ((row[j].phase = "waiting") <=> (row[j].stamp = NoStamp))
  /\ evidence \in [Items -> {"absent", "playable"}]
  /\ paused \in BOOLEAN /\ mode \in Drivers /\ epoch \in 1..MaxEpoch
  /\ owner \in [state : {"ready", "replacing", "failed"}, driver : Drivers,
                gen : 1..MaxGeneration]
  /\ access \in BOOLEAN
  /\ lease \in [Jobs -> {NoLease} \cup [gen : 1..MaxGeneration, driver : Drivers]]
  /\ holds \subseteq Jobs /\ cleaning \subseteq Jobs
  /\ running \subseteq Jobs /\ started \subseteq Jobs /\ confirmed \subseteq Jobs
  /\ calls \subseteq [kind : {"dispatch", "cleanup"}, job : Jobs,
                      gen : 1..MaxGeneration, at : {"called", "saved"}]

\* Attempts of earlier lives of the process, made before owners were stamped:
\* they make a foreground attempt possible, or refuse it.  Other items have
\* the evidence that lets them be recaptured for the same reason.
EarlierAttempts ==
  [status : {"completed"}, item : Items, mode : Modes, reason : Reasons,
   phase : {"none"}, stamp : {NoStamp}, route : {"bridge"},
   outcome : {"recovered", "unavailable"}, cleanup : {"none"}, done : {1}]

MRInit ==
  /\ \E h \in EarlierAttempts :
       /\ h.mode = "background"
       /\ row = [j \in Jobs |-> IF j = 1 THEN h ELSE NoRow]
       /\ evidence \in [Items -> {"absent", "playable"}]
       /\ \A i \in Items : evidence[i] = "playable" <=>
            IF i = h.item THEN h.outcome = "recovered" ELSE h.reason = "playback_error"
  /\ paused = FALSE /\ epoch = 1
  /\ owner \in [state : {"ready"}, driver : Drivers, gen : {1}]
  /\ mode \in Drivers /\ access \in BOOLEAN
  /\ lease = [j \in Jobs |-> NoLease]
  /\ holds = {} /\ cleaning = {}
  /\ running = {} /\ started = {} /\ confirmed = {}
  /\ calls = {} /\ asking = Nothing /\ claim = Nothing /\ pump = Nothing

-----------------------------------------------------------------------------
(***************************************************************************)
(* QueueMediaRecaptureForReason holds Engine.operation throughout.  The    *)
(* ordinary route takes its lease first; the store reads the evidence and  *)
(* the earlier attempts outside a transaction and then inserts.            *)
(***************************************************************************)
hybridFacebook(i) == mode = "headless" /\ i \in FacebookItems

\* Status().Pending of the coordinator.
CollectionPending == ~Ready(mode) \/ holds # {}

\* The completed attempt of an item with the latest completed_at.
LatestCompleted(i) ==
  {j \in Rows : /\ row[j].item = i /\ row[j].status = "completed"
                /\ \A k \in Rows : row[k].item = i /\ row[k].status = "completed"
                                     => row[k].done <= row[j].done}

requireUnavailableBackgroundRecapture(i, r) ==
  \E j \in LatestCompleted(i) :
    row[j].outcome = "unavailable" /\ row[j].mode = "background" /\ row[j].reason = r

Recapturable(i, m, r) ==
  /\ m = "foreground" => requireUnavailableBackgroundRecapture(i, r)
  /\ r = "missing_media" => evidence[i] = "absent"
  /\ r = "playback_error" /\ m = "background" => evidence[i] = "playable"

\* selectCaptureCollector; a foreground job in a Browser is the Bridge's.
Route(m, d) ==
  IF d = "headless" THEN {"headless"}
  ELSE IF m = "foreground" THEN {"bridge"} ELSE {"bridge", "quiet"}

ActiveItem(i) == \E j \in Rows : row[j].item = i /\ Active(row[j])

\* A refused request that takes no lease changes nothing and is left out.
QueueBegin(i, m, r) ==
  /\ asking = Nothing
  /\ Cardinality(Rows) < MaxJobs \/ (ActiveItem(i) /\ ~hybridFacebook(i))
  /\ hybridFacebook(i) \/ (~CollectionPending /\ owner.state = "ready")
  /\ Recapturable(i, m, r)
  /\ asking' = [job |-> i, mode |-> m, reason |-> r, hybrid |-> hybridFacebook(i),
                lease |-> IF hybridFacebook(i) THEN NoLease ELSE OwnerLease]
  /\ UNCHANGED <<durable, epoch, owner, access, held, calls, claim, pump>>

\* The unique index refuses a second active job of the item, and the bound on the
\* rows refuses one more row: the lease goes back.
QueueRefused ==
  /\ asking # Nothing
  /\ ActiveItem(asking.job) \/ Cardinality(Rows) = MaxJobs
  /\ asking' = Nothing
  /\ UNCHANGED <<durable, epoch, owner, access, held, calls, claim, pump>>

\* createOwnedMediaRecapture: an ordinary row carries its owner's stamp from the
\* start, a hybrid one waits for admission and is the Bridge's.
CreatedRow(a, c) ==
  [status |-> "queued", item |-> a.job, mode |-> a.mode, reason |-> a.reason,
   route |-> c, outcome |-> "none", cleanup |-> "none", done |-> 0,
   phase |-> IF a.hybrid THEN "waiting" ELSE "none",
   stamp |-> IF a.hybrid THEN NoStamp
             ELSE [epoch |-> epoch, gen |-> a.lease.gen, driver |-> a.lease.driver]]

QueueInsert ==
  /\ asking # Nothing
  /\ ~ActiveItem(asking.job)
  /\ \E j \in Jobs, c \in Collectors :
       /\ j = Cardinality(Rows) + 1
       /\ c \in (IF asking.hybrid THEN {"bridge"} ELSE Route(asking.mode, asking.lease.driver))
       /\ row' = [row EXCEPT ![j] = CreatedRow(asking, c)]
       /\ lease' = [lease EXCEPT ![j] = asking.lease]
       /\ holds' = IF asking.hybrid THEN holds \cup {j} ELSE holds
  /\ asking' = Nothing
  /\ UNCHANGED <<evidence, paused, mode, epoch, owner, access, cleaning, marks,
                 calls, claim, pump>>

-----------------------------------------------------------------------------
(***************************************************************************)
(* Claim, observation and failure.  Each of these handlers ends with       *)
(* releaseTerminalCaptureSessions, deferred until after its transaction:   *)
(* the pass takes captureMu again and is the action releaseTerminal below, *)
(* which weak fairness makes happen.                                       *)
(***************************************************************************)
Failed(j) == IF Active(row[j]) THEN [row EXCEPT ![j].status = "failed"] ELSE row

\* validateCaptureStamp: the lease's generation is current and the stamp is its own.
Validated(l, j) ==
  /\ l # NoLease /\ owner.state = "ready" /\ l.gen = owner.gen
  /\ row[j].stamp = [epoch |-> epoch, gen |-> l.gen, driver |-> l.driver]

\* ensureCaptureRecapture, ensureAdmittedBrowserRecapture.
EnsuredLease(j) == IF lease[j] # NoLease THEN lease[j] ELSE OwnerLease

CollectorDriver(c) == IF c = "headless" THEN "headless" ELSE "browser"

\* A claim of a job that already ended is refused by the transaction, and the
\* lease it took for the check goes back with the pass: it is left out.
ClaimCheck(j, c) ==
  /\ claim = Nothing /\ j \in Rows /\ Active(row[j]) /\ row[j].phase # "waiting"
  /\ LET denied == Hybrid(row[j]) /\ ~access
         lost == Hybrid(row[j]) /\ ~(owner.state = "ready" /\ row[j].stamp = OwnerStamp)
         l == EnsuredLease(j)
     IN IF denied \/ lost
          THEN row' = Failed(j) /\ UNCHANGED <<lease, claim>>
          ELSE /\ lease[j] # NoLease \/ owner.state = "ready"
               /\ lease' = [lease EXCEPT ![j] = l]
               /\ IF l.driver # CollectorDriver(c)
                    THEN UNCHANGED <<row, claim>>
                  ELSE IF ~Validated(l, j)
                    THEN row' = Failed(j) /\ UNCHANGED claim
                  ELSE claim' = [job |-> j, route |-> c] /\ UNCHANGED row
  /\ UNCHANGED <<evidence, paused, mode, epoch, owner, access, holds, cleaning, marks,
                 calls, asking, pump>>

\* The gates of claimMediaRecaptureWithBehavior.
Claimable(j, c) ==
  /\ row[j].item \notin FacebookItems => ~paused
  /\ row[j].status = "queued" /\ row[j].phase # "waiting" /\ row[j].route = c

\* The claim's transaction; pacing and the account gate may refuse it too.
ClaimMediaRecapture ==
  /\ claim # Nothing
  /\ row' \in {row} \cup
       (IF Claimable(claim.job, claim.route)
          THEN {[row EXCEPT ![claim.job].status = "claimed"]} ELSE {})
  /\ claim' = Nothing
  /\ UNCHANGED <<evidence, paused, mode, epoch, owner, access, held, calls, asking, pump>>

Completions == Cardinality({k \in Rows : row[k].done > 0})

\* completeMediaRecapture: the row and the item's evidence change together.
Completed(j, o) ==
  /\ row' = [row EXCEPT ![j].status = "completed", ![j].outcome = o,
                        ![j].done = Completions + 1]
  /\ evidence' = [evidence EXCEPT ![row[j].item] =
                    IF o = "recovered" THEN "playable" ELSE "absent"]

\* Fault: a late observation is accepted for a job that failed meanwhile.
AcceptLate(j, o) ==
  /\ j \in Rows /\ Validated(lease[j], j)
  /\ row[j].status \in {"claimed", "failed"}
  /\ Completed(j, o)
  /\ UNCHANGED <<paused, mode, epoch, owner, access, held, threads>>

AcceptMediaRecapture(j, o) ==
  /\ j \in Rows /\ Validated(lease[j], j)
  /\ row[j].item \notin FacebookItems => ~paused
  /\ row[j].status = "claimed"
  /\ Completed(j, o)
  /\ UNCHANGED <<paused, mode, epoch, owner, access, held, threads>>

\* An X access challenge pauses X and ends every active X job with it.
XChallenge ==
  /\ paused' = TRUE
  /\ row' = [k \in Jobs |-> IF k \in Rows /\ row[k].item \notin FacebookItems
                              THEN Failed(k)[k] ELSE row[k]]

FailMediaRecapture(j, challenge) ==
  /\ j \in Rows /\ Validated(lease[j], j) /\ Active(row[j])
  /\ IF challenge /\ row[j].item \notin FacebookItems
       THEN XChallenge ELSE row' = Failed(j) /\ UNCHANGED paused
  /\ UNCHANGED <<evidence, mode, epoch, owner, access, held, threads>>

\* The completed row that records the provenance of passive media.
PassiveRow(i) ==
  [status |-> "completed", item |-> i, mode |-> "background",
   reason |-> "missing_media", route |-> "bridge", outcome |-> "recovered",
   phase |-> "none", stamp |-> NoStamp, cleanup |-> "none", done |-> Completions + 1]

\* Media the Bridge already had in its cache becomes evidence of an X item.
ApplyPassiveXMediaEvidence(i) ==
  /\ asking = Nothing /\ i \notin FacebookItems
  /\ \E j \in Jobs : /\ j = Cardinality(Rows) + 1
                     /\ row' = [row EXCEPT ![j] = PassiveRow(i)]
  /\ evidence' = [evidence EXCEPT ![i] = "playable"]
  /\ UNCHANGED <<paused, mode, epoch, owner, access, held, threads>>

ConfirmXCaptureRecovery ==
  /\ paused /\ paused' = FALSE
  /\ UNCHANGED <<row, evidence, mode, epoch, owner, access, held, threads>>

-----------------------------------------------------------------------------
(***************************************************************************)
(* processHybridBrowserMediaRecaptures, every 500 ms: the row is read, the *)
(* hold taken and a waiting job admitted; then the row as it was read      *)
(* decides about the dispatch.                                             *)
(***************************************************************************)
BrowserAdmissionMediaRecaptureIDs ==
  {j \in Rows : /\ Hybrid(row[j])
                /\ Active(row[j]) \/ (row[j].phase = "admitted" /\ row[j].cleanup # "released")}

PumpRead(j) ==
  /\ pump = Nothing /\ j \in BrowserAdmissionMediaRecaptureIDs
  /\ pump' = [job |-> j, seen |-> row[j], at |-> "admit"]
  /\ UNCHANGED <<durable, epoch, owner, access, held, calls, asking, claim>>

\* BindMediaRecaptureBrowserAdmission: stamp and phase change together.
Bound(j) == [row EXCEPT ![j].phase = "admitted", ![j].stamp = OwnerStamp]

\* Without authorisation a recent report that denies it fails a waiting job;
\* an old or missing report leaves it waiting.
PumpAdmit ==
  /\ pump # Nothing /\ pump.at = "admit"
  /\ LET j == pump.job
         waits == Active(pump.seen) /\ pump.seen.phase = "waiting"
         binds == access /\ Ready("browser")
                  /\ row[j].status = "queued" /\ row[j].phase = "waiting"
     IN /\ holds' = IF Active(pump.seen) THEN holds \cup {j} ELSE holds
        /\ IF ~waits
             THEN pump' = [pump EXCEPT !.at = "dispatch"] /\ UNCHANGED <<row, lease>>
           ELSE IF binds
             THEN /\ row' = Bound(j)
                  /\ lease' = [lease EXCEPT ![j] = EnsuredLease(j)]
                  /\ pump' = [job |-> j, seen |-> Bound(j)[j], at |-> "dispatch"]
             ELSE /\ row' \in (IF access THEN {row} ELSE {row, Failed(j)})
                  /\ pump' = Nothing /\ UNCHANGED lease
  /\ UNCHANGED <<evidence, paused, mode, epoch, owner, access, cleaning, marks, calls,
                 asking, claim>>

\* Fault: the dispatch does not look at the stamp.
DispatchAnyOwner ==
  /\ pump # Nothing /\ pump.at = "dispatch" /\ pump' = Nothing
  /\ LET j == pump.job
         l == EnsuredLease(j)
     IN IF /\ Ready("browser") /\ l = OwnerLease /\ j \notin running \cup confirmed
           /\ Active(pump.seen) \/ j \in started
          THEN /\ lease' = [lease EXCEPT ![j] = l]
               /\ running' = running \cup {j} /\ started' = started \cup {j}
               /\ calls' = calls \cup {[kind |-> "dispatch", job |-> j, gen |-> l.gen,
                                        at |-> "called"]}
          ELSE UNCHANGED <<lease, running, started, calls>>
  /\ UNCHANGED <<durable, epoch, owner, access, holds, cleaning, confirmed, asking, claim>>

PumpDispatch ==
  /\ pump # Nothing /\ pump.at = "dispatch" /\ pump' = Nothing
  /\ LET j == pump.job
         seen == pump.seen
         denied == seen.status = "queued" /\ ~access
         stale == \/ seen.stamp.epoch # epoch
                  \/ Ready("browser") /\ seen.stamp # OwnerStamp
         l == EnsuredLease(j)
         dispatches == /\ j \notin running \cup confirmed
                       /\ Active(seen) \/ j \in started
     IN IF denied \/ stale
          THEN /\ row' = IF denied \/ Active(seen) THEN Failed(j) ELSE row
               /\ UNCHANGED <<lease, running, started, calls>>
        ELSE IF ~Ready("browser")
          THEN UNCHANGED <<row, lease, running, started, calls>>
        ELSE /\ lease' = [lease EXCEPT ![j] = l]
             /\ IF l = OwnerLease /\ dispatches
                  THEN /\ running' = running \cup {j} /\ started' = started \cup {j}
                       /\ calls' = calls \cup {[kind |-> "dispatch", job |-> j,
                                                gen |-> l.gen, at |-> "called"]}
                  ELSE UNCHANGED <<running, started, calls>>
             /\ UNCHANGED row
  /\ UNCHANGED <<evidence, paused, mode, epoch, owner, access, holds, cleaning, confirmed,
                 asking, claim>>

\* The dispatch callback returns: the Bridge's receipt of the completed job, a
\* deadline after 45 seconds, or a refusal, which fails a job still active.
DispatchReturns(c, result) ==
  /\ c \in calls /\ c.kind = "dispatch"
  /\ result = "completed" => row[c.job].status = "completed"
  /\ row' = IF result = "rejected" THEN Failed(c.job) ELSE row
  /\ LET terminal == result # "deadline" \/ Terminal(row[c.job])
         owned == c.job \in holds \/ lease[c.job] # NoLease
     IN confirmed' = IF terminal /\ owned THEN confirmed \cup {c.job} ELSE confirmed
  /\ running' = running \ {c.job}
  /\ calls' = calls \ {c}
  /\ UNCHANGED <<evidence, paused, mode, epoch, owner, access, lease, holds, cleaning,
                 started, asking, claim, pump>>

-----------------------------------------------------------------------------
(***************************************************************************)
(* releaseTerminalCaptureSessions, the recapture half, for one job.        *)
(***************************************************************************)
Release(j) ==
  /\ lease' = [lease EXCEPT ![j] = NoLease]
  /\ holds' = holds \ {j}
  /\ running' = running \ {j} /\ started' = started \ {j} /\ confirmed' = confirmed \ {j}

\* Fault: a job never admitted keeps its hold.
releaseAdmittedOnly(j) ==
  /\ j \in Rows /\ Terminal(row[j]) /\ row[j].phase # "waiting"
  /\ lease[j] # NoLease \/ j \in holds
  /\ Release(j) /\ cleaning' = cleaning \ {j}
  /\ UNCHANGED <<durable, epoch, owner, access, threads>>

\* SetMediaRecaptureCaptureCleanupState: an acknowledged cleanup is never undone.
SetCleanup(j, state) ==
  row' = [row EXCEPT ![j].cleanup = IF @ = "released" THEN @ ELSE state]

ReleaseNow(j) ==
  /\ row[j].phase # "admitted" \/ row[j].cleanup = "released"
  /\ Release(j) /\ cleaning' = cleaning \ {j}
  /\ UNCHANGED <<row, calls>>

BeginCleanup(j) ==
  /\ row[j].phase = "admitted" /\ row[j].cleanup # "released"
  /\ j \notin running /\ (j \in started => j \in confirmed)
  /\ SetCleanup(j, "pending")
  /\ LET l == IF lease[j] = NoLease /\ Ready("browser") THEN OwnerLease ELSE lease[j]
     IN /\ lease' = [lease EXCEPT ![j] = l]
        /\ IF l.driver = "browser" /\ j \notin cleaning
             THEN /\ cleaning' = cleaning \cup {j}
                  /\ calls' = calls \cup {[kind |-> "cleanup", job |-> j, gen |-> l.gen,
                                           at |-> "called"]}
             ELSE UNCHANGED <<cleaning, calls>>
  /\ UNCHANGED <<holds, marks>>

releaseTerminal(j) ==
  /\ j \in Rows /\ Terminal(row[j])
  /\ lease[j] # NoLease \/ j \in holds
  /\ ReleaseNow(j) \/ BeginCleanup(j)
  /\ UNCHANGED <<evidence, paused, mode, epoch, owner, access, asking, claim, pump>>

\* The Bridge acknowledges the cleanup to the owner that was asked, and the
\* acknowledgement is saved before anything is given up.
CleanupSaved(c) ==
  /\ c \in calls /\ c.kind = "cleanup" /\ c.at = "called"
  /\ Ready("browser") /\ c.gen = owner.gen
  /\ SetCleanup(c.job, "released")
  /\ calls' = (calls \ {c}) \cup {[c EXCEPT !.at = "saved"]}
  /\ UNCHANGED <<evidence, paused, mode, epoch, owner, access, held, asking, claim, pump>>

CleanupFails(c) ==
  /\ c \in calls /\ c.kind = "cleanup" /\ c.at = "called"
  /\ cleaning' = cleaning \ {c.job} /\ calls' = calls \ {c}
  /\ UNCHANGED <<durable, epoch, owner, access, lease, holds, marks, asking, claim, pump>>

CleanupReturns(c) ==
  /\ c \in calls /\ c.at = "saved"
  /\ calls' = calls \ {c} /\ cleaning' = cleaning \ {c.job}
  /\ IF c.job \in holds \/ lease[c.job] # NoLease
       THEN Release(c.job) ELSE UNCHANGED <<lease, holds, marks>>
  /\ UNCHANGED <<durable, epoch, owner, access, asking, claim, pump>>

-----------------------------------------------------------------------------
(***************************************************************************)
(* The coordinator and the owner.  Leases, and the transport's own lease   *)
(* of a call in flight, keep the owner from being replaced or recovered.   *)
(***************************************************************************)
Desired == IF holds # {} THEN "browser" ELSE mode

Pinned ==
  \/ \E j \in Jobs : lease[j] # NoLease
  \/ asking # Nothing /\ asking.lease # NoLease
  \/ \E c \in calls : c.gen = owner.gen

Reconcile ==
  /\ owner.state \in {"ready", "failed"} /\ ~Pinned /\ owner.gen < MaxGeneration
  /\ owner.state = "failed" \/ owner.driver # Desired
  /\ owner' = [owner EXCEPT !.state = "replacing", !.driver = Desired]
  /\ UNCHANGED <<durable, epoch, access, held, threads>>

Launched ==
  /\ owner.state = "replacing"
  /\ owner' = [owner EXCEPT !.state = "ready", !.gen = @ + 1]
  /\ UNCHANGED <<durable, epoch, access, held, threads>>

OwnerFails ==
  /\ OwnerExits /\ owner.state = "ready"
  /\ owner' = [owner EXCEPT !.state = "failed"]
  /\ UNCHANGED <<durable, epoch, access, held, threads>>

\* A heartbeat reports other source access, or the last one grows too old.
BridgeHeartbeat ==
  /\ access' = ~access
  /\ UNCHANGED <<durable, epoch, owner, held, threads>>

SetCollectionMode(m) ==
  /\ mode # m /\ mode' = m
  /\ UNCHANGED <<row, evidence, paused, epoch, owner, access, held, threads>>

\* AttachCollectionCoordinator restores the holds.
RestoredHolds ==
  {j \in BrowserAdmissionMediaRecaptureIDs :
     Active(row[j]) \/ (row[j].phase = "admitted" /\ row[j].cleanup # "released")}

\* AttachCaptureRuntime adopts the ordinary active jobs; an admitted one carries
\* the stamp of an earlier epoch.
AdoptedLeases(d) ==
  [j \in Jobs |-> IF j \in Rows /\ Active(row[j]) /\ ~Hybrid(row[j])
                    THEN [gen |-> 1, driver |-> d] ELSE NoLease]

\* The process ends and starts again.
Restart ==
  /\ epoch < MaxEpoch /\ epoch' = epoch + 1
  /\ owner' \in [state : {"ready"}, driver : Drivers, gen : {1}]
  /\ access' = FALSE
  /\ lease' = AdoptedLeases(owner'.driver)
  /\ holds' = RestoredHolds
  /\ cleaning' = {} /\ running' = {} /\ started' = {} /\ confirmed' = {}
  /\ calls' = {} /\ asking' = Nothing /\ claim' = Nothing /\ pump' = Nothing
  /\ UNCHANGED durable

MRNext ==
  \/ \E i \in Items, m \in Modes, r \in Reasons : QueueBegin(i, m, r)
  \/ QueueRefused \/ QueueInsert
  \/ \E j \in Jobs, c \in Collectors : ClaimCheck(j, c)
  \/ ClaimMediaRecapture
  \/ \E j \in Jobs, o \in {"recovered", "unavailable"} : AcceptMediaRecapture(j, o)
  \/ \E j \in Jobs, x \in BOOLEAN : FailMediaRecapture(j, x)
  \/ \E i \in Items : ApplyPassiveXMediaEvidence(i)
  \/ ConfirmXCaptureRecovery
  \/ \E j \in Jobs : PumpRead(j)
  \/ PumpAdmit \/ PumpDispatch
  \/ \E c \in calls, res \in {"completed", "deadline", "rejected"} : DispatchReturns(c, res)
  \/ \E j \in Jobs : releaseTerminal(j)
  \/ \E c \in calls : CleanupSaved(c) \/ CleanupFails(c) \/ CleanupReturns(c)
  \/ Reconcile \/ Launched \/ OwnerFails
  \/ BridgeHeartbeat
  \/ \E m \in Drivers : SetCollectionMode(m)
  \/ Restart

MRSpec == MRInit /\ [][MRNext]_mrVars

-----------------------------------------------------------------------------
(***************************************************************************)
(* Fairness: the 500 ms pump, the release pass, the coordinator's loop and *)
(* the deadlines of the callbacks are the program's own; that the Bridge   *)
(* acknowledges a cleanup it is asked for again and again is assumed.      *)
(***************************************************************************)
MRFairSpec ==
  /\ MRSpec
  /\ WF_mrVars(PumpAdmit \/ PumpDispatch)
  /\ WF_mrVars(Reconcile \/ Launched)
  /\ WF_mrVars(QueueRefused \/ QueueInsert)
  /\ \A j \in Jobs \ {1} :    \* the earlier attempt holds nothing
       /\ SF_mrVars(PumpRead(j)) /\ WF_mrVars(releaseTerminal(j))
       /\ WF_mrVars(\E c \in calls : c.job = j /\
                      \/ CleanupReturns(c)
                      \/ \E res \in {"completed", "deadline", "rejected"} :
                           DispatchReturns(c, res))
       /\ SF_mrVars(\E c \in calls : c.job = j /\ CleanupSaved(c))

-----------------------------------------------------------------------------
(***************************************************************************)
(* Properties.                                                             *)
(***************************************************************************)
\* The Browser of an admitted hybrid job is held, across restarts and owner
\* failures, until the Bridge's cleanup of its surfaces has been saved.
SurfaceHeld ==
  \A j \in Rows : row[j].phase = "admitted" /\ row[j].cleanup # "released" => j \in holds

\* Work claimed in this life of the process pins the owner it was stamped
\* with: the profile is not handed on under it.
ClaimPinsOwner ==
  \A j \in Rows :
    row[j].status = "claimed" /\ row[j].stamp.epoch = epoch
      => /\ owner.gen = row[j].stamp.gen /\ owner.state # "replacing"
         /\ lease[j] = [gen |-> row[j].stamp.gen, driver |-> row[j].stamp.driver]

\* A dispatch reaches only the owner the job was admitted to; a job admitted
\* before a restart is never dispatched.
DispatchToOwner ==
  \A c \in calls : c.kind = "dispatch" =>
    row[c.job].stamp = [epoch |-> epoch, gen |-> c.gen, driver |-> "browser"]

\* A foreground attempt follows an unavailable background attempt of the same
\* item and reason, whatever completed between the check and the insert.
ForegroundAfterBackground ==
  \A j \in Rows : row[j].mode = "foreground" =>
    \E k \in Rows : /\ k < j /\ row[k].item = row[j].item /\ row[k].reason = row[j].reason
                    /\ row[k].mode = "background" /\ row[k].outcome = "unavailable"

\* What ended stays as it ended: no late claim, observation or failure moves a
\* terminal job, and an acknowledged cleanup is final.
EndedStays ==
  [][\A j \in Rows :
       /\ Terminal(row[j]) => /\ row'[j].status = row[j].status
                              /\ row'[j].outcome = row[j].outcome
       /\ row[j].cleanup = "released" => row'[j].cleanup = "released"]_mrVars

\* A terminal job gives back its lease and its hold, unless the owner fails
\* while they pin it: a failed owner is recovered only when nothing pins it.
HoldReturned ==
  \A j \in Jobs : (j \in Rows /\ Terminal(row[j])) ~>
    ((lease[j] = NoLease /\ j \notin holds) \/ owner.state = "failed"
       \/ (owner.gen = MaxGeneration /\ owner.driver = "headless"))

\* Surfaces keep their Browser, claims pin the owner that works on them, dispatches
\* go to the owner that was chosen, and a foreground attempt follows an exhausted
\* background one.
RecaptureSound ==
  MRTypeOK /\ SurfaceHeld /\ ClaimPinsOwner /\ DispatchToOwner /\ ForegroundAfterBackground
=============================================================================
