------------------------- MODULE MediaRecaptureProofs -------------------------
(***************************************************************************)
(* Media recapture, for any number of rows, items, owners and lives of the *)
(* process: its state is sound, and what ended stays ended.                *)
(*                                                                         *)
(* The argument.  Whatever a step does to the rows, a row that is there    *)
(* stays, keeps its item, its stamp once it has one, its outcome once it   *)
(* has ended and its acknowledged cleanup (Later).  A lease is always one  *)
(* on the owner that is there, because nobody replaces an owner under a    *)
(* lease (LeasesCurrent); so a claim whose lease and stamp agreed at the   *)
(* check agrees at its transaction, unless the job has ended meanwhile and *)
(* the transaction refuses it (ClaimChecked).  The pump decides about the  *)
(* dispatch on a row as it read it, and what it decides on does not change *)
(* any more (PumpInv).                                                     *)
(***************************************************************************)
EXTENDS MediaRecapture, FiniteSetTheorems, TLAPS

-----------------------------------------------------------------------------
(* The inductive invariant.                                                 *)

\* The rows the store has written, and the leases and requests in memory.
FullRow ==
  [status : {"queued", "claimed", "completed", "failed"}, item : Items,
   mode : Modes, reason : Reasons \cup {"missing_media"},
   phase : {"none", "waiting", "admitted"},
   stamp : {NoStamp} \cup [epoch : 1..MaxEpoch, gen : 1..MaxGeneration, driver : Drivers],
   route : Collectors, outcome : {"none", "recovered", "unavailable"},
   cleanup : {"none", "pending", "released"}, done : 0..MaxJobs]
LeaseType == {NoLease} \cup [gen : 1..MaxGeneration, driver : Drivers]
AskType == [job : Items, mode : Modes, reason : Reasons, hybrid : BOOLEAN, lease : LeaseType]
PumpType == [job : Jobs, seen : FullRow, at : {"admit", "dispatch"}]

\* A row as the transactions leave it in life e of the process: stamped once it is
\* admitted and by no later life, with an outcome only when it is completed, with a
\* cleanup only when it has ended.
RowGood(r, e) ==
  /\ r \in FullRow
  /\ r.phase = "waiting" => r.stamp = NoStamp
  /\ r.phase = "admitted" => r.stamp # NoStamp
  /\ r.status = "claimed" => r.phase # "waiting"
  /\ r.outcome # "none" => r.status = "completed"
  /\ r.status # "completed" => r.done = 0
  /\ r.cleanup # "none" => Terminal(r)
  /\ r.stamp.epoch <= e
RowsInv == \A j \in Rows : RowGood(row[j], epoch)

\* Rows are inserted one behind the other.
RowsPrefix == \E n \in 0..MaxJobs : Rows = 1..n

\* A launch under way is of a generation that is still allowed.
LaunchBounded == owner.state = "replacing" => owner.gen < MaxGeneration

\* Every lease is of the present owner, which nobody replaces meanwhile.
LeasesCurrent ==
  \A j \in Jobs : lease[j] # NoLease => lease[j] = OwnerLease /\ owner.state # "replacing"

\* The stamp of a job is the present life's and its lease's.
Stamped(j) ==
  /\ lease[j] # NoLease
  /\ row[j].stamp = [epoch |-> epoch, gen |-> lease[j].gen, driver |-> lease[j].driver]
ClaimedStamped ==
  \A j \in Rows : row[j].status = "claimed" /\ row[j].stamp.epoch = epoch => Stamped(j)

\* A claim that was checked is of a job with its stamp, unless the job ended since.
ClaimChecked ==
  claim # Nothing => claim.job \in Rows /\ (Active(row[claim.job]) => Stamped(claim.job))

\* An unavailable background attempt at the item, for the reason, that came before j.
Exhausted(i, r, j) ==
  \E k \in Rows : /\ k < j /\ row[k].item = i /\ row[k].reason = r
                  /\ row[k].mode = "background" /\ row[k].outcome = "unavailable"

\* The request that holds Engine.operation has its lease, unless its job is to wait
\* for the coordinator, and found the attempt that a foreground one follows.
AskingInv ==
  asking # Nothing =>
    /\ asking \in AskType
    /\ asking.hybrid <=> asking.lease = NoLease
    /\ asking.lease # NoLease => asking.lease = OwnerLease /\ owner.state # "replacing"
    /\ asking.mode = "foreground" => Exhausted(asking.job, asking.reason, MaxJobs + 1)

\* What the pump read of the job it is at still holds of an admitted one.
PumpInv ==
  pump # Nothing =>
    /\ pump \in PumpType /\ pump.job \in Rows
    /\ Active(pump.seen) \/ pump.seen.phase = "admitted"
    /\ pump.at = "dispatch" => pump.seen.phase # "waiting"
    /\ pump.seen.phase # "waiting" =>
         row[pump.job].phase = pump.seen.phase /\ row[pump.job].stamp = pump.seen.stamp

\* A cleanup is of a job that ended, and saved once the row says so.
CallsInv ==
  \A c \in calls :
    /\ c.job \in Rows
    /\ c.kind = "cleanup" => Terminal(row[c.job])
    /\ c.at = "saved" => c.kind = "cleanup" /\ row[c.job].cleanup = "released"

MRInv ==
  /\ MRTypeOK /\ RowsInv /\ RowsPrefix /\ LaunchBounded /\ LeasesCurrent /\ ClaimedStamped
  /\ ClaimChecked /\ AskingInv /\ PumpInv /\ CallsInv
  /\ SurfaceHeld /\ DispatchToOwner /\ ForegroundAfterBackground

-----------------------------------------------------------------------------
(* What a step does.                                                        *)

\* What every step leaves of a row r that becomes n.
Later(r, n) ==
  /\ n.status # "none"
  /\ n.item = r.item /\ n.mode = r.mode /\ n.reason = r.reason
  /\ Active(n) => Active(r)
  /\ Terminal(r) => n.status = r.status /\ n.outcome = r.outcome
  /\ r.cleanup = "released" => n.cleanup = "released"
  /\ r.phase # "waiting" => n.phase = r.phase /\ n.stamp = r.stamp

\* A step on the rows: those that are there stay, and all are as they should be.
RowsStep ==
  /\ row' \in [Jobs -> RowType] /\ RowsInv' /\ RowsPrefix'
  /\ \A j \in Rows : j \in Rows' /\ Later(row[j], row'[j])

\* No job is claimed, and none admitted.
NoClaim == \A j \in Rows' : row'[j].status = "claimed" => j \in Rows /\ row[j].status = "claimed"
NoAdmission ==
  \A j \in Rows' : row'[j].phase = "admitted" => j \in Rows /\ row[j].phase = "admitted"

\* The owner stays, or nothing pins it.
OwnerKept ==
  /\ owner'.gen = owner.gen /\ owner'.driver = owner.driver
  /\ owner.state # "replacing" => owner'.state # "replacing"
Unpinned ==
  /\ \A j \in Jobs : lease[j] = NoLease
  /\ asking # Nothing => asking.lease = NoLease

\* Leases are taken on a present owner, and given back by jobs that ended.
LeasesMove ==
  /\ \A j \in Jobs : \/ lease'[j] \in {lease[j], NoLease}
                     \/ lease'[j] = OwnerLease /\ owner.state # "replacing" /\ OwnerKept
  /\ \A j \in Rows : lease[j] # NoLease /\ ~Terminal(row[j]) => lease'[j] = lease[j]

\* The types of everything but the rows.
RestTypeOK ==
  /\ evidence \in [Items -> {"absent", "playable"}]
  /\ paused \in BOOLEAN /\ mode \in Drivers /\ epoch \in 1..MaxEpoch
  /\ owner \in [state : {"ready", "replacing", "failed"}, driver : Drivers, gen : 1..MaxGeneration]
  /\ access \in BOOLEAN
  /\ lease \in [Jobs -> LeaseType]
  /\ holds \subseteq Jobs /\ cleaning \subseteq Jobs
  /\ running \subseteq Jobs /\ started \subseteq Jobs /\ confirmed \subseteq Jobs
  /\ calls \subseteq [kind : {"dispatch", "cleanup"}, job : Jobs, gen : 1..MaxGeneration,
                      at : {"called", "saved"}]

LEMMA RestTypes ==
  ASSUME MRTypeOK
  PROVE  RestTypeOK /\ row \in [Jobs -> RowType]
BY DEF MRTypeOK, RestTypeOK, LeaseType

\* The fields of a row that the proofs look at.
LEMMA RowFields ==
  ASSUME NEW e, NEW r, RowGood(r, e)
  PROVE  /\ r.status \in {"queued", "claimed", "completed", "failed"}
         /\ r.item \in Items /\ r.mode \in Modes /\ r.phase \in {"none", "waiting", "admitted"}
         /\ r.done \in 0..MaxJobs
         /\ r.stamp = NoStamp \/ r.stamp \in [epoch : 1..MaxEpoch, gen : 1..MaxGeneration, driver : Drivers]
         /\ r.stamp.epoch \in Int
BY RecaptureAssumption DEF RowGood, FullRow, NoStamp

LEMMA Stamps ==
  ASSUME NEW e \in 1..MaxEpoch, NEW g, NEW d
  PROVE  [epoch |-> e, gen |-> g, driver |-> d] # NoStamp
BY RecaptureAssumption DEF NoStamp

\* A good row is a row of the table.
LEMMA GoodRowType ==
  ASSUME NEW e, NEW r, RowGood(r, e)
  PROVE  r \in RowType
BY DEF RowGood, FullRow, RowType

LEMMA TypeFromParts ==
  ASSUME RowsStep, RestTypeOK'
  PROVE  MRTypeOK'
<1>1. \A j \in Rows' : Hybrid(row'[j]) => ((row'[j].phase = "waiting") <=> (row'[j].stamp = NoStamp))
  BY DEF RowsStep, RowsInv, RowGood, Hybrid, FullRow
<1> QED
  BY <1>1 DEF RowsStep, RestTypeOK, MRTypeOK, LeaseType

\* A row that stays as it is, is later.
LEMMA SameRow ==
  ASSUME NEW r, r.status # "none"
  PROVE  Later(r, r)
BY DEF Later

LEMMA SameRows ==
  ASSUME MRInv, row' = row, epoch' = epoch
  PROVE  RowsStep /\ NoClaim /\ NoAdmission /\ Rows' = Rows
<1>1. Rows' = Rows
  BY DEF Rows
<1>2. RowsInv' /\ RowsPrefix'
  BY <1>1 DEF MRInv, RowsInv, RowsPrefix
<1> QED
  BY <1>1, <1>2, RestTypes, SameRow DEF MRInv, RowsStep, NoClaim, NoAdmission, Rows

\* One row that is there changes.
LEMMA OneRow ==
  ASSUME MRInv, NEW j \in Rows, NEW r, RowGood(r, epoch), Later(row[j], r),
         row' = [row EXCEPT ![j] = r], epoch' = epoch
  PROVE  /\ RowsStep /\ Rows' = Rows /\ row'[j] = r
         /\ \A k \in Jobs : k # j => row'[k] = row[k]
<1>1. j \in Jobs /\ row \in [Jobs -> RowType]
  BY RestTypes DEF MRInv, Rows
<1>2. row'[j] = r /\ \A k \in Jobs : k # j => row'[k] = row[k]
  BY <1>1
<1>3. row' \in [Jobs -> RowType]
  BY <1>1, GoodRowType
<1>4. r.status # "none"
  BY RowFields
<1>5. Rows' = Rows
  BY <1>1, <1>2, <1>4 DEF Rows
<1>6. RowsInv' /\ RowsPrefix'
  BY <1>2, <1>5 DEF MRInv, RowsInv, RowsPrefix, Rows
<1> QED
  BY <1>2, <1>3, <1>5, <1>6, SameRow DEF RowsStep, Rows

\* What a call in flight relies on survives every step on the rows.
LEMMA CallsKept ==
  ASSUME MRInv, RowsStep, epoch' = epoch, NEW c \in calls
  PROVE  /\ c.job \in Rows'
         /\ c.kind = "cleanup" => Terminal(row'[c.job])
         /\ c.at = "saved" => c.kind = "cleanup" /\ row'[c.job].cleanup = "released"
         /\ c.kind = "dispatch" =>
              row'[c.job].stamp = [epoch |-> epoch, gen |-> c.gen, driver |-> "browser"]
<1>1. /\ c.job \in Rows
      /\ c.kind = "cleanup" => Terminal(row[c.job])
      /\ c.at = "saved" => c.kind = "cleanup" /\ row[c.job].cleanup = "released"
      /\ c.kind = "dispatch" => row[c.job].stamp = [epoch |-> epoch, gen |-> c.gen, driver |-> "browser"]
  BY DEF MRInv, CallsInv, DispatchToOwner
<1>2. c.kind = "dispatch" => row[c.job].phase # "waiting"
  BY <1>1, Stamps, RestTypes DEF MRInv, RowsInv, RowGood, RestTypeOK
<1>3. c.job \in Rows' /\ Later(row[c.job], row'[c.job])
  BY <1>1 DEF RowsStep
<1> QED BY <1>1, <1>2, <1>3 DEF Later, Terminal

\* What holds whatever moved: the parts of the invariant that a step does not touch
\* are carried over, the others it must show.
LEMMA Step ==
  ASSUME MRInv, RowsStep, RestTypeOK', epoch' = epoch, LaunchBounded',
         OwnerKept \/ Unpinned, LeasesMove,
         NoClaim \/ ClaimedStamped',
         \/ SurfaceHeld'
         \/ NoAdmission /\ \A j \in Rows' :
              row'[j].cleanup # "released" => (j \in holds => j \in holds'),
         Rows' = Rows \/ ForegroundAfterBackground',
         claim' \in {claim, Nothing} \/ ClaimChecked',
         asking' \in {asking, Nothing} \/ AskingInv',
         pump' \in {pump, Nothing} \/ PumpInv',
         calls' \subseteq calls \/ (CallsInv' /\ DispatchToOwner')
  PROVE  MRInv'
<1>1. MRTypeOK'
  BY TypeFromParts
<1>2. OwnerKept => OwnerLease' = OwnerLease
  BY DEF OwnerKept, OwnerLease
<1>3. LeasesCurrent'
  <2>1. CASE OwnerKept
    BY <1>2, <2>1 DEF LeasesCurrent, LeasesMove, MRInv, OwnerKept
  <2>2. CASE Unpinned /\ ~OwnerKept
    BY <2>2 DEF LeasesCurrent, LeasesMove, Unpinned
  <2> QED BY <2>1, <2>2
<1>4. ASSUME NEW j \in Rows, Stamped(j), Active(row[j])
      PROVE  Stamped(j)'
  <2>1. j \in Jobs /\ epoch \in 1..MaxEpoch
    BY RestTypes DEF Rows, MRInv, RestTypeOK
  <2>2. row[j].stamp # NoStamp
    BY <1>4, <2>1, Stamps DEF Stamped
  <2>3. row[j].phase # "waiting"
    BY <2>2 DEF MRInv, RowsInv, RowGood
  <2>4. row'[j].stamp = row[j].stamp
    BY <2>3 DEF RowsStep, Later
  <2>5. lease'[j] = lease[j]
    BY <1>4 DEF LeasesMove, Stamped, Active, Terminal
  <2> QED BY <1>4, <2>4, <2>5 DEF Stamped
<1>5. ClaimedStamped'
  <2>1. CASE NoClaim
    <3>1. SUFFICES ASSUME NEW j \in Rows', row'[j].status = "claimed", row'[j].stamp.epoch = epoch
                   PROVE  Stamped(j)'
      BY DEF ClaimedStamped
    <3>2. j \in Rows /\ row[j].status = "claimed"
      BY <2>1, <3>1 DEF NoClaim
    <3>3. row[j].phase # "waiting" => row'[j].stamp = row[j].stamp
      BY <3>2 DEF RowsStep, Later
    <3>4. row[j].phase # "waiting"
      BY <3>1, <3>2 DEF MRInv, RowsInv, RowGood
    <3> QED BY <1>4, <3>1, <3>2, <3>3, <3>4 DEF MRInv, ClaimedStamped, Active
  <2> QED BY <2>1
<1>6. ClaimChecked'
  <2>1. SUFFICES ASSUME claim' = claim, claim # Nothing
                 PROVE  claim.job \in Rows' /\ (Active(row'[claim.job]) => Stamped(claim.job)')
    BY DEF ClaimChecked
  <2>2. claim.job \in Rows /\ (Active(row[claim.job]) => Stamped(claim.job))
    BY <2>1 DEF MRInv, ClaimChecked
  <2>3. claim.job \in Rows' /\ (Active(row'[claim.job]) => Active(row[claim.job]))
    BY <2>2 DEF RowsStep, Later
  <2> QED BY <1>4, <2>1, <2>2, <2>3 DEF Stamped
<1>7. ASSUME NEW i, NEW r, NEW j, Exhausted(i, r, j)
      PROVE  \E k \in Rows' : /\ k < j /\ row'[k].item = i /\ row'[k].reason = r
                             /\ row'[k].mode = "background" /\ row'[k].outcome = "unavailable"
  <2>1. PICK k \in Rows : /\ k < j /\ row[k].item = i /\ row[k].reason = r
                          /\ row[k].mode = "background" /\ row[k].outcome = "unavailable"
    BY <1>7 DEF Exhausted
  <2>2. Terminal(row[k])
    BY <2>1 DEF MRInv, RowsInv, RowGood, Terminal
  <2> QED BY <2>1, <2>2 DEF RowsStep, Later, Exhausted
<1>8. AskingInv'
  <2>1. SUFFICES ASSUME asking' = asking, asking # Nothing
                 PROVE  AskingInv'
    BY DEF AskingInv
  <2>2. AskingInv
    BY DEF MRInv
  <2>3. asking.lease # NoLease => asking.lease = OwnerLease' /\ owner'.state # "replacing"
    BY <1>2, <2>1, <2>2 DEF AskingInv, OwnerKept, Unpinned
  <2>4. asking.mode = "foreground" =>
          \E k \in Rows' : /\ k < MaxJobs + 1 /\ row'[k].item = asking.job
                          /\ row'[k].reason = asking.reason
                          /\ row'[k].mode = "background" /\ row'[k].outcome = "unavailable"
    BY <1>7, <2>1, <2>2 DEF AskingInv
  <2> QED BY <2>1, <2>2, <2>3, <2>4 DEF AskingInv, Exhausted
<1>9. PumpInv'
  <2>1. SUFFICES ASSUME pump' = pump, pump # Nothing
                 PROVE  PumpInv'
    BY DEF PumpInv
  <2>2. PumpInv
    BY DEF MRInv
  <2>3. pump.job \in Rows' /\ Later(row[pump.job], row'[pump.job])
    BY <2>1, <2>2 DEF PumpInv, RowsStep
  <2>4. pump.seen.phase # "waiting" =>
          row'[pump.job].phase = pump.seen.phase /\ row'[pump.job].stamp = pump.seen.stamp
    BY <2>1, <2>2, <2>3 DEF PumpInv, Later
  <2> QED BY <2>1, <2>2, <2>3, <2>4 DEF PumpInv
<1>10. CallsInv' /\ DispatchToOwner'
  <2>1. CASE calls' \subseteq calls
    BY <2>1, CallsKept DEF CallsInv, DispatchToOwner
  <2> QED BY <2>1
<1>11. SurfaceHeld'
  <2>1. CASE NoAdmission /\ \A j \in Rows' : row'[j].cleanup # "released" => (j \in holds => j \in holds')
    <3>1. SUFFICES ASSUME NEW j \in Rows', row'[j].phase = "admitted", row'[j].cleanup # "released"
                   PROVE  j \in holds'
      BY DEF SurfaceHeld
    <3>2. j \in Rows /\ row[j].phase = "admitted"
      BY <2>1, <3>1 DEF NoAdmission
    <3>3. row[j].cleanup # "released"
      BY <3>1, <3>2 DEF RowsStep, Later
    <3> QED BY <2>1, <3>1, <3>2, <3>3 DEF MRInv, SurfaceHeld
  <2> QED BY <2>1
<1>12. ForegroundAfterBackground'
  <2>1. CASE Rows' = Rows
    <3>1. SUFFICES ASSUME NEW j \in Rows, row'[j].mode = "foreground"
                   PROVE  \E k \in Rows' : /\ k < j /\ row'[k].item = row'[j].item
                                           /\ row'[k].reason = row'[j].reason
                                           /\ row'[k].mode = "background"
                                           /\ row'[k].outcome = "unavailable"
      BY <2>1 DEF ForegroundAfterBackground
    <3>2. /\ row'[j].mode = row[j].mode /\ row'[j].item = row[j].item
          /\ row'[j].reason = row[j].reason
      BY DEF RowsStep, Later
    <3>3. Exhausted(row[j].item, row[j].reason, j)
      BY <3>1, <3>2 DEF MRInv, ForegroundAfterBackground, Exhausted
    <3> QED BY <1>7, <3>2, <3>3
  <2> QED BY <2>1
<1> QED
  BY <1>1, <1>3, <1>5, <1>6, <1>8, <1>9, <1>10, <1>11, <1>12 DEF MRInv, RowsStep

-----------------------------------------------------------------------------
(* What the transactions do to the rows.                                    *)

\* A row that fails.
LEMMA FailedIsGood ==
  ASSUME NEW e, NEW r, RowGood(r, e), Active(r)
  PROVE  LET n == [r EXCEPT !.status = "failed"]
         IN  RowGood(n, e) /\ Later(r, n) /\ n.phase = r.phase
BY DEF RowGood, FullRow, Later, Active, Terminal

\* Some active rows fail, the others stay.
FailsSome ==
  \A k \in Jobs : \/ row'[k] = row[k]
                  \/ k \in Rows /\ Active(row[k]) /\ row'[k] = [row[k] EXCEPT !.status = "failed"]

LEMMA FailsSomeRows ==
  ASSUME MRInv, FailsSome, epoch' = epoch,
         row' \in [Jobs -> UNION {{row[k], [row[k] EXCEPT !.status = "failed"]} : k \in Jobs}]
  PROVE  RowsStep /\ NoClaim /\ NoAdmission /\ Rows' = Rows
<1>1. row \in [Jobs -> RowType] /\ \A k \in Rows : RowGood(row[k], epoch)
  BY RestTypes DEF MRInv, RowsInv
<1>2. ASSUME NEW k \in Jobs
      PROVE  /\ k \in Rows' <=> k \in Rows
             /\ k \in Rows => RowGood(row'[k], epoch) /\ Later(row[k], row'[k])
             /\ k \in Rows => row'[k].phase = row[k].phase
             /\ row'[k].status = "claimed" => row'[k] = row[k]
             /\ row'[k] \in RowType
  <2>1. CASE row'[k] = row[k]
    BY <1>1, <2>1, SameRow DEF Rows
  <2>2. CASE k \in Rows /\ Active(row[k]) /\ row'[k] = [row[k] EXCEPT !.status = "failed"]
    <3>1. RowGood(row'[k], epoch) /\ Later(row[k], row'[k]) /\ row'[k].phase = row[k].phase
      BY <1>1, <2>2, FailedIsGood
    <3>2. row'[k].status = "failed"
      BY <1>1, <2>2 DEF RowGood, FullRow
    <3> QED BY <2>2, <3>1, <3>2, GoodRowType DEF Rows
  <2> QED BY <2>1, <2>2 DEF FailsSome
<1>3. Rows' = Rows
  BY <1>2 DEF Rows
<1>4. row' \in [Jobs -> RowType]
  BY <1>2
<1>5. RowsInv' /\ RowsPrefix'
  BY <1>2, <1>3 DEF MRInv, RowsInv, RowsPrefix, Rows
<1> QED
  BY <1>2, <1>3, <1>4, <1>5 DEF RowsStep, NoClaim, NoAdmission, Rows

\* Failed(j) is such a step.
LEMMA FailedRows ==
  ASSUME MRInv, NEW j \in Rows, row' = Failed(j), epoch' = epoch
  PROVE  RowsStep /\ NoClaim /\ NoAdmission /\ Rows' = Rows
<1>1. j \in Jobs /\ row \in [Jobs -> RowType]
  BY RestTypes DEF MRInv, Rows
<1>2. CASE ~Active(row[j])
  BY <1>2, SameRows DEF Failed
<1>3. CASE Active(row[j])
  <2>1. row' = [row EXCEPT ![j] = [row[j] EXCEPT !.status = "failed"]]
    BY <1>3 DEF Failed
  <2>2. FailsSome
    BY <1>1, <1>3, <2>1 DEF FailsSome
  <2>3. row' \in [Jobs -> UNION {{row[k], [row[k] EXCEPT !.status = "failed"]} : k \in Jobs}]
    BY <1>1, <2>1
  <2> QED BY <2>2, <2>3, FailsSomeRows
<1> QED BY <1>2, <1>3

\* The completed rows are counted within the table.
LEMMA Completing ==
  ASSUME MRInv, NEW j \in Rows, row[j].status = "claimed"
  PROVE  Completions + 1 \in 0..MaxJobs
<1> DEFINE D == {k \in Rows : row[k].done > 0}
<1>1. MaxJobs \in Nat /\ j \in Jobs
  BY RecaptureAssumption DEF Rows
<1>2. IsFiniteSet(Jobs) /\ Cardinality(Jobs) = MaxJobs
  BY <1>1, FS_Interval DEF Jobs
<1>3. IsFiniteSet(Jobs \ {j}) /\ Cardinality(Jobs \ {j}) = MaxJobs - 1
  BY <1>1, <1>2, FS_RemoveElement
<1>4. row[j].done = 0
  BY DEF MRInv, RowsInv, RowGood
<1>5. D \subseteq Jobs \ {j}
  BY <1>4 DEF Rows
<1>6. IsFiniteSet(D) /\ Cardinality(D) <= MaxJobs - 1
  BY <1>3, <1>5, FS_Subset
<1>7. Cardinality(D) \in Nat
  BY <1>6, FS_CardinalityType
<1> QED BY <1>1, <1>6, <1>7 DEF Completions

\* A row that is completed.
LEMMA CompletedRows ==
  ASSUME MRInv, NEW j \in Rows, NEW o \in {"recovered", "unavailable"}, row[j].status = "claimed",
         Completed(j, o), epoch' = epoch
  PROVE  RowsStep /\ NoClaim /\ NoAdmission /\ Rows' = Rows
<1> DEFINE n == Completions + 1
           r == [row[j] EXCEPT !.status = "completed", !.outcome = o, !.done = n]
<1>1. n \in 0..MaxJobs
  BY Completing
<1>2. row' = [row EXCEPT ![j] = r]
  BY DEF Completed
<1> HIDE DEF n
<1>3. RowGood(row[j], epoch) /\ j \in Jobs
  BY DEF MRInv, RowsInv, Rows
<1>4. RowGood(r, epoch) /\ Later(row[j], r) /\ r.phase = row[j].phase /\ r.status = "completed"
  BY <1>1, <1>3 DEF RowGood, FullRow, Later, Active, Terminal
<1> HIDE DEF r
<1>5. /\ RowsStep /\ Rows' = Rows /\ row'[j] = r
      /\ \A k \in Jobs : k # j => row'[k] = row[k]
  BY <1>2, <1>4, OneRow
<1> QED BY <1>4, <1>5 DEF NoClaim, NoAdmission, Rows

\* A row whose cleanup begins or was acknowledged.
LEMMA CleanupRows ==
  ASSUME MRInv, NEW j \in Rows, NEW s \in {"pending", "released"}, Terminal(row[j]),
         SetCleanup(j, s), epoch' = epoch
  PROVE  /\ RowsStep /\ NoClaim /\ NoAdmission /\ Rows' = Rows
         /\ s = "released" => row'[j].cleanup = "released"
<1> DEFINE c == IF row[j].cleanup = "released" THEN row[j].cleanup ELSE s
           r == [row[j] EXCEPT !.cleanup = c]
<1>1. row' = [row EXCEPT ![j] = r]
  BY DEF SetCleanup
<1>2. /\ c \in {"pending", "released"}
      /\ (row[j].cleanup = "released" => c = "released") /\ (s = "released" => c = "released")
  OBVIOUS
<1> HIDE DEF c
<1>3. RowGood(row[j], epoch) /\ j \in Jobs
  BY DEF MRInv, RowsInv, Rows
<1>4. /\ RowGood(r, epoch) /\ Later(row[j], r) /\ r.phase = row[j].phase
      /\ r.status = row[j].status /\ r.cleanup = c
  BY <1>2, <1>3 DEF RowGood, FullRow, Later, Active, Terminal
<1> HIDE DEF r
<1>5. /\ RowsStep /\ Rows' = Rows /\ row'[j] = r
      /\ \A k \in Jobs : k # j => row'[k] = row[k]
  BY <1>1, <1>4, OneRow
<1> QED BY <1>2, <1>4, <1>5 DEF NoClaim, NoAdmission, Rows

\* The place of the next row.
LEMMA NextRow ==
  ASSUME MRInv
  PROVE  /\ Cardinality(Rows) \in Nat /\ Rows = 1..Cardinality(Rows)
         /\ Cardinality(Rows) + 1 \notin Rows
         /\ \A k \in Rows : k < Cardinality(Rows) + 1
<1>1. PICK n \in Nat : Rows = 1..n
  BY DEF MRInv, RowsPrefix
<1>2. Cardinality(Rows) = n
  BY <1>1, FS_Interval
<1> QED BY <1>1, <1>2

\* A row is inserted.
LEMMA InsertedRow ==
  ASSUME MRInv, NEW j \in Jobs, j = Cardinality(Rows) + 1, NEW r, RowGood(r, epoch),
         row' = [row EXCEPT ![j] = r], epoch' = epoch
  PROVE  /\ RowsStep /\ Rows' = Rows \cup {j} /\ row'[j] = r
         /\ \A k \in Jobs : k # j => row'[k] = row[k]
<1>1. row \in [Jobs -> RowType]
  BY RestTypes DEF MRInv
<1>2. row'[j] = r /\ \A k \in Jobs : k # j => row'[k] = row[k]
  BY <1>1
<1>3. row' \in [Jobs -> RowType]
  BY <1>1, GoodRowType
<1>4. r.status # "none"
  BY RowFields
<1>5. j \notin Rows
  BY NextRow
<1>6. Rows' = Rows \cup {j}
  BY <1>2, <1>4 DEF Rows
<1>7. RowsInv'
  BY <1>2, <1>6 DEF MRInv, RowsInv, Rows
<1>8. RowsPrefix'
  <2>1. Rows' = 1..(Cardinality(Rows) + 1) /\ Cardinality(Rows) + 1 \in 0..MaxJobs
    BY <1>6, NextRow, RecaptureAssumption DEF Jobs
  <2> QED BY <2>1 DEF RowsPrefix
<1> QED
  BY <1>2, <1>3, <1>5, <1>6, <1>7, <1>8, SameRow DEF RowsStep, Rows

-----------------------------------------------------------------------------
(* The steps.                                                               *)

LEMMA SameOwner ==
  ASSUME MRInv, owner' = owner
  PROVE  OwnerKept /\ LaunchBounded'
BY DEF MRInv, OwnerKept, LaunchBounded

LEMMA SameLeases ==
  ASSUME lease' = lease
  PROVE  LeasesMove
BY DEF LeasesMove

LEMMA OwnerLeaseType ==
  ASSUME MRInv
  PROVE  OwnerLease \in LeaseType /\ OwnerLease # NoLease /\ owner.gen \in 1..MaxGeneration
BY RestTypes, RecaptureAssumption DEF MRInv, RestTypeOK, OwnerLease, LeaseType, NoLease

\* ensureCaptureRecapture, with an owner that is there.
LEMMA EnsuredLeases ==
  ASSUME MRInv, OwnerKept, NEW j \in Jobs, lease[j] # NoLease \/ owner.state = "ready",
         lease' = [lease EXCEPT ![j] = EnsuredLease(j)]
  PROVE  lease' \in [Jobs -> LeaseType] /\ LeasesMove
<1> DEFINE l == EnsuredLease(j)
<1>1. lease \in [Jobs -> LeaseType]
  BY RestTypes DEF MRInv, RestTypeOK
<1>2. /\ lease[j] # NoLease => l = lease[j]
      /\ lease[j] = NoLease => l = OwnerLease /\ owner.state = "ready"
  BY DEF EnsuredLease
<1>3. lease' = [lease EXCEPT ![j] = l]
  OBVIOUS
<1> HIDE DEF l
<1>4. l \in LeaseType
  BY <1>1, <1>2, OwnerLeaseType
<1>5. lease'[j] = l /\ \A k \in Jobs : k # j => lease'[k] = lease[k]
  BY <1>1, <1>3
<1>6. lease' \in [Jobs -> LeaseType]
  BY <1>1, <1>3, <1>4
<1>7. \A k \in Rows : k \in Jobs
  BY DEF Rows
<1> QED BY <1>2, <1>5, <1>6, <1>7 DEF LeasesMove

\* QueueMediaRecaptureForReason: its checks,
LEMMA QueueBeginStep ==
  ASSUME MRInv, NEW i \in Items, NEW m \in Modes, NEW r \in Reasons, QueueBegin(i, m, r)
  PROVE  MRInv' /\ RowsStep
<1> DEFINE h == hybridFacebook(i)
           l == IF h THEN NoLease ELSE OwnerLease
<1>0. row' = row /\ epoch' = epoch /\ owner' = owner /\ lease' = lease /\ holds' = holds /\ pump' = pump
      /\ claim' = claim /\ calls' = calls
  BY DEF QueueBegin, durable, held, marks
<1>1. RowsStep /\ NoClaim /\ NoAdmission /\ Rows' = Rows
  BY <1>0, SameRows
<1>2. OwnerKept /\ LaunchBounded' /\ LeasesMove
  BY <1>0, SameOwner, SameLeases
<1>3. RestTypeOK'
  BY RestTypes DEF QueueBegin, durable, held, marks, RestTypeOK, MRInv
<1>4. asking' = [job |-> i, mode |-> m, reason |-> r, hybrid |-> h, lease |-> l]
  BY DEF QueueBegin
<1>5. h \in BOOLEAN /\ (~h => owner.state = "ready")
  BY DEF QueueBegin, hybridFacebook
<1>6. m = "foreground" => Exhausted(i, r, MaxJobs + 1)
  <2>1. SUFFICES ASSUME m = "foreground"
                 PROVE  Exhausted(i, r, MaxJobs + 1)
    OBVIOUS
  <2>2. requireUnavailableBackgroundRecapture(i, r)
    BY <2>1 DEF QueueBegin, Recapturable
  <2>3. PICK j \in LatestCompleted(i) : row[j].outcome = "unavailable" /\ row[j].mode = "background" /\ row[j].reason = r
    BY <2>2 DEF requireUnavailableBackgroundRecapture
  <2>4. j \in Rows /\ row[j].item = i
    BY DEF LatestCompleted
  <2>5. j < MaxJobs + 1
    BY <2>4, RecaptureAssumption DEF Rows, Jobs
  <2> QED BY <2>3, <2>4, <2>5 DEF Exhausted
<1> HIDE DEF h
<1>7. AskingInv'
  <2>1. asking' \in AskType /\ (h <=> l = NoLease)
    BY <1>4, <1>5, OwnerLeaseType DEF AskType, LeaseType
  <2>2. l # NoLease => l = OwnerLease' /\ owner'.state # "replacing"
    BY <1>0, <1>5 DEF OwnerLease
  <2>3. m = "foreground" => Exhausted(i, r, MaxJobs + 1)'
    BY <1>0, <1>1, <1>6 DEF Exhausted
  <2> HIDE DEF l
  <2>4. asking'.hybrid = h /\ asking'.lease = l /\ asking'.mode = m /\ asking'.job = i /\ asking'.reason = r
    BY <1>4
  <2> QED BY <2>1, <2>2, <2>3, <2>4 DEF AskingInv
<1> QED BY <1>0, <1>1, <1>2, <1>3, <1>7, Step

\* its refusal
LEMMA QueueRefusedStep ==
  ASSUME MRInv, QueueRefused
  PROVE  MRInv' /\ RowsStep
<1>0. row' = row /\ epoch' = epoch /\ owner' = owner /\ lease' = lease /\ holds' = holds /\ pump' = pump
      /\ claim' = claim /\ calls' = calls /\ asking' = Nothing
  BY DEF QueueRefused, durable, held, marks
<1>1. RowsStep /\ NoClaim /\ NoAdmission /\ Rows' = Rows
  BY <1>0, SameRows
<1>2. OwnerKept /\ LaunchBounded' /\ LeasesMove
  BY <1>0, SameOwner, SameLeases
<1>3. RestTypeOK'
  BY RestTypes DEF QueueRefused, durable, held, marks, RestTypeOK, MRInv
<1> QED BY <1>0, <1>1, <1>2, <1>3, Step

\* and its insertion.
LEMMA QueueInsertStep ==
  ASSUME MRInv, QueueInsert
  PROVE  MRInv' /\ RowsStep
<1>1. PICK j \in Jobs, c \in Collectors :
        /\ j = Cardinality(Rows) + 1
        /\ c \in (IF asking.hybrid THEN {"bridge"} ELSE Route(asking.mode, asking.lease.driver))
        /\ row' = [row EXCEPT ![j] = CreatedRow(asking, c)]
        /\ lease' = [lease EXCEPT ![j] = asking.lease]
        /\ holds' = IF asking.hybrid THEN holds \cup {j} ELSE holds
  BY DEF QueueInsert
<1> DEFINE r == CreatedRow(asking, c)
<1>2. /\ asking # Nothing /\ asking' = Nothing /\ epoch' = epoch /\ owner' = owner /\ pump' = pump
      /\ claim' = claim /\ calls' = calls
  BY DEF QueueInsert
<1>3. /\ asking \in AskType /\ (asking.hybrid <=> asking.lease = NoLease)
      /\ asking.lease # NoLease => asking.lease = OwnerLease /\ owner.state # "replacing"
      /\ asking.mode = "foreground" => Exhausted(asking.job, asking.reason, MaxJobs + 1)
  BY <1>2 DEF MRInv, AskingInv
<1>4. /\ asking.job \in Items /\ asking.mode \in Modes /\ asking.reason \in Reasons
      /\ asking.hybrid \in BOOLEAN /\ asking.lease \in LeaseType
  BY <1>3 DEF AskType
<1>5. epoch \in 1..MaxEpoch
  BY RestTypes DEF MRInv, RestTypeOK
<1> DEFINE p == IF asking.hybrid THEN "waiting" ELSE "none"
           s == IF asking.hybrid THEN NoStamp
                ELSE [epoch |-> epoch, gen |-> asking.lease.gen, driver |-> asking.lease.driver]
<1>6. /\ p \in {"none", "waiting"} /\ (p = "waiting" => s = NoStamp)
      /\ s \in {NoStamp} \cup [epoch : 1..MaxEpoch, gen : 1..MaxGeneration, driver : Drivers]
      /\ s.epoch <= epoch
  BY <1>3, <1>4, <1>5 DEF LeaseType, NoStamp
<1>7. r = [status |-> "queued", item |-> asking.job, mode |-> asking.mode, reason |-> asking.reason,
           route |-> c, outcome |-> "none", cleanup |-> "none", done |-> 0, phase |-> p, stamp |-> s]
  BY DEF CreatedRow
<1> HIDE DEF p, s
<1>8. RowGood(r, epoch) /\ r.status = "queued" /\ r.phase # "admitted"
      /\ r.mode = asking.mode /\ r.item = asking.job /\ r.reason = asking.reason
  BY <1>4, <1>6, <1>7, RecaptureAssumption DEF RowGood, FullRow, Terminal
<1>8a. row' = [row EXCEPT ![j] = r]
  BY <1>1
<1> HIDE DEF r
<1>9. /\ RowsStep /\ Rows' = Rows \cup {j} /\ row'[j] = r
      /\ \A k \in Jobs : k # j => row'[k] = row[k]
  BY <1>1, <1>2, <1>8, <1>8a, InsertedRow
<1>10. j \notin Rows
  BY <1>1, NextRow
<1>11. NoClaim /\ NoAdmission
  BY <1>8, <1>9 DEF NoClaim, NoAdmission, Rows
<1>12. ForegroundAfterBackground'
  <2>1. SUFFICES ASSUME NEW k \in Rows', row'[k].mode = "foreground"
                 PROVE  \E n \in Rows' : /\ n < k /\ row'[n].item = row'[k].item /\ row'[n].reason = row'[k].reason
                                         /\ row'[n].mode = "background" /\ row'[n].outcome = "unavailable"
    BY DEF ForegroundAfterBackground
  <2>2. CASE k = j
    <3>1. PICK n \in Rows : /\ row[n].item = asking.job /\ row[n].reason = asking.reason
                            /\ row[n].mode = "background" /\ row[n].outcome = "unavailable"
      BY <1>3, <1>8, <1>9, <2>1, <2>2 DEF Exhausted
    <3>2. n < j
      BY <1>1, NextRow
    <3> QED BY <1>8, <1>9, <1>10, <2>2, <3>1, <3>2 DEF Rows
  <2>3. CASE k # j
    <3>1. k \in Rows /\ row'[k] = row[k]
      BY <1>9, <2>3 DEF Rows
    <3>2. PICK n \in Rows : /\ n < k /\ row[n].item = row[k].item /\ row[n].reason = row[k].reason
                            /\ row[n].mode = "background" /\ row[n].outcome = "unavailable"
      BY <2>1, <3>1 DEF MRInv, ForegroundAfterBackground
    <3> QED BY <1>9, <1>10, <3>1, <3>2 DEF Rows
  <2> QED BY <2>2, <2>3
<1>13. OwnerKept /\ LaunchBounded'
  BY <1>2, SameOwner
<1>14. lease \in [Jobs -> LeaseType]
  BY RestTypes DEF MRInv, RestTypeOK
<1>15. LeasesMove
  BY <1>1, <1>3, <1>10, <1>13, <1>14 DEF LeasesMove
<1>16. RestTypeOK'
  <2>1. lease' \in [Jobs -> LeaseType]
    BY <1>1, <1>4, <1>14
  <2>2. holds' \subseteq Jobs
    BY <1>1, RestTypes DEF MRInv, RestTypeOK
  <2> QED BY <2>1, <2>2, RestTypes DEF QueueInsert, marks, RestTypeOK, MRInv
<1>17. holds \subseteq holds'
  BY <1>1
<1> QED BY <1>2, <1>9, <1>11, <1>12, <1>13, <1>15, <1>16, <1>17, Step

\* A claim's check of the owner.
LEMMA ClaimCheckStep ==
  ASSUME MRInv, NEW j \in Jobs, NEW c \in Collectors, ClaimCheck(j, c)
  PROVE  MRInv' /\ RowsStep
<1> DEFINE l == EnsuredLease(j)
<1>1. /\ j \in Rows /\ Active(row[j]) /\ epoch' = epoch /\ owner' = owner /\ holds' = holds
      /\ pump' = pump /\ calls' = calls /\ asking' = asking
  BY DEF ClaimCheck, marks
<1>2. OwnerKept /\ LaunchBounded'
  BY <1>1, SameOwner
<1>3. \/ row' = Failed(j) /\ lease' = lease /\ claim' = claim
      \/ /\ lease[j] # NoLease \/ owner.state = "ready"
         /\ lease' = [lease EXCEPT ![j] = l]
         /\ \/ row' = row /\ claim' = claim
            \/ row' = Failed(j) /\ claim' = claim
            \/ Validated(l, j) /\ claim' = [job |-> j, route |-> c] /\ row' = row
  BY DEF ClaimCheck
<1>4. lease \in [Jobs -> LeaseType]
  BY RestTypes DEF MRInv, RestTypeOK
<1>5. RowsStep /\ NoClaim /\ NoAdmission /\ Rows' = Rows
  BY <1>1, <1>3, SameRows, FailedRows
<1>6. lease' \in [Jobs -> LeaseType] /\ LeasesMove
  BY <1>2, <1>3, <1>4, SameLeases, EnsuredLeases
<1>7. RestTypeOK'
  BY <1>6, RestTypes DEF ClaimCheck, marks, RestTypeOK, MRInv
<1>8. claim' = claim \/ ClaimChecked'
  <2>1. SUFFICES ASSUME Validated(l, j), claim' = [job |-> j, route |-> c], row' = row,
                        lease' = [lease EXCEPT ![j] = l]
                 PROVE  ClaimChecked'
    BY <1>3
  <2>2. claim'.job = j /\ lease'[j] = l /\ l # NoLease
    BY <1>4, <2>1 DEF Validated
  <2>3. row[j].stamp = [epoch |-> epoch, gen |-> l.gen, driver |-> l.driver]
    BY <2>1 DEF Validated
  <2> HIDE DEF l
  <2> QED BY <1>1, <1>5, <2>1, <2>2, <2>3 DEF ClaimChecked, Stamped
<1> QED BY <1>1, <1>2, <1>5, <1>6, <1>7, <1>8, Step

\* A claim's transaction.
LEMMA ClaimStep ==
  ASSUME MRInv, ClaimMediaRecapture
  PROVE  MRInv' /\ RowsStep
<1> DEFINE j == claim.job
<1>1. /\ claim # Nothing /\ claim' = Nothing /\ epoch' = epoch /\ owner' = owner /\ holds' = holds
      /\ pump' = pump /\ calls' = calls /\ asking' = asking /\ lease' = lease
  BY DEF ClaimMediaRecapture, held, marks
<1>2. OwnerKept /\ LaunchBounded' /\ LeasesMove
  BY <1>1, SameOwner, SameLeases
<1>3. RestTypeOK'
  BY RestTypes DEF ClaimMediaRecapture, held, marks, RestTypeOK, MRInv
<1>4. j \in Rows /\ (Active(row[j]) => Stamped(j))
  BY <1>1 DEF MRInv, ClaimChecked
<1>5. CASE row' = row
  <2>1. RowsStep /\ NoClaim /\ NoAdmission /\ Rows' = Rows
    BY <1>1, <1>5, SameRows
  <2> QED BY <1>1, <1>2, <1>3, <2>1, Step
<1>6. CASE Claimable(j, claim.route) /\ row' = [row EXCEPT ![j].status = "claimed"]
  <2> DEFINE r == [row[j] EXCEPT !.status = "claimed"]
  <2>1. row[j].status = "queued" /\ row[j].phase # "waiting" /\ Stamped(j)
    BY <1>4, <1>6 DEF Claimable, Active
  <2>2. row' = [row EXCEPT ![j] = r]
    BY <1>6
  <2>3. RowGood(row[j], epoch) /\ j \in Jobs
    BY <1>4 DEF MRInv, RowsInv, Rows
  <2>4. RowGood(r, epoch) /\ Later(row[j], r) /\ r.phase = row[j].phase /\ r.stamp = row[j].stamp
    BY <2>1, <2>3 DEF RowGood, FullRow, Later, Active, Terminal
  <2> HIDE DEF r
  <2>5. /\ RowsStep /\ Rows' = Rows /\ row'[j] = r
        /\ \A k \in Jobs : k # j => row'[k] = row[k]
    BY <1>1, <1>4, <2>2, <2>4, OneRow
  <2>6. NoAdmission
    BY <2>4, <2>5 DEF NoAdmission, Rows
  <2>7. ClaimedStamped'
    BY <1>1, <2>1, <2>4, <2>5 DEF ClaimedStamped, Stamped, MRInv, Rows
  <2> QED BY <1>1, <1>2, <1>3, <2>5, <2>6, <2>7, Step
<1> QED BY <1>5, <1>6 DEF ClaimMediaRecapture

\* An observation.
LEMMA AcceptStep ==
  ASSUME MRInv, NEW j \in Jobs, NEW o \in {"recovered", "unavailable"}, AcceptMediaRecapture(j, o)
  PROVE  MRInv' /\ RowsStep
<1>1. /\ j \in Rows /\ row[j].status = "claimed" /\ Completed(j, o) /\ epoch' = epoch /\ owner' = owner
      /\ holds' = holds /\ pump' = pump /\ claim' = claim /\ calls' = calls /\ asking' = asking
      /\ lease' = lease
  BY DEF AcceptMediaRecapture, held, marks, threads
<1>2. OwnerKept /\ LaunchBounded' /\ LeasesMove
  BY <1>1, SameOwner, SameLeases
<1>3. RowsStep /\ NoClaim /\ NoAdmission /\ Rows' = Rows
  BY <1>1, CompletedRows
<1>4. RestTypeOK'
  <2>1. evidence' \in [Items -> {"absent", "playable"}]
    BY <1>1, RestTypes DEF MRInv, RestTypeOK, Completed
  <2> QED BY <2>1, RestTypes DEF AcceptMediaRecapture, held, marks, threads, RestTypeOK, MRInv
<1> QED BY <1>1, <1>2, <1>3, <1>4, Step

\* A failure, or an access challenge of X.
LEMMA FailStep ==
  ASSUME MRInv, NEW j \in Jobs, NEW x \in BOOLEAN, FailMediaRecapture(j, x)
  PROVE  MRInv' /\ RowsStep
<1>1. /\ j \in Rows /\ epoch' = epoch /\ owner' = owner
      /\ holds' = holds /\ pump' = pump /\ claim' = claim /\ calls' = calls /\ asking' = asking
      /\ lease' = lease
  BY DEF FailMediaRecapture, held, marks, threads
<1>2. OwnerKept /\ LaunchBounded' /\ LeasesMove
  BY <1>1, SameOwner, SameLeases
<1>3. RowsStep /\ NoClaim /\ NoAdmission /\ Rows' = Rows
  <2>1. CASE row' = Failed(j)
    BY <1>1, <2>1, FailedRows
  <2>2. CASE XChallenge
    <3>1. row \in [Jobs -> RowType]
      BY RestTypes DEF MRInv
    <3>2. \A k \in Rows : k \in Jobs
      BY DEF Rows
    <3>3. \A k \in Rows : Failed(k)[k] = IF Active(row[k]) THEN [row[k] EXCEPT !.status = "failed"] ELSE row[k]
      BY <3>1, <3>2 DEF Failed
    <3>4. \A k \in Jobs : row'[k] = IF k \in Rows /\ row[k].item \notin FacebookItems THEN Failed(k)[k] ELSE row[k]
      BY <2>2 DEF XChallenge
    <3>5. FailsSome
      BY <3>3, <3>4 DEF FailsSome
    <3>6. row' \in [Jobs -> UNION {{row[k], [row[k] EXCEPT !.status = "failed"]} : k \in Jobs}]
      <4> DEFINE S == UNION {{row[k], [row[k] EXCEPT !.status = "failed"]} : k \in Jobs}
      <4>1. ASSUME NEW k \in Jobs
            PROVE  row'[k] \in S
        <5>1. row'[k] \in {row[k], [row[k] EXCEPT !.status = "failed"]}
          BY <3>3, <3>4
        <5> QED BY <5>1
      <4> HIDE DEF S
      <4>2. row' \in [Jobs -> S]
        BY <2>2, <4>1 DEF XChallenge
      <4> QED BY <4>2 DEF S
    <3> QED BY <1>1, <3>5, <3>6, FailsSomeRows
  <2> QED BY <2>1, <2>2 DEF FailMediaRecapture
<1>4. RestTypeOK'
  BY RestTypes DEF FailMediaRecapture, XChallenge, held, marks, threads, RestTypeOK, MRInv
<1> QED BY <1>1, <1>2, <1>3, <1>4, Step

\* Rows that a request or an observation adds leave every foreground attempt behind
\* its background one.
LEMMA StillAfter ==
  ASSUME MRInv, NEW j, j \notin Rows, Rows' = Rows \cup {j},
         \A k \in Jobs : k # j => row'[k] = row[k],
         row'[j].mode = "background"
  PROVE  ForegroundAfterBackground'
<1>1. SUFFICES ASSUME NEW k \in Rows', row'[k].mode = "foreground"
               PROVE  \E n \in Rows' : /\ n < k /\ row'[n].item = row'[k].item /\ row'[n].reason = row'[k].reason
                                       /\ row'[n].mode = "background" /\ row'[n].outcome = "unavailable"
  BY DEF ForegroundAfterBackground
<1>2. k \in Rows /\ row'[k] = row[k]
  BY <1>1 DEF Rows
<1>3. PICK n \in Rows : /\ n < k /\ row[n].item = row[k].item /\ row[n].reason = row[k].reason
                        /\ row[n].mode = "background" /\ row[n].outcome = "unavailable"
  BY <1>1, <1>2 DEF MRInv, ForegroundAfterBackground
<1> QED BY <1>2, <1>3 DEF Rows

\* Passive media becomes evidence of an X item.
LEMMA PassiveStep ==
  ASSUME MRInv, NEW i \in Items, ApplyPassiveXMediaEvidence(i)
  PROVE  MRInv' /\ RowsStep
<1>1. PICK j \in Jobs : j = Cardinality(Rows) + 1 /\ row' = [row EXCEPT ![j] = PassiveRow(i)]
  BY DEF ApplyPassiveXMediaEvidence
<1>2. /\ epoch' = epoch /\ owner' = owner /\ holds' = holds /\ pump' = pump /\ claim' = claim
      /\ calls' = calls /\ asking' = asking /\ lease' = lease
  BY DEF ApplyPassiveXMediaEvidence, held, marks, threads
<1>3. OwnerKept /\ LaunchBounded' /\ LeasesMove
  BY <1>2, SameOwner, SameLeases
<1> DEFINE n == Completions + 1
           r == PassiveRow(i)
<1>4. n \in 0..MaxJobs
  <2> DEFINE D == {k \in Rows : row[k].done > 0}
  <2>1. Rows = 1..(j - 1) /\ j - 1 \in Nat /\ j <= MaxJobs /\ j \in Nat
    BY <1>1, NextRow, RecaptureAssumption DEF Jobs
  <2>2. IsFiniteSet(Rows) /\ Cardinality(Rows) = j - 1
    BY <2>1, FS_Interval
  <2>3. D \subseteq Rows
    OBVIOUS
  <2>4. IsFiniteSet(D) /\ Cardinality(D) <= j - 1
    BY <2>2, <2>3, FS_Subset
  <2>5. Cardinality(D) \in Nat
    BY <2>4, FS_CardinalityType
  <2>6. Completions = Cardinality(D)
    BY DEF Completions
  <2> HIDE DEF D
  <2> QED BY <2>1, <2>4, <2>5, <2>6, RecaptureAssumption
<1>5. r = [status |-> "completed", item |-> i, mode |-> "background",
           reason |-> "missing_media", route |-> "bridge", outcome |-> "recovered",
           phase |-> "none", stamp |-> NoStamp, cleanup |-> "none", done |-> n]
  BY DEF PassiveRow
<1>6. epoch \in 1..MaxEpoch
  BY RestTypes DEF MRInv, RestTypeOK
<1> HIDE DEF n
<1>7. /\ RowGood(r, epoch) /\ r.status = "completed" /\ r.phase = "none" /\ r.mode = "background"
  BY <1>4, <1>5, <1>6, RecaptureAssumption DEF RowGood, FullRow, Modes, Collectors, NoStamp, Terminal
<1> HIDE DEF r
<1>8. /\ RowsStep /\ Rows' = Rows \cup {j} /\ row'[j] = r
      /\ \A k \in Jobs : k # j => row'[k] = row[k]
  BY <1>1, <1>2, <1>7, InsertedRow DEF r
<1>9. j \notin Rows
  BY <1>1, NextRow
<1>10. NoClaim /\ NoAdmission
  BY <1>7, <1>8 DEF NoClaim, NoAdmission, Rows
<1>11. ForegroundAfterBackground'
  BY <1>7, <1>8, <1>9, StillAfter
<1>12. RestTypeOK'
  <2>1. evidence' \in [Items -> {"absent", "playable"}]
    BY RestTypes DEF ApplyPassiveXMediaEvidence, MRInv, RestTypeOK
  <2> QED BY <2>1, RestTypes DEF ApplyPassiveXMediaEvidence, held, marks, threads, RestTypeOK, MRInv
<1> QED BY <1>2, <1>3, <1>8, <1>10, <1>11, <1>12, Step

\* The pump reads a row,
LEMMA PumpReadStep ==
  ASSUME MRInv, NEW j \in Jobs, PumpRead(j)
  PROVE  MRInv' /\ RowsStep
<1>1. /\ row' = row /\ epoch' = epoch /\ owner' = owner /\ holds' = holds /\ claim' = claim
      /\ calls' = calls /\ asking' = asking /\ lease' = lease
  BY DEF PumpRead, durable, held, marks
<1>2. RowsStep /\ NoClaim /\ NoAdmission /\ Rows' = Rows
  BY <1>1, SameRows
<1>3. OwnerKept /\ LaunchBounded' /\ LeasesMove
  BY <1>1, SameOwner, SameLeases
<1>4. RestTypeOK'
  BY RestTypes DEF PumpRead, durable, held, marks, RestTypeOK, MRInv
<1>5. PumpInv'
  <2>1. pump' = [job |-> j, seen |-> row[j], at |-> "admit"]
    BY DEF PumpRead
  <2>2. j \in Rows /\ (Active(row[j]) \/ row[j].phase = "admitted")
    BY DEF PumpRead, BrowserAdmissionMediaRecaptureIDs
  <2>3. row[j] \in FullRow
    BY <2>2 DEF MRInv, RowsInv, RowGood
  <2>4. pump' \in PumpType
    BY <2>1, <2>3 DEF PumpType
  <2>5. pump'.job = j /\ pump'.seen = row[j] /\ pump'.at = "admit"
    BY <2>1
  <2> QED BY <1>1, <1>2, <2>2, <2>4, <2>5 DEF PumpInv
<1> QED BY <1>1, <1>2, <1>3, <1>4, <1>5, Step

\* admits a waiting job or not,
LEMMA PumpAdmitStep ==
  ASSUME MRInv, PumpAdmit
  PROVE  MRInv' /\ RowsStep
<1> DEFINE j == pump.job
<1>1. /\ epoch' = epoch /\ owner' = owner /\ claim' = claim /\ calls' = calls /\ asking' = asking
      /\ holds' = IF Active(pump.seen) THEN holds \cup {j} ELSE holds
      /\ pump # Nothing /\ pump.at = "admit"
  BY DEF PumpAdmit, marks
<1>2. /\ pump \in PumpType /\ j \in Rows /\ (Active(pump.seen) \/ pump.seen.phase = "admitted")
      /\ pump.seen.phase # "waiting" =>
           row[j].phase = pump.seen.phase /\ row[j].stamp = pump.seen.stamp
  BY <1>1 DEF MRInv, PumpInv
<1>3. OwnerKept /\ LaunchBounded'
  BY <1>1, SameOwner
<1>4. j \in Jobs /\ holds' \subseteq Jobs /\ holds \subseteq holds'
  BY <1>1, <1>2, RestTypes DEF MRInv, RestTypeOK, Rows
<1>5. ASSUME lease' \in [Jobs -> LeaseType]
      PROVE  RestTypeOK'
  BY <1>4, <1>5, RestTypes DEF PumpAdmit, marks, RestTypeOK, MRInv
<1>6. lease \in [Jobs -> LeaseType]
  BY RestTypes DEF MRInv, RestTypeOK
<1>7. CASE /\ ~(Active(pump.seen) /\ pump.seen.phase = "waiting")
           /\ pump' = [pump EXCEPT !.at = "dispatch"] /\ row' = row /\ lease' = lease
  <2>1. RowsStep /\ NoClaim /\ NoAdmission /\ Rows' = Rows
    BY <1>1, <1>7, SameRows
  <2>2. pump'.job = j /\ pump'.seen = pump.seen /\ pump'.at = "dispatch" /\ pump' \in PumpType
    BY <1>2, <1>7 DEF PumpType
  <2>3. pump.seen.phase # "waiting"
    BY <1>2, <1>7
  <2>4. PumpInv'
    BY <1>2, <1>7, <2>1, <2>2, <2>3 DEF PumpInv
  <2> QED BY <1>1, <1>3, <1>4, <1>5, <1>6, <1>7, <2>1, <2>4, SameLeases, Step
<1>8. CASE /\ Active(pump.seen) /\ Ready("browser") /\ row[j].status = "queued" /\ row[j].phase = "waiting"
           /\ row' = Bound(j) /\ lease' = [lease EXCEPT ![j] = EnsuredLease(j)]
           /\ pump' = [job |-> j, seen |-> Bound(j)[j], at |-> "dispatch"]
  <2> DEFINE r == [row[j] EXCEPT !.phase = "admitted", !.stamp = OwnerStamp]
  <2>1. RowGood(row[j], epoch) /\ row \in [Jobs -> RowType] /\ epoch \in 1..MaxEpoch
    BY <1>2, RestTypes DEF MRInv, RowsInv, RestTypeOK
  <2>2. row' = [row EXCEPT ![j] = r] /\ Bound(j)[j] = r
    BY <1>4, <1>8, <2>1 DEF Bound
  <2>3. /\ OwnerStamp \in [epoch : 1..MaxEpoch, gen : 1..MaxGeneration, driver : Drivers]
        /\ OwnerStamp # NoStamp /\ OwnerStamp.epoch = epoch
    BY <2>1, Stamps, RestTypes DEF MRInv, RestTypeOK, OwnerStamp
  <2>3a. row[j] \in FullRow
    BY <2>1 DEF RowGood
  <2>3b. /\ r \in FullRow /\ r.status = "queued" /\ r.phase = "admitted" /\ r.stamp = OwnerStamp
         /\ r.item = row[j].item /\ r.mode = row[j].mode /\ r.reason = row[j].reason
         /\ r.outcome = row[j].outcome /\ r.cleanup = row[j].cleanup /\ r.done = row[j].done
    BY <1>8, <2>3, <2>3a DEF FullRow
  <2> HIDE DEF r
  <2>4. RowGood(r, epoch) /\ Later(row[j], r)
    BY <1>8, <2>1, <2>3, <2>3b DEF RowGood, Later, Active, Terminal
  <2>5. /\ RowsStep /\ Rows' = Rows /\ row'[j] = r
        /\ \A k \in Jobs : k # j => row'[k] = row[k]
    BY <1>1, <1>2, <2>2, <2>4, OneRow
  <2>6. NoClaim
    BY <2>3b, <2>5 DEF NoClaim, Rows
  <2>7. j \in holds'
    BY <1>1, <1>8
  <2>8. SurfaceHeld'
    BY <1>4, <2>5, <2>7 DEF MRInv, SurfaceHeld, Rows
  <2>9. lease' \in [Jobs -> LeaseType] /\ LeasesMove
    BY <1>3, <1>4, <1>8, EnsuredLeases DEF Ready
  <2>10. PumpInv'
    <3>1. pump'.job = j /\ pump'.seen = r /\ pump'.at = "dispatch"
      BY <1>8, <2>2
    <3>2. pump' \in PumpType
      BY <1>4, <1>8, <2>2, <2>3b DEF PumpType
    <3>3. Active(r)
      BY <2>3b DEF Active
    <3> QED BY <1>2, <2>3b, <2>5, <3>1, <3>2, <3>3 DEF PumpInv
  <2> QED BY <1>1, <1>3, <1>5, <2>5, <2>6, <2>8, <2>9, <2>10, Step
<1>9. CASE (row' = row \/ row' = Failed(j)) /\ pump' = Nothing /\ lease' = lease
  <2>1. RowsStep /\ NoClaim /\ NoAdmission /\ Rows' = Rows
    BY <1>1, <1>2, <1>9, SameRows, FailedRows
  <2> QED BY <1>1, <1>3, <1>4, <1>5, <1>6, <1>9, <2>1, SameLeases, Step
<1> QED BY <1>7, <1>8, <1>9 DEF PumpAdmit

\* and decides about the dispatch on the row as it was read.
LEMMA PumpDispatchStep ==
  ASSUME MRInv, PumpDispatch
  PROVE  MRInv' /\ RowsStep
<1> DEFINE j == pump.job
           l == EnsuredLease(j)
           d == [kind |-> "dispatch", job |-> j, gen |-> l.gen, at |-> "called"]
<1>1. /\ epoch' = epoch /\ owner' = owner /\ claim' = claim /\ asking' = asking /\ holds' = holds
      /\ pump # Nothing /\ pump.at = "dispatch" /\ pump' = Nothing
  BY DEF PumpDispatch
<1>2. /\ j \in Rows /\ row[j].stamp = pump.seen.stamp
  BY <1>1 DEF MRInv, PumpInv
<1>3. OwnerKept /\ LaunchBounded'
  BY <1>1, SameOwner
<1>4. j \in Jobs /\ lease \in [Jobs -> LeaseType]
  BY <1>2, RestTypes DEF MRInv, RestTypeOK, Rows
<1>5. \/ (row' = row \/ row' = Failed(j)) /\ UNCHANGED <<lease, running, started, calls>>
      \/ /\ row' = row /\ Ready("browser") /\ pump.seen.stamp = OwnerStamp
         /\ lease' = [lease EXCEPT ![j] = l]
         /\ \/ UNCHANGED <<running, started, calls>>
            \/ /\ l = OwnerLease /\ running' = running \cup {j} /\ started' = started \cup {j}
               /\ calls' = calls \cup {d}
  BY DEF PumpDispatch
<1>6. RowsStep /\ NoClaim /\ NoAdmission /\ Rows' = Rows
  BY <1>1, <1>2, <1>5, SameRows, FailedRows
<1>7. lease' \in [Jobs -> LeaseType] /\ LeasesMove
  BY <1>3, <1>4, <1>5, SameLeases, EnsuredLeases DEF Ready
<1>8. d \in [kind : {"dispatch", "cleanup"}, job : Jobs, gen : 1..MaxGeneration, at : {"called", "saved"}]
        \/ calls' = calls
  <2>1. l = OwnerLease => l.gen \in 1..MaxGeneration
    BY OwnerLeaseType DEF OwnerLease
  <2> HIDE DEF l
  <2> QED BY <1>4, <1>5, <2>1
<1>9. RestTypeOK'
  <2>1. running' \subseteq Jobs /\ started' \subseteq Jobs
    BY <1>4, <1>5, RestTypes DEF MRInv, RestTypeOK
  <2>2. calls' \subseteq [kind : {"dispatch", "cleanup"}, job : Jobs, gen : 1..MaxGeneration,
                          at : {"called", "saved"}]
    <3> HIDE DEF d
    <3> QED BY <1>5, <1>8, RestTypes DEF MRInv, RestTypeOK
  <2> QED BY <1>7, <2>1, <2>2, RestTypes DEF PumpDispatch, RestTypeOK, MRInv
<1>10. calls' \subseteq calls \/ (CallsInv' /\ DispatchToOwner')
  <2>1. SUFFICES ASSUME row' = row, Ready("browser"), pump.seen.stamp = OwnerStamp, l = OwnerLease,
                        calls' = calls \cup {d}
                 PROVE  CallsInv' /\ DispatchToOwner'
    BY <1>5
  <2>2. d.kind = "dispatch" /\ d.job = j /\ d.at = "called" /\ d.gen = owner.gen
    BY <2>1 DEF OwnerLease
  <2>3. row[j].stamp = [epoch |-> epoch, gen |-> d.gen, driver |-> "browser"]
    BY <1>2, <2>1, <2>2 DEF OwnerStamp, Ready
  <2> HIDE DEF d
  <2>4. CallsInv'
    BY <1>2, <1>6, <2>1, <2>2 DEF MRInv, CallsInv
  <2>5. DispatchToOwner'
    BY <1>1, <2>1, <2>2, <2>3 DEF MRInv, DispatchToOwner
  <2> QED BY <2>4, <2>5
<1> QED BY <1>1, <1>3, <1>6, <1>7, <1>9, <1>10, Step

\* The dispatch returns.
LEMMA DispatchReturnsStep ==
  ASSUME MRInv, NEW c \in calls, NEW res \in {"completed", "deadline", "rejected"},
         DispatchReturns(c, res)
  PROVE  MRInv' /\ RowsStep
<1>1. /\ epoch' = epoch /\ owner' = owner /\ claim' = claim /\ asking' = asking /\ holds' = holds
      /\ lease' = lease /\ pump' = pump /\ calls' \subseteq calls
      /\ row' = row \/ row' = Failed(c.job)
  BY DEF DispatchReturns
<1>2. c.job \in Rows
  BY DEF MRInv, CallsInv
<1>3. OwnerKept /\ LaunchBounded' /\ LeasesMove
  BY <1>1, SameOwner, SameLeases
<1>4. RowsStep /\ NoClaim /\ NoAdmission /\ Rows' = Rows
  BY <1>1, <1>2, SameRows, FailedRows
<1>5. RestTypeOK'
  <2>1. confirmed' \subseteq Jobs /\ running' \subseteq Jobs
    BY <1>2, RestTypes DEF DispatchReturns, MRInv, RestTypeOK, Rows
  <2> QED BY <1>1, <2>1, RestTypes DEF DispatchReturns, RestTypeOK, MRInv
<1> QED BY <1>1, <1>3, <1>4, <1>5, Step

\* The release of what a terminal job holds.
LEMMA ReleaseStep ==
  ASSUME MRInv, NEW j \in Jobs, releaseTerminal(j)
  PROVE  MRInv' /\ RowsStep
<1>1. /\ j \in Rows /\ Terminal(row[j])
      /\ epoch' = epoch /\ owner' = owner /\ claim' = claim /\ asking' = asking /\ pump' = pump
  BY DEF releaseTerminal
<1>2. OwnerKept /\ LaunchBounded'
  BY <1>1, SameOwner
<1>3. lease \in [Jobs -> LeaseType]
  BY RestTypes DEF MRInv, RestTypeOK
<1>4. CASE ReleaseNow(j)
  <2>1. /\ row' = row /\ calls' = calls /\ lease' = [lease EXCEPT ![j] = NoLease] /\ holds' = holds \ {j}
        /\ row[j].phase # "admitted" \/ row[j].cleanup = "released"
    BY <1>4 DEF ReleaseNow, Release
  <2>2. RowsStep /\ NoClaim /\ NoAdmission /\ Rows' = Rows
    BY <1>1, <2>1, SameRows
  <2>3. lease' \in [Jobs -> LeaseType] /\ LeasesMove
    BY <1>1, <1>3, <2>1 DEF LeasesMove, LeaseType
  <2>4. SurfaceHeld'
    BY <2>1, <2>2 DEF MRInv, SurfaceHeld
  <2>5. RestTypeOK'
    BY <1>4, <2>3, RestTypes DEF releaseTerminal, ReleaseNow, Release, MRInv, RestTypeOK
  <2> QED BY <1>1, <1>2, <2>1, <2>2, <2>3, <2>4, <2>5, Step
<1>5. CASE BeginCleanup(j)
  <2> DEFINE l == IF lease[j] = NoLease /\ Ready("browser") THEN OwnerLease ELSE lease[j]
             c == [kind |-> "cleanup", job |-> j, gen |-> l.gen, at |-> "called"]
  <2>1. /\ SetCleanup(j, "pending") /\ holds' = holds /\ UNCHANGED <<running, started, confirmed>>
        /\ lease' = [lease EXCEPT ![j] = l]
        /\ \/ UNCHANGED <<cleaning, calls>>
           \/ l.driver = "browser" /\ cleaning' = cleaning \cup {j} /\ calls' = calls \cup {c}
    BY <1>5 DEF BeginCleanup, marks
  <2>2. RowsStep /\ NoClaim /\ NoAdmission /\ Rows' = Rows
    BY <1>1, <2>1, CleanupRows
  <2>3. l \in LeaseType /\ (l.driver = "browser" => l # NoLease)
    BY <1>3, OwnerLeaseType DEF NoLease
  <2>4. lease' \in [Jobs -> LeaseType] /\ LeasesMove
    BY <1>1, <1>2, <1>3, <2>1, <2>3 DEF LeasesMove, Ready
  <2>5. l.driver = "browser" =>
          c \in [kind : {"dispatch", "cleanup"}, job : Jobs, gen : 1..MaxGeneration, at : {"called", "saved"}]
    <3> HIDE DEF l
    <3> QED BY <2>3 DEF LeaseType
  <2>6. c.kind = "cleanup" /\ c.job = j /\ c.at = "called"
    OBVIOUS
  <2> HIDE DEF c, l
  <2>7. RestTypeOK'
    BY <1>5, <2>1, <2>4, <2>5, RestTypes DEF releaseTerminal, MRInv, RestTypeOK
  <2>8. Terminal(row'[j])
    BY <1>1, <2>2 DEF RowsStep, Later, Terminal
  <2>9. CallsInv' /\ DispatchToOwner'
    BY <1>1, <2>1, <2>2, <2>6, <2>8, CallsKept DEF CallsInv, DispatchToOwner
  <2> QED BY <1>1, <1>2, <2>1, <2>2, <2>4, <2>7, <2>9, Step
<1> QED BY <1>4, <1>5 DEF releaseTerminal

\* The acknowledgement of a cleanup is saved,
LEMMA CleanupSavedStep ==
  ASSUME MRInv, NEW c \in calls, CleanupSaved(c)
  PROVE  MRInv' /\ RowsStep
<1> DEFINE d == [c EXCEPT !.at = "saved"]
<1>1. /\ epoch' = epoch /\ owner' = owner /\ claim' = claim /\ asking' = asking /\ pump' = pump
      /\ holds' = holds /\ lease' = lease /\ SetCleanup(c.job, "released") /\ c.kind = "cleanup"
      /\ calls' = (calls \ {c}) \cup {d}
  BY DEF CleanupSaved, held
<1>2. c.job \in Rows /\ Terminal(row[c.job])
  BY <1>1 DEF MRInv, CallsInv
<1>3. /\ RowsStep /\ NoClaim /\ NoAdmission /\ Rows' = Rows
      /\ row'[c.job].cleanup = "released" /\ row'[c.job].status = row[c.job].status
  <2>1. /\ RowsStep /\ NoClaim /\ NoAdmission /\ Rows' = Rows
        /\ row'[c.job].cleanup = "released"
    BY <1>1, <1>2, CleanupRows
  <2> QED BY <1>2, <2>1 DEF RowsStep, Later
<1>4. OwnerKept /\ LaunchBounded' /\ LeasesMove
  BY <1>1, SameOwner, SameLeases
<1>5. /\ d \in [kind : {"dispatch", "cleanup"}, job : Jobs, gen : 1..MaxGeneration, at : {"called", "saved"}]
      /\ d.kind = "cleanup" /\ d.job = c.job
  BY <1>1, RestTypes DEF MRInv, RestTypeOK
<1> HIDE DEF d
<1>6. RestTypeOK'
  BY <1>1, <1>5, RestTypes DEF CleanupSaved, held, marks, MRInv, RestTypeOK
<1>7. CallsInv' /\ DispatchToOwner'
  BY <1>1, <1>2, <1>3, <1>5, CallsKept DEF CallsInv, DispatchToOwner, Terminal
<1> QED BY <1>1, <1>3, <1>4, <1>6, <1>7, Step

\* or does not come,
LEMMA CleanupFailsStep ==
  ASSUME MRInv, NEW c \in calls, CleanupFails(c)
  PROVE  MRInv' /\ RowsStep
<1>1. /\ epoch' = epoch /\ owner' = owner /\ claim' = claim /\ asking' = asking /\ pump' = pump
      /\ holds' = holds /\ lease' = lease /\ row' = row /\ calls' \subseteq calls
  BY DEF CleanupFails, durable
<1>2. RowsStep /\ NoClaim /\ NoAdmission /\ Rows' = Rows
  BY <1>1, SameRows
<1>3. OwnerKept /\ LaunchBounded' /\ LeasesMove
  BY <1>1, SameOwner, SameLeases
<1>4. RestTypeOK'
  BY <1>1, RestTypes DEF CleanupFails, durable, marks, MRInv, RestTypeOK
<1> QED BY <1>1, <1>2, <1>3, <1>4, Step

\* and lets the job give back what it holds.
LEMMA CleanupReturnsStep ==
  ASSUME MRInv, NEW c \in calls, CleanupReturns(c)
  PROVE  MRInv' /\ RowsStep
<1>1. /\ epoch' = epoch /\ owner' = owner /\ claim' = claim /\ asking' = asking /\ pump' = pump
      /\ row' = row /\ calls' \subseteq calls /\ holds' \in {holds, holds \ {c.job}}
      /\ lease' \in {lease, [lease EXCEPT ![c.job] = NoLease]}
  BY DEF CleanupReturns, Release, durable
<1>2. c.job \in Rows /\ Terminal(row[c.job]) /\ row[c.job].cleanup = "released"
  BY DEF CleanupReturns, MRInv, CallsInv
<1>3. RowsStep /\ NoClaim /\ NoAdmission /\ Rows' = Rows
  BY <1>1, SameRows
<1>4. OwnerKept /\ LaunchBounded'
  BY <1>1, SameOwner
<1>5. lease' \in [Jobs -> LeaseType] /\ LeasesMove
  <2>1. lease \in [Jobs -> LeaseType] /\ c.job \in Jobs
    BY <1>2, RestTypes DEF MRInv, RestTypeOK, Rows
  <2>2. lease' \in [Jobs -> LeaseType] /\ \A k \in Jobs : k # c.job => lease'[k] = lease[k]
    BY <1>1, <2>1 DEF LeaseType
  <2>3. lease'[c.job] \in {lease[c.job], NoLease}
    BY <1>1, <2>1
  <2>4. \A k \in Rows : k \in Jobs
    BY DEF Rows
  <2> QED BY <1>2, <2>2, <2>3, <2>4 DEF LeasesMove
<1>6. RestTypeOK'
  BY <1>1, <1>5, RestTypes DEF CleanupReturns, Release, durable, marks, MRInv, RestTypeOK
<1>7. SurfaceHeld'
  BY <1>1, <1>2, <1>3 DEF MRInv, SurfaceHeld
<1> QED BY <1>1, <1>3, <1>4, <1>5, <1>6, <1>7, Step

\* A confirmation that X works again, a heartbeat, a saved mode, an owner that fails.
LEMMA OutsideStep ==
  ASSUME MRInv,
         \/ ConfirmXCaptureRecovery \/ OwnerFails \/ BridgeHeartbeat
         \/ \E m \in Drivers : SetCollectionMode(m)
  PROVE  MRInv' /\ RowsStep
<1>1. /\ epoch' = epoch /\ claim' = claim /\ asking' = asking /\ pump' = pump
      /\ holds' = holds /\ lease' = lease /\ row' = row /\ calls' = calls
      /\ UNCHANGED <<evidence, cleaning, running, started, confirmed>>
  BY DEF ConfirmXCaptureRecovery, OwnerFails, BridgeHeartbeat, SetCollectionMode, durable, held, marks, threads
<1>2. paused' \in BOOLEAN /\ mode' \in Drivers /\ access' \in BOOLEAN
  BY RestTypes DEF ConfirmXCaptureRecovery, OwnerFails, BridgeHeartbeat, SetCollectionMode, durable,
                   MRInv, RestTypeOK
<1>3. \/ owner' = owner
      \/ owner' = [owner EXCEPT !.state = "failed"] /\ owner.state = "ready"
  BY DEF ConfirmXCaptureRecovery, OwnerFails, BridgeHeartbeat, SetCollectionMode, durable
<1>4. /\ owner' \in [state : {"ready", "replacing", "failed"}, driver : Drivers, gen : 1..MaxGeneration]
      /\ OwnerKept /\ LaunchBounded'
  BY <1>3, RestTypes DEF MRInv, RestTypeOK, OwnerKept, LaunchBounded
<1>5. RestTypeOK'
  BY <1>1, <1>2, <1>4, RestTypes DEF MRInv, RestTypeOK
<1>6. RowsStep /\ NoClaim /\ NoAdmission /\ Rows' = Rows
  BY <1>1, SameRows
<1> QED BY <1>1, <1>4, <1>5, <1>6, SameLeases, Step

\* The coordinator takes an owner nothing pins away, and launches the next one.
LEMMA CoordinatorStep ==
  ASSUME MRInv, Reconcile \/ Launched
  PROVE  MRInv' /\ RowsStep
<1>1. /\ epoch' = epoch /\ claim' = claim /\ asking' = asking /\ pump' = pump
      /\ holds' = holds /\ lease' = lease /\ row' = row /\ calls' = calls
      /\ UNCHANGED <<evidence, paused, mode, access, cleaning, running, started, confirmed>>
  BY DEF Reconcile, Launched, durable, held, marks, threads
<1>2. Unpinned
  <2>1. CASE Reconcile
    BY <2>1 DEF Reconcile, Pinned, Unpinned
  <2>2. CASE Launched
    BY <2>2 DEF Launched, Unpinned, MRInv, LeasesCurrent, AskingInv
  <2> QED BY <2>1, <2>2
<1>3. /\ owner' \in [state : {"ready", "replacing", "failed"}, driver : Drivers, gen : 1..MaxGeneration]
      /\ LaunchBounded'
  <2> DEFINE g == owner.gen + 1
  <2>1. /\ owner \in [state : {"ready", "replacing", "failed"}, driver : Drivers, gen : 1..MaxGeneration]
        /\ mode \in Drivers /\ MaxGeneration \in Nat
    BY RestTypes, RecaptureAssumption DEF MRInv, RestTypeOK
  <2>2. CASE Reconcile
    <3>1. Desired \in Drivers
      BY <2>1 DEF Desired, Drivers
    <3> QED BY <2>1, <2>2, <3>1 DEF Reconcile, LaunchBounded
  <2>3. CASE Launched
    <3>1. g \in 1..MaxGeneration
      BY <2>1, <2>3 DEF Launched, MRInv, LaunchBounded
    <3>2. owner' = [owner EXCEPT !.state = "ready", !.gen = g]
      BY <2>3 DEF Launched
    <3> HIDE DEF g
    <3> QED BY <2>1, <3>1, <3>2 DEF LaunchBounded
  <2> QED BY <2>2, <2>3
<1>4. RestTypeOK'
  BY <1>1, <1>3, RestTypes DEF MRInv, RestTypeOK
<1>5. RowsStep /\ NoClaim /\ NoAdmission /\ Rows' = Rows
  BY <1>1, SameRows
<1> QED BY <1>1, <1>2, <1>3, <1>4, <1>5, SameLeases, Step

\* The process ends and starts again: the rows are what they were, the stamps are an
\* earlier life's, and what is held is restored from the rows.
LEMMA RestartStep ==
  ASSUME MRInv, Restart
  PROVE  MRInv' /\ RowsStep
<1>1. /\ epoch \in 1..MaxEpoch /\ epoch' = epoch + 1 /\ epoch' \in 1..MaxEpoch
      /\ row' = row /\ UNCHANGED <<evidence, paused, mode>> /\ access' = FALSE
      /\ calls' = {} /\ asking' = Nothing /\ claim' = Nothing /\ pump' = Nothing
  BY RestTypes, RecaptureAssumption DEF Restart, durable, MRInv, RestTypeOK
<1>2. Rows' = Rows
  BY <1>1 DEF Rows
<1>3. \A j \in Rows : RowGood(row[j], epoch') /\ row[j].stamp.epoch < epoch'
  <2>1. SUFFICES ASSUME NEW j \in Rows
                 PROVE  RowGood(row[j], epoch') /\ row[j].stamp.epoch < epoch'
    OBVIOUS
  <2>2. RowGood(row[j], epoch) /\ row[j].stamp.epoch \in Int
    BY RowFields DEF MRInv, RowsInv
  <2> QED BY <1>1, <2>2 DEF RowGood
<1>4. RowsStep
  <2>1. RowsInv' /\ RowsPrefix'
    BY <1>1, <1>2, <1>3 DEF RowsInv, RowsPrefix, MRInv
  <2> QED BY <1>1, <1>2, <2>1, SameRow, RestTypes DEF RowsStep, MRInv, Rows
<1>5. /\ owner' \in [state : {"ready", "replacing", "failed"}, driver : Drivers, gen : 1..MaxGeneration]
      /\ owner'.state = "ready" /\ owner'.gen = 1 /\ owner'.driver \in Drivers
  BY RecaptureAssumption DEF Restart
<1>6. lease' = AdoptedLeases(owner'.driver) /\ holds' = RestoredHolds
      /\ cleaning' = {} /\ running' = {} /\ started' = {} /\ confirmed' = {}
  BY DEF Restart
<1>7. lease' \in [Jobs -> LeaseType] /\ LeasesCurrent'
  <2>1. \A j \in Jobs : lease'[j] \in {NoLease, [gen |-> 1, driver |-> owner'.driver]}
    BY <1>6 DEF AdoptedLeases
  <2>2. OwnerLease' = [gen |-> 1, driver |-> owner'.driver]
    BY <1>5 DEF OwnerLease
  <2>3. [gen |-> 1, driver |-> owner'.driver] \in LeaseType
    BY <1>5, RecaptureAssumption DEF LeaseType
  <2>4. lease' \in [Jobs -> LeaseType]
    BY <1>6, <2>1, <2>3 DEF AdoptedLeases, LeaseType
  <2> QED BY <1>5, <2>1, <2>2, <2>4 DEF LeasesCurrent
<1>8. RestTypeOK'
  <2>1. holds' \subseteq Jobs
    BY <1>6 DEF RestoredHolds, BrowserAdmissionMediaRecaptureIDs, Rows
  <2> QED BY <1>1, <1>5, <1>6, <1>7, <2>1, RestTypes DEF RestTypeOK, MRInv
<1>9. MRTypeOK'
  BY <1>4, <1>8, TypeFromParts
<1>10. SurfaceHeld'
  BY <1>1, <1>2, <1>6 DEF SurfaceHeld, RestoredHolds, BrowserAdmissionMediaRecaptureIDs, Hybrid
<1>11. LaunchBounded' /\ ClaimedStamped'
  BY <1>1, <1>2, <1>3, <1>5 DEF LaunchBounded, ClaimedStamped
<1>12. ClaimChecked' /\ AskingInv' /\ PumpInv' /\ CallsInv' /\ DispatchToOwner'
  BY <1>1 DEF ClaimChecked, AskingInv, PumpInv, CallsInv, DispatchToOwner
<1>13. ForegroundAfterBackground'
  BY <1>1, <1>2 DEF MRInv, ForegroundAfterBackground
<1> QED BY <1>4, <1>7, <1>9, <1>10, <1>11, <1>12, <1>13 DEF MRInv, RowsStep

-----------------------------------------------------------------------------
(* The invariant.                                                           *)

LEMMA InitInv ==
  ASSUME MRInit
  PROVE  MRInv
<1>1. PICK h \in EarlierAttempts :
        /\ h.mode = "background" /\ row = [j \in Jobs |-> IF j = 1 THEN h ELSE NoRow]
        /\ evidence \in [Items -> {"absent", "playable"}]
  BY DEF MRInit
<1>2. /\ h.status = "completed" /\ h.phase = "none" /\ h.stamp = NoStamp /\ h.cleanup = "none"
      /\ h.done = 1 /\ h.item \in Items /\ h.outcome \in {"recovered", "unavailable"}
  BY DEF EarlierAttempts
<1>3. NoRow.status = "none"
  BY DEF NoRow
<1>4. Rows \subseteq {1} /\ \A j \in Rows : row[j] = h
  BY <1>1, <1>3 DEF Rows
<1>5. 1 \in Jobs => h \in FullRow
  BY <1>1 DEF EarlierAttempts, FullRow, Jobs, Collectors
<1>6. epoch = 1 /\ MaxEpoch \in Nat \ {0} /\ MaxGeneration \in Nat \ {0} /\ MaxJobs \in Nat
  BY RecaptureAssumption DEF MRInit
<1>7. RowsInv
  BY <1>2, <1>4, <1>5, <1>6 DEF RowsInv, RowGood, Rows, Terminal, NoStamp
<1>8. row \in [Jobs -> RowType]
  BY <1>1, <1>5 DEF RowType, FullRow
<1>9. RowsPrefix
  <2>1. CASE 1 \in Jobs
    <3>1. Rows = 1..1
      BY <1>1, <1>2, <1>4, <2>1 DEF Rows
    <3> QED BY <1>6, <2>1, <3>1 DEF RowsPrefix, Jobs
  <2>2. CASE 1 \notin Jobs
    <3>1. Rows = 1..0
      BY <1>4, <2>2 DEF Rows
    <3> QED BY <1>6, <3>1 DEF RowsPrefix
  <2> QED BY <2>1, <2>2
<1>10. RestTypeOK
  <2>1. owner \in [state : {"ready", "replacing", "failed"}, driver : Drivers, gen : 1..MaxGeneration]
    BY <1>6 DEF MRInit
  <2>2. lease \in [Jobs -> LeaseType]
    BY DEF MRInit, LeaseType
  <2>3. /\ paused \in BOOLEAN /\ mode \in Drivers /\ access \in BOOLEAN
        /\ holds = {} /\ cleaning = {} /\ running = {} /\ started = {} /\ confirmed = {} /\ calls = {}
    BY DEF MRInit
  <2>4. epoch \in 1..MaxEpoch
    BY <1>6
  <2>5. /\ holds \subseteq Jobs /\ cleaning \subseteq Jobs
        /\ running \subseteq Jobs /\ started \subseteq Jobs /\ confirmed \subseteq Jobs
        /\ calls \subseteq [kind : {"dispatch", "cleanup"}, job : Jobs, gen : 1..MaxGeneration,
                            at : {"called", "saved"}]
    BY <2>3
  <2> QED BY <1>1, <2>1, <2>2, <2>3, <2>4, <2>5 DEF RestTypeOK
<1>11. MRTypeOK
  BY <1>2, <1>4, <1>8, <1>10 DEF RestTypeOK, MRTypeOK, LeaseType, Hybrid
<1>12. LaunchBounded /\ LeasesCurrent
  BY DEF MRInit, LaunchBounded, LeasesCurrent
<1>13. ClaimedStamped /\ SurfaceHeld /\ ForegroundAfterBackground
  BY <1>1, <1>2, <1>4 DEF ClaimedStamped, SurfaceHeld, ForegroundAfterBackground
<1>14. ClaimChecked /\ AskingInv /\ PumpInv /\ CallsInv /\ DispatchToOwner
  BY DEF MRInit, ClaimChecked, AskingInv, PumpInv, CallsInv, DispatchToOwner
<1> QED BY <1>7, <1>9, <1>11, <1>12, <1>13, <1>14 DEF MRInv

LEMMA NextInv ==
  ASSUME MRInv, [MRNext]_mrVars
  PROVE  MRInv' /\ RowsStep
<1>1. CASE UNCHANGED mrVars
  <2>1. /\ epoch' = epoch /\ owner' = owner /\ claim' = claim /\ asking' = asking /\ pump' = pump
        /\ holds' = holds /\ lease' = lease /\ row' = row /\ calls' = calls
    BY <1>1 DEF mrVars, durable, held, threads
  <2>2. RestTypeOK'
    BY <1>1, RestTypes DEF mrVars, durable, held, marks, threads, MRInv, RestTypeOK
  <2> QED BY <2>1, <2>2, SameRows, SameOwner, SameLeases, Step
<1>2. CASE \/ \E i \in Items, m \in Modes, r \in Reasons : QueueBegin(i, m, r)
           \/ QueueRefused \/ QueueInsert
           \/ \E j \in Jobs, c \in Collectors : ClaimCheck(j, c)
           \/ ClaimMediaRecapture
  BY <1>2, QueueBeginStep, QueueRefusedStep, QueueInsertStep, ClaimCheckStep, ClaimStep
<1>3. CASE \/ \E j \in Jobs, o \in {"recovered", "unavailable"} : AcceptMediaRecapture(j, o)
           \/ \E j \in Jobs, x \in BOOLEAN : FailMediaRecapture(j, x)
           \/ \E i \in Items : ApplyPassiveXMediaEvidence(i)
  BY <1>3, AcceptStep, FailStep, PassiveStep
<1>4. CASE \/ \E j \in Jobs : PumpRead(j)
           \/ PumpAdmit \/ PumpDispatch
           \/ \E c \in calls, res \in {"completed", "deadline", "rejected"} : DispatchReturns(c, res)
  BY <1>4, PumpReadStep, PumpAdmitStep, PumpDispatchStep, DispatchReturnsStep
<1>5. CASE \/ \E j \in Jobs : releaseTerminal(j)
           \/ \E c \in calls : CleanupSaved(c) \/ CleanupFails(c) \/ CleanupReturns(c)
  BY <1>5, ReleaseStep, CleanupSavedStep, CleanupFailsStep, CleanupReturnsStep
<1>6. CASE \/ ConfirmXCaptureRecovery \/ OwnerFails \/ BridgeHeartbeat
           \/ \E m \in Drivers : SetCollectionMode(m)
           \/ Reconcile \/ Launched \/ Restart
  BY <1>6, OutsideStep, CoordinatorStep, RestartStep
<1> QED BY <1>1, <1>2, <1>3, <1>4, <1>5, <1>6 DEF MRNext

LEMMA SoundFromInv ==
  ASSUME MRInv
  PROVE  RecaptureSound
<1>1. ClaimPinsOwner
  <2>1. SUFFICES ASSUME NEW j \in Rows, row[j].status = "claimed", row[j].stamp.epoch = epoch
                 PROVE  /\ owner.gen = row[j].stamp.gen /\ owner.state # "replacing"
                        /\ lease[j] = [gen |-> row[j].stamp.gen, driver |-> row[j].stamp.driver]
    BY DEF ClaimPinsOwner
  <2>2. Stamped(j)
    BY <2>1 DEF MRInv, ClaimedStamped
  <2>3. lease[j] = OwnerLease /\ owner.state # "replacing"
    BY <2>2 DEF MRInv, LeasesCurrent, Stamped, Rows
  <2> QED BY <2>2, <2>3 DEF Stamped, OwnerLease
<1> QED BY <1>1 DEF MRInv, RecaptureSound

\* MRInv is an invariant: whatever requests, the pump, the bridge, the coordinator and
\* restarts do, leases are of the present owner, claims carry its stamp, and what the
\* pump read of an admitted job still holds.
THEOREM RecaptureInvariant == MRSpec => []MRInv
<1>1. MRInit => MRInv
  BY InitInv
<1>2. MRInv /\ [MRNext]_mrVars => MRInv'
  BY NextInv
<1> QED BY <1>1, <1>2, PTL DEF MRSpec

\* The Browser of an admitted job is held until its cleanup is saved, claimed work pins
\* the owner of its stamp, a dispatch reaches only that owner, and a foreground attempt
\* follows an unavailable background one.
THEOREM RecaptureIsSound == MRSpec => []RecaptureSound
<1>1. MRInv => RecaptureSound
  BY SoundFromInv
<1> QED BY <1>1, RecaptureInvariant, PTL

\* A job that ended keeps its status and outcome, and an acknowledged cleanup is never
\* undone (SetMediaRecaptureCaptureCleanupState).
THEOREM EndedJobsStay == MRSpec => EndedStays
<1>1. MRInv /\ [MRNext]_mrVars =>
        [\A j \in Rows : /\ Terminal(row[j]) => /\ row'[j].status = row[j].status
                                                /\ row'[j].outcome = row[j].outcome
                         /\ row[j].cleanup = "released" => row'[j].cleanup = "released"]_mrVars
  BY NextInv DEF RowsStep, Later
<1> QED BY <1>1, RecaptureInvariant, PTL DEF MRSpec, EndedStays
=============================================================================
