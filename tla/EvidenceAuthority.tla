-------------------------- MODULE EvidenceAuthority --------------------------
(***************************************************************************)
(* The authority behind the concurrent controller's seam: the adapter      *)
(* (engine/development_concurrent_authorized_controller.go) and the        *)
(* evidence authority it owns (development_concurrent_authorization.go).   *)
(* A permit rests on a vector of evidence with a limited age; a renewal    *)
(* links a new vector to its predecessor; work is dispatched, claimed and  *)
(* completed under a chain of such links.                                  *)
(*                                                                         *)
(* A handler under mu is one step.  The clock is an input: every handler   *)
(* reads some time, which may lie before the last one read.  Evidence is   *)
(* collected between two steps; whether its identities, owners and         *)
(* revisions match the challenge is a choice of the environment.  A permit *)
(* with version 0 is the nil permit.                                       *)
(***************************************************************************)
EXTENDS Naturals, Sequences

CONSTANTS Works,        \* commands that may be dispatched
          Times,        \* clock readings
          EvidenceAge,  \* maximumEvidenceAge
          BindingAge,   \* maximumBindingAge
          MaxVersion    \* bound on the evidence versions

ASSUME AuthorityAssumption ==
  /\ Times \subseteq Nat /\ Times # {} /\ MaxVersion \in Nat
  /\ EvidenceAge \in Nat /\ BindingAge \in Nat

VARIABLES
  barrier,     \* whether a lifecycle barrier is configured
  adapter,     \* how far the adapter's Start got
  closed,      \* adapter.revoked
  closing,     \* a caller set it and is about to revoke the authority
  lastClock, policy, derivation, fence, revoked,
  permit,      \* version, expiry, fence and coverage of the current permit
  versionCoverage,  \* coverage reached by each version
  renewalLinks,     \* coverage from and to, of the link from version n to n + 1
  tickets, memorySink,
  acq          \* the acquisition that holds renewalGate

chain == <<versionCoverage, renewalLinks>>
core == <<fence, revoked, permit, tickets>>    \* what revokeLocked writes
eaVars == <<barrier, adapter, closed, closing, lastClock, policy, derivation, core, chain,
            memorySink, acq>>

Roles == {"reader", "collector"}
Coverage == [Roles -> Times]
TicketStates == {"none", "pending", "claimed", "completed", "cancelled", "invalidated"}
NoTicket == [status |-> "none", version |-> 0, fence |-> 0]
At(t) == [r \in Roles |-> t]
Origin == CHOOSE t \in Times : TRUE
NoPermit == [version |-> 0, expires |-> 0, fence |-> 0, cover |-> At(Origin)]
NoAcq == [kind |-> "none", start |-> Origin, version |-> 0, expires |-> 0, fence |-> 0, cover |-> At(Origin)]

EAInit ==
  /\ barrier \in BOOLEAN /\ policy \in BOOLEAN
  /\ adapter = "new" /\ closed = FALSE /\ closing = FALSE
  /\ lastClock \in Times /\ derivation = "none" /\ fence = 1 /\ revoked = FALSE
  /\ permit = NoPermit /\ versionCoverage = <<>> /\ renewalLinks = <<>>
  /\ tickets = [w \in Works |-> NoTicket] /\ memorySink = [w \in Works |-> <<>>] /\ acq = NoAcq

Versions == Len(versionCoverage)     \* versionCounter
Open == permit.version # 0

(***************************************************************************)
(* Revocation and the clock.                                               *)
(***************************************************************************)
Invalidated(rec) == IF rec.status = "claimed" THEN [rec EXCEPT !.status = "invalidated"] ELSE rec

\* Fault: claimed work survives the revocation.
FaultClaimsSurvive ==
  IF revoked /\ ~Open THEN UNCHANGED core
  ELSE fence' = fence + 1 /\ permit' = NoPermit /\ revoked' = TRUE /\ UNCHANGED tickets

\* Fault: the revocation can be followed by another authorization.
FaultReopens ==
  /\ fence' = fence + 1 /\ permit' = NoPermit /\ UNCHANGED revoked
  /\ tickets' = [w \in Works |-> Invalidated(tickets[w])]

revokeLocked ==
  IF revoked /\ ~Open THEN UNCHANGED core
  ELSE /\ fence' = fence + 1 /\ permit' = NoPermit /\ revoked' = TRUE
       /\ tickets' = [w \in Works |-> Invalidated(tickets[w])]

\* readClockLocked fails on a time that went back, which it does not keep, and on
\* an expired permit; either way the authority is revoked.
ClockFails(t) ==
  /\ t < lastClock \/ (Open /\ t >= permit.expires)
  /\ lastClock' = IF t < lastClock THEN lastClock ELSE t
  /\ revokeLocked

ClockReads(t) ==
  /\ t >= lastClock /\ ~(Open /\ t >= permit.expires) /\ lastClock' = t

requireCurrentPermitLocked == ~revoked /\ Open /\ policy /\ permit.fence = fence

\* An entry that only reads the clock, or that is refused after reading it: view,
\* ticketStatus, an update of the reader's windows, and every refused request.
Observe(t) ==
  /\ adapter \in {"attached", "started"}
  /\ \/ ClockFails(t)
     \/ ClockReads(t) /\ UNCHANGED core
  /\ UNCHANGED <<barrier, adapter, closed, closing, policy, derivation, chain, memorySink, acq>>

(***************************************************************************)
(* The adapter's Start.                                                    *)
(***************************************************************************)
StartBegin ==
  /\ adapter = "new" /\ ~closed /\ adapter' = "starting"
  /\ UNCHANGED <<barrier, closed, closing, lastClock, policy, derivation, core, chain, memorySink, acq>>

\* A binding or a receipt that is refused, or a revocation that came first: the
\* authority that was created is not attached.
StartFails ==
  /\ adapter = "starting" /\ adapter' = "new"
  /\ UNCHANGED <<barrier, closed, closing, lastClock, policy, derivation, core, chain, memorySink, acq>>

recordFixtureDerivation ==
  policy /\ ~revoked /\ derivation = "none" /\ derivation' = "recorded"

\* A new authority records its derivation and becomes the adapter's.
Attach(t) ==
  /\ adapter = "starting" /\ ~closed /\ ClockReads(t)
  /\ recordFixtureDerivation /\ adapter' = "attached"
  /\ UNCHANGED <<barrier, closed, closing, policy, core, chain, memorySink, acq>>

(***************************************************************************)
(* Initial authorization and renewal.                                      *)
(***************************************************************************)
Challenge(kind, t, p) ==
  [kind |-> kind, start |-> t, version |-> p.version, expires |-> p.expires, fence |-> fence,
   cover |-> IF kind = "initial" THEN At(t) ELSE p.cover]

authorize(t) ==
  /\ adapter = "attached" /\ adapter' = "started" /\ acq.kind = "none"
  /\ \/ ClockFails(t) /\ UNCHANGED acq
     \/ /\ ClockReads(t) /\ UNCHANGED core
        /\ acq' = IF policy /\ ~revoked /\ ~Open /\ Versions = 0 /\ derivation = "recorded"
                  THEN Challenge("initial", t, permit) ELSE NoAcq
  /\ UNCHANGED <<barrier, closed, closing, policy, derivation, chain, memorySink>>

renewValidated(t) ==
  /\ adapter = "started" /\ ~closed /\ acq.kind = "none" /\ Versions < MaxVersion
  /\ ClockReads(t) /\ requireCurrentPermitLocked
  /\ acq' = Challenge("renewal", t, permit)
  /\ UNCHANGED <<barrier, adapter, closed, closing, policy, derivation, core, chain, memorySink>>

snapshotCurrentLocked == ~revoked /\ fence = acq.fence
samePermitPredecessor == acq.kind = "renewal" =>
  permit.version = acq.version /\ permit.expires = acq.expires /\ permit.fence = acq.fence

\* Coverage continues the challenge's checkpoint without a gap; the reader was
\* observed before the collector, and both after the acquisition began.
validateVectorLocked(cover, t) ==
  /\ acq.start <= cover["reader"] /\ cover["reader"] <= cover["collector"] /\ cover["collector"] <= t
  /\ \A r \in Roles : acq.cover[r] <= cover[r]
  /\ t - acq.start < EvidenceAge

\* Fault: the age of the evidence is counted from its publication.
FaultDeadline(expires, t) == t < expires /\ expires <= t + EvidenceAge

\* The expiry that evidence with its own deadlines may lead to.
earliestDeadline(expires, t) == t < expires /\ expires <= acq.start + EvidenceAge

Publish(cover, expires) ==
  /\ versionCoverage' = Append(versionCoverage, cover)
  /\ renewalLinks' = IF acq.kind = "initial" THEN renewalLinks
                     ELSE Append(renewalLinks, [from |-> acq.cover, to |-> cover])
  /\ permit' = [version |-> IF acq.kind = "initial" THEN 1 ELSE acq.version + 1,
                expires |-> expires, fence |-> fence, cover |-> cover]

PublishVector(t, cover, expires) ==
  /\ acq.kind # "none" /\ ClockReads(t) /\ snapshotCurrentLocked /\ samePermitPredecessor
  /\ validateVectorLocked(cover, t) /\ t - acq.start < BindingAge /\ earliestDeadline(expires, t)
  /\ Publish(cover, expires)
  /\ derivation' = "consumed" /\ acq' = NoAcq
  /\ UNCHANGED <<barrier, adapter, closed, closing, policy, fence, revoked, tickets, memorySink>>

\* A vector that cannot be collected or is not valid revokes the authority.
\* A renewal that lost its predecessor leaves the authority as it is.
AcquisitionFails(t) ==
  /\ acq.kind # "none" /\ acq' = NoAcq
  /\ \/ ClockFails(t)
     \/ (lastClock' = lastClock \/ ClockReads(t)) /\ revokeLocked
     \/ /\ acq.kind = "renewal" /\ ClockReads(t)
        /\ ~(snapshotCurrentLocked /\ samePermitPredecessor) /\ UNCHANGED core
  /\ UNCHANGED <<barrier, adapter, closed, closing, policy, derivation, chain, memorySink>>

(***************************************************************************)
(* Work.                                                                   *)
(***************************************************************************)
\* Without a lifecycle barrier the permit's own coverage must reach the reading;
\* with one the barrier's owner decides.
acquireCoverageBarrierLocked(t) == barrier \/ \A r \in Roles : permit.cover[r] >= t

\* Every link between the two versions connects their checkpoints and advances.
validateChainLocked(from, to) ==
  /\ 0 < from /\ from <= to /\ to = permit.version /\ to <= Versions
  /\ \A v \in from..(to - 1) :
       /\ renewalLinks[v].from = versionCoverage[v] /\ renewalLinks[v].to = versionCoverage[v + 1]
       /\ \A r \in Roles : renewalLinks[v].from[r] < renewalLinks[v].to[r]

Requested(w, t) ==
  /\ adapter = "started" /\ ~closed /\ ClockReads(t)
  /\ requireCurrentPermitLocked /\ acquireCoverageBarrierLocked(t)
  /\ UNCHANGED <<barrier, adapter, closed, closing, policy, derivation, fence, revoked, permit, chain, acq>>

dispatch(w, t) ==
  /\ Requested(w, t) /\ tickets[w].status = "none"
  /\ validateChainLocked(permit.version, permit.version)
  /\ tickets' = [tickets EXCEPT ![w] = [status |-> "pending", version |-> permit.version, fence |-> fence]]
  /\ UNCHANGED memorySink

claimWithCommit(w, t) ==
  /\ Requested(w, t) /\ tickets[w].status = "pending"
  /\ validateChainLocked(tickets[w].version, permit.version)
  /\ tickets' = [tickets EXCEPT ![w].status = "claimed"]
  /\ UNCHANGED memorySink

\* The sink keeps, with the result, when and under which version it was accepted.
completeWithCommit(w, t) ==
  /\ Requested(w, t) /\ tickets[w].status = "claimed" /\ tickets[w].fence = fence
  /\ validateChainLocked(tickets[w].version, permit.version)
  /\ tickets' = [tickets EXCEPT ![w].status = "completed"]
  /\ memorySink' = [memorySink EXCEPT ![w] = Append(@, [at |-> t, version |-> permit.version])]

\* Cancelling needs no permit; it may be refused by a failing clock (Observe).
cancelWithCommit(w, t) ==
  /\ adapter = "started" /\ ~closed /\ ClockReads(t)
  /\ tickets[w].status \in {"pending", "claimed", "invalidated"}
  /\ tickets' = [tickets EXCEPT ![w].status = "cancelled"]
  /\ UNCHANGED <<barrier, adapter, closed, closing, policy, derivation, fence, revoked, permit, chain, memorySink, acq>>

(***************************************************************************)
(* What ends the authority.                                                *)
(***************************************************************************)
\* Revoke, PolicyChanged and OwnerChanged close the adapter first; an authority
\* that is attached is told afterwards.
AdapterCloses ==
  /\ ~closing /\ closed' = TRUE /\ closing' = (adapter \in {"attached", "started"})
  /\ UNCHANGED <<barrier, adapter, lastClock, policy, derivation, core, chain, memorySink, acq>>

\* revoke, ownerDrift, readerLost; policyChanged and optOut also set the policy.
AuthorityRevoked ==
  /\ closing /\ closing' = FALSE /\ revokeLocked
  /\ policy' \in BOOLEAN
  /\ UNCHANGED <<barrier, adapter, closed, lastClock, derivation, chain, memorySink, acq>>

\* A lifecycle barrier that does not cover the reading.
check(t) ==
  /\ adapter = "started" /\ ~closed /\ barrier /\ ClockReads(t) /\ requireCurrentPermitLocked
  /\ revokeLocked
  /\ UNCHANGED <<barrier, adapter, closed, closing, policy, derivation, chain, memorySink, acq>>

\* The last window of the reader is gone.
updateReaderWindows(t) ==
  /\ adapter \in {"attached", "started"} /\ ~closed /\ ClockReads(t) /\ revokeLocked
  /\ UNCHANGED <<barrier, adapter, closed, closing, policy, derivation, chain, memorySink, acq>>

EANext ==
  \/ StartBegin \/ StartFails \/ AdapterCloses \/ AuthorityRevoked
  \/ \E t \in Times :
       \/ Observe(t) \/ Attach(t) \/ authorize(t) \/ renewValidated(t)
       \/ AcquisitionFails(t) \/ check(t) \/ updateReaderWindows(t)
       \/ \E cover \in Coverage, expires \in Times : PublishVector(t, cover, expires)
       \/ \E w \in Works : dispatch(w, t) \/ claimWithCommit(w, t) \/ completeWithCommit(w, t)
                           \/ cancelWithCommit(w, t)

EASpec == EAInit /\ [][EANext]_eaVars

(***************************************************************************)
(* Properties.                                                             *)
(***************************************************************************)
PermitType == [version : Nat, expires : Nat, fence : Nat, cover : Coverage]

\* The types of the adapter's and the authority's state.
EATypeOK ==
  /\ barrier \in BOOLEAN /\ policy \in BOOLEAN /\ closed \in BOOLEAN /\ closing \in BOOLEAN
  /\ adapter \in {"new", "starting", "attached", "started"} /\ lastClock \in Times
  /\ derivation \in {"none", "recorded", "consumed"} /\ fence \in Nat /\ revoked \in BOOLEAN
  /\ permit \in PermitType
  /\ versionCoverage \in Seq(Coverage) /\ renewalLinks \in Seq([from : Coverage, to : Coverage])
  /\ tickets \in [Works -> [status : TicketStates, version : Nat, fence : Nat]]
  /\ memorySink \in [Works -> Seq([at : Times, version : Nat])]
  /\ acq \in [kind : {"none", "initial", "renewal"}, start : Times, version : Nat, expires : Nat,
              fence : Nat, cover : Coverage]

\* A permit never outlives the evidence it rests on: however many renewals are
\* chained, it ends within the evidence age of what was last observed of a role.
PermitFresh == Open => \A r \in Roles : permit.expires <= permit.cover[r] + EvidenceAge

\* A revocation is final: no acquisition under way publishes after it, and it
\* leaves no claimed work.
RevokedForGood == revoked => ~Open /\ \A w \in Works : tickets[w].status # "claimed"

\* The versions of a permit are one chain: each link goes from the checkpoint of
\* its version to that of the next, none backwards, and the last is the permit's.
ChainContiguous ==
  /\ Open => permit.version = Versions /\ permit.cover = versionCoverage[Versions]
  /\ Len(renewalLinks) = (IF Versions = 0 THEN 0 ELSE Versions - 1)
  /\ \A v \in 1..Len(renewalLinks) :
       /\ renewalLinks[v].from = versionCoverage[v] /\ renewalLinks[v].to = versionCoverage[v + 1]
       /\ \A r \in Roles : renewalLinks[v].from[r] <= renewalLinks[v].to[r]

\* A result was accepted at most once, and the evidence spans from the version its
\* ticket was dispatched under to its acceptance, advancing at every renewal.
Accepted(w) ==
  LET end == memorySink[w][1] IN
  /\ Len(memorySink[w]) = 1
  /\ 0 < tickets[w].version /\ tickets[w].version <= end.version /\ end.version <= Versions
  /\ \A v \in tickets[w].version..(end.version - 1) :
       \A r \in Roles : versionCoverage[v][r] < versionCoverage[v + 1][r]
  /\ ~barrier => \A r \in Roles : versionCoverage[end.version][r] >= end.at
CompletedCovered ==
  \A w \in Works : IF tickets[w].status = "completed" THEN Accepted(w) ELSE memorySink[w] = <<>>

\* The seam the controller is built on.
authorityState == IF revoked \/ (closed /\ adapter \in {"new", "starting"}) THEN "revoked"
                  ELSE IF Open THEN "open" ELSE "new"
Seam == INSTANCE AuthoritySeam WITH authority <- authorityState,
                                    ticket <- [w \in Works |-> tickets[w].status]

\* The adapter and its authority implement what the controller relies on.
ImplementsSeam == Seam!SeamSpec

\* The evidence behind a permit: fresh for every role, in one gapless chain of
\* versions, which covers each completed command.
EvidenceSound == EATypeOK /\ PermitFresh /\ ChainContiguous /\ CompletedCovered
=============================================================================
