----------------------- MODULE EvidenceAuthorityProofs -----------------------
(***************************************************************************)
(* What EvidenceAuthority guarantees for every set of commands, every      *)
(* clock, every maximum age and every number of renewals: the properties   *)
(* its run checks, and that it implements AuthoritySeam.                    *)
(***************************************************************************)
EXTENDS EvidenceAuthority, TLAPS

\* An acquisition belongs to a started adapter; a renewal remembers the coverage
\* of the version it started from, an initial one comes before any version.
AcqInv ==
  /\ acq.kind # "none" => adapter = "started"
  /\ acq.kind = "initial" => Versions = 0
  /\ acq.kind = "renewal" => /\ acq.version \in 1..Versions
                             /\ acq.cover = versionCoverage[acq.version]

\* Before the adapter started nothing is open and nothing claimed.
StartInv ==
  /\ Open => adapter = "started"
  /\ adapter \in {"new", "starting"} => \A w \in Works : tickets[w].status # "claimed"

EAInv == EATypeOK /\ AcqInv /\ StartInv /\ PermitFresh /\ RevokedForGood /\ ChainContiguous
         /\ CompletedCovered

-----------------------------------------------------------------------------
(* Types.                                                                   *)

LEMMA OriginIsTime == Origin \in Times
BY AuthorityAssumption DEF Origin

LEMMA NilTypes == /\ NoPermit \in PermitType
                  /\ NoAcq \in [kind : {"none", "initial", "renewal"}, start : Times, version : Nat,
                                expires : Nat, fence : Nat, cover : Coverage]
BY OriginIsTime DEF NoPermit, NoAcq, PermitType, Coverage, At

\* What revokeLocked and a failing clock do to the types.
LEMMA RevokeTypes ==
  ASSUME EATypeOK, revokeLocked
  PROVE  /\ fence' \in Nat /\ revoked' \in BOOLEAN /\ permit' \in PermitType
         /\ tickets' \in [Works -> [status : TicketStates, version : Nat, fence : Nat]]
<1>1. CASE revoked /\ ~Open
  BY <1>1 DEF revokeLocked, core, EATypeOK
<1>2. CASE ~(revoked /\ ~Open)
  <2>1. /\ fence' = fence + 1 /\ permit' = NoPermit /\ revoked' = TRUE
        /\ tickets' = [w \in Works |-> Invalidated(tickets[w])]
    BY <1>2 DEF revokeLocked
  <2>2. ASSUME NEW w \in Works
        PROVE  Invalidated(tickets[w]) \in [status : TicketStates, version : Nat, fence : Nat]
    <3>1. tickets[w] \in [status : TicketStates, version : Nat, fence : Nat]
      BY DEF EATypeOK
    <3> QED BY <3>1 DEF Invalidated, TicketStates
  <2> QED BY <2>1, <2>2, NilTypes DEF EATypeOK
<1> QED BY <1>1, <1>2

LEMMA ClockTypes ==
  ASSUME EATypeOK, NEW t \in Times, ClockFails(t) \/ ClockReads(t)
  PROVE  lastClock' \in Times
BY DEF EATypeOK, ClockFails, ClockReads

LEMMA ChallengeTypes ==
  ASSUME EATypeOK, NEW t \in Times, NEW k \in {"initial", "renewal"}
  PROVE  Challenge(k, t, permit) \in
           [kind : {"none", "initial", "renewal"}, start : Times, version : Nat,
            expires : Nat, fence : Nat, cover : Coverage]
BY DEF EATypeOK, Challenge, PermitType, Coverage, At

LEMMA InitInv == EAInit => EAInv
<1> SUFFICES ASSUME EAInit PROVE EAInv
  OBVIOUS
<1>1. EATypeOK
  <2>1. NoTicket \in [status : TicketStates, version : Nat, fence : Nat]
    BY DEF NoTicket, TicketStates
  <2>2. tickets \in [Works -> [status : TicketStates, version : Nat, fence : Nat]]
    BY <2>1 DEF EAInit
  <2>3. memorySink \in [Works -> Seq([at : Times, version : Nat])]
    BY DEF EAInit
  <2>4. versionCoverage \in Seq(Coverage) /\ renewalLinks \in Seq([from : Coverage, to : Coverage])
    BY DEF EAInit
  <2> QED BY <2>2, <2>3, <2>4, NilTypes DEF EAInit, EATypeOK
<1>2. Versions = 0 /\ ~Open /\ acq.kind = "none"
  BY DEF EAInit, Versions, Open, NoPermit, NoAcq
<1>3. \A w \in Works : tickets[w].status = "none" /\ memorySink[w] = <<>>
  BY DEF EAInit, NoTicket
<1>4. CompletedCovered
  BY <1>3 DEF CompletedCovered
<1>5. ChainContiguous
  BY <1>2 DEF ChainContiguous, EAInit
<1> QED BY <1>1, <1>2, <1>3, <1>4, <1>5 DEF EAInv, AcqInv, StartInv, PermitFresh, RevokedForGood, EAInit

LEMMA PublishTypes ==
  ASSUME EATypeOK, NEW cover \in Coverage, NEW expires \in Times, Publish(cover, expires)
  PROVE  /\ versionCoverage' \in Seq(Coverage)
         /\ renewalLinks' \in Seq([from : Coverage, to : Coverage])
         /\ permit' \in PermitType
<1>1. expires \in Nat /\ acq.version + 1 \in Nat /\ fence \in Nat /\ acq.cover \in Coverage
  BY AuthorityAssumption DEF EATypeOK
<1>2. permit' \in PermitType
  BY <1>1 DEF Publish, PermitType
<1>3. versionCoverage' \in Seq(Coverage)
  BY DEF Publish, EATypeOK
<1>4. renewalLinks' \in Seq([from : Coverage, to : Coverage])
  <2>1. [from |-> acq.cover, to |-> cover] \in [from : Coverage, to : Coverage]
    BY <1>1
  <2>2. renewalLinks' = renewalLinks \/ renewalLinks' = Append(renewalLinks, [from |-> acq.cover, to |-> cover])
    BY DEF Publish
  <2>3. renewalLinks \in Seq([from : Coverage, to : Coverage])
    BY DEF EATypeOK
  <2>4. Append(renewalLinks, [from |-> acq.cover, to |-> cover]) \in Seq([from : Coverage, to : Coverage])
    BY <2>1, <2>3
  <2> QED BY <2>2, <2>3, <2>4
<1> QED BY <1>2, <1>3, <1>4

LEMMA TypeStep == EATypeOK /\ [EANext]_eaVars => EATypeOK'
<1> SUFFICES ASSUME EATypeOK, [EANext]_eaVars PROVE EATypeOK'
  OBVIOUS
<1>1. CASE StartBegin \/ StartFails
  BY <1>1 DEF StartBegin, StartFails, EATypeOK, core, chain
<1>12. CASE AdapterCloses
  <2>1. closing' \in BOOLEAN /\ closed' \in BOOLEAN
    BY <1>12 DEF AdapterCloses
  <2> QED BY <1>12, <2>1 DEF AdapterCloses, EATypeOK, core, chain
<1>2. CASE AuthorityRevoked
  BY <1>2, RevokeTypes DEF AuthorityRevoked, EATypeOK, chain
<1>3. ASSUME NEW t \in Times, Observe(t) PROVE EATypeOK'
  <2>1. lastClock' \in Times
    BY <1>3, ClockTypes DEF Observe
  <2>2. UNCHANGED core \/ revokeLocked
    BY <1>3 DEF Observe, ClockFails
  <2>3. /\ fence' \in Nat /\ revoked' \in BOOLEAN /\ permit' \in PermitType
        /\ tickets' \in [Works -> [status : TicketStates, version : Nat, fence : Nat]]
    BY <2>2, RevokeTypes DEF core, EATypeOK
  <2> QED BY <1>3, <2>1, <2>3 DEF Observe, EATypeOK, chain
<1>4. ASSUME NEW t \in Times, Attach(t) PROVE EATypeOK'
  <2>1. lastClock' \in Times /\ derivation' = "recorded" /\ adapter' = "attached"
    BY <1>4, ClockTypes DEF Attach, recordFixtureDerivation
  <2> QED BY <1>4, <2>1 DEF Attach, EATypeOK, core, chain
<1>5. ASSUME NEW t \in Times, authorize(t) PROVE EATypeOK'
  <2>1. acq' = acq \/ acq' = NoAcq \/ acq' = Challenge("initial", t, permit)
    BY <1>5 DEF authorize
  <2>2. acq' \in [kind : {"none", "initial", "renewal"}, start : Times, version : Nat,
                  expires : Nat, fence : Nat, cover : Coverage]
    <3>1. CASE acq' = acq
      BY <3>1 DEF EATypeOK
    <3>2. CASE acq' = NoAcq
      BY <3>2, NilTypes
    <3>3. CASE acq' = Challenge("initial", t, permit)
      BY <3>3, ChallengeTypes
    <3> QED BY <2>1, <3>1, <3>2, <3>3
  <2>3. CASE ClockFails(t)
    BY <1>5, <2>2, <2>3, RevokeTypes, ClockTypes DEF authorize, ClockFails, EATypeOK, chain
  <2>4. CASE ClockReads(t) /\ UNCHANGED core
    BY <1>5, <2>2, <2>4, ClockTypes DEF authorize, EATypeOK, core, chain
  <2> QED BY <1>5, <2>3, <2>4 DEF authorize
<1>6. ASSUME NEW t \in Times, renewValidated(t) PROVE EATypeOK'
  BY <1>6, ChallengeTypes, ClockTypes DEF renewValidated, EATypeOK, core, chain
<1>7. ASSUME NEW t \in Times, NEW cover \in Coverage, NEW expires \in Times,
             PublishVector(t, cover, expires) PROVE EATypeOK'
  BY <1>7, PublishTypes, ClockTypes, NilTypes DEF PublishVector, EATypeOK
<1>8. ASSUME NEW t \in Times, AcquisitionFails(t) PROVE EATypeOK'
  <2>1. lastClock' \in Times
    BY <1>8, ClockTypes DEF AcquisitionFails, EATypeOK
  <2>2. CASE revokeLocked
    BY <1>8, <2>1, <2>2, RevokeTypes, NilTypes DEF AcquisitionFails, EATypeOK, chain
  <2>3. CASE UNCHANGED core
    BY <1>8, <2>1, <2>3, NilTypes DEF AcquisitionFails, EATypeOK, core, chain
  <2> QED BY <1>8, <2>2, <2>3 DEF AcquisitionFails, ClockFails
<1>9. ASSUME NEW t \in Times, check(t) \/ updateReaderWindows(t) PROVE EATypeOK'
  BY <1>9, RevokeTypes, ClockTypes DEF check, updateReaderWindows, EATypeOK, chain
<1>10. ASSUME NEW t \in Times, NEW w \in Works,
              dispatch(w, t) \/ claimWithCommit(w, t) \/ completeWithCommit(w, t) \/ cancelWithCommit(w, t)
       PROVE  EATypeOK'
  <2> DEFINE Ticket == [status : TicketStates, version : Nat, fence : Nat]
  <2>4. tickets \in [Works -> Ticket] /\ tickets[w] \in Ticket
    BY DEF EATypeOK
  <2>5. ASSUME NEW s \in TicketStates PROVE [tickets[w] EXCEPT !.status = s] \in Ticket
    BY <2>4
  <2>6. [status |-> "pending", version |-> permit.version, fence |-> fence] \in Ticket
    BY DEF EATypeOK, PermitType, TicketStates
  <2>7. \E x \in Ticket : tickets' = [tickets EXCEPT ![w] = x]
    <3>1. CASE dispatch(w, t)
      BY <3>1, <2>6 DEF dispatch
    <3>2. CASE claimWithCommit(w, t)
      BY <3>2, <2>5 DEF claimWithCommit, TicketStates
    <3>3. CASE completeWithCommit(w, t)
      BY <3>3, <2>5 DEF completeWithCommit, TicketStates
    <3>4. CASE cancelWithCommit(w, t)
      BY <3>4, <2>5 DEF cancelWithCommit, TicketStates
    <3> QED BY <1>10, <3>1, <3>2, <3>3, <3>4
  <2>1. tickets' \in [Works -> Ticket]
    BY <2>4, <2>7
  <2>2. memorySink' \in [Works -> Seq([at : Times, version : Nat])]
    <3>1. memorySink[w] \in Seq([at : Times, version : Nat])
      BY DEF EATypeOK
    <3>2. [at |-> t, version |-> permit.version] \in [at : Times, version : Nat]
      BY DEF EATypeOK, PermitType
    <3>3. Append(memorySink[w], [at |-> t, version |-> permit.version]) \in Seq([at : Times, version : Nat])
      BY <3>1, <3>2
    <3>4. \/ memorySink' = memorySink
          \/ memorySink' = [memorySink EXCEPT ![w] = Append(memorySink[w], [at |-> t, version |-> permit.version])]
      BY <1>10 DEF dispatch, claimWithCommit, completeWithCommit, cancelWithCommit
    <3> QED BY <3>3, <3>4 DEF EATypeOK
  <2>3. lastClock' \in Times
    BY <1>10, ClockTypes DEF dispatch, claimWithCommit, completeWithCommit, cancelWithCommit, Requested
  <2> QED BY <1>10, <2>1, <2>2, <2>3
          DEF dispatch, claimWithCommit, completeWithCommit, cancelWithCommit, Requested, EATypeOK, chain
<1>11. CASE UNCHANGED eaVars
  BY <1>11 DEF eaVars, core, chain, EATypeOK
<1> QED BY <1>1, <1>2, <1>3, <1>4, <1>5, <1>6, <1>7, <1>8, <1>9, <1>10, <1>11, <1>12
      DEF EANext

-----------------------------------------------------------------------------
(* What a step does to the evidence: nothing, a revocation, a publication, or *)
(* a move of one command.                                                   *)

Rests == UNCHANGED <<core, chain, memorySink>>
Revokes == revokeLocked /\ UNCHANGED <<chain, memorySink>>
Publishes == \E t \in Times, cover \in Coverage, expires \in Times : PublishVector(t, cover, expires)
Moves(w, t) == dispatch(w, t) \/ claimWithCommit(w, t) \/ completeWithCommit(w, t) \/ cancelWithCommit(w, t)

LEMMA StepKinds ==
  ASSUME [EANext]_eaVars
  PROVE  Rests \/ Revokes \/ Publishes \/ \E w \in Works, t \in Times : Moves(w, t)
<1>1. CASE StartBegin \/ StartFails \/ AdapterCloses
  BY <1>1 DEF StartBegin, StartFails, AdapterCloses, Rests
<1>2. CASE AuthorityRevoked
  BY <1>2 DEF AuthorityRevoked, Revokes
<1>3. ASSUME NEW t \in Times, Observe(t) \/ authorize(t) PROVE Rests \/ Revokes
  BY <1>3 DEF Observe, authorize, ClockFails, Rests, Revokes
<1>4. ASSUME NEW t \in Times, Attach(t) \/ renewValidated(t) PROVE Rests
  BY <1>4 DEF Attach, renewValidated, Rests
<1>5. ASSUME NEW t \in Times, AcquisitionFails(t) PROVE Rests \/ Revokes
  BY <1>5 DEF AcquisitionFails, ClockFails, Rests, Revokes
<1>6. ASSUME NEW t \in Times, check(t) \/ updateReaderWindows(t) PROVE Revokes
  BY <1>6 DEF check, updateReaderWindows, Revokes
<1>7. CASE UNCHANGED eaVars
  BY <1>7 DEF eaVars, Rests
<1> QED BY <1>1, <1>2, <1>3, <1>4, <1>5, <1>6, <1>7 DEF EANext, Publishes, Moves

LEMMA InvalidatedOnly ==
  ASSUME NEW rec
  PROVE  /\ rec.status # "claimed" => Invalidated(rec) = rec
         /\ rec.status = "claimed" => Invalidated(rec) = [rec EXCEPT !.status = "invalidated"]
BY DEF Invalidated

\* A revocation closes the permit, ends claimed work and touches no other.
LEMMA RevokeEffect ==
  ASSUME EATypeOK, RevokedForGood, revokeLocked
  PROVE  /\ revoked' /\ ~Open'
         /\ \A w \in Works : /\ tickets[w].status # "claimed" => tickets'[w] = tickets[w]
                             /\ tickets[w].status = "claimed" => tickets'[w].status = "invalidated"
<1>1. CASE revoked /\ ~Open
  BY <1>1 DEF revokeLocked, core, RevokedForGood, Open
<1>2. CASE ~(revoked /\ ~Open)
  <2>1. /\ permit' = NoPermit /\ revoked'
        /\ \A w \in Works : tickets'[w] = Invalidated(tickets[w])
    BY <1>2 DEF revokeLocked
  <2>2. ~Open'
    BY <2>1 DEF Open, NoPermit
  <2>3. ASSUME NEW w \in Works, tickets[w].status = "claimed"
        PROVE  tickets'[w].status = "invalidated"
    <3>1. tickets[w] \in [status : TicketStates, version : Nat, fence : Nat]
      BY DEF EATypeOK
    <3>2. tickets'[w] = [tickets[w] EXCEPT !.status = "invalidated"]
      BY <2>1, <2>3 DEF Invalidated
    <3> QED BY <3>1, <3>2
  <2>4. ASSUME NEW w \in Works, tickets[w].status # "claimed"
        PROVE  tickets'[w] = tickets[w]
    BY <2>1, <2>4 DEF Invalidated
  <2> QED BY <2>1, <2>2, <2>3, <2>4
<1> QED BY <1>1, <1>2

\* A command moves along its states, one at a time, and only under a permit,
\* except for a cancellation.
LEMMA MoveEffect ==
  ASSUME EATypeOK, NEW w \in Works, NEW t \in Times, Moves(w, t)
  PROVE  /\ UNCHANGED <<fence, revoked, permit, chain>>
         /\ \A v \in Works \ {w} : tickets'[v] = tickets[v] /\ memorySink'[v] = memorySink[v]
         /\ \/ /\ requireCurrentPermitLocked
               /\ \/ tickets[w].status = "none" /\ tickets'[w].status = "pending"
                  \/ tickets[w].status = "pending" /\ tickets'[w].status = "claimed"
               /\ memorySink'[w] = memorySink[w]
            \/ /\ requireCurrentPermitLocked /\ acquireCoverageBarrierLocked(t)
               /\ tickets[w].status = "claimed" /\ tickets'[w].status = "completed"
               /\ tickets'[w].version = tickets[w].version
               /\ validateChainLocked(tickets[w].version, permit.version)
               /\ memorySink'[w] = Append(memorySink[w], [at |-> t, version |-> permit.version])
            \/ /\ tickets[w].status \in {"pending", "claimed", "invalidated"}
               /\ tickets'[w].status = "cancelled" /\ memorySink'[w] = memorySink[w]
<1>1. tickets \in [Works -> [status : TicketStates, version : Nat, fence : Nat]]
      /\ tickets[w] \in [status : TicketStates, version : Nat, fence : Nat]
      /\ memorySink \in [Works -> Seq([at : Times, version : Nat])]
  BY DEF EATypeOK
<1>2. CASE dispatch(w, t)
  BY <1>1, <1>2 DEF dispatch, Requested
<1>3. CASE claimWithCommit(w, t)
  <2>1. tickets'[w] = [tickets[w] EXCEPT !.status = "claimed"]
    BY <1>1, <1>3 DEF claimWithCommit
  <2> QED BY <1>1, <1>3, <2>1 DEF claimWithCommit, Requested
<1>4. CASE completeWithCommit(w, t)
  <2>1. tickets'[w] = [tickets[w] EXCEPT !.status = "completed"]
    BY <1>1, <1>4 DEF completeWithCommit
  <2>2. memorySink'[w] = Append(memorySink[w], [at |-> t, version |-> permit.version])
    BY <1>1, <1>4 DEF completeWithCommit
  <2> QED BY <1>1, <1>4, <2>1, <2>2 DEF completeWithCommit, Requested
<1>5. CASE cancelWithCommit(w, t)
  <2>1. tickets'[w] = [tickets[w] EXCEPT !.status = "cancelled"]
    BY <1>1, <1>5 DEF cancelWithCommit
  <2> QED BY <1>1, <1>5, <2>1 DEF cancelWithCommit
<1> QED BY <1>2, <1>3, <1>4, <1>5 DEF Moves

-----------------------------------------------------------------------------
(* The invariant, one conjunct at a time.                                   *)

LEMMA RevokedStep == EAInv /\ [EANext]_eaVars => RevokedForGood'
<1> SUFFICES ASSUME EAInv, [EANext]_eaVars PROVE RevokedForGood'
  OBVIOUS
<1>1. CASE Rests
  BY <1>1 DEF Rests, core, EAInv, RevokedForGood, Open
<1>2. CASE Revokes
  <2>1. ASSUME NEW w \in Works PROVE tickets'[w].status # "claimed"
    BY <1>2, RevokeEffect DEF EAInv, Revokes
  <2> QED BY <1>2, <2>1, RevokeEffect DEF EAInv, Revokes, RevokedForGood
<1>3. CASE Publishes
  BY <1>3 DEF Publishes, PublishVector, snapshotCurrentLocked, RevokedForGood
<1>4. ASSUME NEW w \in Works, NEW t \in Times, Moves(w, t) PROVE RevokedForGood'
  <2> SUFFICES ASSUME revoked' PROVE ~Open' /\ \A v \in Works : tickets'[v].status # "claimed"
    BY DEF RevokedForGood
  <2>1. revoked /\ UNCHANGED permit /\ ~requireCurrentPermitLocked
    BY <1>4, MoveEffect DEF EAInv, requireCurrentPermitLocked
  <2>2. ~Open' /\ \A v \in Works : tickets[v].status # "claimed"
    BY <2>1 DEF EAInv, RevokedForGood, Open
  <2>3. \A v \in Works \ {w} : tickets'[v] = tickets[v]
    BY <1>4, MoveEffect DEF EAInv
  <2>4. tickets'[w].status = "cancelled"
    BY <1>4, <2>1, MoveEffect DEF EAInv
  <2> QED BY <2>2, <2>3, <2>4
<1> QED BY <1>1, <1>2, <1>3, <1>4, StepKinds

LEMMA FreshStep == EAInv /\ [EANext]_eaVars => PermitFresh'
<1> SUFFICES ASSUME EAInv, [EANext]_eaVars PROVE PermitFresh'
  OBVIOUS
<1>1. CASE UNCHANGED permit
  BY <1>1 DEF EAInv, PermitFresh, Open
<1>2. CASE Revokes
  BY <1>2, RevokeEffect DEF EAInv, Revokes, PermitFresh
<1>3. ASSUME NEW t \in Times, NEW cover \in Coverage, NEW expires \in Times,
             PublishVector(t, cover, expires) PROVE PermitFresh'
  <2>1. permit'.cover = cover /\ permit'.expires = expires
    BY <1>3 DEF PublishVector, Publish
  <2>2. /\ acq.start \in Nat /\ expires \in Nat /\ EvidenceAge \in Nat
        /\ cover["reader"] \in Nat /\ cover["collector"] \in Nat
    BY AuthorityAssumption DEF EAInv, EATypeOK, Coverage, Roles
  <2>3. acq.start <= cover["reader"] /\ cover["reader"] <= cover["collector"]
        /\ expires <= acq.start + EvidenceAge
    BY <1>3 DEF PublishVector, validateVectorLocked, earliestDeadline
  <2>4. \A r \in Roles : expires <= cover[r] + EvidenceAge
    BY <2>2, <2>3 DEF Roles
  <2> QED BY <2>1, <2>4 DEF PermitFresh
<1>4. ASSUME NEW w \in Works, NEW t \in Times, Moves(w, t) PROVE UNCHANGED permit
  BY <1>4, MoveEffect DEF EAInv
<1>5. Rests => UNCHANGED permit
  BY DEF Rests, core
<1> QED BY <1>1, <1>2, <1>3, <1>4, <1>5, StepKinds DEF Publishes

\* The versions change in a publication only; the adapter never goes back behind
\* its start, and only started adapters move work.
LEMMA AdapterEffect ==
  ASSUME [EANext]_eaVars
  PROVE  /\ adapter = "started" => adapter' = "started"
         /\ adapter' \in {"new", "starting"} => adapter \in {"new", "starting"}
         /\ (\E w \in Works, t \in Times : Moves(w, t)) => adapter = "started"
         /\ Publishes => acq.kind # "none" /\ adapter' = adapter
<1>1. CASE UNCHANGED eaVars
  <2>1. UNCHANGED <<adapter, acq, tickets, versionCoverage>>
    BY <1>1 DEF eaVars, core, chain
  <2>2. (\E w \in Works, t \in Times : Moves(w, t)) => adapter = "started"
    BY DEF Moves, dispatch, claimWithCommit, completeWithCommit, cancelWithCommit, Requested
  <2>3. Publishes => acq.kind # "none" /\ adapter' = adapter
    BY DEF Publishes, PublishVector
  <2> QED BY <2>1, <2>2, <2>3
<1>2. CASE EANext
  <2>1. adapter' = adapter \/ <<adapter, adapter'>> \in {<<"new", "starting">>, <<"starting", "new">>,
                                   <<"starting", "attached">>, <<"attached", "started">>}
    BY <1>2 DEF EANext, StartBegin, StartFails, AdapterCloses, AuthorityRevoked, Observe, Attach,
         authorize, renewValidated, AcquisitionFails, check, updateReaderWindows, PublishVector,
         dispatch, claimWithCommit, completeWithCommit, cancelWithCommit, Requested
  <2>2. (\E w \in Works, t \in Times : Moves(w, t)) => adapter = "started"
    BY DEF Moves, dispatch, claimWithCommit, completeWithCommit, cancelWithCommit, Requested
  <2>3. Publishes => acq.kind # "none" /\ adapter' = adapter
    BY DEF Publishes, PublishVector
  <2> QED BY <2>1, <2>2, <2>3
<1> QED BY <1>1, <1>2

LEMMA StartStep == EAInv /\ [EANext]_eaVars => StartInv'
<1> SUFFICES ASSUME EAInv, [EANext]_eaVars PROVE StartInv'
  OBVIOUS
<1>1. CASE Rests
  BY <1>1, AdapterEffect DEF Rests, core, EAInv, StartInv, Open
<1>2. CASE Revokes
  <2>1. ASSUME NEW w \in Works PROVE tickets'[w].status # "claimed"
    BY <1>2, RevokeEffect DEF EAInv, Revokes
  <2> QED BY <1>2, <2>1, RevokeEffect DEF EAInv, Revokes, StartInv
<1>3. CASE Publishes
  <2>1. adapter' = "started"
    BY <1>3, AdapterEffect DEF EAInv, AcqInv
  <2> QED BY <2>1 DEF StartInv
<1>4. CASE \E w \in Works, t \in Times : Moves(w, t)
  <2>1. adapter' = "started"
    BY <1>4, AdapterEffect
  <2> QED BY <2>1 DEF StartInv
<1> QED BY <1>1, <1>2, <1>3, <1>4, StepKinds

LEMMA AcqStep == EAInv /\ [EANext]_eaVars => AcqInv'
<1> SUFFICES ASSUME EAInv, [EANext]_eaVars PROVE AcqInv'
  OBVIOUS
<1>1. CASE UNCHANGED <<acq, chain>>
  BY <1>1, AdapterEffect DEF chain, EAInv, AcqInv, Versions
<1>2. CASE acq'.kind = "none"
  BY <1>2 DEF AcqInv
<1>3. ASSUME NEW t \in Times, authorize(t) PROVE AcqInv'
  <2>1. CASE acq' = Challenge("initial", t, permit)
    <3>1. acq'.kind = "initial" /\ adapter' = "started"
      BY <1>3, <2>1 DEF Challenge, authorize
    <3>2. CASE Versions = 0
      BY <1>3, <3>1, <3>2 DEF authorize, AcqInv, Versions, chain
    <3>3. CASE Versions # 0
      BY <1>1, <1>2, <1>3, <3>3 DEF authorize, NoAcq, chain
    <3> QED BY <3>2, <3>3
  <2>2. CASE acq' = NoAcq
    BY <1>2, <2>2 DEF NoAcq
  <2>3. CASE UNCHANGED acq
    BY <1>1, <1>3, <2>3 DEF authorize
  <2> QED BY <1>3, <2>1, <2>2, <2>3 DEF authorize
<1>4. ASSUME NEW t \in Times, renewValidated(t) PROVE AcqInv'
  <2>1. acq' = Challenge("renewal", t, permit) /\ Open /\ adapter' = "started" /\ UNCHANGED chain
    BY <1>4 DEF renewValidated, requireCurrentPermitLocked
  <2>2. acq'.kind = "renewal" /\ acq'.version = permit.version /\ acq'.cover = permit.cover
    BY <2>1 DEF Challenge
  <2>3. permit.version = Versions /\ permit.cover = versionCoverage[Versions] /\ permit.version \in Nat
    BY <2>1 DEF EAInv, ChainContiguous, EATypeOK, PermitType
  <2>4. permit.version \in 1..Versions
    BY <2>1, <2>3 DEF Open
  <2> QED BY <2>1, <2>2, <2>3, <2>4 DEF AcqInv, Versions, chain
<1>5. CASE EANext
  <2>1. ASSUME NEW t \in Times, NEW w \in Works, Moves(w, t) PROVE UNCHANGED <<acq, chain>>
    BY <2>1 DEF Moves, dispatch, claimWithCommit, completeWithCommit, cancelWithCommit, Requested
  <2>2. \/ UNCHANGED <<acq, chain>> \/ acq'.kind = "none"
        \/ \E t \in Times : authorize(t) \/ renewValidated(t)
    BY <1>5, <2>1 DEF EANext, StartBegin, StartFails, AdapterCloses, AuthorityRevoked, Observe,
         Attach, AcquisitionFails, check, updateReaderWindows, PublishVector, NoAcq, Moves
  <2> QED BY <1>1, <1>2, <1>3, <1>4, <2>2
<1>6. CASE UNCHANGED eaVars
  BY <1>1, <1>6 DEF eaVars
<1> QED BY <1>5, <1>6

-----------------------------------------------------------------------------
(* The chain of versions and the results it covers.                         *)

\* A publication appends a version, and for a renewal the link to it.
LEMMA PublishEffect ==
  ASSUME EAInv, NEW t \in Times, NEW cover \in Coverage, NEW expires \in Times,
         PublishVector(t, cover, expires)
  PROVE  /\ Versions \in Nat /\ Versions' = Versions + 1
         /\ versionCoverage'[Versions + 1] = cover
         /\ \A v \in 1..Versions : versionCoverage'[v] = versionCoverage[v]
         /\ permit'.version = Versions + 1 /\ permit'.cover = cover
         /\ IF Versions = 0 THEN renewalLinks' = renewalLinks
            ELSE /\ renewalLinks' = Append(renewalLinks, [from |-> versionCoverage[Versions], to |-> cover])
                 /\ \A r \in Roles : versionCoverage[Versions][r] <= cover[r]
<1>1. /\ versionCoverage \in Seq(Coverage) /\ Versions = Len(versionCoverage) /\ Versions \in Nat
      /\ versionCoverage' = Append(versionCoverage, cover) /\ permit'.cover = cover
      /\ acq.kind # "none"
  BY DEF EAInv, EATypeOK, Versions, PublishVector, Publish
<1>2. /\ Versions' = Versions + 1 /\ versionCoverage'[Versions + 1] = cover
      /\ \A v \in 1..Versions : versionCoverage'[v] = versionCoverage[v]
  BY <1>1 DEF Versions
<1>3. CASE acq.kind = "initial"
  <2>1. Versions = 0 /\ renewalLinks' = renewalLinks /\ permit'.version = 1
    BY <1>3 DEF EAInv, AcqInv, PublishVector, Publish
  <2> QED BY <1>1, <1>2, <2>1
<1>4. CASE acq.kind = "renewal"
  <2>1. /\ acq.version \in 1..Versions /\ acq.cover = versionCoverage[acq.version]
        /\ permit.version = acq.version
    BY <1>4 DEF EAInv, AcqInv, PublishVector, samePermitPredecessor
  <2>2. Open
    BY <1>1, <2>1 DEF Open
  <2>3. acq.version = Versions /\ Versions # 0
    BY <1>1, <2>1, <2>2 DEF EAInv, ChainContiguous
  <2>4. /\ renewalLinks' = Append(renewalLinks, [from |-> acq.cover, to |-> cover])
        /\ permit'.version = acq.version + 1
        /\ \A r \in Roles : acq.cover[r] <= cover[r]
    BY <1>4 DEF PublishVector, Publish, validateVectorLocked
  <2> QED BY <1>1, <1>2, <2>1, <2>3, <2>4
<1> QED BY <1>1, <1>3, <1>4 DEF EAInv, EATypeOK

LEMMA ChainStep == EAInv /\ [EANext]_eaVars => ChainContiguous'
<1> SUFFICES ASSUME EAInv, [EANext]_eaVars PROVE ChainContiguous'
  OBVIOUS
<1>1. CASE UNCHANGED chain /\ (permit' = permit \/ ~Open')
  <2>1. UNCHANGED <<versionCoverage, renewalLinks, Versions>>
    BY <1>1 DEF chain, Versions
  <2>2. ChainContiguous
    BY DEF EAInv
  <2>3. Open' => permit'.version = Versions' /\ permit'.cover = versionCoverage'[Versions']
    BY <1>1, <2>1, <2>2 DEF ChainContiguous, Open
  <2> QED BY <2>1, <2>2, <2>3 DEF ChainContiguous
<1>2. ASSUME NEW t \in Times, NEW cover \in Coverage, NEW expires \in Times,
             PublishVector(t, cover, expires) PROVE ChainContiguous'
  <2> DEFINE n == Versions
  <2>1. ChainContiguous /\ n \in Nat /\ renewalLinks \in Seq([from : Coverage, to : Coverage])
    BY <1>2, PublishEffect DEF EAInv, EATypeOK
  <2>2. Versions' = n + 1 /\ permit'.version = n + 1 /\ permit'.cover = versionCoverage'[n + 1]
    <3>1. Versions' = Versions + 1 /\ permit'.version = Versions + 1
      BY <1>2, PublishEffect, Zenon
    <3>2. permit'.cover = cover /\ versionCoverage'[Versions + 1] = cover
      BY <1>2, PublishEffect, Zenon
    <3> QED BY <3>1, <3>2
  <2>3. CASE n = 0
    <3>1. renewalLinks' = renewalLinks /\ Len(renewalLinks) = 0
      BY <1>2, <2>1, <2>3, PublishEffect DEF ChainContiguous
    <3>2. Len(renewalLinks') = (IF Versions' = 0 THEN 0 ELSE Versions' - 1)
      BY <2>2, <2>3, <3>1
    <3>3. 1..Len(renewalLinks') = {}
      BY <3>1
    <3> QED BY <2>2, <3>2, <3>3 DEF ChainContiguous
  <2>4. CASE n # 0
    <3> DEFINE link == [from |-> versionCoverage[n], to |-> cover]
    <3>1. /\ renewalLinks' = Append(renewalLinks, link) /\ Len(renewalLinks) = n - 1
          /\ \A r \in Roles : versionCoverage[n][r] <= cover[r]
          /\ versionCoverage'[n + 1] = cover
          /\ \A v \in 1..n : versionCoverage'[v] = versionCoverage[v]
      BY <1>2, <2>1, <2>4, PublishEffect DEF ChainContiguous
    <3>2. Len(renewalLinks') = n /\ renewalLinks'[n] = link
          /\ \A v \in 1..(n - 1) : renewalLinks'[v] = renewalLinks[v]
      BY <2>1, <3>1
    <3>3. ASSUME NEW v \in 1..n
          PROVE  /\ renewalLinks'[v].from = versionCoverage'[v]
                 /\ renewalLinks'[v].to = versionCoverage'[v + 1]
                 /\ \A r \in Roles : renewalLinks'[v].from[r] <= renewalLinks'[v].to[r]
      <4>1. CASE v = n
        BY <2>1, <2>4, <3>1, <3>2, <4>1
      <4>2. CASE v # n
        <5>1. v \in 1..(n - 1) /\ v \in 1..Len(renewalLinks) /\ v \in 1..n /\ v + 1 \in 1..n
          BY <2>1, <3>1, <3>3, <4>2
        <5> QED BY <2>1, <3>1, <3>2, <5>1 DEF ChainContiguous
      <4> QED BY <4>1, <4>2
    <3> HIDE DEF n
    <3> QED BY <2>1, <2>2, <2>4, <3>2, <3>3 DEF ChainContiguous
  <2> QED BY <2>3, <2>4
<1>3. CASE Rests
  BY <1>1, <1>3 DEF Rests, core
<1>4. CASE Revokes
  BY <1>1, <1>4, RevokeEffect DEF Revokes, EAInv
<1>5. ASSUME NEW w \in Works, NEW t \in Times, Moves(w, t) PROVE ChainContiguous'
  BY <1>1, <1>5, MoveEffect DEF EAInv
<1> QED BY <1>2, <1>3, <1>4, <1>5, StepKinds DEF Publishes

LEMMA BarrierStays == [EANext]_eaVars => barrier' = barrier
<1>1. CASE UNCHANGED eaVars
  BY <1>1 DEF eaVars
<1>2. CASE EANext
  BY <1>2 DEF EANext, StartBegin, StartFails, AdapterCloses, AuthorityRevoked, Observe, Attach,
       authorize, renewValidated, AcquisitionFails, check, updateReaderWindows, PublishVector,
       dispatch, claimWithCommit, completeWithCommit, cancelWithCommit, Requested
<1> QED BY <1>1, <1>2

\* An accepted result stays covered as long as its command, its record and the
\* versions up to its own are left alone.
LEMMA AcceptedStays ==
  ASSUME EAInv, NEW w \in Works, Accepted(w), barrier' = barrier,
         tickets'[w] = tickets[w], memorySink'[w] = memorySink[w],
         Versions' \in Nat, Versions <= Versions',
         \A v \in 1..Versions : versionCoverage'[v] = versionCoverage[v]
  PROVE  Accepted(w)'
<1> DEFINE e == memorySink[w][1]
           d == tickets[w].version
<1>1. /\ Len(memorySink[w]) = 1 /\ 0 < d /\ d <= e.version /\ e.version <= Versions
      /\ \A v \in d..(e.version - 1) : \A r \in Roles : versionCoverage[v][r] < versionCoverage[v + 1][r]
      /\ ~barrier => \A r \in Roles : versionCoverage[e.version][r] >= e.at
  BY DEF Accepted
<1>2. d \in Nat /\ e.version \in Nat /\ Versions \in Nat
  <2>1. tickets[w] \in [status : TicketStates, version : Nat, fence : Nat]
        /\ memorySink[w] \in Seq([at : Times, version : Nat]) /\ versionCoverage \in Seq(Coverage)
    BY DEF EAInv, EATypeOK
  <2>2. 1 \in 1..Len(memorySink[w])
    BY <1>1
  <2>3. memorySink[w][1] \in [at : Times, version : Nat]
    <3> DEFINE S == [at : Times, version : Nat]
    <3>1. memorySink[w] \in Seq(S)
      BY <2>1
    <3> HIDE DEF S
    <3>2. memorySink[w][1] \in S
      BY <2>2, <3>1
    <3> QED BY <3>2 DEF S
  <2> QED BY <2>1, <2>3 DEF Versions
<1>3. Len(memorySink'[w]) = 1 /\ 0 < tickets'[w].version /\ tickets'[w].version = d
      /\ memorySink'[w][1] = e /\ d <= e.version /\ e.version <= Versions'
  BY <1>1, <1>2
<1>4. \A v \in d..(e.version - 1) : \A r \in Roles : versionCoverage'[v][r] < versionCoverage'[v + 1][r]
  <2> SUFFICES ASSUME NEW v \in d..(e.version - 1)
               PROVE  \A r \in Roles : versionCoverage'[v][r] < versionCoverage'[v + 1][r]
    OBVIOUS
  <2>1. v \in 1..Versions /\ v + 1 \in 1..Versions
    BY <1>1, <1>2
  <2> QED BY <1>1, <2>1
<1>5. ~barrier' => \A r \in Roles : versionCoverage'[e.version][r] >= e.at
  <2>1. e.version \in 1..Versions
    BY <1>1, <1>2
  <2> QED BY <1>1, <2>1
<1> HIDE DEF e, d
<1> QED BY <1>3, <1>4, <1>5 DEF Accepted

\* What completeWithCommit accepts is covered by the chain it validated.
LEMMA CompletionAccepted ==
  ASSUME EAInv, NEW w \in Works, NEW t \in Times, barrier' = barrier,
         UNCHANGED <<permit, chain>>, memorySink[w] = <<>>,
         requireCurrentPermitLocked, acquireCoverageBarrierLocked(t),
         tickets'[w].version = tickets[w].version,
         validateChainLocked(tickets[w].version, permit.version),
         memorySink'[w] = Append(memorySink[w], [at |-> t, version |-> permit.version])
  PROVE  Accepted(w)'
<1> DEFINE d == tickets[w].version
           n == permit.version
<1>1. /\ Len(memorySink'[w]) = 1
      /\ memorySink'[w][1].version = n /\ memorySink'[w][1].at = t
  <2>1. memorySink'[w] = <<[at |-> t, version |-> n]>>
    OBVIOUS
  <2> QED BY <2>1
<1>2. UNCHANGED <<versionCoverage, Versions>>
  BY DEF chain, Versions
<1>3. /\ 0 < d /\ d <= n /\ n <= Versions
      /\ \A v \in d..(n - 1) : \A r \in Roles : versionCoverage[v][r] < versionCoverage[v + 1][r]
  BY DEF validateChainLocked
<1>4. n = Versions /\ permit.cover = versionCoverage[Versions]
  BY DEF EAInv, ChainContiguous, requireCurrentPermitLocked
<1>5. ~barrier' => \A r \in Roles : versionCoverage[n][r] >= t
  BY <1>4 DEF acquireCoverageBarrierLocked
<1>6. tickets'[w].version = d
  OBVIOUS
<1> HIDE DEF d, n
<1> QED BY <1>1, <1>2, <1>3, <1>5, <1>6 DEF Accepted

LEMMA CoveredStep == EAInv /\ [EANext]_eaVars => CompletedCovered'
<1> SUFFICES ASSUME EAInv, [EANext]_eaVars, NEW w \in Works
             PROVE  IF tickets'[w].status = "completed" THEN Accepted(w)' ELSE memorySink'[w] = <<>>
  BY DEF CompletedCovered
<1>1. IF tickets[w].status = "completed" THEN Accepted(w) ELSE memorySink[w] = <<>>
  BY DEF EAInv, CompletedCovered
<1>2. barrier' = barrier /\ Versions \in Nat
  BY BarrierStays DEF EAInv, EATypeOK, Versions
<1>3. CASE /\ tickets'[w] = tickets[w] /\ memorySink'[w] = memorySink[w]
           /\ Versions' \in Nat /\ Versions <= Versions'
           /\ \A v \in 1..Versions : versionCoverage'[v] = versionCoverage[v]
  BY <1>1, <1>2, <1>3, AcceptedStays
<1>4. CASE Rests
  BY <1>2, <1>3, <1>4 DEF Rests, core, chain, Versions
<1>5. CASE Revokes
  <2>1. UNCHANGED <<versionCoverage, Versions, memorySink>>
    BY <1>5 DEF Revokes, chain, Versions
  <2>2. CASE tickets[w].status = "claimed"
    BY <1>1, <1>5, <2>1, <2>2, RevokeEffect DEF EAInv, Revokes
  <2>3. CASE tickets[w].status # "claimed"
    <3>1. tickets'[w] = tickets[w]
      BY <1>5, <2>3, RevokeEffect DEF EAInv, Revokes
    <3> QED BY <1>2, <1>3, <2>1, <3>1
  <2> QED BY <2>2, <2>3
<1>6. ASSUME NEW t \in Times, NEW cover \in Coverage, NEW expires \in Times,
             PublishVector(t, cover, expires)
      PROVE  IF tickets'[w].status = "completed" THEN Accepted(w)' ELSE memorySink'[w] = <<>>
  <2>1. tickets'[w] = tickets[w] /\ memorySink'[w] = memorySink[w]
    BY <1>6 DEF PublishVector
  <2>2. /\ Versions' = Versions + 1
        /\ \A v \in 1..Versions : versionCoverage'[v] = versionCoverage[v]
    BY <1>6, PublishEffect
  <2> QED BY <1>2, <1>3, <2>1, <2>2
<1>7. ASSUME NEW u \in Works, NEW t \in Times, Moves(u, t)
      PROVE  IF tickets'[w].status = "completed" THEN Accepted(w)' ELSE memorySink'[w] = <<>>
  <2>1. UNCHANGED <<permit, chain, versionCoverage, Versions>>
    BY <1>7, MoveEffect DEF EAInv, chain, Versions
  <2>2. CASE w # u
    <3>1. tickets'[w] = tickets[w] /\ memorySink'[w] = memorySink[w]
      BY <1>7, <2>2, MoveEffect DEF EAInv
    <3> QED BY <1>2, <1>3, <2>1, <3>1
  <2>3. CASE w = u /\ tickets'[w].status # "completed"
    <3>1. memorySink'[w] = memorySink[w] /\ tickets[w].status # "completed"
      BY <1>7, <2>3, MoveEffect DEF EAInv
    <3> QED BY <1>1, <2>3, <3>1
  <2>4. CASE w = u /\ tickets'[w].status = "completed"
    <3>1. /\ requireCurrentPermitLocked /\ acquireCoverageBarrierLocked(t)
          /\ tickets[w].status = "claimed" /\ tickets'[w].version = tickets[w].version
          /\ validateChainLocked(tickets[w].version, permit.version)
          /\ memorySink'[w] = Append(memorySink[w], [at |-> t, version |-> permit.version])
      BY <1>7, <2>4, MoveEffect DEF EAInv
    <3>2. memorySink[w] = <<>>
      BY <1>1, <3>1
    <3> QED BY <1>2, <2>1, <2>4, <3>1, <3>2, CompletionAccepted
  <2> QED BY <2>2, <2>3, <2>4
<1> QED BY <1>4, <1>5, <1>6, <1>7, StepKinds DEF Publishes

LEMMA InvStep == EAInv /\ [EANext]_eaVars => EAInv'
BY TypeStep, AcqStep, StartStep, FreshStep, RevokedStep, ChainStep, CoveredStep DEF EAInv

LEMMA Invariance == EASpec => []EAInv
BY InitInv, InvStep, PTL DEF EASpec

-----------------------------------------------------------------------------
\* The evidence behind a permit is fresh and one gapless chain, and every result
\* is covered by it, for any number of commands and renewals.
THEOREM EvidenceIsSound == EASpec => []EvidenceSound
<1>1. EAInv => EvidenceSound
  BY DEF EAInv, EvidenceSound
<1> QED BY <1>1, Invariance, PTL

\* No acquisition under way publishes after a revocation, and nothing claimed
\* survives it.
THEOREM RevocationIsFinal == EASpec => []RevokedForGood
<1>1. EAInv => RevokedForGood
  BY DEF EAInv
<1> QED BY <1>1, Invariance, PTL

-----------------------------------------------------------------------------
(* The refinement: every step of the authority is a step of the seam or     *)
(* none.  To the controller it is closed as soon as the adapter refuses to   *)
(* start, before there is an authority to revoke.                            *)

Shut == closed /\ adapter \in {"new", "starting"}

\* An adapter that was closed before it attached stays closed.
LEMMA ShutStays == [EANext]_eaVars => (Shut => Shut')
<1>1. CASE UNCHANGED eaVars
  BY <1>1 DEF eaVars, Shut
<1>2. CASE EANext
  <2>1. closed' = closed \/ closed'
    BY <1>2 DEF EANext, StartBegin, StartFails, AdapterCloses, AuthorityRevoked, Observe, Attach,
         authorize, renewValidated, AcquisitionFails, check, updateReaderWindows, PublishVector,
         dispatch, claimWithCommit, completeWithCommit, cancelWithCommit, Requested
  <2>2. closed => \/ adapter' = adapter
                  \/ adapter' \in {"new", "starting"} \/ adapter = "attached"
    BY <1>2 DEF EANext, StartBegin, StartFails, AdapterCloses, AuthorityRevoked, Observe, Attach,
         authorize, renewValidated, AcquisitionFails, check, updateReaderWindows, PublishVector,
         dispatch, claimWithCommit, completeWithCommit, cancelWithCommit, Requested
  <2> QED BY <2>1, <2>2 DEF Shut
<1> QED BY <1>1, <1>2

LEMMA SeamInitStep == EAInit => Seam!SeamInit
<1> SUFFICES ASSUME EAInit PROVE Seam!SeamInit
  OBVIOUS
<1>1. ~revoked /\ ~closed /\ ~Open
  BY DEF EAInit, Open, NoPermit
<1>2. authorityState = "new"
  BY <1>1 DEF authorityState
<1>3. \A w \in Works : tickets[w].status = "none"
  BY DEF EAInit, NoTicket
<1> QED BY <1>2, <1>3 DEF Seam!SeamInit

\* A step that leaves the evidence alone closes the seam or does nothing.
LEMMA SeamRests ==
  ASSUME EAInv, [EANext]_eaVars, Rests
  PROVE  [Seam!SeamNext]_(Seam!seamVars)
<1>1. UNCHANGED <<tickets, revoked, Open>>
  BY DEF Rests, core, Open
<1>2. CASE Shut' = Shut
  BY <1>1, <1>2 DEF authorityState, Shut, Seam!seamVars
<1>3. CASE ~Shut /\ Shut'
  <2>1. authorityState' = "revoked"
    BY <1>3 DEF Shut, authorityState
  <2>2. adapter \in {"new", "starting"}
    BY <1>3, AdapterEffect DEF Shut
  <2>3. \A w \in Works : tickets[w].status # "claimed"
    BY <2>2 DEF EAInv, StartInv
  <2> QED BY <1>1, <2>1, <2>3 DEF Seam!SeamNext, Seam!Revoke
<1>4. (Shut' = Shut) \/ (~Shut /\ Shut')
  <2>1. Shut => Shut'
    BY ShutStays
  <2> QED BY <2>1 DEF Shut
<1> QED BY <1>2, <1>3, <1>4

LEMMA SeamRevokes ==
  ASSUME EAInv, Revokes
  PROVE  Seam!Revoke
<1>1. authorityState' = "revoked"
  BY RevokeEffect DEF EAInv, Revokes, authorityState
<1>2. \A w \in Works :
        tickets'[w].status = IF tickets[w].status = "claimed" THEN "invalidated" ELSE tickets[w].status
  BY RevokeEffect DEF EAInv, Revokes
<1> QED BY <1>1, <1>2 DEF Seam!Revoke

\* The first permit opens the seam; a renewal is not seen there.
LEMMA SeamPublishes ==
  ASSUME EAInv, NEW t \in Times, NEW cover \in Coverage, NEW expires \in Times,
         PublishVector(t, cover, expires)
  PROVE  [Seam!SeamNext]_(Seam!seamVars)
<1>1. adapter = "started" /\ UNCHANGED <<adapter, closed, revoked, tickets>> /\ ~revoked
  BY DEF PublishVector, snapshotCurrentLocked, EAInv, AcqInv
<1>2. Open'
  <2>1. permit'.version = Versions + 1 /\ Versions \in Nat
    BY PublishEffect
  <2> QED BY <2>1 DEF Open
<1>3. authorityState' = "open"
  BY <1>1, <1>2 DEF authorityState
<1>4. authorityState \in {"new", "open"}
  BY <1>1 DEF authorityState
<1> QED BY <1>1, <1>3, <1>4 DEF Seam!SeamNext, Seam!Authorize, Seam!seamVars

LEMMA SeamMoves ==
  ASSUME EAInv, NEW w \in Works, NEW t \in Times, Moves(w, t), [EANext]_eaVars
  PROVE  Seam!SeamNext
<1> DEFINE now == [v \in Works |-> tickets[v].status]
           next == [v \in Works |-> tickets'[v].status]
<1>1. adapter = "started" /\ adapter' = "started"
  BY AdapterEffect
<1>2. UNCHANGED <<revoked, Open>>
  BY MoveEffect DEF EAInv, Open
<1>3. UNCHANGED authorityState
  BY <1>1, <1>2 DEF authorityState
<1>4. requireCurrentPermitLocked => authorityState = "open"
  BY <1>1 DEF requireCurrentPermitLocked, authorityState
<1>5. \A v \in Works \ {w} : tickets'[v].status = tickets[v].status
  BY MoveEffect DEF EAInv
<1>6. \A s : tickets'[w].status = s => next = [now EXCEPT ![w] = s]
  BY <1>5
<1>7. \/ requireCurrentPermitLocked /\ tickets[w].status = "none" /\ tickets'[w].status = "pending"
      \/ requireCurrentPermitLocked /\ tickets[w].status = "pending" /\ tickets'[w].status = "claimed"
      \/ requireCurrentPermitLocked /\ tickets[w].status = "claimed" /\ tickets'[w].status = "completed"
      \/ tickets[w].status \in {"pending", "claimed", "invalidated"} /\ tickets'[w].status = "cancelled"
  BY MoveEffect DEF EAInv
<1>8. CASE requireCurrentPermitLocked /\ tickets[w].status = "none" /\ tickets'[w].status = "pending"
  <2>1. Seam!Dispatch(w)
    BY <1>3, <1>4, <1>6, <1>8 DEF Seam!Dispatch
  <2> QED BY <2>1 DEF Seam!SeamNext
<1>9. CASE requireCurrentPermitLocked /\ tickets[w].status = "pending" /\ tickets'[w].status = "claimed"
  <2>1. Seam!Claim(w)
    BY <1>3, <1>4, <1>6, <1>9 DEF Seam!Claim
  <2> QED BY <2>1 DEF Seam!SeamNext
<1>10. CASE requireCurrentPermitLocked /\ tickets[w].status = "claimed" /\ tickets'[w].status = "completed"
  <2>1. Seam!Complete(w)
    BY <1>3, <1>4, <1>6, <1>10 DEF Seam!Complete
  <2> QED BY <2>1 DEF Seam!SeamNext
<1>11. CASE tickets[w].status \in {"pending", "claimed", "invalidated"} /\ tickets'[w].status = "cancelled"
  <2>1. Seam!Cancel(w)
    BY <1>3, <1>6, <1>11 DEF Seam!Cancel
  <2> QED BY <2>1 DEF Seam!SeamNext
<1> QED BY <1>7, <1>8, <1>9, <1>10, <1>11

LEMMA SeamStep == EAInv /\ [EANext]_eaVars => [Seam!SeamNext]_(Seam!seamVars)
<1> SUFFICES ASSUME EAInv, [EANext]_eaVars PROVE [Seam!SeamNext]_(Seam!seamVars)
  OBVIOUS
<1>1. CASE Revokes
  BY <1>1, SeamRevokes DEF Seam!SeamNext
<1> QED BY <1>1, SeamRests, SeamPublishes, SeamMoves, StepKinds DEF Publishes

\* The adapter and the authority it owns are what the concurrent controller relies
\* on: opened once, closed for good, work only while open, claimed work invalidated.
THEOREM AuthorityImplementsSeam == EASpec => ImplementsSeam
BY SeamInitStep, SeamStep, Invariance, PTL DEF EASpec, ImplementsSeam, Seam!SeamSpec

=============================================================================
