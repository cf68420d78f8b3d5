------------------------ MODULE SplitTransportProofs ------------------------
(***************************************************************************)
(* Proofs about the split capture transport, for any actions, kinds, queue *)
(* limits and numbers of owners.                                           *)
(*                                                                         *)
(* SplitInv is inductive.  It says of the owner, the queue and the gate    *)
(* what they keep together, and of each action who admitted and claimed    *)
(* it, what it holds and what its helper and its reader have told.  Most   *)
(* steps touch one action: OneAction carries over the others.              *)
(***************************************************************************)
EXTENDS SplitTransport, FiniteSetTheorems, SequenceTheorems, TLAPS

RtStates == {"ready", "closing", "blocked", "vacant", "launching", "lost", "exited", "failed"}
Rts == [state : RtStates, gen : Nat, mode : Modes, exits : Nat]
Trs == [key : Nat, boot : BOOLEAN, untracked : BOOLEAN, closed : BOOLEAN, direct : BOOLEAN]
Entries == [claimed : BOOLEAN, by : Nat, admitted : Nat, done : BOOLEAN, ok : BOOLEAN,
            lease : Nat, borrowed : BOOLEAN, detached : BOOLEAN, brokered : BOOLEAN,
            direct : BOOLEAN, attached : BOOLEAN, ready : BOOLEAN,
            prep : {"no", "preparing", "ready", "failed"}, target : BOOLEAN,
            verified : BOOLEAN, manual : BOOLEAN, told : {"nothing", "failed", "opened"}]
Posts == [pc : {"idle", "gate", "borrow", "queue", "wait", "end"}, epoch : Nat]
HelperStates == {"none", "waiting", "attached", "activate", "verified", "manual", "rejected", "end"}
Directs == [pc : {"none", "attach", "prepare", "await", "finish", "end"}, ok : BOOLEAN]
Gates == [holder : Actions \cup {"free", "close"}, epoch : Nat, closing : BOOLEAN,
          closer : {"idle", "gate", "check", "close", "finish"}, closes : Nat]

\* The variables have their types.
Shape ==
  /\ inst \in Instances /\ rt \in Rts /\ tr \in Trs /\ queue \in Seq(Actions)
  /\ act \in [Actions -> Entries] /\ post \in [Actions -> Posts]
  /\ helper \in [Actions -> HelperStates] /\ conv \in [Actions -> {"none", "active", "cancelled"}]
  /\ direct \in [Actions -> Directs] /\ gate \in Gates
  /\ ghost \in [activated : SUBSET Actions, cancelled : SUBSET Actions]

\* States of an owner that has no leases: it gives way, or it failed to come.
Unleased == {"closing", "blocked", "vacant", "launching", "lost"}

\* The owner: its key, its bound, and that only a browser is asked to close.
OwnerInv ==
  /\ tr.key = rt.gen /\ rt.gen \in 1..inst.generations
  /\ rt.state \in {"closing", "vacant"} => rt.gen < inst.generations
  /\ rt.state \in {"closing", "blocked"} => rt.mode = "browser"
  /\ rt.state = "closing" => ~tr.untracked

\* The queue: no entry twice, one close of the host, which is over before the
\* profile is vacant.
QueueInv ==
  /\ IsInjective(queue)
  /\ Cardinality(Queued \ HostAction) <= inst.limit
  /\ \A h, g \in HostAction : h \in Queued /\ g \in Queued => h = g
  /\ \A h \in HostAction : h \in Queued =>
       rt.state \in {"closing", "blocked", "vacant", "lost"} /\ (rt.state = "vacant" => act[h].done)

\* The gate: the click that queues or waits holds it, and so does a close.
GateInv ==
  /\ gate.holder = "close" <=> gate.closer \in {"check", "close", "finish"}
  /\ \A a \in Clicks : post[a].pc \in {"borrow", "queue", "wait"} => gate.holder = a
  /\ \A a \in Actions : post[a].pc = "gate" => a \in Clicks
  /\ gate.closer = "close" => Unanswered \cap Clicks = {}

\* An action nobody has queued yet.
Fresh(a) ==
  /\ a \notin Queued /\ ~act[a].claimed /\ act[a].by = 0 /\ ~act[a].done /\ ~act[a].ok
  /\ ~act[a].attached /\ ~act[a].direct /\ ~act[a].brokered /\ ~act[a].detached
  /\ act[a].told = "nothing" /\ act[a].prep = "no" /\ direct[a].pc = "none"
  /\ act[a].lease # 0 \/ act[a].borrowed => post[a].pc = "queue"

\* Who queued it and under which owner.
AdmittedInv(a) ==
  /\ act[a].admitted = 0 => Fresh(a)
  /\ post[a].pc \in {"idle", "gate", "borrow", "queue"} /\ a \in Requests => act[a].admitted = 0
  /\ a \notin Requests => post[a].pc = "idle" /\ ~act[a].direct /\ ~act[a].brokered /\ ~act[a].borrowed
  /\ a \notin Clicks => helper[a] = "none" /\ ~act[a].attached /\ ~act[a].direct
  /\ Kind(a) = "xpost" /\ act[a].admitted # 0 => act[a].direct
  /\ a \in Queued => act[a].admitted = rt.gen
  /\ act[a].admitted \in 0..rt.gen

\* Who claimed it: the worker of that owner, or the direct reader.
ClaimInv(a) ==
  /\ act[a].by # 0 => act[a].claimed /\ ~act[a].direct /\ act[a].by = act[a].admitted
  /\ act[a].by # 0 /\ ~act[a].done /\ ~tr.closed => a \in Queued
  /\ act[a].claimed => act[a].by # 0 \/ act[a].direct
  /\ act[a].ok => act[a].done /\ (act[a].claimed \/ act[a].direct)
  /\ Kind(a) = "source" /\ act[a].by = rt.gen /\ act[a].ok /\ act[a].prep # "ready" => tr.untracked

\* What it holds.
LeaseInv(a) ==
  /\ act[a].lease # 0 \/ act[a].borrowed => a \in Queued \/ post[a].pc = "queue"
  /\ act[a].borrowed => act[a].lease # 0
  /\ act[a].lease \in 0..rt.gen
  /\ a \in Queued /\ ~act[a].done /\ ~act[a].direct /\ Kind(a) # "host" => act[a].lease # 0
  /\ post[a].pc = "queue" /\ Kind(a) \in {"source", "post"} => act[a].lease # 0
  /\ rt.state \in Unleased => act[a].lease = 0

\* The helper and the direct reader: what they have told.
ToldInv(a) ==
  /\ helper[a] \in {"none", "waiting"} => ~act[a].attached
  /\ helper[a] \in {"attached", "activate", "verified", "manual", "rejected"} => act[a].attached
  /\ act[a].told # "nothing" \/ act[a].verified \/ act[a].manual => helper[a] = "end"
  /\ helper[a] = "manual" \/ act[a].manual => act[a].direct
  /\ act[a].told # "nothing" => act[a].attached
  /\ act[a].told = "opened" => act[a].verified \/ act[a].manual
  /\ direct[a].ok => act[a].told = "opened"
  /\ direct[a].pc # "none" => act[a].direct
  /\ direct[a].pc \in {"prepare", "await"} => act[a].attached /\ ~act[a].done
  /\ direct[a].pc \in {"attach", "finish"} /\ act[a].done => ~act[a].ok /\ ~direct[a].ok
  /\ direct[a].pc = "attach" => ~direct[a].ok /\ (a \in Queued => ~act[a].done)
  /\ a \in Clicks /\ act[a].ok => act[a].verified \/ act[a].manual
  /\ a \in ghost.cancelled => a \in Clicks /\ conv[a] = "cancelled" /\ a \notin Unanswered /\ ~act[a].attached

SplitInv ==
  /\ OwnerInv /\ QueueInv /\ GateInv
  /\ \A a \in Actions : AdmittedInv(a) /\ ClaimInv(a) /\ LeaseInv(a) /\ ToldInv(a)
-----------------------------------------------------------------------------
\* Queued actions are actions, finitely many, and no more than the queue has places.
LEMMA QueuedFacts ==
    ASSUME queue \in Seq(Actions)
    PROVE  Queued \subseteq Actions /\ IsFiniteSet(Queued) /\ Cardinality(Queued) \in Nat
           /\ Len(queue) \in Nat /\ Cardinality(Queued) <= Len(queue)
<1>1. Len(queue) \in Nat /\ DOMAIN queue = 1..Len(queue) /\ \A i \in 1..Len(queue) : queue[i] \in Actions
  BY LenProperties
<1>2. IsFiniteSet(1..Len(queue)) /\ Cardinality(1..Len(queue)) = Len(queue)
  <2>1. 1 \in Int /\ Len(queue) \in Int
    BY <1>1
  <2>2. IsFiniteSet(1..Len(queue))
        /\ Cardinality(1..Len(queue)) = IF 1 > Len(queue) THEN 0 ELSE Len(queue) - 1 + 1
    BY ONLY <2>1, FS_Interval
  <2> QED
    BY <1>1, <2>2
<1>3. Queued = {queue[i] : i \in 1..Len(queue)}
  BY <1>1 DEF Queued, ToSet
<1>4. queue \in Surjection(1..Len(queue), Queued)
  BY <1>1, <1>3 DEF Surjection
<1>5. IsFiniteSet(Queued) /\ Cardinality(Queued) <= Cardinality(1..Len(queue))
  BY <1>2, <1>4, FS_Surjection
<1> QED
  BY <1>1, <1>2, <1>3, <1>5, FS_CardinalityType

\* An action that is appended joins the queued ones.
LEMMA AppendQueue ==
    ASSUME queue \in Seq(Actions), NEW a \in Actions, queue' = Append(queue, a)
    PROVE  /\ queue' \in Seq(Actions) /\ Queued' = Queued \cup {a}
           /\ IsInjective(queue) /\ a \notin Queued => IsInjective(queue')
<1>1. Len(queue) \in Nat /\ DOMAIN queue = 1..Len(queue)
  BY LenProperties
<1>2. /\ queue' \in Seq(Actions) /\ Len(queue') = Len(queue) + 1
      /\ \A i \in 1..Len(queue) : queue'[i] = queue[i]
      /\ queue'[Len(queue) + 1] = a
  BY AppendProperties
<1>3. DOMAIN queue' = 1..(Len(queue) + 1)
  BY <1>2, LenProperties
<1>4. Queued' = Queued \cup {a}
  <2>1. ASSUME NEW i \in 1..(Len(queue) + 1) PROVE queue'[i] \in Queued \cup {a}
    <3>1. i \in 1..Len(queue) \/ i = Len(queue) + 1
      BY <1>1
    <3> QED
      BY <1>1, <1>2, <3>1 DEF Queued, ToSet
  <2>2. ASSUME NEW i \in 1..Len(queue) PROVE queue[i] \in Queued'
    BY <1>1, <1>2, <1>3 DEF Queued, ToSet
  <2>3. a \in Queued'
    BY <1>1, <1>2, <1>3 DEF Queued, ToSet
  <2> QED
    BY <1>1, <1>3, <2>1, <2>2, <2>3 DEF Queued, ToSet
<1>5. ASSUME IsInjective(queue), a \notin Queued PROVE IsInjective(queue')
  <2>1. \A i \in 1..Len(queue) : queue[i] # a
    BY <1>1, <1>5 DEF Queued, ToSet
  <2>2. \A i, j \in 1..Len(queue) : queue[i] = queue[j] => i = j
    BY <1>1, <1>5 DEF IsInjective
  <2>3. ASSUME NEW i \in 1..(Len(queue) + 1), NEW j \in 1..(Len(queue) + 1), queue'[i] = queue'[j]
        PROVE  i = j
    BY <1>1, <1>2, <2>1, <2>2, <2>3
  <2> QED
    BY <1>3, <2>3 DEF IsInjective
<1> QED
  BY <1>2, <1>4, <1>5

\* What is left of the queue are the other actions, each of them once.
LEMMA DequeueQueue ==
    ASSUME queue \in Seq(Actions), IsInjective(queue), NEW S, Dequeue(S)
    PROVE  queue' \in Seq(Actions) /\ Queued' = Queued \ S /\ IsInjective(queue')
<1> DEFINE n == Cardinality(Queued \ S)
<1>1. n \in Nat /\ Queued \subseteq Actions
  BY QueuedFacts, FS_Subset, FS_CardinalityType
<1>2. /\ queue' \in [1..n -> Queued \ S] /\ Queued' = Queued \ S
      /\ \A i, j \in 1..n : i < j => Before(queue'[i], queue'[j])
  BY DEF Dequeue, Rest, Queued
<1> HIDE DEF n
<1>3. queue' \in [1..n -> Actions]
  BY <1>1, <1>2
<1>4. queue' \in Seq(Actions)
  BY <1>1, <1>3
<1>5. Len(queue) \in Nat /\ DOMAIN queue = 1..Len(queue)
  BY LenProperties
<1>6. \A b \in Actions : ~Before(b, b)
  BY <1>5 DEF Before, IsInjective
<1>7. ASSUME NEW i \in 1..n, NEW j \in 1..n, queue'[i] = queue'[j] PROVE i = j
  <2>1. ~(i < j) /\ ~(j < i)
    BY <1>2, <1>3, <1>6, <1>7
  <2> QED
    BY <1>1, <2>1
<1>8. DOMAIN queue' = 1..n
  BY <1>3
<1> QED
  BY <1>2, <1>4, <1>7, <1>8 DEF IsInjective

\* The queue of a new owner is empty.
LEMMA EmptyQueue ==
    ASSUME queue' = <<>>
    PROVE  queue' \in Seq(Actions) /\ Queued' = {} /\ IsInjective(queue')
BY DEF Queued, ToSet, IsInjective

\* What is known of one action.
ActionInv(a) == AdmittedInv(a) /\ ClaimInv(a) /\ LeaseInv(a) /\ ToldInv(a)

\* What a step leaves alone: groups of the fields of an entry, an action, the
\* actions but one, the owner (it gives way only with no leases).
SameClaim(a) == /\ act'[a].claimed = act[a].claimed /\ act'[a].by = act[a].by
                /\ act'[a].admitted = act[a].admitted
SameAnswer(a) == act'[a].done = act[a].done /\ act'[a].ok = act[a].ok
SameLease(a) == act'[a].lease = act[a].lease /\ act'[a].borrowed = act[a].borrowed
SameReader(a) == /\ act'[a].detached = act[a].detached /\ act'[a].brokered = act[a].brokered
                 /\ act'[a].direct = act[a].direct /\ act'[a].prep = act[a].prep
SameHelper(a) == /\ act'[a].attached = act[a].attached /\ act'[a].verified = act[a].verified
                 /\ act'[a].manual = act[a].manual /\ act'[a].told = act[a].told
SameAction(q) ==
  /\ act'[q] = act[q] /\ post'[q] = post[q] /\ helper'[q] = helper[q]
  /\ conv'[q] = conv[q] /\ direct'[q] = direct[q]
  /\ (q \in Queued') <=> (q \in Queued)
  /\ (q \in ghost'.cancelled) <=> (q \in ghost.cancelled)
Others(a) == \A q \in Actions \ {a} : SameAction(q)
\* What the poll does to the action it claims.
Claims(k, a) == /\ a \in Queued /\ Offered(a) /\ k = rt.gen
                /\ act' = [act EXCEPT ![a] = [act[a] EXCEPT !.claimed = TRUE, !.by = rt.gen]]
SameOwner ==
  /\ inst' = inst /\ rt'.gen = rt.gen
  /\ rt'.state \in Unleased => rt.state \in Unleased \/ Leased = {}
  /\ tr'.closed = tr.closed /\ (tr.untracked => tr'.untracked)

\* What a step may not do: take back a claim or an answer, or bring a
\* cancelled click to the foreground.
FinalFor(a) == /\ act[a].claimed => act'[a].claimed /\ act'[a].by = act[a].by
               /\ act[a].done => act'[a].done /\ act'[a].ok = act[a].ok
Final == /\ \A a \in Actions : FinalFor(a)
         /\ \A a \in ghost.cancelled : a \in ghost'.activated => a \in ghost.activated

\* The instance, and the kinds with it, are fixed.
LEMMA SameSets ==
    ASSUME inst' = inst
    PROVE  /\ Clicks' = Clicks /\ Requests' = Requests /\ HostAction' = HostAction
           /\ Of({"source"})' = Of({"source"}) /\ \A a : Kind(a)' = Kind(a)
BY DEF Clicks, Requests, HostAction, Of, Kind

\* Types of what the steps look at.
LEMMA Typed ==
    ASSUME Shape, OwnerInv
    PROVE  /\ rt.gen \in Nat /\ rt.gen # 0 /\ rt.state \in RtStates
           /\ inst.generations \in Nat /\ inst.limit \in Nat
           /\ \A a \in Actions : act[a] \in Entries /\ Kind(a) \in Kinds /\ a # "free" /\ a # "close"
<1>1. rt.gen \in Nat /\ rt.state \in RtStates
  BY DEF Shape, Rts
<1>2. inst.generations \in Nat /\ inst.limit \in Nat /\ inst.kind \in [Actions -> Kinds]
  BY SplitAssumption DEF Shape
<1>3. rt.gen # 0
  BY <1>1, <1>2 DEF OwnerInv
<1>4. \A a \in Actions : act[a] \in Entries
  BY DEF Shape
<1>5. \A a \in Actions : Kind(a) \in Kinds
  BY <1>2 DEF Kind
<1> QED
  BY <1>1, <1>2, <1>3, <1>4, <1>5, SplitAssumption

\* An action a step does not touch.
LEMMA OtherAction ==
    ASSUME NEW q \in Actions, ActionInv(q), SameOwner, SameAction(q)
    PROVE  ActionInv(q)'
<1>1. /\ Clicks' = Clicks /\ Requests' = Requests /\ Kind(q)' = Kind(q)
  BY SameSets DEF SameOwner
<1>2. Fresh(q) <=> Fresh(q)'
  BY DEF SameAction, Fresh
<1>3. AdmittedInv(q)'
  BY <1>1, <1>2 DEF ActionInv, AdmittedInv, SameOwner, SameAction
<1>4. ClaimInv(q)'
  BY <1>1 DEF ActionInv, ClaimInv, SameOwner, SameAction
<1>5. LeaseInv(q)'
  BY <1>1 DEF ActionInv, LeaseInv, SameOwner, SameAction, Leased
<1>6. ToldInv(q)'
  BY <1>1 DEF ActionInv, ToldInv, SameOwner, SameAction, Unanswered
<1> QED
  BY <1>3, <1>4, <1>5, <1>6 DEF ActionInv

\* A step that touches one action.
LEMMA OneAction ==
    ASSUME SplitInv, NEW a \in Actions, SameOwner, Others(a),
           Shape', OwnerInv', QueueInv', GateInv', ActionInv(a)'
    PROVE  (Shape /\ SplitInv)'
<1>1. ASSUME NEW q \in Actions PROVE ActionInv(q)'
  <2>1. CASE q = a
    BY <2>1
  <2>2. CASE q # a
    BY <2>2, OtherAction DEF Others, SplitInv, ActionInv
  <2> QED
    BY <2>1, <2>2
<1> QED
  BY <1>1 DEF SplitInv, ActionInv

\* A step that leaves the owner and the queue alone.
LEMMA SameRest ==
    ASSUME OwnerInv, QueueInv, SameOwner, rt' = rt, queue' = queue, tr' = tr,
           \A q \in HostAction : act[q].done => act'[q].done
    PROVE  OwnerInv' /\ QueueInv'
<1>1. HostAction' = HostAction /\ Queued' = Queued
  BY SameSets DEF SameOwner, Queued
<1>2. OwnerInv'
  BY DEF OwnerInv, SameOwner
<1>3. QueueInv'
  BY <1>1 DEF QueueInv, SameOwner
<1> QED
  BY <1>2, <1>3

\* A step that leaves the gate alone and brings no click behind it.
LEMMA SameGate ==
    ASSUME GateInv, gate' = gate, Clicks' = Clicks,
           \A q \in Clicks : post'[q].pc \in {"borrow", "queue", "wait"} => post[q].pc \in {"borrow", "queue", "wait"},
           \A q \in Actions : post'[q].pc = "gate" => post[q].pc = "gate",
           \A q \in Unanswered' : q \in Clicks => q \in Unanswered
    PROVE  GateInv'
BY DEF GateInv

\* A request that ends leaves the gate.
LEMMA LeftGate ==
    ASSUME Shape, GateInv, NEW a \in Actions, a # "free", a # "close", LeaveGate(a), Clicks' = Clicks,
           post'[a].pc = "end", \A q \in Actions \ {a} : post'[q] = post[q],
           \A q \in Unanswered' : q \in Clicks => q \in Unanswered
    PROVE  GateInv'
<1>1. /\ gate'.closer = gate.closer
      /\ gate'.holder = IF gate.holder = a THEN "free" ELSE gate.holder
  BY DEF LeaveGate, Shape, Gates
<1>2. \A q \in Clicks : q \in Actions
  BY DEF Clicks, Of
<1>3. gate'.holder = "close" <=> gate'.closer \in {"check", "close", "finish"}
  BY <1>1 DEF GateInv
<1>4. \A q \in Clicks' : post'[q].pc \in {"borrow", "queue", "wait"} => gate'.holder = q
  BY <1>1, <1>2 DEF GateInv
<1>5. \A q \in Actions : post'[q].pc = "gate" => q \in Clicks'
  BY DEF GateInv
<1> QED
  BY <1>1, <1>3, <1>4, <1>5 DEF GateInv

\* A shorter queue.
LEMMA SmallerQueue ==
    ASSUME Shape, QueueInv, SameOwner, rt' = rt, NEW S, Dequeue(S),
           \A q \in HostAction : act[q].done => act'[q].done
    PROVE  QueueInv'
<1>1. HostAction' = HostAction /\ inst' = inst
  BY SameSets DEF SameOwner
<1>2. IsFiniteSet(Queued)
  BY QueuedFacts DEF Shape
<1>3. Queued' = Queued \ S /\ IsInjective(queue')
  BY DequeueQueue DEF Shape, QueueInv
<1>4. IsFiniteSet(Queued \ HostAction) /\ Queued' \ HostAction \subseteq Queued \ HostAction
  BY <1>2, <1>3, FS_Subset
<1>5. Cardinality(Queued' \ HostAction) <= Cardinality(Queued \ HostAction)
      /\ Cardinality(Queued' \ HostAction) \in Nat /\ Cardinality(Queued \ HostAction) \in Nat
  BY <1>4, FS_Subset, FS_CardinalityType
<1>6. inst.limit \in Nat
  BY SplitAssumption DEF Shape
<1>7. Cardinality(Queued' \ HostAction') <= inst'.limit
  BY <1>1, <1>5, <1>6 DEF QueueInv
<1> QED
  BY <1>1, <1>3, <1>7 DEF QueueInv

\* A longer queue, within its places.
LEMMA LargerQueue ==
    ASSUME Shape, QueueInv, SameOwner, rt' = rt, NEW a \in Actions, queue' = Append(queue, a),
           a \notin Queued, a \notin HostAction, Len(queue) < inst.limit,
           \A q \in HostAction : act[q].done => act'[q].done
    PROVE  QueueInv'
<1>1. HostAction' = HostAction /\ inst' = inst
  BY SameSets DEF SameOwner
<1>2. /\ IsFiniteSet(Queued) /\ Cardinality(Queued) \in Nat /\ Len(queue) \in Nat
      /\ Cardinality(Queued) <= Len(queue)
  BY QueuedFacts DEF Shape
<1>3. Queued' = Queued \cup {a} /\ IsInjective(queue')
  BY AppendQueue DEF Shape, QueueInv
<1>4. IsFiniteSet(Queued \cup {a}) /\ Cardinality(Queued \cup {a}) = Cardinality(Queued) + 1
  BY <1>2, FS_AddElement
<1>5. Cardinality(Queued' \ HostAction) <= Cardinality(Queued \cup {a})
      /\ Cardinality(Queued' \ HostAction) \in Nat
  BY <1>3, <1>4, FS_Subset, FS_CardinalityType
<1>6. inst.limit \in Nat
  BY SplitAssumption DEF Shape
<1>7. Cardinality(Queued' \ HostAction') <= inst'.limit
  BY <1>1, <1>2, <1>4, <1>5, <1>6
<1> QED
  BY <1>1, <1>3, <1>7 DEF QueueInv

\* A step that changes no action.
LEMMA SameActions ==
    ASSUME SplitInv, SameOwner, \A q \in Actions : SameAction(q),
           Shape', OwnerInv', QueueInv', GateInv'
    PROVE  (Shape /\ SplitInv)'
<1>1. ASSUME NEW q \in Actions PROVE ActionInv(q)'
  BY OtherAction DEF SplitInv, ActionInv
<1> QED
  BY <1>1 DEF SplitInv, ActionInv

-----------------------------------------------------------------------------
\* A request ends before it is queued.
LEMMA GiveUpStep ==
    ASSUME Shape, SplitInv, NEW a \in Actions, GiveUp(a)
    PROVE  (Shape /\ SplitInv)' /\ Final
<1> /\ OwnerInv /\ QueueInv /\ GateInv /\ ActionInv(a) /\ rt.gen \in Nat /\ rt.gen # 0
    /\ act[a] \in Entries /\ rt.state \in RtStates /\ Kind(a) \in Kinds /\ a # "free" /\ a # "close"
  BY Typed DEF SplitInv, ActionInv
<1>1. /\ post' = [post EXCEPT ![a] = [post[a] EXCEPT !.pc = "end"]]
      /\ LeaveGate(a)
      /\ post[a].pc \in {"gate", "borrow"}
      /\ UNCHANGED <<inst, rt, tr, queue, act, helper, conv, direct, ghost>>
  BY DEF GiveUp, Shape, Ended
<1>2. Shape'
  <2>1. post' \in [Actions -> Posts]
    BY <1>1 DEF Shape, Posts
  <2>2. gate' \in Gates
    BY <1>1 DEF Shape, Gates, LeaveGate
  <2> QED
    BY <1>1, <2>1, <2>2 DEF Shape
<1>3. /\ post'[a].pc = "end" /\ (\A q \in Actions \ {a} : post'[q] = post[q])
  BY <1>1 DEF Shape, Posts, Directs, Gates
<1>4. /\ SameOwner /\ Queued' = Queued
      /\ Kind(a)' = Kind(a) /\ Clicks' = Clicks /\ Requests' = Requests
  BY <1>1, SameSets DEF SameOwner, Queued
<1>5. Others(a)
  BY <1>1, <1>3, <1>4 DEF Others, SameAction
<1>6. AdmittedInv(a)'
  BY <1>1, <1>3, <1>4 DEF ActionInv, AdmittedInv, Fresh
<1>7. ClaimInv(a)'
  BY <1>1, <1>3, <1>4 DEF ActionInv, ClaimInv
<1>8. LeaseInv(a)'
  BY <1>1, <1>3, <1>4 DEF ActionInv, LeaseInv, Unleased
<1>9. ToldInv(a)'
  BY <1>1, <1>3, <1>4 DEF ActionInv, ToldInv, Unanswered
<1>10. OwnerInv' /\ QueueInv'
  BY <1>1, <1>4, SameRest DEF HostAction, Of
<1>11. GateInv'
  BY <1>1, <1>3, <1>4, LeftGate DEF Unanswered
<1>12. Final
  BY <1>1 DEF Final, FinalFor, Shape
<1> QED
  BY <1>2, <1>4, <1>5, <1>6, <1>7, <1>8, <1>9,
     <1>10, <1>11, <1>12, OneAction DEF ActionInv

\* The profile is borrowed.
LEMMA BorrowStep ==
    ASSUME Shape, SplitInv, NEW a \in Actions, Borrow(a)
    PROVE  (Shape /\ SplitInv)' /\ Final
<1> /\ OwnerInv /\ QueueInv /\ GateInv /\ ActionInv(a) /\ rt.gen \in Nat /\ rt.gen # 0
    /\ act[a] \in Entries /\ rt.state \in RtStates /\ Kind(a) \in Kinds /\ a # "free" /\ a # "close"
  BY Typed DEF SplitInv, ActionInv
<1>1. /\ act' = [act EXCEPT ![a] = [act[a] EXCEPT !.lease = rt.gen, !.borrowed = TRUE]]
      /\ post' = [post EXCEPT ![a] = [post[a] EXCEPT !.pc = "queue"]]
      /\ post[a].pc = "borrow" /\ rt.state = "ready"
      /\ UNCHANGED <<inst, rt, tr, queue, helper, conv, direct, gate, ghost>>
  BY DEF Borrow, Shape, CanAcquire
<1>2. [act[a] EXCEPT !.lease = rt.gen, !.borrowed = TRUE] \in Entries
  BY <1>1 DEF Entries
<1>3. /\ act'[a] = [act[a] EXCEPT !.lease = rt.gen, !.borrowed = TRUE]
      /\ \A q \in Actions \ {a} : act'[q] = act[q]
  BY <1>1 DEF Shape
<1>4. /\ SameClaim(a) /\ SameAnswer(a) /\ SameReader(a) /\ SameHelper(a) /\ act'[a].lease = rt.gen
      /\ act'[a].borrowed
  <2>1. SameClaim(a)
    BY <1>3 DEF Entries, SameClaim
  <2>2. SameAnswer(a)
    BY <1>3 DEF Entries, SameAnswer
  <2>3. SameReader(a)
    BY <1>3 DEF Entries, SameReader
  <2>4. SameHelper(a)
    BY <1>3 DEF Entries, SameHelper
  <2>5. act'[a].lease = rt.gen /\ act'[a].borrowed
    BY <1>3 DEF Entries
  <2> QED
    BY <2>1, <2>2, <2>3, <2>4, <2>5
<1>5. Shape'
  <2>1. act' \in [Actions -> Entries]
    BY <1>1, <1>2 DEF Shape
  <2>2. post' \in [Actions -> Posts]
    BY <1>1 DEF Shape, Posts
  <2> QED
    BY <1>1, <2>1, <2>2 DEF Shape
<1>6. /\ post'[a].pc = "queue" /\ (\A q \in Actions \ {a} : post'[q] = post[q])
  BY <1>1 DEF Shape, Posts, Directs
<1>7. /\ SameOwner /\ Queued' = Queued
      /\ Kind(a)' = Kind(a) /\ Clicks' = Clicks /\ Requests' = Requests
  BY <1>1, SameSets DEF SameOwner, Queued
<1>8. Others(a)
  BY <1>1, <1>3, <1>6, <1>7 DEF Others, SameAction
<1>9. AdmittedInv(a)'
  BY <1>1, <1>4, <1>6, <1>7 DEF ActionInv, AdmittedInv, Fresh, SameClaim, SameAnswer, SameReader,
     SameHelper
<1>10. ClaimInv(a)'
  BY <1>1, <1>4, <1>6, <1>7 DEF ActionInv, ClaimInv, SameClaim, SameAnswer, SameReader, SameHelper
<1>11. LeaseInv(a)'
  BY <1>1, <1>4, <1>6, <1>7 DEF ActionInv, LeaseInv, Unleased, SameClaim, SameAnswer, SameReader,
     SameHelper
<1>12. ToldInv(a)'
  BY <1>1, <1>4, <1>6, <1>7 DEF ActionInv, ToldInv, Unanswered, SameClaim, SameAnswer,
     SameReader, SameHelper
<1>13. OwnerInv' /\ QueueInv'
  BY <1>1, <1>3, <1>4, <1>7, SameRest DEF HostAction, Of, SameClaim, SameAnswer, SameReader,
     SameHelper
<1>14. GateInv'
  BY <1>1, <1>3, <1>4, <1>6, <1>7, SameGate DEF Unanswered, SameClaim, SameAnswer, SameReader,
     SameHelper
<1>15. Final
  <2>1. \A q \in Actions \ {a} : FinalFor(q)
    BY <1>3 DEF FinalFor
  <2>2. FinalFor(a)
    BY <1>1, <1>4 DEF FinalFor, SameClaim, SameAnswer
  <2>3. \A q \in ghost.cancelled : q \in ghost'.activated => q \in ghost.activated
    BY <1>1 DEF Shape
  <2> QED
    BY <2>1, <2>2, <2>3 DEF Final
<1> QED
  BY <1>5, <1>7, <1>8, <1>9, <1>10, <1>11, <1>12,
     <1>13, <1>14, <1>15, OneAction DEF ActionInv

\* A request is refused.
LEMMA RefuseStep ==
    ASSUME Shape, SplitInv, NEW a \in Actions, Refuse(a)
    PROVE  (Shape /\ SplitInv)' /\ Final
<1> /\ OwnerInv /\ QueueInv /\ GateInv /\ ActionInv(a) /\ rt.gen \in Nat /\ rt.gen # 0
    /\ act[a] \in Entries /\ rt.state \in RtStates /\ Kind(a) \in Kinds /\ a # "free" /\ a # "close"
  BY Typed DEF SplitInv, ActionInv
<1>1. /\ act' = [act EXCEPT ![a] = Released(act[a])]
      /\ post' = [post EXCEPT ![a] = [post[a] EXCEPT !.pc = "end"]]
      /\ LeaveGate(a)
      /\ post[a].pc = "queue"
      /\ UNCHANGED <<inst, rt, tr, queue, helper, conv, direct, ghost>>
  BY DEF Refuse, Shape, Ended
<1>2. Released(act[a]) \in Entries
  BY <1>1 DEF Entries, Released
<1>3. /\ act'[a] = Released(act[a])
      /\ \A q \in Actions \ {a} : act'[q] = act[q]
  BY <1>1 DEF Shape
<1>4. /\ SameClaim(a) /\ SameAnswer(a) /\ SameReader(a) /\ SameHelper(a) /\ act'[a].lease = 0
      /\ ~act'[a].borrowed
  <2>1. SameClaim(a)
    BY <1>3 DEF Entries, SameClaim, Released
  <2>2. SameAnswer(a)
    BY <1>3 DEF Entries, SameAnswer, Released
  <2>3. SameReader(a)
    BY <1>3 DEF Entries, SameReader, Released
  <2>4. SameHelper(a)
    BY <1>3 DEF Entries, SameHelper, Released
  <2>5. act'[a].lease = 0 /\ ~act'[a].borrowed
    BY <1>3 DEF Entries, Released
  <2> QED
    BY <2>1, <2>2, <2>3, <2>4, <2>5
<1>5. Shape'
  <2>1. act' \in [Actions -> Entries]
    BY <1>1, <1>2 DEF Shape
  <2>2. post' \in [Actions -> Posts]
    BY <1>1 DEF Shape, Posts
  <2>3. gate' \in Gates
    BY <1>1 DEF Shape, Gates, LeaveGate
  <2> QED
    BY <1>1, <2>1, <2>2, <2>3 DEF Shape
<1>6. /\ post'[a].pc = "end" /\ (\A q \in Actions \ {a} : post'[q] = post[q])
  BY <1>1 DEF Shape, Posts, Directs, Gates
<1>7. /\ SameOwner /\ Queued' = Queued
      /\ Kind(a)' = Kind(a) /\ Clicks' = Clicks /\ Requests' = Requests
  BY <1>1, SameSets DEF SameOwner, Queued
<1>8. Others(a)
  BY <1>1, <1>3, <1>6, <1>7 DEF Others, SameAction
<1>9. AdmittedInv(a)'
  BY <1>1, <1>4, <1>6, <1>7 DEF ActionInv, AdmittedInv, Fresh, SameClaim, SameAnswer, SameReader,
     SameHelper
<1>10. ClaimInv(a)'
  BY <1>1, <1>4, <1>6, <1>7 DEF ActionInv, ClaimInv, SameClaim, SameAnswer, SameReader, SameHelper
<1>11. LeaseInv(a)'
  BY <1>1, <1>4, <1>6, <1>7 DEF ActionInv, LeaseInv, Unleased, SameClaim, SameAnswer, SameReader,
     SameHelper, AdmittedInv, Fresh
<1>12. ToldInv(a)'
  BY <1>1, <1>4, <1>6, <1>7 DEF ActionInv, ToldInv, Unanswered, SameClaim, SameAnswer,
     SameReader, SameHelper
<1>13. OwnerInv' /\ QueueInv'
  BY <1>1, <1>3, <1>4, <1>7, SameRest DEF HostAction, Of, SameClaim, SameAnswer, SameReader,
     SameHelper
<1>14. GateInv'
  BY <1>1, <1>3, <1>4, <1>6, <1>7, LeftGate DEF Unanswered, SameClaim, SameAnswer, SameReader,
     SameHelper
<1>15. Final
  <2>1. \A q \in Actions \ {a} : FinalFor(q)
    BY <1>3 DEF FinalFor
  <2>2. FinalFor(a)
    BY <1>1, <1>4 DEF FinalFor, SameClaim, SameAnswer
  <2>3. \A q \in ghost.cancelled : q \in ghost'.activated => q \in ghost.activated
    BY <1>1 DEF Shape
  <2> QED
    BY <2>1, <2>2, <2>3 DEF Final
<1> QED
  BY <1>5, <1>7, <1>8, <1>9, <1>10, <1>11, <1>12,
     <1>13, <1>14, <1>15, OneAction DEF ActionInv

\* An action is queued.
LEMMA QueueStep ==
    ASSUME Shape, SplitInv, NEW a \in Actions, Queue(a)
    PROVE  (Shape /\ SplitInv)' /\ Final
<1> /\ OwnerInv /\ QueueInv /\ GateInv /\ ActionInv(a) /\ rt.gen \in Nat /\ rt.gen # 0
    /\ act[a] \in Entries /\ rt.state \in RtStates /\ Kind(a) \in Kinds /\ a # "free" /\ a # "close"
  BY Typed DEF SplitInv, ActionInv
<1>1. PICK l \in Nat, b \in BOOLEAN, d \in BOOLEAN :
         /\ act' = [act EXCEPT ![a] = [act[a] EXCEPT !.lease = l, !.admitted = rt.gen, !.brokered = b, !.direct = d]]
         /\ l = (IF Kind(a) = "probe" THEN rt.gen ELSE act[a].lease) /\ (d <=> Kind(a) = "xpost" \/ tr.direct)
  <2>1. act[a].lease \in Nat /\ tr.direct \in BOOLEAN
    BY DEF Entries, Shape, Trs
  <2>2. (IF Kind(a) = "probe" THEN rt.gen ELSE act[a].lease) \in Nat
        /\ (a \in Clicks) \in BOOLEAN /\ (Kind(a) = "xpost" \/ tr.direct) \in BOOLEAN
    BY <2>1
  <2>3. act' = [act EXCEPT ![a] = [act[a] EXCEPT !.lease = IF Kind(a) = "probe" THEN rt.gen ELSE act[a].lease,
                                   !.admitted = rt.gen, !.brokered = (a \in Clicks),
                                   !.direct = (Kind(a) = "xpost" \/ tr.direct)]]
    BY DEF Queue, Shape
  <2> QED
    BY <2>2, <2>3
<1>2. /\ act' = [act EXCEPT ![a] = [act[a] EXCEPT !.lease = l, !.admitted = rt.gen, !.brokered = b, !.direct = d]]
      /\ post' = [post EXCEPT ![a] = [post[a] EXCEPT !.pc = "wait"]]
      /\ direct' = [direct EXCEPT ![a] = [direct[a] EXCEPT !.pc = IF d THEN "attach" ELSE "none"]]
      /\ queue' = Append(queue, a)
      /\ post[a].pc = "queue" /\ ~Refused(a)
      /\ l = (IF Kind(a) = "probe" THEN rt.gen ELSE act[a].lease) /\ (d <=> Kind(a) = "xpost" \/ tr.direct)
      /\ UNCHANGED <<inst, rt, tr, helper, conv, gate, ghost>>
  <2>1. act'[a].direct = d
    BY <1>1 DEF Shape, Entries
  <2> QED
    BY <1>1, <2>1 DEF Queue, Shape
<1>3. a \in Requests /\ Kind(a) \in {"probe", "source", "post", "xpost"} /\ Fresh(a)
  BY <1>2 DEF ActionInv, AdmittedInv, Requests, Of
<1>4. a \in Clicks <=> Kind(a) \in {"post", "xpost"}
  BY DEF Clicks, Of
<1>5. a \notin ghost.cancelled
  BY <1>2 DEF ActionInv, ToldInv, Refused, Cancelled
<1>6. (tr.direct => a \in Clicks) /\ (Kind(a) = "probe" => rt.state = "ready") /\ ~(Len(queue) >= inst.limit)
  BY <1>2 DEF Refused, CanAcquire
<1>7. Len(queue) < inst.limit
  BY <1>6, Typed, LenProperties DEF Shape
<1>8. [act[a] EXCEPT !.lease = l, !.admitted = rt.gen, !.brokered = b, !.direct = d] \in Entries
  BY <1>2 DEF Entries
<1>9. /\ act'[a] = [act[a] EXCEPT !.lease = l, !.admitted = rt.gen, !.brokered = b, !.direct = d]
      /\ \A q \in Actions \ {a} : act'[q] = act[q]
  BY <1>2 DEF Shape
<1>10. /\ SameAnswer(a) /\ SameHelper(a) /\ act'[a].claimed = act[a].claimed
      /\ act'[a].by = act[a].by /\ act'[a].admitted = rt.gen /\ act'[a].lease = l
      /\ act'[a].borrowed = act[a].borrowed /\ act'[a].detached = act[a].detached
      /\ act'[a].brokered = b /\ act'[a].direct = d /\ act'[a].prep = act[a].prep
  <2>1. SameAnswer(a)
    BY <1>9 DEF Entries, SameAnswer
  <2>2. SameHelper(a)
    BY <1>9 DEF Entries, SameHelper
  <2>3. /\ act'[a].claimed = act[a].claimed /\ act'[a].by = act[a].by /\ act'[a].admitted = rt.gen
        /\ act'[a].lease = l /\ act'[a].borrowed = act[a].borrowed
        /\ act'[a].detached = act[a].detached /\ act'[a].brokered = b /\ act'[a].direct = d
        /\ act'[a].prep = act[a].prep
    BY <1>9 DEF Entries
  <2> QED
    BY <2>1, <2>2, <2>3
<1>11. Shape'
  <2>1. act' \in [Actions -> Entries]
    BY <1>2, <1>8 DEF Shape
  <2>2. post' \in [Actions -> Posts]
    BY <1>2 DEF Shape, Posts
  <2>3. direct' \in [Actions -> Directs]
    BY <1>2 DEF Shape, Directs
  <2>4. queue' \in Seq(Actions)
    BY <1>2, AppendQueue DEF Shape, QueueInv
  <2> QED
    BY <1>2, <2>1, <2>2, <2>3, <2>4 DEF Shape
<1>12. /\ post'[a].pc = "wait" /\ (\A q \in Actions \ {a} : post'[q] = post[q])
      /\ direct'[a].pc = (IF d THEN "attach" ELSE "none") /\ direct'[a].ok = direct[a].ok
      /\ \A q \in Actions \ {a} : direct'[q] = direct[q]
  BY <1>2 DEF Shape, Posts, Directs
<1>13. /\ SameOwner /\ Queued' = Queued \cup {a}
      /\ Kind(a)' = Kind(a) /\ Clicks' = Clicks /\ Requests' = Requests
  BY <1>2, SameSets, AppendQueue DEF SameOwner, Shape, QueueInv
<1>14. Others(a)
  BY <1>2, <1>9, <1>12, <1>13 DEF Others, SameAction
<1>15. AdmittedInv(a)'
  BY <1>2, <1>10, <1>12, <1>13, <1>3, <1>4, <1>5, <1>6, <1>7 DEF ActionInv, AdmittedInv, Fresh,
     SameAnswer, SameHelper
<1>16. ClaimInv(a)'
  BY <1>2, <1>10, <1>12, <1>13, <1>3, <1>4, <1>5, <1>6, <1>7 DEF ActionInv, ClaimInv, SameAnswer,
     SameHelper, Fresh
<1>17. LeaseInv(a)'
  BY <1>2, <1>10, <1>12, <1>13, <1>3, <1>4, <1>5, <1>6, <1>7 DEF ActionInv, LeaseInv, Unleased,
     SameAnswer, SameHelper, Fresh
<1>18. ToldInv(a)'
  BY <1>2, <1>10, <1>12, <1>13, <1>3, <1>4, <1>5, <1>6, <1>7 DEF ActionInv, ToldInv, Unanswered,
     SameAnswer, SameHelper, Fresh
<1>19. OwnerInv' /\ QueueInv'
  <2>1. OwnerInv'
    BY <1>2, <1>13 DEF OwnerInv, SameOwner
  <2>2. a \notin Queued /\ a \notin HostAction /\ \A q \in HostAction : act[q].done => act'[q].done
    BY <1>2, <1>9, <1>10, <1>3, <1>4, <1>5, <1>6, <1>7 DEF HostAction, Of, ActionInv, SameAnswer,
       SameHelper, Fresh
  <2> QED
    BY <1>2, <1>13, <2>1, <2>2, <1>3, <1>4, <1>5, <1>6, <1>7, LargerQueue
<1>20. GateInv'
  BY <1>2, <1>9, <1>10, <1>12, <1>13, SameGate, <1>3, <1>4, <1>5, <1>6, <1>7 DEF Unanswered,
     SameAnswer, SameHelper, GateInv
<1>21. Final
  <2>1. \A q \in Actions \ {a} : FinalFor(q)
    BY <1>9 DEF FinalFor
  <2>2. FinalFor(a)
    BY <1>2, <1>10, <1>3, <1>4, <1>5, <1>6, <1>7 DEF FinalFor, SameClaim, SameAnswer
  <2>3. \A q \in ghost.cancelled : q \in ghost'.activated => q \in ghost.activated
    BY <1>2 DEF Shape
  <2> QED
    BY <2>1, <2>2, <2>3 DEF Final
<1> QED
  BY <1>11, <1>13, <1>14, <1>15, <1>16, <1>17, <1>18,
     <1>19, <1>20, <1>21, OneAction DEF ActionInv

\* A request leaves an action its worker has not answered.
LEMMA ReturnKeptStep ==
    ASSUME Shape, SplitInv, NEW a \in Actions, Return(a), act[a].claimed, ~act[a].done, ~tr.closed
    PROVE  (Shape /\ SplitInv)' /\ Final
<1> /\ OwnerInv /\ QueueInv /\ GateInv /\ ActionInv(a) /\ rt.gen \in Nat /\ rt.gen # 0
    /\ act[a] \in Entries /\ rt.state \in RtStates /\ Kind(a) \in Kinds /\ a # "free" /\ a # "close"
  BY Typed DEF SplitInv, ActionInv
<1>1. /\ act' = [act EXCEPT ![a] = [act[a] EXCEPT !.detached = TRUE]]
      /\ post' = [post EXCEPT ![a] = [post[a] EXCEPT !.pc = "end"]]
      /\ LeaveGate(a)
      /\ post[a].pc = "wait"
      /\ UNCHANGED <<inst, rt, tr, queue, helper, conv, direct, ghost>>
  BY DEF Return, Shape, Ended, Leave
<1>2. [act[a] EXCEPT !.detached = TRUE] \in Entries
  BY <1>1 DEF Entries
<1>3. /\ act'[a] = [act[a] EXCEPT !.detached = TRUE]
      /\ \A q \in Actions \ {a} : act'[q] = act[q]
  BY <1>1 DEF Shape
<1>4. /\ SameClaim(a) /\ SameAnswer(a) /\ SameLease(a) /\ SameHelper(a) /\ act'[a].detached
      /\ act'[a].brokered = act[a].brokered /\ act'[a].direct = act[a].direct
      /\ act'[a].prep = act[a].prep
  <2>1. SameClaim(a)
    BY <1>3 DEF Entries, SameClaim
  <2>2. SameAnswer(a)
    BY <1>3 DEF Entries, SameAnswer
  <2>3. SameLease(a)
    BY <1>3 DEF Entries, SameLease
  <2>4. SameHelper(a)
    BY <1>3 DEF Entries, SameHelper
  <2>5. /\ act'[a].detached /\ act'[a].brokered = act[a].brokered /\ act'[a].direct = act[a].direct
        /\ act'[a].prep = act[a].prep
    BY <1>3 DEF Entries
  <2> QED
    BY <2>1, <2>2, <2>3, <2>4, <2>5
<1>5. Shape'
  <2>1. act' \in [Actions -> Entries]
    BY <1>1, <1>2 DEF Shape
  <2>2. post' \in [Actions -> Posts]
    BY <1>1 DEF Shape, Posts
  <2>3. gate' \in Gates
    BY <1>1 DEF Shape, Gates, LeaveGate
  <2> QED
    BY <1>1, <2>1, <2>2, <2>3 DEF Shape
<1>6. /\ post'[a].pc = "end" /\ (\A q \in Actions \ {a} : post'[q] = post[q])
  BY <1>1 DEF Shape, Posts, Directs, Gates
<1>7. /\ SameOwner /\ Queued' = Queued
      /\ Kind(a)' = Kind(a) /\ Clicks' = Clicks /\ Requests' = Requests
  BY <1>1, SameSets DEF SameOwner, Queued
<1>8. Others(a)
  BY <1>1, <1>3, <1>6, <1>7 DEF Others, SameAction
<1>9. AdmittedInv(a)'
  BY <1>1, <1>4, <1>6, <1>7 DEF ActionInv, AdmittedInv, Fresh, SameClaim, SameAnswer, SameLease,
     SameHelper, AdmittedInv, Fresh
<1>10. ClaimInv(a)'
  BY <1>1, <1>4, <1>6, <1>7 DEF ActionInv, ClaimInv, SameClaim, SameAnswer, SameLease, SameHelper
<1>11. LeaseInv(a)'
  BY <1>1, <1>4, <1>6, <1>7 DEF ActionInv, LeaseInv, Unleased, SameClaim, SameAnswer, SameLease,
     SameHelper
<1>12. ToldInv(a)'
  BY <1>1, <1>4, <1>6, <1>7 DEF ActionInv, ToldInv, Unanswered, SameClaim, SameAnswer, SameLease,
     SameHelper
<1>13. OwnerInv' /\ QueueInv'
  BY <1>1, <1>3, <1>4, <1>7, SameRest DEF HostAction, Of, SameClaim, SameAnswer, SameLease,
     SameHelper
<1>14. GateInv'
  BY <1>1, <1>3, <1>4, <1>6, <1>7, LeftGate DEF Unanswered, SameClaim, SameAnswer, SameLease,
     SameHelper
<1>15. Final
  <2>1. \A q \in Actions \ {a} : FinalFor(q)
    BY <1>3 DEF FinalFor
  <2>2. FinalFor(a)
    BY <1>1, <1>4 DEF FinalFor, SameClaim, SameAnswer
  <2>3. \A q \in ghost.cancelled : q \in ghost'.activated => q \in ghost.activated
    BY <1>1 DEF Shape
  <2> QED
    BY <2>1, <2>2, <2>3 DEF Final
<1> QED
  BY <1>5, <1>7, <1>8, <1>9, <1>10, <1>11, <1>12,
     <1>13, <1>14, <1>15, OneAction DEF ActionInv

\* A request takes its action back.
LEMMA ReturnRemovedStep ==
    ASSUME Shape, SplitInv, NEW a \in Actions, Return(a), ~(act[a].claimed /\ ~act[a].done /\ ~tr.closed)
    PROVE  (Shape /\ SplitInv)' /\ Final
<1> /\ OwnerInv /\ QueueInv /\ GateInv /\ ActionInv(a) /\ rt.gen \in Nat /\ rt.gen # 0
    /\ act[a] \in Entries /\ rt.state \in RtStates /\ Kind(a) \in Kinds /\ a # "free" /\ a # "close"
  BY Typed DEF SplitInv, ActionInv
<1>1. /\ act' = [act EXCEPT ![a] = Released(act[a])]
      /\ post' = [post EXCEPT ![a] = [post[a] EXCEPT !.pc = "end"]]
      /\ LeaveGate(a)
      /\ Dequeue({a})
      /\ post[a].pc = "wait"
      /\ UNCHANGED <<inst, rt, tr, helper, conv, direct, ghost>>
  BY DEF Return, Shape, Ended, Leave, removeAction
<1>2. Released(act[a]) \in Entries
  BY <1>1 DEF Entries, Released
<1>3. /\ act'[a] = Released(act[a])
      /\ \A q \in Actions \ {a} : act'[q] = act[q]
  BY <1>1 DEF Shape
<1>4. /\ SameClaim(a) /\ SameAnswer(a) /\ SameReader(a) /\ SameHelper(a) /\ act'[a].lease = 0
      /\ ~act'[a].borrowed
  <2>1. SameClaim(a)
    BY <1>3 DEF Entries, SameClaim, Released
  <2>2. SameAnswer(a)
    BY <1>3 DEF Entries, SameAnswer, Released
  <2>3. SameReader(a)
    BY <1>3 DEF Entries, SameReader, Released
  <2>4. SameHelper(a)
    BY <1>3 DEF Entries, SameHelper, Released
  <2>5. act'[a].lease = 0 /\ ~act'[a].borrowed
    BY <1>3 DEF Entries, Released
  <2> QED
    BY <2>1, <2>2, <2>3, <2>4, <2>5
<1>5. Shape'
  <2>1. act' \in [Actions -> Entries]
    BY <1>1, <1>2 DEF Shape
  <2>2. post' \in [Actions -> Posts]
    BY <1>1 DEF Shape, Posts
  <2>3. gate' \in Gates
    BY <1>1 DEF Shape, Gates, LeaveGate
  <2>4. queue' \in Seq(Actions)
    BY <1>1, DequeueQueue DEF Shape, QueueInv
  <2> QED
    BY <1>1, <2>1, <2>2, <2>3, <2>4 DEF Shape
<1>6. /\ post'[a].pc = "end" /\ (\A q \in Actions \ {a} : post'[q] = post[q])
  BY <1>1 DEF Shape, Posts, Directs, Gates
<1>7. /\ SameOwner /\ Queued' = Queued \ {a}
      /\ Kind(a)' = Kind(a) /\ Clicks' = Clicks /\ Requests' = Requests
  BY <1>1, SameSets, DequeueQueue DEF SameOwner, Shape, QueueInv
<1>8. Others(a)
  BY <1>1, <1>3, <1>6, <1>7 DEF Others, SameAction
<1>9. AdmittedInv(a)'
  BY <1>1, <1>4, <1>6, <1>7 DEF ActionInv, AdmittedInv, Fresh, SameClaim, SameAnswer, SameReader,
     SameHelper
<1>10. ClaimInv(a)'
  BY <1>1, <1>4, <1>6, <1>7 DEF ActionInv, ClaimInv, SameClaim, SameAnswer, SameReader, SameHelper
<1>11. LeaseInv(a)'
  BY <1>1, <1>4, <1>6, <1>7 DEF ActionInv, LeaseInv, Unleased, SameClaim, SameAnswer, SameReader,
     SameHelper
<1>12. ToldInv(a)'
  BY <1>1, <1>4, <1>6, <1>7 DEF ActionInv, ToldInv, Unanswered, SameClaim, SameAnswer,
     SameReader, SameHelper
<1>13. OwnerInv' /\ QueueInv'
  <2>1. OwnerInv'
    BY <1>1, <1>7 DEF OwnerInv, SameOwner
  <2>2. \A q \in HostAction : act[q].done => act'[q].done
    BY <1>1, <1>3, <1>4 DEF HostAction, Of, ActionInv, SameClaim, SameAnswer, SameReader, SameHelper
  <2> QED
    BY <1>1, <1>7, <2>1, <2>2, SmallerQueue
<1>14. GateInv'
  BY <1>1, <1>3, <1>4, <1>6, <1>7, LeftGate DEF Unanswered, SameClaim, SameAnswer, SameReader,
     SameHelper
<1>15. Final
  <2>1. \A q \in Actions \ {a} : FinalFor(q)
    BY <1>3 DEF FinalFor
  <2>2. FinalFor(a)
    BY <1>1, <1>4 DEF FinalFor, SameClaim, SameAnswer
  <2>3. \A q \in ghost.cancelled : q \in ghost'.activated => q \in ghost.activated
    BY <1>1 DEF Shape
  <2> QED
    BY <2>1, <2>2, <2>3 DEF Final
<1> QED
  BY <1>5, <1>7, <1>8, <1>9, <1>10, <1>11, <1>12,
     <1>13, <1>14, <1>15, OneAction DEF ActionInv

\* The engine queues a cleanup.
LEMMA ReleaseBrowserCollectionSurfacesStep ==
    ASSUME Shape, SplitInv, NEW a \in Actions, ReleaseBrowserCollectionSurfaces(a)
    PROVE  (Shape /\ SplitInv)' /\ Final
<1> /\ OwnerInv /\ QueueInv /\ GateInv /\ ActionInv(a) /\ rt.gen \in Nat /\ rt.gen # 0
    /\ act[a] \in Entries /\ rt.state \in RtStates /\ Kind(a) \in Kinds /\ a # "free" /\ a # "close"
  BY Typed DEF SplitInv, ActionInv
<1>1. /\ act' = [act EXCEPT ![a] = [act[a] EXCEPT !.lease = rt.gen, !.admitted = rt.gen]]
      /\ queue' = Append(queue, a)
      /\ rt.state = "ready" /\ Kind(a) = "cleanup" /\ a \notin Queued /\ act[a] = NoAction
      /\ Len(queue) < inst.limit
      /\ UNCHANGED <<inst, rt, tr, post, helper, conv, direct, gate, ghost>>
  BY DEF ReleaseBrowserCollectionSurfaces, Shape, Dispatch
<1>2. a \notin Requests /\ a \notin Clicks /\ a \notin HostAction
  BY <1>1 DEF Requests, Clicks, HostAction, Of
<1>3. /\ act[a].claimed = FALSE /\ act[a].by = 0 /\ act[a].done = FALSE /\ act[a].ok = FALSE /\ act[a].borrowed = FALSE
      /\ act[a].attached = FALSE /\ act[a].verified = FALSE /\ act[a].manual = FALSE /\ act[a].told = "nothing"
  BY <1>1 DEF NoAction
<1>4. [act[a] EXCEPT !.lease = rt.gen, !.admitted = rt.gen] \in Entries
  BY <1>1 DEF Entries
<1>5. /\ act'[a] = [act[a] EXCEPT !.lease = rt.gen, !.admitted = rt.gen]
      /\ \A q \in Actions \ {a} : act'[q] = act[q]
  BY <1>1 DEF Shape
<1>6. /\ SameAnswer(a) /\ SameReader(a) /\ SameHelper(a) /\ act'[a].claimed = act[a].claimed
      /\ act'[a].by = act[a].by /\ act'[a].admitted = rt.gen /\ act'[a].lease = rt.gen
      /\ act'[a].borrowed = act[a].borrowed
  <2>1. SameAnswer(a)
    BY <1>5 DEF Entries, SameAnswer
  <2>2. SameReader(a)
    BY <1>5 DEF Entries, SameReader
  <2>3. SameHelper(a)
    BY <1>5 DEF Entries, SameHelper
  <2>4. /\ act'[a].claimed = act[a].claimed /\ act'[a].by = act[a].by /\ act'[a].admitted = rt.gen
        /\ act'[a].lease = rt.gen /\ act'[a].borrowed = act[a].borrowed
    BY <1>5 DEF Entries
  <2> QED
    BY <2>1, <2>2, <2>3, <2>4
<1>7. Shape'
  <2>1. act' \in [Actions -> Entries]
    BY <1>1, <1>4 DEF Shape
  <2>2. queue' \in Seq(Actions)
    BY <1>1, AppendQueue DEF Shape, QueueInv
  <2> QED
    BY <1>1, <2>1, <2>2 DEF Shape
<1>8. /\ SameOwner /\ Queued' = Queued \cup {a}
      /\ Kind(a)' = Kind(a) /\ Clicks' = Clicks /\ Requests' = Requests
  BY <1>1, SameSets, AppendQueue DEF SameOwner, Shape, QueueInv
<1>9. Others(a)
  BY <1>1, <1>5, <1>8 DEF Others, SameAction
<1>10. AdmittedInv(a)'
  BY <1>1, <1>6, <1>8, <1>2, <1>3 DEF ActionInv, AdmittedInv, Fresh, SameAnswer, SameReader,
     SameHelper
<1>11. ClaimInv(a)'
  BY <1>1, <1>6, <1>8, <1>2, <1>3 DEF ActionInv, ClaimInv, SameAnswer, SameReader, SameHelper
<1>12. LeaseInv(a)'
  BY <1>1, <1>6, <1>8, <1>2, <1>3 DEF ActionInv, LeaseInv, Unleased, SameAnswer, SameReader,
     SameHelper
<1>13. ToldInv(a)'
  BY <1>1, <1>6, <1>8, <1>2, <1>3 DEF ActionInv, ToldInv, Unanswered, SameAnswer, SameReader,
     SameHelper
<1>14. OwnerInv' /\ QueueInv'
  <2>1. OwnerInv'
    BY <1>1, <1>8 DEF OwnerInv, SameOwner
  <2>2. a \notin Queued /\ a \notin HostAction /\ \A q \in HostAction : act[q].done => act'[q].done
    BY <1>1, <1>5, <1>6, <1>2, <1>3 DEF HostAction, Of, ActionInv, SameAnswer, SameReader,
       SameHelper
  <2> QED
    BY <1>1, <1>8, <2>1, <2>2, <1>2, <1>3, LargerQueue
<1>15. GateInv'
  BY <1>1, <1>5, <1>6, <1>8, SameGate, <1>2, <1>3 DEF Unanswered, SameAnswer, SameReader, SameHelper
<1>16. Final
  <2>1. \A q \in Actions \ {a} : FinalFor(q)
    BY <1>5 DEF FinalFor
  <2>2. FinalFor(a)
    BY <1>1, <1>6, <1>2, <1>3 DEF FinalFor, SameClaim, SameAnswer
  <2>3. \A q \in ghost.cancelled : q \in ghost'.activated => q \in ghost.activated
    BY <1>1 DEF Shape
  <2> QED
    BY <2>1, <2>2, <2>3 DEF Final
<1> QED
  BY <1>7, <1>8, <1>9, <1>10, <1>11, <1>12, <1>13,
     <1>14, <1>15, <1>16, OneAction DEF ActionInv

\* The engine queues a recapture.
LEMMA DispatchBrowserMediaRecaptureStep ==
    ASSUME Shape, SplitInv, NEW a \in Actions, DispatchBrowserMediaRecapture(a)
    PROVE  (Shape /\ SplitInv)' /\ Final
<1> /\ OwnerInv /\ QueueInv /\ GateInv /\ ActionInv(a) /\ rt.gen \in Nat /\ rt.gen # 0
    /\ act[a] \in Entries /\ rt.state \in RtStates /\ Kind(a) \in Kinds /\ a # "free" /\ a # "close"
  BY Typed DEF SplitInv, ActionInv
<1>1. /\ act' = [act EXCEPT ![a] = [act[a] EXCEPT !.lease = rt.gen, !.admitted = rt.gen]]
      /\ queue' = Append(queue, a)
      /\ rt.state = "ready" /\ Kind(a) = "recapture" /\ a \notin Queued /\ act[a] = NoAction
      /\ Len(queue) < inst.limit
      /\ UNCHANGED <<inst, rt, tr, post, helper, conv, direct, gate, ghost>>
  BY DEF DispatchBrowserMediaRecapture, Shape, Dispatch
<1>2. a \notin Requests /\ a \notin Clicks /\ a \notin HostAction
  BY <1>1 DEF Requests, Clicks, HostAction, Of
<1>3. /\ act[a].claimed = FALSE /\ act[a].by = 0 /\ act[a].done = FALSE /\ act[a].ok = FALSE /\ act[a].borrowed = FALSE
      /\ act[a].attached = FALSE /\ act[a].verified = FALSE /\ act[a].manual = FALSE /\ act[a].told = "nothing"
  BY <1>1 DEF NoAction
<1>4. [act[a] EXCEPT !.lease = rt.gen, !.admitted = rt.gen] \in Entries
  BY <1>1 DEF Entries
<1>5. /\ act'[a] = [act[a] EXCEPT !.lease = rt.gen, !.admitted = rt.gen]
      /\ \A q \in Actions \ {a} : act'[q] = act[q]
  BY <1>1 DEF Shape
<1>6. /\ SameAnswer(a) /\ SameReader(a) /\ SameHelper(a) /\ act'[a].claimed = act[a].claimed
      /\ act'[a].by = act[a].by /\ act'[a].admitted = rt.gen /\ act'[a].lease = rt.gen
      /\ act'[a].borrowed = act[a].borrowed
  <2>1. SameAnswer(a)
    BY <1>5 DEF Entries, SameAnswer
  <2>2. SameReader(a)
    BY <1>5 DEF Entries, SameReader
  <2>3. SameHelper(a)
    BY <1>5 DEF Entries, SameHelper
  <2>4. /\ act'[a].claimed = act[a].claimed /\ act'[a].by = act[a].by /\ act'[a].admitted = rt.gen
        /\ act'[a].lease = rt.gen /\ act'[a].borrowed = act[a].borrowed
    BY <1>5 DEF Entries
  <2> QED
    BY <2>1, <2>2, <2>3, <2>4
<1>7. Shape'
  <2>1. act' \in [Actions -> Entries]
    BY <1>1, <1>4 DEF Shape
  <2>2. queue' \in Seq(Actions)
    BY <1>1, AppendQueue DEF Shape, QueueInv
  <2> QED
    BY <1>1, <2>1, <2>2 DEF Shape
<1>8. /\ SameOwner /\ Queued' = Queued \cup {a}
      /\ Kind(a)' = Kind(a) /\ Clicks' = Clicks /\ Requests' = Requests
  BY <1>1, SameSets, AppendQueue DEF SameOwner, Shape, QueueInv
<1>9. Others(a)
  BY <1>1, <1>5, <1>8 DEF Others, SameAction
<1>10. AdmittedInv(a)'
  BY <1>1, <1>6, <1>8, <1>2, <1>3 DEF ActionInv, AdmittedInv, Fresh, SameAnswer, SameReader,
     SameHelper
<1>11. ClaimInv(a)'
  BY <1>1, <1>6, <1>8, <1>2, <1>3 DEF ActionInv, ClaimInv, SameAnswer, SameReader, SameHelper
<1>12. LeaseInv(a)'
  BY <1>1, <1>6, <1>8, <1>2, <1>3 DEF ActionInv, LeaseInv, Unleased, SameAnswer, SameReader,
     SameHelper
<1>13. ToldInv(a)'
  BY <1>1, <1>6, <1>8, <1>2, <1>3 DEF ActionInv, ToldInv, Unanswered, SameAnswer, SameReader,
     SameHelper
<1>14. OwnerInv' /\ QueueInv'
  <2>1. OwnerInv'
    BY <1>1, <1>8 DEF OwnerInv, SameOwner
  <2>2. a \notin Queued /\ a \notin HostAction /\ \A q \in HostAction : act[q].done => act'[q].done
    BY <1>1, <1>5, <1>6, <1>2, <1>3 DEF HostAction, Of, ActionInv, SameAnswer, SameReader,
       SameHelper
  <2> QED
    BY <1>1, <1>8, <2>1, <2>2, <1>2, <1>3, LargerQueue
<1>15. GateInv'
  BY <1>1, <1>5, <1>6, <1>8, SameGate, <1>2, <1>3 DEF Unanswered, SameAnswer, SameReader, SameHelper
<1>16. Final
  <2>1. \A q \in Actions \ {a} : FinalFor(q)
    BY <1>5 DEF FinalFor
  <2>2. FinalFor(a)
    BY <1>1, <1>6, <1>2, <1>3 DEF FinalFor, SameClaim, SameAnswer
  <2>3. \A q \in ghost.cancelled : q \in ghost'.activated => q \in ghost.activated
    BY <1>1 DEF Shape
  <2> QED
    BY <2>1, <2>2, <2>3 DEF Final
<1> QED
  BY <1>7, <1>8, <1>9, <1>10, <1>11, <1>12, <1>13,
     <1>14, <1>15, <1>16, OneAction DEF ActionInv

\* The worker claims an action.
LEMMA NextActionStep ==
    ASSUME Shape, SplitInv, NEW k, NEW a \in Actions, NextAction(k), Claims(k, a)
    PROVE  (Shape /\ SplitInv)' /\ Final
<1> /\ OwnerInv /\ QueueInv /\ GateInv /\ ActionInv(a) /\ rt.gen \in Nat /\ rt.gen # 0
    /\ act[a] \in Entries /\ rt.state \in RtStates /\ Kind(a) \in Kinds /\ a # "free" /\ a # "close"
  BY Typed DEF SplitInv, ActionInv
<1>1. /\ act' = [act EXCEPT ![a] = [act[a] EXCEPT !.claimed = TRUE, !.by = rt.gen]]
      /\ a \in Queued /\ Offered(a)
      /\ UNCHANGED <<inst, rt, tr, queue, post, helper, conv, direct, gate, ghost>>
  BY DEF NextAction, Shape, Claims
<1>2. [act[a] EXCEPT !.claimed = TRUE, !.by = rt.gen] \in Entries
  BY <1>1 DEF Entries
<1>3. /\ act'[a] = [act[a] EXCEPT !.claimed = TRUE, !.by = rt.gen]
      /\ \A q \in Actions \ {a} : act'[q] = act[q]
  BY <1>1 DEF Shape
<1>4. /\ SameAnswer(a) /\ SameLease(a) /\ SameReader(a) /\ SameHelper(a) /\ act'[a].claimed
      /\ act'[a].by = rt.gen /\ act'[a].admitted = act[a].admitted
  <2>1. SameAnswer(a)
    BY <1>3 DEF Entries, SameAnswer
  <2>2. SameLease(a)
    BY <1>3 DEF Entries, SameLease
  <2>3. SameReader(a)
    BY <1>3 DEF Entries, SameReader
  <2>4. SameHelper(a)
    BY <1>3 DEF Entries, SameHelper
  <2>5. act'[a].claimed /\ act'[a].by = rt.gen /\ act'[a].admitted = act[a].admitted
    BY <1>3 DEF Entries
  <2> QED
    BY <2>1, <2>2, <2>3, <2>4, <2>5
<1>5. Shape'
  <2>1. act' \in [Actions -> Entries]
    BY <1>1, <1>2 DEF Shape
  <2> QED
    BY <1>1, <2>1 DEF Shape
<1>6. /\ SameOwner /\ Queued' = Queued
      /\ Kind(a)' = Kind(a) /\ Clicks' = Clicks /\ Requests' = Requests
  BY <1>1, SameSets DEF SameOwner, Queued
<1>7. Others(a)
  BY <1>1, <1>3, <1>6 DEF Others, SameAction
<1>8. AdmittedInv(a)'
  BY <1>1, <1>4, <1>6 DEF ActionInv, AdmittedInv, Fresh, SameAnswer, SameLease, SameReader,
     SameHelper
<1>9. ClaimInv(a)'
  BY <1>1, <1>4, <1>6 DEF ActionInv, ClaimInv, SameAnswer, SameLease, SameReader, SameHelper,
     AdmittedInv, Offered
<1>10. LeaseInv(a)'
  BY <1>1, <1>4, <1>6 DEF ActionInv, LeaseInv, Unleased, SameAnswer, SameLease, SameReader,
     SameHelper
<1>11. ToldInv(a)'
  BY <1>1, <1>4, <1>6 DEF ActionInv, ToldInv, Unanswered, SameAnswer, SameLease, SameReader,
     SameHelper
<1>12. OwnerInv' /\ QueueInv'
  BY <1>1, <1>3, <1>4, <1>6, SameRest DEF HostAction, Of, SameAnswer, SameLease, SameReader,
     SameHelper
<1>13. GateInv'
  BY <1>1, <1>3, <1>4, <1>6, SameGate DEF Unanswered, SameAnswer, SameLease, SameReader, SameHelper
<1>14. Final
  <2>1. \A q \in Actions \ {a} : FinalFor(q)
    BY <1>3 DEF FinalFor
  <2>2. FinalFor(a)
    BY <1>1, <1>4 DEF FinalFor, SameClaim, SameAnswer, Offered
  <2>3. \A q \in ghost.cancelled : q \in ghost'.activated => q \in ghost.activated
    BY <1>1 DEF Shape
  <2> QED
    BY <2>1, <2>2, <2>3 DEF Final
<1> QED
  BY <1>5, <1>6, <1>7, <1>8, <1>9, <1>10, <1>11,
     <1>12, <1>13, <1>14, OneAction DEF ActionInv

\* The worker begins to prepare a source window.
LEMMA PrepareSourceStep ==
    ASSUME Shape, SplitInv, NEW a \in Actions, NEW k, PrepareSource(k, a)
    PROVE  (Shape /\ SplitInv)' /\ Final
<1> /\ OwnerInv /\ QueueInv /\ GateInv /\ ActionInv(a) /\ rt.gen \in Nat /\ rt.gen # 0
    /\ act[a] \in Entries /\ rt.state \in RtStates /\ Kind(a) \in Kinds /\ a # "free" /\ a # "close"
  BY Typed DEF SplitInv, ActionInv
<1>1. /\ act' = [act EXCEPT ![a] = [act[a] EXCEPT !.prep = "preparing"]]
      /\ a \in Queued /\ act[a].prep = "no"
      /\ UNCHANGED <<inst, rt, tr, queue, post, helper, conv, direct, gate, ghost>>
  BY DEF PrepareSource, Shape, Serving
<1>2. [act[a] EXCEPT !.prep = "preparing"] \in Entries
  BY <1>1 DEF Entries
<1>3. /\ act'[a] = [act[a] EXCEPT !.prep = "preparing"]
      /\ \A q \in Actions \ {a} : act'[q] = act[q]
  BY <1>1 DEF Shape
<1>4. /\ SameClaim(a) /\ SameAnswer(a) /\ SameLease(a) /\ SameHelper(a)
      /\ act'[a].detached = act[a].detached /\ act'[a].brokered = act[a].brokered
      /\ act'[a].direct = act[a].direct /\ act'[a].prep = "preparing"
  <2>1. SameClaim(a)
    BY <1>3 DEF Entries, SameClaim
  <2>2. SameAnswer(a)
    BY <1>3 DEF Entries, SameAnswer
  <2>3. SameLease(a)
    BY <1>3 DEF Entries, SameLease
  <2>4. SameHelper(a)
    BY <1>3 DEF Entries, SameHelper
  <2>5. /\ act'[a].detached = act[a].detached /\ act'[a].brokered = act[a].brokered
        /\ act'[a].direct = act[a].direct /\ act'[a].prep = "preparing"
    BY <1>3 DEF Entries
  <2> QED
    BY <2>1, <2>2, <2>3, <2>4, <2>5
<1>5. Shape'
  <2>1. act' \in [Actions -> Entries]
    BY <1>1, <1>2 DEF Shape
  <2> QED
    BY <1>1, <2>1 DEF Shape
<1>6. /\ SameOwner /\ Queued' = Queued
      /\ Kind(a)' = Kind(a) /\ Clicks' = Clicks /\ Requests' = Requests
  BY <1>1, SameSets DEF SameOwner, Queued
<1>7. Others(a)
  BY <1>1, <1>3, <1>6 DEF Others, SameAction
<1>8. AdmittedInv(a)'
  BY <1>1, <1>4, <1>6 DEF ActionInv, AdmittedInv, Fresh, SameClaim, SameAnswer, SameLease,
     SameHelper
<1>9. ClaimInv(a)'
  BY <1>1, <1>4, <1>6 DEF ActionInv, ClaimInv, SameClaim, SameAnswer, SameLease, SameHelper
<1>10. LeaseInv(a)'
  BY <1>1, <1>4, <1>6 DEF ActionInv, LeaseInv, Unleased, SameClaim, SameAnswer, SameLease,
     SameHelper
<1>11. ToldInv(a)'
  BY <1>1, <1>4, <1>6 DEF ActionInv, ToldInv, Unanswered, SameClaim, SameAnswer, SameLease,
     SameHelper
<1>12. OwnerInv' /\ QueueInv'
  BY <1>1, <1>3, <1>4, <1>6, SameRest DEF HostAction, Of, SameClaim, SameAnswer, SameLease,
     SameHelper
<1>13. GateInv'
  BY <1>1, <1>3, <1>4, <1>6, SameGate DEF Unanswered, SameClaim, SameAnswer, SameLease, SameHelper
<1>14. Final
  <2>1. \A q \in Actions \ {a} : FinalFor(q)
    BY <1>3 DEF FinalFor
  <2>2. FinalFor(a)
    BY <1>1, <1>4 DEF FinalFor, SameClaim, SameAnswer
  <2>3. \A q \in ghost.cancelled : q \in ghost'.activated => q \in ghost.activated
    BY <1>1 DEF Shape
  <2> QED
    BY <2>1, <2>2, <2>3 DEF Final
<1> QED
  BY <1>5, <1>6, <1>7, <1>8, <1>9, <1>10, <1>11,
     <1>12, <1>13, <1>14, OneAction DEF ActionInv

\* The worker begins to prepare a native post.
LEMMA PrepareReaderStep ==
    ASSUME Shape, SplitInv, NEW a \in Actions, NEW k, PrepareReader(k, a)
    PROVE  (Shape /\ SplitInv)' /\ Final
<1> /\ OwnerInv /\ QueueInv /\ GateInv /\ ActionInv(a) /\ rt.gen \in Nat /\ rt.gen # 0
    /\ act[a] \in Entries /\ rt.state \in RtStates /\ Kind(a) \in Kinds /\ a # "free" /\ a # "close"
  BY Typed DEF SplitInv, ActionInv
<1>1. /\ act' = [act EXCEPT ![a] = [act[a] EXCEPT !.prep = "preparing"]]
      /\ a \in Queued /\ act[a].prep = "no"
      /\ UNCHANGED <<inst, rt, tr, queue, post, helper, conv, direct, gate, ghost>>
  BY DEF PrepareReader, Shape, Serving
<1>2. [act[a] EXCEPT !.prep = "preparing"] \in Entries
  BY <1>1 DEF Entries
<1>3. /\ act'[a] = [act[a] EXCEPT !.prep = "preparing"]
      /\ \A q \in Actions \ {a} : act'[q] = act[q]
  BY <1>1 DEF Shape
<1>4. /\ SameClaim(a) /\ SameAnswer(a) /\ SameLease(a) /\ SameHelper(a)
      /\ act'[a].detached = act[a].detached /\ act'[a].brokered = act[a].brokered
      /\ act'[a].direct = act[a].direct /\ act'[a].prep = "preparing"
  <2>1. SameClaim(a)
    BY <1>3 DEF Entries, SameClaim
  <2>2. SameAnswer(a)
    BY <1>3 DEF Entries, SameAnswer
  <2>3. SameLease(a)
    BY <1>3 DEF Entries, SameLease
  <2>4. SameHelper(a)
    BY <1>3 DEF Entries, SameHelper
  <2>5. /\ act'[a].detached = act[a].detached /\ act'[a].brokered = act[a].brokered
        /\ act'[a].direct = act[a].direct /\ act'[a].prep = "preparing"
    BY <1>3 DEF Entries
  <2> QED
    BY <2>1, <2>2, <2>3, <2>4, <2>5
<1>5. Shape'
  <2>1. act' \in [Actions -> Entries]
    BY <1>1, <1>2 DEF Shape
  <2> QED
    BY <1>1, <2>1 DEF Shape
<1>6. /\ SameOwner /\ Queued' = Queued
      /\ Kind(a)' = Kind(a) /\ Clicks' = Clicks /\ Requests' = Requests
  BY <1>1, SameSets DEF SameOwner, Queued
<1>7. Others(a)
  BY <1>1, <1>3, <1>6 DEF Others, SameAction
<1>8. AdmittedInv(a)'
  BY <1>1, <1>4, <1>6 DEF ActionInv, AdmittedInv, Fresh, SameClaim, SameAnswer, SameLease,
     SameHelper
<1>9. ClaimInv(a)'
  BY <1>1, <1>4, <1>6 DEF ActionInv, ClaimInv, SameClaim, SameAnswer, SameLease, SameHelper
<1>10. LeaseInv(a)'
  BY <1>1, <1>4, <1>6 DEF ActionInv, LeaseInv, Unleased, SameClaim, SameAnswer, SameLease,
     SameHelper
<1>11. ToldInv(a)'
  BY <1>1, <1>4, <1>6 DEF ActionInv, ToldInv, Unanswered, SameClaim, SameAnswer, SameLease,
     SameHelper
<1>12. OwnerInv' /\ QueueInv'
  BY <1>1, <1>3, <1>4, <1>6, SameRest DEF HostAction, Of, SameClaim, SameAnswer, SameLease,
     SameHelper
<1>13. GateInv'
  BY <1>1, <1>3, <1>4, <1>6, SameGate DEF Unanswered, SameClaim, SameAnswer, SameLease, SameHelper
<1>14. Final
  <2>1. \A q \in Actions \ {a} : FinalFor(q)
    BY <1>3 DEF FinalFor
  <2>2. FinalFor(a)
    BY <1>1, <1>4 DEF FinalFor, SameClaim, SameAnswer
  <2>3. \A q \in ghost.cancelled : q \in ghost'.activated => q \in ghost.activated
    BY <1>1 DEF Shape
  <2> QED
    BY <2>1, <2>2, <2>3 DEF Final
<1> QED
  BY <1>5, <1>6, <1>7, <1>8, <1>9, <1>10, <1>11,
     <1>12, <1>13, <1>14, OneAction DEF ActionInv

\* A source window is prepared, or not.
LEMMA SourcePreparedStep ==
    ASSUME Shape, SplitInv, NEW a \in Actions, SourcePrepared(a)
    PROVE  (Shape /\ SplitInv)' /\ Final
<1> /\ OwnerInv /\ QueueInv /\ GateInv /\ ActionInv(a) /\ rt.gen \in Nat /\ rt.gen # 0
    /\ act[a] \in Entries /\ rt.state \in RtStates /\ Kind(a) \in Kinds /\ a # "free" /\ a # "close"
  BY Typed DEF SplitInv, ActionInv
<1>1. PICK outcome \in {"ready", "failed"} : act' = [act EXCEPT ![a] = [act[a] EXCEPT !.prep = outcome]]
  BY DEF SourcePrepared
<1>2. /\ act' = [act EXCEPT ![a] = [act[a] EXCEPT !.prep = outcome]]
      /\ act[a].prep = "preparing"
      /\ UNCHANGED <<inst, rt, tr, queue, post, helper, conv, direct, gate, ghost>>
  BY <1>1 DEF SourcePrepared, Shape
<1>3. [act[a] EXCEPT !.prep = outcome] \in Entries
  BY <1>2 DEF Entries
<1>4. /\ act'[a] = [act[a] EXCEPT !.prep = outcome]
      /\ \A q \in Actions \ {a} : act'[q] = act[q]
  BY <1>2 DEF Shape
<1>5. /\ SameClaim(a) /\ SameAnswer(a) /\ SameLease(a) /\ SameHelper(a)
      /\ act'[a].detached = act[a].detached /\ act'[a].brokered = act[a].brokered
      /\ act'[a].direct = act[a].direct /\ act'[a].prep = outcome
  <2>1. SameClaim(a)
    BY <1>4 DEF Entries, SameClaim
  <2>2. SameAnswer(a)
    BY <1>4 DEF Entries, SameAnswer
  <2>3. SameLease(a)
    BY <1>4 DEF Entries, SameLease
  <2>4. SameHelper(a)
    BY <1>4 DEF Entries, SameHelper
  <2>5. /\ act'[a].detached = act[a].detached /\ act'[a].brokered = act[a].brokered
        /\ act'[a].direct = act[a].direct /\ act'[a].prep = outcome
    BY <1>4 DEF Entries
  <2> QED
    BY <2>1, <2>2, <2>3, <2>4, <2>5
<1>6. Shape'
  <2>1. act' \in [Actions -> Entries]
    BY <1>2, <1>3 DEF Shape
  <2> QED
    BY <1>2, <2>1 DEF Shape
<1>7. /\ SameOwner /\ Queued' = Queued
      /\ Kind(a)' = Kind(a) /\ Clicks' = Clicks /\ Requests' = Requests
  BY <1>2, SameSets DEF SameOwner, Queued
<1>8. Others(a)
  BY <1>2, <1>4, <1>7 DEF Others, SameAction
<1>9. AdmittedInv(a)'
  BY <1>2, <1>5, <1>7 DEF ActionInv, AdmittedInv, Fresh, SameClaim, SameAnswer, SameLease,
     SameHelper
<1>10. ClaimInv(a)'
  BY <1>2, <1>5, <1>7 DEF ActionInv, ClaimInv, SameClaim, SameAnswer, SameLease, SameHelper
<1>11. LeaseInv(a)'
  BY <1>2, <1>5, <1>7 DEF ActionInv, LeaseInv, Unleased, SameClaim, SameAnswer, SameLease,
     SameHelper
<1>12. ToldInv(a)'
  BY <1>2, <1>5, <1>7 DEF ActionInv, ToldInv, Unanswered, SameClaim, SameAnswer, SameLease,
     SameHelper
<1>13. OwnerInv' /\ QueueInv'
  BY <1>2, <1>4, <1>5, <1>7, SameRest DEF HostAction, Of, SameClaim, SameAnswer, SameLease,
     SameHelper
<1>14. GateInv'
  BY <1>2, <1>4, <1>5, <1>7, SameGate DEF Unanswered, SameClaim, SameAnswer, SameLease, SameHelper
<1>15. Final
  <2>1. \A q \in Actions \ {a} : FinalFor(q)
    BY <1>4 DEF FinalFor
  <2>2. FinalFor(a)
    BY <1>2, <1>5 DEF FinalFor, SameClaim, SameAnswer
  <2>3. \A q \in ghost.cancelled : q \in ghost'.activated => q \in ghost.activated
    BY <1>2 DEF Shape
  <2> QED
    BY <2>1, <2>2, <2>3 DEF Final
<1> QED
  BY <1>6, <1>7, <1>8, <1>9, <1>10, <1>11, <1>12,
     <1>13, <1>14, <1>15, OneAction DEF ActionInv

\* A native post is prepared, or not.
LEMMA ReaderPreparedStep ==
    ASSUME Shape, SplitInv, NEW a \in Actions, ReaderPrepared(a)
    PROVE  (Shape /\ SplitInv)' /\ Final
<1> /\ OwnerInv /\ QueueInv /\ GateInv /\ ActionInv(a) /\ rt.gen \in Nat /\ rt.gen # 0
    /\ act[a] \in Entries /\ rt.state \in RtStates /\ Kind(a) \in Kinds /\ a # "free" /\ a # "close"
  BY Typed DEF SplitInv, ActionInv
<1>1. PICK bound \in BOOLEAN :
             act' = [act EXCEPT ![a] = [act[a] EXCEPT !.prep = "ready", !.target = bound /\ ~act[a].done /\ ~tr.closed]]
  BY DEF ReaderPrepared
<1>2. /\ act' = [act EXCEPT ![a] = [act[a] EXCEPT !.prep = "ready", !.target = bound /\ ~act[a].done /\ ~tr.closed]]
      /\ act[a].prep = "preparing"
      /\ UNCHANGED <<inst, rt, tr, queue, post, helper, conv, direct, gate, ghost>>
  BY <1>1 DEF ReaderPrepared, Shape
<1>3. [act[a] EXCEPT !.prep = "ready", !.target = bound /\ ~act[a].done /\ ~tr.closed] \in Entries
  BY <1>2 DEF Entries
<1>4. /\ act'[a] = [act[a] EXCEPT !.prep = "ready", !.target = bound /\ ~act[a].done /\ ~tr.closed]
      /\ \A q \in Actions \ {a} : act'[q] = act[q]
  BY <1>2 DEF Shape
<1>5. /\ SameClaim(a) /\ SameAnswer(a) /\ SameLease(a) /\ SameHelper(a)
      /\ act'[a].detached = act[a].detached /\ act'[a].brokered = act[a].brokered
      /\ act'[a].direct = act[a].direct /\ act'[a].prep = "ready"
  <2>1. SameClaim(a)
    BY <1>4 DEF Entries, SameClaim
  <2>2. SameAnswer(a)
    BY <1>4 DEF Entries, SameAnswer
  <2>3. SameLease(a)
    BY <1>4 DEF Entries, SameLease
  <2>4. SameHelper(a)
    BY <1>4 DEF Entries, SameHelper
  <2>5. /\ act'[a].detached = act[a].detached /\ act'[a].brokered = act[a].brokered
        /\ act'[a].direct = act[a].direct /\ act'[a].prep = "ready"
    BY <1>4 DEF Entries
  <2> QED
    BY <2>1, <2>2, <2>3, <2>4, <2>5
<1>6. Shape'
  <2>1. act' \in [Actions -> Entries]
    BY <1>2, <1>3 DEF Shape
  <2> QED
    BY <1>2, <2>1 DEF Shape
<1>7. /\ SameOwner /\ Queued' = Queued
      /\ Kind(a)' = Kind(a) /\ Clicks' = Clicks /\ Requests' = Requests
  BY <1>2, SameSets DEF SameOwner, Queued
<1>8. Others(a)
  BY <1>2, <1>4, <1>7 DEF Others, SameAction
<1>9. AdmittedInv(a)'
  BY <1>2, <1>5, <1>7 DEF ActionInv, AdmittedInv, Fresh, SameClaim, SameAnswer, SameLease,
     SameHelper
<1>10. ClaimInv(a)'
  BY <1>2, <1>5, <1>7 DEF ActionInv, ClaimInv, SameClaim, SameAnswer, SameLease, SameHelper
<1>11. LeaseInv(a)'
  BY <1>2, <1>5, <1>7 DEF ActionInv, LeaseInv, Unleased, SameClaim, SameAnswer, SameLease,
     SameHelper
<1>12. ToldInv(a)'
  BY <1>2, <1>5, <1>7 DEF ActionInv, ToldInv, Unanswered, SameClaim, SameAnswer, SameLease,
     SameHelper
<1>13. OwnerInv' /\ QueueInv'
  BY <1>2, <1>4, <1>5, <1>7, SameRest DEF HostAction, Of, SameClaim, SameAnswer, SameLease,
     SameHelper
<1>14. GateInv'
  BY <1>2, <1>4, <1>5, <1>7, SameGate DEF Unanswered, SameClaim, SameAnswer, SameLease, SameHelper
<1>15. Final
  <2>1. \A q \in Actions \ {a} : FinalFor(q)
    BY <1>4 DEF FinalFor
  <2>2. FinalFor(a)
    BY <1>2, <1>5 DEF FinalFor, SameClaim, SameAnswer
  <2>3. \A q \in ghost.cancelled : q \in ghost'.activated => q \in ghost.activated
    BY <1>2 DEF Shape
  <2> QED
    BY <2>1, <2>2, <2>3 DEF Final
<1> QED
  BY <1>6, <1>7, <1>8, <1>9, <1>10, <1>11, <1>12,
     <1>13, <1>14, <1>15, OneAction DEF ActionInv

\* The worker asks for the foreground.
LEMMA ReaderForegroundStep ==
    ASSUME Shape, SplitInv, NEW a \in Actions, NEW k, ReaderForeground(k, a)
    PROVE  (Shape /\ SplitInv)' /\ Final
<1> /\ OwnerInv /\ QueueInv /\ GateInv /\ ActionInv(a) /\ rt.gen \in Nat /\ rt.gen # 0
    /\ act[a] \in Entries /\ rt.state \in RtStates /\ Kind(a) \in Kinds /\ a # "free" /\ a # "close"
  BY Typed DEF SplitInv, ActionInv
<1>1. /\ act' = [act EXCEPT ![a] = [act[a] EXCEPT !.ready = TRUE]]
      /\ UNCHANGED <<inst, rt, tr, queue, post, helper, conv, direct, gate, ghost>>
  BY DEF ReaderForeground, Shape
<1>2. [act[a] EXCEPT !.ready = TRUE] \in Entries
  BY <1>1 DEF Entries
<1>3. /\ act'[a] = [act[a] EXCEPT !.ready = TRUE]
      /\ \A q \in Actions \ {a} : act'[q] = act[q]
  BY <1>1 DEF Shape
<1>4. SameClaim(a) /\ SameAnswer(a) /\ SameLease(a) /\ SameReader(a) /\ SameHelper(a)
  <2>1. SameClaim(a)
    BY <1>3 DEF Entries, SameClaim
  <2>2. SameAnswer(a)
    BY <1>3 DEF Entries, SameAnswer
  <2>3. SameLease(a)
    BY <1>3 DEF Entries, SameLease
  <2>4. SameReader(a)
    BY <1>3 DEF Entries, SameReader
  <2>5. SameHelper(a)
    BY <1>3 DEF Entries, SameHelper
  <2> QED
    BY <2>1, <2>2, <2>3, <2>4, <2>5
<1>5. Shape'
  <2>1. act' \in [Actions -> Entries]
    BY <1>1, <1>2 DEF Shape
  <2> QED
    BY <1>1, <2>1 DEF Shape
<1>6. /\ SameOwner /\ Queued' = Queued
      /\ Kind(a)' = Kind(a) /\ Clicks' = Clicks /\ Requests' = Requests
  BY <1>1, SameSets DEF SameOwner, Queued
<1>7. Others(a)
  BY <1>1, <1>3, <1>6 DEF Others, SameAction
<1>8. AdmittedInv(a)'
  BY <1>1, <1>4, <1>6 DEF ActionInv, AdmittedInv, Fresh, SameClaim, SameAnswer, SameLease,
     SameReader, SameHelper
<1>9. ClaimInv(a)'
  BY <1>1, <1>4, <1>6 DEF ActionInv, ClaimInv, SameClaim, SameAnswer, SameLease, SameReader,
     SameHelper
<1>10. LeaseInv(a)'
  BY <1>1, <1>4, <1>6 DEF ActionInv, LeaseInv, Unleased, SameClaim, SameAnswer, SameLease,
     SameReader, SameHelper
<1>11. ToldInv(a)'
  BY <1>1, <1>4, <1>6 DEF ActionInv, ToldInv, Unanswered, SameClaim, SameAnswer, SameLease,
     SameReader, SameHelper
<1>12. OwnerInv' /\ QueueInv'
  BY <1>1, <1>3, <1>4, <1>6, SameRest DEF HostAction, Of, SameClaim, SameAnswer, SameLease,
     SameReader, SameHelper
<1>13. GateInv'
  BY <1>1, <1>3, <1>4, <1>6, SameGate DEF Unanswered, SameClaim, SameAnswer, SameLease,
     SameReader, SameHelper
<1>14. Final
  <2>1. \A q \in Actions \ {a} : FinalFor(q)
    BY <1>3 DEF FinalFor
  <2>2. FinalFor(a)
    BY <1>1, <1>4 DEF FinalFor, SameClaim, SameAnswer
  <2>3. \A q \in ghost.cancelled : q \in ghost'.activated => q \in ghost.activated
    BY <1>1 DEF Shape
  <2> QED
    BY <2>1, <2>2, <2>3 DEF Final
<1> QED
  BY <1>5, <1>6, <1>7, <1>8, <1>9, <1>10, <1>11,
     <1>12, <1>13, <1>14, OneAction DEF ActionInv

\* The worker answers an action.
LEMMA ResultStep ==
    ASSUME Shape, SplitInv, NEW k, NEW a \in Actions, NEW ok \in BOOLEAN, Result(k, a, ok)
    PROVE  (Shape /\ SplitInv)' /\ Final
<1> /\ OwnerInv /\ QueueInv /\ GateInv /\ ActionInv(a) /\ rt.gen \in Nat /\ rt.gen # 0
    /\ act[a] \in Entries /\ rt.state \in RtStates /\ Kind(a) \in Kinds /\ a # "free" /\ a # "close"
  BY Typed DEF SplitInv, ActionInv
<1>1. PICK j \in BOOLEAN : act' = [act EXCEPT ![a] = [Released(act[a]) EXCEPT !.done = TRUE, !.ok = j]] /\ (j <=> Judged(a, ok))
  <2>1. Judged(a, ok) \in BOOLEAN
    BY DEF Judged
  <2> QED
    BY <2>1 DEF Result
<1>2. /\ act' = [act EXCEPT ![a] = [Released(act[a]) EXCEPT !.done = TRUE, !.ok = j]]
      /\ Dequeue(IF act[a].detached THEN {a} ELSE {})
      /\ Serving(k, a) /\ act[a].claimed /\ ~act[a].done /\ (j <=> Judged(a, ok))
      /\ tr' = [tr EXCEPT !.untracked = tr.untracked \/ Untracked(a, ok)]
      /\ UNCHANGED <<inst, rt, post, helper, conv, direct, gate, ghost>>
  BY <1>1 DEF Result, Shape, Accepted
<1>3. /\ tr'.key = tr.key /\ tr'.closed = tr.closed
      /\ tr'.untracked <=> (tr.untracked \/ Untracked(a, ok))
  BY <1>2 DEF Shape, Trs
<1>4. a \in Queued /\ act[a].by = rt.gen /\ ~act[a].direct
  BY <1>2 DEF Serving, Authorized, ActionInv, ClaimInv, OwnerInv
<1>5. rt.state = "closing" => ~Untracked(a, ok)
  BY <1>2, <1>4 DEF Untracked, ActionInv, LeaseInv, Unleased
<1>6. [Released(act[a]) EXCEPT !.done = TRUE, !.ok = j] \in Entries
  BY <1>2 DEF Entries, Released
<1>7. /\ act'[a] = [Released(act[a]) EXCEPT !.done = TRUE, !.ok = j]
      /\ \A q \in Actions \ {a} : act'[q] = act[q]
  BY <1>2 DEF Shape
<1>8. /\ SameClaim(a) /\ SameReader(a) /\ SameHelper(a) /\ act'[a].done /\ act'[a].ok = j
      /\ act'[a].lease = 0 /\ ~act'[a].borrowed
  <2>1. SameClaim(a)
    BY <1>7 DEF Entries, SameClaim, Released
  <2>2. SameReader(a)
    BY <1>7 DEF Entries, SameReader, Released
  <2>3. SameHelper(a)
    BY <1>7 DEF Entries, SameHelper, Released
  <2>4. act'[a].done /\ act'[a].ok = j /\ act'[a].lease = 0 /\ ~act'[a].borrowed
    BY <1>7 DEF Entries, Released
  <2> QED
    BY <2>1, <2>2, <2>3, <2>4
<1>9. Shape'
  <2>1. act' \in [Actions -> Entries]
    BY <1>2, <1>6 DEF Shape
  <2>2. queue' \in Seq(Actions)
    BY <1>2, DequeueQueue DEF Shape, QueueInv
  <2>3. tr' \in Trs
    BY <1>2 DEF Shape, Trs, Untracked
  <2> QED
    BY <1>2, <2>1, <2>2, <2>3 DEF Shape
<1>10. /\ SameOwner /\ Queued' = Queued \ (IF act[a].detached THEN {a} ELSE {})
      /\ Kind(a)' = Kind(a) /\ Clicks' = Clicks /\ Requests' = Requests
  BY <1>2, SameSets, DequeueQueue DEF SameOwner, Shape, QueueInv, Trs
<1>11. Others(a)
  BY <1>2, <1>7, <1>10 DEF Others, SameAction
<1>12. AdmittedInv(a)'
  BY <1>2, <1>8, <1>10, <1>3, <1>4, <1>5 DEF ActionInv, AdmittedInv, Fresh, SameClaim,
     SameReader, SameHelper
<1>13. ClaimInv(a)'
  BY <1>2, <1>8, <1>10, <1>3, <1>4, <1>5 DEF ActionInv, ClaimInv, SameClaim, SameReader,
     SameHelper, Untracked, Judged
<1>14. LeaseInv(a)'
  BY <1>2, <1>8, <1>10, <1>3, <1>4, <1>5 DEF ActionInv, LeaseInv, Unleased, SameClaim,
     SameReader, SameHelper, AdmittedInv, Fresh
<1>15. ToldInv(a)'
  BY <1>2, <1>8, <1>10, <1>3, <1>4, <1>5 DEF ActionInv, ToldInv, Unanswered, SameClaim,
     SameReader, SameHelper, Judged, Clicks, Of, AdmittedInv
<1>16. OwnerInv' /\ QueueInv'
  <2>1. OwnerInv'
    BY <1>2, <1>10, <1>3, <1>5 DEF OwnerInv, SameOwner
  <2>2. \A q \in HostAction : act[q].done => act'[q].done
    BY <1>2, <1>7, <1>8, <1>3, <1>4, <1>5 DEF HostAction, Of, ActionInv, SameClaim, SameReader,
       SameHelper
  <2> QED
    BY <1>2, <1>10, <2>1, <2>2, <1>3, <1>4, <1>5, SmallerQueue
<1>17. GateInv'
  BY <1>2, <1>7, <1>8, <1>10, SameGate, <1>3, <1>4, <1>5 DEF Unanswered, SameClaim, SameReader,
     SameHelper
<1>18. Final
  <2>1. \A q \in Actions \ {a} : FinalFor(q)
    BY <1>7 DEF FinalFor
  <2>2. FinalFor(a)
    BY <1>2, <1>8, <1>3, <1>4, <1>5 DEF FinalFor, SameClaim, SameAnswer
  <2>3. \A q \in ghost.cancelled : q \in ghost'.activated => q \in ghost.activated
    BY <1>2 DEF Shape
  <2> QED
    BY <2>1, <2>2, <2>3 DEF Final
<1> QED
  BY <1>9, <1>10, <1>11, <1>12, <1>13, <1>14, <1>15,
     <1>16, <1>17, <1>18, OneAction DEF ActionInv

\* The helper of a click begins.
LEMMA HelperBeginStep ==
    ASSUME Shape, SplitInv, NEW a \in Actions, HelperBegin(a)
    PROVE  (Shape /\ SplitInv)' /\ Final
<1> /\ OwnerInv /\ QueueInv /\ GateInv /\ ActionInv(a) /\ rt.gen \in Nat /\ rt.gen # 0
    /\ act[a] \in Entries /\ rt.state \in RtStates /\ Kind(a) \in Kinds /\ a # "free" /\ a # "close"
  BY Typed DEF SplitInv, ActionInv
<1>1. /\ helper' = [helper EXCEPT ![a] = IF conv[a] = "none" THEN "waiting" ELSE "end"]
      /\ conv' = [conv EXCEPT ![a] = IF conv[a] = "none" THEN "active" ELSE conv[a]]
      /\ a \in Clicks /\ helper[a] = "none"
      /\ UNCHANGED <<inst, rt, tr, queue, act, post, direct, gate, ghost>>
  BY DEF HelperBegin, Shape
<1>2. Shape'
  <2>1. helper' \in [Actions -> HelperStates]
    BY <1>1 DEF Shape, HelperStates
  <2>2. conv' \in [Actions -> {"none", "active", "cancelled"}]
    BY <1>1 DEF Shape
  <2> QED
    BY <1>1, <2>1, <2>2 DEF Shape
<1>3. /\ helper'[a] = (IF conv[a] = "none" THEN "waiting" ELSE "end") /\ (\A q \in Actions \ {a} : helper'[q] = helper[q])
      /\ conv'[a] = (IF conv[a] = "none" THEN "active" ELSE conv[a]) /\ (\A q \in Actions \ {a} : conv'[q] = conv[q])
  BY <1>1 DEF Shape, Posts, Directs
<1>4. /\ SameOwner /\ Queued' = Queued
      /\ Kind(a)' = Kind(a) /\ Clicks' = Clicks /\ Requests' = Requests
  BY <1>1, SameSets DEF SameOwner, Queued
<1>5. Others(a)
  BY <1>1, <1>3, <1>4 DEF Others, SameAction
<1>6. AdmittedInv(a)'
  BY <1>1, <1>3, <1>4 DEF ActionInv, AdmittedInv, Fresh
<1>7. ClaimInv(a)'
  BY <1>1, <1>3, <1>4 DEF ActionInv, ClaimInv
<1>8. LeaseInv(a)'
  BY <1>1, <1>3, <1>4 DEF ActionInv, LeaseInv, Unleased
<1>9. ToldInv(a)'
  BY <1>1, <1>3, <1>4 DEF ActionInv, ToldInv, Unanswered
<1>10. OwnerInv' /\ QueueInv'
  BY <1>1, <1>4, SameRest DEF HostAction, Of
<1>11. GateInv'
  BY <1>1, <1>3, <1>4, SameGate DEF Unanswered
<1>12. Final
  BY <1>1 DEF Final, FinalFor, Shape
<1> QED
  BY <1>2, <1>4, <1>5, <1>6, <1>7, <1>8, <1>9,
     <1>10, <1>11, <1>12, OneAction DEF ActionInv

\* The helper finds the action of its click.
LEMMA HelperAttachStep ==
    ASSUME Shape, SplitInv, NEW a \in Actions, HelperAttach(a)
    PROVE  (Shape /\ SplitInv)' /\ Final
<1> /\ OwnerInv /\ QueueInv /\ GateInv /\ ActionInv(a) /\ rt.gen \in Nat /\ rt.gen # 0
    /\ act[a] \in Entries /\ rt.state \in RtStates /\ Kind(a) \in Kinds /\ a # "free" /\ a # "close"
  BY Typed DEF SplitInv, ActionInv
<1>1. /\ act' = [act EXCEPT ![a] = [act[a] EXCEPT !.attached = TRUE]]
      /\ helper' = [helper EXCEPT ![a] = "attached"]
      /\ helper[a] = "waiting" /\ a \in Queued /\ ~act[a].done
      /\ UNCHANGED <<inst, rt, tr, queue, post, conv, direct, gate, ghost>>
  BY DEF HelperAttach, Shape, Unanswered
<1>2. [act[a] EXCEPT !.attached = TRUE] \in Entries
  BY <1>1 DEF Entries
<1>3. /\ act'[a] = [act[a] EXCEPT !.attached = TRUE]
      /\ \A q \in Actions \ {a} : act'[q] = act[q]
  BY <1>1 DEF Shape
<1>4. /\ SameClaim(a) /\ SameAnswer(a) /\ SameLease(a) /\ SameReader(a) /\ act'[a].attached
      /\ act'[a].verified = act[a].verified /\ act'[a].manual = act[a].manual
      /\ act'[a].told = act[a].told
  <2>1. SameClaim(a)
    BY <1>3 DEF Entries, SameClaim
  <2>2. SameAnswer(a)
    BY <1>3 DEF Entries, SameAnswer
  <2>3. SameLease(a)
    BY <1>3 DEF Entries, SameLease
  <2>4. SameReader(a)
    BY <1>3 DEF Entries, SameReader
  <2>5. /\ act'[a].attached /\ act'[a].verified = act[a].verified /\ act'[a].manual = act[a].manual
        /\ act'[a].told = act[a].told
    BY <1>3 DEF Entries
  <2> QED
    BY <2>1, <2>2, <2>3, <2>4, <2>5
<1>5. Shape'
  <2>1. act' \in [Actions -> Entries]
    BY <1>1, <1>2 DEF Shape
  <2>2. helper' \in [Actions -> HelperStates]
    BY <1>1 DEF Shape, HelperStates
  <2> QED
    BY <1>1, <2>1, <2>2 DEF Shape
<1>6. /\ helper'[a] = "attached" /\ (\A q \in Actions \ {a} : helper'[q] = helper[q])
  BY <1>1 DEF Shape, Posts, Directs
<1>7. /\ SameOwner /\ Queued' = Queued
      /\ Kind(a)' = Kind(a) /\ Clicks' = Clicks /\ Requests' = Requests
  BY <1>1, SameSets DEF SameOwner, Queued
<1>8. Others(a)
  BY <1>1, <1>3, <1>6, <1>7 DEF Others, SameAction
<1>9. AdmittedInv(a)'
  BY <1>1, <1>4, <1>6, <1>7 DEF ActionInv, AdmittedInv, Fresh, SameClaim, SameAnswer, SameLease,
     SameReader
<1>10. ClaimInv(a)'
  BY <1>1, <1>4, <1>6, <1>7 DEF ActionInv, ClaimInv, SameClaim, SameAnswer, SameLease, SameReader
<1>11. LeaseInv(a)'
  BY <1>1, <1>4, <1>6, <1>7 DEF ActionInv, LeaseInv, Unleased, SameClaim, SameAnswer, SameLease,
     SameReader
<1>12. ToldInv(a)'
  BY <1>1, <1>4, <1>6, <1>7 DEF ActionInv, ToldInv, Unanswered, SameClaim, SameAnswer, SameLease,
     SameReader
<1>13. OwnerInv' /\ QueueInv'
  BY <1>1, <1>3, <1>4, <1>7, SameRest DEF HostAction, Of, SameClaim, SameAnswer, SameLease,
     SameReader
<1>14. GateInv'
  BY <1>1, <1>3, <1>4, <1>6, <1>7, SameGate DEF Unanswered, SameClaim, SameAnswer, SameLease,
     SameReader
<1>15. Final
  <2>1. \A q \in Actions \ {a} : FinalFor(q)
    BY <1>3 DEF FinalFor
  <2>2. FinalFor(a)
    BY <1>1, <1>4 DEF FinalFor, SameClaim, SameAnswer
  <2>3. \A q \in ghost.cancelled : q \in ghost'.activated => q \in ghost.activated
    BY <1>1 DEF Shape
  <2> QED
    BY <2>1, <2>2, <2>3 DEF Final
<1> QED
  BY <1>5, <1>7, <1>8, <1>9, <1>10, <1>11, <1>12,
     <1>13, <1>14, <1>15, OneAction DEF ActionInv

\* The helper stops before the action is ready.
LEMMA HelperStopsStep ==
    ASSUME Shape, SplitInv, NEW a \in Actions, HelperStops(a)
    PROVE  (Shape /\ SplitInv)' /\ Final
<1> /\ OwnerInv /\ QueueInv /\ GateInv /\ ActionInv(a) /\ rt.gen \in Nat /\ rt.gen # 0
    /\ act[a] \in Entries /\ rt.state \in RtStates /\ Kind(a) \in Kinds /\ a # "free" /\ a # "close"
  BY Typed DEF SplitInv, ActionInv
<1>1. /\ act' = [act EXCEPT ![a] = [act[a] EXCEPT !.told = IF act[a].attached THEN "failed" ELSE act[a].told]]
      /\ helper' = [helper EXCEPT ![a] = "end"]
      /\ conv' = [conv EXCEPT ![a] = "cancelled"]
      /\ helper[a] \in {"waiting", "attached"}
      /\ UNCHANGED <<inst, rt, tr, queue, post, direct, gate, ghost>>
  BY DEF HelperStops, Shape, HelperEnds
<1>2. [act[a] EXCEPT !.told = IF act[a].attached THEN "failed" ELSE act[a].told] \in Entries
  BY <1>1 DEF Entries
<1>3. /\ act'[a] = [act[a] EXCEPT !.told = IF act[a].attached THEN "failed" ELSE act[a].told]
      /\ \A q \in Actions \ {a} : act'[q] = act[q]
  BY <1>1 DEF Shape
<1>4. /\ SameClaim(a) /\ SameAnswer(a) /\ SameLease(a) /\ SameReader(a)
      /\ act'[a].attached = act[a].attached /\ act'[a].verified = act[a].verified
      /\ act'[a].manual = act[a].manual
      /\ act'[a].told = (IF act[a].attached THEN "failed" ELSE act[a].told)
  <2>1. SameClaim(a)
    BY <1>3 DEF Entries, SameClaim
  <2>2. SameAnswer(a)
    BY <1>3 DEF Entries, SameAnswer
  <2>3. SameLease(a)
    BY <1>3 DEF Entries, SameLease
  <2>4. SameReader(a)
    BY <1>3 DEF Entries, SameReader
  <2>5. /\ act'[a].attached = act[a].attached /\ act'[a].verified = act[a].verified
        /\ act'[a].manual = act[a].manual
        /\ act'[a].told = (IF act[a].attached THEN "failed" ELSE act[a].told)
    BY <1>3 DEF Entries
  <2> QED
    BY <2>1, <2>2, <2>3, <2>4, <2>5
<1>5. Shape'
  <2>1. act' \in [Actions -> Entries]
    BY <1>1, <1>2 DEF Shape
  <2>2. helper' \in [Actions -> HelperStates]
    BY <1>1 DEF Shape, HelperStates
  <2>3. conv' \in [Actions -> {"none", "active", "cancelled"}]
    BY <1>1 DEF Shape
  <2> QED
    BY <1>1, <2>1, <2>2, <2>3 DEF Shape
<1>6. /\ helper'[a] = "end" /\ (\A q \in Actions \ {a} : helper'[q] = helper[q])
      /\ conv'[a] = "cancelled" /\ (\A q \in Actions \ {a} : conv'[q] = conv[q])
  BY <1>1 DEF Shape, Posts, Directs
<1>7. /\ SameOwner /\ Queued' = Queued
      /\ Kind(a)' = Kind(a) /\ Clicks' = Clicks /\ Requests' = Requests
  BY <1>1, SameSets DEF SameOwner, Queued
<1>8. Others(a)
  BY <1>1, <1>3, <1>6, <1>7 DEF Others, SameAction
<1>9. AdmittedInv(a)'
  BY <1>1, <1>4, <1>6, <1>7 DEF ActionInv, AdmittedInv, Fresh, SameClaim, SameAnswer, SameLease,
     SameReader
<1>10. ClaimInv(a)'
  BY <1>1, <1>4, <1>6, <1>7 DEF ActionInv, ClaimInv, SameClaim, SameAnswer, SameLease, SameReader
<1>11. LeaseInv(a)'
  BY <1>1, <1>4, <1>6, <1>7 DEF ActionInv, LeaseInv, Unleased, SameClaim, SameAnswer, SameLease,
     SameReader
<1>12. ToldInv(a)'
  BY <1>1, <1>4, <1>6, <1>7 DEF ActionInv, ToldInv, Unanswered, SameClaim, SameAnswer, SameLease,
     SameReader
<1>13. OwnerInv' /\ QueueInv'
  BY <1>1, <1>3, <1>4, <1>7, SameRest DEF HostAction, Of, SameClaim, SameAnswer, SameLease,
     SameReader
<1>14. GateInv'
  BY <1>1, <1>3, <1>4, <1>6, <1>7, SameGate DEF Unanswered, SameClaim, SameAnswer, SameLease,
     SameReader
<1>15. Final
  <2>1. \A q \in Actions \ {a} : FinalFor(q)
    BY <1>3 DEF FinalFor
  <2>2. FinalFor(a)
    BY <1>1, <1>4 DEF FinalFor, SameClaim, SameAnswer
  <2>3. \A q \in ghost.cancelled : q \in ghost'.activated => q \in ghost.activated
    BY <1>1 DEF Shape
  <2> QED
    BY <2>1, <2>2, <2>3 DEF Final
<1> QED
  BY <1>5, <1>7, <1>8, <1>9, <1>10, <1>11, <1>12,
     <1>13, <1>14, <1>15, OneAction DEF ActionInv

\* The helper goes on with the target.
LEMMA HelperGoesStep ==
    ASSUME Shape, SplitInv, NEW a \in Actions, HelperReady(a), act[a].target
    PROVE  (Shape /\ SplitInv)' /\ Final
<1> /\ OwnerInv /\ QueueInv /\ GateInv /\ ActionInv(a) /\ rt.gen \in Nat /\ rt.gen # 0
    /\ act[a] \in Entries /\ rt.state \in RtStates /\ Kind(a) \in Kinds /\ a # "free" /\ a # "close"
  BY Typed DEF SplitInv, ActionInv
<1>1. /\ act' = [act EXCEPT ![a] = [act[a] EXCEPT !.target = FALSE]]
      /\ helper' = [helper EXCEPT ![a] = "activate"]
      /\ helper[a] = "attached"
      /\ UNCHANGED <<inst, rt, tr, queue, post, conv, direct, gate, ghost>>
  BY DEF HelperReady, Shape
<1>2. [act[a] EXCEPT !.target = FALSE] \in Entries
  BY <1>1 DEF Entries
<1>3. /\ act'[a] = [act[a] EXCEPT !.target = FALSE]
      /\ \A q \in Actions \ {a} : act'[q] = act[q]
  BY <1>1 DEF Shape
<1>4. SameClaim(a) /\ SameAnswer(a) /\ SameLease(a) /\ SameReader(a) /\ SameHelper(a)
  <2>1. SameClaim(a)
    BY <1>3 DEF Entries, SameClaim
  <2>2. SameAnswer(a)
    BY <1>3 DEF Entries, SameAnswer
  <2>3. SameLease(a)
    BY <1>3 DEF Entries, SameLease
  <2>4. SameReader(a)
    BY <1>3 DEF Entries, SameReader
  <2>5. SameHelper(a)
    BY <1>3 DEF Entries, SameHelper
  <2> QED
    BY <2>1, <2>2, <2>3, <2>4, <2>5
<1>5. Shape'
  <2>1. act' \in [Actions -> Entries]
    BY <1>1, <1>2 DEF Shape
  <2>2. helper' \in [Actions -> HelperStates]
    BY <1>1 DEF Shape, HelperStates
  <2> QED
    BY <1>1, <2>1, <2>2 DEF Shape
<1>6. /\ helper'[a] = "activate" /\ (\A q \in Actions \ {a} : helper'[q] = helper[q])
  BY <1>1 DEF Shape, Posts, Directs
<1>7. /\ SameOwner /\ Queued' = Queued
      /\ Kind(a)' = Kind(a) /\ Clicks' = Clicks /\ Requests' = Requests
  BY <1>1, SameSets DEF SameOwner, Queued
<1>8. Others(a)
  BY <1>1, <1>3, <1>6, <1>7 DEF Others, SameAction
<1>9. AdmittedInv(a)'
  BY <1>1, <1>4, <1>6, <1>7 DEF ActionInv, AdmittedInv, Fresh, SameClaim, SameAnswer, SameLease,
     SameReader, SameHelper
<1>10. ClaimInv(a)'
  BY <1>1, <1>4, <1>6, <1>7 DEF ActionInv, ClaimInv, SameClaim, SameAnswer, SameLease,
     SameReader, SameHelper
<1>11. LeaseInv(a)'
  BY <1>1, <1>4, <1>6, <1>7 DEF ActionInv, LeaseInv, Unleased, SameClaim, SameAnswer, SameLease,
     SameReader, SameHelper
<1>12. ToldInv(a)'
  BY <1>1, <1>4, <1>6, <1>7 DEF ActionInv, ToldInv, Unanswered, SameClaim, SameAnswer, SameLease,
     SameReader, SameHelper
<1>13. OwnerInv' /\ QueueInv'
  BY <1>1, <1>3, <1>4, <1>7, SameRest DEF HostAction, Of, SameClaim, SameAnswer, SameLease,
     SameReader, SameHelper
<1>14. GateInv'
  BY <1>1, <1>3, <1>4, <1>6, <1>7, SameGate DEF Unanswered, SameClaim, SameAnswer, SameLease,
     SameReader, SameHelper
<1>15. Final
  <2>1. \A q \in Actions \ {a} : FinalFor(q)
    BY <1>3 DEF FinalFor
  <2>2. FinalFor(a)
    BY <1>1, <1>4 DEF FinalFor, SameClaim, SameAnswer
  <2>3. \A q \in ghost.cancelled : q \in ghost'.activated => q \in ghost.activated
    BY <1>1 DEF Shape
  <2> QED
    BY <2>1, <2>2, <2>3 DEF Final
<1> QED
  BY <1>5, <1>7, <1>8, <1>9, <1>10, <1>11, <1>12,
     <1>13, <1>14, <1>15, OneAction DEF ActionInv

\* The helper finds no target.
LEMMA HelperFailsStep ==
    ASSUME Shape, SplitInv, NEW a \in Actions, HelperReady(a), ~act[a].target
    PROVE  (Shape /\ SplitInv)' /\ Final
<1> /\ OwnerInv /\ QueueInv /\ GateInv /\ ActionInv(a) /\ rt.gen \in Nat /\ rt.gen # 0
    /\ act[a] \in Entries /\ rt.state \in RtStates /\ Kind(a) \in Kinds /\ a # "free" /\ a # "close"
  BY Typed DEF SplitInv, ActionInv
<1>1. /\ act' = [act EXCEPT ![a] = [act[a] EXCEPT !.told = IF act[a].attached THEN "failed" ELSE act[a].told]]
      /\ helper' = [helper EXCEPT ![a] = "end"]
      /\ conv' = [conv EXCEPT ![a] = "cancelled"]
      /\ helper[a] = "attached"
      /\ UNCHANGED <<inst, rt, tr, queue, post, direct, gate, ghost>>
  BY DEF HelperReady, Shape, HelperEnds
<1>2. [act[a] EXCEPT !.told = IF act[a].attached THEN "failed" ELSE act[a].told] \in Entries
  BY <1>1 DEF Entries
<1>3. /\ act'[a] = [act[a] EXCEPT !.told = IF act[a].attached THEN "failed" ELSE act[a].told]
      /\ \A q \in Actions \ {a} : act'[q] = act[q]
  BY <1>1 DEF Shape
<1>4. /\ SameClaim(a) /\ SameAnswer(a) /\ SameLease(a) /\ SameReader(a)
      /\ act'[a].attached = act[a].attached /\ act'[a].verified = act[a].verified
      /\ act'[a].manual = act[a].manual
      /\ act'[a].told = (IF act[a].attached THEN "failed" ELSE act[a].told)
  <2>1. SameClaim(a)
    BY <1>3 DEF Entries, SameClaim
  <2>2. SameAnswer(a)
    BY <1>3 DEF Entries, SameAnswer
  <2>3. SameLease(a)
    BY <1>3 DEF Entries, SameLease
  <2>4. SameReader(a)
    BY <1>3 DEF Entries, SameReader
  <2>5. /\ act'[a].attached = act[a].attached /\ act'[a].verified = act[a].verified
        /\ act'[a].manual = act[a].manual
        /\ act'[a].told = (IF act[a].attached THEN "failed" ELSE act[a].told)
    BY <1>3 DEF Entries
  <2> QED
    BY <2>1, <2>2, <2>3, <2>4, <2>5
<1>5. Shape'
  <2>1. act' \in [Actions -> Entries]
    BY <1>1, <1>2 DEF Shape
  <2>2. helper' \in [Actions -> HelperStates]
    BY <1>1 DEF Shape, HelperStates
  <2>3. conv' \in [Actions -> {"none", "active", "cancelled"}]
    BY <1>1 DEF Shape
  <2> QED
    BY <1>1, <2>1, <2>2, <2>3 DEF Shape
<1>6. /\ helper'[a] = "end" /\ (\A q \in Actions \ {a} : helper'[q] = helper[q])
      /\ conv'[a] = "cancelled" /\ (\A q \in Actions \ {a} : conv'[q] = conv[q])
  BY <1>1 DEF Shape, Posts, Directs
<1>7. /\ SameOwner /\ Queued' = Queued
      /\ Kind(a)' = Kind(a) /\ Clicks' = Clicks /\ Requests' = Requests
  BY <1>1, SameSets DEF SameOwner, Queued
<1>8. Others(a)
  BY <1>1, <1>3, <1>6, <1>7 DEF Others, SameAction
<1>9. AdmittedInv(a)'
  BY <1>1, <1>4, <1>6, <1>7 DEF ActionInv, AdmittedInv, Fresh, SameClaim, SameAnswer, SameLease,
     SameReader
<1>10. ClaimInv(a)'
  BY <1>1, <1>4, <1>6, <1>7 DEF ActionInv, ClaimInv, SameClaim, SameAnswer, SameLease, SameReader
<1>11. LeaseInv(a)'
  BY <1>1, <1>4, <1>6, <1>7 DEF ActionInv, LeaseInv, Unleased, SameClaim, SameAnswer, SameLease,
     SameReader
<1>12. ToldInv(a)'
  BY <1>1, <1>4, <1>6, <1>7 DEF ActionInv, ToldInv, Unanswered, SameClaim, SameAnswer, SameLease,
     SameReader
<1>13. OwnerInv' /\ QueueInv'
  BY <1>1, <1>3, <1>4, <1>7, SameRest DEF HostAction, Of, SameClaim, SameAnswer, SameLease,
     SameReader
<1>14. GateInv'
  BY <1>1, <1>3, <1>4, <1>6, <1>7, SameGate DEF Unanswered, SameClaim, SameAnswer, SameLease,
     SameReader
<1>15. Final
  <2>1. \A q \in Actions \ {a} : FinalFor(q)
    BY <1>3 DEF FinalFor
  <2>2. FinalFor(a)
    BY <1>1, <1>4 DEF FinalFor, SameClaim, SameAnswer
  <2>3. \A q \in ghost.cancelled : q \in ghost'.activated => q \in ghost.activated
    BY <1>1 DEF Shape
  <2> QED
    BY <2>1, <2>2, <2>3 DEF Final
<1> QED
  BY <1>5, <1>7, <1>8, <1>9, <1>10, <1>11, <1>12,
     <1>13, <1>14, <1>15, OneAction DEF ActionInv

\* The window is brought forward.
LEMMA HelperActivateStep ==
    ASSUME Shape, SplitInv, NEW a \in Actions, HelperActivate(a)
    PROVE  (Shape /\ SplitInv)' /\ Final
<1> /\ OwnerInv /\ QueueInv /\ GateInv /\ ActionInv(a) /\ rt.gen \in Nat /\ rt.gen # 0
    /\ act[a] \in Entries /\ rt.state \in RtStates /\ Kind(a) \in Kinds /\ a # "free" /\ a # "close"
  BY Typed DEF SplitInv, ActionInv
<1>1. PICK outcome \in {"verified", "rejected", "manual"} :
         helper' = [helper EXCEPT ![a] = outcome] /\ (outcome = "manual" => act[a].direct)
  BY DEF HelperActivate
<1>2. /\ helper' = [helper EXCEPT ![a] = outcome]
      /\ ghost' = [ghost EXCEPT !.activated = ghost.activated \cup {a}]
      /\ helper[a] = "activate" /\ (outcome = "manual" => act[a].direct)
      /\ UNCHANGED <<inst, rt, tr, queue, act, post, conv, direct, gate>>
  BY <1>1 DEF HelperActivate, Shape
<1>3. Shape'
  <2>1. helper' \in [Actions -> HelperStates]
    BY <1>2 DEF Shape, HelperStates
  <2>2. ghost' \in [activated : SUBSET Actions, cancelled : SUBSET Actions]
    BY <1>2 DEF Shape
  <2> QED
    BY <1>2, <2>1, <2>2 DEF Shape
<1>4. /\ helper'[a] = outcome /\ (\A q \in Actions \ {a} : helper'[q] = helper[q])
      /\ ghost'.cancelled = ghost.cancelled
  BY <1>2 DEF Shape, Posts, Directs
<1>5. /\ SameOwner /\ Queued' = Queued
      /\ Kind(a)' = Kind(a) /\ Clicks' = Clicks /\ Requests' = Requests
  BY <1>2, SameSets DEF SameOwner, Queued
<1>6. Others(a)
  BY <1>2, <1>4, <1>5 DEF Others, SameAction
<1>7. AdmittedInv(a)'
  BY <1>2, <1>4, <1>5 DEF ActionInv, AdmittedInv, Fresh
<1>8. ClaimInv(a)'
  BY <1>2, <1>4, <1>5 DEF ActionInv, ClaimInv
<1>9. LeaseInv(a)'
  BY <1>2, <1>4, <1>5 DEF ActionInv, LeaseInv, Unleased
<1>10. ToldInv(a)'
  BY <1>2, <1>4, <1>5 DEF ActionInv, ToldInv, Unanswered
<1>11. OwnerInv' /\ QueueInv'
  BY <1>2, <1>5, SameRest DEF HostAction, Of
<1>12. GateInv'
  BY <1>2, <1>4, <1>5, SameGate DEF Unanswered
<1>13. Final
  BY <1>2 DEF Final, FinalFor, Shape, ActionInv, ToldInv
<1> QED
  BY <1>3, <1>5, <1>6, <1>7, <1>8, <1>9, <1>10,
     <1>11, <1>12, <1>13, OneAction DEF ActionInv

\* The outcome of the helper is recorded.
LEMMA HelperRecordStep ==
    ASSUME Shape, SplitInv, NEW a \in Actions, HelperRecord(a)
    PROVE  (Shape /\ SplitInv)' /\ Final
<1> /\ OwnerInv /\ QueueInv /\ GateInv /\ ActionInv(a) /\ rt.gen \in Nat /\ rt.gen # 0
    /\ act[a] \in Entries /\ rt.state \in RtStates /\ Kind(a) \in Kinds /\ a # "free" /\ a # "close"
  BY Typed DEF SplitInv, ActionInv
<1>1. PICK v \in BOOLEAN, m \in BOOLEAN :
         /\ act' = [act EXCEPT ![a] = [act[a] EXCEPT !.verified = v, !.manual = m,
                          !.told = IF helper[a] = "rejected" THEN "failed" ELSE "opened"]]
         /\ (v <=> helper[a] = "verified") /\ (m <=> helper[a] = "manual")
  <2>1. (helper[a] = "verified") \in BOOLEAN /\ (helper[a] = "manual") \in BOOLEAN
    OBVIOUS
  <2>2. act' = [act EXCEPT ![a] = [act[a] EXCEPT !.verified = (helper[a] = "verified"), !.manual = (helper[a] = "manual"),
                                   !.told = IF helper[a] = "rejected" THEN "failed" ELSE "opened"]]
    BY DEF HelperRecord, Shape
  <2> QED
    BY <2>1, <2>2
<1>2. /\ act' = [act EXCEPT ![a] = [act[a] EXCEPT !.verified = v, !.manual = m, !.told = IF helper[a] = "rejected" THEN "failed" ELSE "opened"]]
      /\ helper' = [helper EXCEPT ![a] = "end"]
      /\ conv' = [conv EXCEPT ![a] = "cancelled"]
      /\ helper[a] \in {"verified", "manual", "rejected"}
      /\ (v <=> helper[a] = "verified") /\ (m <=> helper[a] = "manual")
      /\ UNCHANGED <<inst, rt, tr, queue, post, direct, gate, ghost>>
  BY <1>1 DEF HelperRecord, Shape
<1>3. [act[a] EXCEPT !.verified = v, !.manual = m, !.told = IF helper[a] = "rejected" THEN "failed" ELSE "opened"] \in Entries
  BY <1>2 DEF Entries
<1>4. /\ act'[a] = [act[a] EXCEPT !.verified = v, !.manual = m, !.told = IF helper[a] = "rejected" THEN "failed" ELSE "opened"]
      /\ \A q \in Actions \ {a} : act'[q] = act[q]
  BY <1>2 DEF Shape
<1>5. /\ SameClaim(a) /\ SameAnswer(a) /\ SameLease(a) /\ SameReader(a)
      /\ act'[a].attached = act[a].attached /\ act'[a].verified = v /\ act'[a].manual = m
      /\ act'[a].told = (IF helper[a] = "rejected" THEN "failed" ELSE "opened")
  <2>1. SameClaim(a)
    BY <1>4 DEF Entries, SameClaim
  <2>2. SameAnswer(a)
    BY <1>4 DEF Entries, SameAnswer
  <2>3. SameLease(a)
    BY <1>4 DEF Entries, SameLease
  <2>4. SameReader(a)
    BY <1>4 DEF Entries, SameReader
  <2>5. /\ act'[a].attached = act[a].attached /\ act'[a].verified = v /\ act'[a].manual = m
        /\ act'[a].told = (IF helper[a] = "rejected" THEN "failed" ELSE "opened")
    BY <1>4 DEF Entries
  <2> QED
    BY <2>1, <2>2, <2>3, <2>4, <2>5
<1>6. Shape'
  <2>1. act' \in [Actions -> Entries]
    BY <1>2, <1>3 DEF Shape
  <2>2. helper' \in [Actions -> HelperStates]
    BY <1>2 DEF Shape, HelperStates
  <2>3. conv' \in [Actions -> {"none", "active", "cancelled"}]
    BY <1>2 DEF Shape
  <2> QED
    BY <1>2, <2>1, <2>2, <2>3 DEF Shape
<1>7. /\ helper'[a] = "end" /\ (\A q \in Actions \ {a} : helper'[q] = helper[q])
      /\ conv'[a] = "cancelled" /\ (\A q \in Actions \ {a} : conv'[q] = conv[q])
  BY <1>2 DEF Shape, Posts, Directs
<1>8. /\ SameOwner /\ Queued' = Queued
      /\ Kind(a)' = Kind(a) /\ Clicks' = Clicks /\ Requests' = Requests
  BY <1>2, SameSets DEF SameOwner, Queued
<1>9. Others(a)
  BY <1>2, <1>4, <1>7, <1>8 DEF Others, SameAction
<1>10. AdmittedInv(a)'
  BY <1>2, <1>5, <1>7, <1>8 DEF ActionInv, AdmittedInv, Fresh, SameClaim, SameAnswer, SameLease,
     SameReader, ToldInv
<1>11. ClaimInv(a)'
  BY <1>2, <1>5, <1>7, <1>8 DEF ActionInv, ClaimInv, SameClaim, SameAnswer, SameLease, SameReader
<1>12. LeaseInv(a)'
  BY <1>2, <1>5, <1>7, <1>8 DEF ActionInv, LeaseInv, Unleased, SameClaim, SameAnswer, SameLease,
     SameReader
<1>13. ToldInv(a)'
  BY <1>2, <1>5, <1>7, <1>8 DEF ActionInv, ToldInv, Unanswered, SameClaim, SameAnswer, SameLease,
     SameReader
<1>14. OwnerInv' /\ QueueInv'
  BY <1>2, <1>4, <1>5, <1>8, SameRest DEF HostAction, Of, SameClaim, SameAnswer, SameLease,
     SameReader
<1>15. GateInv'
  BY <1>2, <1>4, <1>5, <1>7, <1>8, SameGate DEF Unanswered, SameClaim, SameAnswer, SameLease,
     SameReader
<1>16. Final
  <2>1. \A q \in Actions \ {a} : FinalFor(q)
    BY <1>4 DEF FinalFor
  <2>2. FinalFor(a)
    BY <1>2, <1>5 DEF FinalFor, SameClaim, SameAnswer
  <2>3. \A q \in ghost.cancelled : q \in ghost'.activated => q \in ghost.activated
    BY <1>2 DEF Shape
  <2> QED
    BY <2>1, <2>2, <2>3 DEF Final
<1> QED
  BY <1>6, <1>8, <1>9, <1>10, <1>11, <1>12, <1>13,
     <1>14, <1>15, <1>16, OneAction DEF ActionInv

\* A click is cancelled, its action with it.
LEMMA CancelQueuedStep ==
    ASSUME Shape, SplitInv, NEW a \in Actions, CancelReaderBroker(a), a \in Unanswered
    PROVE  (Shape /\ SplitInv)' /\ Final
<1> /\ OwnerInv /\ QueueInv /\ GateInv /\ ActionInv(a) /\ rt.gen \in Nat /\ rt.gen # 0
    /\ act[a] \in Entries /\ rt.state \in RtStates /\ Kind(a) \in Kinds /\ a # "free" /\ a # "close"
  BY Typed DEF SplitInv, ActionInv
<1>1. /\ act' = [act EXCEPT ![a] = [Released(act[a]) EXCEPT !.done = TRUE]]
      /\ conv' = [conv EXCEPT ![a] = "cancelled"]
      /\ ghost' = [ghost EXCEPT !.cancelled = IF act[a].attached THEN @ ELSE @ \cup {a}]
      /\ Dequeue({a})
      /\ a \in Clicks /\ ~act[a].attached /\ a \in Queued /\ ~act[a].done
      /\ UNCHANGED <<inst, rt, tr, post, helper, direct, gate>>
  BY DEF CancelReaderBroker, Shape, removeAction, Unanswered
<1>2. [Released(act[a]) EXCEPT !.done = TRUE] \in Entries
  BY <1>1 DEF Entries, Released
<1>3. /\ act'[a] = [Released(act[a]) EXCEPT !.done = TRUE]
      /\ \A q \in Actions \ {a} : act'[q] = act[q]
  BY <1>1 DEF Shape
<1>4. /\ SameClaim(a) /\ SameReader(a) /\ SameHelper(a) /\ act'[a].done /\ act'[a].ok = act[a].ok
      /\ act'[a].lease = 0 /\ ~act'[a].borrowed
  <2>1. SameClaim(a)
    BY <1>3 DEF Entries, SameClaim, Released
  <2>2. SameReader(a)
    BY <1>3 DEF Entries, SameReader, Released
  <2>3. SameHelper(a)
    BY <1>3 DEF Entries, SameHelper, Released
  <2>4. act'[a].done /\ act'[a].ok = act[a].ok /\ act'[a].lease = 0 /\ ~act'[a].borrowed
    BY <1>3 DEF Entries, Released
  <2> QED
    BY <2>1, <2>2, <2>3, <2>4
<1>5. Shape'
  <2>1. act' \in [Actions -> Entries]
    BY <1>1, <1>2 DEF Shape
  <2>2. conv' \in [Actions -> {"none", "active", "cancelled"}]
    BY <1>1 DEF Shape
  <2>3. ghost' \in [activated : SUBSET Actions, cancelled : SUBSET Actions]
    BY <1>1 DEF Shape
  <2>4. queue' \in Seq(Actions)
    BY <1>1, DequeueQueue DEF Shape, QueueInv
  <2> QED
    BY <1>1, <2>1, <2>2, <2>3, <2>4 DEF Shape
<1>6. /\ conv'[a] = "cancelled" /\ (\A q \in Actions \ {a} : conv'[q] = conv[q])
      /\ ghost'.cancelled = ghost.cancelled \cup {a}
  BY <1>1 DEF Shape, Posts, Directs
<1>7. /\ SameOwner /\ Queued' = Queued \ {a}
      /\ Kind(a)' = Kind(a) /\ Clicks' = Clicks /\ Requests' = Requests
  BY <1>1, SameSets, DequeueQueue DEF SameOwner, Shape, QueueInv
<1>8. Others(a)
  BY <1>1, <1>3, <1>6, <1>7 DEF Others, SameAction
<1>9. AdmittedInv(a)'
  BY <1>1, <1>4, <1>6, <1>7 DEF ActionInv, AdmittedInv, Fresh, SameClaim, SameReader, SameHelper
<1>10. ClaimInv(a)'
  BY <1>1, <1>4, <1>6, <1>7 DEF ActionInv, ClaimInv, SameClaim, SameReader, SameHelper
<1>11. LeaseInv(a)'
  BY <1>1, <1>4, <1>6, <1>7 DEF ActionInv, LeaseInv, Unleased, SameClaim, SameReader, SameHelper,
     AdmittedInv, Fresh
<1>12. ToldInv(a)'
  BY <1>1, <1>4, <1>6, <1>7 DEF ActionInv, ToldInv, Unanswered, SameClaim, SameReader,
     SameHelper, ClaimInv
<1>13. OwnerInv' /\ QueueInv'
  <2>1. OwnerInv'
    BY <1>1, <1>7 DEF OwnerInv, SameOwner
  <2>2. \A q \in HostAction : act[q].done => act'[q].done
    BY <1>1, <1>3, <1>4 DEF HostAction, Of, ActionInv, SameClaim, SameReader, SameHelper
  <2> QED
    BY <1>1, <1>7, <2>1, <2>2, SmallerQueue
<1>14. GateInv'
  BY <1>1, <1>3, <1>4, <1>6, <1>7, SameGate DEF Unanswered, SameClaim, SameReader, SameHelper
<1>15. Final
  <2>1. \A q \in Actions \ {a} : FinalFor(q)
    BY <1>3 DEF FinalFor
  <2>2. FinalFor(a)
    BY <1>1, <1>4 DEF FinalFor, SameClaim, SameAnswer
  <2>3. \A q \in ghost.cancelled : q \in ghost'.activated => q \in ghost.activated
    BY <1>1 DEF Shape
  <2> QED
    BY <2>1, <2>2, <2>3 DEF Final
<1> QED
  BY <1>5, <1>7, <1>8, <1>9, <1>10, <1>11, <1>12,
     <1>13, <1>14, <1>15, OneAction DEF ActionInv

\* A click is cancelled before or after its action.
LEMMA CancelStep ==
    ASSUME Shape, SplitInv, NEW a \in Actions, CancelReaderBroker(a), a \notin Unanswered
    PROVE  (Shape /\ SplitInv)' /\ Final
<1> /\ OwnerInv /\ QueueInv /\ GateInv /\ ActionInv(a) /\ rt.gen \in Nat /\ rt.gen # 0
    /\ act[a] \in Entries /\ rt.state \in RtStates /\ Kind(a) \in Kinds /\ a # "free" /\ a # "close"
  BY Typed DEF SplitInv, ActionInv
<1>1. /\ conv' = [conv EXCEPT ![a] = "cancelled"]
      /\ ghost' = [ghost EXCEPT !.cancelled = IF act[a].attached THEN @ ELSE @ \cup {a}]
      /\ a \in Clicks /\ a \notin Unanswered
      /\ UNCHANGED <<inst, rt, tr, queue, act, post, helper, direct, gate>>
  BY DEF CancelReaderBroker, Shape
<1>2. Shape'
  <2>1. conv' \in [Actions -> {"none", "active", "cancelled"}]
    BY <1>1 DEF Shape
  <2>2. ghost' \in [activated : SUBSET Actions, cancelled : SUBSET Actions]
    BY <1>1 DEF Shape
  <2> QED
    BY <1>1, <2>1, <2>2 DEF Shape
<1>3. /\ conv'[a] = "cancelled" /\ (\A q \in Actions \ {a} : conv'[q] = conv[q])
      /\ ghost'.cancelled = (IF act[a].attached THEN ghost.cancelled ELSE ghost.cancelled \cup {a})
  BY <1>1 DEF Shape, Posts, Directs
<1>4. /\ SameOwner /\ Queued' = Queued
      /\ Kind(a)' = Kind(a) /\ Clicks' = Clicks /\ Requests' = Requests
  BY <1>1, SameSets DEF SameOwner, Queued
<1>5. Others(a)
  BY <1>1, <1>3, <1>4 DEF Others, SameAction
<1>6. AdmittedInv(a)'
  BY <1>1, <1>3, <1>4 DEF ActionInv, AdmittedInv, Fresh
<1>7. ClaimInv(a)'
  BY <1>1, <1>3, <1>4 DEF ActionInv, ClaimInv
<1>8. LeaseInv(a)'
  BY <1>1, <1>3, <1>4 DEF ActionInv, LeaseInv, Unleased
<1>9. ToldInv(a)'
  BY <1>1, <1>3, <1>4 DEF ActionInv, ToldInv, Unanswered
<1>10. OwnerInv' /\ QueueInv'
  BY <1>1, <1>4, SameRest DEF HostAction, Of
<1>11. GateInv'
  BY <1>1, <1>3, <1>4, SameGate DEF Unanswered
<1>12. Final
  BY <1>1 DEF Final, FinalFor, Shape
<1> QED
  BY <1>2, <1>4, <1>5, <1>6, <1>7, <1>8, <1>9,
     <1>10, <1>11, <1>12, OneAction DEF ActionInv

\* A request comes in.
LEMMA RequestArrives ==
    ASSUME Shape, SplitInv, NEW a \in Actions, Request(a)
    PROVE  (Shape /\ SplitInv)' /\ Final
<1> /\ OwnerInv /\ QueueInv /\ GateInv /\ ActionInv(a) /\ rt.gen \in Nat /\ rt.gen # 0
    /\ act[a] \in Entries /\ rt.state \in RtStates /\ Kind(a) \in Kinds /\ a # "free" /\ a # "close"
  BY Typed DEF SplitInv, ActionInv
<1>1. PICK pc \in {"end", "gate", "borrow", "queue"} :
         /\ post' = [post EXCEPT ![a] = [epoch |-> gate.epoch, pc |-> pc]]
         /\ (pc = "gate" => a \in Clicks) /\ (pc \in {"borrow", "queue"} => a \notin Clicks) /\ (pc = "queue" => Kind(a) \notin {"source", "post"})
  <2> DEFINE p == CASE Relayed(a) -> "end"
                    [] a \in Clicks -> IF Cancelled(a) \/ gate.closing THEN "end" ELSE "gate"
                    [] Kind(a) = "source" -> "borrow"
                    [] OTHER -> "queue"
  <2>1. a \in Clicks <=> Kind(a) \in {"post", "xpost"}
    BY DEF Clicks, Of
  <2>2. /\ p \in {"end", "gate", "borrow", "queue"} /\ (p = "gate" => a \in Clicks)
        /\ (p \in {"borrow", "queue"} => a \notin Clicks) /\ (p = "queue" => Kind(a) \notin {"source", "post"})
    BY <2>1
  <2>3. post' = [post EXCEPT ![a] = [epoch |-> gate.epoch, pc |-> p]]
    BY DEF Request
  <2> HIDE DEF p
  <2> QED
    BY <2>2, <2>3
<1>2. /\ post' = [post EXCEPT ![a] = [epoch |-> gate.epoch, pc |-> pc]]
      /\ post[a].pc = "idle" /\ a \in Requests /\ gate.epoch \in Nat
      /\ (pc = "gate" => a \in Clicks) /\ (pc \in {"borrow", "queue"} => a \notin Clicks)
         /\ (pc = "queue" => Kind(a) \notin {"source", "post"})
      /\ UNCHANGED <<inst, rt, tr, queue, act, helper, conv, direct, gate, ghost>>
  BY <1>1 DEF Request, Shape, Gates
<1>3. Shape'
  <2>1. post' \in [Actions -> Posts]
    BY <1>2 DEF Shape, Posts
  <2> QED
    BY <1>2, <2>1 DEF Shape
<1>4. /\ post'[a].pc = pc /\ (\A q \in Actions \ {a} : post'[q] = post[q])
  BY <1>2 DEF Shape, Posts, Directs
<1>5. /\ SameOwner /\ Queued' = Queued
      /\ Kind(a)' = Kind(a) /\ Clicks' = Clicks /\ Requests' = Requests
  BY <1>2, SameSets DEF SameOwner, Queued
<1>6. Others(a)
  BY <1>2, <1>4, <1>5 DEF Others, SameAction
<1>7. AdmittedInv(a)'
  BY <1>2, <1>4, <1>5 DEF ActionInv, AdmittedInv, Fresh
<1>8. ClaimInv(a)'
  BY <1>2, <1>4, <1>5 DEF ActionInv, ClaimInv
<1>9. LeaseInv(a)'
  BY <1>2, <1>4, <1>5 DEF ActionInv, LeaseInv, Unleased
<1>10. ToldInv(a)'
  BY <1>2, <1>4, <1>5 DEF ActionInv, ToldInv, Unanswered
<1>11. OwnerInv' /\ QueueInv'
  BY <1>2, <1>5, SameRest DEF HostAction, Of
<1>12. GateInv'
  BY <1>2, <1>4, <1>5 DEF GateInv, Unanswered
<1>13. Final
  BY <1>2 DEF Final, FinalFor, Shape
<1> QED
  BY <1>3, <1>5, <1>6, <1>7, <1>8, <1>9, <1>10,
     <1>11, <1>12, <1>13, OneAction DEF ActionInv

\* A request that waited while a close began ends.
LEMMA EnterStaleStep ==
    ASSUME Shape, SplitInv, NEW a \in Actions, EnterGate(a), Stale(a)
    PROVE  (Shape /\ SplitInv)' /\ Final
<1> /\ OwnerInv /\ QueueInv /\ GateInv /\ ActionInv(a) /\ rt.gen \in Nat /\ rt.gen # 0
    /\ act[a] \in Entries /\ rt.state \in RtStates /\ Kind(a) \in Kinds /\ a # "free" /\ a # "close"
  BY Typed DEF SplitInv, ActionInv
<1>1. /\ post' = [post EXCEPT ![a] = [post[a] EXCEPT !.pc = "end"]]
      /\ post[a].pc = "gate"
      /\ UNCHANGED <<inst, rt, tr, queue, act, helper, conv, direct, gate, ghost>>
  BY DEF EnterGate, Shape
<1>2. Shape'
  <2>1. post' \in [Actions -> Posts]
    BY <1>1 DEF Shape, Posts
  <2> QED
    BY <1>1, <2>1 DEF Shape
<1>3. /\ post'[a].pc = "end" /\ (\A q \in Actions \ {a} : post'[q] = post[q])
  BY <1>1 DEF Shape, Posts, Directs
<1>4. /\ SameOwner /\ Queued' = Queued
      /\ Kind(a)' = Kind(a) /\ Clicks' = Clicks /\ Requests' = Requests
  BY <1>1, SameSets DEF SameOwner, Queued
<1>5. Others(a)
  BY <1>1, <1>3, <1>4 DEF Others, SameAction
<1>6. AdmittedInv(a)'
  BY <1>1, <1>3, <1>4 DEF ActionInv, AdmittedInv, Fresh
<1>7. ClaimInv(a)'
  BY <1>1, <1>3, <1>4 DEF ActionInv, ClaimInv
<1>8. LeaseInv(a)'
  BY <1>1, <1>3, <1>4 DEF ActionInv, LeaseInv, Unleased
<1>9. ToldInv(a)'
  BY <1>1, <1>3, <1>4 DEF ActionInv, ToldInv, Unanswered
<1>10. OwnerInv' /\ QueueInv'
  BY <1>1, <1>4, SameRest DEF HostAction, Of
<1>11. GateInv'
  BY <1>1, <1>3, <1>4, SameGate DEF Unanswered
<1>12. Final
  BY <1>1 DEF Final, FinalFor, Shape
<1> QED
  BY <1>2, <1>4, <1>5, <1>6, <1>7, <1>8, <1>9,
     <1>10, <1>11, <1>12, OneAction DEF ActionInv

\* A request enters the gate.
LEMMA EnterGateStep ==
    ASSUME Shape, SplitInv, NEW a \in Actions, EnterGate(a), ~Stale(a)
    PROVE  (Shape /\ SplitInv)' /\ Final
<1> /\ OwnerInv /\ QueueInv /\ GateInv /\ ActionInv(a) /\ rt.gen \in Nat /\ rt.gen # 0
    /\ act[a] \in Entries /\ rt.state \in RtStates /\ Kind(a) \in Kinds /\ a # "free" /\ a # "close"
  BY Typed DEF SplitInv, ActionInv
<1>1. PICK pc \in {"borrow", "queue"} :
         post' = [post EXCEPT ![a] = [post[a] EXCEPT !.pc = pc]] /\ (pc = "queue" => Kind(a) # "post")
  BY DEF EnterGate, GateFree, Shape
<1>2. /\ post' = [post EXCEPT ![a] = [post[a] EXCEPT !.pc = pc]]
      /\ gate' = [gate EXCEPT !.holder = a]
      /\ post[a].pc = "gate" /\ gate.holder = "free" /\ (pc = "queue" => Kind(a) # "post")
      /\ UNCHANGED <<inst, rt, tr, queue, act, helper, conv, direct, ghost>>
  BY <1>1 DEF EnterGate, Shape, GateFree, Shape
<1>3. a \in Clicks /\ Kind(a) \in {"post", "xpost"}
  BY <1>2 DEF GateInv, Clicks, Of
<1>4. \A q \in Clicks : q # "free"
  BY SplitAssumption DEF Clicks, Of
<1>5. Shape'
  <2>1. post' \in [Actions -> Posts]
    BY <1>2 DEF Shape, Posts
  <2>2. gate' \in Gates
    BY <1>2 DEF Shape, Gates, LeaveGate
  <2> QED
    BY <1>2, <2>1, <2>2 DEF Shape
<1>6. /\ post'[a].pc = pc /\ (\A q \in Actions \ {a} : post'[q] = post[q])
      /\ gate'.holder = a /\ gate'.closer = gate.closer
  BY <1>2 DEF Shape, Posts, Directs, Gates
<1>7. /\ SameOwner /\ Queued' = Queued
      /\ Kind(a)' = Kind(a) /\ Clicks' = Clicks /\ Requests' = Requests
  BY <1>2, SameSets DEF SameOwner, Queued
<1>8. Others(a)
  BY <1>2, <1>6, <1>7 DEF Others, SameAction
<1>9. AdmittedInv(a)'
  BY <1>2, <1>6, <1>7, <1>3, <1>4 DEF ActionInv, AdmittedInv, Fresh, Requests, Of
<1>10. ClaimInv(a)'
  BY <1>2, <1>6, <1>7, <1>3, <1>4 DEF ActionInv, ClaimInv
<1>11. LeaseInv(a)'
  BY <1>2, <1>6, <1>7, <1>3, <1>4 DEF ActionInv, LeaseInv, Unleased
<1>12. ToldInv(a)'
  BY <1>2, <1>6, <1>7, <1>3, <1>4 DEF ActionInv, ToldInv, Unanswered
<1>13. OwnerInv' /\ QueueInv'
  BY <1>2, <1>7, SameRest DEF HostAction, Of
<1>14. GateInv'
  BY <1>2, <1>6, <1>7, <1>3, <1>4 DEF GateInv, Unanswered
<1>15. Final
  BY <1>2 DEF Final, FinalFor, Shape
<1> QED
  BY <1>5, <1>7, <1>8, <1>9, <1>10, <1>11, <1>12,
     <1>13, <1>14, <1>15, OneAction DEF ActionInv

\* The direct reader gives up.
LEMMA DirectRefusedStep ==
    ASSUME Shape, SplitInv, NEW a \in Actions, DirectAttach(a), direct'[a].pc = "finish"
    PROVE  (Shape /\ SplitInv)' /\ Final
<1> /\ OwnerInv /\ QueueInv /\ GateInv /\ ActionInv(a) /\ rt.gen \in Nat /\ rt.gen # 0
    /\ act[a] \in Entries /\ rt.state \in RtStates /\ Kind(a) \in Kinds /\ a # "free" /\ a # "close"
  BY Typed DEF SplitInv, ActionInv
<1>1. /\ direct' = [direct EXCEPT ![a] = [pc |-> "finish", ok |-> FALSE]]
      /\ direct[a].pc = "attach"
      /\ UNCHANGED <<inst, rt, tr, queue, act, post, helper, conv, gate, ghost>>
  BY DEF DirectAttach, Shape, DirectStep
<1>2. Shape'
  <2>1. direct' \in [Actions -> Directs]
    BY <1>1 DEF Shape, Directs
  <2> QED
    BY <1>1, <2>1 DEF Shape
<1>3. /\ direct'[a].pc = "finish" /\ direct'[a].ok = (FALSE)
      /\ \A q \in Actions \ {a} : direct'[q] = direct[q]
  BY <1>1 DEF Shape, Posts, Directs
<1>4. /\ SameOwner /\ Queued' = Queued
      /\ Kind(a)' = Kind(a) /\ Clicks' = Clicks /\ Requests' = Requests
  BY <1>1, SameSets DEF SameOwner, Queued
<1>5. Others(a)
  BY <1>1, <1>3, <1>4 DEF Others, SameAction
<1>6. AdmittedInv(a)'
  BY <1>1, <1>3, <1>4 DEF ActionInv, AdmittedInv, Fresh
<1>7. ClaimInv(a)'
  BY <1>1, <1>3, <1>4 DEF ActionInv, ClaimInv
<1>8. LeaseInv(a)'
  BY <1>1, <1>3, <1>4 DEF ActionInv, LeaseInv, Unleased
<1>9. ToldInv(a)'
  BY <1>1, <1>3, <1>4 DEF ActionInv, ToldInv, Unanswered
<1>10. OwnerInv' /\ QueueInv'
  BY <1>1, <1>4, SameRest DEF HostAction, Of
<1>11. GateInv'
  BY <1>1, <1>3, <1>4, SameGate DEF Unanswered
<1>12. Final
  BY <1>1 DEF Final, FinalFor, Shape
<1> QED
  BY <1>2, <1>4, <1>5, <1>6, <1>7, <1>8, <1>9,
     <1>10, <1>11, <1>12, OneAction DEF ActionInv

\* The direct reader takes its action.
LEMMA DirectAttachStep ==
    ASSUME Shape, SplitInv, NEW a \in Actions, DirectAttach(a), direct'[a].pc # "finish"
    PROVE  (Shape /\ SplitInv)' /\ Final
<1> /\ OwnerInv /\ QueueInv /\ GateInv /\ ActionInv(a) /\ rt.gen \in Nat /\ rt.gen # 0
    /\ act[a] \in Entries /\ rt.state \in RtStates /\ Kind(a) \in Kinds /\ a # "free" /\ a # "close"
  BY Typed DEF SplitInv, ActionInv
<1>1. /\ act' = [act EXCEPT ![a] = [act[a] EXCEPT !.claimed = TRUE]]
      /\ direct' = [direct EXCEPT ![a] = [pc |-> "prepare", ok |-> FALSE]]
      /\ direct[a].pc = "attach" /\ a \in Queued /\ act[a].attached
      /\ UNCHANGED <<inst, rt, tr, queue, post, helper, conv, gate, ghost>>
  BY DEF DirectAttach, Shape, DirectStep
<1>2. [act[a] EXCEPT !.claimed = TRUE] \in Entries
  BY <1>1 DEF Entries
<1>3. /\ act'[a] = [act[a] EXCEPT !.claimed = TRUE]
      /\ \A q \in Actions \ {a} : act'[q] = act[q]
  BY <1>1 DEF Shape
<1>4. /\ SameAnswer(a) /\ SameLease(a) /\ SameReader(a) /\ SameHelper(a) /\ act'[a].claimed
      /\ act'[a].by = act[a].by /\ act'[a].admitted = act[a].admitted
  <2>1. SameAnswer(a)
    BY <1>3 DEF Entries, SameAnswer
  <2>2. SameLease(a)
    BY <1>3 DEF Entries, SameLease
  <2>3. SameReader(a)
    BY <1>3 DEF Entries, SameReader
  <2>4. SameHelper(a)
    BY <1>3 DEF Entries, SameHelper
  <2>5. act'[a].claimed /\ act'[a].by = act[a].by /\ act'[a].admitted = act[a].admitted
    BY <1>3 DEF Entries
  <2> QED
    BY <2>1, <2>2, <2>3, <2>4, <2>5
<1>5. Shape'
  <2>1. act' \in [Actions -> Entries]
    BY <1>1, <1>2 DEF Shape
  <2>2. direct' \in [Actions -> Directs]
    BY <1>1 DEF Shape, Directs
  <2> QED
    BY <1>1, <2>1, <2>2 DEF Shape
<1>6. /\ direct'[a].pc = "prepare" /\ direct'[a].ok = (FALSE)
      /\ \A q \in Actions \ {a} : direct'[q] = direct[q]
  BY <1>1 DEF Shape, Posts, Directs
<1>7. /\ SameOwner /\ Queued' = Queued
      /\ Kind(a)' = Kind(a) /\ Clicks' = Clicks /\ Requests' = Requests
  BY <1>1, SameSets DEF SameOwner, Queued
<1>8. Others(a)
  BY <1>1, <1>3, <1>6, <1>7 DEF Others, SameAction
<1>9. AdmittedInv(a)'
  BY <1>1, <1>4, <1>6, <1>7 DEF ActionInv, AdmittedInv, Fresh, SameAnswer, SameLease, SameReader,
     SameHelper
<1>10. ClaimInv(a)'
  BY <1>1, <1>4, <1>6, <1>7 DEF ActionInv, ClaimInv, SameAnswer, SameLease, SameReader,
     SameHelper, ToldInv
<1>11. LeaseInv(a)'
  BY <1>1, <1>4, <1>6, <1>7 DEF ActionInv, LeaseInv, Unleased, SameAnswer, SameLease, SameReader,
     SameHelper
<1>12. ToldInv(a)'
  BY <1>1, <1>4, <1>6, <1>7 DEF ActionInv, ToldInv, Unanswered, SameAnswer, SameLease,
     SameReader, SameHelper
<1>13. OwnerInv' /\ QueueInv'
  BY <1>1, <1>3, <1>4, <1>7, SameRest DEF HostAction, Of, SameAnswer, SameLease, SameReader,
     SameHelper
<1>14. GateInv'
  BY <1>1, <1>3, <1>4, <1>6, <1>7, SameGate DEF Unanswered, SameAnswer, SameLease, SameReader,
     SameHelper
<1>15. Final
  <2>1. \A q \in Actions \ {a} : FinalFor(q)
    BY <1>3 DEF FinalFor
  <2>2. FinalFor(a)
    BY <1>1, <1>4 DEF FinalFor, SameClaim, SameAnswer
  <2>3. \A q \in ghost.cancelled : q \in ghost'.activated => q \in ghost.activated
    BY <1>1 DEF Shape
  <2> QED
    BY <2>1, <2>2, <2>3 DEF Final
<1> QED
  BY <1>5, <1>7, <1>8, <1>9, <1>10, <1>11, <1>12,
     <1>13, <1>14, <1>15, OneAction DEF ActionInv

\* The direct reader has its target.
LEMMA DirectPreparedStep ==
    ASSUME Shape, SplitInv, NEW a \in Actions, DirectPrepare(a), direct'[a].pc # "finish"
    PROVE  (Shape /\ SplitInv)' /\ Final
<1> /\ OwnerInv /\ QueueInv /\ GateInv /\ ActionInv(a) /\ rt.gen \in Nat /\ rt.gen # 0
    /\ act[a] \in Entries /\ rt.state \in RtStates /\ Kind(a) \in Kinds /\ a # "free" /\ a # "close"
  BY Typed DEF SplitInv, ActionInv
<1>1. /\ act' = [act EXCEPT ![a] = [act[a] EXCEPT !.target = TRUE, !.ready = TRUE]]
      /\ direct' = [direct EXCEPT ![a] = [pc |-> "await", ok |-> FALSE]]
      /\ direct[a].pc = "prepare"
      /\ UNCHANGED <<inst, rt, tr, queue, post, helper, conv, gate, ghost>>
  <2>1. ~DirectStep(a, "finish", FALSE)
    BY DEF DirectStep, Shape
  <2>2. act' = [act EXCEPT ![a].target = TRUE, ![a].ready = TRUE] /\ DirectStep(a, "await", FALSE)
    BY <2>1 DEF DirectPrepare
  <2>3. UNCHANGED <<inst, rt, tr, queue, post, helper, conv, gate, ghost>> /\ direct[a].pc = "prepare"
    BY DEF DirectPrepare
  <2> QED
    BY <2>2, <2>3 DEF DirectStep, Shape
<1>2. [act[a] EXCEPT !.target = TRUE, !.ready = TRUE] \in Entries
  BY <1>1 DEF Entries
<1>3. /\ act'[a] = [act[a] EXCEPT !.target = TRUE, !.ready = TRUE]
      /\ \A q \in Actions \ {a} : act'[q] = act[q]
  BY <1>1 DEF Shape
<1>4. SameClaim(a) /\ SameAnswer(a) /\ SameLease(a) /\ SameReader(a) /\ SameHelper(a)
  <2>1. SameClaim(a)
    BY <1>3 DEF Entries, SameClaim
  <2>2. SameAnswer(a)
    BY <1>3 DEF Entries, SameAnswer
  <2>3. SameLease(a)
    BY <1>3 DEF Entries, SameLease
  <2>4. SameReader(a)
    BY <1>3 DEF Entries, SameReader
  <2>5. SameHelper(a)
    BY <1>3 DEF Entries, SameHelper
  <2> QED
    BY <2>1, <2>2, <2>3, <2>4, <2>5
<1>5. Shape'
  <2>1. act' \in [Actions -> Entries]
    BY <1>1, <1>2 DEF Shape
  <2>2. direct' \in [Actions -> Directs]
    BY <1>1 DEF Shape, Directs
  <2> QED
    BY <1>1, <2>1, <2>2 DEF Shape
<1>6. /\ direct'[a].pc = "await" /\ direct'[a].ok = (FALSE)
      /\ \A q \in Actions \ {a} : direct'[q] = direct[q]
  BY <1>1 DEF Shape, Posts, Directs
<1>7. /\ SameOwner /\ Queued' = Queued
      /\ Kind(a)' = Kind(a) /\ Clicks' = Clicks /\ Requests' = Requests
  BY <1>1, SameSets DEF SameOwner, Queued
<1>8. Others(a)
  BY <1>1, <1>3, <1>6, <1>7 DEF Others, SameAction
<1>9. AdmittedInv(a)'
  BY <1>1, <1>4, <1>6, <1>7 DEF ActionInv, AdmittedInv, Fresh, SameClaim, SameAnswer, SameLease,
     SameReader, SameHelper
<1>10. ClaimInv(a)'
  BY <1>1, <1>4, <1>6, <1>7 DEF ActionInv, ClaimInv, SameClaim, SameAnswer, SameLease,
     SameReader, SameHelper
<1>11. LeaseInv(a)'
  BY <1>1, <1>4, <1>6, <1>7 DEF ActionInv, LeaseInv, Unleased, SameClaim, SameAnswer, SameLease,
     SameReader, SameHelper
<1>12. ToldInv(a)'
  BY <1>1, <1>4, <1>6, <1>7 DEF ActionInv, ToldInv, Unanswered, SameClaim, SameAnswer, SameLease,
     SameReader, SameHelper
<1>13. OwnerInv' /\ QueueInv'
  BY <1>1, <1>3, <1>4, <1>7, SameRest DEF HostAction, Of, SameClaim, SameAnswer, SameLease,
     SameReader, SameHelper
<1>14. GateInv'
  BY <1>1, <1>3, <1>4, <1>6, <1>7, SameGate DEF Unanswered, SameClaim, SameAnswer, SameLease,
     SameReader, SameHelper
<1>15. Final
  <2>1. \A q \in Actions \ {a} : FinalFor(q)
    BY <1>3 DEF FinalFor
  <2>2. FinalFor(a)
    BY <1>1, <1>4 DEF FinalFor, SameClaim, SameAnswer
  <2>3. \A q \in ghost.cancelled : q \in ghost'.activated => q \in ghost.activated
    BY <1>1 DEF Shape
  <2> QED
    BY <2>1, <2>2, <2>3 DEF Final
<1> QED
  BY <1>5, <1>7, <1>8, <1>9, <1>10, <1>11, <1>12,
     <1>13, <1>14, <1>15, OneAction DEF ActionInv

\* The direct reader has no target.
LEMMA DirectUnpreparedStep ==
    ASSUME Shape, SplitInv, NEW a \in Actions, DirectPrepare(a), direct'[a].pc = "finish"
    PROVE  (Shape /\ SplitInv)' /\ Final
<1> /\ OwnerInv /\ QueueInv /\ GateInv /\ ActionInv(a) /\ rt.gen \in Nat /\ rt.gen # 0
    /\ act[a] \in Entries /\ rt.state \in RtStates /\ Kind(a) \in Kinds /\ a # "free" /\ a # "close"
  BY Typed DEF SplitInv, ActionInv
<1>1. /\ direct' = [direct EXCEPT ![a] = [pc |-> "finish", ok |-> FALSE]]
      /\ direct[a].pc = "prepare"
      /\ UNCHANGED <<inst, rt, tr, queue, act, post, helper, conv, gate, ghost>>
  BY DEF DirectPrepare, Shape, DirectStep
<1>2. Shape'
  <2>1. direct' \in [Actions -> Directs]
    BY <1>1 DEF Shape, Directs
  <2> QED
    BY <1>1, <2>1 DEF Shape
<1>3. /\ direct'[a].pc = "finish" /\ direct'[a].ok = (FALSE)
      /\ \A q \in Actions \ {a} : direct'[q] = direct[q]
  BY <1>1 DEF Shape, Posts, Directs
<1>4. /\ SameOwner /\ Queued' = Queued
      /\ Kind(a)' = Kind(a) /\ Clicks' = Clicks /\ Requests' = Requests
  BY <1>1, SameSets DEF SameOwner, Queued
<1>5. Others(a)
  BY <1>1, <1>3, <1>4 DEF Others, SameAction
<1>6. AdmittedInv(a)'
  BY <1>1, <1>3, <1>4 DEF ActionInv, AdmittedInv, Fresh
<1>7. ClaimInv(a)'
  BY <1>1, <1>3, <1>4 DEF ActionInv, ClaimInv
<1>8. LeaseInv(a)'
  BY <1>1, <1>3, <1>4 DEF ActionInv, LeaseInv, Unleased
<1>9. ToldInv(a)'
  BY <1>1, <1>3, <1>4 DEF ActionInv, ToldInv, Unanswered
<1>10. OwnerInv' /\ QueueInv'
  BY <1>1, <1>4, SameRest DEF HostAction, Of
<1>11. GateInv'
  BY <1>1, <1>3, <1>4, SameGate DEF Unanswered
<1>12. Final
  BY <1>1 DEF Final, FinalFor, Shape
<1> QED
  BY <1>2, <1>4, <1>5, <1>6, <1>7, <1>8, <1>9,
     <1>10, <1>11, <1>12, OneAction DEF ActionInv

\* The direct reader has its answer.
LEMMA DirectAwaitStep ==
    ASSUME Shape, SplitInv, NEW a \in Actions, DirectAwait(a)
    PROVE  (Shape /\ SplitInv)' /\ Final
<1> /\ OwnerInv /\ QueueInv /\ GateInv /\ ActionInv(a) /\ rt.gen \in Nat /\ rt.gen # 0
    /\ act[a] \in Entries /\ rt.state \in RtStates /\ Kind(a) \in Kinds /\ a # "free" /\ a # "close"
  BY Typed DEF SplitInv, ActionInv
<1>1. PICK o \in BOOLEAN : direct' = [direct EXCEPT ![a] = [pc |-> "finish", ok |-> o]] /\ (o => act[a].told = "opened")
  BY DEF DirectAwait, DirectStep
<1>2. /\ direct' = [direct EXCEPT ![a] = [pc |-> "finish", ok |-> o]]
      /\ direct[a].pc = "await" /\ (o => act[a].told = "opened")
      /\ UNCHANGED <<inst, rt, tr, queue, act, post, helper, conv, gate, ghost>>
  BY <1>1 DEF DirectAwait, Shape, DirectStep
<1>3. Shape'
  <2>1. direct' \in [Actions -> Directs]
    BY <1>2 DEF Shape, Directs
  <2> QED
    BY <1>2, <2>1 DEF Shape
<1>4. /\ direct'[a].pc = "finish" /\ direct'[a].ok = (o)
      /\ \A q \in Actions \ {a} : direct'[q] = direct[q]
  BY <1>2 DEF Shape, Posts, Directs
<1>5. /\ SameOwner /\ Queued' = Queued
      /\ Kind(a)' = Kind(a) /\ Clicks' = Clicks /\ Requests' = Requests
  BY <1>2, SameSets DEF SameOwner, Queued
<1>6. Others(a)
  BY <1>2, <1>4, <1>5 DEF Others, SameAction
<1>7. AdmittedInv(a)'
  BY <1>2, <1>4, <1>5 DEF ActionInv, AdmittedInv, Fresh
<1>8. ClaimInv(a)'
  BY <1>2, <1>4, <1>5 DEF ActionInv, ClaimInv
<1>9. LeaseInv(a)'
  BY <1>2, <1>4, <1>5 DEF ActionInv, LeaseInv, Unleased
<1>10. ToldInv(a)'
  BY <1>2, <1>4, <1>5 DEF ActionInv, ToldInv, Unanswered
<1>11. OwnerInv' /\ QueueInv'
  BY <1>2, <1>5, SameRest DEF HostAction, Of
<1>12. GateInv'
  BY <1>2, <1>4, <1>5, SameGate DEF Unanswered
<1>13. Final
  BY <1>2 DEF Final, FinalFor, Shape
<1> QED
  BY <1>3, <1>5, <1>6, <1>7, <1>8, <1>9, <1>10,
     <1>11, <1>12, <1>13, OneAction DEF ActionInv

\* The direct reader answers.
LEMMA DirectFinishStep ==
    ASSUME Shape, SplitInv, NEW a \in Actions, DirectFinish(a), ~act[a].detached
    PROVE  (Shape /\ SplitInv)' /\ Final
<1> /\ OwnerInv /\ QueueInv /\ GateInv /\ ActionInv(a) /\ rt.gen \in Nat /\ rt.gen # 0
    /\ act[a] \in Entries /\ rt.state \in RtStates /\ Kind(a) \in Kinds /\ a # "free" /\ a # "close"
  BY Typed DEF SplitInv, ActionInv
<1>1. /\ act' = [act EXCEPT ![a] = [act[a] EXCEPT !.done = TRUE, !.ok = direct[a].ok, !.ready = TRUE]]
      /\ direct' = [direct EXCEPT ![a] = [pc |-> "end", ok |-> direct[a].ok]]
      /\ Dequeue({})
      /\ direct[a].pc = "finish" /\ direct[a].ok \in BOOLEAN
      /\ UNCHANGED <<inst, rt, tr, post, helper, conv, gate, ghost>>
  BY DEF DirectFinish, Shape, DirectStep, removeAction, Directs
<1>2. [act[a] EXCEPT !.done = TRUE, !.ok = direct[a].ok, !.ready = TRUE] \in Entries
  BY <1>1 DEF Entries
<1>3. /\ act'[a] = [act[a] EXCEPT !.done = TRUE, !.ok = direct[a].ok, !.ready = TRUE]
      /\ \A q \in Actions \ {a} : act'[q] = act[q]
  BY <1>1 DEF Shape
<1>4. /\ SameClaim(a) /\ SameLease(a) /\ SameReader(a) /\ SameHelper(a) /\ act'[a].done
      /\ act'[a].ok = direct[a].ok
  <2>1. SameClaim(a)
    BY <1>3 DEF Entries, SameClaim
  <2>2. SameLease(a)
    BY <1>3 DEF Entries, SameLease
  <2>3. SameReader(a)
    BY <1>3 DEF Entries, SameReader
  <2>4. SameHelper(a)
    BY <1>3 DEF Entries, SameHelper
  <2>5. act'[a].done /\ act'[a].ok = direct[a].ok
    BY <1>3 DEF Entries
  <2> QED
    BY <2>1, <2>2, <2>3, <2>4, <2>5
<1>5. Shape'
  <2>1. act' \in [Actions -> Entries]
    BY <1>1, <1>2 DEF Shape
  <2>2. direct' \in [Actions -> Directs]
    BY <1>1 DEF Shape, Directs
  <2>3. queue' \in Seq(Actions)
    BY <1>1, DequeueQueue DEF Shape, QueueInv
  <2> QED
    BY <1>1, <2>1, <2>2, <2>3 DEF Shape
<1>6. /\ direct'[a].pc = "end" /\ direct'[a].ok = (direct[a].ok)
      /\ \A q \in Actions \ {a} : direct'[q] = direct[q]
  BY <1>1 DEF Shape, Posts, Directs
<1>7. /\ SameOwner /\ Queued' = Queued \ {}
      /\ Kind(a)' = Kind(a) /\ Clicks' = Clicks /\ Requests' = Requests
  BY <1>1, SameSets, DequeueQueue DEF SameOwner, Shape, QueueInv
<1>8. Others(a)
  BY <1>1, <1>3, <1>6, <1>7 DEF Others, SameAction
<1>9. AdmittedInv(a)'
  BY <1>1, <1>4, <1>6, <1>7 DEF ActionInv, AdmittedInv, Fresh, SameClaim, SameLease, SameReader,
     SameHelper, ToldInv
<1>10. ClaimInv(a)'
  BY <1>1, <1>4, <1>6, <1>7 DEF ActionInv, ClaimInv, SameClaim, SameLease, SameReader,
     SameHelper, ToldInv
<1>11. LeaseInv(a)'
  BY <1>1, <1>4, <1>6, <1>7 DEF ActionInv, LeaseInv, Unleased, SameClaim, SameLease, SameReader,
     SameHelper, AdmittedInv, Fresh
<1>12. ToldInv(a)'
  BY <1>1, <1>4, <1>6, <1>7 DEF ActionInv, ToldInv, Unanswered, SameClaim, SameLease, SameReader,
     SameHelper
<1>13. OwnerInv' /\ QueueInv'
  <2>1. OwnerInv'
    BY <1>1, <1>7 DEF OwnerInv, SameOwner
  <2>2. \A q \in HostAction : act[q].done => act'[q].done
    BY <1>1, <1>3, <1>4 DEF HostAction, Of, ActionInv, SameClaim, SameLease, SameReader, SameHelper
  <2> QED
    BY <1>1, <1>7, <2>1, <2>2, SmallerQueue
<1>14. GateInv'
  BY <1>1, <1>3, <1>4, <1>6, <1>7, SameGate DEF Unanswered, SameClaim, SameLease, SameReader,
     SameHelper
<1>15. Final
  <2>1. \A q \in Actions \ {a} : FinalFor(q)
    BY <1>3 DEF FinalFor
  <2>2. FinalFor(a)
    BY <1>1, <1>4 DEF FinalFor, SameClaim, SameAnswer, ActionInv, ToldInv, Entries
  <2>3. \A q \in ghost.cancelled : q \in ghost'.activated => q \in ghost.activated
    BY <1>1 DEF Shape
  <2> QED
    BY <2>1, <2>2, <2>3 DEF Final
<1> QED
  BY <1>5, <1>7, <1>8, <1>9, <1>10, <1>11, <1>12,
     <1>13, <1>14, <1>15, OneAction DEF ActionInv

\* The direct reader answers and removes its action.
LEMMA DirectRemoveStep ==
    ASSUME Shape, SplitInv, NEW a \in Actions, DirectFinish(a), act[a].detached
    PROVE  (Shape /\ SplitInv)' /\ Final
<1> /\ OwnerInv /\ QueueInv /\ GateInv /\ ActionInv(a) /\ rt.gen \in Nat /\ rt.gen # 0
    /\ act[a] \in Entries /\ rt.state \in RtStates /\ Kind(a) \in Kinds /\ a # "free" /\ a # "close"
  BY Typed DEF SplitInv, ActionInv
<1>1. /\ act' = [act EXCEPT ![a] = Released([act[a] EXCEPT !.done = TRUE, !.ok = direct[a].ok, !.ready = TRUE])]
      /\ direct' = [direct EXCEPT ![a] = [pc |-> "end", ok |-> direct[a].ok]]
      /\ Dequeue({a})
      /\ direct[a].pc = "finish" /\ direct[a].ok \in BOOLEAN
      /\ UNCHANGED <<inst, rt, tr, post, helper, conv, gate, ghost>>
  BY DEF DirectFinish, Shape, DirectStep, removeAction, Directs
<1>2. Released([act[a] EXCEPT !.done = TRUE, !.ok = direct[a].ok, !.ready = TRUE]) \in Entries
  BY <1>1 DEF Entries, Released
<1>3. /\ act'[a] = Released([act[a] EXCEPT !.done = TRUE, !.ok = direct[a].ok, !.ready = TRUE])
      /\ \A q \in Actions \ {a} : act'[q] = act[q]
  BY <1>1 DEF Shape
<1>4. /\ SameClaim(a) /\ SameReader(a) /\ SameHelper(a) /\ act'[a].done
      /\ act'[a].ok = direct[a].ok /\ act'[a].lease = 0 /\ ~act'[a].borrowed
  <2>1. SameClaim(a)
    BY <1>3 DEF Entries, SameClaim, Released
  <2>2. SameReader(a)
    BY <1>3 DEF Entries, SameReader, Released
  <2>3. SameHelper(a)
    BY <1>3 DEF Entries, SameHelper, Released
  <2>4. act'[a].done /\ act'[a].ok = direct[a].ok /\ act'[a].lease = 0 /\ ~act'[a].borrowed
    BY <1>3 DEF Entries, Released
  <2> QED
    BY <2>1, <2>2, <2>3, <2>4
<1>5. Shape'
  <2>1. act' \in [Actions -> Entries]
    BY <1>1, <1>2 DEF Shape
  <2>2. direct' \in [Actions -> Directs]
    BY <1>1 DEF Shape, Directs
  <2>3. queue' \in Seq(Actions)
    BY <1>1, DequeueQueue DEF Shape, QueueInv
  <2> QED
    BY <1>1, <2>1, <2>2, <2>3 DEF Shape
<1>6. /\ direct'[a].pc = "end" /\ direct'[a].ok = (direct[a].ok)
      /\ \A q \in Actions \ {a} : direct'[q] = direct[q]
  BY <1>1 DEF Shape, Posts, Directs
<1>7. /\ SameOwner /\ Queued' = Queued \ {a}
      /\ Kind(a)' = Kind(a) /\ Clicks' = Clicks /\ Requests' = Requests
  BY <1>1, SameSets, DequeueQueue DEF SameOwner, Shape, QueueInv
<1>8. Others(a)
  BY <1>1, <1>3, <1>6, <1>7 DEF Others, SameAction
<1>9. AdmittedInv(a)'
  BY <1>1, <1>4, <1>6, <1>7 DEF ActionInv, AdmittedInv, Fresh, SameClaim, SameReader, SameHelper,
     ToldInv
<1>10. ClaimInv(a)'
  BY <1>1, <1>4, <1>6, <1>7 DEF ActionInv, ClaimInv, SameClaim, SameReader, SameHelper, ToldInv
<1>11. LeaseInv(a)'
  BY <1>1, <1>4, <1>6, <1>7 DEF ActionInv, LeaseInv, Unleased, SameClaim, SameReader, SameHelper,
     AdmittedInv, Fresh
<1>12. ToldInv(a)'
  BY <1>1, <1>4, <1>6, <1>7 DEF ActionInv, ToldInv, Unanswered, SameClaim, SameReader, SameHelper
<1>13. OwnerInv' /\ QueueInv'
  <2>1. OwnerInv'
    BY <1>1, <1>7 DEF OwnerInv, SameOwner
  <2>2. \A q \in HostAction : act[q].done => act'[q].done
    BY <1>1, <1>3, <1>4 DEF HostAction, Of, ActionInv, SameClaim, SameReader, SameHelper
  <2> QED
    BY <1>1, <1>7, <2>1, <2>2, SmallerQueue
<1>14. GateInv'
  BY <1>1, <1>3, <1>4, <1>6, <1>7, SameGate DEF Unanswered, SameClaim, SameReader, SameHelper
<1>15. Final
  <2>1. \A q \in Actions \ {a} : FinalFor(q)
    BY <1>3 DEF FinalFor
  <2>2. FinalFor(a)
    BY <1>1, <1>4 DEF FinalFor, SameClaim, SameAnswer, ActionInv, ToldInv, Entries
  <2>3. \A q \in ghost.cancelled : q \in ghost'.activated => q \in ghost.activated
    BY <1>1 DEF Shape
  <2> QED
    BY <2>1, <2>2, <2>3 DEF Final
<1> QED
  BY <1>5, <1>7, <1>8, <1>9, <1>10, <1>11, <1>12,
     <1>13, <1>14, <1>15, OneAction DEF ActionInv

-----------------------------------------------------------------------------
\* The owner changes its state, and nothing else happens.
LEMMA OwnerMoves ==
    ASSUME Shape, SplitInv, UNCHANGED <<inst, queue, act, post, helper, conv, direct, gate, ghost>>,
           rt' \in Rts, rt'.gen = rt.gen, rt'.mode = rt.mode,
           tr' \in Trs, tr'.key = tr.key, tr'.closed = tr.closed, tr'.untracked = tr.untracked,
           rt'.state \in Unleased => rt.state \in Unleased \/ Leased = {},
           rt'.state \in {"closing", "vacant"} => rt.gen < inst.generations,
           rt'.state \in {"closing", "blocked"} => rt.mode = "browser",
           rt'.state = "closing" => ~tr.untracked,
           \A h \in HostAction : h \in Queued =>
             rt'.state \in {"closing", "blocked", "vacant", "lost"} /\ (rt'.state = "vacant" => act[h].done)
    PROVE  (Shape /\ SplitInv)' /\ Final
<1>1. SameOwner
  BY DEF SameOwner
<1>2. /\ Queued' = Queued /\ HostAction' = HostAction /\ Clicks' = Clicks /\ Unanswered' = Unanswered
  BY SameSets DEF Queued, Unanswered
<1>3. \A q \in Actions : SameAction(q)
  BY <1>2 DEF SameAction
<1>4. Shape'
  BY DEF Shape
<1>5. OwnerInv'
  BY DEF SplitInv, OwnerInv
<1>6. QueueInv'
  BY <1>2 DEF SplitInv, QueueInv
<1>7. GateInv'
  BY <1>2 DEF SplitInv, GateInv
<1>8. Final
  BY DEF Final, FinalFor
<1> QED
  BY <1>1, <1>3, <1>4, <1>5, <1>6, <1>7, <1>8, SameActions

\* The reader is closed, or not: the gate and its owner.
LEMMA CloserSteps ==
    ASSUME Shape, SplitInv, CloserStep
    PROVE  (Shape /\ SplitInv)' /\ Final
<1> DEFINE moved == [rt EXCEPT !.state = "exited"]
<1>1. UNCHANGED <<inst, tr, queue, act, post, helper, conv, direct, ghost>>
  BY DEF CloserStep, BeginClose, CloseGate, CheckClose, CloseWindow, FinishClose
<1>2. rt' = rt \/ (rt.state = "ready" /\ rt' = [rt EXCEPT !.state = "exited"])
  BY DEF CloserStep, BeginClose, CloseGate, CheckClose, CloseWindow, FinishClose
<1>3. /\ rt' \in Rts /\ rt'.gen = rt.gen /\ rt'.mode = rt.mode
      /\ rt'.state = rt.state \/ (rt.state = "ready" /\ rt'.state = "exited")
  <2>1. CASE rt' = rt
    BY <2>1 DEF Shape
  <2>2. CASE rt.state = "ready" /\ rt' = [rt EXCEPT !.state = "exited"]
    BY <2>2 DEF Shape, Rts, RtStates
  <2> QED
    BY <1>2, <2>1, <2>2
<1>4. SameOwner
  BY <1>1, <1>3 DEF SameOwner, Unleased
<1>5. Queued' = Queued /\ HostAction' = HostAction /\ Clicks' = Clicks /\ Unanswered' = Unanswered
  BY <1>1, SameSets DEF Queued, Unanswered
<1>6. \A q \in Actions : SameAction(q)
  BY <1>1, <1>5 DEF SameAction
<1>7. gate \in Gates /\ (\A q \in Actions : q # "free" /\ q # "close") /\ \A q \in Clicks : q \in Actions
  BY SplitAssumption DEF Shape, Clicks, Of
<1>8. gate' \in Gates /\ GateInv'
  <2>1. CASE BeginClose
    <3>1. gate' \in Gates /\ gate'.holder = gate.holder /\ gate'.closer = "gate" /\ gate.closer = "idle"
      <4>1. gate.epoch + 1 \in Nat /\ gate.closes + 1 \in Nat
        BY <1>7 DEF Gates
      <4>2. gate' = [gate EXCEPT !.closing = TRUE, !.epoch = gate.epoch + 1, !.closer = "gate", !.closes = gate.closes + 1]
            /\ gate.closer = "idle"
        BY <2>1 DEF BeginClose
      <4> QED
        BY <1>7, <4>1, <4>2 DEF Gates
    <3> QED
      BY <3>1, <1>1, <1>5 DEF SplitInv, GateInv
  <2>2. CASE CloseGate
    <3>1. /\ gate' \in Gates /\ gate.closer = "gate"
          /\ \/ gate.holder = "free" /\ gate'.holder = "close" /\ gate'.closer = "check"
             \/ gate'.holder = gate.holder /\ gate'.closer = "idle"
      BY <2>2, <1>7 DEF CloseGate, Gates, GateFree
    <3>2. \A q \in Clicks : q # "free" /\ q # "close"
      BY <1>7
    <3> QED
      BY <3>1, <3>2, <1>1, <1>5 DEF SplitInv, GateInv
  <2>3. CASE CheckClose
    <3>1. /\ gate' \in Gates /\ gate'.holder = gate.holder /\ gate.closer = "check"
          /\ gate'.closer \in {"close", "finish"} /\ (gate'.closer = "close" => Unanswered \cap Clicks = {})
      BY <2>3, <1>7 DEF CheckClose, Gates
    <3> QED
      BY <3>1, <1>1, <1>5 DEF SplitInv, GateInv
  <2>4. CASE CloseWindow
    <3>1. gate' \in Gates /\ gate'.holder = gate.holder /\ gate.closer = "close" /\ gate'.closer = "finish"
      BY <2>4, <1>7 DEF CloseWindow, Gates
    <3> QED
      BY <3>1, <1>1, <1>5 DEF SplitInv, GateInv
  <2>5. CASE FinishClose
    <3>1. gate' \in Gates /\ gate'.holder = "free" /\ gate.closer = "finish" /\ gate'.closer = "idle"
      BY <2>5, <1>7 DEF FinishClose, Gates
    <3>2. gate.holder = "close"
      BY <3>1 DEF SplitInv, GateInv
    <3> QED
      BY <3>1, <3>2, <1>1, <1>5, <1>7 DEF SplitInv, GateInv
  <2> QED
    BY <2>1, <2>2, <2>3, <2>4, <2>5 DEF CloserStep
<1>9. Shape'
  BY <1>1, <1>3, <1>8 DEF Shape
<1>10. OwnerInv'
  BY <1>1, <1>3 DEF SplitInv, OwnerInv
<1>11. QueueInv'
  BY <1>1, <1>3, <1>5 DEF SplitInv, QueueInv
<1>12. Final
  BY <1>1 DEF Final, FinalFor
<1> QED
  BY <1>4, <1>6, <1>8, <1>9, <1>10, <1>11, <1>12, SameActions

\* No host is queued under an owner that does not give way.
LEMMA StaysOwner ==
    ASSUME Shape, SplitInv, rt.state \notin {"closing", "blocked", "vacant", "lost"}
    PROVE  \A h \in HostAction : h \notin Queued
BY DEF SplitInv, QueueInv

\* The owner begins to give way.
LEMMA BeginReplaceStep ==
    ASSUME Shape, SplitInv, BeginReplace
    PROVE  (Shape /\ SplitInv)' /\ Final
<1> DEFINE s == IF rt.mode = "browser" THEN "closing" ELSE "vacant"
<1>1. /\ rt' = [rt EXCEPT !.state = s] /\ rt.state \in {"ready", "blocked"} /\ rt.gen < inst.generations
      /\ Leased = {} /\ (rt.mode = "browser" => ~tr.untracked)
      /\ UNCHANGED <<inst, tr, queue, act, post, helper, conv, direct, gate, ghost>>
  BY DEF BeginReplace, Runtime, ReplacementReadiness
<1>2. s \in RtStates /\ (s = "closing" <=> rt.mode = "browser") /\ s \in {"closing", "vacant"}
  BY DEF RtStates
<1> HIDE DEF s
<1>3. rt' \in Rts /\ rt'.gen = rt.gen /\ rt'.mode = rt.mode /\ rt'.state = s
  BY <1>1, <1>2 DEF Shape, Rts
<1>4. tr' \in Trs /\ tr' = tr
  BY <1>1 DEF Shape
<1>5. \A h \in HostAction : h \in Queued => rt.state = "blocked" /\ rt.mode = "browser"
  BY <1>1, StaysOwner DEF SplitInv, OwnerInv
<1> QED
  BY <1>1, <1>2, <1>3, <1>4, <1>5, OwnerMoves

\* The new owner is ready.
LEMMA LaunchedStep ==
    ASSUME Shape, SplitInv, Launched
    PROVE  (Shape /\ SplitInv)' /\ Final
<1>1. /\ rt' = [rt EXCEPT !.state = "ready"] /\ rt.state = "launching"
      /\ tr' = [tr EXCEPT !.direct = (rt.mode = "reader")]
      /\ UNCHANGED <<inst, queue, act, post, helper, conv, direct, gate, ghost>>
  BY DEF Launched, Runtime
<1>2. rt' \in Rts /\ rt'.gen = rt.gen /\ rt'.mode = rt.mode /\ rt'.state = "ready"
  BY <1>1 DEF Shape, Rts, RtStates
<1>3. tr' \in Trs /\ tr'.key = tr.key /\ tr'.closed = tr.closed /\ tr'.untracked = tr.untracked
  BY <1>1 DEF Shape, Trs
<1>4. "ready" \notin Unleased
  BY DEF Unleased
<1> QED
  BY <1>1, <1>2, <1>3, <1>4, StaysOwner, OwnerMoves

\* No owner comes.
LEMMA LaunchFailsStep ==
    ASSUME Shape, SplitInv, LaunchFails
    PROVE  (Shape /\ SplitInv)' /\ Final
<1>1. /\ rt' = [rt EXCEPT !.state = "lost"] /\ rt.state = "launching"
      /\ UNCHANGED <<inst, tr, queue, act, post, helper, conv, direct, gate, ghost>>
  BY DEF LaunchFails, Runtime
<1>2. rt' \in Rts /\ rt'.gen = rt.gen /\ rt'.mode = rt.mode /\ rt'.state = "lost"
  BY <1>1 DEF Shape, Rts, RtStates
<1>3. tr' \in Trs /\ tr' = tr
  BY <1>1 DEF Shape
<1>4. "launching" \in Unleased
  BY DEF Unleased
<1> QED
  BY <1>1, <1>2, <1>3, <1>4, StaysOwner, OwnerMoves

\* The reader installs its callbacks.
LEMMA SetSplitDirectNativeReaderStep ==
    ASSUME Shape, SplitInv, SetSplitDirectNativeReader
    PROVE  (Shape /\ SplitInv)' /\ Final
<1>1. /\ rt' = rt /\ rt.state = "ready" /\ tr' = [tr EXCEPT !.direct = TRUE]
      /\ UNCHANGED <<inst, queue, act, post, helper, conv, direct, gate, ghost>>
  BY DEF SetSplitDirectNativeReader
<1>2. rt' \in Rts
  BY <1>1 DEF Shape
<1>3. tr' \in Trs /\ tr'.key = tr.key /\ tr'.closed = tr.closed /\ tr'.untracked = tr.untracked
  BY <1>1 DEF Shape, Trs
<1> QED
  BY <1>1, <1>2, <1>3, StaysOwner, OwnerMoves

\* The worker negotiates.
LEMMA BootstrapStep ==
    ASSUME Shape, SplitInv, NEW k, Bootstrap(k)
    PROVE  (Shape /\ SplitInv)' /\ Final
<1>1. /\ rt' = rt /\ tr' = [tr EXCEPT !.boot = TRUE]
      /\ UNCHANGED <<inst, queue, act, post, helper, conv, direct, gate, ghost>>
  BY DEF Bootstrap
<1>2. rt' \in Rts
  BY <1>1 DEF Shape
<1>3. tr' \in Trs /\ tr'.key = tr.key /\ tr'.closed = tr.closed /\ tr'.untracked = tr.untracked
  BY <1>1 DEF Shape, Trs
<1>4. OwnerInv /\ QueueInv
  BY DEF SplitInv
<1> QED
  BY <1>1, <1>2, <1>3, <1>4, OwnerMoves DEF OwnerInv, QueueInv

\* The owner exits by itself.
LEMMA OwnerExitsStep ==
    ASSUME Shape, SplitInv, OwnerExits
    PROVE  (Shape /\ SplitInv)' /\ Final
<1>1. /\ rt' = [rt EXCEPT !.state = "exited", !.exits = rt.exits + 1] /\ rt.state = "ready"
      /\ UNCHANGED <<inst, tr, queue, act, post, helper, conv, direct, gate, ghost>>
  BY DEF OwnerExits
<1>2. rt' \in Rts /\ rt'.gen = rt.gen /\ rt'.mode = rt.mode /\ rt'.state = "exited"
  <2>1. rt \in Rts /\ rt.exits + 1 \in Nat
    BY DEF Shape, Rts
  <2> QED
    BY <1>1, <2>1 DEF Rts, RtStates
<1>3. tr' \in Trs /\ tr' = tr
  BY <1>1 DEF Shape
<1>4. "exited" \notin Unleased
  BY DEF Unleased
<1> QED
  BY <1>1, <1>2, <1>3, <1>4, StaysOwner, OwnerMoves

\* An exited owner is replaced.
LEMMA RecoverStep ==
    ASSUME Shape, SplitInv, Recover
    PROVE  (Shape /\ SplitInv)' /\ Final
<1>1. /\ rt' = [rt EXCEPT !.state = "vacant"] /\ rt.state = "failed" /\ Leased = {} /\ rt.gen < inst.generations
      /\ UNCHANGED <<inst, tr, queue, act, post, helper, conv, direct, gate, ghost>>
  BY DEF Recover, Runtime
<1>2. rt' \in Rts /\ rt'.gen = rt.gen /\ rt'.mode = rt.mode /\ rt'.state = "vacant"
  BY <1>1 DEF Shape, Rts, RtStates
<1>3. tr' \in Trs /\ tr' = tr
  BY <1>1 DEF Shape
<1> QED
  BY <1>1, <1>2, <1>3, StaysOwner, OwnerMoves

\* The host has closed, or is kept.
LEMMA HostClosedStep ==
    ASSUME Shape, SplitInv, NEW a \in Actions, HostClosed(a)
    PROVE  (Shape /\ SplitInv)' /\ Final
<1>1. PICK s \in {"vacant", "blocked"} : rt' = [rt EXCEPT !.state = s] /\ (s = "vacant" => act[a].done)
  BY DEF HostClosed, Runtime
<1>2. /\ rt.state = "closing" /\ a \in HostAction /\ a \in Queued
      /\ UNCHANGED <<inst, tr, queue, act, post, helper, conv, direct, gate, ghost>>
  BY DEF HostClosed
<1>3. rt' \in Rts /\ rt'.gen = rt.gen /\ rt'.mode = rt.mode /\ rt'.state = s
  BY <1>1 DEF Shape, Rts, RtStates
<1>4. tr' \in Trs /\ tr' = tr
  BY <1>2 DEF Shape
<1>5. \A h \in HostAction : h \in Queued => h = a
  BY <1>2 DEF SplitInv, QueueInv
<1>6. rt.gen < inst.generations /\ rt.mode = "browser" /\ rt.state \in Unleased
  BY <1>2 DEF SplitInv, OwnerInv, Unleased
<1> QED
  BY <1>1, <1>2, <1>3, <1>4, <1>5, <1>6, OwnerMoves

\* The host is asked to close, or the owner is kept.
LEMMA CloseHostStep ==
    ASSUME Shape, SplitInv, NEW a \in Actions, CloseHost(a)
    PROVE  (Shape /\ SplitInv)' /\ Final
<1>1. rt.state = "closing" /\ a \in HostAction /\ UNCHANGED <<inst, tr, post, helper, conv, direct, gate, ghost>>
  BY DEF CloseHost
<1>2. ASSUME Runtime("blocked"), UNCHANGED <<queue, act>> PROVE (Shape /\ SplitInv)' /\ Final
  <2>1. rt' \in Rts /\ rt'.gen = rt.gen /\ rt'.mode = rt.mode /\ rt'.state = "blocked"
    BY <1>2 DEF Runtime, Shape, Rts, RtStates
  <2>2. tr' \in Trs /\ tr' = tr
    BY <1>1 DEF Shape
  <2>3. rt.mode = "browser" /\ rt.state \in Unleased
    BY <1>1 DEF SplitInv, OwnerInv, Unleased
  <2>4. \A h \in HostAction : h \in Queued => "blocked" \in {"closing", "blocked", "vacant", "lost"}
    OBVIOUS
  <2> QED
    BY <1>1, <1>2, <2>1, <2>2, <2>3, <2>4, OwnerMoves
<1>3. ASSUME HostAction \cap Queued = {}, act[a].admitted = 0, queue' = Append(queue, a), rt' = rt,
             act' = [act EXCEPT ![a] = [act[a] EXCEPT !.admitted = rt.gen]]
      PROVE (Shape /\ SplitInv)' /\ Final
  <2>1. /\ ActionInv(a) /\ act[a] \in Entries /\ rt.gen \in Nat /\ rt.gen # 0 /\ Fresh(a) /\ Kind(a) = "host"
        /\ a \notin Clicks /\ a \notin Requests
    BY <1>1, <1>3, Typed DEF SplitInv, ActionInv, AdmittedInv, HostAction, Clicks, Requests, Of
  <2>2. [act[a] EXCEPT !.admitted = rt.gen] \in Entries
    BY <2>1 DEF Entries
  <2>3. act'[a] = [act[a] EXCEPT !.admitted = rt.gen] /\ \A q \in Actions \ {a} : act'[q] = act[q]
    BY <1>3 DEF Shape
  <2>4. /\ SameAnswer(a) /\ SameLease(a) /\ SameReader(a) /\ SameHelper(a)
        /\ act'[a].claimed = act[a].claimed /\ act'[a].by = act[a].by /\ act'[a].admitted = rt.gen
    <3>1. SameAnswer(a) /\ SameLease(a)
      BY <2>1, <2>3 DEF Entries, SameAnswer, SameLease
    <3>2. SameReader(a)
      BY <2>1, <2>3 DEF Entries, SameReader
    <3>3. SameHelper(a)
      BY <2>1, <2>3 DEF Entries, SameHelper
    <3>4. act'[a].claimed = act[a].claimed /\ act'[a].by = act[a].by /\ act'[a].admitted = rt.gen
      BY <2>1, <2>3 DEF Entries
    <3> QED
      BY <3>1, <3>2, <3>3, <3>4
  <2>5. queue' \in Seq(Actions) /\ Queued' = Queued \cup {a} /\ IsInjective(queue')
    BY <1>3, <2>1, AppendQueue DEF Shape, SplitInv, QueueInv, Fresh
  <2>6. Shape'
    <3>1. act' \in [Actions -> Entries]
      BY <1>3, <2>2 DEF Shape
    <3> QED
      BY <1>1, <1>3, <2>5, <3>1 DEF Shape
  <2>7. SameOwner /\ Clicks' = Clicks /\ Requests' = Requests /\ HostAction' = HostAction /\ Kind(a)' = Kind(a)
    BY <1>1, <1>3, SameSets DEF SameOwner
  <2>8. Others(a)
    BY <1>1, <2>3, <2>5 DEF Others, SameAction
  <2>9. AdmittedInv(a)'
    BY <1>1, <1>3, <2>1, <2>4, <2>5, <2>7 DEF ActionInv, AdmittedInv, SameAnswer, SameLease,
       SameReader, SameHelper
  <2>10. ClaimInv(a)'
    BY <1>1, <1>3, <2>1, <2>4, <2>5, <2>7 DEF ActionInv, ClaimInv, Fresh, SameAnswer, SameReader
  <2>11. LeaseInv(a)'
    BY <1>1, <1>3, <2>1, <2>4, <2>5, <2>7 DEF ActionInv, LeaseInv, SameAnswer, SameLease, SameReader
  <2>12. ToldInv(a)'
    BY <1>1, <1>3, <2>1, <2>4, <2>5, <2>7 DEF ActionInv, ToldInv, Fresh, SameAnswer, SameReader,
       SameHelper
  <2>13. OwnerInv'
    BY <1>1, <1>3 DEF SplitInv, OwnerInv
  <2>14. QueueInv'
    <3>1. Queued' \ HostAction = Queued \ HostAction
      BY <1>1, <2>5
    <3>2. \A h \in HostAction : h \in Queued' => h = a
      BY <1>3, <2>5
    <3> QED
      BY <1>1, <1>3, <2>5, <2>7, <3>1, <3>2 DEF SplitInv, QueueInv
  <2>15. \A q \in Unanswered' : q \in Clicks => q \in Unanswered
    BY <2>1, <2>3, <2>5, QueuedFacts DEF Unanswered, Shape
  <2>16. GateInv'
    BY <1>1, <2>7, <2>15, SameGate DEF SplitInv
  <2>17. Final
    <3>1. FinalFor(a)
      BY <2>4 DEF FinalFor, SameAnswer
    <3>2. \A q \in Actions \ {a} : FinalFor(q)
      BY <2>3 DEF FinalFor
    <3> QED
      BY <1>1, <3>1, <3>2 DEF Final
  <2> QED
    BY <2>6, <2>7, <2>8, <2>9, <2>10, <2>11, <2>12, <2>13, <2>14, <2>16, <2>17, OneAction DEF
       ActionInv
<1>4. CASE tr.closed \/ ~tr.boot \/ Unanswered \ {a} # {}
  BY <1>2, <1>4 DEF CloseHost
<1>5. CASE ~(tr.closed \/ ~tr.boot \/ Unanswered \ {a} # {})
  <2>1. /\ HostAction \cap Queued = {} /\ act[a].admitted = 0 /\ queue' = Append(queue, a) /\ rt' = rt
        /\ act' = [act EXCEPT ![a] = [act[a] EXCEPT !.admitted = rt.gen]]
    BY <1>5 DEF CloseHost, Shape
  <2> QED
    BY <1>3, <2>1
<1> QED
  BY <1>4, <1>5

\* A new owner: a new key, an empty queue.
LEMMA RotateStep ==
    ASSUME Shape, SplitInv, NEW mode \in inst.modes, RotateSplitCapture(mode)
    PROVE  (Shape /\ SplitInv)' /\ Final
<1>1. rt.state = "vacant" /\ UNCHANGED <<inst, act, post, helper, conv, direct, gate, ghost>>
  BY DEF RotateSplitCapture
<1>2. CASE ~Rotatable
  <2>1. rt' \in Rts /\ rt'.gen = rt.gen /\ rt'.mode = rt.mode /\ rt'.state = "lost"
    BY <1>2 DEF RotateSplitCapture, Runtime, Shape, Rts, RtStates
  <2>2. tr' \in Trs /\ tr' = tr /\ queue' = queue
    BY <1>2 DEF RotateSplitCapture, Shape
  <2>3. rt.state \in Unleased
    BY <1>1 DEF Unleased
  <2> QED
    BY <1>1, <2>1, <2>2, <2>3, OwnerMoves
<1>3. CASE Rotatable
  <2>1. /\ rt' = [rt EXCEPT !.state = "launching", !.gen = rt.gen + 1, !.mode = mode]
        /\ tr' = [tr EXCEPT !.key = rt.gen + 1, !.boot = FALSE, !.untracked = FALSE, !.direct = FALSE]
        /\ queue' = <<>>
    BY <1>3 DEF RotateSplitCapture
  <2>2. mode \in Modes /\ rt.gen \in Nat /\ rt.gen # 0 /\ rt.gen < inst.generations /\ inst.generations \in Nat
    BY <1>1, Typed, SplitAssumption DEF Shape, SplitInv, OwnerInv
  <2>3. rt' \in Rts /\ rt'.state = "launching" /\ rt'.gen = rt.gen + 1
    <3>1. rt \in Rts /\ rt.gen + 1 \in Nat
      BY <2>2 DEF Shape
    <3> QED
      BY <2>1, <2>2, <3>1 DEF Rts, RtStates
  <2>4. tr' \in Trs /\ tr'.key = rt.gen + 1 /\ tr'.closed = tr.closed /\ ~tr'.untracked
    <3>1. tr \in Trs /\ rt.gen + 1 \in Nat
      BY <2>2 DEF Shape
    <3> QED
      BY <2>1, <3>1 DEF Trs
  <2>5. queue' \in Seq(Actions) /\ Queued' = {} /\ IsInjective(queue')
    BY <2>1, EmptyQueue
  <2>6. Shape'
    BY <1>1, <2>3, <2>4, <2>5 DEF Shape
  <2>7. OwnerInv'
    BY <1>1, <2>2, <2>3, <2>4 DEF OwnerInv
  <2>8. Cardinality({}) = 0 /\ inst.limit \in Nat /\ {} \ HostAction' = {}
    BY FS_EmptySet, SplitAssumption DEF Shape
  <2>9. QueueInv'
    BY <1>1, <2>5, <2>8 DEF QueueInv
  <2>10. Unanswered' = {} /\ Clicks' = Clicks /\ Requests' = Requests
    BY <1>1, <2>5, SameSets DEF Unanswered
  <2>11. GateInv'
    BY <1>1, <2>10 DEF SplitInv, GateInv
  <2>12. \A q \in Actions : q \in Queued => act[q].done
    BY <1>3 DEF Rotatable, Unanswered
  <2>13. ASSUME NEW q \in Actions PROVE ActionInv(q)'
    <3>1. ActionInv(q) /\ Kind(q)' = Kind(q) /\ ~tr.closed /\ act[q] \in Entries /\ act[q].lease = 0
      BY <1>1, <1>3, Typed, SameSets DEF SplitInv, ActionInv, Rotatable, LeaseInv, Unleased
    <3>2. act[q].by \in Nat /\ act[q].admitted \in Nat
      BY <3>1 DEF Entries
    <3>3. AdmittedInv(q)'
      BY <1>1, <2>2, <2>3, <2>5, <2>10, <3>1, <3>2 DEF ActionInv, AdmittedInv, Fresh
    <3>4. ClaimInv(q)'
      BY <1>1, <2>2, <2>3, <2>4, <2>5, <2>12, <3>1, <3>2 DEF ActionInv, ClaimInv, AdmittedInv
    <3>5. LeaseInv(q)'
      BY <1>1, <2>2, <2>3, <2>5, <3>1 DEF ActionInv, LeaseInv
    <3>6. ToldInv(q)'
      BY <1>1, <2>5, <2>10, <3>1 DEF ActionInv, ToldInv
    <3> QED
      BY <3>3, <3>4, <3>5, <3>6 DEF ActionInv
  <2>14. Final
    BY <1>1 DEF Final, FinalFor
  <2> QED
    BY <2>6, <2>7, <2>9, <2>11, <2>13, <2>14 DEF SplitInv, ActionInv
<1> QED
  BY <1>2, <1>3

\* What a probe of an exited reader leaves behind.
LEMMA RetireStep ==
    ASSUME Shape, SplitInv, retireReaderPassiveActions
    PROVE  (Shape /\ SplitInv)' /\ Final
<1>1. /\ rt.state = "exited" /\ rt' = [rt EXCEPT !.state = "failed"] /\ Dequeue(Retired)
      /\ act' = [q \in Actions |-> IF q \in Retired THEN [Released(act[q]) EXCEPT !.done = TRUE] ELSE act[q]]
      /\ UNCHANGED <<inst, tr, post, helper, conv, direct, gate, ghost>>
  BY DEF retireReaderPassiveActions, removeAction, Runtime
<1>2. rt' \in Rts /\ rt'.state = "failed" /\ rt'.gen = rt.gen /\ rt'.mode = rt.mode
  BY <1>1 DEF Shape, Rts, RtStates
<1>3. queue' \in Seq(Actions) /\ Queued' = Queued \ Retired
  BY <1>1, DequeueQueue DEF Shape, SplitInv, QueueInv
<1>4. ASSUME NEW q \in Actions PROVE act'[q] \in Entries
  <2>1. act[q] \in Entries
    BY DEF Shape
  <2>2. [Released(act[q]) EXCEPT !.done = TRUE] \in Entries
    BY <2>1 DEF Released, Entries
  <2> QED
    BY <1>1, <2>1, <2>2
<1>5. Shape'
  BY <1>1, <1>2, <1>3, <1>4 DEF Shape
<1>6. SameOwner /\ Clicks' = Clicks /\ Requests' = Requests /\ HostAction' = HostAction
  BY <1>1, <1>2, SameSets DEF SameOwner, Unleased
<1>7. \A q \in Actions \ Retired : ActionInv(q)'
  <2> SUFFICES ASSUME NEW q \in Actions \ Retired PROVE ActionInv(q)'
    OBVIOUS
  <2>1. SameAction(q)
    BY <1>1, <1>3 DEF SameAction
  <2> QED
    BY <1>6, <2>1, OtherAction DEF SplitInv, ActionInv
<1>8. \A q \in Retired : q \in Actions /\ q \in Queued /\ Kind(q) = "probe"
  BY QueuedFacts DEF Retired, Shape
<1>9. ASSUME NEW a \in Retired PROVE ActionInv(a)' /\ FinalFor(a)
  <2>1. a \in Actions /\ a \in Queued /\ a \notin Queued' /\ Kind(a) = "probe" /\ Kind(a)' = Kind(a) /\ a \notin Clicks
    BY <1>1, <1>3, <1>8, SameSets DEF Clicks, Of
  <2>2. act[a] \in Entries /\ ActionInv(a) /\ rt.gen \in Nat /\ rt.gen # 0
    BY <2>1, Typed DEF SplitInv, ActionInv
  <2>3. act'[a] = [Released(act[a]) EXCEPT !.done = TRUE]
    BY <1>1, <2>1
  <2>4. /\ act'[a].lease = 0 /\ ~act'[a].borrowed /\ act'[a].done /\ act'[a].ok = act[a].ok
        /\ SameClaim(a) /\ SameReader(a) /\ SameHelper(a)
    <3>1. act'[a].lease = 0 /\ ~act'[a].borrowed /\ act'[a].done /\ act'[a].ok = act[a].ok
      BY <2>2, <2>3 DEF Released, Entries
    <3>2. SameClaim(a)
      BY <2>2, <2>3 DEF Released, Entries, SameClaim
    <3>3. SameReader(a)
      BY <2>2, <2>3 DEF Released, Entries, SameReader
    <3>4. SameHelper(a)
      BY <2>2, <2>3 DEF Released, Entries, SameHelper
    <3> QED
      BY <3>1, <3>2, <3>3, <3>4
  <2>5. AdmittedInv(a)'
    BY <1>1, <1>2, <1>6, <2>1, <2>2, <2>4 DEF ActionInv, AdmittedInv, Fresh, SameClaim,
       SameReader, SameHelper
  <2>6. ClaimInv(a)'
    BY <1>1, <1>2, <1>6, <2>1, <2>2, <2>4 DEF ActionInv, ClaimInv, SameClaim, SameReader
  <2>7. LeaseInv(a)'
    BY <1>1, <1>2, <1>6, <2>1, <2>2, <2>4 DEF ActionInv, LeaseInv, AdmittedInv, Fresh, SameClaim,
       SameReader
  <2>8. ToldInv(a)'
    BY <1>1, <1>6, <2>1, <2>2, <2>4 DEF ActionInv, ToldInv, AdmittedInv, SameClaim, SameReader,
       SameHelper
  <2>9. FinalFor(a)
    BY <2>4 DEF FinalFor, SameClaim
  <2> QED
    BY <2>5, <2>6, <2>7, <2>8, <2>9 DEF ActionInv
<1>10. \A h \in HostAction : h \notin Queued /\ h \notin Queued'
  BY <1>1, <1>3, StaysOwner
<1>11. OwnerInv'
  BY <1>1, <1>2 DEF SplitInv, OwnerInv
<1>12. QueueInv'
  <2>1. IsInjective(queue')
    BY <1>1, DequeueQueue DEF Shape, SplitInv, QueueInv
  <2>2. IsFiniteSet(Queued) /\ Queued' \ HostAction \subseteq Queued \ HostAction
    BY <1>3, QueuedFacts DEF Shape
  <2>3. /\ Cardinality(Queued' \ HostAction) <= Cardinality(Queued \ HostAction)
        /\ Cardinality(Queued' \ HostAction) \in Nat /\ Cardinality(Queued \ HostAction) \in Nat
    BY <2>2, FS_Subset, FS_CardinalityType
  <2>4. inst.limit \in Nat /\ inst' = inst
    BY <1>1, SplitAssumption DEF Shape
  <2> QED
    BY <1>6, <1>10, <2>1, <2>3, <2>4 DEF SplitInv, QueueInv
<1>13. \A q \in Unanswered' : q \in Clicks => q \in Unanswered
  <2> SUFFICES ASSUME NEW q \in Unanswered', q \in Clicks PROVE q \in Unanswered
    OBVIOUS
  <2>1. q \in Queued /\ q \notin Retired /\ q \in Actions /\ ~act'[q].done
    BY <1>3, QueuedFacts DEF Unanswered, Shape
  <2> QED
    BY <1>1, <2>1 DEF Unanswered
<1>14. GateInv'
  BY <1>1, <1>6, <1>13, SameGate DEF SplitInv
<1>15. Final
  <2>1. ASSUME NEW q \in Actions \ Retired PROVE FinalFor(q)
    BY <1>1, <2>1 DEF FinalFor
  <2> QED
    BY <1>1, <1>9, <2>1 DEF Final
<1> QED
  BY <1>5, <1>7, <1>9, <1>11, <1>12, <1>14, <1>15 DEF SplitInv, ActionInv

\* The transport stops.
LEMMA CloseStep ==
    ASSUME Shape, SplitInv, close
    PROVE  (Shape /\ SplitInv)' /\ Final
<1>1. /\ tr' = [tr EXCEPT !.closed = TRUE] /\ queue' = <<>>
      /\ conv' = [q \in Actions |-> IF conv[q] = "active" THEN "cancelled" ELSE conv[q]]
      /\ act' = [q \in Actions |-> IF q \in Queued THEN Released(act[q]) ELSE act[q]]
      /\ UNCHANGED <<inst, rt, post, helper, direct, gate, ghost>>
  BY DEF close
<1>2. tr' \in Trs /\ tr'.key = tr.key /\ tr'.closed /\ tr'.untracked = tr.untracked
  BY <1>1 DEF Shape, Trs
<1>3. queue' \in Seq(Actions) /\ Queued' = {} /\ IsInjective(queue')
  BY <1>1, EmptyQueue
<1>4. \A q \in Actions : act'[q] \in Entries /\ conv'[q] \in {"none", "active", "cancelled"}
  <2> SUFFICES ASSUME NEW q \in Actions PROVE act'[q] \in Entries /\ conv'[q] \in {"none", "active", "cancelled"}
    OBVIOUS
  <2>1. act[q] \in Entries /\ conv[q] \in {"none", "active", "cancelled"}
    BY DEF Shape
  <2>2. Released(act[q]) \in Entries
    BY <2>1 DEF Released, Entries
  <2> QED
    BY <1>1, <2>1, <2>2
<1>5. Shape'
  BY <1>1, <1>2, <1>3, <1>4 DEF Shape
<1>6. Clicks' = Clicks /\ Requests' = Requests /\ HostAction' = HostAction /\ Unanswered' = {}
  BY <1>1, <1>3, SameSets DEF Unanswered
<1>7. OwnerInv'
  BY <1>1, <1>2 DEF SplitInv, OwnerInv
<1>8. Cardinality({}) = 0 /\ inst.limit \in Nat /\ {} \ HostAction' = {}
  BY FS_EmptySet, SplitAssumption DEF Shape
<1>9. QueueInv'
  BY <1>1, <1>3, <1>8 DEF QueueInv
<1>10. GateInv'
  BY <1>1, <1>6 DEF SplitInv, GateInv
<1>11. ASSUME NEW a \in Actions PROVE ActionInv(a)' /\ FinalFor(a)
  <2>1. act[a] \in Entries /\ ActionInv(a) /\ Kind(a)' = Kind(a)
    BY <1>1, Typed, SameSets DEF SplitInv, ActionInv
  <2>2. /\ (a \in Queued /\ act'[a].lease = 0 /\ ~act'[a].borrowed)
           \/ (a \notin Queued /\ SameLease(a))
        /\ SameClaim(a) /\ SameAnswer(a) /\ SameReader(a) /\ SameHelper(a)
    <3>1. CASE a \in Queued
      <4>1. act'[a] = Released(act[a])
        BY <1>1, <3>1
      <4>2. SameClaim(a) /\ SameAnswer(a)
        BY <2>1, <4>1 DEF Released, Entries, SameClaim, SameAnswer
      <4>3. SameReader(a)
        BY <2>1, <4>1 DEF Released, Entries, SameReader
      <4>4. SameHelper(a)
        BY <2>1, <4>1 DEF Released, Entries, SameHelper
      <4>5. act'[a].lease = 0 /\ ~act'[a].borrowed
        BY <2>1, <4>1 DEF Released, Entries
      <4> QED
        BY <3>1, <4>2, <4>3, <4>4, <4>5
    <3>2. CASE a \notin Queued
      <4>1. act'[a] = act[a]
        BY <1>1, <3>2
      <4> QED
        BY <3>2, <4>1 DEF SameLease, SameClaim, SameAnswer, SameReader, SameHelper
    <3> QED
      BY <3>1, <3>2
  <2>3. conv'[a] = conv[a] \/ conv[a] = "active"
    BY <1>1
  <2>4. AdmittedInv(a)'
    BY <1>1, <1>3, <1>6, <2>1, <2>2 DEF ActionInv, AdmittedInv, Fresh, SameClaim, SameAnswer,
       SameReader,
       SameHelper, SameLease
  <2>5. ClaimInv(a)'
    BY <1>1, <1>2, <2>1, <2>2 DEF ActionInv, ClaimInv, SameClaim, SameAnswer, SameReader
  <2>6. LeaseInv(a)'
    BY <1>1, <1>3, <2>1, <2>2 DEF ActionInv, LeaseInv, AdmittedInv, Fresh, SameClaim, SameAnswer,
       SameReader, SameLease
  <2>7. ToldInv(a)'
    BY <1>1, <1>3, <1>6, <2>1, <2>2, <2>3 DEF ActionInv, ToldInv, SameClaim, SameAnswer,
       SameReader, SameHelper
  <2>8. FinalFor(a)
    BY <2>2 DEF FinalFor, SameClaim, SameAnswer
  <2> QED
    BY <2>4, <2>5, <2>6, <2>7, <2>8 DEF ActionInv
<1>12. Final
  BY <1>1, <1>11 DEF Final
<1> QED
  BY <1>5, <1>7, <1>9, <1>10, <1>11, <1>12 DEF SplitInv, ActionInv

-----------------------------------------------------------------------------
\* The invariant holds at the start.
LEMMA SplitInitInv ==
    ASSUME SplitInit
    PROVE  Shape /\ SplitInv
<1>1. /\ inst \in Instances /\ queue = <<>> /\ act = [a \in Actions |-> NoAction]
      /\ rt = [state |-> "ready", gen |-> 1, mode |-> inst.first, exits |-> 0]
      /\ tr = [key |-> 1, boot |-> FALSE, untracked |-> FALSE, closed |-> FALSE, direct |-> FALSE]
      /\ post = [a \in Actions |-> [pc |-> "idle", epoch |-> 0]]
      /\ helper = [a \in Actions |-> "none"] /\ conv = [a \in Actions |-> "none"]
      /\ direct = [a \in Actions |-> [pc |-> "none", ok |-> FALSE]]
      /\ gate = [holder |-> "free", epoch |-> 0, closing |-> FALSE, closer |-> "idle", closes |-> 0]
      /\ ghost = [activated |-> {}, cancelled |-> {}]
  BY DEF SplitInit
<1>2. inst.generations \in Nat \ {0} /\ inst.limit \in Nat \ {0} /\ inst.first \in Modes
  BY <1>1, SplitAssumption
<1>3. queue \in Seq(Actions) /\ Queued = {} /\ IsInjective(queue)
  BY <1>1 DEF Queued, ToSet, IsInjective
<1>4. NoAction \in Entries
  BY DEF NoAction, Entries
<1>5. Shape
  <2>1. rt \in Rts /\ tr \in Trs
    BY <1>1, <1>2 DEF Rts, Trs, RtStates
  <2>2. act \in [Actions -> Entries] /\ post \in [Actions -> Posts] /\ direct \in [Actions -> Directs]
    BY <1>1, <1>4 DEF Posts, Directs
  <2>3. helper \in [Actions -> HelperStates] /\ conv \in [Actions -> {"none", "active", "cancelled"}]
    BY <1>1 DEF HelperStates
  <2>4. gate \in Gates /\ ghost \in [activated : SUBSET Actions, cancelled : SUBSET Actions]
    BY <1>1 DEF Gates
  <2> QED
    BY <1>1, <1>3, <2>1, <2>2, <2>3, <2>4 DEF Shape
<1>6. OwnerInv
  BY <1>1, <1>2 DEF OwnerInv
<1>7. QueueInv
  <2>1. Queued \ HostAction = {} /\ Cardinality({}) = 0
    BY <1>3, FS_EmptySet
  <2> QED
    BY <1>2, <1>3, <2>1 DEF QueueInv
<1>8. \A a \in Actions : a # "free" /\ a # "close" /\ post[a].pc = "idle"
  BY <1>1, SplitAssumption
<1>9. GateInv
  BY <1>1, <1>8 DEF GateInv, Clicks, Of
<1>10. ASSUME NEW a \in Actions PROVE ActionInv(a)
  <2>1. /\ ~act[a].claimed /\ act[a].by = 0 /\ act[a].admitted = 0 /\ ~act[a].done /\ ~act[a].ok
        /\ act[a].lease = 0 /\ ~act[a].borrowed /\ ~act[a].detached /\ ~act[a].brokered
        /\ ~act[a].direct /\ ~act[a].attached /\ act[a].prep = "no" /\ ~act[a].verified
        /\ ~act[a].manual /\ act[a].told = "nothing"
    BY <1>1 DEF NoAction
  <2>2. helper[a] = "none" /\ direct[a].pc = "none" /\ ~direct[a].ok /\ ghost.cancelled = {} /\ rt.gen = 1
    BY <1>1
  <2>3. AdmittedInv(a)
    BY <1>3, <1>8, <2>1, <2>2 DEF AdmittedInv, Fresh
  <2>4. ClaimInv(a)
    BY <2>1 DEF ClaimInv
  <2>5. LeaseInv(a)
    BY <1>3, <1>8, <2>1, <2>2 DEF LeaseInv
  <2>6. ToldInv(a)
    BY <2>1, <2>2 DEF ToldInv
  <2> QED
    BY <2>3, <2>4, <2>5, <2>6 DEF ActionInv
<1> QED
  BY <1>5, <1>6, <1>7, <1>9, <1>10 DEF SplitInv, ActionInv

\* Every step keeps the invariant, and what is final.
LEMMA SplitStepInv ==
    ASSUME Shape, SplitInv, SplitNext
    PROVE  (Shape /\ SplitInv)' /\ Final
<1>1. ASSUME NEW a \in Actions, RequestStep(a) PROVE (Shape /\ SplitInv)' /\ Final
  <2>1. CASE Request(a)
    BY <2>1, RequestArrives
  <2>2. CASE EnterGate(a)
    BY <2>2, EnterStaleStep, EnterGateStep
  <2>3. CASE GiveUp(a)
    BY <2>3, GiveUpStep
  <2>4. CASE Borrow(a)
    BY <2>4, BorrowStep
  <2>5. CASE Refuse(a)
    BY <2>5, RefuseStep
  <2>6. CASE Queue(a)
    BY <2>6, QueueStep
  <2>7. CASE Return(a)
    BY <2>7, ReturnKeptStep, ReturnRemovedStep
  <2> QED
    BY <1>1, <2>1, <2>2, <2>3, <2>4, <2>5, <2>6, <2>7 DEF RequestStep
<1>2. ASSUME NEW a \in Actions, HelperStep(a) PROVE (Shape /\ SplitInv)' /\ Final
  BY <1>2, HelperBeginStep, HelperAttachStep, HelperStopsStep, HelperGoesStep, HelperFailsStep,
     HelperActivateStep, HelperRecordStep DEF HelperStep
<1>3. ASSUME NEW a \in Actions, DirectReader(a) PROVE (Shape /\ SplitInv)' /\ Final
  BY <1>3, DirectRefusedStep, DirectAttachStep, DirectPreparedStep, DirectUnpreparedStep,
     DirectAwaitStep, DirectFinishStep, DirectRemoveStep DEF DirectReader
<1>4. ASSUME NEW a \in Actions,
             \/ CancelReaderBroker(a) \/ SourcePrepared(a) \/ ReaderPrepared(a)
             \/ ReleaseBrowserCollectionSurfaces(a) \/ DispatchBrowserMediaRecapture(a)
      PROVE  (Shape /\ SplitInv)' /\ Final
  BY <1>4, CancelQueuedStep, CancelStep, SourcePreparedStep, ReaderPreparedStep,
     ReleaseBrowserCollectionSurfacesStep, DispatchBrowserMediaRecaptureStep
<1>5. ASSUME NEW k \in 1..rt.gen, NextAction(k) PROVE (Shape /\ SplitInv)' /\ Final
  <2>1. PICK i \in DOMAIN queue :
          /\ Offered(queue[i])
          /\ act' = [act EXCEPT ![queue[i]].claimed = TRUE, ![queue[i]].by = k]
    BY <1>5 DEF NextAction
  <2> DEFINE a == queue[i]
  <2>2. a \in Queued /\ a \in Actions
    <3>1. a \in Queued
      BY <2>1 DEF Queued, ToSet
    <3> QED
      BY <3>1, QueuedFacts DEF Shape
  <2>3. k = rt.gen
    BY <1>5 DEF NextAction, Authorized, SplitInv, OwnerInv
  <2>4. act' = [act EXCEPT ![a] = [act[a] EXCEPT !.claimed = TRUE, !.by = rt.gen]]
    BY <2>1, <2>2, <2>3 DEF Shape
  <2>5. Claims(k, a)
    BY <2>1, <2>2, <2>3, <2>4 DEF Claims
  <2> HIDE DEF a
  <2> QED
    BY <1>5, <2>2, <2>5, NextActionStep
<1>6. ASSUME NEW k \in 1..rt.gen, Bootstrap(k) PROVE (Shape /\ SplitInv)' /\ Final
  BY <1>6, BootstrapStep
<1>7. ASSUME NEW k \in 1..rt.gen, NEW a \in Actions, WorkerStep(k, a) PROVE (Shape /\ SplitInv)' /\ Final
  <2>1. ASSUME NEW ok \in BOOLEAN, Result(k, a, ok) PROVE (Shape /\ SplitInv)' /\ Final
    BY <2>1, ResultStep
  <2> QED
    BY <1>7, <2>1, PrepareSourceStep, PrepareReaderStep, ReaderForegroundStep DEF WorkerStep
<1>8. ASSUME OwnerStep PROVE (Shape /\ SplitInv)' /\ Final
  <2>1. CASE BeginReplace \/ Launched \/ LaunchFails \/ SetSplitDirectNativeReader \/ OwnerExits \/ Recover
             \/ retireReaderPassiveActions
    BY <2>1, BeginReplaceStep, LaunchedStep, LaunchFailsStep, SetSplitDirectNativeReaderStep,
       OwnerExitsStep,
       RecoverStep, RetireStep
  <2>2. ASSUME NEW a \in Actions, CloseHost(a) \/ HostClosed(a) PROVE (Shape /\ SplitInv)' /\ Final
    BY <2>2, CloseHostStep, HostClosedStep
  <2>3. ASSUME NEW mode \in inst.modes, RotateSplitCapture(mode) PROVE (Shape /\ SplitInv)' /\ Final
    BY <2>3, RotateStep
  <2> QED
    BY <1>8, <2>1, <2>2, <2>3 DEF OwnerStep
<1> QED
  BY <1>1, <1>2, <1>3, <1>4, <1>5, <1>6, <1>7, <1>8, CloserSteps, CloseStep DEF SplitNext

\* A step that changes nothing.
LEMMA SplitStutter ==
    ASSUME Shape, SplitInv, UNCHANGED splitVars
    PROVE  (Shape /\ SplitInv)' /\ Final
<1>1. UNCHANGED <<inst, rt, tr, queue, act, post, helper, conv, direct, gate, ghost>>
  BY DEF splitVars
<1>2. rt' \in Rts /\ tr' \in Trs
  BY <1>1 DEF Shape
<1>3. OwnerInv /\ QueueInv
  BY DEF SplitInv
<1> QED
  BY <1>1, <1>2, <1>3, OwnerMoves DEF OwnerInv, QueueInv

\* The types, and what the transport keeps of its actions, in every state: the
\* inductive invariant of the module (split_capture.go, split_capture_broker.go).
THEOREM SplitInvariant == SplitSpec => [](Shape /\ SplitInv)
<1>1. SplitInit => Shape /\ SplitInv
  BY SplitInitInv
<1>2. Shape /\ SplitInv /\ [SplitNext]_splitVars => (Shape /\ SplitInv)'
  BY SplitStepInv, SplitStutter
<1> QED
  BY <1>1, <1>2, PTL DEF SplitSpec

\* The invariant gives each part of TransportSound.
LEMMA TransportSoundOf ==
    ASSUME Shape, SplitInv
    PROVE  TransportSound
<1>1. /\ rt.gen \in Nat /\ rt.gen # 0 /\ rt.state \in RtStates /\ inst.generations \in Nat
      /\ \A a \in Actions : act[a] \in Entries
  BY Typed DEF SplitInv
<1>2. SplitTypeOK
  <2>1. rt.gen \in 1..inst.generations /\ tr.key \in 1..inst.generations
    BY DEF SplitInv, OwnerInv
  <2>2. rt.mode \in Modes /\ rt.state \in RtStates
    BY DEF Shape, Rts
  <2>3. Cardinality(Queued \ HostAction) <= inst.limit /\ IsInjective(queue)
    BY DEF SplitInv, QueueInv
  <2>4. \A a \in Actions : act[a].lease \in 0..rt.gen /\ (act[a].claimed => act[a].admitted # 0)
    BY DEF SplitInv, LeaseInv, AdmittedInv, Fresh
  <2>5. gate.holder \in Actions \cup {"free", "close"}
    BY DEF Shape, Gates
  <2> QED
    BY <2>1, <2>2, <2>3, <2>4, <2>5 DEF SplitTypeOK, RtStates
<1>3. NothingLeaked
  BY DEF SplitInv, LeaseInv, NothingLeaked
<1>4. ClaimsFenced
  BY DEF SplitInv, ClaimInv, ClaimsFenced
<1>5. OpenedForReal
  <2> SUFFICES ASSUME NEW a \in Clicks, act[a].ok PROVE act[a].verified \/ (act[a].direct /\ act[a].manual)
    BY DEF OpenedForReal
  <2>1. a \in Actions
    BY DEF Clicks, Of
  <2> QED
    BY <2>1 DEF SplitInv, ToldInv
<1>6. ClosesIdleReader
  BY DEF SplitInv, GateInv, ClosesIdleReader
<1> QED
  BY <1>2, <1>3, <1>4, <1>5, <1>6 DEF TransportSound

\* What an action holds and who may claim, open and close: no lease is lost, a
\* claim belongs to the owner of the admission, a post that is reported open was
\* verified, the reader closes under no post (removeAction, beginNativeReaderClose).
THEOREM TransportSoundTheorem == SplitSpec => []TransportSound
BY SplitInvariant, TransportSoundOf, PTL

\* A source window whose lifetime is not tracked shows in the transport; an
\* action that is not answered is queued, and holds a lease unless it is the host.
LEMMA OwnerHandedOverOf ==
    ASSUME Shape, SplitInv
    PROVE  OwnerHandedOver
<1>1. SourcesTracked
  <2> SUFFICES ASSUME rt.state = "closing", NEW a \in Of({"source"}), act[a].by = tr.key, act[a].ok
               PROVE  act[a].prep = "ready"
    BY DEF SourcesTracked
  <2>1. a \in Actions /\ Kind(a) = "source"
    BY DEF Of
  <2>2. tr.key = rt.gen /\ ~tr.untracked
    BY DEF SplitInv, OwnerInv
  <2>3. ClaimInv(a)
    BY <2>1 DEF SplitInv
  <2> QED
    BY <2>1, <2>2, <2>3 DEF ClaimInv
<1>2. OwnerDrained
  <2> SUFFICES ASSUME rt.state \in {"vacant", "launching"}, ~tr.closed,
                      NEW a \in Actions, act[a].by = rt.gen, ~act[a].done
               PROVE  FALSE
    BY DEF OwnerDrained
  <2>1. rt.gen # 0 /\ ClaimInv(a) /\ LeaseInv(a)
    BY Typed DEF SplitInv
  <2>2. a \in Queued /\ ~act[a].direct
    BY <2>1 DEF ClaimInv
  <2>3. CASE Kind(a) = "host"
    <3>1. a \in HostAction
      BY <2>3 DEF HostAction, Of
    <3> QED
      BY <2>2, <3>1 DEF SplitInv, QueueInv
  <2>4. CASE Kind(a) # "host"
    BY <2>1, <2>2, <2>4 DEF LeaseInv, Unleased
  <2> QED
    BY <2>3, <2>4
<1> QED
  BY <1>1, <1>2 DEF OwnerHandedOver

\* An owner is asked to close with its source windows tracked and gives way with
\* its actions answered (SplitCaptureReplacementReadiness, RotateSplitCapture).
THEOREM OwnerHandedOverTheorem == SplitSpec => []OwnerHandedOver
BY SplitInvariant, OwnerHandedOverOf, PTL

\* A claim and an answer are final, and so is an acknowledged cancellation: no
\* step takes one back (Result, DirectFinish, CancelReaderBroker).
THEOREM AnswersFinalTheorem == SplitSpec => AnswersFinal
<1> DEFINE Once == \A a \in Actions :
                     /\ act[a].claimed => act'[a].claimed /\ act'[a].by = act[a].by
                     /\ act[a].done => act'[a].done /\ act'[a].ok = act[a].ok
           Stays == \A a \in ghost.cancelled : a \in ghost.activated' => a \in ghost.activated
<1>1. Shape /\ SplitInv /\ [SplitNext]_splitVars => Once /\ Stays
  BY SplitStepInv, SplitStutter DEF Final, FinalFor
<1>2. SplitSpec => [][Once]_splitVars /\ [][Stays]_splitVars
  BY <1>1, SplitInvariant, PTL DEF SplitSpec
<1> QED
  BY <1>2 DEF AnswersFinal, AtMostOnce, CancelledStaysClosed
=============================================================================
