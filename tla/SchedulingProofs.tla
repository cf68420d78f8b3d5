-------------------------- MODULE SchedulingProofs --------------------------
(***************************************************************************)
(* Proofs about what may start, and when.                                  *)
(*                                                                         *)
(* First the browser: the capture runtime manager, for any set of leases   *)
(* and any number of generations, and the coordinator that drives it.  The *)
(* coordinator's steps are steps of the manager, so every theorem about    *)
(* the manager holds of the composition; on top of it, what the            *)
(* coordinator records of its launches and hands to its borrowers.         *)
(*                                                                         *)
(* Then the update, in the last part: the automatic update scheduler, for  *)
(* any instances, limits, cadences and windows.  Its callers read their    *)
(* limits without a lock; the invariant counts what they may still add.    *)
(* The two parts share no variable and no lemma.                           *)
(***************************************************************************)
EXTENDS CollectionCoordinator, AutoUpdate, FiniteSetTheorems, SequenceTheorems, TLAPS

\* The owner is the process of the current generation, and a ready runtime has
\* one and has neither stopped nor a transition under way.
OwnerInv ==
  /\ current # None => current = generation
  /\ state = "ready" => current # None /\ pc = "idle" /\ ~stopped
  /\ pc \in {"readiness", "close"} => current # None
  /\ pc = "check" /\ prior = "ready" => current # None
  /\ pc = "launch" => current = None

\* A transition runs with no lease, on an owner that is not retained, and after
\* its owner's close was announced nothing can stop the runtime.
TransitionInv ==
  /\ pc # "idle" => leases = 0 /\ ~persistent /\ state # "ready"
  /\ pc \in {"check", "readiness", "close", "vacate"} => generation < MaxGeneration
  /\ pc \in {"close", "vacate", "launch"} => ~stopped
  /\ pc \in {"close", "vacate"} => current = None \/ current \in intentional
  /\ pc = "check" /\ stopped => current # None

\* Only the current generation's tree can exist; without an owner it can only
\* be one that a failed factory left, which blocks every launch.
TreeInv ==
  /\ roots \subseteq trees /\ trees \subseteq {generation}
  /\ pc \in {"vacate", "launch"} => trees = {}
  /\ current = None /\ (~launchBlocked \/ pc # "idle") => trees = {}

LeaseInv ==
  /\ LeaseCountExact
  /\ LeasePinsOwner
  /\ LeasedWorkerHeld

Inv == TypeOK /\ OwnerInv /\ TransitionInv /\ TreeInv /\ LeaseInv

-----------------------------------------------------------------------------
\* Held is a finite set: the leases of a manager are finitely many.
LEMMA HeldFinite == IsFiniteSet(Held)
  BY LeasesAssumption, FS_Subset DEF Held

\* No lease is held exactly when the counter is zero.
LEMMA NoLeaseNoHolder == LeaseCountExact => (leases = 0 <=> Held = {})
  BY HeldFinite, FS_EmptySet DEF LeaseCountExact

\* Initially the adopted process owns the profile and nothing is leased.
LEMMA InitInv == Init => Inv
<1> SUFFICES ASSUME Init PROVE Inv
  OBVIOUS
<1>1. TypeOK
  <2>1. 1 \in Generations
    BY GenerationAssumption DEF Generations
  <2>2. driver \in [Generations -> Drivers]
    BY DEF Init
  <2>3. leaseGen \in [Leases -> {None} \cup Generations]
        /\ leaseState \in [Leases -> {"unused", "held", "released"}]
    BY DEF Init
  <2> QED BY <2>1, <2>2, <2>3 DEF Init, TypeOK, States
<1>2. OwnerInv /\ TransitionInv /\ TreeInv
  BY DEF Init, OwnerInv, TransitionInv, TreeInv, None
<1>3. Held = {}
  BY DEF Init, Held
<1>4. LeaseInv
  BY <1>3, FS_EmptySet DEF Init, LeaseInv, LeaseCountExact, LeasePinsOwner, LeasedWorkerHeld
<1> QED BY <1>1, <1>2, <1>4 DEF Inv

-----------------------------------------------------------------------------
\* Every step keeps the types.
LEMMA TypeStep == Inv /\ [Next]_vars => TypeOK'
<1> SUFFICES ASSUME Inv, [Next]_vars PROVE TypeOK'
  OBVIOUS
<1> USE DEF Inv, TypeOK, flags, owners, tokens, operation, processes
<1>1. CASE \E p \in Generations : RootExit(p) \/ TreeExit(p)
  BY <1>1 DEF RootExit, TreeExit
<1>2. CASE \E p \in Generations : watch(p)
  <2>1. PICK p \in Generations : watch(p)
    BY <1>2
  <2>2. state' \in States /\ launchBlocked' \in BOOLEAN /\ stopped' \in BOOLEAN
        /\ finished' \in BOOLEAN
    BY <2>1 DEF watch, States
  <2> QED BY <2>1, <2>2 DEF watch
<1>3. CASE \E l \in Leases : Acquire(l)
  <2>1. PICK l \in Leases : Acquire(l)
    BY <1>3
  <2>2. leases' \in Nat
    BY <2>1 DEF Acquire
  <2>3. state' \in States /\ launchBlocked' \in BOOLEAN
    BY <2>1 DEF Acquire, HoldFails, States
  <2>4. idleHold' \subseteq Generations
    BY <2>1 DEF Acquire
  <2>5. leaseState' \in [Leases -> {"unused", "held", "released"}]
        /\ leaseGen' \in [Leases -> {None} \cup Generations]
    BY <2>1 DEF Acquire
  <2> QED BY <2>1, <2>2, <2>3, <2>4, <2>5 DEF Acquire
<1>4. CASE \E l \in Leases : Release(l)
  <2>1. PICK l \in Leases : Release(l)
    BY <1>4
  <2>2. CASE leaseState[l] = "held"
    <3>1. leases # 0
      BY <2>2, NoLeaseNoHolder DEF LeaseInv, Held
    <3>2. state' \in States /\ launchBlocked' \in BOOLEAN
      BY <2>1, <2>2 DEF Release, Unhold, HoldFails, States
    <3>3. idleHold' \subseteq Generations
      BY <2>1, <2>2 DEF Release, Unhold, HoldFails
    <3>4. leases' \in Nat
      BY <2>1, <2>2, <3>1 DEF Release
    <3>5. leaseState' \in [Leases -> {"unused", "held", "released"}]
      BY <2>1, <2>2 DEF Release
    <3> QED BY <2>1, <2>2, <3>2, <3>3, <3>4, <3>5 DEF Release
  <2>3. CASE leaseState[l] # "held"
    BY <2>1, <2>3 DEF Release, vars
  <2> QED BY <2>2, <2>3
<1>5. CASE Replace \/ Recover
  BY <1>5 DEF Replace, Recover, States
<1>6. CASE RetainForProcess \/ Terminate
  BY <1>6 DEF RetainForProcess, Terminate, States
<1>7. CASE OperationStep
  <2>1. CASE TransitionReady
    BY <2>1 DEF TransitionReady
  <2>2. CASE TransitionNotReady \/ OwnerNotReady
    BY <2>2 DEF TransitionNotReady, OwnerNotReady, Restore
  <2>3. CASE OwnerReady
    <3>1. intentional' \subseteq Generations
      BY <2>3 DEF OwnerReady, OwnerInv
    <3> QED BY <2>3, <3>1 DEF OwnerReady
  <2>4. CASE CloseOwner
    BY <2>4 DEF CloseOwner
  <2>5. CASE CloseFails \/ LaunchCancelled
    BY <2>5 DEF CloseFails, LaunchCancelled, States
  <2>6. CASE Vacate
    <3>1. generation' \in Generations
      BY <2>6, GenerationAssumption DEF Vacate, TransitionInv, Generations
    <3> QED BY <2>6, <3>1 DEF Vacate
  <2>7. CASE \E d \in Drivers : Launched(d)
    <3>1. PICK d \in Drivers : Launched(d)
      BY <2>7
    <3>2. driver' \in [Generations -> Drivers] /\ launchBlocked' \in BOOLEAN
      BY <3>1 DEF Launched
    <3> QED BY <3>1, <3>2 DEF Launched, States
  <2>8. CASE \E returned, left \in BOOLEAN, d \in Drivers : LaunchFails(returned, left, d)
    <3>1. PICK returned \in BOOLEAN, left \in BOOLEAN, d \in Drivers : LaunchFails(returned, left, d)
      BY <2>8
    <3>2. driver' \in [Generations -> Drivers] /\ intentional' \subseteq Generations
          /\ current' \in {None} \cup Generations
      BY <3>1 DEF LaunchFails
    <3>3. roots' \subseteq Generations /\ trees' \subseteq Generations
      BY <3>1 DEF LaunchFails
    <3> QED BY <3>1, <3>2, <3>3 DEF LaunchFails, States
  <2> QED BY <1>7, <2>1, <2>2, <2>3, <2>4, <2>5, <2>6, <2>7, <2>8 DEF OperationStep
<1>8. CASE UNCHANGED vars
  BY <1>8 DEF vars
<1> QED BY <1>1, <1>2, <1>3, <1>4, <1>5, <1>6, <1>7, <1>8 DEF Next

-----------------------------------------------------------------------------
\* The owner and the transition keep in step: an exit reported while Replace
\* or Recover is between two sections never leaves it without its owner.
LEMMA OwnerStep == Inv /\ [Next]_vars => (OwnerInv /\ TransitionInv)'
<1> SUFFICES ASSUME Inv, [Next]_vars PROVE (OwnerInv /\ TransitionInv)'
  OBVIOUS
<1> USE DEF Inv, TypeOK, OwnerInv, TransitionInv, None,
        flags, owners, tokens, operation, processes
<1>1. CASE \E p \in Generations : RootExit(p) \/ TreeExit(p)
  BY <1>1 DEF RootExit, TreeExit
<1>2. CASE \E p \in Generations : watch(p)
  <2>1. PICK p \in Generations : watch(p)
    BY <1>2
  <2>2. CASE Unexpected(p)
    <3>1. state' = "failed" /\ current # 0 /\ current \notin intentional
          /\ pc \notin {"close", "vacate", "launch"}
      BY <2>1, <2>2 DEF watch, Unexpected, Generations
    <3> QED BY <2>1, <3>1 DEF watch
  <2>3. CASE ~Unexpected(p)
    BY <2>1, <2>3 DEF watch
  <2> QED BY <2>2, <2>3
<1>3. CASE \E l \in Leases : Acquire(l)
  <2>1. PICK l \in Leases : Acquire(l)
    BY <1>3
  <2>2. pc = "idle" /\ pc' = "idle" /\ (state' = state \/ state' = "blocked")
    BY <2>1 DEF Acquire, HoldFails
  <2> QED BY <2>1, <2>2 DEF Acquire
<1>4. CASE \E l \in Leases : Release(l)
  <2>1. PICK l \in Leases : Release(l)
    BY <1>4
  <2>2. CASE leaseState[l] = "held"
    <3>1. leases # 0
      BY <2>2, NoLeaseNoHolder DEF LeaseInv, Held
    <3>2. pc = "idle" /\ pc' = "idle" /\ (state' = state \/ state' = "blocked")
      BY <2>1, <2>2, <3>1 DEF Release, Unhold, HoldFails
    <3> QED BY <2>1, <2>2, <3>2 DEF Release
  <2>3. CASE leaseState[l] # "held"
    BY <2>1, <2>3 DEF Release, vars
  <2> QED BY <2>2, <2>3
<1>5. CASE Replace \/ Recover
  BY <1>5 DEF Replace, Recover
<1>6. CASE RetainForProcess \/ Terminate
  BY <1>6 DEF RetainForProcess, Terminate
<1>7. CASE OperationStep
  <2>1. CASE TransitionReady
    BY <2>1 DEF TransitionReady
  <2>2. CASE TransitionNotReady \/ OwnerNotReady
    BY <2>2 DEF TransitionNotReady, OwnerNotReady, Restore
  <2>3. CASE OwnerReady
    BY <2>3 DEF OwnerReady
  <2>4. CASE CloseOwner \/ CloseFails \/ LaunchCancelled
    BY <2>4 DEF CloseOwner, CloseFails, LaunchCancelled
  <2>5. CASE Vacate
    BY <2>5 DEF Vacate
  <2>6. CASE \E d \in Drivers : Launched(d)
    BY <2>6 DEF Launched, Generations
  <2>7. CASE \E returned, left \in BOOLEAN, d \in Drivers : LaunchFails(returned, left, d)
    BY <2>7 DEF LaunchFails
  <2> QED BY <1>7, <2>1, <2>2, <2>3, <2>4, <2>5, <2>6, <2>7 DEF OperationStep
<1>8. CASE UNCHANGED vars
  BY <1>8 DEF vars
<1> QED BY <1>1, <1>2, <1>3, <1>4, <1>5, <1>6, <1>7, <1>8 DEF Next

\* No step lets a second process tree reach the profile.
LEMMA TreeStep == Inv /\ [Next]_vars => TreeInv'
<1> SUFFICES ASSUME Inv, [Next]_vars PROVE TreeInv'
  OBVIOUS
<1> USE DEF Inv, TypeOK, TreeInv, None, flags, owners, tokens, operation, processes
<1>1. CASE \E p \in Generations : RootExit(p) \/ TreeExit(p)
  BY <1>1 DEF RootExit, TreeExit
<1>2. CASE \E p \in Generations : watch(p)
  BY <1>2 DEF watch, Unexpected
<1>3. CASE \E l \in Leases : Acquire(l)
  BY <1>3 DEF Acquire, HoldFails
<1>4. CASE \E l \in Leases : Release(l)
  <2>1. PICK l \in Leases : Release(l)
    BY <1>4
  <2>2. current' = current /\ generation' = generation /\ pc' = pc
        /\ roots' = roots /\ trees' = trees
        /\ (launchBlocked' = launchBlocked \/ launchBlocked')
    BY <2>1 DEF Release, Unhold, HoldFails, vars
  <2> QED BY <2>2
<1>5. CASE Replace \/ Recover
  BY <1>5 DEF Replace, Recover
<1>6. CASE RetainForProcess \/ Terminate
  BY <1>6 DEF RetainForProcess, Terminate
<1>7. CASE OperationStep
  <2>1. CASE TransitionReady
    BY <2>1 DEF TransitionReady
  <2>2. CASE TransitionNotReady \/ OwnerNotReady
    BY <2>2 DEF TransitionNotReady, OwnerNotReady, Restore, OwnerInv
  <2>3. CASE OwnerReady
    BY <2>3 DEF OwnerReady
  <2>4. CASE CloseOwner
    BY <2>4 DEF CloseOwner, OwnerInv
  <2>5. CASE CloseFails \/ LaunchCancelled
    BY <2>5 DEF CloseFails, LaunchCancelled
  <2>6. CASE Vacate
    BY <2>6 DEF Vacate
  <2>7. CASE \E d \in Drivers : Launched(d)
    BY <2>7 DEF Launched, Generations
  <2>8. CASE \E returned, left \in BOOLEAN, d \in Drivers : LaunchFails(returned, left, d)
    BY <2>8 DEF LaunchFails
  <2> QED BY <1>7, <2>1, <2>2, <2>3, <2>4, <2>5, <2>6, <2>7, <2>8 DEF OperationStep
<1>8. CASE UNCHANGED vars
  BY <1>8 DEF vars
<1> QED BY <1>1, <1>2, <1>3, <1>4, <1>5, <1>6, <1>7, <1>8 DEF Next

-----------------------------------------------------------------------------
\* A step that leaves the leases, the generation and the owner alone keeps
\* what the leases rest on.
LEMMA LeaseFrame ==
  Inv /\ UNCHANGED <<tokens, current, generation, driver, idleHold>> => LeaseInv'
  BY DEF Inv, LeaseInv, LeaseCountExact, LeasePinsOwner, LeasedWorkerHeld, Held, tokens

\* While nothing is leased there is nothing to keep.
LEMMA LeaseVacuous ==
  Inv /\ UNCHANGED tokens /\ leases = 0 => LeaseInv'
<1> SUFFICES ASSUME Inv, UNCHANGED tokens, leases = 0 PROVE LeaseInv'
  OBVIOUS
<1>1. Held = {} /\ Held' = Held /\ leases' = leases
  BY NoLeaseNoHolder DEF Inv, LeaseInv, Held, tokens
<1> QED BY <1>1, FS_EmptySet DEF LeaseInv, LeaseCountExact, LeasePinsOwner, LeasedWorkerHeld

\* Acquire and Release keep the count, the pin and the idle hold together.
LEMMA LeaseStep == Inv /\ [Next]_vars => LeaseInv'
<1> SUFFICES ASSUME Inv, [Next]_vars PROVE LeaseInv'
  OBVIOUS
<1> USE DEF flags, owners, tokens, operation, processes
<1>1. CASE \E p \in Generations : RootExit(p) \/ TreeExit(p) \/ watch(p)
  BY <1>1, LeaseFrame DEF RootExit, TreeExit, watch
<1>2. CASE \E l \in Leases : Acquire(l)
  <2>1. PICK l \in Leases : Acquire(l)
    BY <1>2
  <2>2. CASE UNCHANGED tokens
    <3>1. leases = 0
      BY <2>1, <2>2 DEF Acquire, Inv, TypeOK
    <3> QED BY <2>2, <3>1, LeaseVacuous
  <2>3. CASE ~UNCHANGED tokens
    <3>1. /\ leases' = leases + 1
          /\ leaseState' = [leaseState EXCEPT ![l] = "held"]
          /\ leaseGen' = [leaseGen EXCEPT ![l] = generation]
          /\ idleHold' = IF leases = 0 /\ driver[current] = "headless"
                           THEN idleHold \cup {current} ELSE idleHold
          /\ UNCHANGED <<current, generation, driver>>
          /\ leaseState[l] # "held" /\ current = generation
      BY <2>1, <2>3 DEF Acquire, Inv, OwnerInv
    <3>2. Held' = Held \cup {l} /\ l \notin Held
      BY <3>1 DEF Held, Inv, TypeOK
    <3>3. LeaseCountExact'
      BY <3>1, <3>2, HeldFinite, FS_AddElement DEF LeaseCountExact, Inv, LeaseInv
    <3>4. LeasePinsOwner'
      BY <3>1, <3>2 DEF LeasePinsOwner, Inv, LeaseInv, TypeOK, Held
    <3>5. leases = 0 <=> Held = {}
      BY NoLeaseNoHolder DEF Inv, LeaseInv
    <3>6. LeasedWorkerHeld'
      BY <3>1, <3>5 DEF LeasedWorkerHeld, Inv, LeaseInv
    <3> QED BY <3>3, <3>4, <3>6 DEF LeaseInv
  <2> QED BY <2>2, <2>3
<1>3. CASE \E l \in Leases : Release(l)
  <2>1. PICK l \in Leases : Release(l)
    BY <1>3
  <2>2. CASE leaseState[l] = "held"
    <3>1. /\ leases' = leases - 1
          /\ leaseState' = [leaseState EXCEPT ![l] = "released"]
          /\ UNCHANGED <<current, generation, driver, leaseGen>>
      BY <2>1, <2>2 DEF Release
    <3>2. Held' = Held \ {l} /\ l \in Held
      BY <2>2, <3>1 DEF Held, Inv, TypeOK
    <3>3. LeaseCountExact'
      BY <3>1, <3>2, HeldFinite, FS_RemoveElement, FS_CardinalityType
      DEF LeaseCountExact, Inv, LeaseInv
    <3>4. LeasePinsOwner'
      BY <3>1, <3>2 DEF LeasePinsOwner, Inv, LeaseInv
    <3>5. leases' = 0 <=> Held' = {}
      <4>1. IsFiniteSet(Held')
        BY <3>2, HeldFinite, FS_RemoveElement
      <4> QED BY <3>3, <4>1, FS_EmptySet DEF LeaseCountExact
    <3>6. CASE idleHold' = idleHold
      BY <3>1, <3>2, <3>3, <3>4, <3>6 DEF LeasedWorkerHeld, Inv, LeaseInv
    <3>7. CASE idleHold' # idleHold
      <4>1. leases = 1
        BY <2>1, <2>2, <3>7 DEF Release, Unhold
      <4>2. Held' = {}
        BY <3>1, <3>5, <4>1
      <4> QED BY <3>3, <3>4, <4>2 DEF LeaseInv, LeasedWorkerHeld
    <3> QED BY <3>6, <3>7
  <2>3. CASE leaseState[l] # "held"
    BY <2>1, <2>3, LeaseFrame DEF Release, vars
  <2> QED BY <2>2, <2>3
<1>4. CASE Replace \/ Recover \/ RetainForProcess \/ Terminate
  BY <1>4, LeaseFrame DEF Replace, Recover, RetainForProcess, Terminate
<1>5. CASE OperationStep
  <2>1. pc # "idle" /\ UNCHANGED tokens
    BY <1>5 DEF OperationStep, TransitionReady, TransitionNotReady, OwnerReady, OwnerNotReady,
         Restore, CloseOwner, CloseFails, Vacate, LaunchCancelled, Launched, LaunchFails
  <2> QED BY <2>1, LeaseVacuous DEF Inv, TransitionInv
<1>6. CASE UNCHANGED vars
  BY <1>6, LeaseFrame DEF vars
<1> QED BY <1>1, <1>2, <1>3, <1>4, <1>5, <1>6 DEF Next

\* Inv is inductive.
LEMMA InvStep == Inv /\ [Next]_vars => Inv'
  BY TypeStep, OwnerStep, TreeStep, LeaseStep DEF Inv

\* The inductive invariant holds in every reachable state.
LEMMA Invariance == Spec => []Inv
  BY InitInv, InvStep, PTL DEF Spec

-----------------------------------------------------------------------------
\* Manager's fields keep their types (New, Replace, Recover, Acquire, Release,
\* watch, Terminate); the lease counter never becomes negative.
THEOREM TypeCorrect == Spec => []TypeOK
<1>1. Inv => TypeOK
  BY DEF Inv
<1> QED BY <1>1, Invariance, PTL

\* A held lease pins the owner and the generation it was taken on.
THEOREM LeasesPinTheOwner == Spec => []LeasePinsOwner
<1>1. Inv => LeasePinsOwner
  BY DEF Inv, LeaseInv
<1> QED BY <1>1, Invariance, PTL

\* A leased headless worker has acknowledged its idle hold.
THEOREM LeasedWorkersAreHeld == Spec => []LeasedWorkerHeld
<1>1. Inv => LeasedWorkerHeld
  BY DEF Inv, LeaseInv
<1> QED BY <1>1, Invariance, PTL

\* Manager.leases counts the held leases.
THEOREM LeaseCountIsExact == Spec => []LeaseCountExact
<1>1. Inv => LeaseCountExact
  BY DEF Inv, LeaseInv
<1> QED BY <1>1, Invariance, PTL

\* Two process trees never share the profile.
THEOREM ProfileHasOneTree == Spec => []SingleTree
<1>1. Inv => SingleTree
  BY DEF Inv, TreeInv, SingleTree
<1> QED BY <1>1, Invariance, PTL

-----------------------------------------------------------------------------
\* Once stopped the runtime launches and admits nothing: the exit of the first
\* browser during a Replace is seen before its close, and Terminate waits for
\* the operation mutex.
THEOREM StoppedForGood == Spec => StoppedIsFinal
<1> DEFINE Final == stopped => stopped' /\ state' # "ready" /\ Held' \subseteq Held
                                /\ trees' \subseteq trees
<1>1. Inv /\ [Next]_vars => [Final]_vars
  <2> SUFFICES ASSUME Inv, Next, stopped
               PROVE  stopped' /\ state' # "ready" /\ Held' \subseteq Held /\ trees' \subseteq trees
    BY DEF vars
  <2>1. state # "ready" /\ pc \notin {"close", "vacate", "launch"}
        /\ (pc = "check" => current # None)
    BY DEF Inv, OwnerInv, TransitionInv
  <2> USE <2>1 DEF flags, owners, tokens, operation, processes
  <2>2. CASE \E p \in Generations : RootExit(p) \/ TreeExit(p) \/ watch(p)
    BY <2>2 DEF RootExit, TreeExit, watch, Unexpected, Held
  <2>3. CASE \E l \in Leases : Acquire(l)
    BY <2>3 DEF Acquire
  <2>4. CASE \E l \in Leases : Release(l)
    <3>1. PICK l \in Leases : Release(l)
      BY <2>4
    <3>2. CASE leaseState[l] = "held"
      BY <3>1, <3>2 DEF Release, Unhold, Held, Inv, TypeOK
    <3>3. CASE leaseState[l] # "held"
      BY <3>1, <3>3 DEF Release, vars, Held
    <3> QED BY <3>2, <3>3
  <2>5. CASE Replace \/ Recover \/ RetainForProcess
    BY <2>5 DEF Replace, Recover, RetainForProcess
  <2>6. CASE Terminate
    BY <2>6 DEF Terminate, Held
  <2>7. CASE OperationStep
    BY <2>7 DEF OperationStep, TransitionReady, TransitionNotReady, OwnerReady, OwnerNotReady,
         Restore, CloseOwner, CloseFails, Vacate, LaunchCancelled, Launched, LaunchFails, Held
  <2> QED BY <2>2, <2>3, <2>4, <2>5, <2>6, <2>7 DEF Next
<1>2. Spec => [][Final]_vars
  BY <1>1, Invariance, PTL DEF Spec
<1> QED BY <1>2 DEF StoppedIsFinal

\* The retained main browser stays the owner.
THEOREM RetainedOwnerStays == Spec => PersistentOwnerKept
<1> DEFINE Kept == persistent => current' = current /\ generation' = generation
<1>1. Inv /\ [Next]_vars => [Kept]_vars
  <2> SUFFICES ASSUME Inv, Next, persistent
               PROVE  current' = current /\ generation' = generation
    BY DEF vars
  <2>1. pc = "idle"
    BY DEF Inv, TransitionInv
  <2>2. ~OperationStep
    BY <2>1 DEF OperationStep, TransitionReady, TransitionNotReady, OwnerReady, OwnerNotReady,
         CloseOwner, CloseFails, Vacate, LaunchCancelled, Launched, LaunchFails
  <2> QED BY <2>2 DEF Next, RootExit, TreeExit, watch, Acquire, Release, Replace, Recover,
               RetainForProcess, Terminate, vars, flags, owners, tokens, operation, processes
<1>2. Spec => [][Kept]_vars
  BY <1>1, Invariance, PTL DEF Spec
<1> QED BY <1>2 DEF PersistentOwnerKept

-----------------------------------------------------------------------------
\* The process that holds the profile, as the refinement mapping sees it.
Holder == IF trees = {} THEN 0 ELSE CHOOSE p \in trees : TRUE

\* By TreeInv it is the current generation's process, if there is one.
LEMMA HolderIs == TreeInv => Holder = IF trees = {} THEN 0 ELSE generation
<1> SUFFICES ASSUME TreeInv, trees # {} PROVE (CHOOSE p \in trees : TRUE) = generation
  BY DEF Holder
<1>1. trees = {generation}
  BY DEF TreeInv
<1> QED BY <1>1

\* Every step of the manager is a step of the exclusive profile, or stutters.
LEMMA ProfileStep == Inv /\ Inv' /\ [Next]_vars => [Profile!PNext]_(Profile!pvars)
<1> SUFFICES ASSUME Inv, Inv', [Next]_vars
             PROVE  Profile!PNext \/ UNCHANGED <<generation, pc # "launch", Holder, Held>>
  BY DEF Profile!pvars, Holder
<1> USE DEF flags, owners, tokens, operation, processes
<1>1. /\ Holder = IF trees = {} THEN 0 ELSE generation
      /\ Holder' = IF trees' = {} THEN 0 ELSE generation'
      /\ generation # 0
  <2>1. (TreeInv => Holder = IF trees = {} THEN 0 ELSE generation)'
    BY HolderIs, PTL
  <2>2. generation # 0
    BY DEF Inv, TypeOK, Generations
  <2> QED BY <2>1, <2>2, HolderIs DEF Inv
<1>2. CASE trees' = trees /\ generation' = generation /\ (pc' = "launch" <=> pc = "launch")
           /\ Held' = Held
  BY <1>1, <1>2
<1>3. CASE trees' # trees /\ trees' = {} /\ generation' = generation
           /\ (pc' = "launch" <=> pc = "launch") /\ Held' = Held
  <2>1. Profile!GiveBack
    BY <1>1, <1>3 DEF Profile!GiveBack, Holder
  <2> QED BY <2>1 DEF Profile!PNext
<1>4. CASE \E p \in Generations : RootExit(p) \/ TreeExit(p) \/ watch(p)
  <2>1. generation' = generation /\ pc' = pc /\ Held' = Held
        /\ (trees' = trees \/ trees' = {})
    BY <1>4 DEF RootExit, TreeExit, watch, Held, Inv, TreeInv
  <2> QED BY <2>1, <1>2, <1>3
<1>5. CASE \E l \in Leases : Acquire(l)
  <2>1. PICK l \in Leases : Acquire(l)
    BY <1>5
  <2>2. generation' = generation /\ pc' = pc /\ trees' = trees /\ pc = "idle"
    BY <2>1 DEF Acquire, Inv, OwnerInv
  <2>3. Held' = Held \/ (l \notin Held /\ Held' = Held \cup {l})
    BY <2>1 DEF Acquire, Held, Inv, TypeOK
  <2>4. CASE l \notin Held /\ Held' = Held \cup {l}
    <3>1. Profile!Pin(l)
      BY <1>1, <2>2, <2>4 DEF Profile!Pin, Holder
    <3> QED BY <3>1 DEF Profile!PNext
  <2> QED BY <2>2, <2>3, <2>4, <1>2
<1>6. CASE \E l \in Leases : Release(l)
  <2>1. PICK l \in Leases : Release(l)
    BY <1>6
  <2>2. CASE leaseState[l] = "held"
    <3>1. generation' = generation /\ pc' = pc /\ trees' = trees
      BY <2>1, <2>2 DEF Release
    <3>2. l \in Held /\ Held' = Held \ {l}
      BY <2>1, <2>2 DEF Release, Held, Inv, TypeOK
    <3>3. Profile!Unpin(l)
      BY <1>1, <3>1, <3>2 DEF Profile!Unpin, Holder
    <3> QED BY <3>3 DEF Profile!PNext
  <2>3. CASE leaseState[l] # "held"
    BY <2>1, <2>3, <1>2 DEF Release, vars, Held
  <2> QED BY <2>2, <2>3
<1>7. CASE Replace \/ Recover \/ RetainForProcess \/ Terminate
  BY <1>7, <1>2 DEF Replace, Recover, RetainForProcess, Terminate, Held
<1>8. CASE TransitionReady \/ TransitionNotReady \/ OwnerReady \/ OwnerNotReady \/ CloseFails
  BY <1>8, <1>2 DEF TransitionReady, TransitionNotReady, OwnerReady, OwnerNotReady, Restore,
       CloseFails, Held
<1>9. CASE CloseOwner
  <2>1. generation' = generation /\ pc # "launch" /\ pc' # "launch" /\ Held' = Held
        /\ (trees' = trees \/ trees' = {})
    BY <1>9 DEF CloseOwner, Held, Inv, TreeInv, OwnerInv
  <2> QED BY <2>1, <1>2, <1>3
<1>10. CASE Vacate
  <2>1. Held = {} /\ Held' = Held /\ trees = {} /\ trees' = {}
        /\ pc = "vacate" /\ pc' = "launch" /\ generation' = generation + 1
    BY <1>10, NoLeaseNoHolder DEF Vacate, Held, Inv, LeaseInv, TransitionInv, TreeInv
  <2>2. Profile!OpenEpoch
    BY <1>1, <2>1 DEF Profile!OpenEpoch, Holder
  <2> QED BY <2>2 DEF Profile!PNext
<1>11. CASE LaunchCancelled \/ (\E d \in Drivers : Launched(d))
            \/ \E returned, left \in BOOLEAN, d \in Drivers : LaunchFails(returned, left, d)
  <2>1. generation' = generation /\ pc = "launch" /\ pc' = "idle" /\ Held' = Held
    BY <1>11 DEF LaunchCancelled, Launched, LaunchFails, Held
  <2>2. Profile!Grant
    BY <1>1, <2>1 DEF Profile!Grant, Holder
  <2> QED BY <2>2 DEF Profile!PNext
<1>12. CASE UNCHANGED vars
  BY <1>12, <1>2 DEF vars, Held
<1> QED BY <1>4, <1>5, <1>6, <1>7, <1>8, <1>9, <1>10, <1>11, <1>12 DEF Next, OperationStep

\* The manager implements exclusive epochs of the profile.
THEOREM ManagerImplementsProfile == Spec => ImplementsProfile
<1>1. Init => Profile!PInit
  <2> SUFFICES ASSUME Init PROVE Profile!PInit
    OBVIOUS
  <2>1. Holder = 1
    BY InitInv, HolderIs DEF Init, Inv
  <2>2. Held = {}
    BY DEF Init, Held
  <2> QED BY <2>1, <2>2 DEF Init, Profile!PInit, Holder
<1>2. Spec => Profile!PSpec
  BY <1>1, ProfileStep, Invariance, PTL DEF Spec, Profile!PSpec
<1> QED BY <1>2 DEF ImplementsProfile

\* What a lease protects holds of every run of the manager, whatever the number
\* of leases and generations.
THEOREM ManagerIsSound == Spec => []ManagerSound
<1>1. TypeOK /\ LeasePinsOwner /\ LeaseCountExact /\ LeasedWorkerHeld /\ SingleTree => ManagerSound
  BY DEF ManagerSound
<1> QED BY <1>1, TypeCorrect, LeasesPinTheOwner, LeaseCountIsExact, LeasedWorkersAreHeld,
          ProfileHasOneTree, PTL

\* A stopped runtime and a retained owner are final.
THEOREM OwnersAreFinal == Spec => OwnersFinal
BY StoppedForGood, RetainedOwnerStays DEF OwnersFinal

-----------------------------------------------------------------------------
(* The coordinator.                                                        *)

\* The owner is ready, or a transition may still put that state back.
MayBeReady == state = "ready" \/ (pc \in {"check", "readiness"} /\ prior = "ready")

\* A borrower with a lease holds it on a browser.
BorrowInv ==
  \A l \in Leases : phase[l] = "held" => l \in Held /\ driver[leaseGen[l]] = "browser"

\* What the factory recorded of an owner that is ready or may be again.
WorkerInv == MayBeReady /\ SnapshotDriver = "headless" => headlessGen = current
ReaderInv ==
  /\ MayBeReady => (NativeReaderOnly <=> current \in readers)
  /\ readers \subseteq 1..generation
  /\ pc = "launch" => generation \notin readers

CInv == Inv /\ CTypeOK /\ BorrowInv /\ WorkerInv /\ ReaderInv

-----------------------------------------------------------------------------
\* The steps of the manager that launch nothing.
QuietStep ==
  \/ \E p \in Generations : RootExit(p) \/ TreeExit(p) \/ watch(p)
  \/ \E l \in Leases : Acquire(l) \/ Release(l)
  \/ Replace \/ Recover
  \/ TransitionReady \/ TransitionNotReady \/ OwnerReady \/ OwnerNotReady
  \/ CloseOwner \/ CloseFails \/ Vacate \/ LaunchCancelled
  \/ RetainForProcess \/ Terminate
  \/ UNCHANGED vars

\* A lease is taken, or given back, through the manager.
LEMMA BorrowIsQuiet ==
  ASSUME NEW l \in Leases, Borrow(l)
  PROVE QuietStep /\ UNCHANGED backends
<1>1. CASE AcquireBrowser(l)
  BY <1>1 DEF AcquireBrowser, QuietStep
<1>2. CASE ReturnMismatch(l) \/ ReturnLease(l) \/ SessionRelease(l)
  BY <1>2 DEF ReturnMismatch, ReturnLease, SessionRelease, QuietStep
<1>3. CASE SessionAcquire(l)
  BY <1>3 DEF SessionAcquire, QuietStep
<1>4. CASE OpenNative(l) \/ (\E r \in Roles : BeginBorrow(l, r)) \/ Poll(l) \/ CheckReader(l)
           \/ Missed(l) \/ ReleaseIntent(l) \/ ReaderDone(l)
  BY <1>4 DEF OpenNative, BeginBorrow, Poll, CheckReader, Missed, ReleaseIntent, ReaderDone,
              QuietStep
<1> QED BY <1>1, <1>2, <1>3, <1>4 DEF Borrow

\* The coordinator drives the manager through its operations, and launches
\* only in a handoff.
LEMMA CoordinatorStep ==
  [CNext]_cvars => (QuietStep /\ UNCHANGED backends) \/ HandoffDone \/ HandoffFails
<1> SUFFICES ASSUME [CNext]_cvars, ~HandoffDone, ~HandoffFails
             PROVE QuietStep /\ UNCHANGED backends
  OBVIOUS
<1>1. CASE (\E mode \in Modes : Request(mode)) \/ Retry
  BY <1>1 DEF Request, Retry, QuietStep
<1>2. CASE CallReplace \/ CallRecover \/ Handoff
  BY <1>2 DEF CallReplace, CallRecover, Handoff, QuietStep
<1>3. CASE Reconcile \/ Decide \/ Validated \/ AssetsMissing \/ PermissionsUnconfirmed
           \/ CallRefused \/ Finish
  BY <1>3 DEF Reconcile, Decide, Validated, AssetsMissing, PermissionsUnconfirmed,
              CallRefused, Finish, QuietStep
<1>4. CASE \E l \in Leases : Borrow(l)
  BY <1>4, BorrowIsQuiet
<1>5. CASE Environment \/ Retain \/ UNCHANGED cvars
  BY <1>5 DEF Environment, Retain, QuietStep, cvars
<1> QED BY <1>1, <1>2, <1>3, <1>4, <1>5 DEF CNext, ReconcileStep

\* Every step of the composition is a step of the manager or none.
LEMMA ManagerStep == CTypeOK /\ [CNext]_cvars => [Next]_vars
<1> SUFFICES ASSUME CTypeOK, [CNext]_cvars PROVE [Next]_vars
  OBVIOUS
<1>1. CASE QuietStep
  BY <1>1 DEF QuietStep, Next, OperationStep
<1>2. CASE HandoffDone
  <2>1. Launched(rlocal.mode) /\ rlocal.mode \in Drivers
    BY <1>2 DEF HandoffDone, CTypeOK
  <2>2. OperationStep
    BY <2>1 DEF OperationStep
  <2> QED BY <2>2 DEF Next
<1>3. CASE HandoffFails
  <2>1. PICK returned, left \in BOOLEAN : LaunchFails(returned, left, rlocal.mode)
    BY <1>3 DEF HandoffFails
  <2>2. rlocal.mode \in Drivers
    BY DEF CTypeOK
  <2>3. OperationStep
    BY <2>1, <2>2 DEF OperationStep
  <2> QED BY <2>3 DEF Next
<1> QED BY <1>1, <1>2, <1>3, CoordinatorStep

-----------------------------------------------------------------------------
\* The coordinator's own state keeps its types along the loop.
LEMMA LoopTypes == Inv /\ CTypeOK /\ ReconcileStep => CTypeOK'
<1> SUFFICES ASSUME Inv, CTypeOK, ReconcileStep PROVE CTypeOK'
  OBVIOUS
<1> USE DEF CTypeOK, intents, borrows, loop, backends
<1>1. NoLocals \in [mode : Drivers, retry : BOOLEAN, nativeOnly : BOOLEAN,
                    launchReader : BOOLEAN, state : States, retiring : BOOLEAN]
  BY DEF NoLocals, Drivers, States
<1>2. requested \in Drivers /\ state \in States /\ generation \in Generations
  BY ModesAssumption DEF Inv, TypeOK
<1>fields. rlocal.mode \in Drivers /\ rlocal.launchReader \in BOOLEAN
  OBVIOUS
<1>3. CASE Reconcile
  <2>1. rlocal' \in [mode : Drivers, retry : BOOLEAN, nativeOnly : BOOLEAN,
                     launchReader : BOOLEAN, state : States, retiring : BOOLEAN]
    BY <1>2, <1>3 DEF Reconcile, Drivers, States, NativeReaderOnly, OnlyReadersWait
  <2> QED BY <1>3, <2>1 DEF Reconcile
<1>4. CASE Decide
  <2>1. PICK retiring \in RetiringReports :
          /\ rpc' \in {"idle", "validate", "operate"}
          /\ \/ rlocal' = NoLocals
             \/ rlocal' = [mode |-> rlocal.mode, retry |-> FALSE, nativeOnly |-> FALSE,
                            launchReader |-> rlocal.launchReader,
                            state |-> state, retiring |-> retiring]
    BY <1>4 DEF Decide
  <2>2. retiring \in BOOLEAN
    BY DEF RetiringReports
  <2>3. CASE rlocal' = NoLocals
    BY <1>1, <1>4, <2>1, <2>3 DEF Decide
  <2>4. CASE rlocal' = [mode |-> rlocal.mode, retry |-> FALSE, nativeOnly |-> FALSE,
                        launchReader |-> rlocal.launchReader,
                        state |-> state, retiring |-> retiring]
    <3>1. rlocal' \in [mode : Drivers, retry : BOOLEAN, nativeOnly : BOOLEAN,
                       launchReader : BOOLEAN, state : States, retiring : BOOLEAN]
      BY <1>2, <1>fields, <2>2, <2>4, Zenon
    <3> QED BY <1>4, <2>1, <3>1 DEF Decide
  <2> QED BY <2>1, <2>3, <2>4
<1>5. CASE Validated \/ AssetsMissing \/ PermissionsUnconfirmed \/ CallRefused \/ Finish
  BY <1>1, <1>5 DEF Validated, AssetsMissing, PermissionsUnconfirmed, CallRefused, Finish
<1>6. CASE CallReplace \/ CallRecover
  <2>1. rlocal' = [mode |-> rlocal.mode, retry |-> FALSE, nativeOnly |-> FALSE,
                   launchReader |-> rlocal.launchReader, state |-> "ready", retiring |-> FALSE]
    BY <1>6 DEF CallReplace, CallRecover, Launching
  <2>2. FALSE \in BOOLEAN /\ "ready" \in States
    BY DEF States
  <2>3. rlocal' \in [mode : Drivers, retry : BOOLEAN, nativeOnly : BOOLEAN,
                     launchReader : BOOLEAN, state : States, retiring : BOOLEAN]
    BY <1>fields, <2>1, <2>2, Zenon
  <2> QED BY <1>6, <2>3 DEF CallReplace, CallRecover
<1>7. CASE Handoff
  BY <1>7 DEF Handoff
<1>8. CASE HandoffDone \/ HandoffFails
  <2>1. UNCHANGED backends \/ Factory
    BY <1>8 DEF HandoffDone, HandoffFails
  <2>2. nativeGen' \in {None} \cup Generations /\ headlessGen' \in {None} \cup Generations
        /\ readers' \subseteq Generations
    BY <1>2, <2>1 DEF Factory
  <2> QED BY <1>8, <2>2 DEF HandoffDone, HandoffFails
<1> QED BY <1>3, <1>4, <1>5, <1>6, <1>7, <1>8 DEF ReconcileStep

\* A borrow moves from phase to phase and keeps its role.
LEMMA BorrowTypes == ASSUME NEW l \in Leases, CTypeOK, Borrow(l) PROVE CTypeOK'
<1> USE DEF CTypeOK, intents, borrows, loop, backends
<1>1. UNCHANGED <<requested, loop, backends>> /\ failure' \in BOOLEAN /\ retry' \in BOOLEAN
  BY DEF Borrow, OpenNative, BeginBorrow, Poll, CheckReader, Missed, AcquireBrowser,
         ReturnMismatch, ReturnLease, ReleaseIntent, ReaderDone, SessionAcquire, SessionRelease
<1>2. PICK p \in Interested \cup {"none", "opening", "closing", "session"}, r \in Roles :
        phase' = [phase EXCEPT ![l] = p] /\ role' = [role EXCEPT ![l] = r]
  <2>1. CASE OpenNative(l) \/ \E r \in Roles : BeginBorrow(l, r)
    BY <2>1 DEF OpenNative, BeginBorrow, Enter, Interested
  <2>2. CASE \E p \in Interested \cup {"none", "opening", "closing", "session"} : At(l, p)
    BY <2>2, RolesAssumption DEF At
  <2> QED BY <2>1, <2>2 DEF Borrow, Poll, CheckReader, Missed, AcquireBrowser, Withdrawn,
         ReturnMismatch, ReturnLease, ReleaseIntent, ReaderDone, SessionAcquire,
         SessionRelease, Interested
<1> QED BY <1>1, <1>2

\* Requests, the loop, borrows and the owner's own steps keep the types.
LEMMA CoordinatorTypes == Inv /\ CTypeOK /\ [CNext]_cvars => CTypeOK'
<1> SUFFICES ASSUME Inv, CTypeOK, [CNext]_cvars PROVE CTypeOK'
  OBVIOUS
<1>1. CASE (\E mode \in Modes : Request(mode)) \/ Retry
  BY <1>1 DEF Request, Retry, CTypeOK, borrows, loop, backends
<1>2. CASE ReconcileStep
  BY <1>2, LoopTypes
<1>3. CASE \E l \in Leases : Borrow(l)
  BY <1>3, BorrowTypes
<1>4. CASE Environment \/ Retain \/ UNCHANGED cvars
  BY <1>4 DEF Environment, Retain, CTypeOK, intents, borrows, loop, backends, cvars
<1> QED BY <1>1, <1>2, <1>3, <1>4 DEF CNext

-----------------------------------------------------------------------------
\* A transition runs without a lease, so a borrower's process is never one that
\* is being launched, and its driver does not change.
LEMMA DriverStep ==
  ASSUME Inv, [Next]_vars, NEW l \in Held
  PROVE driver'[leaseGen[l]] = driver[leaseGen[l]]
<1>1. leases # 0
  BY NoLeaseNoHolder DEF Inv, LeaseInv
<1>2. pc = "idle"
  BY <1>1 DEF Inv, TransitionInv
<1>3. UNCHANGED driver
  BY <1>2 DEF Next, RootExit, TreeExit, watch, Acquire, Release, Unhold, HoldFails, Replace,
     Recover, OperationStep, TransitionReady, TransitionNotReady, OwnerReady, OwnerNotReady,
     Restore, CloseOwner, CloseFails, Vacate, LaunchCancelled, Launched, LaunchFails,
     RetainForProcess, Terminate, vars, owners
<1> QED BY <1>3

\* Only the holder gives a lease back.
LEMMA OthersKeepLeases ==
  ASSUME Inv, CTypeOK, [CNext]_cvars, NEW l \in Leases, phase[l] = "held", phase'[l] = "held",
         l \in Held
  PROVE l \in Held' /\ leaseGen'[l] = leaseGen[l]
<1> USE DEF Inv, TypeOK, CTypeOK, Held, tokens
<1>1. CASE UNCHANGED tokens
  BY <1>1
<1>2. CASE \E m \in Leases : Borrow(m)
  <2>1. PICK m \in Leases : Borrow(m)
    BY <1>2
  <2>2. CASE m = l
    BY <2>1, <2>2 DEF Borrow, OpenNative, BeginBorrow, Poll, CheckReader, Missed,
       AcquireBrowser, ReturnMismatch, ReturnLease, ReleaseIntent, ReaderDone, SessionAcquire,
       SessionRelease, At, Enter
  <2>3. CASE m # l
    <3>1. CASE Acquire(m)
      BY <2>3, <3>1 DEF Acquire
    <3>2. CASE Release(m)
      BY <2>3, <3>2 DEF Release, vars
    <3>3. CASE UNCHANGED vars
      BY <3>3 DEF vars
    <3> QED BY <2>1, <3>1, <3>2, <3>3 DEF Borrow, OpenNative, BeginBorrow, Poll, CheckReader,
          Missed, AcquireBrowser, ReturnMismatch, ReturnLease, ReleaseIntent, ReaderDone,
          SessionAcquire, SessionRelease
  <2> QED BY <2>2, <2>3
<1>3. CASE ~\E m \in Leases : Borrow(m)
  <2>1. UNCHANGED tokens
    BY <1>3 DEF CNext, cvars, vars, Request, Retry, ReconcileStep, Reconcile, Decide, Validated,
       AssetsMissing, PermissionsUnconfirmed, CallReplace, CallRecover, CallRefused, Handoff,
       HandoffDone, HandoffFails, Finish, Environment, Retain, RootExit, TreeExit, watch,
       Replace, Recover, TransitionReady, TransitionNotReady, OwnerReady, OwnerNotReady,
       Restore, CloseOwner, CloseFails, Vacate, LaunchCancelled, Launched, LaunchFails,
       RetainForProcess, Terminate
  <2> QED BY <1>1, <2>1
<1> QED BY <1>2, <1>3

\* A lease is handed out only after its driver was looked at.
LEMMA NewHolder ==
  ASSUME Inv, CTypeOK, [CNext]_cvars, NEW l \in Leases, phase[l] # "held", phase'[l] = "held"
  PROVE l \in Held' /\ driver'[leaseGen'[l]] = "browser"
<1> USE DEF CTypeOK
<1>1. AcquireBrowser(l)
  <2>1. ~UNCHANGED phase
    OBVIOUS
  <2>2. PICK m \in Leases : Borrow(m)
    BY <2>1 DEF CNext, cvars, borrows, Request, Retry, ReconcileStep, Reconcile, Decide,
       Validated, AssetsMissing, PermissionsUnconfirmed, CallReplace, CallRecover, CallRefused,
       Handoff, HandoffDone, HandoffFails, Finish, Environment, Retain
  <2>3. m = l
    BY <2>2 DEF Borrow, OpenNative, BeginBorrow, Poll, CheckReader, Missed, AcquireBrowser,
       ReturnMismatch, ReturnLease, ReleaseIntent, ReaderDone, SessionAcquire, SessionRelease,
       At, Enter
  <2> QED BY <2>2, <2>3 DEF Borrow, OpenNative, BeginBorrow, Poll, CheckReader, Missed,
       ReturnMismatch, ReturnLease, ReleaseIntent, ReaderDone, SessionAcquire, SessionRelease,
       At, Enter, Withdrawn
<1>2. Acquire(l) /\ leaseState'[l] = "held" /\ driver[current] = "browser"
  BY <1>1 DEF AcquireBrowser, At, Withdrawn
<1>3. UNCHANGED driver /\ generation = current
  BY <1>2 DEF Acquire, Inv, OwnerInv
<1>4. leaseGen'[l] = generation
  <2>1. UNCHANGED tokens \/ leaseGen'[l] = generation
    BY <1>2 DEF Acquire, Inv, TypeOK
  <2>2. leaseState[l] # "held"
    BY <1>2 DEF Acquire
  <2>3. ~UNCHANGED tokens
    BY <1>2, <2>2 DEF tokens
  <2> QED BY <2>1, <2>3
<1> QED BY <1>2, <1>3, <1>4 DEF Held

\* Old holders keep their browser and new ones get one.
LEMMA BorrowStep == Inv /\ CTypeOK /\ BorrowInv /\ [CNext]_cvars => BorrowInv'
<1> SUFFICES ASSUME Inv, CTypeOK, BorrowInv, [CNext]_cvars, NEW l \in Leases, phase'[l] = "held"
             PROVE l \in Held' /\ driver'[leaseGen'[l]] = "browser"
  BY DEF BorrowInv
<1>1. CASE phase[l] = "held"
  <2>1. l \in Held /\ driver[leaseGen[l]] = "browser"
    BY <1>1 DEF BorrowInv
  <2>2. l \in Held' /\ leaseGen'[l] = leaseGen[l]
    BY <1>1, <2>1, OthersKeepLeases
  <2>3. driver'[leaseGen[l]] = driver[leaseGen[l]]
    BY <2>1, ManagerStep, DriverStep
  <2> QED BY <2>1, <2>2, <2>3
<1>2. CASE phase[l] # "held"
  BY <1>2, NewHolder
<1> QED BY <1>1, <1>2

-----------------------------------------------------------------------------
\* Outside a launch the manager does not make another owner ready: its current
\* process, generation and driver stay, and ready is only put back, never new.
OwnerKept ==
  /\ MayBeReady' => MayBeReady
  /\ MayBeReady' => current' = current /\ generation' = generation
  /\ driver' = driver
  /\ generation' >= generation
  /\ pc' = "launch" => (pc = "launch" /\ generation' = generation) \/ generation' = generation + 1

\* Ready is put back only by a refused transition.
LEMMA KeepsOwner ==
  ASSUME Inv, QuietStep
  PROVE OwnerKept
<1> USE DEF Inv, TypeOK, OwnerInv, TransitionInv, MayBeReady, OwnerKept, Generations,
        flags, owners, tokens, operation, processes
<1>1. CASE \E p \in Generations : RootExit(p) \/ TreeExit(p) \/ watch(p)
  BY <1>1 DEF RootExit, TreeExit, watch
<1>2. CASE \E l \in Leases : Acquire(l) \/ Release(l)
  BY <1>2 DEF Acquire, Release, HoldFails, Unhold, vars
<1>3. CASE Replace \/ Recover
  BY <1>3 DEF Replace, Recover
<1>4. CASE TransitionReady \/ TransitionNotReady \/ OwnerReady \/ OwnerNotReady
  BY <1>4 DEF TransitionReady, TransitionNotReady, OwnerReady, OwnerNotReady, Restore
<1>5. CASE CloseOwner \/ CloseFails \/ Vacate \/ LaunchCancelled
  BY <1>5 DEF CloseOwner, CloseFails, Vacate, LaunchCancelled
<1>6. CASE RetainForProcess \/ Terminate \/ UNCHANGED vars
  BY <1>6 DEF RetainForProcess, Terminate, vars
<1> QED BY <1>1, <1>2, <1>3, <1>4, <1>5, <1>6 DEF QuietStep

\* A factory's records describe the process it launched.
LEMMA LaunchRecords ==
  ASSUME CInv, HandoffDone PROVE (WorkerInv /\ ReaderInv)'
<1>types. generation \in Nat \ {0} /\ generation \in Generations
          /\ driver \in [Generations -> Drivers]
  BY DEF CInv, Inv, TypeOK, Generations
<1>1. /\ pc = "launch" /\ pc' = "idle" /\ state' = "ready" /\ current' = generation
      /\ generation' = generation /\ driver' = [driver EXCEPT ![generation] = rlocal.mode]
      /\ Factory
  BY DEF HandoffDone, Launched
<1>2. SnapshotDriver' = rlocal.mode
  <2>1. driver'[generation] = rlocal.mode
    BY <1>types, <1>1
  <2> QED BY <1>types, <1>1, <2>1 DEF SnapshotDriver, None
<1>3. WorkerInv'
  BY <1>1, <1>2 DEF WorkerInv, Factory
<1>4. generation \notin readers /\ readers \subseteq 1..generation
  BY <1>1 DEF CInv, ReaderInv
<1>5. ReaderInv'
  BY <1>types, <1>1, <1>4 DEF ReaderInv, Factory, NativeReaderOnly, MayBeReady, None
<1> QED BY <1>3, <1>5

\* After a failed launch nothing is ready until another launch succeeds.
LEMMA FailureRecords ==
  ASSUME CInv, HandoffFails PROVE (WorkerInv /\ ReaderInv)'
<1>types. generation \in Nat \ {0} /\ readers \subseteq 1..generation
  BY DEF CInv, Inv, TypeOK, ReaderInv, Generations
<1>1. pc' = "idle" /\ state' = "blocked" /\ generation' = generation
  BY DEF HandoffFails, LaunchFails
<1>2. readers' = readers \/ readers' = readers \cup {generation}
  <2>1. UNCHANGED backends \/ Factory
    BY DEF HandoffFails
  <2> QED BY <2>1 DEF Factory, backends
<1>3. readers' \subseteq 1..generation'
  <2>1. generation \in 1..generation /\ 1..generation' = 1..generation
    BY <1>types, <1>1
  <2> QED BY <1>types, <1>2, <2>1, Zenon
<1> QED BY <1>1, <1>3 DEF WorkerInv, ReaderInv, MayBeReady

\* The records follow the owner through launches, failures and refusals.
LEMMA RecordsStep == CInv /\ [CNext]_cvars => (WorkerInv /\ ReaderInv)'
<1> SUFFICES ASSUME CInv, [CNext]_cvars PROVE (WorkerInv /\ ReaderInv)'
  OBVIOUS
<1>1. CASE HandoffDone \/ HandoffFails
  BY <1>1, LaunchRecords, FailureRecords
<1>2. CASE QuietStep /\ UNCHANGED backends
  <2>1. OwnerKept
    BY <1>2, KeepsOwner DEF CInv
  <2>2. MayBeReady' => MayBeReady /\ SnapshotDriver' = SnapshotDriver
                       /\ current' = current /\ generation' = generation
    BY <2>1 DEF OwnerKept, SnapshotDriver
  <2>3. WorkerInv'
    BY <1>2, <2>2 DEF CInv, WorkerInv, backends
  <2>4. generation \in Nat /\ generation' \in Nat
    BY <2>1, ManagerStep, TypeStep, GenerationAssumption
       DEF CInv, Inv, TypeOK, Generations
  <2>5. readers' \subseteq 1..generation'
    BY <1>2, <2>1, <2>4 DEF CInv, ReaderInv, OwnerKept, backends
  <2>6. pc' = "launch" => generation' \notin readers'
    BY <1>2, <2>1, <2>4 DEF CInv, ReaderInv, OwnerKept, backends
  <2> QED BY <1>2, <2>2, <2>3, <2>5, <2>6 DEF CInv, ReaderInv, NativeReaderOnly, backends
<1> QED BY <1>1, <1>2, CoordinatorStep

-----------------------------------------------------------------------------
\* The adopted first browser satisfies the composed invariant.
LEMMA CInitInv == CInit => CInv
<1> SUFFICES ASSUME CInit PROVE CInv
  OBVIOUS
<1>1. Inv
  BY InitInv DEF CInit
<1>2. CTypeOK
  BY ModesAssumption, RolesAssumption DEF CInit, CTypeOK, NoLocals, Drivers, States, Interested
<1>3. BorrowInv
  BY DEF CInit, BorrowInv
<1>4. WorkerInv /\ ReaderInv
  BY DEF CInit, Init, WorkerInv, ReaderInv, SnapshotDriver, NativeReaderOnly, None
<1> QED BY <1>1, <1>2, <1>3, <1>4 DEF CInv

\* Every step of the composition preserves it.
LEMMA CInvStep == CInv /\ [CNext]_cvars => CInv'
  BY ManagerStep, InvStep, CoordinatorTypes, BorrowStep, RecordsStep DEF CInv

\* The composed invariant holds in every reachable state.
LEMMA CInvariance == CSpec => []CInv
  BY CInitInv, CInvStep, PTL DEF CSpec

\* The coordinator's fields, borrows and locals keep their types.
THEOREM CoordinatorTypeCorrect == CSpec => []CTypeOK
<1>1. CInv => CTypeOK
  BY DEF CInv
<1> QED BY <1>1, CInvariance, PTL

\* borrowBrowserMode hands out leases on a browser only, and it stays the owner.
THEOREM BorrowersHaveABrowser == CSpec => []BorrowedBrowser
<1>1. CInv => BorrowedBrowser
  BY DEF CInv, BorrowInv, BorrowedBrowser, Inv, LeaseInv, LeasePinsOwner
<1> QED BY <1>1, CInvariance, PTL

\* The headless worker that Capture uses is the ready owner.
THEOREM WorkerIsCurrent == CSpec => []CaptureWorkerCurrent
<1>1. CInv => CaptureWorkerCurrent
  BY DEF CInv, WorkerInv, MayBeReady, CaptureWorkerCurrent
<1> QED BY <1>1, CInvariance, PTL

\* The reader-only report is about the process that is running.
THEOREM ReaderReportIsAccurate == CSpec => []ReaderOnlyAccurate
<1>1. CInv => ReaderOnlyAccurate
  BY DEF CInv, ReaderInv, MayBeReady, ReaderOnlyAccurate
<1> QED BY <1>1, CInvariance, PTL

\* What the coordinator recorded and handed out describes the owner that is there.
THEOREM CoordinatorIsSound == CSpec => []CoordinatorSound
<1>1. CTypeOK /\ CaptureWorkerCurrent /\ ReaderOnlyAccurate /\ BorrowedBrowser => CoordinatorSound
  BY DEF CoordinatorSound
<1> QED BY <1>1, CoordinatorTypeCorrect, WorkerIsCurrent, ReaderReportIsAccurate,
          BorrowersHaveABrowser, PTL

-----------------------------------------------------------------------------
(* The automatic update scheduler.                                         *)

\* The rows of the tables and of the callers.
Statuses == {"active", "completed", "partial", "failed", "cancelled", "deleted"}
Batches == {"none", "preparing", "prepared", "visible", "expired"}
SessionRow ==
  [status : Statuses, trigger : {"scheduler", "user", "onboarding"}, delivery : {"prepared", "visible"},
   created : Nat, done : Nat, items : {0, 1}, assessed : BOOLEAN, batch : Batches,
   expires : Nat, revealed : Nat]
CalibrationRow ==
  [session : Nat, status : {"reviewing", "completed"}, after : Nat, resolved : SUBSET Ordinals]
ReceiptRow == [tick : Nat, outcome : {"checking", "started", "skipped"}]
StarterRow == [pc : {"idle", "stoppers", "start", "started", "skipped"}, receipt : Nat]
FinRow == [pc : {"idle", "publish", "batch", "calibrate"}, s : Nat,
           outcome : {"completed", "partial", "failed"}, limited : BOOLEAN]

\* The types the steps need; a caller on its way is one of the instance.
UpdateTypes ==
  /\ now \in 0..inst.time /\ inst \in Instances /\ pause \in BOOLEAN
  /\ onboarding \in {"not_started", "completed"}
  /\ firstRun \in {"not_started", "pending", "disabled", "completed"}
  /\ sessions \in Seq(SessionRow) /\ calibrations \in Seq(CalibrationRow)
  /\ receipts \in Seq(ReceiptRow) /\ access \in Nat /\ lastTick \in Nat
  /\ baseline \in [total : Nat, automatic : Nat]
  /\ starter \in [Callers -> StarterRow] /\ fin \in FinRow
  /\ \A p \in Callers : starter[p].pc # "idle" => p \in inst.callers

\* What a session keeps, and which of them is under way.
SessionInv ==
  /\ \A s \in DOMAIN sessions :
       /\ (sessions[s].delivery = "prepared") <=> (sessions[s].batch # "none")
       /\ sessions[s].trigger = "scheduler" => sessions[s].delivery = "prepared"
       /\ sessions[s].created <= now
  /\ \A s, t \in ActiveSessions : s = t

\* Before onboarding there is nothing: what FullReset leaves.
FreshInv == onboarding = "not_started" => Rows = {} /\ calibrations = << >>

\* The last receipt is of the last tick.
TickInv == receipts # << >> => lastTick = receipts[Len(receipts)].tick /\ lastTick <= now

-----------------------------------------------------------------------------
\* What a batch may become.
BatchMoves == {<<"preparing", "prepared">>, <<"preparing", "expired">>,
               <<"prepared", "visible">>, <<"prepared", "expired">>}

\* The sessions change in place: nothing is created, deleted or made active.
Tended ==
  /\ sessions' \in Seq(SessionRow) /\ Len(sessions') = Len(sessions)
  /\ DOMAIN sessions' = DOMAIN sessions
  /\ \A s \in DOMAIN sessions :
       /\ sessions'[s].trigger = sessions[s].trigger /\ sessions'[s].delivery = sessions[s].delivery
       /\ sessions'[s].created = sessions[s].created
       /\ sessions'[s].status = "deleted" <=> sessions[s].status = "deleted"
       /\ sessions'[s].status = "active" => sessions[s].status = "active"
       /\ \/ sessions'[s].batch = sessions[s].batch
          \/ <<sessions[s].batch, sessions'[s].batch>> \in BatchMoves

LEMMA RowsInSeq ==
  ASSUME NEW S, NEW f, NEW n \in Nat, f \in [1..n -> S]
  PROVE  f \in Seq(S) /\ Len(f) = n /\ DOMAIN f = 1..n
  OBVIOUS

LEMMA SeqRows ==
  ASSUME NEW S, NEW f \in Seq(S)
  PROVE  Len(f) \in Nat /\ DOMAIN f = 1..Len(f) /\ \A k \in DOMAIN f : f[k] \in S
  OBVIOUS

LEMMA ExceptSeqRow ==
  ASSUME NEW S, NEW f \in Seq(S), NEW k \in DOMAIN f, NEW r \in S
  PROVE  /\ [f EXCEPT ![k] = r] \in Seq(S) /\ Len([f EXCEPT ![k] = r]) = Len(f)
         /\ DOMAIN [f EXCEPT ![k] = r] = DOMAIN f
         /\ \A j \in DOMAIN f : [f EXCEPT ![k] = r][j] = IF j = k THEN r ELSE f[j]
<1>1. [f EXCEPT ![k] = r] \in [1..Len(f) -> S]
  BY SeqRows
<1> QED BY <1>1, SeqRows, RowsInSeq

LEMMA AppendRow ==
  ASSUME NEW S, NEW f \in Seq(S), NEW r \in S
  PROVE  /\ Append(f, r) \in Seq(S) /\ Len(Append(f, r)) = Len(f) + 1
         /\ Append(f, r)[Len(f) + 1] = r
         /\ DOMAIN Append(f, r) = DOMAIN f \cup {Len(f) + 1}
         /\ \A j \in DOMAIN f : Append(f, r)[j] = f[j]
  OBVIOUS

\* Never is later than any instant.
LEMMA NeverLater == inst \in Instances => Never \in Nat /\ \A t \in 0..inst.time : t \in Nat /\ t < Never
  BY UpdateAssumption DEF Never

LEMMA ExpiryTends ==
  ASSUME UpdateTypes, ExpireBatches
  PROVE  /\ Tended
         /\ \A s \in DOMAIN sessions :
              sessions'[s] = IF s \in Expired THEN [sessions[s] EXCEPT !.batch = "expired"] ELSE sessions[s]
<1>1. \A s \in DOMAIN sessions : sessions[s] \in SessionRow
  BY SeqRows DEF UpdateTypes
<1>2. \A s \in DOMAIN sessions :
        sessions'[s] = IF s \in Expired THEN [sessions[s] EXCEPT !.batch = "expired"] ELSE sessions[s]
  BY DEF ExpireBatches
<1>3. DOMAIN sessions' = DOMAIN sessions
  BY DEF ExpireBatches
<1>4. ASSUME NEW s \in DOMAIN sessions PROVE sessions'[s] \in SessionRow
  <2>1. [sessions[s] EXCEPT !.batch = "expired"] \in SessionRow
    BY <1>1 DEF SessionRow, Batches
  <2> QED BY <2>1, <1>1, <1>2
<1>5. sessions' \in [1..Len(sessions) -> SessionRow]
  <2>1. DOMAIN sessions = 1..Len(sessions)
    BY SeqRows DEF UpdateTypes
  <2>2. sessions' = [s \in 1..Len(sessions) |-> sessions'[s]]
    BY <2>1 DEF ExpireBatches
  <2> QED BY <2>1, <2>2, <1>4
<1>6. sessions' \in Seq(SessionRow) /\ Len(sessions') = Len(sessions)
  BY <1>5, SeqRows, RowsInSeq DEF UpdateTypes
<1>7. \A s \in Expired : sessions[s].batch = "prepared"
  BY DEF Expired, Prepared
<1>8. ASSUME NEW s \in DOMAIN sessions
      PROVE  /\ sessions'[s].trigger = sessions[s].trigger /\ sessions'[s].delivery = sessions[s].delivery
             /\ sessions'[s].created = sessions[s].created /\ sessions'[s].status = sessions[s].status
             /\ sessions'[s].batch = IF s \in Expired THEN "expired" ELSE sessions[s].batch
  BY <1>1, <1>2 DEF SessionRow
<1> QED BY <1>2, <1>3, <1>6, <1>7, <1>8 DEF Tended, BatchMoves

LEMMA QuietTends ==
  ASSUME UpdateTypes, UNCHANGED sessions
  PROVE  Tended
  BY DEF Tended, UpdateTypes

\* A change of one session's row tends the sessions.
LEMMA RowTends ==
  ASSUME UpdateTypes, NEW s \in DOMAIN sessions, NEW r \in SessionRow,
         sessions' = [sessions EXCEPT ![s] = r],
         r.trigger = sessions[s].trigger, r.delivery = sessions[s].delivery,
         r.created = sessions[s].created,
         r.status = "deleted" <=> sessions[s].status = "deleted",
         r.status = "active" => sessions[s].status = "active",
         \/ r.batch = sessions[s].batch
         \/ <<sessions[s].batch, r.batch>> \in BatchMoves
  PROVE  Tended /\ \A t \in DOMAIN sessions : sessions'[t] = IF t = s THEN r ELSE sessions[t]
<1>1. /\ sessions' \in Seq(SessionRow) /\ Len(sessions') = Len(sessions)
      /\ DOMAIN sessions' = DOMAIN sessions
      /\ \A j \in DOMAIN sessions : sessions'[j] = IF j = s THEN r ELSE sessions[j]
  BY ExceptSeqRow DEF UpdateTypes
<1> QED BY <1>1 DEF Tended

\* The session that createUpdateSession appends.
NewSession(trigger, delivery) ==
  [status |-> "active", trigger |-> trigger, delivery |-> delivery,
   created |-> now, done |-> Never, items |-> 0, assessed |-> FALSE,
   batch |-> IF delivery = "prepared" THEN "preparing" ELSE "none",
   expires |-> Never, revealed |-> Never]

LEMMA CreationAppends ==
  ASSUME UpdateTypes, NEW trigger \in {"scheduler", "user", "onboarding"},
         NEW delivery \in {"prepared", "visible"}, CreateUpdateSession(trigger, delivery)
  PROVE  /\ sessions' \in Seq(SessionRow) /\ Len(sessions') = Len(sessions) + 1
         /\ Len(sessions) \in Nat /\ Len(sessions) + 1 \notin DOMAIN sessions
         /\ DOMAIN sessions = 1..Len(sessions)
         /\ DOMAIN sessions' = DOMAIN sessions \cup {Len(sessions) + 1}
         /\ sessions'[Len(sessions) + 1] = NewSession(trigger, delivery)
         /\ \A s \in DOMAIN sessions : sessions'[s] = sessions[s]
<1>1. Never \in Nat /\ now \in Nat
  BY NeverLater DEF UpdateTypes
<1>2. NewSession(trigger, delivery) \in SessionRow
  BY <1>1 DEF NewSession, SessionRow, Statuses, Batches
<1>3. sessions' = Append(sessions, NewSession(trigger, delivery))
  BY DEF CreateUpdateSession, NewSession
<1>4. Len(sessions) \in Nat /\ DOMAIN sessions = 1..Len(sessions)
  BY SeqRows DEF UpdateTypes
<1>5. Len(sessions) + 1 \notin DOMAIN sessions
  BY <1>4
<1> QED BY <1>2, <1>3, <1>4, <1>5, AppendRow DEF UpdateTypes

LEMMA ResetWipes ==
  ASSUME UpdateTypes, FullReset
  PROVE  /\ sessions' \in Seq(SessionRow) /\ DOMAIN sessions' = DOMAIN sessions
         /\ Rows' = {}
         /\ \A s \in DOMAIN sessions : sessions'[s] = Deleted
<1>1. Deleted \in SessionRow
  BY NeverLater DEF Deleted, SessionRow, Statuses, Batches, UpdateTypes
<1>2. DOMAIN sessions = 1..Len(sessions) /\ Len(sessions) \in Nat
  BY SeqRows DEF UpdateTypes
<1>3. sessions' = [s \in 1..Len(sessions) |-> Deleted]
  BY <1>2 DEF FullReset
<1>4. sessions' \in [1..Len(sessions) -> SessionRow]
  BY <1>1, <1>3
<1>5. sessions' \in Seq(SessionRow)
  BY <1>2, <1>4, RowsInSeq
<1>6. \A s \in DOMAIN sessions : sessions'[s].status = "deleted"
  BY <1>2, <1>3 DEF Deleted
<1> QED BY <1>2, <1>3, <1>5, <1>6 DEF Rows

-----------------------------------------------------------------------------
\* What each step does to the sessions.

LEMMA RowIs ==
  ASSUME UpdateTypes, NEW s \in DOMAIN sessions
  PROVE  sessions[s] \in SessionRow
  BY SeqRows DEF UpdateTypes

LEMMA ComposeTends ==
  ASSUME UpdateTypes, NEW s \in DOMAIN sessions, Compose(s)
  PROVE  /\ Tended
         /\ \A t \in DOMAIN sessions : sessions'[t].batch = sessions[t].batch
<1>1. PICK outcome \in inst.outcomes :
        sessions' = [sessions EXCEPT ![s].items = outcome.items,
                                    ![s].assessed = (outcome.status # "failed")]
  BY DEF Compose
<1>2. outcome \in Outcomes
  BY UpdateAssumption DEF UpdateTypes
<1> DEFINE r == [sessions[s] EXCEPT !.items = outcome.items,
                                    !.assessed = (outcome.status # "failed")]
<1>3. sessions[s] \in SessionRow
  BY RowIs
<1>4. outcome.items \in {0, 1}
  BY <1>2 DEF Outcomes
<1>5. r \in SessionRow /\ r.trigger = sessions[s].trigger /\ r.delivery = sessions[s].delivery
      /\ r.created = sessions[s].created /\ r.status = sessions[s].status
      /\ r.batch = sessions[s].batch
  BY <1>3, <1>4 DEF SessionRow
<1>6. sessions' = [sessions EXCEPT ![s] = r]
  BY <1>1
<1> HIDE DEF r
<1>7. Tended /\ \A t \in DOMAIN sessions : sessions'[t] = IF t = s THEN r ELSE sessions[t]
  BY <1>5, <1>6, RowTends
<1> QED BY <1>5, <1>7

LEMMA PublishTends ==
  ASSUME UpdateTypes, Publish
  PROVE  /\ Tended
         /\ \A t \in DOMAIN sessions :
              /\ sessions'[t].batch = sessions[t].batch
              /\ t # fin.s => sessions'[t] = sessions[t]
<1>1. CASE fin.s \in Rows
  <2> DEFINE r == [sessions[fin.s] EXCEPT !.status = fin.outcome, !.done = now]
  <2>1. sessions' = [sessions EXCEPT ![fin.s] = r] /\ fin.s \in DOMAIN sessions
    BY <1>1 DEF Publish, Rows
  <2>2. sessions[fin.s] \in SessionRow /\ sessions[fin.s].status # "deleted"
    BY <1>1, <2>1, RowIs DEF Rows
  <2>3. fin.outcome \in {"completed", "partial", "failed"} /\ now \in Nat
    BY NeverLater DEF UpdateTypes, FinRow
  <2>4. r \in SessionRow /\ r.trigger = sessions[fin.s].trigger
        /\ r.delivery = sessions[fin.s].delivery
        /\ r.created = sessions[fin.s].created /\ r.status = fin.outcome
        /\ r.batch = sessions[fin.s].batch
    BY <2>2, <2>3 DEF SessionRow, Statuses
  <2> HIDE DEF r
  <2>5. Tended /\ \A t \in DOMAIN sessions : sessions'[t] = IF t = fin.s THEN r ELSE sessions[t]
    BY <2>1, <2>2, <2>3, <2>4, RowTends
  <2> QED BY <2>4, <2>5
<1>2. CASE fin.s \notin Rows
  BY <1>2, QuietTends DEF Publish
<1> QED BY <1>1, <1>2

LEMMA FinishTends ==
  ASSUME UpdateTypes, FinishBatch
  PROVE  /\ Tended
         /\ \A t \in DOMAIN sessions :
              \/ sessions'[t] = sessions[t]
              \/ /\ t = fin.s /\ sessions[t].batch = "preparing"
                 /\ sessions[t].status = sessions'[t].status
<1>1. CASE fin.s \in Rows /\ sessions[fin.s].batch = "preparing"
  <2> DEFINE b == IF sessions[fin.s].items > 0 THEN "prepared" ELSE "expired"
             r == [sessions[fin.s] EXCEPT !.expires = now + MaxAge, !.batch = b]
  <2>1. sessions' = [sessions EXCEPT ![fin.s] = r] /\ fin.s \in DOMAIN sessions
    BY <1>1 DEF FinishBatch, Rows
  <2>2. sessions[fin.s] \in SessionRow
    BY <2>1, RowIs
  <2>3. now + MaxAge \in Nat
    BY NeverLater, UpdateAssumption DEF UpdateTypes
  <2>4. b \in {"prepared", "expired"}
    OBVIOUS
  <2> HIDE DEF b
  <2>5. r \in SessionRow /\ r.trigger = sessions[fin.s].trigger
        /\ r.delivery = sessions[fin.s].delivery
        /\ r.created = sessions[fin.s].created /\ r.status = sessions[fin.s].status
        /\ r.batch = b
    BY <2>2, <2>3, <2>4 DEF SessionRow, Batches
  <2> HIDE DEF r
  <2>6. <<sessions[fin.s].batch, r.batch>> \in BatchMoves
    BY <1>1, <2>4, <2>5 DEF BatchMoves
  <2>7. Tended /\ \A t \in DOMAIN sessions : sessions'[t] = IF t = fin.s THEN r ELSE sessions[t]
    BY <2>1, <2>2, <2>5, <2>6, RowTends
  <2> QED BY <1>1, <2>5, <2>7
<1>2. CASE ~(fin.s \in Rows /\ sessions[fin.s].batch = "preparing")
  BY <1>2, QuietTends DEF FinishBatch
<1> QED BY <1>1, <1>2

LEMMA CancelTends ==
  ASSUME UpdateTypes, NEW s \in DOMAIN sessions, CancelSession(s)
  PROVE  /\ Tended
         /\ \A t \in DOMAIN sessions : sessions'[t].batch = sessions[t].batch
<1> DEFINE r == [sessions[s] EXCEPT !.status = "cancelled", !.done = now]
<1>1. sessions' = [sessions EXCEPT ![s] = r] /\ sessions[s].status = "active"
  BY DEF CancelSession, ActiveSessions
<1>2. sessions[s] \in SessionRow /\ now \in Nat
  BY RowIs, NeverLater DEF UpdateTypes
<1>3. r \in SessionRow /\ r.trigger = sessions[s].trigger /\ r.delivery = sessions[s].delivery
      /\ r.created = sessions[s].created /\ r.status = "cancelled"
      /\ r.batch = sessions[s].batch
  BY <1>2 DEF SessionRow, Statuses
<1> HIDE DEF r
<1>4. Tended /\ \A t \in DOMAIN sessions : sessions'[t] = IF t = s THEN r ELSE sessions[t]
  BY <1>1, <1>3, RowTends
<1> QED BY <1>3, <1>4

LEMMA RevealTends ==
  ASSUME UpdateTypes, NEW s \in DOMAIN sessions, Reveal(s)
  PROVE  /\ Tended
         /\ \A t \in DOMAIN sessions : sessions'[t] = sessions[t] \/ sessions'[t].batch = "visible"
<1> DEFINE r == [sessions[s] EXCEPT !.batch = "visible", !.revealed = now]
<1>1. sessions' = [sessions EXCEPT ![s] = r] /\ sessions[s].batch = "prepared"
  BY DEF Reveal, Prepared
<1>2. sessions[s] \in SessionRow /\ now \in Nat
  BY RowIs, NeverLater DEF UpdateTypes
<1>3. r \in SessionRow /\ r.trigger = sessions[s].trigger /\ r.delivery = sessions[s].delivery
      /\ r.created = sessions[s].created /\ r.status = sessions[s].status
      /\ r.batch = "visible"
  BY <1>2 DEF SessionRow, Batches
<1> HIDE DEF r
<1>4. <<sessions[s].batch, r.batch>> \in BatchMoves
  BY <1>1, <1>3 DEF BatchMoves
<1>5. Tended /\ \A t \in DOMAIN sessions : sessions'[t] = IF t = s THEN r ELSE sessions[t]
  BY <1>1, <1>3, <1>4, RowTends
<1> QED BY <1>3, <1>5

\* A session is created by a request that startSession admits; one of the
\* scheduler by the loop, after its stoppers.
Created(trigger, delivery) ==
  /\ Admissible /\ CreateUpdateSession(trigger, delivery)
  /\ UNCHANGED <<inst, now, onboarding, firstRun, calibrations>>
  /\ trigger = "scheduler" =>
       /\ delivery = "prepared" /\ starter["loop"].pc = "start"
       /\ starter'["loop"].pc \notin {"stoppers", "start"}

Triggers == {"scheduler", "user", "onboarding"}
Deliveries == {"prepared", "visible"}

LEMMA StarterMoves ==
  ASSUME UpdateTypes, NEW p \in Callers, NEW at \in {"idle", "stoppers", "start", "started", "skipped"},
         NEW r \in Nat, at # "idle" => p \in inst.callers, UNCHANGED inst,
         starter' = [starter EXCEPT ![p] = [pc |-> at, receipt |-> r]]
  PROVE  /\ starter' \in [Callers -> StarterRow]
         /\ \A q \in Callers : starter'[q].pc # "idle" => q \in inst'.callers
         /\ \A q \in Callers : starter'[q].pc = IF q = p THEN at ELSE starter[q].pc
<1>1. [pc |-> at, receipt |-> r] \in StarterRow
  BY DEF StarterRow
<1>2. \A q \in Callers : starter'[q] = IF q = p THEN [pc |-> at, receipt |-> r] ELSE starter[q]
  BY DEF UpdateTypes
<1> QED BY <1>1, <1>2 DEF UpdateTypes

\* What the callers' helpers do.
LEMMA MovedIs ==
  ASSUME UpdateTypes, NEW p \in Callers, NEW at \in {"idle", "stoppers", "start", "started", "skipped"},
         p \in inst.callers, UNCHANGED inst, Moved(p, at)
  PROVE  /\ starter' \in [Callers -> StarterRow]
         /\ \A q \in Callers : starter'[q].pc # "idle" => q \in inst'.callers
         /\ \A q \in Callers : starter'[q].pc = IF q = p THEN at ELSE starter[q].pc
<1>1. starter[p].receipt \in Nat
  BY DEF UpdateTypes, StarterRow
<1>2. starter' = [starter EXCEPT ![p] = [pc |-> at, receipt |-> starter[p].receipt]]
  <2>1. starter[p] \in StarterRow
    BY DEF UpdateTypes
  <2>2. [starter[p] EXCEPT !.pc = at] = [pc |-> at, receipt |-> starter[p].receipt]
    BY <2>1 DEF StarterRow
  <2>3. starter' = [starter EXCEPT ![p] = [starter[p] EXCEPT !.pc = at]]
    BY DEF Moved
  <2> QED BY <2>2, <2>3
<1> QED BY <1>1, <1>2, StarterMoves

LEMMA SettledIs ==
  ASSUME UpdateTypes, NEW p \in Callers, UNCHANGED inst, Settled(p)
  PROVE  /\ starter' \in [Callers -> StarterRow]
         /\ \A q \in Callers : starter'[q].pc # "idle" => q \in inst'.callers
         /\ \A q \in Callers : starter'[q].pc = IF q = p THEN "idle" ELSE starter[q].pc
<1>1. starter' = [starter EXCEPT ![p] = [pc |-> "idle", receipt |-> 0]]
  BY DEF Settled, IdleStarter
<1> QED BY <1>1, StarterMoves

LEMMA ReturnedIs ==
  ASSUME UpdateTypes, NEW p \in Callers, p \in inst.callers, UNCHANGED inst, Returned(p)
  PROVE  /\ starter' \in [Callers -> StarterRow]
         /\ \A q \in Callers : starter'[q].pc # "idle" => q \in inst'.callers
         /\ \A q \in Callers : q # p => starter'[q].pc = starter[q].pc
         /\ starter'[p].pc \in {"idle", "skipped"}
  BY SettledIs, MovedIs DEF Returned

\* The callers past their stoppers.
Starting == {p \in Callers : starter[p].pc = "start"}

\* StartPrepared that starts: the caller is done, its batch is being prepared.
Started(p) ==
  /\ starter[p].pc = "start" /\ UNCHANGED <<inst, fin, baseline>>
  /\ Starting' = Starting \ {p}
  /\ \E trigger \in Triggers : Created(trigger, "prepared")

LEMMA StartPreparedStarts ==
  ASSUME UpdateTypes, NEW p \in Callers, StartPrepared(p)
  PROVE  \/ UNCHANGED sessions /\ UNCHANGED <<inst, fin>>
         \/ Started(p)
<1>1. /\ UNCHANGED <<inst, now, onboarding, firstRun, calibrations, fin, baseline>>
      /\ starter[p].pc = "start" /\ p \in inst.callers
  BY DEF StartPrepared, clock, learning, UpdateTypes
<1>2. CASE /\ Admissible /\ CreateUpdateSession(IF p = "loop" THEN "scheduler" ELSE "user", "prepared")
           /\ Settled(p) \/ Moved(p, "started")
  <2>1. \A q \in Callers : starter'[q].pc \in {"start", "stoppers"} =>
          q # p /\ starter'[q].pc = starter[q].pc
    BY <1>1, <1>2, SettledIs, MovedIs
  <2>2. \A q \in Callers : q # p => starter'[q].pc = starter[q].pc
    BY <1>1, <1>2, SettledIs, MovedIs
  <2>3. Starting' = Starting \ {p}
    BY <2>1, <2>2 DEF Starting
  <2>4. PICK trigger \in {"scheduler", "user"} :
          /\ CreateUpdateSession(trigger, "prepared") /\ (trigger = "scheduler" => p = "loop")
    BY <1>2
  <2>5. Created(trigger, "prepared")
    BY <1>1, <1>2, <2>1, <2>4 DEF Created
  <2> QED BY <1>1, <2>3, <2>5 DEF Started, Triggers
<1>3. CASE UNCHANGED sessions
  BY <1>1, <1>3
<1> QED BY <1>2, <1>3 DEF StartPrepared

LEMMA SessionsStep ==
  ASSUME UpdateTypes, [AUNext]_auvars
  PROVE  \/ Tended
         \/ \E trigger \in Triggers, delivery \in Deliveries : Created(trigger, delivery)
         \/ FullReset
<1>1. CASE UNCHANGED sessions
  BY <1>1, QuietTends
<1>2. CASE ExpireBatches
  BY <1>2, ExpiryTends
<1>3. CASE \E p \in inst.callers : StartPreparedUpdateNow(p) \/ RetryAfterReaderClose(p) \/ PlanTick(p)
  BY <1>1, <1>2, <1>3 DEF StartPreparedUpdateNow, RetryAfterReaderClose, PlanTick
<1>4. CASE \E p \in Callers : CallerStep(p)
  <2>1. PICK p \in Callers : CheckStoppers(p) \/ StartPrepared(p) \/ CompleteTick(p)
    BY <1>4 DEF CallerStep
  <2>2. CASE CheckStoppers(p) \/ CompleteTick(p)
    BY <1>1, <1>2, <2>2 DEF CheckStoppers, CompleteTick
  <2>3. CASE StartPrepared(p)
    <3>1. UNCHANGED sessions \/ Started(p)
      BY <2>3, StartPreparedStarts
    <3>2. CASE Started(p)
      BY <3>2 DEF Started, Deliveries
    <3> QED BY <1>1, <3>1, <3>2
  <2> QED BY <2>1, <2>2, <2>3
<1>5. CASE FinStep
  BY <1>1, <1>5, PublishTends, FinishTends DEF FinStep, CalibrateFinalized
<1>6. CASE StartVisibleUpdate
  <2>1. PICK trigger \in {"onboarding", "user"} : Admissible /\ CreateUpdateSession(trigger, "visible")
    BY <1>6 DEF StartVisibleUpdate
  <2>2. Created(trigger, "visible")
    BY <1>6, <2>1 DEF StartVisibleUpdate, Created, clock, learning
  <2> QED BY <2>2 DEF Triggers, Deliveries
<1>7. CASE \E s \in DOMAIN sessions :
         Compose(s) \/ CancelSession(s) \/ RevealPreparedBatch(s) \/ StartCalibration(s)
  BY <1>1, <1>7, ComposeTends, CancelTends, RevealTends DEF RevealPreparedBatch, StartCalibration
<1>8. CASE CalibrationOverview \/ CompleteOnboarding
           \/ (\E c \in DOMAIN calibrations, o \in Ordinals : DecideCalibration(c, o))
  BY <1>1, <1>8 DEF CalibrationOverview, CompleteOnboarding, DecideCalibration
<1>9. CASE RecordUIAccess \/ AutoUpdateStatus \/ ConfirmUsageRestored
  BY <1>1, <1>2, <1>9 DEF RecordUIAccess, AutoUpdateStatus, ConfirmUsageRestored
<1>10. CASE ResetDailyQuota \/ ResetLearning \/ Advance \/ Crash
  BY <1>1, <1>10 DEF ResetDailyQuota, ResetLearning, Advance, Crash
<1>11. CASE UNCHANGED auvars
  BY <1>1, <1>11 DEF auvars
<1> QED BY <1>3, <1>4, <1>5, <1>6, <1>7, <1>8, <1>9, <1>10, <1>11 DEF AUNext

-----------------------------------------------------------------------------
\* What a step does to the calibrations: it leaves them, creates the first, drops
\* them, or decides a sample of one under review.
Founded ==
  \E s \in Rows : /\ calibrations = << >> /\ CreateCalibration(s)
                  /\ UNCHANGED <<inst, now, sessions, onboarding, firstRun>>
Decided ==
  \E c \in DOMAIN calibrations, o \in Ordinals : DecideCalibration(c, o)

LEMMA EligibleFounds ==
  ASSUME NEW s, Eligible(s), EnsurePendingFirstCalibration(s) \/ StartCalibrationLocked(s),
         UNCHANGED <<inst, now, sessions, onboarding, firstRun>>
  PROVE  Founded \/ UNCHANGED calibrations
  BY DEF Eligible, EnsurePendingFirstCalibration, StartCalibrationLocked, Founded

LEMMA CalibrationsStep ==
  ASSUME UpdateTypes, [AUNext]_auvars
  PROVE  \/ UNCHANGED <<onboarding, firstRun, calibrations>>
         \/ CompleteOnboarding \/ ResetLearning \/ FullReset \/ Decided \/ Founded
<1>1. CASE \E p \in inst.callers : StartPreparedUpdateNow(p) \/ RetryAfterReaderClose(p) \/ PlanTick(p)
  BY <1>1 DEF StartPreparedUpdateNow, RetryAfterReaderClose, PlanTick, learning
<1>2. CASE \E p \in Callers : CallerStep(p)
  BY <1>2 DEF CallerStep, CheckStoppers, StartPrepared, CompleteTick, learning
<1>3. CASE FinStep
  <2>1. CASE Publish \/ FinishBatch
    BY <2>1 DEF Publish, FinishBatch, learning
  <2>2. CASE CalibrateFinalized
    <3>1. /\ UNCHANGED <<inst, now, sessions, onboarding, firstRun>>
          /\ EnsurePendingFirstCalibration(fin.s)
      BY <2>2 DEF CalibrateFinalized, clock
    <3>2. CASE Eligible(fin.s)
      BY <3>1, <3>2, EligibleFounds
    <3>3. CASE ~Eligible(fin.s)
      BY <3>1, <3>3 DEF EnsurePendingFirstCalibration
    <3> QED BY <3>1, <3>2, <3>3
  <2> QED BY <1>3, <2>1, <2>2 DEF FinStep
<1>4. CASE StartVisibleUpdate
  BY <1>4 DEF StartVisibleUpdate, learning
<1>5. CASE CalibrationOverview
  <2>1. PICK s : EnsurePendingFirstCalibration(s)
    BY <1>5 DEF CalibrationOverview
  <2>2. UNCHANGED <<inst, now, sessions, onboarding, firstRun>>
    BY <1>5 DEF CalibrationOverview, clock
  <2>3. CASE Eligible(s)
    BY <2>1, <2>2, <2>3, EligibleFounds
  <2>4. CASE ~Eligible(s)
    BY <2>1, <2>2, <2>4 DEF EnsurePendingFirstCalibration
  <2> QED BY <2>2, <2>3, <2>4
<1>6. CASE \E s \in DOMAIN sessions :
         Compose(s) \/ CancelSession(s) \/ RevealPreparedBatch(s) \/ StartCalibration(s)
  <2>1. CASE \E s \in DOMAIN sessions : Compose(s) \/ CancelSession(s) \/ RevealPreparedBatch(s)
    BY <2>1 DEF Compose, CancelSession, RevealPreparedBatch, learning
  <2>2. CASE \E s \in DOMAIN sessions : StartCalibration(s)
    <3>1. PICK s \in DOMAIN sessions : StartCalibration(s)
      BY <2>2
    <3>2. /\ StartCalibrationLocked(s) /\ Eligible(s)
          /\ UNCHANGED <<inst, now, sessions, onboarding, firstRun>>
      BY <3>1 DEF StartCalibration, StartCalibrationLocked, clock
    <3> QED BY <3>2, EligibleFounds
  <2> QED BY <1>6, <2>1, <2>2
<1>7. CASE RecordUIAccess \/ AutoUpdateStatus \/ ConfirmUsageRestored
  BY <1>7 DEF RecordUIAccess, AutoUpdateStatus, ConfirmUsageRestored, learning
<1>8. CASE ResetDailyQuota \/ Advance \/ Crash \/ UNCHANGED auvars
  BY <1>8 DEF ResetDailyQuota, Advance, Crash, learning, auvars
<1> QED BY <1>1, <1>2, <1>3, <1>4, <1>5, <1>6, <1>7, <1>8 DEF AUNext, Decided

\* The one calibration that is created.
LEMMA FoundedRow ==
  ASSUME UpdateTypes, Founded
  PROVE  /\ calibrations' \in Seq(CalibrationRow) /\ Len(calibrations') = 1
         /\ DOMAIN calibrations' = {1}
         /\ calibrations'[1].status = "reviewing" /\ calibrations'[1].after = Len(sessions)
<1>1. PICK s \in Rows : calibrations = << >> /\ CreateCalibration(s)
  BY DEF Founded
<1> DEFINE r == [session |-> s, status |-> "reviewing", after |-> Len(sessions), resolved |-> {}]
<1>2. s \in Nat /\ Len(sessions) \in Nat
  BY SeqRows DEF UpdateTypes, Rows
<1>3. r \in CalibrationRow
  BY <1>2 DEF CalibrationRow
<1>4. calibrations' = Append(calibrations, r)
  BY <1>1 DEF CreateCalibration
<1>5. r.status = "reviewing" /\ r.after = Len(sessions)
  OBVIOUS
<1> HIDE DEF r
<1>6. Len(calibrations) = 0 /\ DOMAIN calibrations = {}
  BY <1>1, SeqRows DEF UpdateTypes
<1> QED BY <1>3, <1>4, <1>5, <1>6, AppendRow DEF UpdateTypes

\* A decided calibration keeps its place; it is completed with every sample.
LEMMA DecidedRow ==
  ASSUME UpdateTypes, Decided
  PROVE  /\ calibrations' \in Seq(CalibrationRow) /\ Len(calibrations') = Len(calibrations)
         /\ DOMAIN calibrations' = DOMAIN calibrations
         /\ UNCHANGED <<inst, now, sessions, onboarding>>
         /\ firstRun' \in {firstRun, "completed"}
         /\ \A c \in DOMAIN calibrations :
              /\ calibrations'[c].after = calibrations[c].after
              /\ \/ calibrations'[c] = calibrations[c]
                 \/ calibrations[c].status = "reviewing" /\ calibrations'[c].status = "reviewing"
                 \/ /\ calibrations'[c].status = "completed" /\ calibrations'[c].resolved = Ordinals
                    /\ firstRun' = "completed"
<1>1. PICK c \in DOMAIN calibrations, o \in Ordinals : DecideCalibration(c, o)
  BY DEF Decided
<1>2. calibrations[c] \in CalibrationRow /\ calibrations[c].status = "reviewing"
  BY <1>1, SeqRows DEF UpdateTypes, DecideCalibration, Reviewing
<1>3. UNCHANGED <<inst, now, sessions, onboarding>>
  BY <1>1 DEF DecideCalibration, clock
<1>4. CASE CompleteCalibration(c)
  <2> DEFINE r == [calibrations[c] EXCEPT !.resolved = Ordinals, !.status = "completed"]
  <2>1. r \in CalibrationRow /\ r.after = calibrations[c].after /\ r.status = "completed"
        /\ r.resolved = Ordinals
    BY <1>2 DEF CalibrationRow
  <2>2. calibrations' = [calibrations EXCEPT ![c] = r] /\ firstRun' = "completed"
    BY <1>4 DEF CompleteCalibration
  <2> HIDE DEF r
  <2>3. /\ calibrations' \in Seq(CalibrationRow) /\ Len(calibrations') = Len(calibrations)
        /\ DOMAIN calibrations' = DOMAIN calibrations
        /\ \A j \in DOMAIN calibrations : calibrations'[j] = IF j = c THEN r ELSE calibrations[j]
    BY <2>1, <2>2, ExceptSeqRow DEF UpdateTypes
  <2> QED BY <1>3, <2>1, <2>2, <2>3
<1>5. CASE RecordDecision(c, o) /\ UNCHANGED firstRun
  <2> DEFINE r == [calibrations[c] EXCEPT !.resolved = @ \cup {o}]
  <2>1. r \in CalibrationRow /\ r.after = calibrations[c].after /\ r.status = "reviewing"
    BY <1>2 DEF CalibrationRow
  <2>2. calibrations' = [calibrations EXCEPT ![c] = r]
    BY <1>5 DEF RecordDecision
  <2> HIDE DEF r
  <2>3. /\ calibrations' \in Seq(CalibrationRow) /\ Len(calibrations') = Len(calibrations)
        /\ DOMAIN calibrations' = DOMAIN calibrations
        /\ \A j \in DOMAIN calibrations : calibrations'[j] = IF j = c THEN r ELSE calibrations[j]
    BY <2>1, <2>2, ExceptSeqRow DEF UpdateTypes
  <2> QED BY <1>2, <1>3, <1>5, <2>1, <2>3
<1> QED BY <1>1, <1>4, <1>5 DEF DecideCalibration

-----------------------------------------------------------------------------
\* Initially.
LEMMA UpdateInitTypes == AUInit => UpdateTypes
<1> SUFFICES ASSUME AUInit PROVE UpdateTypes
  OBVIOUS
<1>1. inst \in Instances /\ inst.time \in Nat /\ Never \in Nat
  BY UpdateAssumption, NeverLater DEF AUInit
<1>2. starter \in [Callers -> StarterRow] /\ \A p \in Callers : starter[p].pc = "idle"
  BY DEF AUInit, IdleStarter, StarterRow
<1>3. fin \in FinRow
  BY DEF AUInit, IdleFin, FinRow
<1>4. /\ << >> \in Seq(SessionRow) /\ << >> \in Seq(CalibrationRow) /\ << >> \in Seq(ReceiptRow)
  BY EmptySeq
<1>5. sessions = << >> /\ calibrations = << >> /\ receipts = << >>
  BY DEF AUInit
<1>6. baseline \in [total : Nat, automatic : Nat] /\ 0 \in 0..inst.time /\ now = 0
  BY <1>1 DEF AUInit
<1>7. /\ pause \in BOOLEAN /\ onboarding = "not_started" /\ firstRun = "not_started"
      /\ access = Never /\ lastTick = Never
  BY DEF AUInit
<1> QED BY <1>1, <1>2, <1>3, <1>4, <1>5, <1>6, <1>7 DEF UpdateTypes

\* What a step does to the callers: "start" follows the stoppers only, and the loop
\* comes to its stoppers by a plan.
StarterTypes ==
  /\ starter' \in [Callers -> StarterRow]
  /\ \A q \in Callers : starter'[q].pc # "idle" => q \in inst'.callers

LEMMA StarterStep ==
  ASSUME UpdateTypes, [AUNext]_auvars
  PROVE  /\ StarterTypes
         /\ \A q \in Callers :
              /\ starter'[q].pc = "start" =>
                   \/ starter[q].pc = "start"
                   \/ CheckStoppers(q) /\ ~Stopped /\ WithinBudget
              /\ starter'[q].pc \in {"stoppers", "start"} =>
                   starter[q].pc \in {"stoppers", "start"} \/ q # "loop" \/ PlanTick(q)
<1>1. CASE \E p \in inst.callers : StartPreparedUpdateNow(p) \/ RetryAfterReaderClose(p) \/ PlanTick(p)
  <2>1. PICK p \in inst.callers : StartPreparedUpdateNow(p) \/ RetryAfterReaderClose(p) \/ PlanTick(p)
    BY <1>1
  <2>2. p \in Callers
    BY <2>1, UpdateAssumption DEF UpdateTypes
  <2>3. CASE StartPreparedUpdateNow(p)
    <3>1. UNCHANGED inst /\ Moved(p, "stoppers") /\ p = "now"
      BY <2>3 DEF StartPreparedUpdateNow
    <3> QED BY <2>1, <2>2, <3>1, MovedIs DEF StarterTypes
  <2>4. CASE RetryAfterReaderClose(p)
    <3>1. UNCHANGED inst /\ (Moved(p, "stoppers") \/ UNCHANGED starter) /\ p = "retry"
      BY <2>4 DEF RetryAfterReaderClose
    <3>2. CASE UNCHANGED starter
      BY <3>1, <3>2 DEF StarterTypes, UpdateTypes
    <3> QED BY <2>1, <2>2, <3>1, <3>2, MovedIs DEF StarterTypes
  <2>5. CASE PlanTick(p)
    <3>1. /\ UNCHANGED inst /\ p = "loop"
          /\ starter' = [starter EXCEPT ![p] = [pc |-> "stoppers", receipt |-> Len(receipts) + 1]]
      BY <2>5 DEF PlanTick, LoopReady
    <3>2. Len(receipts) + 1 \in Nat
      BY SeqRows DEF UpdateTypes
    <3> QED BY <2>1, <2>2, <2>5, <3>1, <3>2, StarterMoves DEF StarterTypes
  <2> QED BY <2>1, <2>3, <2>4, <2>5
<1>2. CASE \E p \in Callers : CallerStep(p)
  <2>1. PICK p \in Callers : CheckStoppers(p) \/ StartPrepared(p) \/ CompleteTick(p)
    BY <1>2 DEF CallerStep
  <2>2. UNCHANGED inst /\ starter[p].pc # "idle" /\ p \in inst.callers
    BY <2>1 DEF CheckStoppers, StartPrepared, CompleteTick, UpdateTypes
  <2>3. CASE CheckStoppers(p)
    <3>1. CASE ~Stopped /\ WithinBudget /\ Moved(p, "start")
      <4>1. starter[p].pc = "stoppers"
        BY <2>3 DEF CheckStoppers
      <4> QED BY <2>2, <2>3, <3>1, <4>1, MovedIs DEF StarterTypes
    <3>2. CASE Returned(p)
      BY <2>2, <3>2, ReturnedIs DEF StarterTypes
    <3> QED BY <2>3, <3>1, <3>2 DEF CheckStoppers
  <2>4. CASE StartPrepared(p) \/ CompleteTick(p)
    <3>1. Settled(p) \/ Moved(p, "started") \/ Returned(p)
      BY <2>4 DEF StartPrepared, CompleteTick
    <3>2. CASE Settled(p)
      BY <2>2, <3>2, SettledIs DEF StarterTypes
    <3>3. CASE Moved(p, "started")
      BY <2>2, <3>3, MovedIs DEF StarterTypes
    <3>4. CASE Returned(p)
      BY <2>2, <3>4, ReturnedIs DEF StarterTypes
    <3> QED BY <3>1, <3>2, <3>3, <3>4
  <2> QED BY <2>1, <2>3, <2>4
<1>3. CASE UNCHANGED <<inst, starter>>
  BY <1>3 DEF StarterTypes, UpdateTypes
<1>4. CASE FinStep \/ StartVisibleUpdate \/ CalibrationOverview \/ CompleteOnboarding
  BY <1>3, <1>4 DEF FinStep, Publish, FinishBatch, CalibrateFinalized, StartVisibleUpdate,
                   CalibrationOverview, CompleteOnboarding
<1>5. CASE \E s \in DOMAIN sessions :
         Compose(s) \/ CancelSession(s) \/ RevealPreparedBatch(s) \/ StartCalibration(s)
  BY <1>3, <1>5 DEF Compose, CancelSession, RevealPreparedBatch, StartCalibration
<1>6. CASE \E c \in DOMAIN calibrations, o \in Ordinals : DecideCalibration(c, o)
  BY <1>3, <1>6 DEF DecideCalibration
<1>7. CASE RecordUIAccess \/ AutoUpdateStatus \/ ConfirmUsageRestored
  BY <1>3, <1>7 DEF RecordUIAccess, AutoUpdateStatus, ConfirmUsageRestored
<1>8. CASE ResetDailyQuota \/ ResetLearning \/ FullReset \/ Advance \/ UNCHANGED auvars
  BY <1>3, <1>8 DEF ResetDailyQuota, ResetLearning, FullReset, Advance, auvars
<1>9. CASE Crash
  <2>1. starter' = [p \in Callers |-> IdleStarter] /\ UNCHANGED inst
    BY <1>9 DEF Crash
  <2>2. IdleStarter \in StarterRow /\ IdleStarter.pc = "idle"
    BY DEF IdleStarter, StarterRow
  <2> QED BY <2>1, <2>2 DEF StarterTypes
<1> QED BY <1>1, <1>2, <1>4, <1>5, <1>6, <1>7, <1>8, <1>9 DEF AUNext

-----------------------------------------------------------------------------
\* The receipts of ticks: a step appends one, completes one or drops them all.
LEMMA PlanTicks ==
  ASSUME UpdateTypes, NEW p \in Callers, PlanTick(p)
  PROVE  /\ receipts' \in Seq(ReceiptRow) /\ Len(receipts') = Len(receipts) + 1
         /\ Len(receipts) \in Nat /\ receipts'[Len(receipts) + 1].tick = now /\ lastTick' = now
         /\ \A r \in DOMAIN receipts : receipts'[r] = receipts[r]
         /\ UNCHANGED <<inst, now>>
<1> DEFINE row == [tick |-> now, outcome |-> "checking"]
<1>1. row \in ReceiptRow /\ row.tick = now
  BY NeverLater DEF ReceiptRow, UpdateTypes
<1>2. receipts' = Append(receipts, row) /\ lastTick' = now /\ UNCHANGED <<inst, now>>
  BY DEF PlanTick, RecordSchedulerTick
<1> HIDE DEF row
<1>3. Len(receipts) \in Nat /\ DOMAIN receipts = 1..Len(receipts)
  BY SeqRows DEF UpdateTypes
<1> QED BY <1>1, <1>2, <1>3, AppendRow DEF UpdateTypes

LEMMA CompletionTicks ==
  ASSUME UpdateTypes, NEW p \in Callers, CompleteTick(p)
  PROVE  /\ receipts' \in Seq(ReceiptRow) /\ Len(receipts') = Len(receipts)
         /\ Len(receipts) \in Nat /\ UNCHANGED <<inst, now, lastTick>>
         /\ \A r \in DOMAIN receipts : receipts'[r].tick = receipts[r].tick
<1>1. UNCHANGED <<inst, now, lastTick>>
  BY DEF CompleteTick
<1>2. Len(receipts) \in Nat
  BY SeqRows DEF UpdateTypes
<1>3. CASE UNCHANGED receipts
  BY <1>1, <1>2, <1>3 DEF UpdateTypes
<1>4. CASE starter[p].receipt \in DOMAIN receipts
  <2> DEFINE k == starter[p].receipt
             row == [receipts[k] EXCEPT !.outcome = starter[p].pc]
  <2>1. receipts[k] \in ReceiptRow
    BY <1>4, SeqRows DEF UpdateTypes
  <2>2. starter[p].pc \in {"started", "skipped"}
    BY DEF CompleteTick
  <2>3. row \in ReceiptRow /\ row.tick = receipts[k].tick
    BY <2>1, <2>2 DEF ReceiptRow
  <2>4. receipts' = [receipts EXCEPT ![k] = row]
    BY <1>4 DEF CompleteTick, CompleteSchedulerTick
  <2>5. k \in DOMAIN receipts
    BY <1>4
  <2> HIDE DEF row, k
  <2> QED BY <1>1, <1>2, <2>3, <2>4, <2>5, ExceptSeqRow DEF UpdateTypes
<1> QED BY <1>3, <1>4 DEF CompleteTick, CompleteSchedulerTick

ClockTypes ==
  /\ now' \in 0..inst'.time /\ inst' = inst /\ now <= now'
  /\ receipts' \in Seq(ReceiptRow) /\ access' \in Nat /\ lastTick' \in Nat

LEMMA ReceiptsStep ==
  ASSUME UpdateTypes, [AUNext]_auvars
  PROVE  /\ ClockTypes
         /\ \/ UNCHANGED <<lastTick, receipts>> \/ FullReset
            \/ \E p \in Callers : PlanTick(p) \/ CompleteTick(p)
<1>0. /\ now \in 0..inst.time /\ now \in Nat /\ inst.time \in Nat /\ now <= now /\ Never \in Nat
      /\ receipts \in Seq(ReceiptRow) /\ access \in Nat /\ lastTick \in Nat
  BY NeverLater, UpdateAssumption DEF UpdateTypes
<1>1. CASE UNCHANGED <<inst, now, access, lastTick, receipts>>
  BY <1>0, <1>1 DEF ClockTypes
<1>2. CASE \E p \in inst.callers : StartPreparedUpdateNow(p) \/ RetryAfterReaderClose(p) \/ PlanTick(p)
  <2>1. PICK p \in inst.callers : StartPreparedUpdateNow(p) \/ RetryAfterReaderClose(p) \/ PlanTick(p)
    BY <1>2
  <2>2. p \in Callers
    BY <2>1, UpdateAssumption DEF UpdateTypes
  <2>3. CASE PlanTick(p)
    <3>1. access' = access
      BY <2>3 DEF PlanTick
    <3> QED BY <1>0, <2>2, <2>3, <3>1, PlanTicks DEF ClockTypes
  <2> QED BY <1>1, <2>1, <2>3 DEF StartPreparedUpdateNow, RetryAfterReaderClose, clock
<1>3. CASE \E p \in Callers : CallerStep(p)
  <2>1. PICK p \in Callers : CheckStoppers(p) \/ StartPrepared(p) \/ CompleteTick(p)
    BY <1>3 DEF CallerStep
  <2>2. CASE CompleteTick(p)
    <3>1. access' = access
      BY <2>2 DEF CompleteTick
    <3> QED BY <1>0, <2>2, <3>1, CompletionTicks DEF ClockTypes
  <2> QED BY <1>1, <2>1, <2>2 DEF CheckStoppers, StartPrepared, clock
<1>4. CASE FinStep \/ StartVisibleUpdate \/ CalibrationOverview \/ CompleteOnboarding
  BY <1>1, <1>4 DEF FinStep, Publish, FinishBatch, CalibrateFinalized, StartVisibleUpdate,
                   CalibrationOverview, CompleteOnboarding, clock
<1>5. CASE \E s \in DOMAIN sessions : Compose(s) \/ CancelSession(s) \/ StartCalibration(s)
  BY <1>1, <1>5 DEF Compose, CancelSession, StartCalibration, clock
<1>6. CASE \E s \in DOMAIN sessions : RevealPreparedBatch(s)
  BY <1>0, <1>6 DEF RevealPreparedBatch, ClockTypes
<1>7. CASE \E c \in DOMAIN calibrations, o \in Ordinals : DecideCalibration(c, o)
  BY <1>1, <1>7 DEF DecideCalibration, clock
<1>8. CASE RecordUIAccess
  BY <1>0, <1>8 DEF RecordUIAccess, ClockTypes
<1>9. CASE AutoUpdateStatus \/ ConfirmUsageRestored \/ ResetDailyQuota \/ ResetLearning
           \/ Crash \/ UNCHANGED auvars
  BY <1>1, <1>9 DEF AutoUpdateStatus, ConfirmUsageRestored, ResetDailyQuota, ResetLearning, Crash,
                   clock, auvars
<1>10. CASE FullReset
  <2>1. << >> \in Seq(ReceiptRow)
    BY EmptySeq
  <2> QED BY <1>0, <1>10, <2>1 DEF FullReset, ClockTypes
<1>11. CASE Advance
  BY <1>0, <1>11 DEF Advance, ClockTypes
<1> QED BY <1>2, <1>3, <1>4, <1>5, <1>6, <1>7, <1>8, <1>9, <1>10, <1>11 DEF AUNext

-----------------------------------------------------------------------------
\* The remaining variables.
LEMMA FinStepTypes ==
  ASSUME UpdateTypes, [AUNext]_auvars
  PROVE  fin' \in FinRow /\ pause' \in BOOLEAN /\ baseline' \in [total : Nat, automatic : Nat]
<1>0. fin \in FinRow /\ pause \in BOOLEAN /\ baseline \in [total : Nat, automatic : Nat]
  BY DEF UpdateTypes
<1>1. IdleFin \in FinRow
  BY DEF IdleFin, FinRow
<1>2. DailyTokenUsage \in [total : Nat, automatic : Nat]
  <2>1. DOMAIN sessions = 1..Len(sessions) /\ Len(sessions) \in Nat
    BY SeqRows DEF UpdateTypes
  <2>2. IsFiniteSet(DOMAIN sessions)
    BY <2>1, FS_Interval
  <2>3. /\ IsFiniteSet(Ended)
        /\ IsFiniteSet({s \in Ended : sessions[s].delivery = "prepared"})
    BY <2>2, FS_Subset DEF Ended, Rows
  <2> QED BY <2>3, FS_CardinalityType DEF DailyTokenUsage
<1>3. CASE UNCHANGED <<fin, pause, baseline>>
  BY <1>0, <1>3
<1>4. CASE \E p \in inst.callers : StartPreparedUpdateNow(p) \/ RetryAfterReaderClose(p) \/ PlanTick(p)
  BY <1>3, <1>4 DEF StartPreparedUpdateNow, RetryAfterReaderClose, PlanTick
<1>5. CASE \E p \in Callers : CallerStep(p)
  BY <1>3, <1>5 DEF CallerStep, CheckStoppers, StartPrepared, CompleteTick
<1>6. CASE Publish
  BY <1>0, <1>6 DEF Publish, FinRow
<1>7. CASE FinishBatch
  BY <1>0, <1>7 DEF FinishBatch, FinRow
<1>8. CASE CalibrateFinalized
  BY <1>0, <1>1, <1>8 DEF CalibrateFinalized
<1>9. CASE \E s \in DOMAIN sessions : Compose(s)
  <2>1. PICK s \in DOMAIN sessions : Compose(s)
    BY <1>9
  <2>2. PICK outcome \in inst.outcomes :
          /\ fin' = [pc |-> "publish", s |-> s, outcome |-> outcome.status, limited |-> outcome.limited]
          /\ PauseForUsageLimit(outcome.limited)
    BY <2>1 DEF Compose
  <2>3. outcome \in Outcomes /\ s \in Nat
    BY UpdateAssumption, SeqRows DEF UpdateTypes
  <2> QED BY <1>0, <2>1, <2>2, <2>3 DEF Compose, Outcomes, FinRow, PauseForUsageLimit
<1>10. CASE \E s \in DOMAIN sessions : CancelSession(s) \/ RevealPreparedBatch(s) \/ StartCalibration(s)
  BY <1>3, <1>10 DEF CancelSession, RevealPreparedBatch, StartCalibration
<1>11. CASE \/ StartVisibleUpdate \/ CalibrationOverview \/ CompleteOnboarding
            \/ (\E c \in DOMAIN calibrations, o \in Ordinals : DecideCalibration(c, o))
            \/ RecordUIAccess \/ AutoUpdateStatus \/ ResetLearning \/ Advance \/ UNCHANGED auvars
  BY <1>3, <1>11 DEF StartVisibleUpdate, CalibrationOverview, CompleteOnboarding, DecideCalibration,
                    RecordUIAccess, AutoUpdateStatus, ResetLearning, Advance, auvars
<1>12. CASE ConfirmUsageRestored \/ Crash
  BY <1>0, <1>1, <1>12 DEF ConfirmUsageRestored, Crash
<1>13. CASE ResetDailyQuota
  BY <1>0, <1>2, <1>13 DEF ResetDailyQuota, ResetQuota
<1>14. CASE FullReset
  BY <1>0, <1>14 DEF FullReset
<1> QED BY <1>4, <1>5, <1>6, <1>7, <1>8, <1>9, <1>10, <1>11, <1>12, <1>13, <1>14 DEF AUNext, FinStep

LEMMA TypesStep ==
  ASSUME UpdateTypes, [AUNext]_auvars
  PROVE  UpdateTypes'
<1>1. ClockTypes /\ StarterTypes
  BY ReceiptsStep, StarterStep
<1>2. fin' \in FinRow /\ pause' \in BOOLEAN /\ baseline' \in [total : Nat, automatic : Nat]
  BY FinStepTypes
<1>3. sessions' \in Seq(SessionRow)
  <2>1. CASE \E trigger \in Triggers, delivery \in Deliveries : Created(trigger, delivery)
    BY <2>1, CreationAppends DEF Created, Triggers, Deliveries
  <2> QED BY <2>1, SessionsStep, ResetWipes DEF Tended
<1>4. /\ onboarding' \in {"not_started", "completed"}
      /\ firstRun' \in {"not_started", "pending", "disabled", "completed"}
      /\ calibrations' \in Seq(CalibrationRow)
  <2>1. << >> \in Seq(CalibrationRow)
    BY EmptySeq
  <2>2. inst.firstRun \in {"pending", "disabled"}
    BY UpdateAssumption DEF UpdateTypes
  <2>3. CASE UNCHANGED <<onboarding, firstRun, calibrations>> \/ CompleteOnboarding
             \/ ResetLearning \/ FullReset
    BY <2>1, <2>2, <2>3 DEF CompleteOnboarding, ResetLearning, FullReset, UpdateTypes
  <2>4. CASE Decided
    BY <2>4, DecidedRow DEF UpdateTypes
  <2>5. CASE Founded
    BY <2>5, FoundedRow DEF UpdateTypes, Founded
  <2> QED BY <2>3, <2>4, <2>5, CalibrationsStep
<1> QED BY <1>1, <1>2, <1>3, <1>4 DEF UpdateTypes, ClockTypes, StarterTypes

-----------------------------------------------------------------------------
\* The rows that remain, and which of them are active, after each kind of step.
LEMMA TendedSets ==
  ASSUME UpdateTypes, Tended
  PROVE  Rows' = Rows /\ ActiveSessions' \subseteq ActiveSessions
  BY DEF Tended, Rows, ActiveSessions

LEMMA CreatedSets ==
  ASSUME UpdateTypes, NEW trigger \in Triggers, NEW delivery \in Deliveries, Created(trigger, delivery)
  PROVE  /\ Rows' = Rows \cup {Len(sessions) + 1}
         /\ ActiveSessions' = {Len(sessions) + 1} /\ ActiveSessions = {}
<1>1. /\ Len(sessions) + 1 \notin DOMAIN sessions
      /\ DOMAIN sessions' = DOMAIN sessions \cup {Len(sessions) + 1}
      /\ sessions'[Len(sessions) + 1] = NewSession(trigger, delivery)
      /\ \A s \in DOMAIN sessions : sessions'[s] = sessions[s]
  BY CreationAppends DEF Created, Triggers, Deliveries
<1>2. NewSession(trigger, delivery).status = "active"
  BY DEF NewSession
<1>3. ActiveSessions = {}
  BY DEF Created, Admissible
<1> HIDE DEF NewSession
<1>4. Rows' = Rows \cup {Len(sessions) + 1}
  BY <1>1, <1>2 DEF Rows
<1>5. ActiveSessions' = {Len(sessions) + 1}
  BY <1>1, <1>2, <1>3, <1>4 DEF ActiveSessions, Rows
<1> QED BY <1>3, <1>4, <1>5

LEMMA SessionInvStep ==
  ASSUME UpdateTypes, SessionInv, [AUNext]_auvars
  PROVE  SessionInv'
<1>1. now \in Nat /\ now' \in Nat /\ now <= now'
  BY ReceiptsStep, NeverLater DEF ClockTypes, UpdateTypes
<1>2. \A s \in DOMAIN sessions : sessions[s].created \in Nat
  BY RowIs DEF SessionRow
<1>3. CASE Tended
  <2>1. \A s \in DOMAIN sessions : (sessions[s].batch # "none") <=> (sessions'[s].batch # "none")
    BY <1>3 DEF Tended, BatchMoves
  <2>2. \A s \in DOMAIN sessions' :
          /\ s \in DOMAIN sessions /\ sessions'[s].delivery = sessions[s].delivery
          /\ sessions'[s].trigger = sessions[s].trigger /\ sessions'[s].created = sessions[s].created
    BY <1>3 DEF Tended
  <2>3. \A s, t \in ActiveSessions' : s = t
    BY <1>3, TendedSets DEF SessionInv
  <2> QED BY <1>1, <1>2, <2>1, <2>2, <2>3 DEF SessionInv
<1>4. CASE \E trigger \in Triggers, delivery \in Deliveries : Created(trigger, delivery)
  <2>1. PICK trigger \in Triggers, delivery \in Deliveries : Created(trigger, delivery)
    BY <1>4
  <2>2. /\ DOMAIN sessions' = DOMAIN sessions \cup {Len(sessions) + 1}
        /\ sessions'[Len(sessions) + 1] = NewSession(trigger, delivery)
        /\ \A s \in DOMAIN sessions : sessions'[s] = sessions[s]
    BY <2>1, CreationAppends DEF Created, Triggers, Deliveries
  <2>3. now' = now /\ (trigger = "scheduler" => delivery = "prepared")
    BY <2>1 DEF Created
  <2>4. /\ NewSession(trigger, delivery).trigger = trigger
        /\ NewSession(trigger, delivery).delivery = delivery
        /\ NewSession(trigger, delivery).created = now
        /\ (delivery = "prepared") <=> (NewSession(trigger, delivery).batch # "none")
    BY DEF NewSession
  <2>5. \A s, t \in ActiveSessions' : s = t
    BY <2>1, CreatedSets
  <2> QED BY <1>1, <2>2, <2>3, <2>4, <2>5 DEF SessionInv
<1>5. CASE FullReset
  <2>1. DOMAIN sessions' = DOMAIN sessions /\ Rows' = {} /\ \A s \in DOMAIN sessions : sessions'[s] = Deleted
    BY <1>5, ResetWipes
  <2>2. ActiveSessions' = {}
    BY <2>1 DEF ActiveSessions
  <2> QED BY <1>1, <2>1, <2>2 DEF SessionInv, Deleted
<1> QED BY <1>3, <1>4, <1>5, SessionsStep

\* Nothing is left, or comes about, before onboarding; a calibration under review
\* and an update exclude each other; a completed calibration is settled.
CalibrationInv == FreshInv /\ NoUpdateUnderReview /\ CalibrationSettled

LEMMA CalibrationStep ==
  ASSUME UpdateTypes, CalibrationInv, [AUNext]_auvars
  PROVE  CalibrationInv'
<1>0. /\ Len(sessions) \in Nat /\ DOMAIN sessions = 1..Len(sessions)
      /\ Len(calibrations) \in Nat /\ DOMAIN calibrations = 1..Len(calibrations)
      /\ DOMAIN calibrations = {} <=> calibrations = << >>
  BY SeqRows DEF UpdateTypes
<1>1. CASE \E trigger \in Triggers, delivery \in Deliveries : Created(trigger, delivery)
  <2>1. PICK trigger \in Triggers, delivery \in Deliveries : Created(trigger, delivery)
    BY <1>1
  <2>2. /\ UNCHANGED <<onboarding, firstRun, calibrations>> /\ onboarding = "completed"
        /\ Reviewing = {} /\ Reviewing' = {}
    BY <2>1 DEF Created, Admissible, Reviewing
  <2> QED BY <2>2 DEF CalibrationInv, FreshInv, NoUpdateUnderReview, CalibrationSettled
<1>2. CASE FullReset
  <2>1. calibrations' = << >> /\ Rows' = {}
    BY <1>2, ResetWipes DEF FullReset
  <2>2. Reviewing' = {} /\ DOMAIN calibrations' = {} /\ Len(calibrations') = 0
    BY <2>1 DEF Reviewing
  <2> QED BY <2>1, <2>2 DEF CalibrationInv, FreshInv, NoUpdateUnderReview, CalibrationSettled
<1>3. CASE Tended
  <2>1. Rows' = Rows /\ ActiveSessions' \subseteq ActiveSessions
    BY <1>3, TendedSets
  <2>2. CASE UNCHANGED <<onboarding, firstRun, calibrations>>
    BY <2>1, <2>2 DEF CalibrationInv, FreshInv, NoUpdateUnderReview, CalibrationSettled, Reviewing
  <2>3. CASE CompleteOnboarding
    <3>1. calibrations = << >> /\ calibrations' = << >> /\ onboarding' = "completed"
      BY <2>3 DEF CompleteOnboarding, CalibrationInv, FreshInv
    <3>2. Reviewing' = {} /\ DOMAIN calibrations' = {} /\ Len(calibrations') = 0
      BY <3>1 DEF Reviewing
    <3> QED BY <3>1, <3>2 DEF CalibrationInv, FreshInv, NoUpdateUnderReview, CalibrationSettled
  <2>4. CASE ResetLearning
    <3>1. calibrations' = << >> /\ onboarding' = onboarding
      BY <2>4 DEF ResetLearning
    <3>2. Reviewing' = {} /\ DOMAIN calibrations' = {} /\ Len(calibrations') = 0
      BY <3>1 DEF Reviewing
    <3> QED BY <2>1, <3>1, <3>2 DEF CalibrationInv, FreshInv, NoUpdateUnderReview, CalibrationSettled
  <2>5. CASE Founded
    <3>1. /\ Len(calibrations') = 1 /\ DOMAIN calibrations' = {1}
          /\ calibrations'[1].status = "reviewing" /\ calibrations'[1].after = Len(sessions)
      BY <2>5, FoundedRow
    <3>2. onboarding' = onboarding /\ Rows # {} /\ sessions' = sessions
      BY <2>5 DEF Founded
    <3>3. \A s \in ActiveSessions' : s <= Len(sessions)
      BY <1>0, <3>2 DEF ActiveSessions, Rows
    <3>4. NoUpdateUnderReview'
      BY <3>1, <3>3 DEF NoUpdateUnderReview, Reviewing
    <3> QED BY <3>1, <3>2, <3>4 DEF CalibrationInv, FreshInv, CalibrationSettled
  <2>6. CASE Decided
    <3>1. /\ Len(calibrations') = Len(calibrations) /\ DOMAIN calibrations' = DOMAIN calibrations
          /\ UNCHANGED <<sessions, onboarding>>
          /\ firstRun' \in {firstRun, "completed"}
          /\ \A c \in DOMAIN calibrations :
               /\ calibrations'[c].after = calibrations[c].after
               /\ \/ calibrations'[c] = calibrations[c]
                  \/ calibrations[c].status = "reviewing" /\ calibrations'[c].status = "reviewing"
                  \/ /\ calibrations'[c].status = "completed" /\ calibrations'[c].resolved = Ordinals
                     /\ firstRun' = "completed"
      BY <2>6, DecidedRow
    <3>2. calibrations # << >>
      BY <1>0, <2>6 DEF Decided
    <3>3. Reviewing' \subseteq Reviewing
      BY <3>1 DEF Reviewing
    <3>4. NoUpdateUnderReview'
      BY <2>1, <3>1, <3>3 DEF CalibrationInv, NoUpdateUnderReview, Reviewing
    <3>5. CalibrationSettled'
      BY <3>1 DEF CalibrationInv, CalibrationSettled
    <3> QED BY <3>1, <3>2, <3>4, <3>5 DEF CalibrationInv, FreshInv
  <2> QED BY <1>2, <2>2, <2>3, <2>4, <2>5, <2>6, CalibrationsStep
<1> QED BY <1>1, <1>2, <1>3, SessionsStep

LEMMA TickStep ==
  ASSUME UpdateTypes, TickInv, TickSpacing, [AUNext]_auvars
  PROVE  TickInv' /\ TickSpacing'
<1>0. /\ Len(receipts) \in Nat /\ DOMAIN receipts = 1..Len(receipts) /\ now \in Nat /\ now' \in Nat
      /\ now <= now' /\ inst' = inst /\ lastTick \in Nat /\ now < Never /\ RefillCadence \in Nat
      /\ receipts' \in Seq(ReceiptRow)
      /\ \A r \in DOMAIN receipts : receipts[r].tick \in Nat
      /\ receipts = << >> <=> Len(receipts) = 0
  <2>1. /\ receipts \in Seq(ReceiptRow) /\ Len(receipts) \in Nat /\ DOMAIN receipts = 1..Len(receipts)
        /\ \A r \in DOMAIN receipts : receipts[r] \in ReceiptRow
    BY SeqRows DEF UpdateTypes
  <2>2. /\ now \in Nat /\ now' \in Nat /\ now <= now' /\ inst' = inst /\ lastTick \in Nat
        /\ now < Never /\ receipts' \in Seq(ReceiptRow)
    BY ReceiptsStep, NeverLater DEF UpdateTypes, ClockTypes
  <2>3. \A r \in DOMAIN receipts : receipts[r].tick \in Nat
    BY <2>1 DEF ReceiptRow
  <2>4. receipts = << >> <=> Len(receipts) = 0
    BY <2>1
  <2> QED BY <2>1, <2>2, <2>3, <2>4, UpdateAssumption
<1>1. CASE UNCHANGED <<lastTick, receipts>>
  <2>1. TickInv'
    BY <1>0, <1>1 DEF TickInv
  <2>2. TickSpacing'
    BY <1>0, <1>1 DEF TickSpacing
  <2> QED BY <2>1, <2>2
<1>2. CASE FullReset
  <2>1. receipts' = << >> /\ Len(receipts') = 0
    BY <1>2 DEF FullReset
  <2> QED BY <2>1 DEF TickInv, TickSpacing
<1>3. CASE \E p \in Callers : PlanTick(p)
  <2>1. PICK p \in Callers : PlanTick(p)
    BY <1>3
  <2>2. /\ Len(receipts') = Len(receipts) + 1
        /\ receipts'[Len(receipts) + 1].tick = now /\ lastTick' = now
        /\ \A r \in DOMAIN receipts : receipts'[r] = receipts[r]
        /\ now' = now
    BY <2>1, PlanTicks
  <2>3. TickInv'
    BY <1>0, <2>2 DEF TickInv
  <2>4. ASSUME inst.mode = "continuous", NEW r \in 1..Len(receipts)
        PROVE  receipts'[r + 1].tick >= receipts'[r].tick + RefillCadence
    <3>1. CASE r = Len(receipts)
      <4>1. lastTick = receipts[r].tick /\ lastTick # Never
        BY <1>0, <3>1, <2>4 DEF TickInv
      <4>2. TickDue(RefillCadence)
        BY <2>1, <2>4 DEF PlanTick
      <4>3. now >= lastTick + RefillCadence
        BY <4>1, <4>2 DEF TickDue
      <4> QED BY <1>0, <2>2, <2>4, <3>1, <4>1, <4>3
    <3>2. CASE r # Len(receipts)
      <4>1. r \in 1..(Len(receipts) - 1) /\ r + 1 \in DOMAIN receipts /\ r \in DOMAIN receipts
        <5>1. ASSUME NEW n \in Nat, r \in 1..n, r # n PROVE r \in 1..(n - 1) /\ r + 1 \in 1..n
          BY <5>1
        <5> QED BY <1>0, <2>4, <3>2, <5>1
      <4> QED BY <2>2, <2>4, <4>1 DEF TickSpacing
    <3> QED BY <3>1, <3>2
  <2>5. TickSpacing'
    <3>1. Len(receipts') - 1 = Len(receipts) /\ inst'.mode = inst.mode
      BY <1>0, <2>2
    <3> QED BY <2>4, <3>1 DEF TickSpacing
  <2> QED BY <2>3, <2>5
<1>4. CASE \E p \in Callers : CompleteTick(p)
  <2>1. /\ Len(receipts') = Len(receipts) /\ UNCHANGED <<inst, now, lastTick>>
        /\ \A r \in DOMAIN receipts : receipts'[r].tick = receipts[r].tick
    BY <1>4, CompletionTicks
  <2>2. receipts' # << >> => Len(receipts') # 0
    BY <1>0, SeqRows
  <2>3. TickInv'
    BY <1>0, <2>1, <2>2 DEF TickInv
  <2>4. TickSpacing'
    <3>1. ASSUME NEW r \in 1..(Len(receipts) - 1)
          PROVE  receipts'[r].tick = receipts[r].tick /\ receipts'[r + 1].tick = receipts[r + 1].tick
      <4>1. r \in DOMAIN receipts /\ r + 1 \in DOMAIN receipts
        BY <1>0
      <4> QED BY <2>1, <4>1
    <3> QED BY <1>0, <2>1, <3>1 DEF TickSpacing
  <2> QED BY <2>3, <2>4
<1> QED BY <1>1, <1>2, <1>3, <1>4, ReceiptsStep

-----------------------------------------------------------------------------
\* The counting.  Held are the batches that are prepared or still can be; every
\* caller past its stoppers may add one.
HeldBatches ==
  {s \in Rows :
     \/ sessions[s].batch = "prepared"
     \/ /\ sessions[s].batch = "preparing"
        /\ \/ sessions[s].status = "active"
           \/ fin.pc \in {"publish", "batch"} /\ fin.s = s}
Automatic == {s \in Rows : sessions[s].delivery = "prepared"}

CountInv ==
  /\ Cardinality(HeldBatches) + Cardinality(Starting) <= PreparedBatchLimit + Cardinality(inst.callers)
  /\ Cardinality(Automatic) + Cardinality(Starting) + 1
       <= baseline.automatic + inst.allowance + Cardinality(inst.callers)
  /\ Starting # {} => inst.allowance >= 1

\* The scheduler's sessions of the window that ends with s.
Window(s) ==
  {t \in Rows : /\ sessions[t].trigger = "scheduler"
                /\ sessions[t].created <= sessions[s].created
                /\ sessions[t].created + GenerationWindow >= sessions[s].created}

\* Past its plan the adaptive loop has room for one session within the window.
WindowInv ==
  inst.mode = "adaptive" =>
    /\ \A s \in Rows : sessions[s].trigger = "scheduler" => Cardinality(Window(s)) <= PreparedBatchLimit
    /\ starter["loop"].pc \in {"stoppers", "start"} => Cardinality(GenerationAttempts) < PreparedBatchLimit

LEMMA RowsFinite ==
  ASSUME UpdateTypes
  PROVE  IsFiniteSet(Rows) /\ \A S \in SUBSET Rows : IsFiniteSet(S) /\ Cardinality(S) \in Nat
<1>1. DOMAIN sessions = 1..Len(sessions) /\ Len(sessions) \in Nat
  BY SeqRows DEF UpdateTypes
<1>2. IsFiniteSet(DOMAIN sessions)
  BY <1>1, FS_Interval
<1>3. IsFiniteSet(Rows)
  BY <1>2, FS_Subset DEF Rows
<1> QED BY <1>3, FS_Subset, FS_CardinalityType

LEMMA CallersFinite ==
  ASSUME UpdateTypes
  PROVE  /\ IsFiniteSet(inst.callers) /\ Cardinality(inst.callers) \in Nat \ {0}
         /\ Starting \subseteq inst.callers /\ IsFiniteSet(Starting) /\ Cardinality(Starting) \in Nat
         /\ Cardinality(Starting) <= Cardinality(inst.callers)
<1>1. IsFiniteSet({"loop"} \cup {"now"} \cup {"retry"})
  BY FS_AddElement, FS_Singleton
<1>2. Callers = {"loop"} \cup {"now"} \cup {"retry"}
  BY DEF Callers
<1>3. inst.callers \subseteq Callers /\ inst.callers # {}
  BY UpdateAssumption DEF UpdateTypes
<1>4. IsFiniteSet(inst.callers)
  BY <1>1, <1>2, <1>3, FS_Subset
<1>5. Starting \subseteq inst.callers
  BY DEF Starting, UpdateTypes
<1>6. Cardinality(inst.callers) \in Nat /\ Cardinality(inst.callers) # 0
  BY <1>3, <1>4, FS_CardinalityType, FS_EmptySet
<1> QED BY <1>4, <1>5, <1>6, FS_Subset, FS_CardinalityType

LEMMA HeldFrame ==
  ASSUME UpdateTypes, Tended,
         \A s \in Rows : sessions'[s].batch = "prepared" => s \in HeldBatches,
         fin'.pc \in {"publish", "batch"} =>
           \/ fin.pc \in {"publish", "batch"} /\ fin.s = fin'.s
           \/ fin'.s \in ActiveSessions
  PROVE  HeldBatches' \subseteq HeldBatches
<1> SUFFICES ASSUME NEW s \in HeldBatches' PROVE s \in HeldBatches
  OBVIOUS
<1>1. s \in Rows /\ s \in DOMAIN sessions
  BY TendedSets DEF HeldBatches, Rows
<1>2. CASE sessions'[s].batch = "prepared"
  BY <1>1, <1>2
<1>3. CASE sessions'[s].batch = "preparing" /\ sessions'[s].status = "active"
  BY <1>1, <1>3 DEF Tended, BatchMoves, HeldBatches
<1>4. CASE sessions'[s].batch = "preparing" /\ fin'.pc \in {"publish", "batch"} /\ fin'.s = s
  BY <1>1, <1>4 DEF Tended, BatchMoves, HeldBatches, ActiveSessions
<1> QED BY <1>2, <1>3, <1>4 DEF HeldBatches

\* Where no batch becomes prepared and the finalization stays, nothing is held anew.
LEMMA HeldQuiet ==
  ASSUME UpdateTypes, Tended, UNCHANGED fin,
         \A s \in Rows : sessions'[s].batch = "prepared" => sessions[s].batch = "prepared"
  PROVE  HeldBatches' \subseteq HeldBatches
<1>1. \A s \in Rows : sessions'[s].batch = "prepared" => s \in HeldBatches
  BY DEF HeldBatches
<1> QED BY <1>1, HeldFrame

LEMMA HeldExpiry ==
  ASSUME UpdateTypes, UNCHANGED fin, ExpireBatches \/ UNCHANGED sessions
  PROVE  HeldBatches' \subseteq HeldBatches
<1>1. CASE ExpireBatches
  <2>1. \A s \in Rows : sessions'[s].batch = "prepared" => sessions[s].batch = "prepared"
    BY <1>1, ExpiryTends DEF Tended, BatchMoves, Rows, Expired, Prepared
  <2> QED BY <1>1, <2>1, ExpiryTends, HeldQuiet
<1>2. CASE UNCHANGED sessions
  BY <1>2, QuietTends, HeldQuiet
<1> QED BY <1>1, <1>2

LEMMA HeldStep ==
  ASSUME UpdateTypes, [AUNext]_auvars
  PROVE  HeldBatches' \subseteq HeldBatches \/ \E p \in Callers : Started(p)
<1>1. CASE UNCHANGED fin /\ (ExpireBatches \/ UNCHANGED sessions)
  BY <1>1, HeldExpiry
<1>2. CASE \E p \in inst.callers : StartPreparedUpdateNow(p) \/ RetryAfterReaderClose(p) \/ PlanTick(p)
  BY <1>1, <1>2 DEF StartPreparedUpdateNow, RetryAfterReaderClose, PlanTick
<1>3. CASE \E p \in Callers : CallerStep(p)
  <2>1. PICK p \in Callers : CheckStoppers(p) \/ StartPrepared(p) \/ CompleteTick(p)
    BY <1>3 DEF CallerStep
  <2>2. CASE CheckStoppers(p) \/ CompleteTick(p)
    BY <1>1, <2>2 DEF CheckStoppers, CompleteTick
  <2>3. CASE StartPrepared(p)
    BY <1>1, <2>3, StartPreparedStarts
  <2> QED BY <2>1, <2>2, <2>3
<1>4. CASE Publish
  <2>1. fin.pc = "publish" /\ fin'.s = fin.s
    BY <1>4 DEF Publish, UpdateTypes, FinRow
  <2>2. \A s \in Rows : sessions'[s].batch = "prepared" => s \in HeldBatches
    BY <1>4, PublishTends DEF HeldBatches, Rows
  <2> QED BY <1>4, <2>1, <2>2, PublishTends, HeldFrame
<1>5. CASE FinishBatch
  <2>1. fin.pc = "batch" /\ fin'.pc = "calibrate"
    BY <1>5 DEF FinishBatch, UpdateTypes, FinRow
  <2>2. \A s \in Rows : sessions'[s].batch = "prepared" => s \in HeldBatches
    BY <1>5, <2>1, FinishTends DEF HeldBatches, Rows
  <2> QED BY <1>5, <2>1, <2>2, FinishTends, HeldFrame
<1>6. CASE CalibrateFinalized
  <2>1. UNCHANGED sessions /\ fin'.pc = "idle"
    BY <1>6 DEF CalibrateFinalized, IdleFin
  <2>2. \A s \in Rows : sessions'[s].batch = "prepared" => s \in HeldBatches
    BY <2>1 DEF HeldBatches
  <2> QED BY <2>1, <2>2, QuietTends, HeldFrame
<1>7. CASE StartVisibleUpdate
  <2>1. PICK trigger \in {"onboarding", "user"} : CreateUpdateSession(trigger, "visible")
    BY <1>7 DEF StartVisibleUpdate
  <2>2. /\ DOMAIN sessions' = DOMAIN sessions \cup {Len(sessions) + 1}
        /\ sessions'[Len(sessions) + 1] = NewSession(trigger, "visible")
        /\ \A s \in DOMAIN sessions : sessions'[s] = sessions[s]
    BY <2>1, CreationAppends
  <2>3. NewSession(trigger, "visible").batch = "none"
    BY DEF NewSession
  <2>4. UNCHANGED fin
    BY <1>7 DEF StartVisibleUpdate
  <2> QED BY <2>2, <2>3, <2>4 DEF HeldBatches, Rows
<1>8. CASE \E s \in DOMAIN sessions :
         Compose(s) \/ CancelSession(s) \/ RevealPreparedBatch(s) \/ StartCalibration(s)
  <2>1. PICK s \in DOMAIN sessions :
          Compose(s) \/ CancelSession(s) \/ RevealPreparedBatch(s) \/ StartCalibration(s)
    BY <1>8
  <2>2. CASE Compose(s)
    <3>1. fin'.s = s /\ s \in ActiveSessions
      BY <2>2 DEF Compose
    <3>2. \A t \in Rows : sessions'[t].batch = "prepared" => t \in HeldBatches
      BY <2>1, <2>2, ComposeTends DEF HeldBatches, Rows
    <3> QED BY <2>1, <2>2, <3>1, <3>2, ComposeTends, HeldFrame
  <2>3. CASE CancelSession(s)
    <3>1. \A t \in Rows : sessions'[t].batch = "prepared" => sessions[t].batch = "prepared"
      BY <2>1, <2>3, CancelTends DEF Rows
    <3> QED BY <2>1, <2>3, <3>1, CancelTends, HeldQuiet DEF CancelSession
  <2>4. CASE RevealPreparedBatch(s)
    <3>1. Reveal(s) /\ UNCHANGED fin
      BY <2>4 DEF RevealPreparedBatch
    <3>2. \A t \in Rows : sessions'[t].batch = "prepared" => sessions[t].batch = "prepared"
      BY <2>1, <3>1, RevealTends DEF Rows
    <3> QED BY <2>1, <3>1, <3>2, RevealTends, HeldQuiet
  <2>5. CASE StartCalibration(s)
    BY <1>1, <2>5 DEF StartCalibration
  <2> QED BY <2>1, <2>2, <2>3, <2>4, <2>5
<1>9. CASE \/ CalibrationOverview \/ CompleteOnboarding
           \/ (\E c \in DOMAIN calibrations, o \in Ordinals : DecideCalibration(c, o))
           \/ RecordUIAccess \/ AutoUpdateStatus \/ ConfirmUsageRestored
           \/ ResetDailyQuota \/ ResetLearning \/ Advance \/ UNCHANGED auvars
  BY <1>1, <1>9 DEF CalibrationOverview, CompleteOnboarding, DecideCalibration, RecordUIAccess,
                   AutoUpdateStatus, ConfirmUsageRestored, ResetDailyQuota, ResetLearning, Advance, auvars
<1>10. CASE FullReset
  BY <1>10, ResetWipes DEF HeldBatches
<1>11. CASE Crash
  <2>1. UNCHANGED sessions /\ fin'.pc = "idle"
    BY <1>11 DEF Crash, IdleFin
  <2>2. \A s \in Rows : sessions'[s].batch = "prepared" => s \in HeldBatches
    BY <2>1 DEF HeldBatches
  <2> QED BY <2>1, <2>2, QuietTends, HeldFrame
<1> QED BY <1>2, <1>3, <1>4, <1>5, <1>6, <1>7, <1>8, <1>9, <1>10, <1>11 DEF AUNext, FinStep

LEMMA BaselineStep ==
  ASSUME [AUNext]_auvars
  PROVE  UNCHANGED baseline \/ ResetDailyQuota \/ FullReset
<1>1. CASE \E p \in inst.callers : StartPreparedUpdateNow(p) \/ RetryAfterReaderClose(p) \/ PlanTick(p)
  BY <1>1 DEF StartPreparedUpdateNow, RetryAfterReaderClose, PlanTick
<1>2. CASE \E p \in Callers : CallerStep(p)
  BY <1>2 DEF CallerStep, CheckStoppers, StartPrepared, CompleteTick
<1>3. CASE FinStep \/ StartVisibleUpdate \/ CalibrationOverview \/ CompleteOnboarding
  BY <1>3 DEF FinStep, Publish, FinishBatch, CalibrateFinalized, StartVisibleUpdate,
             CalibrationOverview, CompleteOnboarding
<1>4. CASE \E s \in DOMAIN sessions :
         Compose(s) \/ CancelSession(s) \/ RevealPreparedBatch(s) \/ StartCalibration(s)
  BY <1>4 DEF Compose, CancelSession, RevealPreparedBatch, StartCalibration
<1>5. CASE \/ (\E c \in DOMAIN calibrations, o \in Ordinals : DecideCalibration(c, o))
           \/ RecordUIAccess \/ AutoUpdateStatus \/ ConfirmUsageRestored \/ ResetLearning
           \/ Advance \/ Crash \/ UNCHANGED auvars
  BY <1>5 DEF DecideCalibration, RecordUIAccess, AutoUpdateStatus, ConfirmUsageRestored,
             ResetLearning, Advance, Crash, auvars
<1> QED BY <1>1, <1>2, <1>3, <1>4, <1>5 DEF AUNext

\* A step creates automatic sessions by Started only.
LEMMA AutomaticStep ==
  ASSUME UpdateTypes, [AUNext]_auvars
  PROVE  /\ Automatic' \subseteq Automatic \/ \E p \in Callers : Started(p)
         /\ \A p \in Callers : Started(p) =>
              /\ HeldBatches' = HeldBatches \cup {Len(sessions) + 1}
              /\ Automatic' = Automatic \cup {Len(sessions) + 1}
<1>1. ASSUME NEW trigger \in Triggers, NEW delivery \in Deliveries, Created(trigger, delivery)
      PROVE  Automatic' = IF delivery = "prepared" THEN Automatic \cup {Len(sessions) + 1} ELSE Automatic
  <2>1. /\ DOMAIN sessions' = DOMAIN sessions \cup {Len(sessions) + 1}
        /\ sessions'[Len(sessions) + 1] = NewSession(trigger, delivery)
        /\ \A s \in DOMAIN sessions : sessions'[s] = sessions[s]
    BY <1>1, CreationAppends DEF Created, Triggers, Deliveries
  <2>2. Rows' = Rows \cup {Len(sessions) + 1}
    BY <1>1, CreatedSets
  <2>3. NewSession(trigger, delivery).delivery = delivery
    BY DEF NewSession
  <2> QED BY <2>1, <2>2, <2>3 DEF Automatic, Rows
<1>2. ASSUME NEW p \in Callers, Started(p)
      PROVE  /\ HeldBatches' = HeldBatches \cup {Len(sessions) + 1}
             /\ Automatic' = Automatic \cup {Len(sessions) + 1}
  <2>1. PICK trigger \in Triggers : Created(trigger, "prepared")
    BY <1>2 DEF Started
  <2>2. /\ DOMAIN sessions' = DOMAIN sessions \cup {Len(sessions) + 1}
        /\ sessions'[Len(sessions) + 1] = NewSession(trigger, "prepared")
        /\ \A s \in DOMAIN sessions : sessions'[s] = sessions[s]
    BY <2>1, CreationAppends DEF Created, Triggers
  <2>3. /\ NewSession(trigger, "prepared").batch = "preparing"
        /\ NewSession(trigger, "prepared").status = "active"
    BY DEF NewSession
  <2>4. Rows' = Rows \cup {Len(sessions) + 1} /\ UNCHANGED fin
    BY <1>2, <2>1, CreatedSets DEF Deliveries, Started
  <2>5. \A s \in Rows : s \in DOMAIN sessions
    BY DEF Rows
  <2>6. HeldBatches' = HeldBatches \cup {Len(sessions) + 1}
    BY <2>2, <2>3, <2>4, <2>5 DEF HeldBatches
  <2> QED BY <1>1, <2>1, <2>6 DEF Deliveries
<1>3. CASE Tended
  BY <1>2, <1>3, TendedSets DEF Tended, Automatic, Rows
<1>4. CASE FullReset
  BY <1>2, <1>4, ResetWipes DEF Automatic
<1>5. CASE \E trigger \in Triggers, delivery \in Deliveries : Created(trigger, delivery)
  <2>1. PICK trigger \in Triggers, delivery \in Deliveries : Created(trigger, delivery)
    BY <1>5
  <2>2. CASE delivery = "visible"
    BY <1>1, <1>2, <2>1, <2>2
  <2>3. CASE delivery = "prepared"
    <3>1. CASE HeldBatches' \subseteq HeldBatches
      <4>1. /\ sessions'[Len(sessions) + 1] = NewSession(trigger, "prepared")
            /\ Rows' = Rows \cup {Len(sessions) + 1}
            /\ Len(sessions) + 1 \notin DOMAIN sessions
        BY <2>1, <2>3, CreationAppends, CreatedSets DEF Created, Triggers, Deliveries
      <4>2. /\ NewSession(trigger, "prepared").batch = "preparing"
            /\ NewSession(trigger, "prepared").status = "active"
        BY DEF NewSession
      <4>3. Len(sessions) + 1 \in HeldBatches'
        BY <4>1, <4>2 DEF HeldBatches
      <4> QED BY <3>1, <4>1, <4>3 DEF HeldBatches, Rows
    <3> QED BY <1>2, <3>1, HeldStep
  <2> QED BY <2>1, <2>2, <2>3 DEF Deliveries
<1> QED BY <1>2, <1>3, <1>4, <1>5, SessionsStep

LEMMA OneMore ==
  ASSUME NEW S, NEW x, IsFiniteSet(S)
  PROVE  /\ IsFiniteSet(S \cup {x}) /\ Cardinality(S \cup {x}) \in Nat
         /\ Cardinality(S) \in Nat /\ Cardinality(S \cup {x}) <= Cardinality(S) + 1
<1>1. Cardinality(S) \in Nat
  BY FS_CardinalityType
<1> QED BY <1>1, FS_AddElement

LEMMA SumBound ==
  ASSUME NEW a \in Nat, NEW b \in Nat, NEW c \in Nat, NEW d \in Nat, NEW x \in Nat, NEW y \in Nat,
         a + b <= c + d, c + d <= x + y
  PROVE  a + b <= x + y
  OBVIOUS

LEMMA SumFalls ==
  \A x, y, x1, y1 \in Nat :
    (x1 <= x /\ y1 <= y) \/ (x1 <= x + 1 /\ y1 = y - 1) => x1 + y1 <= x + y
  OBVIOUS

LEMMA CountStep ==
  ASSUME UpdateTypes, CountInv, [AUNext]_auvars
  PROVE  CountInv'
<1> DEFINE C == Cardinality(inst.callers)
           B == Cardinality(HeldBatches)
           A == Cardinality(Automatic)
           K == Cardinality(Starting)
<1>1. inst' = inst /\ UpdateTypes'
  BY TypesStep, ReceiptsStep DEF ClockTypes
<1>2. /\ IsFiniteSet(HeldBatches) /\ B \in Nat /\ IsFiniteSet(Automatic) /\ A \in Nat
      /\ HeldBatches \subseteq Rows /\ Automatic \subseteq Rows
  BY RowsFinite DEF HeldBatches, Automatic
<1>3. IsFiniteSet(Starting) /\ K \in Nat /\ C \in Nat \ {0} /\ K <= C
  BY CallersFinite
<1>4. /\ Starting' \subseteq inst.callers /\ IsFiniteSet(Starting') /\ K' \in Nat /\ K' <= C
  <2>1. Starting' \subseteq inst.callers
    BY <1>1, StarterStep DEF Starting, StarterTypes
  <2> QED BY <2>1, CallersFinite, FS_Subset, FS_CardinalityType
<1>5. /\ PreparedBatchLimit \in Nat \ {0} /\ inst.allowance \in Nat /\ baseline.automatic \in Nat
  BY UpdateAssumption DEF UpdateTypes
<1>6. /\ B + K <= PreparedBatchLimit + C /\ A + K + 1 <= baseline.automatic + inst.allowance + C
      /\ Starting # {} => inst.allowance >= 1
  BY DEF CountInv
<1>7. K = 0 <=> Starting = {}
  BY <1>3, FS_EmptySet
<1>8. SUFFICES /\ B' + K' <= PreparedBatchLimit + C
               /\ A' + K' + 1 <= baseline'.automatic + inst.allowance + C
               /\ Starting' # {} => inst.allowance >= 1
  BY <1>1 DEF CountInv
<1>9. CASE \E p \in Callers : Started(p)
  <2>1. PICK p \in Callers : Started(p)
    BY <1>9
  <2>2. /\ HeldBatches' = HeldBatches \cup {Len(sessions) + 1}
        /\ Automatic' = Automatic \cup {Len(sessions) + 1}
        /\ Starting' = Starting \ {p} /\ p \in Starting /\ baseline' = baseline
    BY <2>1, AutomaticStep DEF Started, Starting
  <2>3. B' \in Nat /\ B' <= B + 1 /\ A' \in Nat /\ A' <= A + 1
    BY <1>2, <2>2, OneMore
  <2>4. K' = K - 1
    BY <1>3, <2>2, FS_RemoveElement
  <2>5. baseline'.automatic = baseline.automatic /\ Starting # {}
    BY <2>2
  <2>6. B' + K' <= PreparedBatchLimit + C
    <3>1. PreparedBatchLimit \in Nat /\ C \in Nat /\ K \in Nat /\ B \in Nat /\ B + K <= PreparedBatchLimit + C
      BY <1>2, <1>3, <1>5, <1>6
    <3>2. B' \in Nat /\ B' <= B + 1 /\ K' = K - 1
      BY <2>3, <2>4
    <3>3. B' + K' <= B + K
      BY <1>4, <3>1, <3>2, SumFalls
    <3>4. K' \in Nat
      BY <1>4
    <3> QED BY <3>1, <3>2, <3>3, <3>4, SumBound
  <2>7. A' + K' + 1 <= baseline'.automatic + inst.allowance + C
    <3> HIDE DEF B, A, K, C
    <3> QED BY <1>2, <1>3, <1>5, <1>6, <2>3, <2>4, <2>5
  <2> QED BY <1>6, <2>5, <2>6, <2>7
<1>10. CASE ~\E p \in Callers : Started(p)
  <2>1. HeldBatches' \subseteq HeldBatches /\ Automatic' \subseteq Automatic
    BY <1>10, HeldStep, AutomaticStep
  <2>2. B' \in Nat /\ B' <= B /\ A' \in Nat /\ A' <= A
    BY <1>2, <2>1, FS_Subset, FS_CardinalityType
  <2>3. CASE Starting' \subseteq Starting
    <3>1. K' <= K /\ (Starting' # {} => Starting # {})
      BY <1>3, <2>3, FS_Subset
    <3>0. B' + K' <= PreparedBatchLimit + C
      <4>1. PreparedBatchLimit \in Nat /\ C \in Nat /\ K \in Nat /\ B \in Nat /\ B + K <= PreparedBatchLimit + C
        BY <1>2, <1>3, <1>5, <1>6
      <4>2. B' \in Nat /\ B' <= B /\ K' \in Nat /\ K' <= K
        BY <1>4, <2>2, <3>1
      <4>3. B' + K' <= B + K
        BY <4>1, <4>2, SumFalls
      <4> QED BY <4>1, <4>2, <4>3, SumBound
    <3>2. CASE UNCHANGED baseline
      <4>1. baseline'.automatic = baseline.automatic
        BY <3>2
      <4> HIDE DEF B, A, K, C
      <4>2. A' + K' + 1 <= baseline'.automatic + inst.allowance + C
        BY <1>2, <1>3, <1>4, <1>5, <1>6, <2>2, <3>1, <4>1
      <4> QED BY <1>6, <3>0, <3>1, <4>2
    <3>3. ASSUME A' <= baseline'.automatic, baseline'.automatic \in Nat
          PROVE  A' + K' + 1 <= baseline'.automatic + inst.allowance + C
      <4>1. K' + 1 <= inst.allowance + C
        <5> HIDE DEF B, A, K, C
        <5> QED BY <1>3, <1>4, <1>5, <1>6, <1>7, <3>1
      <4> HIDE DEF B, A, K, C
      <4> QED BY <1>3, <1>4, <1>5, <2>2, <3>3, <4>1
    <3>4. CASE ResetDailyQuota
      <4>1. ActiveSessions = {} /\ baseline' = DailyTokenUsage
        BY <3>4 DEF ResetDailyQuota, RequireIdle, ResetQuota
      <4>2. Ended = Rows
        BY <4>1 DEF Ended
      <4>3. baseline'.automatic = A
        BY <4>1, <4>2 DEF DailyTokenUsage, Automatic
      <4>4. A' <= baseline'.automatic /\ baseline'.automatic \in Nat
        BY <1>2, <2>2, <4>3
      <4> HIDE DEF B, A, K, C
      <4> QED BY <1>6, <3>0, <3>1, <3>3, <4>4
    <3>5. CASE FullReset
      <4>1. Automatic' = {} /\ baseline'.automatic = 0
        BY <3>5, ResetWipes DEF Automatic, FullReset
      <4>2. A' = 0
        BY <4>1, FS_EmptySet
      <4>3. A' <= baseline'.automatic /\ baseline'.automatic \in Nat
        BY <4>1, <4>2
      <4> HIDE DEF B, A, K, C
      <4> QED BY <1>6, <3>0, <3>1, <3>3, <4>3
    <3> QED BY <3>2, <3>4, <3>5, BaselineStep
  <2>4. CASE ~(Starting' \subseteq Starting)
    <3>1. PICK q \in Callers : CheckStoppers(q) /\ ~Stopped /\ WithinBudget
      BY <2>4, StarterStep DEF Starting
    <3>2. /\ ActiveSessions = {} /\ Cardinality(PreparedBatches) < PreparedBatchLimit
          /\ Cardinality(PreparedBatches) \in Nat /\ IsFiniteSet(PreparedBatches)
      <4>1. PreparedBatches \subseteq Rows
        BY DEF PreparedBatches, Prepared
      <4>2. Cardinality(PreparedBatches) \in Nat /\ IsFiniteSet(PreparedBatches)
        BY <4>1, RowsFinite
      <4>3. ActiveSessions = {} /\ ~(Cardinality(PreparedBatches) >= PreparedBatchLimit)
        BY <3>1 DEF Stopped
      <4> QED BY <1>5, <4>2, <4>3
    <3>3. ExpireBatches /\ UNCHANGED <<fin, baseline>>
      BY <3>1 DEF CheckStoppers
    <3>4. HeldBatches' \subseteq PreparedBatches \cup {fin.s}
      <4> SUFFICES ASSUME NEW s \in HeldBatches', s # fin.s PROVE s \in PreparedBatches
        OBVIOUS
      <4>1. /\ s \in Rows /\ s \in DOMAIN sessions
            /\ sessions'[s] = IF s \in Expired THEN [sessions[s] EXCEPT !.batch = "expired"] ELSE sessions[s]
        BY <3>3, ExpiryTends, TendedSets DEF HeldBatches, Rows
      <4>2. s \notin ActiveSessions' /\ s \in Rows'
        BY <3>2, <3>3, ExpiryTends, TendedSets DEF HeldBatches
      <4>3. sessions'[s].batch = "prepared"
        BY <3>3, <4>2 DEF HeldBatches, ActiveSessions
      <4>4. sessions[s] \in SessionRow
        BY <4>1, RowIs
      <4>5. s \notin Expired
        BY <4>1, <4>3, <4>4 DEF SessionRow
      <4> QED BY <4>1, <4>3, <4>5 DEF PreparedBatches, Prepared
    <3>5. B' <= PreparedBatchLimit
      <4>1. /\ IsFiniteSet(PreparedBatches \cup {fin.s})
            /\ Cardinality(PreparedBatches \cup {fin.s}) \in Nat
            /\ Cardinality(PreparedBatches \cup {fin.s}) <= Cardinality(PreparedBatches) + 1
        BY <3>2, FS_AddElement, FS_CardinalityType
      <4>2. B' <= Cardinality(PreparedBatches \cup {fin.s})
        BY <3>4, <4>1, FS_Subset
      <4> HIDE DEF B
      <4> QED BY <1>5, <2>2, <3>2, <4>1, <4>2
    <3>6. A + 1 <= baseline.automatic + inst.allowance /\ inst.allowance >= 1
      <4>1. Ended = Rows
        BY <3>2 DEF Ended
      <4>2. DailyTokenUsage["automatic"] = A
        BY <4>1 DEF DailyTokenUsage, Automatic
      <4>3. (IF A > baseline["automatic"] THEN A - baseline["automatic"] ELSE 0) + 1 <= inst.allowance
        BY <3>1, <4>2 DEF WithinBudget, Quota, EstimatedTokens
      <4>4. baseline["automatic"] = baseline.automatic
        OBVIOUS
      <4> HIDE DEF A
      <4> QED BY <1>2, <1>5, <4>3, <4>4
    <3> HIDE DEF B, A, K, C
    <3> QED BY <1>2, <1>3, <1>4, <1>5, <2>2, <3>3, <3>5, <3>6
  <2> QED BY <2>3, <2>4
<1> QED BY <1>9, <1>10

-----------------------------------------------------------------------------
\* The window of the adaptive scheduler.
LEMMA WindowStep ==
  ASSUME UpdateTypes, SessionInv, WindowInv, [AUNext]_auvars
  PROVE  WindowInv'
<1>1. /\ inst' = inst /\ now \in Nat /\ now' \in Nat /\ now <= now'
      /\ GenerationWindow \in Nat /\ PreparedBatchLimit \in Nat \ {0}
  BY ReceiptsStep, NeverLater, UpdateAssumption DEF ClockTypes, UpdateTypes
<1>2. \A s \in DOMAIN sessions : sessions[s].created \in Nat /\ sessions[s].created <= now
  BY RowIs DEF SessionRow, SessionInv
<1>3. \A s \in Rows : s \in DOMAIN sessions
  BY DEF Rows
<1>4. SUFFICES ASSUME inst.mode = "adaptive" PROVE WindowInv'
  BY <1>1 DEF WindowInv
<1>5. /\ \A s \in Rows : sessions[s].trigger = "scheduler" => Cardinality(Window(s)) <= PreparedBatchLimit
      /\ starter["loop"].pc \in {"stoppers", "start"} => Cardinality(GenerationAttempts) < PreparedBatchLimit
  BY <1>4 DEF WindowInv
<1>6. IsFiniteSet(GenerationAttempts) /\ Cardinality(GenerationAttempts) \in Nat
      /\ GenerationAttempts \subseteq Rows
  BY RowsFinite DEF GenerationAttempts
<1>7. ASSUME GenerationAttempts' \subseteq GenerationAttempts,
             starter'["loop"].pc \in {"stoppers", "start"}
      PROVE  Cardinality(GenerationAttempts') < PreparedBatchLimit
  <2>1. Cardinality(GenerationAttempts) < PreparedBatchLimit
    <3>1. CASE starter["loop"].pc \in {"stoppers", "start"}
      BY <1>5, <3>1
    <3>2. CASE PlanTick("loop")
      BY <1>4, <3>2 DEF PlanTick, AdaptiveEligible, AdaptiveOpen
    <3> QED BY <1>7, <3>1, <3>2, StarterStep DEF Callers
  <2> QED BY <1>1, <1>6, <1>7, <2>1, FS_Subset, FS_CardinalityType
<1>8. CASE Tended
  <2>1. Rows' = Rows /\ \A s \in Rows : /\ sessions'[s].trigger = sessions[s].trigger
                                       /\ sessions'[s].created = sessions[s].created
                                       /\ sessions'[s].delivery = sessions[s].delivery
    BY <1>3, <1>8, TendedSets DEF Tended
  <2>2. \A s \in Rows : Window(s)' = Window(s)
    BY <2>1 DEF Window
  <2>3. GenerationAttempts' \subseteq GenerationAttempts
    BY <1>1, <1>2, <1>3, <2>1 DEF GenerationAttempts
  <2> QED BY <1>5, <1>7, <2>1, <2>2, <2>3 DEF WindowInv
<1>9. CASE FullReset
  <2>1. Rows' = {}
    BY <1>9, ResetWipes
  <2>2. GenerationAttempts' = {}
    BY <2>1 DEF GenerationAttempts
  <2> QED BY <1>7, <2>1, <2>2 DEF WindowInv
<1>10. CASE \E trigger \in Triggers, delivery \in Deliveries : Created(trigger, delivery)
  <2>1. PICK trigger \in Triggers, delivery \in Deliveries : Created(trigger, delivery)
    BY <1>10
  <2> DEFINE n == Len(sessions) + 1
  <2>2. /\ n \notin DOMAIN sessions /\ sessions'[n] = NewSession(trigger, delivery)
        /\ \A s \in DOMAIN sessions : sessions'[s] = sessions[s]
    BY <2>1, CreationAppends DEF Created, Triggers, Deliveries
  <2>3. Rows' = Rows \cup {n} /\ n \notin Rows /\ now' = now
    BY <1>3, <2>1, <2>2, CreatedSets DEF Created
  <2>4. /\ sessions'[n].trigger = trigger /\ sessions'[n].delivery = delivery
        /\ sessions'[n].created = now
    BY <2>2 DEF NewSession
  <2> HIDE DEF n
  <2>5. CASE trigger # "scheduler"
    <3>1. \A s \in Rows : Window(s)' = Window(s)
      BY <1>3, <2>2, <2>3, <2>4, <2>5 DEF Window
    <3>2. GenerationAttempts' \subseteq GenerationAttempts
      BY <1>3, <2>2, <2>3, <2>4, <2>5 DEF GenerationAttempts
    <3>3. \A s \in Rows' : sessions'[s].trigger = "scheduler" => s \in Rows /\ sessions[s].trigger = "scheduler"
      BY <1>3, <2>2, <2>3, <2>4, <2>5
    <3> QED BY <1>5, <1>7, <3>1, <3>2, <3>3 DEF WindowInv
  <2>6. CASE trigger = "scheduler"
    <3>1. /\ starter["loop"].pc = "start" /\ starter'["loop"].pc \notin {"stoppers", "start"}
      BY <2>1, <2>6 DEF Created
    <3>2. Cardinality(GenerationAttempts) < PreparedBatchLimit
      BY <1>5, <3>1
    <3>3. /\ IsFiniteSet(GenerationAttempts \cup {n})
          /\ Cardinality(GenerationAttempts \cup {n}) \in Nat
          /\ Cardinality(GenerationAttempts \cup {n}) <= PreparedBatchLimit
      <4> DEFINE G == GenerationAttempts
      <4>1. /\ IsFiniteSet(G \cup {n}) /\ Cardinality(G \cup {n}) \in Nat
            /\ Cardinality(G) \in Nat /\ Cardinality(G \cup {n}) <= Cardinality(G) + 1
        BY <1>6, OneMore
      <4>2. PreparedBatchLimit \in Nat /\ Cardinality(G) < PreparedBatchLimit
        BY <1>1, <3>2
      <4> HIDE DEF G
      <4>3. Cardinality(G \cup {n}) <= PreparedBatchLimit
        BY <4>1, <4>2
      <4> QED BY <4>1, <4>3 DEF G
    <3>4. ASSUME NEW s \in Rows', sessions'[s].trigger = "scheduler"
          PROVE  Cardinality(Window(s)') <= PreparedBatchLimit
      <4>1. CASE sessions'[s].created = now
        <5>1. Window(s)' \subseteq GenerationAttempts \cup {n}
          <6> SUFFICES ASSUME NEW t \in Window(s)', t # n PROVE t \in GenerationAttempts
            OBVIOUS
          <6>1. t \in Rows /\ t \in DOMAIN sessions /\ sessions'[t] = sessions[t]
            BY <1>3, <2>2, <2>3 DEF Window
          <6>2. sessions[t].trigger = "scheduler" /\ sessions[t].created + GenerationWindow >= now
            BY <4>1, <6>1 DEF Window
          <6> QED BY <6>1, <6>2 DEF GenerationAttempts, SessionInv
        <5> QED BY <1>1, <3>3, <5>1, FS_Subset, FS_CardinalityType
      <4>2. CASE sessions'[s].created # now
        <5>1. s \in Rows /\ s \in DOMAIN sessions /\ sessions'[s] = sessions[s]
          BY <1>3, <2>2, <2>3, <2>4, <4>2
        <5>2. sessions[s].created < now /\ sessions[s].created \in Nat
          BY <1>1, <1>2, <4>2, <5>1
        <5>3. ~(sessions'[n].created <= sessions'[s].created)
          BY <1>1, <2>4, <5>1, <5>2
        <5>4. Window(s)' = Window(s)
          BY <1>3, <2>2, <2>3, <5>1, <5>3 DEF Window
        <5> QED BY <1>5, <3>4, <5>1, <5>4
      <4> QED BY <4>1, <4>2
    <3> QED BY <3>1, <3>4 DEF WindowInv
  <2> QED BY <2>5, <2>6
<1> QED BY <1>8, <1>9, <1>10, SessionsStep

-----------------------------------------------------------------------------
UpdateInv ==
  UpdateTypes /\ SessionInv /\ CalibrationInv /\ TickInv /\ TickSpacing /\ CountInv /\ WindowInv

LEMMA UpdateInit == AUInit => UpdateInv
<1> SUFFICES ASSUME AUInit PROVE UpdateInv
  OBVIOUS
<1>1. UpdateTypes
  BY UpdateInitTypes
<1>2. sessions = << >> /\ calibrations = << >> /\ receipts = << >>
  BY DEF AUInit
<1>3. DOMAIN sessions = {} /\ DOMAIN calibrations = {} /\ Len(calibrations) = 0 /\ Len(receipts) = 0
  BY <1>2
<1>4. Rows = {} /\ ActiveSessions = {} /\ Reviewing = {}
  BY <1>3 DEF Rows, ActiveSessions, Reviewing
<1>5. SessionInv
  BY <1>3, <1>4 DEF SessionInv
<1>6. CalibrationInv
  BY <1>2, <1>3, <1>4 DEF CalibrationInv, FreshInv, NoUpdateUnderReview, CalibrationSettled
<1>7. TickInv /\ TickSpacing
  BY <1>2, <1>3 DEF TickInv, TickSpacing
<1>8. \A p \in Callers : starter[p].pc = "idle"
  BY DEF AUInit, IdleStarter
<1>9. CountInv
  <2>1. HeldBatches = {} /\ Automatic = {} /\ Starting = {}
    BY <1>4, <1>8 DEF HeldBatches, Automatic, Starting
  <2>2. Cardinality(HeldBatches) = 0 /\ Cardinality(Automatic) = 0 /\ Cardinality(Starting) = 0
    BY <2>1, FS_EmptySet
  <2>3. /\ Cardinality(inst.callers) \in Nat \ {0} /\ inst.allowance \in Nat
        /\ PreparedBatchLimit \in Nat /\ baseline.automatic = 0
    BY <1>1, CallersFinite, UpdateAssumption DEF UpdateTypes, AUInit
  <2> QED BY <2>1, <2>2, <2>3 DEF CountInv
<1>10. WindowInv
  BY <1>4, <1>8 DEF WindowInv, Callers
<1> QED BY <1>1, <1>5, <1>6, <1>7, <1>9, <1>10 DEF UpdateInv

\* UpdateInv is an invariant: what callers between their checks and their start
\* may still add is accounted for, through resets and crashes.
THEOREM UpdateInvariant == AUSpec => []UpdateInv
<1>1. UpdateInv /\ [AUNext]_auvars => UpdateInv'
  BY TypesStep, SessionInvStep, CalibrationStep, TickStep, CountStep, WindowStep DEF UpdateInv
<1> QED BY <1>1, UpdateInit, PTL DEF AUSpec

\* One update is active at a time, and callers that check the limits without a lock
\* exceed them by no more than their own number (startAutoUpdateMode, startSession,
\* nextScheduledAutoUpdateTick, buildAdaptiveUpdatePlan).
THEOREM UpdatesLimited == AUSpec => []UpdateLimits
<1>1. ASSUME UpdateInv PROVE UpdateLimits
  <2>0. UpdateTypes /\ SessionInv /\ TickSpacing /\ CountInv /\ WindowInv
    BY <1>1 DEF UpdateInv
  <2>1. AUTypeOK
    <3>1. ASSUME NEW s \in DOMAIN sessions
          PROVE  /\ sessions[s].status \in {"active", "completed", "partial", "failed", "cancelled", "deleted"}
                 /\ sessions[s].batch \in {"none", "preparing", "prepared", "visible", "expired"}
                 /\ (sessions[s].delivery = "prepared") <=> (sessions[s].batch # "none")
      BY <2>0, RowIs DEF SessionRow, Statuses, Batches, SessionInv
    <3>2. \A r \in DOMAIN receipts : receipts[r] \in ReceiptRow
      BY <2>0, SeqRows DEF UpdateTypes
    <3>3. \A r \in DOMAIN receipts : receipts[r].outcome \in {"checking", "started", "skipped"}
      BY <3>2 DEF ReceiptRow
    <3>4. \A p \in Callers : starter[p].pc \in {"idle", "stoppers", "start", "started", "skipped"}
      BY <2>0 DEF UpdateTypes, StarterRow
    <3> QED BY <2>0, <3>1, <3>3, <3>4 DEF AUTypeOK, UpdateTypes
  <2>2. OneActiveUpdate
    <3>1. ActiveSessions \subseteq Rows
      BY DEF ActiveSessions
    <3>2. CASE ActiveSessions = {}
      BY <3>2, FS_EmptySet DEF OneActiveUpdate
    <3>3. CASE ActiveSessions # {}
      <4>1. PICK s \in ActiveSessions : TRUE
        BY <3>3
      <4>2. ActiveSessions = {s}
        BY <2>0, <4>1 DEF SessionInv
      <4>3. Cardinality({s}) = 1
        BY FS_Singleton
      <4> QED BY <4>2, <4>3 DEF OneActiveUpdate
    <3> QED BY <3>2, <3>3
  <2>3. /\ IsFiniteSet(HeldBatches) /\ Cardinality(HeldBatches) \in Nat
        /\ IsFiniteSet(Automatic) /\ Cardinality(Automatic) \in Nat
        /\ Cardinality(Starting) \in Nat /\ Cardinality(inst.callers) \in Nat \ {0}
        /\ PreparedBatchLimit \in Nat /\ inst.allowance \in Nat /\ baseline.automatic \in Nat
    BY <2>0, RowsFinite, CallersFinite, UpdateAssumption DEF HeldBatches, Automatic, UpdateTypes
  <2>4. PreparedBounded
    <3>1. Prepared \subseteq HeldBatches
      BY DEF Prepared, HeldBatches
    <3>2. Cardinality(Prepared) <= Cardinality(HeldBatches) /\ Cardinality(Prepared) \in Nat
      BY <2>3, <3>1, FS_Subset, FS_CardinalityType
    <3>3. Cardinality(HeldBatches) + Cardinality(Starting) <= PreparedBatchLimit + Cardinality(inst.callers)
      BY <2>0 DEF CountInv
    <3>4. \A a, b, c, x \in Nat : a <= b /\ b + c <= x => a <= x
      OBVIOUS
    <3> QED BY <2>3, <3>2, <3>3, <3>4 DEF PreparedBounded
  <2>5. AutomaticBounded
    <3> DEFINE D == {s \in Ended : sessions[s].delivery = "prepared"}
    <3>1. D \subseteq Automatic
      BY DEF Automatic, Ended
    <3>2. Cardinality(D) <= Cardinality(Automatic) /\ Cardinality(D) \in Nat
      BY <2>3, <3>1, FS_Subset, FS_CardinalityType
    <3>3. Cardinality(Automatic) + Cardinality(Starting) + 1
            <= baseline.automatic + inst.allowance + Cardinality(inst.callers)
      BY <2>0 DEF CountInv
    <3>4. DailyTokenUsage["automatic"] = Cardinality(D) /\ baseline["automatic"] = baseline.automatic
      BY DEF DailyTokenUsage
    <3>5. Quota("automatic") = IF Cardinality(D) > baseline.automatic
                               THEN Cardinality(D) - baseline.automatic ELSE 0
      BY <3>4 DEF Quota
    <3>6. \A d, a, k, b, l, c \in Nat :
             d <= a /\ a + k + 1 <= b + l + c /\ c # 0
               => (IF d > b THEN d - b ELSE 0) <= l + c - 1
      OBVIOUS
    <3>7. (IF Cardinality(D) > baseline.automatic THEN Cardinality(D) - baseline.automatic ELSE 0)
             <= inst.allowance + Cardinality(inst.callers) - 1
      <4> HIDE DEF D
      <4> QED BY <2>3, <3>2, <3>3, <3>6
    <3> QED BY <3>5, <3>7 DEF AutomaticBounded
  <2>6. AllowanceHeld
    BY <2>0 DEF WindowInv, Window, AllowanceHeld
  <2> QED BY <2>0, <2>1, <2>2, <2>4, <2>5, <2>6 DEF UpdateLimits
<1> QED BY <1>1, UpdateInvariant, PTL

\* An update and the review of the first-run calibration exclude each other, and
\* there is one calibration, settled when it is completed (startSession,
\* startCalibrationLocked, CompleteCalibration).
THEOREM CalibrationIsHonest == AUSpec => []CalibrationHonest
<1>1. UpdateInv => CalibrationHonest
  BY DEF UpdateInv, CalibrationInv, CalibrationHonest
<1> QED BY <1>1, UpdateInvariant, PTL

\* A shown or expired batch stays so and none is prepared twice, while reveals,
\* expiries and finalizations race (RevealPreparedBatch, PreparedBatches, FinalizeSession).
THEOREM BatchesAreFinal == AUSpec => BatchesFinal
<1> DEFINE Final ==
      \A s \in DOMAIN sessions :
        sessions[s].batch # sessions'[s].batch /\ sessions'[s].status # "deleted" =>
          <<sessions[s].batch, sessions'[s].batch>> \in
            {<<"preparing", "prepared">>, <<"preparing", "expired">>,
             <<"prepared", "visible">>, <<"prepared", "expired">>}
<1>1. ASSUME UpdateInv, [AUNext]_auvars PROVE [Final]_auvars
  <2>1. UpdateTypes
    BY <1>1 DEF UpdateInv
  <2>2. CASE Tended
    BY <2>2 DEF Tended, BatchMoves
  <2>3. CASE \E trigger \in Triggers, delivery \in Deliveries : Created(trigger, delivery)
    BY <2>1, <2>3, CreationAppends DEF Created, Triggers, Deliveries
  <2>4. CASE FullReset
    BY <2>1, <2>4, ResetWipes DEF Deleted
  <2> QED BY <1>1, <2>1, <2>2, <2>3, <2>4, SessionsStep
<1> HIDE DEF Final
<1>2. AUSpec => [][Final]_auvars
  BY <1>1, UpdateInvariant, PTL DEF AUSpec
<1> QED BY <1>2 DEF Final, BatchesFinal

=============================================================================
