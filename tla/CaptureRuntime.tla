--------------------------- MODULE CaptureRuntime ---------------------------
(***************************************************************************)
(* The capture runtime manager (internal/captureruntime): one managed      *)
(* browser process at a time owns the authenticated profile.  Replace and  *)
(* Recover hand the profile from one process to the next in several        *)
(* steps; a watcher goroutine per process reports its exit; sessions and   *)
(* readers pin the owner with leases.                                      *)
(*                                                                         *)
(* A process is named by the generation it was launched for: every launch  *)
(* is preceded by an increment of the generation.  Manager.operation, the  *)
(* mutex that serialises Replace, Recover, RetainForProcess and Terminate, *)
(* is held exactly when pc # "idle".                                       *)
(***************************************************************************)
EXTENDS Naturals, FiniteSets

CONSTANTS Leases,         \* lease objects callers may hold at a time
          MaxGeneration   \* bound on the number of launches

ASSUME LeasesAssumption == IsFiniteSet(Leases)
ASSUME GenerationAssumption == MaxGeneration \in Nat \ {0}

Drivers == {"browser", "headless"}
States == {"ready", "replacing", "blocked", "failed", "stopped"}
Generations == 1..MaxGeneration
None == 0

VARIABLES
  state,          \* Manager.state
  current,        \* Manager.current, by generation; None is the nil owner
  generation,     \* Manager.generation
  stopped,        \* Manager.stopped
  launchBlocked,  \* Manager.launchBlocked
  persistent,     \* Manager.persistent
  leases,         \* Manager.leases, the counter
  finished,       \* Manager.done has been signalled
  driver,         \* owner.driver of each process
  intentional,    \* processes whose owner.intentional is set
  idleHold,       \* headless processes that acknowledged SetIdleHold(true)
  watching,       \* processes whose watch goroutine still waits
  pc,             \* the step Replace or Recover is at
  kind,           \* which of the two it is
  prior,          \* its local previousState
  leaseState,     \* life of each lease object
  leaseGen,       \* Lease.generation
  roots,          \* processes whose root is running
  trees           \* processes with any owned process alive: they hold the profile

flags == <<stopped, launchBlocked, persistent, finished>>
owners == <<driver, intentional, idleHold, watching>>
tokens == <<leases, leaseState, leaseGen>>
operation == <<pc, kind, prior>>
processes == <<roots, trees>>
vars == <<state, current, generation, flags, owners, tokens, operation, processes>>

Held == {l \in Leases : leaseState[l] = "held"}

\* Accepts: the generation fence of command dispatch and result ingestion.
Accepts(g) == state = "ready" /\ ~stopped /\ g = generation

TypeOK ==
  /\ state \in States
  /\ current \in {None} \cup Generations
  /\ generation \in Generations
  /\ stopped \in BOOLEAN /\ launchBlocked \in BOOLEAN
  /\ persistent \in BOOLEAN /\ finished \in BOOLEAN
  /\ leases \in Nat
  /\ driver \in [Generations -> Drivers]
  /\ intentional \subseteq Generations /\ idleHold \subseteq Generations
  /\ watching \subseteq Generations
  /\ pc \in {"idle", "check", "readiness", "close", "vacate", "launch"}
  /\ kind \in {"replace", "recover"}
  /\ prior \in States
  /\ leaseState \in [Leases -> {"unused", "held", "released"}]
  /\ leaseGen \in [Leases -> {None} \cup Generations]
  /\ roots \subseteq Generations /\ trees \subseteq Generations

-----------------------------------------------------------------------------
(***************************************************************************)
(* New adopts an already launched process as generation 1.                 *)
(***************************************************************************)
Init ==
  /\ state = "ready" /\ current = 1 /\ generation = 1
  /\ stopped = FALSE /\ launchBlocked = FALSE
  /\ persistent = FALSE /\ finished = FALSE
  /\ leases = 0
  /\ \E d \in Drivers : driver = [g \in Generations |-> d]
  /\ intentional = {} /\ idleHold = {} /\ watching = {1}
  /\ pc = "idle" /\ kind = "replace" /\ prior = "ready"
  /\ leaseState = [l \in Leases |-> "unused"]
  /\ leaseGen = [l \in Leases |-> None]
  /\ roots = {1} /\ trees = {1}

-----------------------------------------------------------------------------
(***************************************************************************)
(* Processes.  A root may exit at any time; its owned tree may outlive it. *)
(***************************************************************************)
RootExit(p) ==
  /\ p \in roots
  /\ roots' = roots \ {p}
  /\ UNCHANGED <<state, current, generation, flags, owners, tokens, operation, trees>>

TreeExit(p) ==
  /\ p \in trees \ roots
  /\ trees' = trees \ {p}
  /\ UNCHANGED <<state, current, generation, flags, owners, tokens, operation, roots>>

\* watch: the goroutine of owner p receives from Done.  Only the exit of the
\* current owner, outside an intended close, is unexpected; a first-generation
\* browser then ends the application, any other owner blocks launches.
Unexpected(p) == current = p /\ p \notin intentional /\ ~stopped

watch(p) ==
  /\ p \in watching \ roots
  /\ watching' = watching \ {p}
  /\ IF Unexpected(p)
       THEN /\ state' = "failed"
            /\ IF driver[p] = "headless" \/ generation > 1
                 THEN launchBlocked' = TRUE /\ UNCHANGED <<stopped, finished>>
                 ELSE stopped' = TRUE /\ finished' = TRUE /\ UNCHANGED launchBlocked
       ELSE UNCHANGED <<state, launchBlocked, stopped, finished>>
  /\ UNCHANGED <<current, generation, persistent, driver, intentional, idleHold,
                 tokens, operation, processes>>

-----------------------------------------------------------------------------
(***************************************************************************)
(* Leases.  The first lease of a headless owner needs its idle hold to be  *)
(* acknowledged, the last one lets it go; a failed acknowledgement blocks  *)
(* the runtime (setIdleHoldLocked).                                        *)
(***************************************************************************)
HoldFails ==
  /\ driver[current] = "headless"
  /\ state' = "blocked" /\ launchBlocked' = TRUE

Acquire(l) ==
  /\ leaseState[l] # "held"
  /\ ~stopped /\ state = "ready" /\ current # None
  /\ \/ /\ leases = 0 /\ HoldFails
        /\ idleHold' \in {idleHold, idleHold \cup {current}}
        /\ UNCHANGED tokens
     \/ /\ leases' = leases + 1
        /\ leaseState' = [leaseState EXCEPT ![l] = "held"]
        /\ leaseGen' = [leaseGen EXCEPT ![l] = generation]
        /\ idleHold' = IF leases = 0 /\ driver[current] = "headless"
                         THEN idleHold \cup {current} ELSE idleHold
        /\ UNCHANGED <<state, launchBlocked>>
  /\ UNCHANGED <<current, generation, stopped, persistent, finished, driver,
                 intentional, watching, operation, processes>>

\* The idle hold ends with the last lease.
Unhold ==
  IF leases = 1 /\ ~stopped /\ state = "ready" /\ driver[current] = "headless"
    THEN \/ /\ idleHold' = idleHold \ {current}
            /\ UNCHANGED <<state, launchBlocked>>
         \/ /\ HoldFails
            /\ idleHold' \in {idleHold, idleHold \ {current}}
    ELSE UNCHANGED <<state, launchBlocked, idleHold>>

Release(l) ==
  \/ /\ leaseState[l] = "held"
     /\ leases' = leases - 1
     /\ leaseState' = [leaseState EXCEPT ![l] = "released"]
     /\ Unhold
     /\ UNCHANGED <<current, generation, stopped, persistent, finished, leaseGen,
                    driver, intentional, watching, operation, processes>>
  \/ /\ leaseState[l] = "released"     \* once.Do: a second Release does nothing
     /\ UNCHANGED vars

-----------------------------------------------------------------------------
(***************************************************************************)
(* Replace and Recover, one action per critical section or external call.  *)
(* Calls that are refused change nothing and are not modelled.             *)
(***************************************************************************)
\* Fault: Replace without its ErrBusy guard.
ReplaceBusy ==
  /\ pc = "idle" /\ generation < MaxGeneration
  /\ ~persistent /\ ~stopped /\ ~launchBlocked
  /\ prior' = state /\ state' = "replacing"
  /\ kind' = "replace" /\ pc' = "check"
  /\ UNCHANGED <<current, generation, flags, owners, tokens, processes>>

Replace ==
  /\ pc = "idle" /\ generation < MaxGeneration
  /\ ~persistent /\ ~stopped /\ ~launchBlocked /\ leases = 0
  /\ prior' = state /\ state' = "replacing"
  /\ kind' = "replace" /\ pc' = "check"
  /\ UNCHANGED <<current, generation, flags, owners, tokens, processes>>

Recover ==
  /\ pc = "idle" /\ generation < MaxGeneration
  /\ ~persistent /\ ~stopped /\ leases = 0
  /\ current # None /\ state \in {"blocked", "failed"}
  /\ prior' = state /\ state' = "replacing"
  /\ kind' = "recover" /\ pc' = "readiness"
  /\ UNCHANGED <<current, generation, flags, owners, tokens, processes>>

\* Fault: a refused transition returns without putting the state back.
RestoreForgotten ==
  /\ pc' = "idle"
  /\ UNCHANGED <<state, current, generation, flags, owners, tokens, kind, prior, processes>>

\* A refused transition puts the earlier state back, unless the runtime stopped.
Restore ==
  /\ state' = IF stopped THEN state ELSE prior
  /\ pc' = "idle"
  /\ UNCHANGED <<current, generation, flags, owners, tokens, kind, prior, processes>>

\* The transport check bound by SetTransitionReadiness (Replace only).
TransitionReady ==
  /\ pc = "check"
  /\ pc' = IF current = None THEN "vacate" ELSE "readiness"
  /\ UNCHANGED <<state, current, generation, flags, owners, tokens, kind, prior, processes>>

TransitionNotReady == pc = "check" /\ Restore

\* Fault: the runtime stopped during ReplacementReadiness and nobody looks.
OwnerReadyUnchecked ==
  /\ pc = "readiness" /\ pc' = "close"
  /\ intentional' = intentional \cup {current}
  /\ UNCHANGED <<state, current, generation, flags, driver, idleHold, watching,
                 tokens, kind, prior, processes>>

\* ReplacementReadiness of the owner, then the section that marks the close
\* as intended or finds the runtime stopped.
OwnerReady ==
  /\ pc = "readiness"
  /\ IF stopped
       THEN pc' = "idle" /\ UNCHANGED intentional
       ELSE pc' = "close" /\ intentional' = intentional \cup {current}
  /\ UNCHANGED <<state, current, generation, flags, driver, idleHold, watching,
                 tokens, kind, prior, processes>>

OwnerNotReady == pc = "readiness" /\ Restore

\* Fault: the exit of the root is taken for the release of the profile.
CloseRootOnly ==
  /\ pc = "close" /\ pc' = "vacate"
  /\ roots' = roots \ {current}
  /\ UNCHANGED <<state, current, generation, flags, owners, tokens, kind, prior, trees>>

\* CloseForRetry succeeds only once the whole owned tree is gone.
CloseOwner ==
  /\ pc = "close" /\ pc' = "vacate"
  /\ roots' = roots \ {current} /\ trees' = trees \ {current}
  /\ UNCHANGED <<state, current, generation, flags, owners, tokens, kind, prior>>

CloseFails ==
  /\ pc = "close" /\ pc' = "idle"
  /\ state' = "blocked"
  /\ UNCHANGED <<current, generation, flags, owners, tokens, kind, prior, processes>>

Vacate ==
  /\ pc = "vacate" /\ pc' = "launch"
  /\ current' = None /\ generation' = generation + 1
  /\ UNCHANGED <<state, flags, owners, tokens, kind, prior, processes>>

\* Only Replace looks at its context again before it launches.
LaunchCancelled ==
  /\ pc = "launch" /\ kind = "replace" /\ pc' = "idle"
  /\ state' = "blocked"
  /\ UNCHANGED <<current, generation, flags, owners, tokens, kind, prior, processes>>

Launched(d) ==
  /\ pc = "launch" /\ pc' = "idle"
  /\ current' = generation /\ state' = "ready"
  /\ launchBlocked' = IF kind = "recover" THEN FALSE ELSE launchBlocked
  /\ driver' = [driver EXCEPT ![generation] = d]
  /\ watching' = watching \cup {generation}
  /\ roots' = roots \cup {generation} /\ trees' = trees \cup {generation}
  /\ UNCHANGED <<generation, stopped, persistent, finished, intentional, idleHold,
                 tokens, kind, prior>>

\* The factory failed or was cancelled: it may hand back a process (which is
\* kept for shutdown) and may have left an owned tree behind.
LaunchFails(returned, left, d) ==
  /\ pc = "launch" /\ pc' = "idle"
  /\ current' = IF returned THEN generation ELSE current
  /\ intentional' = IF returned THEN intentional \cup {generation} ELSE intentional
  /\ driver' = IF returned THEN [driver EXCEPT ![generation] = d] ELSE driver
  /\ state' = "blocked" /\ launchBlocked' = TRUE
  /\ roots' = IF left THEN roots \cup {generation} ELSE roots
  /\ trees' = IF left THEN trees \cup {generation} ELSE trees
  /\ UNCHANGED <<generation, stopped, persistent, finished, idleHold, watching,
                 tokens, kind, prior>>

-----------------------------------------------------------------------------
RetainForProcess ==
  /\ pc = "idle"
  /\ ~persistent /\ ~stopped /\ state = "ready"
  /\ current # None /\ driver[current] = "browser"
  /\ persistent' = TRUE
  /\ UNCHANGED <<state, current, generation, stopped, launchBlocked, finished,
                 owners, tokens, operation, processes>>

Terminate ==
  /\ pc = "idle"
  /\ stopped' = TRUE /\ state' = "stopped" /\ finished' = TRUE
  /\ intentional' = IF current = None THEN intentional ELSE intentional \cup {current}
  /\ roots' = roots \ {current}
  /\ UNCHANGED <<current, generation, launchBlocked, persistent, driver, idleHold,
                 watching, tokens, operation, trees>>

-----------------------------------------------------------------------------
OperationStep ==
  \/ TransitionReady \/ TransitionNotReady
  \/ OwnerReady \/ OwnerNotReady
  \/ CloseOwner \/ CloseFails
  \/ Vacate \/ LaunchCancelled
  \/ \E d \in Drivers : Launched(d)
  \/ \E returned, left \in BOOLEAN, d \in Drivers : LaunchFails(returned, left, d)

Next ==
  \/ \E p \in Generations : RootExit(p) \/ TreeExit(p) \/ watch(p)
  \/ \E l \in Leases : Acquire(l) \/ Release(l)
  \/ Replace \/ Recover \/ OperationStep
  \/ RetainForProcess \/ Terminate

Spec == Init /\ [][Next]_vars

\* Every wait of a transition is bounded by the context its caller supplies,
\* and a watcher whose process has exited is eventually scheduled.
FairSpec ==
  /\ Spec
  /\ WF_vars(OperationStep)
  /\ \A p \in Generations : WF_vars(watch(p))

-----------------------------------------------------------------------------
(***************************************************************************)
(* Properties.                                                             *)
(***************************************************************************)

\* A lease pins its owner: while it is held, whatever exits, replacements and
\* recoveries happen, the manager still has the owner and the generation the
\* lease was taken on (Acquire, and the ErrBusy guards of Replace and Recover).
LeasePinsOwner == \A l \in Held : leaseGen[l] = generation /\ current = generation

\* At most one process tree uses the authenticated profile, even when a close
\* fails, a factory fails after starting a browser, or a root exits before its
\* children: an unverified tree is never joined by a second one.
SingleTree == \A p, q \in trees : p = q

\* Manager.leases is the number of leases held, though Release may be called
\* several times on the same lease.
LeaseCountExact == leases = Cardinality(Held)

\* A headless owner with a lease on it has acknowledged its idle hold, so that
\* it does not retire itself under the work (setIdleHoldLocked).
LeasedWorkerHeld ==
  Held # {} /\ driver[current] = "headless" => current \in idleHold

\* Once the runtime has stopped, by Terminate or by the exit of the first
\* browser in the middle of a Replace, no process is launched and nothing is
\* admitted again.
StoppedIsFinal ==
  [][stopped => stopped' /\ state' # "ready" /\ Held' \subseteq Held /\ trees' \subseteq trees]_vars

\* The main browser retained by RetainForProcess is never replaced.
PersistentOwnerKept ==
  [][persistent => current' = current /\ generation' = generation]_vars

\* Replacing is transient: Replace and Recover leave it on every return path.
TransitionEnds == (state = "replacing") ~> (state # "replacing")

\* A runtime whose owner's exit has been reported is not ready: it accepts no
\* generation and admits no lease on that owner.
ExitedOwnerNotReady == state = "ready" => current \in watching

\* The manager provides exclusive epochs of the profile, one per generation.
Profile == INSTANCE ExclusiveProfile WITH
  Pins <- Leases,
  epoch <- generation,
  granted <- (pc # "launch"),
  holder <- (IF trees = {} THEN 0 ELSE CHOOSE p \in trees : TRUE),
  pinned <- Held

\* Every step of the manager is a step of the abstract profile or none.
ImplementsProfile == Profile!PSpec

\* What a lease protects, in one statement: the owner and the worker under a
\* lease stay, leases are counted exactly and one process tree has the profile.
ManagerSound ==
  TypeOK /\ LeasePinsOwner /\ LeaseCountExact /\ LeasedWorkerHeld /\ SingleTree

\* Neither a stopped runtime nor a retained owner is ever replaced, although
\* Replace and Recover leave the mutex for their checks and launches.
OwnersFinal == StoppedIsFinal /\ PersistentOwnerKept
=============================================================================
