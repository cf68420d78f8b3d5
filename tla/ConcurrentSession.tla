-------------------------- MODULE ConcurrentSession --------------------------
(***************************************************************************)
(* The development controller that keeps a reader and a collector browser  *)
(* side by side (engine/development_concurrent_session.go): startup of     *)
(* both owners under one fence, admission of collection work by tickets,   *)
(* reader windows, retirement of the reader, disabling, revocation, and    *)
(* the cleanup that follows the cancellation of the parent.                *)
(*                                                                         *)
(* opMu serialises the long operations (thread "op", and the watcher while *)
(* it cleans up); mu sections are atomic steps; a call of an owner, proof  *)
(* or permit port is made between two of them, so everything else may run  *)
(* before it returns.  epoch and pairGeneration advance together and are   *)
(* one fence.  Deadlines are outcomes: any port call may fail.             *)
(***************************************************************************)
EXTENDS Naturals, FiniteSets

CONSTANTS Works,      \* synthetic work items
          Windows,    \* reader windows
          Setups,     \* how the controller may be configured
          Exits,      \* bound: which owner may end by itself, leaving what behind
          MaxEpoch    \* fence value from which callers stop when admission is closed

ASSUME SessionAssumption ==
  /\ IsFiniteSet(Works) /\ IsFiniteSet(Windows) /\ MaxEpoch \in Nat
  /\ Setups \subseteq {"paired", "independent", "authorized"}
  /\ Exits \subseteq {"reader", "collector"} \X {"none", "other"}

Roles == {"reader", "collector"}
Threads == {"op", "worker", "caller", "watcher"}
Permits == 1..2    \* the one of startup, the one of the independent collector

VARIABLES
  setup,       \* "authorized": behind the seam; else the permit port is used
  ctl,         \* the controller's fence, flags, lifecycle and remembered permit
  held,        \* whether c.reader and c.collector are set
  windows,     \* c.readerWindows
  fresh,       \* the recorded proofs are younger than concurrentProofMaxAge
  work, sink,  \* c.work and c.sink
  issued,      \* fence of the ticket last issued for each work item
  owner,       \* what the owner port has for each role; "stranded": an owner whose
               \* creation it reported as failed
  granted,     \* what the permit port knows of each permit
  parent,      \* the parent context
  thr,         \* where each goroutine is
  authority, ticket   \* the seam

seamVars == <<authority, ticket>>
Seam == INSTANCE AuthoritySeam

local == <<ctl, work, seamVars>>     \* what invalidation writes under mu
ports == <<owner, granted>>
csVars == <<setup, local, held, windows, fresh, sink, issued, ports, parent, thr>>

Lifecycles == {"new", "starting", "running", "disabledReaderRetained", "collectorLost",
               "cleanupComplete", "cleanupFailed"}
WorkStates == {"none", "queued", "active", "complete", "cancelled"}
Places == {"idle", "revoking", "mark", "expired",
           "createReader", "createCollector", "authorize", "proveReader", "proveCollector", "grant",
           "recheck", "open", "fail", "closeCollector", "closeReader", "closeEnd",
           "openWindow", "windowOpen", "closeWindow", "retire",
           "decide", "decideProve", "decideGrant", "decideCheck", "decideOpen",
           "disable", "disableCollector", "disableReader", "disableEnd",
           "claim", "complete", "claimCommit", "completeCommit", "lost", "renew",
           "unarmed", "armed", "lock", "wait", "done"}
Idle == [pc |-> "idle", then |-> "idle", permit |-> 0, epoch |-> 0, arg |-> "none",
         flag |-> FALSE]

CSInit ==
  /\ setup \in Setups
  /\ ctl = [open |-> FALSE, permit |-> 0, permitEpoch |-> 0, epoch |-> 1, lifecycle |-> "new",
            revoked |-> FALSE, blocked |-> FALSE, started |-> FALSE, disabled |-> FALSE,
            failed |-> FALSE, retired |-> FALSE]
  /\ held = [r \in Roles |-> FALSE] /\ windows = {} /\ fresh = FALSE
  /\ work = [w \in Works |-> "none"] /\ sink = {} /\ issued = [w \in Works |-> 0]
  /\ owner = [r \in Roles |-> "none"] /\ granted = [p \in Permits |-> "none"]
  /\ parent = "alive"
  /\ thr = [t \in Threads |-> [Idle EXCEPT !.pc = IF t = "watcher" THEN "unarmed" ELSE "idle"]]
  /\ Seam!SeamInit

(***************************************************************************)
(* Threads.                                                                *)
(***************************************************************************)
At(t, pc) == thr[t].pc = pc
Goto(t, pc) == thr' = [thr EXCEPT ![t].pc = pc]
Enter(t, pc) == thr' = [thr EXCEPT ![t] = [Idle EXCEPT !.pc = pc]]
Return(t) == thr' = [thr EXCEPT ![t] = Idle]
Pending == {t \in Threads : At(t, "revoking")}    \* pendingRevocations
Calling(t) == At(t, "idle") /\ (ctl.epoch < MaxEpoch \/ ctl.open)
OpFree == At("op", "idle") /\ thr["watcher"].pc \in {"unarmed", "armed", "revoking", "lock", "done"}

Authorized == setup = "authorized"
OwnerCurrent(r) == owner[r] = "current"
Fresh == IF Authorized THEN authority = "open" ELSE fresh
FenceHeld(t) == parent = "alive" /\ ctl.epoch = thr[t].epoch /\ ~ctl.revoked /\ ~ctl.disabled

(***************************************************************************)
(* Invalidation.                                                           *)
(***************************************************************************)
CancelActive == [w \in Works |-> IF work[w] = "active" THEN "cancelled" ELSE work[w]]
RevokeSeam == IF Authorized THEN Seam!Revoke ELSE UNCHANGED seamVars

\* Fault: closing admission leaves active work running.
FaultWorkRuns ==
  /\ ctl' = [ctl EXCEPT !.open = FALSE, !.permit = 0, !.permitEpoch = 0,
       !.epoch = @ + 1, !.revoked = TRUE]
  /\ RevokeSeam /\ UNCHANGED work

invalidateLocked ==
  /\ ctl' = [ctl EXCEPT !.open = FALSE, !.permit = 0, !.permitEpoch = 0,
       !.epoch = @ + 1, !.revoked = TRUE,
       !.lifecycle = IF ctl.disabled \/ @ \in {"cleanupFailed", "collectorLost"}
                     THEN @ ELSE "starting"]
  /\ work' = CancelActive
  /\ RevokeSeam

markCleanupFailedLocked ==
  /\ ctl' = [ctl EXCEPT !.failed = TRUE, !.open = FALSE, !.blocked = TRUE,
       !.epoch = @ + 1, !.revoked = TRUE, !.lifecycle = "cleanupFailed"]
  /\ work' = CancelActive
  /\ RevokeSeam

\* Thread t closes admission; if a permit was open it now revokes it at the
\* port, outside mu, before it goes on.
invalidate(t, then) ==
  /\ invalidateLocked
  /\ thr' = [thr EXCEPT ![t] =
       IF ctl.permit # 0 THEN [Idle EXCEPT !.pc = "revoking", !.then = then, !.permit = ctl.permit]
       ELSE [Idle EXCEPT !.pc = then]]

Continue(t) ==
  thr' = [thr EXCEPT ![t] = [Idle EXCEPT !.pc = thr[t].then, !.arg = thr[t].arg]]

RevokeReturns(t) ==
  /\ At(t, "revoking")
  /\ Continue(t)
  /\ granted' = [granted EXCEPT ![thr[t].permit] = "ended"]
  /\ UNCHANGED local \/ markCleanupFailedLocked     \* the port revoked it, or failed
  /\ UNCHANGED <<setup, held, windows, fresh, sink, issued, owner, parent>>

MarkFailed(t) ==
  /\ At(t, "mark") /\ markCleanupFailedLocked /\ Return(t)
  /\ UNCHANGED <<setup, held, windows, fresh, sink, issued, ports, parent>>

(***************************************************************************)
(* Startup.                                                                *)
(***************************************************************************)
\* Fault: the watcher is armed only by a start that is refused.
FaultUnwatched ==
  /\ Calling("op") /\ OpFree
  /\ ~ctl.started /\ ~ctl.disabled /\ ~ctl.failed /\ parent = "alive"
  /\ ctl' = [ctl EXCEPT !.started = TRUE, !.revoked = FALSE, !.lifecycle = "starting"]
  /\ thr' = [thr EXCEPT !["op"] = [Idle EXCEPT !.pc = "createReader", !.epoch = ctl.epoch]]
  /\ UNCHANGED <<setup, work, seamVars, held, windows, fresh, sink, issued, ports, parent>>

\* Arming the watcher precedes the checks that may refuse the start.
Start ==
  /\ Calling("op") /\ OpFree
  /\ LET armed == [thr EXCEPT !["watcher"].pc = IF @ = "unarmed" THEN "armed" ELSE @]
         refused == ctl.started \/ ctl.disabled \/ ctl.failed \/ parent # "alive"
     IN  IF refused
         THEN thr' = armed /\ UNCHANGED ctl
         ELSE /\ ctl' = [ctl EXCEPT !.started = TRUE, !.revoked = FALSE, !.lifecycle = "starting"]
              /\ thr' = [armed EXCEPT !["op"] = [Idle EXCEPT !.pc = "createReader", !.epoch = ctl.epoch]]
  /\ UNCHANGED <<setup, work, seamVars, held, windows, fresh, sink, issued, ports, parent>>

\* What follows the creation of an owner of role r.
AfterCreate(r) == CASE r = "reader" -> "createCollector"
                    [] r = "collector" /\ Authorized -> "authorize"
                    [] OTHER -> "proveReader"

\* The owner is remembered before the fence is checked, so that the cleanup of a
\* failed start finds it.  An owner of the wrong identity is not remembered; a
\* collector that shares its identity with the reader is.  A port that fails may
\* have registered the owner before; nobody knows of it then.
CreateOwner(r) ==
  /\ At("op", IF r = "reader" THEN "createReader" ELSE "createCollector")
  /\ \/ /\ owner' = [owner EXCEPT ![r] = "current"] /\ held' = [held EXCEPT ![r] = TRUE]
        /\ Enter("op", "fail") \/ (FenceHeld("op") /\ Goto("op", AfterCreate(r)))
        /\ UNCHANGED local
     \/ /\ \E o \in {"none", "stranded"} : owner' = [owner EXCEPT ![r] = o]
        /\ Enter("op", "fail") /\ UNCHANGED <<held, local>>
     \/ /\ owner' = [owner EXCEPT ![r] = "other"] /\ Enter("op", "fail")
        /\ markCleanupFailedLocked /\ UNCHANGED held
     \/ /\ r = "collector" /\ owner' = [owner EXCEPT ![r] = "clash"]
        /\ held' = [held EXCEPT ![r] = TRUE] /\ Enter("op", "fail") /\ UNCHANGED local
  /\ UNCHANGED <<setup, windows, fresh, sink, issued, granted, parent>>

\* A proof is requested under a challenge of its own and consumed once.
prove(r) ==
  /\ At("op", IF r = "reader" THEN "proveReader" ELSE "proveCollector")
  /\ \/ Enter("op", "fail")
     \/ FenceHeld("op") /\ Goto("op", IF r = "reader" THEN "proveCollector" ELSE "grant")
  /\ UNCHANGED <<setup, local, held, windows, fresh, sink, issued, ports, parent>>

\* rememberPermit follows every grant, before anything else can go wrong.
rememberPermit(p, epoch) ==
  /\ granted' = [granted EXCEPT ![p] = "granted"]
  /\ ctl' = [ctl EXCEPT !.permit = p, !.permitEpoch = epoch]

Grant ==
  /\ At("op", "grant")
  /\ \/ /\ \A r \in Roles : OwnerCurrent(r)
        /\ rememberPermit(1, thr["op"].epoch)
        /\ Goto("op", "recheck") \/ Enter("op", "fail")
     \/ Enter("op", "fail") /\ UNCHANGED <<granted, ctl>>
  /\ UNCHANGED <<setup, work, seamVars, held, windows, fresh, sink, issued, owner, parent>>

\* startAuthorized up to the publication of the authority's first permit.
Authorize ==
  /\ At("op", "authorize")
  /\ \/ /\ \A r \in Roles : OwnerCurrent(r)
        /\ Seam!Authorize /\ Goto("op", "recheck")
     \/ Enter("op", "fail") /\ UNCHANGED seamVars
  /\ UNCHANGED <<setup, ctl, work, held, windows, fresh, sink, issued, ports, parent>>

\* The port is asked for both owners once more.
RecheckOwners ==
  /\ At("op", "recheck")
  /\ \/ (\A r \in Roles : OwnerCurrent(r)) /\ Goto("op", "open")
     \/ Enter("op", "fail")
  /\ UNCHANGED <<setup, local, held, windows, fresh, sink, issued, ports, parent>>

\* The last look at the fence, and the opening of admission.
OpenAdmission ==
  /\ At("op", "open")
  /\ \/ /\ FenceHeld("op") /\ (Authorized => authority = "open")
        /\ ctl' = [ctl EXCEPT !.open = TRUE, !.lifecycle = "running"]
        /\ fresh' = ~Authorized
        /\ Return("op") /\ UNCHANGED <<work, seamVars>>
     \/ Enter("op", "fail") /\ UNCHANGED <<local, fresh>>
     \/ ~Authorized /\ invalidate("op", "fail") /\ UNCHANGED fresh
  /\ UNCHANGED <<setup, held, windows, sink, issued, ports, parent>>

failStart ==
  /\ At("op", "fail") /\ invalidate("op", "closeCollector")
  /\ UNCHANGED <<setup, held, windows, fresh, sink, issued, ports, parent>>

(***************************************************************************)
(* Closing owners.                                                         *)
(***************************************************************************)
\* closeRole ends with the owner verified absent, or fails: because the port
\* failed before or after it closed the owner, or knows another one.
ClosedRole(r) == owner[r] \in {"none", "current"} /\ owner' = [owner EXCEPT ![r] = "none"]
UnclosedRole(r) == \E o \in {owner[r]} \cup (IF OwnerCurrent(r) THEN {"none"} ELSE {}) :
                     owner' = [owner EXCEPT ![r] = o]

\* closeOwnedTrees: the collector, then the reader.  Owners that cannot be told
\* apart are left alone.
CloseCollector(t) ==
  /\ At(t, "closeCollector")
  /\ CASE held["reader"] /\ owner["collector"] = "clash" ->
              /\ markCleanupFailedLocked
              /\ thr' = [thr EXCEPT ![t].pc = "closeEnd", ![t].flag = TRUE] /\ UNCHANGED <<held, owner>>
       [] ~held["collector"] -> Goto(t, "closeReader") /\ UNCHANGED <<local, held, owner>>
       [] OTHER ->
              /\ \/ ClosedRole("collector") /\ held' = [held EXCEPT !["collector"] = FALSE] /\ Goto(t, "closeReader")
                 \/ UnclosedRole("collector") /\ UNCHANGED held
                    /\ thr' = [thr EXCEPT ![t].pc = "closeReader", ![t].flag = TRUE]
              /\ UNCHANGED local
  /\ UNCHANGED <<setup, windows, fresh, sink, issued, granted, parent>>

RetireReader == /\ held' = [held EXCEPT !["reader"] = FALSE]
                /\ ctl' = [ctl EXCEPT !.retired = TRUE]

\* Fault: a reader that could not be closed is forgotten.
FaultReaderForgotten(t) ==
  /\ At(t, "closeReader")
  /\ IF ~held["reader"] THEN Goto(t, "closeEnd") /\ UNCHANGED <<ctl, held, owner, windows>>
     ELSE /\ ClosedRole("reader") \/ UnclosedRole("reader")
          /\ RetireReader /\ windows' = {} /\ Goto(t, "closeEnd")
  /\ UNCHANGED <<setup, work, seamVars, fresh, sink, issued, granted, parent>>

CloseReader(t) ==
  /\ At(t, "closeReader")
  /\ IF ~held["reader"] THEN Goto(t, "closeEnd") /\ UNCHANGED <<ctl, held, owner, windows>>
     ELSE \/ /\ ClosedRole("reader") /\ RetireReader /\ windows' = {} /\ Goto(t, "closeEnd")
          \/ /\ UnclosedRole("reader") /\ UNCHANGED <<ctl, held, windows>>
             /\ thr' = [thr EXCEPT ![t].pc = "closeEnd", ![t].flag = TRUE]
  /\ UNCHANGED <<setup, work, seamVars, fresh, sink, issued, granted, parent>>

NoneHeld == \A r \in Roles : ~held[r]

CloseEnd(t) ==
  /\ At(t, "closeEnd")
  /\ IF thr[t].flag \/ Pending # {} THEN markCleanupFailedLocked
     ELSE /\ ctl' = [ctl EXCEPT !.lifecycle = IF ctl.failed THEN "cleanupFailed"
                                               ELSE IF NoneHeld THEN "cleanupComplete" ELSE @]
          /\ UNCHANGED <<work, seamVars>>
  /\ thr' = [thr EXCEPT ![t] = IF t = "watcher" THEN [Idle EXCEPT !.pc = "done"] ELSE Idle]
  /\ UNCHANGED <<setup, held, windows, fresh, sink, issued, ports, parent>>

updateCleanupStateLocked ==
  IF Pending # {} THEN markCleanupFailedLocked
  ELSE /\ ctl' = [ctl EXCEPT !.lifecycle =
            IF ctl.failed THEN "cleanupFailed"
            ELSE IF NoneHeld /\ windows = {} THEN "cleanupComplete"
            ELSE IF ctl.disabled /\ windows # {} THEN "disabledReaderRetained" ELSE @]
       /\ UNCHANGED <<work, seamVars>>

(***************************************************************************)
(* Reader windows.                                                         *)
(***************************************************************************)
\* Every entry that needs admission first closes it when its authority is stale.
ExpiredAt(t) == ctl.open /\ ~Fresh /\ Enter(t, "expired") /\ UNCHANGED local
Settled == Pending = {} /\ ~ctl.blocked

InvalidateExpired(t) ==
  /\ At(t, "expired") /\ invalidate(t, "idle")
  /\ UNCHANGED <<setup, held, windows, fresh, sink, issued, ports, parent>>

OpenReaderWindow(id) ==
  /\ Calling("op") /\ OpFree
  /\ \/ ExpiredAt("op")
     \/ /\ ctl.open /\ Fresh /\ Settled /\ held["reader"] /\ ~ctl.retired /\ id \notin windows
        /\ thr' = [thr EXCEPT !["op"] = [Idle EXCEPT !.pc = "openWindow", !.arg = id, !.epoch = ctl.epoch]]
        /\ UNCHANGED local
  /\ UNCHANGED <<setup, held, windows, fresh, sink, issued, ports, parent>>

CheckReader ==
  /\ At("op", "openWindow")
  /\ \/ OwnerCurrent("reader") /\ Goto("op", "windowOpen") /\ UNCHANGED local
     \/ invalidate("op", "mark")
  /\ UNCHANGED <<setup, held, windows, fresh, sink, issued, ports, parent>>

WindowOpened ==
  /\ At("op", "windowOpen")
  /\ \/ Return("op") /\ UNCHANGED <<local, windows>>         \* the window was not opened, or closed again
     \/ /\ parent = "alive" /\ Settled /\ ctl.open /\ ctl.epoch = thr["op"].epoch /\ held["reader"]
        /\ IF Authorized /\ authority # "open"
           THEN invalidate("op", "idle") /\ UNCHANGED windows
           ELSE windows' = windows \cup {thr["op"].arg} /\ Return("op") /\ UNCHANGED local
  /\ UNCHANGED <<setup, held, fresh, sink, issued, ports, parent>>

\* Admission closes before the last window does.
CloseReaderWindow(id) ==
  /\ Calling("op") /\ OpFree /\ id \in windows /\ held["reader"]
  /\ LET called == [Idle EXCEPT !.pc = "closeWindow", !.arg = id]
     IN  IF windows = {id}
         THEN /\ invalidateLocked
              /\ thr' = [thr EXCEPT !["op"] =
                   IF ctl.permit # 0 THEN [called EXCEPT !.pc = "revoking", !.then = "closeWindow", !.permit = ctl.permit]
                   ELSE called]
         ELSE thr' = [thr EXCEPT !["op"] = called] /\ UNCHANGED local
  /\ UNCHANGED <<setup, held, windows, fresh, sink, issued, ports, parent>>

WindowClosed ==
  /\ At("op", "closeWindow")
  /\ \/ Return("op") /\ UNCHANGED <<local, windows>>
     \/ /\ windows' = windows \ {thr["op"].arg}
        /\ IF windows = {thr["op"].arg} THEN Enter("op", "retire") /\ UNCHANGED local
           ELSE IF Authorized /\ authority # "open" THEN invalidate("op", "idle")
           ELSE Return("op") /\ UNCHANGED local
  /\ UNCHANGED <<setup, held, fresh, sink, issued, ports, parent>>

\* The reader without windows is closed, if its inventory is verified empty.
ReaderRetires ==
  /\ At("op", "retire")
  /\ \/ ClosedRole("reader") /\ RetireReader /\ Goto("op", "decide") /\ UNCHANGED <<work, seamVars>>
     \/ UnclosedRole("reader") /\ invalidate("op", "idle") /\ UNCHANGED held
  /\ UNCHANGED <<setup, windows, fresh, sink, issued, granted, parent>>

\* Only an independent collector may go on alone, under a proof and a permit of
\* its own.
readerRetiredDecision ==
  /\ At("op", "decide")
  /\ IF ctl.failed \/ ~Settled THEN Return("op") /\ UNCHANGED local
     ELSE IF ctl.disabled THEN updateCleanupStateLocked /\ Return("op")
     ELSE IF Authorized THEN Return("op") /\ UNCHANGED local
     ELSE IF setup # "independent" \/ ~held["collector"] THEN invalidate("op", "idle")
     ELSE thr' = [thr EXCEPT !["op"] = [Idle EXCEPT !.pc = "decideProve", !.epoch = ctl.epoch]]
          /\ UNCHANGED local
  /\ UNCHANGED <<setup, held, windows, fresh, sink, issued, ports, parent>>

IndependentProof ==
  /\ At("op", "decideProve")
  /\ \/ OwnerCurrent("collector") /\ Goto("op", "decideGrant") /\ UNCHANGED local
     \/ invalidate("op", "idle")
  /\ UNCHANGED <<setup, held, windows, fresh, sink, issued, ports, parent>>

\* A grant that came too late is revoked by the invalidation that follows.
IndependentGrant ==
  /\ At("op", "decideGrant")
  /\ \/ rememberPermit(2, thr["op"].epoch) /\ Goto("op", "decideCheck") /\ UNCHANGED <<work, seamVars>>
     \/ invalidate("op", "idle") /\ UNCHANGED granted
  /\ UNCHANGED <<setup, held, windows, fresh, sink, issued, owner, parent>>

IndependentCheck ==
  /\ At("op", "decideCheck")
  /\ \/ OwnerCurrent("collector") /\ Goto("op", "decideOpen") /\ UNCHANGED local
     \/ invalidate("op", "idle")
  /\ UNCHANGED <<setup, held, windows, fresh, sink, issued, ports, parent>>

IndependentOpen ==
  /\ At("op", "decideOpen")
  /\ \/ /\ ctl.epoch = thr["op"].epoch /\ ~ctl.disabled /\ ~ctl.failed /\ Settled /\ parent = "alive"
        /\ ctl' = [ctl EXCEPT !.open = TRUE, !.revoked = FALSE, !.lifecycle = "running"]
        /\ fresh' = TRUE /\ Return("op") /\ UNCHANGED <<work, seamVars>>
     \/ invalidate("op", "idle") /\ UNCHANGED fresh
  /\ UNCHANGED <<setup, held, windows, sink, issued, ports, parent>>

(***************************************************************************)
(* Disable: revoke, close the collector, keep the reader for its windows.  *)
(***************************************************************************)
Disable ==
  /\ Calling("op") /\ OpFree /\ invalidate("op", "disable")
  /\ UNCHANGED <<setup, held, windows, fresh, sink, issued, ports, parent>>

DisableMark ==
  /\ At("op", "disable")
  /\ ctl' = [ctl EXCEPT !.disabled = TRUE, !.lifecycle = "disabledReaderRetained"]
  /\ Goto("op", "disableCollector")
  /\ UNCHANGED <<setup, work, seamVars, held, windows, fresh, sink, issued, ports, parent>>

DisableCollector ==
  /\ At("op", "disableCollector")
  /\ IF ~held["collector"] THEN Goto("op", "disableReader") /\ UNCHANGED <<local, held, owner>>
     ELSE \/ /\ ClosedRole("collector") /\ held' = [held EXCEPT !["collector"] = FALSE]
             /\ Goto("op", "disableReader") /\ UNCHANGED local
          \/ UnclosedRole("collector") /\ markCleanupFailedLocked /\ Return("op") /\ UNCHANGED held
  /\ UNCHANGED <<setup, windows, fresh, sink, issued, granted, parent>>

DisableReader ==
  /\ At("op", "disableReader")
  /\ IF held["reader"] /\ windows = {}
     THEN \/ ClosedRole("reader") /\ RetireReader /\ Goto("op", "disableEnd") /\ UNCHANGED <<work, seamVars>>
          \/ UnclosedRole("reader") /\ markCleanupFailedLocked /\ Return("op") /\ UNCHANGED held
     ELSE Goto("op", "disableEnd") /\ UNCHANGED <<local, held, owner>>
  /\ UNCHANGED <<setup, windows, fresh, sink, issued, granted, parent>>

DisableEnd ==
  /\ At("op", "disableEnd") /\ updateCleanupStateLocked /\ Return("op")
  /\ UNCHANGED <<setup, held, windows, fresh, sink, issued, ports, parent>>


(***************************************************************************)
(* Work: queued, ticketed, claimed, completed or cancelled.                *)
(***************************************************************************)
\* Fault: cancelled work is queued once more.
FaultRequeue(w) ==
  /\ At("worker", "idle") /\ work[w] \in {"none", "cancelled"}
  /\ ~ctl.failed /\ ~ctl.disabled /\ parent = "alive"
  /\ work' = [work EXCEPT ![w] = "queued"]
  /\ UNCHANGED <<setup, ctl, seamVars, held, windows, fresh, sink, issued, ports, parent, thr>>

QueueWork(w) ==
  /\ At("worker", "idle") /\ work[w] = "none"
  /\ ~ctl.failed /\ ~ctl.disabled /\ parent = "alive" /\ ctl.lifecycle # "cleanupComplete"
  /\ work' = [work EXCEPT ![w] = "queued"]
  /\ UNCHANGED <<setup, ctl, seamVars, held, windows, fresh, sink, issued, ports, parent, thr>>

Admitted == ctl.open /\ parent = "alive" /\ Settled /\ held["collector"]

Ticket(w) ==
  /\ Calling("worker")
  /\ \/ ExpiredAt("worker") /\ UNCHANGED issued
     \/ /\ Fresh /\ Admitted /\ work[w] = "queued"
        /\ issued' = [issued EXCEPT ![w] = ctl.epoch]
        /\ IF Authorized /\ ticket[w] = "none" THEN Seam!Dispatch(w) ELSE UNCHANGED seamVars
        /\ UNCHANGED <<ctl, work, thr>>
  /\ UNCHANGED <<setup, held, windows, fresh, sink, ports, parent>>

ticketCurrentLocked(w) == Admitted /\ issued[w] = ctl.epoch

\* Claim and Complete check the fence, ask the owner port, and check the fence
\* again under the lock under which they commit.
Submit(w, call) ==
  /\ Calling("worker") /\ issued[w] # 0
  /\ \/ ExpiredAt("worker")
     \/ /\ Fresh /\ ticketCurrentLocked(w)
        /\ thr' = [thr EXCEPT !["worker"] = [Idle EXCEPT !.pc = call, !.arg = w, !.flag = ~ctl.retired]]
        /\ UNCHANGED local
  /\ UNCHANGED <<setup, held, windows, fresh, sink, issued, ports, parent>>

\* What the commit of each call is entered by.
Commit(call) == IF call = "claim" THEN "claimCommit" ELSE "completeCommit"

\* An owner that is not the expected one, or a call that fails, condemns the pair.
CheckOwners ==
  \E call \in {"claim", "complete"} :
  /\ At("worker", call)
  /\ \/ /\ OwnerCurrent("collector") /\ (thr["worker"].flag => held["reader"] /\ OwnerCurrent("reader"))
        /\ thr' = [thr EXCEPT !["worker"].pc = Commit(call), !["worker"].flag = FALSE] /\ UNCHANGED local
     \/ invalidate("worker", "mark")
  /\ UNCHANGED <<setup, held, windows, fresh, sink, issued, ports, parent>>

ClaimCommit ==
  LET w == thr["worker"].arg IN
  /\ At("worker", "claimCommit")
  /\ \/ ExpiredAt("worker")
     \/ (ctl.open => Fresh) /\ Return("worker") /\ UNCHANGED local
     \/ /\ Fresh /\ ticketCurrentLocked(w) /\ work[w] = "queued"
        /\ IF Authorized THEN Seam!Claim(w) ELSE UNCHANGED seamVars
        /\ work' = [work EXCEPT ![w] = "active"] /\ Return("worker") /\ UNCHANGED ctl
  /\ UNCHANGED <<setup, held, windows, fresh, sink, issued, ports, parent>>

CompleteCommit ==
  LET w == thr["worker"].arg IN
  /\ At("worker", "completeCommit")
  /\ \/ ExpiredAt("worker") /\ UNCHANGED sink
     \/ (ctl.open => Fresh) /\ Return("worker") /\ UNCHANGED <<local, sink>>
     \/ /\ Fresh /\ ticketCurrentLocked(w) /\ work[w] = "active"
        /\ IF Authorized THEN Seam!Complete(w) ELSE UNCHANGED seamVars
        /\ work' = [work EXCEPT ![w] = "complete"] /\ sink' = sink \cup {w}
        /\ Return("worker") /\ UNCHANGED ctl
  /\ UNCHANGED <<setup, held, windows, fresh, issued, ports, parent>>

\* Cancelling asks for the fence and the collector, not for open admission.
Cancel(w) ==
  /\ At("worker", "idle") /\ work[w] \in {"queued", "active"}
  /\ issued[w] = ctl.epoch /\ held["collector"]
  /\ work' = [work EXCEPT ![w] = "cancelled"]
  /\ IF Authorized THEN Seam!Cancel(w) ELSE UNCHANGED seamVars
  /\ UNCHANGED <<setup, ctl, held, windows, fresh, sink, issued, ports, parent, thr>>

(***************************************************************************)
(* Notifications, renewal and observation, from any goroutine.             *)
(***************************************************************************)
\* continuationBlocked is set, and an authority told, before the invalidation.
Block == ctl' = [ctl EXCEPT !.blocked = TRUE] /\ Enter("caller", "expired")

Revoke ==
  /\ Calling("caller") /\ Block
  /\ UNCHANGED <<setup, work, seamVars, held, windows, fresh, sink, issued, ports, parent>>

\* PolicyChanged and OwnerChanged.
Changed ==
  /\ Calling("caller") /\ Block /\ RevokeSeam
  /\ UNCHANGED <<setup, work, held, windows, fresh, sink, issued, ports, parent>>

CollectorLost ==
  /\ Calling("caller") /\ invalidate("caller", "lost")
  /\ UNCHANGED <<setup, held, windows, fresh, sink, issued, ports, parent>>

CollectorLostMark ==
  /\ At("caller", "lost")
  /\ ctl' = [ctl EXCEPT !.lifecycle = IF ctl.failed THEN @ ELSE "collectorLost"]
  /\ Return("caller")
  /\ UNCHANGED <<setup, work, seamVars, held, windows, fresh, sink, issued, ports, parent>>

Snapshot ==
  /\ Calling("caller") /\ Authorized /\ ExpiredAt("caller")
  /\ UNCHANGED <<setup, held, windows, fresh, sink, issued, ports, parent>>

RenewEvidence ==
  /\ Calling("caller") /\ Authorized
  /\ ctl.open /\ ~ctl.disabled /\ ~ctl.failed /\ ~ctl.revoked /\ parent = "alive"
  /\ held["reader"] /\ held["collector"] /\ Pending = {}
  /\ thr' = [thr EXCEPT !["caller"] =
       IF authority = "open" THEN [Idle EXCEPT !.pc = "renew", !.epoch = ctl.epoch]
       ELSE [Idle EXCEPT !.pc = "expired"]]
  /\ UNCHANGED <<setup, local, held, windows, fresh, sink, issued, ports, parent>>

\* The fence is validated before, inside and after the authority's renewal.
RenewReturns ==
  /\ At("caller", "renew")
  /\ \/ ctl.open /\ FenceHeld("caller") /\ authority = "open" /\ Return("caller") /\ UNCHANGED local
     \/ invalidate("caller", "idle")
  /\ UNCHANGED <<setup, held, windows, fresh, sink, issued, ports, parent>>

(***************************************************************************)
(* The watcher of the parent context.                                      *)
(***************************************************************************)
ParentGone ==
  /\ At("watcher", "armed") /\ parent = "cancelled" /\ invalidate("watcher", "lock")
  /\ UNCHANGED <<setup, held, windows, fresh, sink, issued, ports, parent>>

WatcherLock ==
  /\ At("watcher", "lock") /\ OpFree /\ Goto("watcher", "wait")
  /\ UNCHANGED <<setup, local, held, windows, fresh, sink, issued, ports, parent>>

waitRevocations ==
  /\ At("watcher", "wait") /\ Goto("watcher", "closeCollector")
  /\ \/ Pending = {} /\ UNCHANGED local
     \/ Pending # {} /\ markCleanupFailedLocked
  /\ UNCHANGED <<setup, held, windows, fresh, sink, issued, ports, parent>>

(***************************************************************************)
(* The owners, the evidence's age and the parent.                          *)
(***************************************************************************)
OwnerExits(r) ==
  /\ owner[r] \in {"current", "stranded"}
  /\ \E o \in {"none"} \cup (IF OwnerCurrent(r) THEN {"other"} ELSE {}) :
       <<r, o>> \in Exits /\ owner' = [owner EXCEPT ![r] = o]
  /\ UNCHANGED <<setup, local, held, windows, fresh, sink, issued, granted, parent, thr>>

\* The age of proofs is looked at only while admission is open.
Expire ==
  /\ IF Authorized THEN authority = "open" /\ Seam!Revoke /\ UNCHANGED fresh
     ELSE ctl.open /\ fresh /\ fresh' = FALSE /\ UNCHANGED seamVars
  /\ UNCHANGED <<setup, ctl, work, held, windows, sink, issued, ports, parent, thr>>

ParentCancel ==
  /\ parent = "alive" /\ parent' = "cancelled"
  /\ UNCHANGED <<setup, local, held, windows, fresh, sink, issued, ports, thr>>

Startup == CreateOwner("reader") \/ CreateOwner("collector") \/ prove("reader") \/ prove("collector")
           \/ Grant \/ Authorize \/ RecheckOwners \/ OpenAdmission \/ failStart
ReaderSteps == CheckReader \/ WindowOpened \/ WindowClosed \/ ReaderRetires \/ readerRetiredDecision
               \/ IndependentProof \/ IndependentGrant \/ IndependentCheck \/ IndependentOpen
Disabling == DisableMark \/ DisableCollector \/ DisableReader \/ DisableEnd
Closing(t) == CloseCollector(t) \/ CloseReader(t) \/ CloseEnd(t)
OpSteps == Startup \/ ReaderSteps \/ Disabling \/ Closing("op")
ThreadSteps(t) == RevokeReturns(t) \/ MarkFailed(t) \/ InvalidateExpired(t)
WorkerSteps == CheckOwners \/ ClaimCommit \/ CompleteCommit
CallerSteps == CollectorLostMark \/ RenewReturns
WatcherSteps == ParentGone \/ waitRevocations \/ Closing("watcher")

Calls ==
  \/ Start \/ Disable
  \/ \E id \in Windows : OpenReaderWindow(id) \/ CloseReaderWindow(id)
  \/ \E w \in Works : QueueWork(w) \/ Ticket(w) \/ Submit(w, "claim") \/ Submit(w, "complete") \/ Cancel(w)
  \/ Revoke \/ Changed \/ CollectorLost \/ Snapshot \/ RenewEvidence
World == (\E r \in Roles : OwnerExits(r)) \/ Expire \/ ParentCancel

CSNext == OpSteps \/ (\E t \in Threads : ThreadSteps(t)) \/ WorkerSteps \/ CallerSteps
          \/ WatcherSteps \/ WatcherLock \/ Calls \/ World

CSSpec == CSInit /\ [][CSNext]_csVars

\* Port calls are bounded by contexts with deadlines, so a goroutine that is in
\* a call goes on; and sync.Mutex hands a starving waiter the lock.
CSFairness == /\ WF_csVars(OpSteps \/ \E t \in Threads : ThreadSteps(t))
              /\ WF_csVars(WatcherSteps) /\ SF_csVars(WatcherLock)

CSFairSpec == CSSpec /\ CSFairness

(***************************************************************************)
(* Properties.                                                             *)
(***************************************************************************)
\* The types of the controller's state, of its ports and of its goroutines.
CSTypeOK ==
  /\ setup \in Setups /\ parent \in {"alive", "cancelled"}
  /\ ctl \in [open : BOOLEAN, permit : {0} \cup Permits, permitEpoch : Nat, epoch : Nat,
              lifecycle : Lifecycles, revoked : BOOLEAN, blocked : BOOLEAN, started : BOOLEAN,
              disabled : BOOLEAN, failed : BOOLEAN, retired : BOOLEAN]
  /\ held \in [Roles -> BOOLEAN] /\ windows \subseteq Windows /\ fresh \in BOOLEAN
  /\ work \in [Works -> WorkStates] /\ sink \subseteq Works /\ issued \in [Works -> Nat]
  /\ owner \in [Roles -> {"none", "current", "other", "clash", "stranded"}]
  /\ granted \in [Permits -> {"none", "granted", "ended"}]
  /\ thr \in [Threads -> [pc : Places, then : Places, permit : {0} \cup Permits, epoch : Nat,
                          arg : {"none"} \cup Works \cup Windows, flag : BOOLEAN]]
  /\ Seam!SeamTypeOK

\* Work is active only while admission is open: however a claim interleaves with
\* revocations, expiry and cleanup, what closes admission also ends the work.
ActiveAdmitted == (\E w \in Works : work[w] = "active") => ctl.open

\* Admission is open only with a collector, with a reader unless it retired and
\* the collector may go on alone, before any disabling or failed cleanup, and,
\* without an authority, under a permit of this very fence the port still grants.
AdmissionBacked ==
  ctl.open =>
    /\ held["collector"] /\ ~ctl.failed /\ ~ctl.disabled /\ ~ctl.revoked
    /\ IF ctl.retired THEN setup = "independent" ELSE held["reader"]
    /\ ~Authorized => /\ ctl.permit # 0 /\ ctl.permitEpoch = ctl.epoch
                      /\ granted[ctl.permit] = "granted"

\* A permit the port grants is remembered by the controller or is being revoked
\* by a goroutine: no failure or race of startup loses one.
PermitTracked ==
  \A p \in Permits : granted[p] = "granted" =>
    ctl.permit = p \/ \E t \in Pending : thr[t].permit = p

\* The controller's sink and the authority's agree: a result is in both or in none.
SinksAgree == /\ sink = {w \in Works : work[w] = "complete"}
              /\ Authorized => sink = {w \in Works : ticket[w] = "completed"}

\* The reader is kept as long as it has windows.
WindowsHeld == windows # {} => held["reader"]

\* Once the parent's handler has finished without a failed cleanup, no window, no
\* permit and no admission is left, and no owner, of whatever identity, but one
\* whose creation the port reported as failed: the controller never learns of it.
ParentCleanup ==
  At("watcher", "done") /\ ~ctl.failed =>
    /\ NoneHeld /\ (\A r \in Roles : owner[r] \in {"none", "stranded"}) /\ windows = {} /\ ~ctl.open
    /\ \A p \in Permits : granted[p] # "granted"

\* Work that ended stays ended: no late claim, completion or cancellation changes it.
EndedWorkStays == [][\A w \in Works : work[w] \in {"complete", "cancelled"} => work'[w] = work[w]]_csVars

\* After the parent is cancelled the handler always finishes: it gets the lock
\* that the long operations hold, and waits for no revocation for ever.
ParentCleanupEnds == (parent = "cancelled" /\ ctl.started) ~> At("watcher", "done")

\* Admission in one statement: active work under open admission only, admission
\* on a proof and a permit that are current, no permit outside the revocations.
AdmissionSound == CSTypeOK /\ ActiveAdmitted /\ AdmissionBacked /\ PermitTracked

\* The controller and its ports agree: exactly the completed work reached its
\* sink, a reader with windows keeps its hold, and a parent's cleanup that reports
\* success has left nothing behind that the controller could know of.
PortsAgree == SinksAgree /\ WindowsHeld /\ ParentCleanup

\* What a cleanup that reports success may seem to say, and the code does not keep:
\* no owner at all is left, not even one whose creation failed after it was
\* registered.
NoOwnerLeft ==
  At("watcher", "done") /\ ~ctl.failed => \A r \in Roles : owner[r] = "none"
=============================================================================
