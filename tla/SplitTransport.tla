--------------------------- MODULE SplitTransport ---------------------------
(***************************************************************************)
(* The split capture transport (internal/httpapi): the UI and the engine   *)
(* queue actions, the extension in the process that owns the capture       *)
(* profile claims them and posts their results, and a helper of the UI     *)
(* brings the window of a native post to the foreground.  Every action     *)
(* pins the owner with a lease until it is answered; a new owner gets a    *)
(* new key.                                                                *)
(*                                                                         *)
(* A handler of the transport is one action per section of its mutex, or   *)
(* per call outside it.  The capture runtime and the coordinator appear    *)
(* by what the transport sees of them.  A deadline may expire at any time. *)
(***************************************************************************)
EXTENDS Naturals, Sequences, FiniteSets, SequencesExt

CONSTANTS Actions,        \* names for what may be queued
          Instances       \* the kinds and bounds to start from, see below

\* "probe": ping and probe_source_sessions; "source": open_source; "post":
\* open_native_post; "xpost": the same for the separate reader of X;
\* "cleanup" and "recapture": queued by the engine; "host": close_capture_host.
Kinds == {"probe", "source", "post", "xpost", "cleanup", "recapture", "host", "unused"}
Modes == {"browser", "reader", "headless"}

\* An instance: kinds of the actions, splitActionLimit, modes the coordinator
\* may switch to, and bounds on generations, exits of owners and closes of the reader.
\* "free" and "close" are the gate's own words.
ASSUME SplitAssumption ==
  /\ Actions \cap {"free", "close"} = {}
  /\ \A i \in Instances : /\ i.kind \in [Actions -> Kinds] /\ i.limit \in Nat \ {0}
                          /\ i.modes \subseteq Modes /\ i.first \in Modes /\ i.generations \in Nat \ {0}
                          /\ i.exits \in Nat /\ i.closes \in Nat /\ i.stop \in BOOLEAN

VARIABLES
  inst,       \* the instance, fixed
  rt,         \* the owner: state, generation and mode of the capture runtime
  tr,         \* the transport: key, what its owner negotiated, closed
  queue,      \* actions
  act,        \* pendingSplitAction of each action
  post,       \* where the handler of its request is, and what it answered
  helper,     \* where HandleReaderBroker of a click is
  conv,       \* readerBrokers: the conversation of a click
  direct,     \* where runDirectNativeReader is
  gate,       \* nativeReaderGate with its epoch and the close in progress
  ghost       \* what happened: activations and acknowledged cancellations

splitVars == <<inst, rt, tr, queue, act, post, helper, conv, direct, gate, ghost>>

Kind(a) == inst.kind[a]
Of(kinds) == {a \in Actions : Kind(a) \in kinds}
Clicks == Of({"post", "xpost"})
Requests == Of({"probe", "source", "post", "xpost"})
Jobs == Of({"cleanup", "recapture"})
Queued == ToSet(queue)
Unanswered == {a \in Queued : ~act[a].done}

NoAction == [claimed |-> FALSE, by |-> 0, admitted |-> 0, done |-> FALSE, ok |-> FALSE,
             lease |-> 0, borrowed |-> FALSE, detached |-> FALSE,
             brokered |-> FALSE, direct |-> FALSE, attached |-> FALSE, ready |-> FALSE,
             prep |-> "no", target |-> FALSE, verified |-> FALSE, manual |-> FALSE,
             told |-> "nothing"]

SplitInit ==
  /\ inst \in Instances
  /\ rt = [state |-> "ready", gen |-> 1, mode |-> inst.first, exits |-> 0]
  /\ tr = [key |-> 1, boot |-> FALSE, untracked |-> FALSE, closed |-> FALSE, direct |-> FALSE]
  /\ queue = <<>> /\ act = [a \in Actions |-> NoAction]
  /\ post = [a \in Actions |-> [pc |-> "idle", epoch |-> 0]]
  /\ helper = [a \in Actions |-> "none"] /\ conv = [a \in Actions |-> "none"]
  /\ direct = [a \in Actions |-> [pc |-> "none", ok |-> FALSE]]
  /\ gate = [holder |-> "free", epoch |-> 0, closing |-> FALSE, closer |-> "idle", closes |-> 0]
  /\ ghost = [activated |-> {}, cancelled |-> {}]
-----------------------------------------------------------------------------
(* Ownership of queued actions.                                            *)

Released(e) == [e EXCEPT !.lease = 0, !.borrowed = FALSE]

FaultRemoved(e) == [e EXCEPT !.borrowed = FALSE]
\* removeAction gives back the lease and the borrowed profile.
removeAction(e) == Released(e)
\* The queue without some actions keeps its order.
Before(a, b) == \E i, j \in DOMAIN queue : i < j /\ queue[i] = a /\ queue[j] = b
Rest(S) == {q \in [1..Cardinality(Queued \ S) -> Queued \ S] :
              /\ ToSet(q) = Queued \ S
              /\ \A i, j \in DOMAIN q : i < j => Before(q[i], q[j])}
Dequeue(S) == queue' \in Rest(S)

\* Acquire of the capture runtime.
CanAcquire == rt.state = "ready"
Leased == {a \in Actions : act[a].lease # 0}

\* The key of the owner fences its worker (authorized).
Authorized(k) == k = tr.key
\* As the coordinator knows it; a development reader is there from the start.
NativeReaderOnly == rt.mode = "reader" /\ rt.gen > 1

-----------------------------------------------------------------------------
(* The gate between native post requests and a close of the reader.        *)

GateFree == gate.holder = "free"
LeaveGate(a) == gate' = IF gate.holder = a THEN [gate EXCEPT !.holder = "free"] ELSE gate

\* A request that was waiting when a close began is refused.
Stale(a) == gate.closing \/ gate.epoch # post[a].epoch

\* beginNativeReaderAction, once the channel accepts.
EnterGate(a) ==
  /\ post[a].pc = "gate" /\ GateFree
  /\ IF Stale(a)
     THEN post' = [post EXCEPT ![a].pc = "end"] /\ UNCHANGED gate
     ELSE /\ post' = [post EXCEPT ![a].pc = IF Kind(a) = "post" THEN "borrow" ELSE "queue"]
          /\ gate' = [gate EXCEPT !.holder = a]
  /\ UNCHANGED <<inst, rt, tr, queue, act, helper, conv, direct, ghost>>

BeginClose ==
  /\ gate.closer = "idle" /\ ~gate.closing /\ gate.closes < inst.closes
  /\ gate' = [gate EXCEPT !.closing = TRUE, !.epoch = @ + 1, !.closer = "gate", !.closes = @ + 1]
  /\ UNCHANGED <<inst, rt, tr, queue, act, post, helper, conv, direct, ghost>>

CloseGate ==
  /\ gate.closer = "gate"
  /\ \/ GateFree /\ gate' = [gate EXCEPT !.holder = "close", !.closer = "check"]
     \/ gate' = [gate EXCEPT !.closing = FALSE, !.closer = "idle"]    \* the deadline
  /\ UNCHANGED <<inst, rt, tr, queue, act, post, helper, conv, direct, ghost>>

\* closeNativeReaderAndResume: no reader, an action still active, or close.
CheckClose ==
  /\ gate.closer = "check"
  /\ gate' = [gate EXCEPT !.closer = IF NativeReaderOnly /\ Unanswered \cap Clicks = {}
                                     THEN "close" ELSE "finish"]
  /\ UNCHANGED <<inst, rt, tr, queue, act, post, helper, conv, direct, ghost>>

\* The window is closed, or not; then the wait for the next owner.
CloseWindow ==
  /\ gate.closer = "close" /\ gate' = [gate EXCEPT !.closer = "finish"]
  /\ \/ rt.mode = "reader" /\ rt.state = "ready" /\ rt' = [rt EXCEPT !.state = "exited"]
     \/ UNCHANGED rt
  /\ UNCHANGED <<inst, tr, queue, act, post, helper, conv, direct, ghost>>

FinishClose ==
  /\ gate.closer = "finish"
  /\ gate' = [gate EXCEPT !.closing = FALSE, !.closer = "idle", !.holder = "free"]
  /\ UNCHANGED <<inst, rt, tr, queue, act, post, helper, conv, direct, ghost>>
-----------------------------------------------------------------------------
(* The request that queues an action and waits for its result.             *)

Cancelled(a) == conv[a] = "cancelled"
Ended(a) == post' = [post EXCEPT ![a].pc = "end"]

\* Passive probes are refused unless the collector is there; in headless
\* mode what is not interactive is answered without the queue.
Relayed(a) == Kind(a) = "probe" /\ (NativeReaderOnly \/ rt.mode = "headless" \/ rt.state # "ready")

Request(a) ==
  /\ post[a].pc = "idle" /\ a \in Requests /\ ~tr.closed
  /\ post' = [post EXCEPT ![a] =
       [epoch |-> gate.epoch,
        pc |-> CASE Relayed(a) -> "end"
                 [] a \in Clicks -> IF Cancelled(a) \/ gate.closing THEN "end" ELSE "gate"
                 [] Kind(a) = "source" -> "borrow"
                 [] OTHER -> "queue"]]
  /\ UNCHANGED <<inst, rt, tr, queue, act, helper, conv, direct, gate, ghost>>

\* The client is gone or a deadline is over before the action is queued.
GiveUp(a) ==
  /\ post[a].pc \in {"gate", "borrow"}
  /\ Ended(a) /\ LeaveGate(a)
  /\ UNCHANGED <<inst, rt, tr, queue, act, helper, conv, direct, ghost>>

\* BorrowBrowser and BorrowNativeReader of the coordinator; a source is not
\* opened in the reader.
Suits(a) == rt.mode = "browser" \/ (rt.mode = "reader" /\ Kind(a) = "post")

Borrow(a) ==
  /\ post[a].pc = "borrow" /\ CanAcquire /\ Suits(a)
  /\ act' = [act EXCEPT ![a].lease = rt.gen, ![a].borrowed = TRUE]
  /\ post' = [post EXCEPT ![a].pc = "queue"]
  /\ UNCHANGED <<inst, rt, tr, queue, helper, conv, direct, gate, ghost>>

FaultRefused(a) == \/ tr.direct /\ a \notin Clicks
                   \/ tr.closed \/ Len(queue) >= inst.limit
                   \/ (Kind(a) = "probe" /\ ~CanAcquire)
\* Reasons not to queue: a cancelled click, a reader that takes native posts
\* only, a full or closed queue, no lease for an action that borrowed none.
Refused(a) == \/ a \in Clicks /\ Cancelled(a)
              \/ tr.direct /\ a \notin Clicks
              \/ tr.closed \/ Len(queue) >= inst.limit
              \/ (Kind(a) = "probe" /\ ~CanAcquire)

Refuse(a) ==
  /\ post[a].pc = "queue" /\ Refused(a)
  /\ act' = [act EXCEPT ![a] = Released(@)]
  /\ Ended(a) /\ LeaveGate(a)
  /\ UNCHANGED <<inst, rt, tr, queue, helper, conv, direct, ghost>>

\* Posts wait for the helper of the click; the reader process and the reader
\* of X serve them without the extension.
Queue(a) ==
  /\ post[a].pc = "queue" /\ ~Refused(a)
  /\ queue' = Append(queue, a)
  /\ act' = [act EXCEPT ![a].lease = IF Kind(a) = "probe" THEN rt.gen ELSE @,
                        ![a].admitted = rt.gen,
                        ![a].brokered = (a \in Clicks),
                        ![a].direct = (Kind(a) = "xpost" \/ tr.direct)]
  /\ direct' = [direct EXCEPT ![a].pc = IF act'[a].direct THEN "attach" ELSE "none"]
  /\ post' = [post EXCEPT ![a].pc = "wait"]
  /\ UNCHANGED <<inst, rt, tr, helper, conv, gate, ghost>>

FaultLeave(a) ==
  /\ act' = [act EXCEPT ![a] = removeAction(@)] /\ Dequeue({a})
\* The deferred end of the request: a claimed action that is not answered
\* keeps its place and its lease.
Leave(a) ==
  IF act[a].claimed /\ ~act[a].done /\ ~tr.closed
  THEN act' = [act EXCEPT ![a].detached = TRUE] /\ UNCHANGED queue
  ELSE act' = [act EXCEPT ![a] = removeAction(@)] /\ Dequeue({a})

\* The result, the end of the transport, or a client or timer that ends first.
Return(a) ==
  /\ post[a].pc = "wait" /\ Leave(a) /\ Ended(a) /\ LeaveGate(a)
  /\ UNCHANGED <<inst, rt, tr, helper, conv, direct, ghost>>
-----------------------------------------------------------------------------
(* Actions of the engine: one action per job and owner, whatever the       *)
(* number of calls; the calls may end, the action stays.                   *)

Dispatch(j) ==
  /\ ~tr.closed /\ rt.state = "ready" /\ rt.mode = "browser"
  /\ j \notin Queued /\ act[j] = NoAction /\ Len(queue) < inst.limit
  /\ queue' = Append(queue, j)
  /\ act' = [act EXCEPT ![j].lease = rt.gen, ![j].admitted = rt.gen]
  /\ UNCHANGED <<inst, rt, tr, post, helper, conv, direct, gate, ghost>>

ReleaseBrowserCollectionSurfaces(j) == Kind(j) = "cleanup" /\ Dispatch(j)
DispatchBrowserMediaRecapture(j) == Kind(j) = "recapture" /\ Dispatch(j)
-----------------------------------------------------------------------------
(* The worker of owner k.                                                  *)

\* The capabilities of this owner are known from its bootstrap on.
Bootstrap(k) ==
  /\ Authorized(k) /\ ~tr.closed /\ rt.mode = "browser" /\ tr' = [tr EXCEPT !.boot = TRUE]
  /\ UNCHANGED <<inst, rt, queue, act, post, helper, conv, direct, gate, ghost>>

Offered(a) == ~act[a].direct /\ ~act[a].claimed /\ (act[a].brokered => act[a].attached)

\* The poll claims the first action that is offered.
NextAction(k) ==
  /\ Authorized(k) /\ rt.mode = "browser"
  /\ \E i \in DOMAIN queue :
       /\ Offered(queue[i]) /\ \A j \in 1..(i - 1) : ~Offered(queue[j])
       /\ act' = [act EXCEPT ![queue[i]].claimed = TRUE, ![queue[i]].by = k]
  /\ UNCHANGED <<inst, rt, tr, queue, post, helper, conv, direct, gate, ghost>>

Serving(k, a) == Authorized(k) /\ a \in Queued /\ act[a].claimed /\ act[a].by = k

\* Preparations are claimed once; the native call is outside the mutex.
PrepareSource(k, a) ==
  /\ Kind(a) = "source" /\ Serving(k, a) /\ ~act[a].done /\ act[a].prep = "no"
  /\ act' = [act EXCEPT ![a].prep = "preparing"]
  /\ UNCHANGED <<inst, rt, tr, queue, post, helper, conv, direct, gate, ghost>>

SourcePrepared(a) ==
  /\ Kind(a) = "source" /\ act[a].prep = "preparing"
  /\ \E outcome \in {"ready", "failed"} : act' = [act EXCEPT ![a].prep = outcome]
  /\ UNCHANGED <<inst, rt, tr, queue, post, helper, conv, direct, gate, ghost>>

PrepareReader(k, a) ==
  /\ Kind(a) = "post" /\ Serving(k, a) /\ ~tr.closed /\ act[a].prep = "no"
  /\ act' = [act EXCEPT ![a].prep = "preparing"]
  /\ UNCHANGED <<inst, rt, tr, queue, post, helper, conv, direct, gate, ghost>>

ReaderPrepared(a) ==
  /\ Kind(a) = "post" /\ act[a].prep = "preparing"
  /\ \E bound \in BOOLEAN :
       act' = [act EXCEPT ![a].prep = "ready", ![a].target = bound /\ ~act[a].done /\ ~tr.closed]
  /\ UNCHANGED <<inst, rt, tr, queue, post, helper, conv, direct, gate, ghost>>

\* The worker asks for the foreground once: the helper may go on.
ReaderForeground(k, a) ==
  /\ Kind(a) = "post" /\ Serving(k, a) /\ ~tr.closed /\ ~act[a].ready
  /\ act' = [act EXCEPT ![a].ready = TRUE]
  /\ UNCHANGED <<inst, rt, tr, queue, post, helper, conv, direct, gate, ghost>>

\* A native post is not successful before its foreground was verified.
Judged(a, ok) == ok /\ (Kind(a) = "post" => act[a].verified)
\* A source window whose lifetime is not tracked.
Untracked(a, ok) == Kind(a) = "source" /\ ok /\ act[a].prep # "ready"

\* One result is accepted for a claimed action.
Accepted(a) == act[a].claimed /\ ~act[a].done

Result(k, a, ok) ==
  /\ Serving(k, a) /\ Accepted(a)
  /\ tr' = [tr EXCEPT !.untracked = @ \/ Untracked(a, ok)]
  /\ act' = [act EXCEPT ![a] = [Released(@) EXCEPT !.done = TRUE, !.ok = Judged(a, ok)]]
  /\ Dequeue(IF act[a].detached THEN {a} ELSE {})
  /\ UNCHANGED <<inst, rt, post, helper, conv, direct, gate, ghost>>
-----------------------------------------------------------------------------
(* HandleReaderBroker: the helper the click launched.                      *)

\* A click has one conversation.
HelperBegin(a) ==
  /\ a \in Clicks /\ helper[a] = "none"
  /\ IF conv[a] = "none"
     THEN helper' = [helper EXCEPT ![a] = "waiting"] /\ conv' = [conv EXCEPT ![a] = "active"]
     ELSE helper' = [helper EXCEPT ![a] = "end"] /\ UNCHANGED conv
  /\ UNCHANGED <<inst, rt, tr, queue, act, post, direct, gate, ghost>>

HelperEnds(a, outcome) ==
  /\ helper' = [helper EXCEPT ![a] = "end"]
  /\ conv' = [conv EXCEPT ![a] = "cancelled"]
  /\ act' = [act EXCEPT ![a].told = IF act[a].attached THEN outcome ELSE @]

\* The loop looks for the action before it looks at its own context.
HelperAttach(a) ==
  /\ helper[a] = "waiting" /\ a \in Unanswered /\ act[a].brokered /\ ~act[a].attached
  /\ act' = [act EXCEPT ![a].attached = TRUE]
  /\ helper' = [helper EXCEPT ![a] = "attached"]
  /\ UNCHANGED <<inst, rt, tr, queue, post, conv, direct, gate, ghost>>

\* Cancelled, stopped or disconnected before the action is ready.
HelperStops(a) ==
  /\ helper[a] \in {"waiting", "attached"} /\ HelperEnds(a, "failed")
  /\ UNCHANGED <<inst, rt, tr, queue, post, direct, gate, ghost>>

\* The target is consumed before the native call.
HelperReady(a) ==
  /\ helper[a] = "attached" /\ act[a].ready
  /\ IF act[a].target
     THEN /\ helper' = [helper EXCEPT ![a] = "activate"]
          /\ act' = [act EXCEPT ![a].target = FALSE] /\ UNCHANGED conv
     ELSE HelperEnds(a, "failed")
  /\ UNCHANGED <<inst, rt, tr, queue, post, direct, gate, ghost>>

\* The window is brought forward; only a direct reader may instead navigate
\* and leave the foreground to the user.
HelperActivate(a) ==
  /\ helper[a] = "activate"
  /\ \E outcome \in {"verified", "rejected"} \cup (IF act[a].direct THEN {"manual"} ELSE {}) :
       helper' = [helper EXCEPT ![a] = outcome]
  /\ ghost' = [ghost EXCEPT !.activated = @ \cup {a}]
  /\ UNCHANGED <<inst, rt, tr, queue, act, post, conv, direct, gate>>

HelperRecord(a) ==
  /\ helper[a] \in {"verified", "manual", "rejected"}
  /\ helper' = [helper EXCEPT ![a] = "end"]
  /\ conv' = [conv EXCEPT ![a] = "cancelled"]
  /\ act' = [act EXCEPT ![a].verified = (helper[a] = "verified"),
                        ![a].manual = (helper[a] = "manual"),
                        ![a].told = IF helper[a] = "rejected" THEN "failed" ELSE "opened"]
  /\ UNCHANGED <<inst, rt, tr, queue, post, direct, gate, ghost>>

\* CancelReaderBroker: too late once the helper is attached; before, the
\* conversation and the queued action end, and no later one is admitted.
CancelReaderBroker(a) ==
  /\ a \in Clicks /\ a \notin ghost.cancelled
  /\ ~(a \in Unanswered /\ act[a].attached)
  /\ conv' = [conv EXCEPT ![a] = "cancelled"]
  /\ IF a \in Unanswered
     THEN /\ act' = [act EXCEPT ![a] = [removeAction(@) EXCEPT !.done = TRUE]]
          /\ Dequeue({a})
     ELSE UNCHANGED <<act, queue>>
  /\ ghost' = [ghost EXCEPT !.cancelled = IF act[a].attached THEN @ ELSE @ \cup {a}]
  /\ UNCHANGED <<inst, rt, tr, post, helper, direct, gate>>
-----------------------------------------------------------------------------
(* runDirectNativeReader, started with a direct action.                    *)

\* Its context ends with the request.
RequestOver(a) == post[a].pc = "end"
DirectStep(a, pc, ok) == direct' = [direct EXCEPT ![a] = [pc |-> pc, ok |-> ok]]

\* API admission alone opens nothing: wait for the helper of the same click.
DirectAttach(a) ==
  /\ direct[a].pc = "attach"
  /\ \/ /\ RequestOver(a) \/ a \notin Queued \/ tr.closed
        /\ DirectStep(a, "finish", FALSE) /\ UNCHANGED act
     \/ /\ ~RequestOver(a) /\ a \in Queued /\ ~tr.closed /\ act[a].attached
        /\ act' = [act EXCEPT ![a].claimed = TRUE] /\ DirectStep(a, "prepare", FALSE)
  /\ UNCHANGED <<inst, rt, tr, queue, post, helper, conv, gate, ghost>>

DirectPrepare(a) ==
  /\ direct[a].pc = "prepare"
  /\ \/ /\ act' = [act EXCEPT ![a].target = TRUE, ![a].ready = TRUE]
        /\ DirectStep(a, "await", FALSE)
     \/ DirectStep(a, "finish", FALSE) /\ UNCHANGED act
  /\ UNCHANGED <<inst, rt, tr, queue, post, helper, conv, gate, ghost>>

DirectAwait(a) ==
  /\ direct[a].pc = "await"
  /\ \/ act[a].told # "nothing" /\ DirectStep(a, "finish", act[a].told = "opened")
     \/ (RequestOver(a) \/ tr.closed) /\ DirectStep(a, "finish", FALSE)
  /\ UNCHANGED <<inst, rt, tr, queue, act, post, helper, conv, gate, ghost>>

FaultDirectFinish(a) ==
  /\ direct[a].pc = "finish" /\ DirectStep(a, "end", direct[a].ok)
  /\ act' = [act EXCEPT ![a] = [@ EXCEPT !.done = TRUE, !.ok = direct[a].ok, !.ready = TRUE]]
  /\ UNCHANGED <<inst, rt, tr, queue, post, helper, conv, gate, ghost>>
\* The deferred end: the action is answered, and removed if its request left.
DirectFinish(a) ==
  /\ direct[a].pc = "finish" /\ DirectStep(a, "end", direct[a].ok)
  /\ LET answered == [act[a] EXCEPT !.done = TRUE, !.ok = direct[a].ok, !.ready = TRUE]
     IN act' = [act EXCEPT ![a] = IF act[a].detached THEN removeAction(answered) ELSE answered]
  /\ Dequeue(IF act[a].detached THEN {a} ELSE {})
  /\ UNCHANGED <<inst, rt, tr, post, helper, conv, gate, ghost>>
-----------------------------------------------------------------------------
(* Replacing the owner, as the manager and the factory of the coordinator  *)
(* drive the transport.                                                    *)

Runtime(state) == rt' = [rt EXCEPT !.state = state]

\* SplitCaptureReplacementReadiness; a reader answers for its own windows.
ReplacementReadiness == rt.mode = "browser" => tr.boot /\ ~tr.closed /\ ~tr.untracked

\* Replace of the manager, up to the close of the owner.
BeginReplace ==
  /\ rt.state \in {"ready", "blocked"} /\ rt.gen < inst.generations
  /\ Leased = {} /\ ReplacementReadiness
  /\ Runtime(IF rt.mode = "browser" THEN "closing" ELSE "vacant")
  /\ UNCHANGED <<inst, tr, queue, act, post, helper, conv, direct, gate, ghost>>

HostAction == Of({"host"})
\* CloseSplitCaptureHost: busy, or one action that is never queued again.
CloseHost(a) ==
  /\ rt.state = "closing" /\ a \in HostAction
  /\ IF tr.closed \/ ~tr.boot \/ Unanswered \ {a} # {}
     THEN Runtime("blocked") /\ UNCHANGED <<queue, act>>
     ELSE /\ HostAction \cap Queued = {} /\ act[a].admitted = 0
          /\ queue' = Append(queue, a)
          /\ act' = [act EXCEPT ![a].admitted = rt.gen] /\ UNCHANGED rt
  /\ UNCHANGED <<inst, tr, post, helper, conv, direct, gate, ghost>>

\* The acknowledgement of the host and the end of its process, or neither in
\* time: the owner is kept.
HostClosed(a) ==
  /\ rt.state = "closing" /\ a \in HostAction /\ a \in Queued
  /\ \/ act[a].done /\ act[a].ok /\ Runtime("vacant")
     \/ Runtime("blocked")
  /\ UNCHANGED <<inst, tr, queue, act, post, helper, conv, direct, gate, ghost>>

Rotatable == Unanswered = {} /\ ~tr.closed
\* RotateSplitCapture, first thing in the factory; if an action is not
\* answered the launch fails and no other follows.
RotateSplitCapture(mode) ==
  /\ rt.state = "vacant"
  /\ IF Rotatable
     THEN /\ rt' = [rt EXCEPT !.state = "launching", !.gen = @ + 1, !.mode = mode]
          /\ tr' = [tr EXCEPT !.key = rt.gen + 1, !.boot = FALSE, !.untracked = FALSE,
                              !.direct = FALSE]
          /\ queue' = <<>>
     ELSE Runtime("lost") /\ UNCHANGED <<tr, queue>>
  /\ UNCHANGED <<inst, act, post, helper, conv, direct, gate, ghost>>

\* A browser is ready once its worker has negotiated; the reader installs its
\* callbacks.
Launched ==
  /\ rt.state = "launching" /\ (rt.mode = "browser" => tr.boot /\ ~tr.closed)
  /\ Runtime("ready") /\ tr' = [tr EXCEPT !.direct = (rt.mode = "reader")]
  /\ UNCHANGED <<inst, queue, act, post, helper, conv, direct, gate, ghost>>

LaunchFails ==
  /\ rt.state = "launching" /\ Runtime("lost")
  /\ UNCHANGED <<inst, tr, queue, act, post, helper, conv, direct, gate, ghost>>

\* The reader of a development build installs its callbacks after the start.
SetSplitDirectNativeReader ==
  /\ rt.state = "ready" /\ rt.mode = "reader" /\ ~tr.direct
  /\ tr' = [tr EXCEPT !.direct = TRUE]
  /\ UNCHANGED <<inst, rt, queue, act, post, helper, conv, direct, gate, ghost>>

\* The owner exits by itself; its watcher calls the exit observer.
OwnerExits ==
  /\ rt.state = "ready" /\ (rt.gen > 1 \/ rt.mode = "reader") /\ rt.exits < inst.exits
  /\ rt' = [rt EXCEPT !.state = "exited", !.exits = @ + 1]
  /\ UNCHANGED <<inst, tr, queue, act, post, helper, conv, direct, gate, ghost>>

Retired == {a \in Queued : tr.direct /\ act[a].lease = rt.gen /\ Kind(a) = "probe"}
retireReaderPassiveActions ==
  /\ rt.state = "exited" /\ Runtime("failed")
  /\ act' = [a \in Actions |-> IF a \in Retired
               THEN [removeAction(act[a]) EXCEPT !.done = TRUE] ELSE act[a]]
  /\ Dequeue(Retired)
  /\ UNCHANGED <<inst, tr, post, helper, conv, direct, gate, ghost>>

Recover ==
  /\ rt.state = "failed" /\ rt.gen > 1 /\ Leased = {} /\ rt.gen < inst.generations
  /\ Runtime("vacant")
  /\ UNCHANGED <<inst, tr, queue, act, post, helper, conv, direct, gate, ghost>>

\* close: every lease is given back, every conversation ends.
close ==
  /\ inst.stop /\ ~tr.closed /\ tr' = [tr EXCEPT !.closed = TRUE]
  /\ conv' = [a \in Actions |-> IF conv[a] = "active" THEN "cancelled" ELSE conv[a]]
  /\ act' = [a \in Actions |-> IF a \in Queued THEN Released(act[a]) ELSE act[a]]
  /\ queue' = <<>>
  /\ UNCHANGED <<inst, rt, post, helper, direct, gate, ghost>>
-----------------------------------------------------------------------------
RequestStep(a) == \/ Request(a) \/ EnterGate(a) \/ GiveUp(a) \/ Borrow(a)
                  \/ Refuse(a) \/ Queue(a) \/ Return(a)
HelperStep(a) == \/ HelperBegin(a) \/ HelperAttach(a) \/ HelperStops(a) \/ HelperReady(a)
                 \/ HelperActivate(a) \/ HelperRecord(a)
DirectReader(a) == DirectAttach(a) \/ DirectPrepare(a) \/ DirectAwait(a) \/ DirectFinish(a)
WorkerStep(k, a) == \/ PrepareSource(k, a) \/ PrepareReader(k, a) \/ ReaderForeground(k, a)
                    \/ \E ok \in BOOLEAN : Result(k, a, ok)
CloserStep == BeginClose \/ CloseGate \/ CheckClose \/ CloseWindow \/ FinishClose
OwnerStep == \/ BeginReplace \/ Launched \/ LaunchFails \/ SetSplitDirectNativeReader \/ OwnerExits \/ Recover
             \/ retireReaderPassiveActions
             \/ \E a \in Actions : CloseHost(a) \/ HostClosed(a)
             \/ \E mode \in inst.modes : RotateSplitCapture(mode)

SplitNext ==
  \/ \E a \in Actions : \/ RequestStep(a) \/ HelperStep(a) \/ DirectReader(a)
                        \/ CancelReaderBroker(a) \/ SourcePrepared(a) \/ ReaderPrepared(a)
                        \/ ReleaseBrowserCollectionSurfaces(a) \/ DispatchBrowserMediaRecapture(a)
  \/ \E k \in 1..rt.gen : Bootstrap(k) \/ NextAction(k) \/ \E a \in Actions : WorkerStep(k, a)
  \/ CloserStep \/ OwnerStep \/ close

SplitSpec == SplitInit /\ [][SplitNext]_splitVars

\* Requests and the direct reader run until their deadlines end them.
SplitFairSpec ==
  /\ SplitSpec
  /\ \A a \in Actions : /\ WF_splitVars(Return(a) \/ GiveUp(a) \/ Refuse(a) \/ Queue(a))
                        /\ WF_splitVars(DirectReader(a))
-----------------------------------------------------------------------------
(* Properties.                                                             *)

\* Types of the state.
SplitTypeOK ==
  /\ rt.gen \in 1..inst.generations /\ tr.key \in 1..inst.generations /\ rt.mode \in Modes
  /\ rt.state \in {"ready", "closing", "blocked", "vacant", "launching", "lost", "exited", "failed"}
  /\ Cardinality(Queued \ HostAction) <= inst.limit /\ IsInjective(queue)
  /\ \A a \in Actions : act[a].lease \in 0..rt.gen /\ (act[a].claimed => act[a].admitted # 0)
  /\ gate.holder \in Actions \cup {"free", "close"}

\* An owner gives way only when its worker has answered every action it was
\* given: a request that times out after the claim leaves the action and its
\* lease behind (removeAction, RotateSplitCapture), unless the transport stops.
OwnerDrained ==
  rt.state \in {"vacant", "launching"} /\ ~tr.closed =>
    \A a \in Actions : act[a].by = rt.gen => act[a].done

\* A lease or a borrowed profile belongs to a queued action or to a request
\* about to queue it: no refusal, cancellation, exit or late result loses one.
NothingLeaked ==
  \A a \in Actions : act[a].lease # 0 \/ act[a].borrowed => a \in Queued \/ post[a].pc = "queue"

\* The worker that claims an action belongs to the owner it was admitted to
\* (the key of the capture instance).
ClaimsFenced == \A a \in Actions : act[a].by # 0 => act[a].by = act[a].admitted

\* A native post is reported as opened only if the helper verified the
\* foreground, or a direct reader navigated and said so.
OpenedForReal ==
  \A a \in Clicks : act[a].ok => act[a].verified \/ (act[a].direct /\ act[a].manual)

\* The reader window is closed under no native post request
\* (beginNativeReaderAction, beginNativeReaderClose).
ClosesIdleReader == gate.closer = "close" => Unanswered \cap Clicks = {}

\* An owner is asked to close only if the lifetime of every source window it
\* opened is tracked (SplitCaptureReplacementReadiness).
SourcesTracked ==
  rt.state = "closing" =>
    \A a \in Of({"source"}) : act[a].by = tr.key /\ act[a].ok => act[a].prep = "ready"

\* A claim and an accepted result are final: nothing is claimed twice, no
\* second result replaces the first ("at-most-once claims never replay").
AtMostOnce ==
  [][\A a \in Actions :
       /\ act[a].claimed => act'[a].claimed /\ act'[a].by = act[a].by
       /\ act[a].done => act'[a].done /\ act'[a].ok = act[a].ok]_splitVars

\* A click whose cancellation was acknowledged before the helper attached is
\* never brought to the foreground.
CancelledStaysClosed ==
  [][\A a \in ghost.cancelled : a \in ghost.activated' => a \in ghost.activated]_splitVars

\* Once its request is over, the lease of an action comes back, unless the
\* extension has claimed it and never answers.
LeasesReturn ==
  \A a \in Actions :
    (post[a].pc = "end") ~> (act[a].lease = 0 \/ (act[a].by # 0 /\ ~act[a].done))

\* What an action holds and who may claim, open and close.
TransportSound ==
  SplitTypeOK /\ NothingLeaked /\ ClaimsFenced /\ OpenedForReal /\ ClosesIdleReader

\* An owner closes only with its source windows tracked, and gives way only with
\* its actions answered.
OwnerHandedOver == SourcesTracked /\ OwnerDrained

\* Claims, results and acknowledged cancellations are final.
AnswersFinal == AtMostOnce /\ CancelledStaysClosed
=============================================================================
