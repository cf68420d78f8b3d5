---------------------------- MODULE LivingTopics ----------------------------
(***************************************************************************)
(* Living Topics: internal/store/living_topics.go and its companions for   *)
(* moves, routing, activation and understanding, driven by                 *)
(* internal/engine/living_topics.go and library_removal.go.                *)
(*                                                                         *)
(* A topic has criteria (a revision), members and two derived states: its  *)
(* understanding, synthesised from criteria and members, and its           *)
(* activation, a scan of the library for candidates under the current      *)
(* criteria.  Each derivation, and the routing of new Timeline posts, is a *)
(* durable job table with at most one worker goroutine: "u", "a" and "r".  *)
(* A request commits its change first and queues the derivation afterwards,*)
(* in calls of its own, so that other requests, the workers and a crash    *)
(* come in between.  A store transaction is one step.                      *)
(*                                                                         *)
(* An item stands for a Timeline post and for the memory item it resolves  *)
(* to.  The digest of the input of an understanding is the revision with   *)
(* the members still in the library, each with the version of its content. *)
(***************************************************************************)
EXTENDS Naturals, Sequences, FiniteSets

CONSTANTS
    Topics,
    Items,
    Clients,      \* concurrent requests
    MaxMembers,   \* LivingTopicMaxMembers
    Instances     \* the instances of a check, one of them chosen in Init: the
                  \* operations, requests and answers in play, the topics, the
                  \* library and the members at first, and the bounds on requests, crashes, stops, revisions

Operations == {"create", "criteria", "activate", "review", "add", "remove", "move",
               "undo", "refresh", "library", "touch", "less", "route"}

(* What the provider may answer. *)
Answers == {"ready", "insufficient_evidence", "failed"}

(* The empty value is no topic.  The topics at first are there, and their members are
   in the library and no more than they may have. *)
ASSUME TopicAssumption ==
    /\ MaxMembers \in Nat /\ IsFiniteSet(Items) /\ "none" \notin Topics
    /\ Instances \subseteq [ops : SUBSET Operations, clients : SUBSET Clients, made : SUBSET Topics,
                            lib : SUBSET Items, held : SUBSET (Topics \X Items),
                            answers : SUBSET Answers, requests : Nat, crashes : Nat,
                            stops : Nat, revisions : Nat]
    /\ \A x \in Instances : x.held \subseteq x.made \X x.lib
    /\ \A x \in Instances, t \in Topics :
         Cardinality({i \in Items : <<t, i>> \in x.held}) <= MaxMembers

VARIABLES
    inst,      \* the instance, never changed
    topic,     \* the living_topics rows
    lib,       \* active memory items
    gone,      \* items removed from the library, or retracted by a Less
    version,   \* the content of each item, as it counts for a digest; 0: its row is deleted
    member,    \* living_topic_memberships
    verdict,   \* the latest living_topic_feedback_events verdict of a pair
    moves,     \* living_topic_membership_moves
    cand,      \* the candidate evaluations of the current revision
    snap,      \* the digest of the latest published snapshot
    uq,        \* pending understanding rows, by queued_at
    urun,      \* the running one
    aq,        \* pending activation rows, by queued_at
    arun,      \* the running one
    orphan,    \* the rows of "u" and "a" that a cancelled goroutine left running
    rstat,     \* the routing job of each post
    worker,    \* the three goroutines
    checks,    \* goroutines retired but still to look for pending rows
    thread,    \* the calls each request still has to make
    process,   \* up, stopping or down
    lost,      \* ghost: topics changed with no queue call, or whose call was lost,
               \* and not read since
    stuck,     \* ghost: topics marked pending after their job had finished
    spent      \* requests, crashes and stops so far

vars == <<inst, topic, lib, gone, version, member, verdict, moves, cand, snap, uq, urun, aq, arun,
          orphan, rstat, worker, checks, thread, process, lost, stuck, spent>>

rows == <<topic, lib, gone, version, member, verdict, moves, cand, snap>>
queues == <<uq, urun, aq, arun, orphan, rstat>>
threads == <<worker, checks, thread, process>>
ghosts == <<lost, stuck>>

-----------------------------------------------------------------------------
Kinds == {"u", "a", "r"}
Modes == {"none", "manual", "candidate", "automatic", "move"}
CandidateStates == {"none", "suggested", "accepted", "rejected", "not_matched"}

NoMember == [mode |-> "none", move |-> 0]
NoDigest == <<0, {}>>
NoJob == [t |-> "none", n |-> 0]
Idle == [pc |-> "off"]

Exists(t) == topic[t].rev > 0
AllMembers(t) == {i \in Items : member[t][i].mode # "none"}
LiveMembers(t) == AllMembers(t) \cap lib

(* livingTopicInputDigest over LivingTopicDetail *)
Digest(t) == <<topic[t].rev, {<<i, version[i]>> : i \in LiveMembers(t)}>>

Held(t) == {i \in Items : <<t, i>> \in inst.held}
HeldDigest(t) == <<1, {<<i, 1>> : i \in Held(t)}>>

HasRoom(t, i) == member[t][i].mode # "none" \/ Cardinality(AllMembers(t)) < MaxMembers

Without(q, k) == SubSeq(q, 1, k - 1) \o SubSeq(q, k + 1, Len(q))

(* The calls a request makes after its transaction. *)
Understand(t, forced) ==
    <<[op |-> "uqueue", t |-> t, n |-> IF forced THEN 1 ELSE 0], [op |-> "ulaunch"]>>
Activate(t) == <<[op |-> "aread", t |-> t], [op |-> "alaunch"]>>

UPending(t) == \E k \in DOMAIN uq : uq[k].t = t
AJob(t) == [t |-> t, n |-> topic[t].rev]
ABacked(t) == AJob(t) \in {arun, orphan["a"]} \/ \E k \in DOMAIN aq : aq[k] = AJob(t)

Init ==
    /\ inst \in Instances
    /\ topic = [t \in Topics |->
                  IF t \in inst.made
                  THEN [rev |-> 1, udigest |-> HeldDigest(t), rstatus |-> "current",
                        ustatus |-> IF Held(t) = {} THEN "insufficient_evidence" ELSE "current"]
                  ELSE [rev |-> 0, ustatus |-> "idle", udigest |-> NoDigest, rstatus |-> "idle"]]
    /\ lib = inst.lib
    /\ gone = {}
    /\ version = [i \in Items |-> 1]
    /\ member = [t \in Topics |-> [i \in Items |->
                   IF <<t, i>> \in inst.held THEN [mode |-> "manual", move |-> 0] ELSE NoMember]]
    /\ verdict = [t \in Topics |-> [i \in Items |-> "none"]]
    /\ moves = << >>
    /\ cand = [t \in Topics |-> [i \in Items |-> "none"]]
    /\ snap = [t \in Topics |-> IF Held(t) = {} THEN NoDigest ELSE HeldDigest(t)]
    /\ uq = << >> /\ urun = NoJob
    /\ aq = << >> /\ arun = NoJob
    /\ orphan = [k \in {"u", "a"} |-> NoJob]
    /\ rstat = [i \in Items |-> "none"]
    /\ worker = [k \in Kinds |-> Idle]
    /\ checks = [k \in Kinds |-> 0]
    /\ thread = [c \in Clients |-> << >>]
    /\ process = "up"
    /\ lost = {} /\ stuck = {}
    /\ spent = [requests |-> 0, crashes |-> 0, stops |-> 0]

-----------------------------------------------------------------------------
(* Requests: the change, then the calls it still owes *)

Request(c, op) ==
    /\ process = "up" /\ thread[c] = << >>
    /\ op \in inst.ops /\ c \in inst.clients
    /\ spent.requests < inst.requests
    /\ spent' = [spent EXCEPT !.requests = @ + 1]

Owes(c, calls) == thread' = [thread EXCEPT ![c] = calls]

(* CreateLivingTopicWithRoutingCriteria *)
Create(c, t) ==
    /\ Request(c, "create") /\ ~Exists(t)
    /\ topic' = [topic EXCEPT ![t].rev = 1]
    /\ Owes(c, Activate(t) \o Understand(t, FALSE))
    /\ UNCHANGED <<inst, lib, gone, version, member, verdict, moves, cand, snap, queues, worker, checks,
                   process, ghosts>>

(* UpdateLivingTopicRoutingCriteria with criteria that differ; the candidates of
   the earlier revisions are never read again. *)
UpdateCriteria(c, t) ==
    /\ Request(c, "criteria") /\ Exists(t)
    /\ topic[t].rev < inst.revisions
    /\ topic' = [topic EXCEPT ![t].rev = @ + 1, ![t].rstatus = "pending"]
    /\ cand' = [cand EXCEPT ![t] = [i \in Items |-> "none"]]
    /\ Owes(c, Activate(t) \o Understand(t, FALSE))
    /\ UNCHANGED <<inst, lib, gone, version, member, verdict, moves, snap, queues, worker, checks, process, ghosts>>

RequestActivation(c, t) ==
    /\ Request(c, "activate") /\ Exists(t)
    /\ Owes(c, Activate(t))
    /\ UNCHANGED <<inst, rows, queues, worker, checks, process, ghosts>>

RequestUnderstanding(c, t) ==
    /\ Request(c, "refresh") /\ Exists(t)
    /\ Owes(c, Understand(t, TRUE))
    /\ UNCHANGED <<inst, rows, queues, worker, checks, process, ghosts>>

(* AddLivingTopicMember: an existing membership becomes a manual one. *)
AddMember(c, t, i) ==
    /\ Request(c, "add") /\ Exists(t)
    /\ i \in lib /\ HasRoom(t, i)
    /\ member' = [member EXCEPT ![t][i] = [mode |-> "manual", move |-> 0]]
    /\ verdict' = [verdict EXCEPT ![t][i] = "include"]
    /\ Owes(c, Understand(t, FALSE))
    /\ UNCHANGED <<inst, topic, lib, gone, version, moves, cand, snap, queues, worker, checks, process, ghosts>>

(* RemoveLivingTopicMember *)
RemoveMember(c, t, i) ==
    /\ Request(c, "remove") /\ Exists(t)
    /\ member[t][i].mode # "none"
    /\ member' = [member EXCEPT ![t][i] = NoMember]
    /\ verdict' = [verdict EXCEPT ![t][i] = "exclude"]
    /\ Owes(c, Understand(t, FALSE))
    /\ UNCHANGED <<inst, topic, lib, gone, version, moves, cand, snap, queues, worker, checks, process, ghosts>>

(* MoveLivingTopicMember: the membership of the source is kept in the move. *)
MoveMember(c, s, t, i) ==
    /\ Request(c, "move") /\ Exists(s) /\ Exists(t) /\ s # t
    /\ i \in lib /\ member[s][i].mode # "none" /\ HasRoom(t, i)
    /\ moves' = Append(moves, [i |-> i, from |-> s, to |-> t, source |-> member[s][i],
                               pre |-> member[t][i].mode # "none", undone |-> FALSE])
    /\ member' = [member EXCEPT ![s][i] = NoMember,
                                ![t][i] = IF @.mode # "none" THEN @
                                          ELSE [mode |-> "move", move |-> Len(moves) + 1]]
    /\ verdict' = [verdict EXCEPT ![s][i] = "exclude", ![t][i] = "include"]
    /\ Owes(c, Understand(s, FALSE) \o Understand(t, FALSE))
    /\ UNCHANGED <<inst, topic, lib, gone, version, cand, snap, queues, worker, checks, process, ghosts>>

ActiveMoves(i) == {k \in DOMAIN moves : moves[k].i = i /\ ~moves[k].undone}

(* Only the latest move of the item that is not undone. *)
IsLatestMove(k) == \A j \in ActiveMoves(moves[k].i) : j <= k

Undoable(k) == ~moves[k].undone /\ IsLatestMove(k)

(* Fault for MoveIdLive: the membership the move made stays. *)
UndoMoveKeeps(c, k) ==
    LET m == moves[k] IN
    /\ Request(c, "undo") /\ Undoable(k)
    /\ m.i \in lib
    /\ member[m.from][m.i].mode = "none" /\ Cardinality(AllMembers(m.from)) < MaxMembers
    /\ member' = [member EXCEPT ![m.from][m.i] = m.source]
    /\ verdict' = [verdict EXCEPT ![m.from][m.i] = "clear", ![m.to][m.i] = "clear"]
    /\ moves' = [moves EXCEPT ![k].undone = TRUE]
    /\ Owes(c, Understand(m.from, FALSE) \o Understand(m.to, FALSE))
    /\ UNCHANGED <<inst, topic, lib, gone, version, cand, snap, queues, worker, checks, process, ghosts>>

(* UndoLivingTopicMemberMove *)
UndoMove(c, k) ==
    LET m == moves[k] IN
    /\ Request(c, "undo") /\ Undoable(k)
    /\ m.i \in lib
    /\ member[m.from][m.i].mode = "none" /\ Cardinality(AllMembers(m.from)) < MaxMembers
    /\ member' = [member EXCEPT ![m.to][m.i] = IF ~m.pre /\ @.move = k THEN NoMember ELSE @,
                                ![m.from][m.i] = m.source]
    /\ verdict' = [verdict EXCEPT ![m.from][m.i] = "clear", ![m.to][m.i] = "clear"]
    /\ moves' = [moves EXCEPT ![k].undone = TRUE]
    /\ Owes(c, Understand(m.from, FALSE) \o Understand(m.to, FALSE))
    /\ UNCHANGED <<inst, topic, lib, gone, version, cand, snap, queues, worker, checks, process, ghosts>>

-----------------------------------------------------------------------------
(* ReviewLivingTopicCandidate *)

Reviewed(c, t, i, status, v) ==
    /\ cand' = [cand EXCEPT ![t][i] = status]
    /\ verdict' = [verdict EXCEPT ![t][i] = v]
    /\ Owes(c, Understand(t, FALSE))
    /\ UNCHANGED <<inst, topic, lib, gone, version, moves, snap, queues, worker, checks, process, ghosts>>

(* Only the membership the acceptance made goes with it. *)
DropAccepted(t, i) ==
    member' = IF cand[t][i] = "accepted" /\ member[t][i].mode = "candidate"
              THEN [member EXCEPT ![t][i] = NoMember] ELSE member

Accept(c, t, i) ==
    /\ Request(c, "review") /\ cand[t][i] \in {"suggested", "rejected"}
    /\ i \in lib /\ HasRoom(t, i)
    /\ member' = [member EXCEPT ![t][i] = IF @.mode # "none" THEN @
                                          ELSE [mode |-> "candidate", move |-> 0]]
    /\ Reviewed(c, t, i, "accepted", "include")

Reject(c, t, i) ==
    /\ Request(c, "review") /\ cand[t][i] \in {"suggested", "accepted"}
    /\ DropAccepted(t, i)
    /\ Reviewed(c, t, i, "rejected", "exclude")

UndoReview(c, t, i) ==
    /\ Request(c, "review") /\ cand[t][i] \in {"accepted", "rejected"}
    /\ DropAccepted(t, i)
    /\ Reviewed(c, t, i, "suggested", "clear")

-----------------------------------------------------------------------------
(* RemoveLibraryItem and ForgetLibraryItem: the topics are read first, without
   e.operation, and the removal is a transaction of its own. *)
ReadTopics(c, i) ==
    /\ Request(c, "library") /\ i \in lib
    /\ Owes(c, <<[op |-> "removal", i |-> i, topics |-> {t \in Topics : i \in AllMembers(t)}]>>)
    /\ UNCHANGED <<inst, rows, queues, worker, checks, process, ghosts>>

(* The topics that came to hold the item since are told by nobody. *)
Removal(c) ==
    /\ thread[c] # << >> /\ Head(thread[c]).op = "removal"
    /\ LET r == Head(thread[c]) IN
       IF r.i \in lib
       THEN /\ lib' = lib \ {r.i}
            /\ gone' = gone \cup {r.i}
            /\ member' = [t \in Topics |-> [member[t] EXCEPT ![r.i] = NoMember]]
            /\ Owes(c, <<[op |-> "uqueues", topics |-> r.topics]>> \o Tail(thread[c]))
            /\ lost' = lost \cup {t \in Topics : r.i \in AllMembers(t) /\ t \notin r.topics}
       ELSE /\ Owes(c, Tail(thread[c]))
            /\ UNCHANGED <<lib, gone, member, lost>>
    /\ UNCHANGED <<inst, topic, version, verdict, moves, cand, snap, queues, worker, checks,
                   process, stuck, spent>>

(* The next of the topics read, in the order of their identifiers. *)
NextRemoved(c) ==
    /\ thread[c] # << >> /\ Head(thread[c]).op = "uqueues"
    /\ LET ts == Head(thread[c]).topics IN
       \/ ts = {} /\ Owes(c, Tail(thread[c]))
       \/ \E t \in ts : Owes(c, Understand(t, FALSE) \o <<[op |-> "uqueues", topics |-> ts \ {t}]>>
                                   \o Tail(thread[c]))
    /\ UNCHANGED <<inst, rows, queues, worker, checks, process, ghosts, spent>>

-----------------------------------------------------------------------------
(* What the library does to the members without a word to their topics *)

Unannounced(i) == lost' = lost \cup {t \in Topics : i \in AllMembers(t)}

(* Keep, Read later, Done, Release and a new capture rewrite what
   livingTopicInputDigest takes of the item: its update time at least. *)
Touch(c, i) ==
    /\ Request(c, "touch") /\ i \in lib
    /\ version' = [version EXCEPT ![i] = @ + 1]
    /\ Owes(c, << >>)
    /\ Unannounced(i)
    /\ UNCHANGED <<inst, topic, lib, gone, member, verdict, moves, cand, snap, queues, worker, checks,
                   process, stuck>>

(* retractRoutineMoreMemoryTx: the row and its evaluations go, the memberships stay.
   What routing remembered has provenance of its own (AddAutomaticLivingTopicMember)
   and is kept; whether an item of the library has anything else to stay for is a
   question of PersonalMemory's. *)
Less(c, i) ==
    /\ Request(c, "less") /\ i \in lib \cap inst.lib
    /\ rstat[i] \notin {"pending", "running"}   \* bound: a post at routing would be remembered anew
    /\ lib' = lib \ {i}
    /\ gone' = gone \cup {i}
    /\ version' = [version EXCEPT ![i] = 0]
    /\ cand' = [t \in Topics |-> [cand[t] EXCEPT ![i] = "none"]]
    /\ Owes(c, << >>)
    /\ Unannounced(i)
    /\ UNCHANGED <<inst, topic, member, verdict, moves, snap, queues, worker, checks, process, stuck>>

-----------------------------------------------------------------------------
(* Queueing and launching *)

(* QueueLivingTopicUnderstanding: one pending row a topic, next to a running one;
   a pending row takes the new trigger and the new time. *)
UQueued(t, forced) ==
    LET row == [t |-> t, n |-> forced]
        old == {k \in DOMAIN uq : uq[k].t = t}
        k == CHOOSE k \in old : \A j \in old : j <= k
    IN  IF old = {} THEN Append(uq, row) ELSE Append(Without(uq, k), row)

(* Fault for UnderstandingCatchesUp: a running row stands for the request. *)
QueueUnlessRunning(t, forced) ==
    /\ IF urun.t = t THEN UNCHANGED <<uq, topic>>
       ELSE uq' = UQueued(t, forced) /\ topic' = [topic EXCEPT ![t].ustatus = "pending"]
    /\ lost' = lost \ {t}

QueueUnderstanding(t, forced) ==
    /\ uq' = UQueued(t, forced)
    /\ topic' = [topic EXCEPT ![t].ustatus = "pending"]
    /\ lost' = lost \ {t}

(* The launches: an active goroutine is left to it. *)
Launched(k) ==
    IF worker[k].pc # "off" THEN worker
    ELSE [worker EXCEPT ![k] = [pc |-> "claim", cancelled |-> FALSE, left |-> {}, dirty |-> {},
                                out |-> "none", seen |-> NoDigest]]

CallQueueUnderstanding(c) ==
    /\ thread[c] # << >> /\ Head(thread[c]).op = "uqueue"
    /\ QueueUnderstanding(Head(thread[c]).t, Head(thread[c]).n)
    /\ Owes(c, Tail(thread[c]))
    /\ UNCHANGED <<inst, lib, gone, version, member, verdict, moves, cand, snap, urun, aq, arun, orphan,
                   rstat, worker, checks, process, stuck, spent>>

(* QueueLivingTopicActivation reads the revision, *)
CallReadRevision(c) ==
    /\ thread[c] # << >> /\ Head(thread[c]).op = "aread"
    /\ LET t == Head(thread[c]).t IN
       Owes(c, <<[op |-> "ainsert", t |-> t, n |-> topic[t].rev]>> \o Tail(thread[c]))
    /\ UNCHANGED <<inst, rows, queues, worker, checks, process, ghosts, spent>>

(* writes the row, which stays as it is while it is marked running, *)
CallQueueActivation(c) ==
    /\ thread[c] # << >> /\ Head(thread[c]).op = "ainsert"
    /\ LET job == [t |-> Head(thread[c]).t, n |-> Head(thread[c]).n]
           old == {k \in DOMAIN aq : aq[k] = job}
       IN  /\ aq' = IF job \in {arun, orphan["a"]} THEN aq
                    ELSE Append(IF old = {} THEN aq ELSE Without(aq, CHOOSE k \in old : TRUE), job)
           /\ Owes(c, <<[op |-> "astatus", t |-> job.t, n |-> job.n]>> \o Tail(thread[c]))
    /\ UNCHANGED <<inst, rows, uq, urun, arun, orphan, rstat, worker, checks, process, ghosts, spent>>

(* and marks the topic, in a statement of its own. *)
CallMarkPending(c) ==
    /\ thread[c] # << >> /\ Head(thread[c]).op = "astatus"
    /\ LET t == Head(thread[c]).t
           now == topic[t].rev = Head(thread[c]).n
       IN  /\ topic' = IF now THEN [topic EXCEPT ![t].rstatus = "pending"] ELSE topic
           /\ stuck' = IF now /\ ~ABacked(t) THEN stuck \cup {t} ELSE stuck
    /\ Owes(c, Tail(thread[c]))
    /\ UNCHANGED <<inst, lib, gone, version, member, verdict, moves, cand, snap, queues, worker, checks,
                   process, lost, spent>>

LaunchOf == [ulaunch |-> "u", alaunch |-> "a", rlaunch |-> "r"]

CallLaunch(c) ==
    /\ thread[c] # << >> /\ Head(thread[c]).op \in DOMAIN LaunchOf
    /\ worker' = Launched(LaunchOf[Head(thread[c]).op])
    /\ Owes(c, Tail(thread[c]))
    /\ UNCHANGED <<inst, rows, queues, checks, process, ghosts, spent>>

(* A finalized session, or a restored post, has its posts queued for routing; a post
   a Less retracted would be another item. *)
QueueRouting(c, i) ==
    /\ Request(c, "route") /\ rstat[i] = "none" /\ version[i] # 0
    /\ \E t \in Topics : Exists(t)
    /\ rstat' = [rstat EXCEPT ![i] = "pending"]
    /\ Owes(c, <<[op |-> "rlaunch"]>>)
    /\ UNCHANGED <<inst, rows, uq, urun, aq, arun, orphan, worker, checks, process, ghosts>>

-----------------------------------------------------------------------------
(* The deferred end of a goroutine *)

Goto(k, pc) == worker' = [worker EXCEPT ![k].pc = pc]

(* The key is retired; unless the engine stops, pending rows are looked for. *)
Retire(k) ==
    /\ worker[k].pc = "retire"
    /\ worker' = IF k = "r" /\ worker[k].dirty # {} /\ process = "up"
                 THEN [worker EXCEPT !["r"] = Idle, !["u"] = Launched("u")["u"]]
                 ELSE [worker EXCEPT ![k] = Idle]
    /\ checks' = IF process = "up" THEN [checks EXCEPT ![k] = @ + 1] ELSE checks
    /\ UNCHANGED <<inst, rows, queues, thread, process, ghosts, spent>>

HasPending(k) ==
    CASE k = "u" -> uq # << >>
      [] k = "a" -> aq # << >>
      [] k = "r" -> \E i \in Items : rstat[i] = "pending"

(* Fault for QueuesDrain: nothing looks for rows queued at the last moment. *)
RecheckNothing(k) ==
    /\ checks[k] > 0
    /\ checks' = [checks EXCEPT ![k] = @ - 1]
    /\ UNCHANGED <<inst, rows, queues, worker, thread, process, ghosts, spent>>

Recheck(k) ==
    /\ checks[k] > 0
    /\ checks' = [checks EXCEPT ![k] = @ - 1]
    /\ worker' = IF HasPending(k) THEN Launched(k) ELSE worker
    /\ UNCHANGED <<inst, rows, queues, thread, process, ghosts, spent>>

-----------------------------------------------------------------------------
(* The understanding worker *)

UStep(pc) == worker["u"].pc = pc

(* ClaimLivingTopicUnderstanding *)
ClaimUnderstanding ==
    /\ UStep("claim")
    /\ IF uq = << >> \/ worker["u"].cancelled
       THEN Goto("u", "retire") /\ UNCHANGED <<uq, urun, topic>>
       ELSE /\ urun' = Head(uq)
            /\ uq' = Tail(uq)
            /\ topic' = [topic EXCEPT ![Head(uq).t].ustatus = "running"]
            /\ Goto("u", "read")
    /\ UNCHANGED <<inst, lib, gone, version, member, verdict, moves, cand, snap, aq, arun, orphan, rstat,
                   checks, thread, process, ghosts, spent>>

(* evaluateLivingTopicUnderstanding reads its input, the present topic, and decides
   whether the provider is asked. *)
ReadInput ==
    /\ UStep("read")
    /\ LET t == urun.t
           same == urun.n = 0 /\ topic[t].udigest = Digest(t)
       IN  worker' = [worker EXCEPT
                        !["u"].pc = IF worker["u"].cancelled \/ same \/ LiveMembers(t) = {}
                                    THEN "done" ELSE "ask",
                        !["u"].seen = Digest(t),
                        !["u"].out = CASE same -> "no_change"
                                       [] LiveMembers(t) = {} -> "insufficient_evidence"
                                       [] OTHER -> "none"]
    /\ lost' = lost \ {urun.t}
    /\ UNCHANGED <<inst, rows, queues, checks, thread, process, stuck, spent>>

(* The provider answers, declines or fails. *)
Ask(answer) ==
    /\ UStep("ask")
    /\ IF worker["u"].cancelled THEN answer = "failed" ELSE answer \in inst.answers
    /\ worker' = [worker EXCEPT !["u"].pc = IF answer = "ready" THEN "save" ELSE "done",
                                !["u"].out = answer]
    /\ UNCHANGED <<inst, rows, queues, checks, thread, process, ghosts, spent>>

(* SaveLivingTopicSnapshot *)
SaveSnapshot ==
    /\ UStep("save")
    /\ snap' = IF worker["u"].cancelled THEN snap ELSE [snap EXCEPT ![urun.t] = worker["u"].seen]
    /\ Goto("u", "done")
    /\ UNCHANGED <<inst, topic, lib, gone, version, member, verdict, moves, cand, queues, checks, thread,
                   process, ghosts, spent>>

Understood(out) ==
    CASE out = "failed" -> "failed"
      [] out = "insufficient_evidence" -> out
      [] OTHER -> "current"

(* FinishLivingTopicUnderstanding: the digest is the one that was read. *)
FinishedRow(t) ==
    [topic[t] EXCEPT !.ustatus = IF UPending(t) THEN "pending" ELSE Understood(worker["u"].out),
                     !.udigest = IF worker["u"].out = "failed" THEN @ ELSE worker["u"].seen]

(* A cancelled goroutine leaves its row running. *)
FinishUnderstanding ==
    /\ UStep("done")
    /\ IF worker["u"].cancelled
       THEN Goto("u", "retire") /\ orphan' = [orphan EXCEPT !["u"] = urun] /\ UNCHANGED topic
       ELSE /\ topic' = [topic EXCEPT ![urun.t] = FinishedRow(urun.t)]
            /\ Goto("u", "claim") /\ UNCHANGED orphan
    /\ urun' = NoJob
    /\ UNCHANGED <<inst, lib, gone, version, member, verdict, moves, cand, snap, uq, aq, arun, rstat, checks,
                   thread, process, ghosts, spent>>

-----------------------------------------------------------------------------
(* The activation worker *)

AStep(pc) == worker["a"].pc = pc

(* ClaimLivingTopicActivation: the topic is marked only at the row's revision. *)
ClaimActivation ==
    /\ AStep("claim")
    /\ IF aq = << >> \/ worker["a"].cancelled
       THEN Goto("a", "retire") /\ UNCHANGED <<aq, arun, topic>>
       ELSE LET job == Head(aq) IN
            /\ arun' = job
            /\ aq' = Tail(aq)
            /\ topic' = [topic EXCEPT ![job.t].rstatus = IF topic[job.t].rev = job.n THEN "running" ELSE @]
            /\ Goto("a", "read")
    /\ UNCHANGED <<inst, lib, gone, version, member, verdict, moves, cand, snap, uq, urun, orphan, rstat,
                   checks, thread, process, ghosts, spent>>

(* activateLivingTopic reads the topic, then the items that are no members: a
   stale revision ends the job. *)
ReadLibrary ==
    /\ AStep("read")
    /\ worker' = [worker EXCEPT !["a"].pc = IF topic[arun.t].rev # arun.n \/ worker["a"].cancelled
                                            THEN "done" ELSE "decide",
                                !["a"].left = lib \ AllMembers(arun.t),
                                !["a"].out = "none"]
    /\ UNCHANGED <<inst, rows, queues, checks, thread, process, ghosts, spent>>

(* Fault for ReviewKept: a decision overwrites a review. *)
DecidedOver(t, i, status) == [cand EXCEPT ![t][i] = status]

(* SaveLivingTopicCandidateDecision at the revision of the job; a review stands. *)
Decided(t, i, status) ==
    IF topic[t].rev # arun.n \/ cand[t][i] \in {"accepted", "rejected"} THEN cand
    ELSE [cand EXCEPT ![t][i] = status]

(* The next item: not in the shortlist, matched or not matched. *)
Decide(i) ==
    /\ AStep("decide") /\ ~worker["a"].cancelled
    /\ i \in worker["a"].left
    /\ \/ cand' = cand
       \/ \E status \in {"suggested", "not_matched"} : cand' = Decided(arun.t, i, status)
    /\ worker' = [worker EXCEPT !["a"].left = @ \ {i}]
    /\ UNCHANGED <<inst, topic, lib, gone, version, member, verdict, moves, snap, queues, checks, thread,
                   process, ghosts, spent>>

(* All items are decided, or an error of the store ends the scan. *)
EndScan(out) ==
    /\ AStep("decide")
    /\ \/ out = "none" /\ worker["a"].left = {}
       \/ out = "failed" /\ worker["a"].left # {}
    /\ worker' = [worker EXCEPT !["a"].pc = "done", !["a"].out = out, !["a"].left = {}]
    /\ UNCHANGED <<inst, rows, queues, checks, thread, process, ghosts, spent>>

Activated(t) ==
    IF topic[t].rev # arun.n THEN topic[t]
    ELSE [topic[t] EXCEPT !.rstatus = IF worker["a"].out = "failed" THEN "failed" ELSE "current"]

(* FinishLivingTopicActivation *)
FinishActivation ==
    /\ AStep("done")
    /\ IF worker["a"].cancelled
       THEN /\ Goto("a", "retire") /\ orphan' = [orphan EXCEPT !["a"] = arun]
            /\ UNCHANGED <<topic, stuck>>
       ELSE /\ topic' = [topic EXCEPT ![arun.t] = Activated(arun.t)]
            /\ stuck' = IF topic[arun.t].rev = arun.n THEN stuck \ {arun.t} ELSE stuck
            /\ Goto("a", "claim") /\ UNCHANGED orphan
    /\ arun' = NoJob
    /\ UNCHANGED <<inst, lib, gone, version, member, verdict, moves, cand, snap, uq, urun, aq, rstat, checks,
                   thread, process, lost, spent>>

-----------------------------------------------------------------------------
(* The routing worker *)

RStep(pc) == worker["r"].pc = pc

(* ClaimLivingTopicRouting; the posts of a session are queued at one instant. *)
ClaimRouting ==
    /\ RStep("claim")
    /\ \/ /\ ~HasPending("r") \/ worker["r"].cancelled
          /\ Goto("r", "queue") /\ UNCHANGED rstat
       \/ \E i \in Items :
            /\ rstat[i] = "pending" /\ ~worker["r"].cancelled
            /\ rstat' = [rstat EXCEPT ![i] = "running"]
            /\ worker' = [worker EXCEPT !["r"].pc = "match", !["r"].seen = i]
    /\ UNCHANGED <<inst, rows, uq, urun, aq, arun, orphan, checks, thread, process, ghosts, spent>>

(* routeLivingTopicItem: the topics the post matches, by score or by the router; a
   router that is cancelled counts as one that matches nothing. *)
Match(ts) ==
    /\ RStep("match")
    /\ ts \subseteq {t \in Topics : Exists(t)}
    /\ worker["r"].cancelled => ts = {}
    /\ worker' = [worker EXCEPT !["r"].pc = "join", !["r"].left = ts, !["r"].out = "none"]
    /\ UNCHANGED <<inst, rows, queues, checks, thread, process, ghosts, spent>>

(* An error of the store, a refused memory or a cancelled context ends the routing. *)
FailRouting ==
    /\ worker["r"].pc \in {"match", "join"}
    /\ \/ worker["r"].cancelled
       \/ RStep("join") /\ worker["r"].left # {} /\ worker["r"].seen \in gone
    /\ worker' = [worker EXCEPT !["r"].pc = "done", !["r"].out = "failed", !["r"].left = {}]
    /\ UNCHANGED <<inst, rows, queues, checks, thread, process, ghosts, spent>>

(* AddAutomaticLivingTopicMember resolves the post to its memory item, *)
Remember(t) ==
    /\ RStep("join") /\ t \in worker["r"].left
    /\ ~worker["r"].cancelled /\ worker["r"].seen \notin gone
    /\ lib' = lib \cup {worker["r"].seen}
    /\ worker' = [worker EXCEPT !["r"].pc = "insert", !["r"].out = t]
    /\ UNCHANGED <<inst, topic, gone, version, member, verdict, moves, cand, snap, queues, checks,
                   thread, process, ghosts, spent>>

(* then joins it: not twice, not over the limit, not against the user. *)
Join ==
    /\ RStep("insert")
    /\ LET t == worker["r"].out
           i == worker["r"].seen
           joins == /\ ~worker["r"].cancelled
                    /\ member[t][i].mode = "none" /\ HasRoom(t, i) /\ verdict[t][i] # "exclude"
       IN  /\ member' = IF joins THEN [member EXCEPT ![t][i] = [mode |-> "automatic", move |-> 0]]
                        ELSE member
           /\ worker' = [worker EXCEPT !["r"].pc = IF worker["r"].cancelled THEN "done" ELSE "join",
                                       !["r"].out = IF worker["r"].cancelled THEN "failed" ELSE "none",
                                       !["r"].left = IF worker["r"].cancelled THEN {} ELSE @ \ {t},
                                       !["r"].dirty = IF joins THEN @ \cup {t} ELSE @]
    /\ UNCHANGED <<inst, topic, lib, gone, version, verdict, moves, cand, snap, queues, checks, thread,
                   process, ghosts, spent>>

(* FinishLivingTopicRouting comes before the look at the context. *)
FinishRouting ==
    /\ RStep("done") \/ (RStep("join") /\ worker["r"].left = {})
    /\ rstat' = [rstat EXCEPT ![worker["r"].seen] =
                   IF worker["r"].out = "failed" THEN "failed" ELSE "completed"]
    /\ worker' = [worker EXCEPT !["r"].pc = IF worker["r"].cancelled THEN "queue" ELSE "claim",
                                !["r"].out = "none"]
    /\ UNCHANGED <<inst, rows, uq, urun, aq, arun, orphan, checks, thread, process, ghosts, spent>>

(* The topics that gained members are queued when the goroutine ends; dirty keeps
   the set for the launch that follows. *)
QueueDirty ==
    /\ RStep("queue")
    /\ IF worker["r"].dirty \ worker["r"].left = {}
       THEN Goto("r", "retire") /\ UNCHANGED <<uq, topic, lost>>
       ELSE \E t \in worker["r"].dirty \ worker["r"].left :
              /\ QueueUnderstanding(t, 0)
              /\ worker' = [worker EXCEPT !["r"].left = @ \cup {t}]
    /\ UNCHANGED <<inst, lib, gone, version, member, verdict, moves, cand, snap, urun, aq, arun, orphan,
                   rstat, checks, thread, process, stuck, spent>>

-----------------------------------------------------------------------------
(* The process *)

(* Shutdown cancels the goroutines of the moment. *)
Stop ==
    /\ process = "up" /\ spent.stops < inst.stops
    /\ process' = "stopping"
    /\ worker' = [k \in Kinds |-> IF worker[k].pc = "off" THEN Idle
                                  ELSE [worker[k] EXCEPT !.cancelled = TRUE]]
    /\ spent' = [spent EXCEPT !.stops = @ + 1]
    /\ UNCHANGED <<inst, rows, queues, checks, thread, ghosts>>

(* The topics a running request or the routing worker still has to queue. *)
OwedBy(c) ==
    UNION {LET s == thread[c][k] IN
           CASE s.op = "uqueue" -> {s.t}
             [] s.op = "uqueues" -> s.topics
             [] OTHER -> {} : k \in DOMAIN thread[c]}

OwedByRouting ==
    IF worker["r"].pc \in {"off", "retire"} THEN {}
    ELSE IF RStep("queue") THEN worker["r"].dirty \ worker["r"].left
    ELSE worker["r"].dirty

Owed == OwedByRouting \cup UNION {OwedBy(c) : c \in Clients}

OwedActivation ==
    {t \in Topics : \E c \in Clients : \E k \in DOMAIN thread[c] :
       thread[c][k].op \in {"aread", "ainsert", "astatus"} /\ thread[c][k].t = t}

(* The process ends, at once or after Shutdown: what a request had still to queue
   is forgotten. *)
End ==
    /\ \/ process = "stopping" /\ UNCHANGED spent
       \/ /\ process = "up" /\ spent.crashes < inst.crashes
          /\ spent' = [spent EXCEPT !.crashes = @ + 1]
    /\ process' = "down"
    /\ thread' = [c \in Clients |-> << >>]
    /\ worker' = [k \in Kinds |-> Idle]
    /\ checks' = [k \in Kinds |-> 0]
    /\ lost' = lost \cup Owed
    /\ stuck' = stuck \cup OwedActivation
    /\ UNCHANGED <<inst, rows, queues>>

(* The row of a job, if there is one. *)
RowOf(job) == IF job = NoJob THEN << >> ELSE <<job>>

(* ResumeLivingTopicRouting, -Activation and -Understanding: running rows, the
   oldest of their queues, are pending again and the goroutines start. *)
Restart ==
    /\ process = "down"
    /\ process' = "up"
    /\ uq' = RowOf(orphan["u"]) \o RowOf(urun) \o uq
    /\ aq' = RowOf(orphan["a"]) \o RowOf(arun) \o aq
    /\ urun' = NoJob /\ arun' = NoJob /\ orphan' = [k \in {"u", "a"} |-> NoJob]
    /\ rstat' = [i \in Items |-> IF rstat[i] = "running" THEN "pending" ELSE rstat[i]]
    /\ topic' = [t \in Topics |->
                   [topic[t] EXCEPT !.ustatus = IF UPending(t) \/ t \in {urun.t, orphan["u"].t}
                                                 THEN "pending" ELSE @,
                                    !.rstatus = IF @ = "running" THEN "pending" ELSE @]]
    /\ worker' = [k \in Kinds |-> Launched(k)[k]]
    /\ UNCHANGED <<inst, lib, gone, version, member, verdict, moves, cand, snap, checks, thread, ghosts, spent>>

-----------------------------------------------------------------------------
Requests ==
    \E c \in Clients :
      \/ \E t \in Topics :
           \/ Create(c, t) \/ UpdateCriteria(c, t)
           \/ RequestActivation(c, t) \/ RequestUnderstanding(c, t)
           \/ \E i \in Items :
                \/ AddMember(c, t, i) \/ RemoveMember(c, t, i)
                \/ Accept(c, t, i) \/ Reject(c, t, i) \/ UndoReview(c, t, i)
                \/ \E s \in Topics : MoveMember(c, s, t, i)
      \/ \E k \in DOMAIN moves : UndoMove(c, k)
      \/ \E i \in Items :
           ReadTopics(c, i) \/ Touch(c, i) \/ Less(c, i) \/ QueueRouting(c, i)

Calls ==
    \E c \in Clients :
      \/ Removal(c) \/ NextRemoved(c)
      \/ CallQueueUnderstanding(c)
      \/ CallReadRevision(c) \/ CallQueueActivation(c) \/ CallMarkPending(c)
      \/ CallLaunch(c)

UnderstandingSteps ==
    \/ ClaimUnderstanding \/ ReadInput
    \/ \E answer \in Answers : Ask(answer)
    \/ SaveSnapshot \/ FinishUnderstanding
    \/ Retire("u") \/ Recheck("u")

ActivationSteps ==
    \/ ClaimActivation \/ ReadLibrary
    \/ \E i \in Items : Decide(i)
    \/ \E out \in {"none", "failed"} : EndScan(out)
    \/ FinishActivation
    \/ Retire("a") \/ Recheck("a")

RoutingSteps ==
    \/ ClaimRouting \/ (\E ts \in SUBSET Topics : Match(ts)) \/ FailRouting
    \/ (\E t \in Topics : Remember(t)) \/ Join
    \/ FinishRouting \/ QueueDirty
    \/ Retire("r") \/ Recheck("r")

Next ==
    \/ Requests \/ Calls
    \/ UnderstandingSteps \/ ActivationSteps \/ RoutingSteps
    \/ Stop \/ End \/ Restart

Spec == Init /\ [][Next]_vars

(* The goroutines and the requests are scheduled by the Go runtime: while one of
   them has a step to make, a step is made. *)
FairSpec ==
    Spec /\ WF_vars(Calls \/ UnderstandingSteps \/ ActivationSteps \/ RoutingSteps)

-----------------------------------------------------------------------------
(* Types *)

Row == [t : Topics, n : Nat]
Digests == Nat \X SUBSET (Items \X Nat)

LTTypeOK ==
    /\ topic \in [Topics -> [rev : Nat,
                             ustatus : {"idle", "pending", "running", "current",
                                        "insufficient_evidence", "failed"},
                             udigest : Digests,
                             rstatus : {"idle", "pending", "running", "current", "failed"}]]
    /\ lib \subseteq Items /\ gone \subseteq Items /\ lib \cap gone = {}
    /\ version \in [Items -> Nat]
    /\ member \in [Topics -> [Items -> [mode : Modes, move : Nat]]]
    /\ verdict \in [Topics -> [Items -> {"none", "include", "exclude", "clear"}]]
    /\ moves \in Seq([i : Items, from : Topics, to : Topics, source : [mode : Modes, move : Nat],
                      pre : BOOLEAN, undone : BOOLEAN])
    /\ cand \in [Topics -> [Items -> CandidateStates]]
    /\ snap \in [Topics -> Digests]
    /\ uq \in Seq(Row) /\ urun \in Row \cup {NoJob}
    /\ orphan \in [{"u", "a"} -> Row \cup {NoJob}]
    /\ \A t \in Topics : Cardinality({k \in DOMAIN uq : uq[k].t = t}) <= 3
    /\ aq \in Seq(Row) /\ arun \in Row \cup {NoJob}
    /\ \A j, k \in DOMAIN aq : aq[j] = aq[k] => j = k
    /\ rstat \in [Items -> {"none", "pending", "running", "completed", "failed"}]
    /\ checks \in [Kinds -> Nat]
    /\ process \in {"up", "stopping", "down"}
    /\ lost \subseteq Topics /\ stuck \subseteq Topics

-----------------------------------------------------------------------------
(* Properties *)

(* An understanding that claims to be settled was made from the present criteria,
   members and contents: whatever changed while the provider was asked is evaluated
   again (QueueLivingTopicUnderstanding allows a pending row next to a running one).
   Until the topic is next queued or read there are three exceptions: the call that
   queues it is still to come, it was lost with the process or in the window of a
   library removal, or the change was one of the library's own (Keep, Done, Release,
   a new capture, a routine Less), for which the code queues nothing. *)
UnderstandingCatchesUp ==
    \A t \in Topics :
      topic[t].ustatus \in {"current", "insufficient_evidence"} =>
        topic[t].udigest = Digest(t) \/ t \in Owed \cup lost

(* The same without the exceptions: a settled understanding is one of the present
   topic, or a request in flight will queue it. *)
SettledIsPresent ==
    \A t \in Topics :
      topic[t].ustatus \in {"current", "insufficient_evidence"} =>
        topic[t].udigest = Digest(t) \/ t \in Owed

(* The understanding status and the job rows agree, across coalescing, several pending
   rows after a restart, FinishLivingTopicUnderstanding under a new request, and
   launches after Shutdown, which launchLivingTopicUnderstanding does not refuse. *)
StatusHonest ==
    \A t \in Topics :
      /\ topic[t].ustatus = "pending" => UPending(t)
      /\ topic[t].ustatus = "running" => t \in {urun.t, orphan["u"].t}
      /\ topic[t].ustatus \notin {"pending", "running"} => ~UPending(t) /\ urun.t # t

(* A topic waiting for its activation has a row of its present revision, and one
   with such a row waits: the end of a scan under older criteria says nothing of
   the new ones (FinishLivingTopicActivation), except after a crash between the
   change and its queueing and after a row that finished before
   QueueLivingTopicActivation marked the topic. *)
RoutingBacked ==
    \A t \in Topics :
      t \in OwedActivation \cup stuck \/
        (topic[t].rstatus \in {"pending", "running"} <=> ABacked(t))

(* A row marked running belongs to the goroutine at work, or to a process that is
   gone: only Shutdown leaves rows running that nobody runs. *)
RunningOwned ==
    /\ process = "up" => orphan = [k \in {"u", "a"} |-> NoJob]
    /\ process # "down" =>
      /\ urun # NoJob <=> worker["u"].pc \in {"read", "ask", "save", "done"}
      /\ arun # NoJob <=> worker["a"].pc \in {"read", "decide", "done"}
      /\ \A i \in Items : rstat[i] = "running" <=>
           worker["r"].pc \in {"match", "join", "insert", "done"} /\ worker["r"].seen = i

(* No path to a membership (add, accept, move, undo of a move, automatic routing)
   takes a topic over LivingTopicMaxMembers. *)
MemberLimit == \A t \in Topics : Cardinality(AllMembers(t)) <= MaxMembers

(* A membership that names a move was made by that move, which is not undone, and
   what a standing move would restore names a standing move too:
   UndoLivingTopicMemberMove takes moves back in the opposite order only. *)
MoveIdLive ==
    LET Stands(m, t, i) ==
          m.move # 0 =>
            /\ m.move \in DOMAIN moves
            /\ LET k == moves[m.move] IN k.to = t /\ k.i = i /\ ~k.undone
    IN  /\ \A t \in Topics, i \in Items : Stands(member[t][i], t, i)
        /\ \A k \in DOMAIN moves :
             ~moves[k].undone => Stands(moves[k].source, moves[k].from, moves[k].i)

(* What the user decided about a candidate is changed by the user only, however
   late the activation that read it before comes to save its decision. *)
ReviewKept ==
    [][\A t \in Topics, i \in Items :
         cand[t][i] \in {"accepted", "rejected"} /\ cand'[t][i] # cand[t][i]
           => spent'.requests > spent.requests]_vars

(* Every queued row is taken up: a row queued while the goroutine ends is found by
   the look that follows its retirement. *)
QueuesDrain ==
    \A k \in Kinds : HasPending(k) ~> (~HasPending(k) \/ process # "up")

(* The status columns of a topic, its job rows and the goroutines agree, and a
   settled understanding is one of the present topic. *)
JobsHonest == LTTypeOK /\ StatusHonest /\ RoutingBacked /\ RunningOwned /\ UnderstandingCatchesUp

(* Whatever path makes or takes back memberships, the limit and the undo order hold. *)
MembershipSound == MemberLimit /\ MoveIdLive
=============================================================================
