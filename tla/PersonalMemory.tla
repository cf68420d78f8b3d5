--------------------------- MODULE PersonalMemory ---------------------------
(***************************************************************************)
(* The library of remembered posts: internal/store/personal_memory.go, the *)
(* projection of Timeline feedback into it (internal/store/feedback.go),   *)
(* the search index (internal/store/memory_search.go) and the automatic    *)
(* membership of a Living Topic (internal/store/living_topic_routing.go).  *)
(*                                                                         *)
(* A Timeline row is known by its evidence: strong aliases (evidence key,  *)
(* permalink, platform id) and the fingerprint of its text, the last       *)
(* resort.  Every store operation is one SQLite transaction on a single    *)
(* connection, hence one step, except two: AddFeedback reads its clock and *)
(* its evidence before it begins its transaction, and the automatic        *)
(* membership takes a read, a lookup, an insertion and a join, each on its *)
(* own.  Requests are served concurrently and none of them takes a lock.   *)
(*                                                                         *)
(* A text is represented by its fingerprint.  A row keeps as aliases the   *)
(* alias rows of its item; the identity columns of the item are always     *)
(* among them.  The tombstone digests are the aliases themselves: the key  *)
(* of the digest lives as long as the tombstones do.                       *)
(***************************************************************************)
EXTENDS Naturals, Sequences, FiniteSets

CONSTANTS
    Timelines,    \* Timeline rows
    Items,        \* the pool of memory item identifiers, a bound on the rows
    Aliases,      \* strong aliases
    Prints,       \* fingerprints, standing for the texts too
    Evidence,     \* the evidence each Timeline row goes through, in order
    NoText,       \* no text: the fingerprint of an empty text
    NoRow,        \* no row in the search index
    Nobody,       \* resolveMemoryIdentity found no item
    Conflict,     \* resolveMemoryIdentity found several
    MaxMembers,   \* LivingTopicMaxMembers
    Instances     \* the instances of a check, one of them chosen in Init: the
                  \* Timeline rows in play, whether there is a Living Topic, and
                  \* how many feedback requests may be in flight (a bound)

Shape == [strong : SUBSET Aliases, print : Prints \cup {NoText}]

\* The evidence key of a Timeline row is a column of the row, which no capture
\* changes: it is among the strong aliases of all its evidence.
ASSUME EvidenceAssumption ==
    /\ Evidence \in [Timelines -> Seq(Shape)]
    /\ \A t \in Timelines : Evidence[t] # << >>
    /\ \A t \in Timelines :
         \E a \in Aliases : \A k \in DOMAIN Evidence[t] : a \in Evidence[t][k].strong
ASSUME SentinelAssumption ==
    /\ NoText \notin Prints
    /\ NoRow \notin Prints \cup {NoText}
    /\ Items \cap {Nobody, Conflict} = {}
    /\ Nobody # Conflict
    /\ Aliases \cap Prints = {}
ASSUME InstanceAssumption ==
    /\ MaxMembers \in Nat
    /\ IsFiniteSet(Items)
    /\ Instances \subseteq [rows : SUBSET Timelines, topic : BOOLEAN, requests : Nat]

VARIABLES
    instance,  \* the instance, never changed
    shape,     \* the current evidence of each Timeline row
    final,     \* whether its session is completed or partial
    mem,       \* the memory item rows with all that hangs on them
    tomb,      \* memory_tombstone_aliases
    latest,    \* the direction of the latest feedback event of each Timeline row
    requests,  \* AddFeedback calls before their transaction, in clock order
    route,     \* the automatic membership under way
    owed,      \* ghost: a projected More that nothing has taken back
    raced      \* ghost: feedback requests of this Timeline row have overlapped

vars == <<instance, shape, final, mem, tomb, latest, requests, route, owed, raced>>

-----------------------------------------------------------------------------
(* Rows *)

Kinds == {"more", "keep", "later", "topic"}
Verdicts == {"none", "include", "exclude"}

Row == [state   : {"none", "active", "tombstone"},
        alias   : SUBSET (Aliases \cup Prints),
        tier    : {"recall", "full_copy"},
        named   : Prints \cup {NoText},      \* full_content_version_id
        live    : SUBSET Prints,             \* versions that are not released
        saved   : BOOLEAN,
        keep    : BOOLEAN,
        prov    : SUBSET (Kinds \X Timelines),
        fts     : Prints \cup {NoText, NoRow},
        member  : BOOLEAN,
        verdict : Verdicts]

NoItem == [state |-> "none", alias |-> {}, tier |-> "recall", named |-> NoText,
           live |-> {}, saved |-> FALSE, keep |-> FALSE, prov |-> {}, fts |-> NoRow,
           member |-> FALSE, verdict |-> "none"]

NoRoute == [pc |-> "idle"]

Now(t) == Evidence[t][shape[t]]

AliasesOf(e) == e.strong \cup ({e.print} \ {NoText})

Owners(a) == {i \in Items : mem[i].state = "active" /\ a \in mem[i].alias}

StrongOwners(e) == UNION {Owners(a) : a \in e.strong}

(* resolveMemoryIdentity: strong aliases must agree; the fingerprint decides only
   when no strong alias is known, and only when it is not ambiguous. *)
Resolve(e) ==
    CASE Cardinality(StrongOwners(e)) > 1 -> Conflict
      [] Cardinality(StrongOwners(e)) = 1 -> CHOOSE i \in StrongOwners(e) : TRUE
      [] StrongOwners(e) = {} /\ e.print # NoText /\ Cardinality(Owners(e.print)) = 1 ->
            CHOOSE i \in Owners(e.print) : TRUE
      [] OTHER -> Nobody

(* Fault for NeverRecaptured: suppression by the strong aliases only. *)
TombstonedStrong(e) == e.strong \cap tomb # {}

(* tombstonedMemoryID: one suppressed alias refuses the whole identity. *)
Tombstoned(e) == AliasesOf(e) \cap tomb # {}

(* An identifier NewID has not given to anything that is still referred to. *)
FreshItems ==
    {i \in Items : /\ mem[i].state = "none" /\ ~mem[i].member
                   /\ route.pc = "join" => route.item # i}

Accepted(e) == ~Tombstoned(e) /\ Resolve(e) # Conflict

(* The row an accepted upsert works on: the resolved one or a new one. *)
Targets(e) == IF Resolve(e) = Nobody THEN FreshItems ELSE {Resolve(e)}

Base(e, i) == IF Resolve(e) = Nobody THEN NoItem ELSE mem[i]

-----------------------------------------------------------------------------
(* What one transaction does to a row *)

(* syncMemorySearchIndexTx *)
Indexed(row) ==
    [row EXCEPT !.fts = CASE row.state # "active" -> NoRow
                          [] row.tier = "full_copy" /\ row.named \in row.live -> row.named
                          [] OTHER -> NoText]

(* upsertMemoryRecallStubTx past its two checks *)
Stub(row, e, kind, t) ==
    Indexed([row EXCEPT !.state = "active", !.alias = @ \cup AliasesOf(e),
                        !.prov = @ \cup {<<kind, t>>}])

(* The content version both text paths write: the earlier payloads are released. *)
StoreText(row, text) ==
    [row EXCEPT !.live = {text}, !.named = text, !.tier = "full_copy"]

(* keepMemoryFullCopyTx *)
KeepFullCopy(row, text) == Indexed([StoreText(row, text) EXCEPT !.keep = TRUE])

(* saveMemoryContentForLaterTx; a blank text leaves a recall stub. *)
SaveForLater(row, text) ==
    IF text = NoText THEN row ELSE Indexed(StoreText(row, text))

ReleaseText(row) == [row EXCEPT !.live = {}, !.named = NoText, !.tier = "recall"]

(* Fault for TextOwned: Done releases nothing. *)
DoneKeepsText(row) == Indexed([row EXCEPT !.saved = FALSE])

(* DoneSavedMemory *)
Done(row) ==
    Indexed(IF row.keep THEN [row EXCEPT !.saved = FALSE]
                        ELSE ReleaseText([row EXCEPT !.saved = FALSE]))

(* The rows a removal deletes are all but the feedback of the Living Topic. *)
Removed(row) == [NoItem EXCEPT !.verdict = row.verdict]

(* Fault for MoreRemembered: the stub goes with its first Less. *)
RetractShared(row, t) ==
    IF <<"more", t>> \notin row.prov THEN row
    ELSE IF row.saved \/ row.keep THEN [row EXCEPT !.prov = @ \ {<<"more", t>>}]
    ELSE [Removed(row) EXCEPT !.member = row.member]

(* retractRoutineMoreMemoryTx: what another Timeline row, a claim or an earlier
   Keep still holds stays; otherwise the row goes, its memberships excepted. *)
Retract(row, t) ==
    LET rest == row.prov \ {<<"more", t>>} IN
    IF <<"more", t>> \notin row.prov THEN row
    ELSE IF row.saved \/ row.keep \/ rest \ {<<"later", t>>} # {}
    THEN [row EXCEPT !.prov = rest]
    ELSE [Removed(row) EXCEPT !.member = row.member]

-----------------------------------------------------------------------------
Init ==
    /\ instance \in Instances
    /\ shape = [t \in Timelines |-> 1]
    /\ final = [t \in Timelines |-> FALSE]
    /\ mem = [i \in Items |-> NoItem]
    /\ tomb = {}
    /\ latest = [t \in Timelines |-> "none"]
    /\ requests = << >>
    /\ route = NoRoute
    /\ owed = [t \in Timelines |-> FALSE]
    /\ raced = [t \in Timelines |-> FALSE]

(* The session of the Timeline row is finalized. *)
Finalize(t) ==
    /\ ~final[t]
    /\ final' = [final EXCEPT ![t] = TRUE]
    /\ UNCHANGED <<instance, shape, mem, tomb, latest, requests, route, owed, raced>>

(* A later capture overrides the evidence of the Timeline row. *)
Override(t) ==
    /\ shape[t] < Len(Evidence[t])
    /\ shape' = [shape EXCEPT ![t] = @ + 1]
    /\ UNCHANGED <<instance, final, mem, tomb, latest, requests, route, owed, raced>>

KeepTimelineFullCopy(t) ==
    LET e == Now(t) IN
    /\ final[t] /\ e.print # NoText
    /\ Accepted(e)
    /\ IF Resolve(e) # Nobody /\ mem[Resolve(e)].tier = "full_copy"
       THEN mem' = [mem EXCEPT ![Resolve(e)].keep = TRUE]
       ELSE \E i \in Targets(e) :
              mem' = [mem EXCEPT ![i] = KeepFullCopy(Stub(Base(e, i), e, "keep", t), e.print)]
    /\ UNCHANGED <<instance, shape, final, tomb, latest, requests, route, owed, raced>>

ReadLaterTimeline(t) ==
    LET e == Now(t) IN
    /\ final[t]
    /\ Accepted(e)
    /\ Resolve(e) # Nobody => ~mem[Resolve(e)].saved
    /\ \E i \in Targets(e) :
         LET stub == Stub(Base(e, i), e, "later", t)
             text == IF stub.tier = "full_copy" THEN NoText ELSE e.print
         IN  mem' = [mem EXCEPT ![i] = [SaveForLater(stub, text) EXCEPT !.saved = TRUE]]
    /\ UNCHANGED <<instance, shape, final, tomb, latest, requests, route, owed, raced>>

KeepMemoryInLibrary(i) ==
    /\ mem[i].state = "active"
    /\ mem[i].keep \/ (mem[i].saved /\ mem[i].tier = "full_copy" /\ mem[i].named \in mem[i].live)
    /\ mem' = [mem EXCEPT ![i] = Indexed([@ EXCEPT !.keep = TRUE, !.saved = FALSE])]
    /\ UNCHANGED <<instance, shape, final, tomb, latest, requests, route, owed, raced>>

DoneSavedMemory(i) ==
    /\ mem[i].state = "active" /\ mem[i].saved
    /\ mem' = [mem EXCEPT ![i] = Done(@)]
    /\ UNCHANGED <<instance, shape, final, tomb, latest, requests, route, owed, raced>>

(* The text goes even while the item is still saved for later. *)
ReleaseMemoryFullCopy(i) ==
    /\ mem[i].state = "active"
    /\ mem' = [mem EXCEPT ![i] = Indexed(ReleaseText([@ EXCEPT !.keep = FALSE]))]
    /\ UNCHANGED <<instance, shape, final, tomb, latest, requests, route, owed, raced>>

RemoveMemory(i) ==
    /\ mem[i].state = "active"
    /\ mem' = [mem EXCEPT ![i] = Removed(@)]
    /\ owed' = [t \in Timelines |-> owed[t] /\ <<"more", t>> \notin mem[i].prov]
    /\ UNCHANGED <<instance, shape, final, tomb, latest, requests, route, raced>>

(* DeleteMemory, the permanent Forget *)
ForgetMemory(i) ==
    /\ mem[i].state = "active"
    /\ tomb' = tomb \cup mem[i].alias
    /\ mem' = [mem EXCEPT ![i] = Indexed([Removed(@) EXCEPT !.state = "tombstone"])]
    /\ owed' = [t \in Timelines |-> owed[t] /\ <<"more", t>> \notin mem[i].prov]
    /\ UNCHANGED <<instance, shape, final, latest, requests, route, raced>>

-----------------------------------------------------------------------------
(* AddFeedback *)

(* The clock and, for a final session, the evidence are read. *)
FeedbackBegin(t, d) ==
    /\ Len(requests) < instance.requests
    /\ requests' = Append(requests, [t |-> t, d |-> d, final |-> final[t], e |-> Now(t), late |-> FALSE])
    /\ raced' = [raced EXCEPT ![t] = @ \/ \E k \in DOMAIN requests : requests[k].t = t]
    /\ UNCHANGED <<instance, shape, final, mem, tomb, latest, route, owed>>

Without(k) == SubSeq(requests, 1, k - 1) \o SubSeq(requests, k + 1, Len(requests))

(* The event of request k is stored: the requests of its Timeline row with an
   earlier clock can no longer become the latest. *)
Stored(k) ==
    LET r == requests[k] IN
    /\ requests' = [j \in 1 .. Len(requests) - 1 |->
                      [Without(k)[j] EXCEPT !.late = @ \/ (j < k /\ Without(k)[j].t = r.t)]]
    /\ latest' = [latest EXCEPT ![r.t] = IF r.late THEN @ ELSE r.d]

(* The request fails and nothing of it is stored. *)
Dropped(k) ==
    /\ requests' = Without(k)
    /\ UNCHANGED <<latest, mem, owed>>

FeedbackMore(k) ==
    LET r == requests[k] IN
    /\ r.d = "more"
    /\ IF r.final /\ ~Accepted(r.e) THEN Dropped(k)
       ELSE /\ Stored(k)
            /\ IF r.final
               THEN /\ \E i \in Targets(r.e) :
                         mem' = [mem EXCEPT ![i] = Stub(Base(r.e, i), r.e, "more", r.t)]
                    /\ owed' = [owed EXCEPT ![r.t] = TRUE]
               ELSE UNCHANGED <<mem, owed>>
    /\ UNCHANGED <<instance, shape, final, tomb, route, raced>>

FeedbackLess(k) ==
    LET r == requests[k]
        retracts == r.final /\ latest[r.t] = "more"
    IN  /\ r.d = "less"
        /\ IF retracts /\ Resolve(r.e) = Conflict THEN Dropped(k)
           ELSE /\ Stored(k)
                /\ mem' = IF retracts /\ Resolve(r.e) # Nobody
                          THEN [mem EXCEPT ![Resolve(r.e)] = Retract(@, r.t)]
                          ELSE mem
                /\ owed' = [owed EXCEPT ![r.t] = FALSE]
        /\ UNCHANGED <<instance, shape, final, tomb, route, raced>>

-----------------------------------------------------------------------------
(* Membership of a Living Topic *)

Members == {i \in Items : mem[i].member}

(* routeLivingTopicItem reads the Timeline row and asks the router about it. *)
RouteRead(t) ==
    /\ instance.topic
    /\ route.pc = "idle" /\ final[t]
    /\ route' = [pc |-> "resolve", t |-> t, e |-> Now(t)]
    /\ UNCHANGED <<instance, shape, final, mem, tomb, latest, requests, owed, raced>>

(* AddAutomaticLivingTopicMember, the lookup *)
RouteResolve ==
    /\ route.pc = "resolve"
    /\ route' = CASE Resolve(route.e) = Conflict -> NoRoute
                  [] Resolve(route.e) = Nobody -> [route EXCEPT !.pc = "create"]
                  [] OTHER -> [pc |-> "join", item |-> Resolve(route.e)]
    /\ UNCHANGED <<instance, shape, final, mem, tomb, latest, requests, owed, raced>>

(* UpsertMemoryRecallStub in a transaction of its own *)
RouteCreate ==
    /\ route.pc = "create"
    /\ IF Accepted(route.e)
       THEN \E i \in Targets(route.e) :
              /\ mem' = [mem EXCEPT ![i] = Stub(Base(route.e, i), route.e, "topic", route.t)]
              /\ route' = [pc |-> "join", item |-> i]
       ELSE route' = NoRoute /\ UNCHANGED mem
    /\ UNCHANGED <<instance, shape, final, tomb, latest, requests, owed, raced>>

(* Fault for ExcludedStaysOut: the verdict is not read again in the join. *)
RouteJoinUnread ==
    /\ route.pc = "join"
    /\ mem' = IF Cardinality(Members) < MaxMembers
              THEN [mem EXCEPT ![route.item].member = TRUE] ELSE mem
    /\ route' = NoRoute
    /\ UNCHANGED <<instance, shape, final, tomb, latest, requests, owed, raced>>

(* The join looks at the memberships and at the latest verdict, not at the item. *)
RouteJoin ==
    /\ route.pc = "join"
    /\ LET row == mem[route.item] IN
       mem' = IF row.member \/ Cardinality(Members) >= MaxMembers \/ row.verdict = "exclude"
              THEN mem ELSE [mem EXCEPT ![route.item].member = TRUE]
    /\ route' = NoRoute
    /\ UNCHANGED <<instance, shape, final, tomb, latest, requests, owed, raced>>

AddLivingTopicMember(i) ==
    /\ instance.topic
    /\ mem[i].state = "active"
    /\ ~mem[i].member => Cardinality(Members) < MaxMembers
    /\ mem' = [mem EXCEPT ![i].member = TRUE, ![i].verdict = "include"]
    /\ UNCHANGED <<instance, shape, final, tomb, latest, requests, route, owed, raced>>

RemoveLivingTopicMember(i) ==
    /\ mem[i].member
    /\ mem' = [mem EXCEPT ![i].member = FALSE, ![i].verdict = "exclude"]
    /\ UNCHANGED <<instance, shape, final, tomb, latest, requests, route, owed, raced>>

-----------------------------------------------------------------------------
Next ==
    \/ \E t \in instance.rows :
         \/ Finalize(t) \/ Override(t)
         \/ KeepTimelineFullCopy(t) \/ ReadLaterTimeline(t)
         \/ FeedbackBegin(t, "more") \/ FeedbackBegin(t, "less")
         \/ RouteRead(t)
    \/ \E i \in Items :
         \/ KeepMemoryInLibrary(i) \/ DoneSavedMemory(i) \/ ReleaseMemoryFullCopy(i)
         \/ RemoveMemory(i) \/ ForgetMemory(i)
         \/ AddLivingTopicMember(i) \/ RemoveLivingTopicMember(i)
    \/ \E k \in DOMAIN requests : FeedbackMore(k) \/ FeedbackLess(k)
    \/ RouteResolve \/ RouteCreate \/ RouteJoin

Spec == Init /\ [][Next]_vars

-----------------------------------------------------------------------------
(* Properties *)

(* Types of the state. *)
PMTypeOK ==
    /\ instance \in Instances
    /\ shape \in [Timelines -> Nat \ {0}]
    /\ \A t \in Timelines : shape[t] <= Len(Evidence[t])
    /\ final \in [Timelines -> BOOLEAN]
    /\ mem \in [Items -> Row]
    /\ tomb \subseteq Aliases \cup Prints
    /\ latest \in [Timelines -> {"none", "more", "less"}]
    /\ requests \in Seq([t : Timelines, d : {"more", "less"}, final : BOOLEAN,
                         e : Shape, late : BOOLEAN])
    /\ Len(requests) <= instance.requests
    /\ \/ route = NoRoute
       \/ route \in [pc : {"resolve", "create"}, t : Timelines, e : Shape]
       \/ route \in [pc : {"join"}, item : Items]
    /\ owed \in [Timelines -> BOOLEAN]
    /\ raced \in [Timelines -> BOOLEAN]

(* No item ever acquires an alias that a Forget suppressed, by whichever of the
   four paths that write alias rows and however the evidence of a Timeline row has
   changed since: DeleteMemory, upsertMemoryRecallStubTx. *)
NeverRecaptured ==
    [][\A i \in Items : (mem'[i].alias \ mem[i].alias) \cap tomb = {}]_vars

(* Two items never hold the same strong alias: resolveMemoryIdentity always finds
   the item that would violate memory_identity_aliases_strong_unique, so that
   upsertMemoryAliases never fails on it. *)
StrongAliasUnique == \A a \in Aliases : Cardinality(Owners(a)) <= 1

(* A full text is stored exactly while somebody asked for it (saved for later or
   kept), in one unreleased version that is the one the item names and the search
   index holds; nothing of it is left once it is released, removed or forgotten. *)
TextOwned ==
    \A i \in Items :
      LET row == mem[i] IN
      /\ row.tier = "full_copy" <=> row.live # {}
      /\ row.live # {} => row.live = {row.named} /\ (row.saved \/ row.keep)
      /\ row.keep => row.live # {}
      /\ row.fts = IF row.state # "active" THEN NoRow ELSE row.named
      /\ row.state # "active" => row.alias = {} /\ row.prov = {} /\ ~row.saved /\ ~row.keep

(* A More whose projection was committed stays in the library until a Less of the
   same Timeline row, a Remove or a Forget takes it back: no Less of another row
   that shares the item, no Done and no Release does (retractRoutineMoreMemoryTx). *)
MoreRemembered ==
    \A t \in Timelines :
      owed[t] => \E i \in Items : mem[i].state = "active" /\ <<"more", t>> \in mem[i].prov

(* When the feedback requests of a Timeline row did not overlap, no item is held by
   a More of a row whose latest feedback is Less: AddFeedback finds the item of the
   More although the evidence may have changed in between. *)
FeedbackMirrored ==
    \A t \in Timelines :
      ~raced[t] /\ latest[t] = "less" => \A i \in Items : <<"more", t>> \notin mem[i].prov

(* A feedback transaction never touches what the user saved or kept: its claims and
   its text survive every More and every Less (retractRoutineMoreMemoryTx). *)
HeldSurvivesLess ==
    [][requests' # requests =>
         \A i \in Items : mem[i].saved \/ mem[i].keep =>
            /\ mem'[i].state = "active"
            /\ mem'[i].saved = mem[i].saved /\ mem'[i].keep = mem[i].keep
            /\ mem'[i].live = mem[i].live]_vars

(* An item the user took out of a topic comes back only by the user's own hand,
   whenever the automatic routing looked the item up (AddAutomaticLivingTopicMember). *)
ExcludedStaysOut ==
    [][\A i \in Items :
         ~mem[i].member /\ mem'[i].member /\ mem[i].verdict = "exclude"
            => mem'[i].verdict = "include"]_vars

(* A retraction removes every durable row of the stub: an item that is gone is no
   member of a topic any more (retractRoutineMoreMemoryTx). *)
RetractionComplete ==
    [][\A i \in Items :
         mem[i].state = "active" /\ mem'[i].state = "none" => ~mem'[i].member]_vars

(* Identity and text of the items of the library. *)
LibrarySound == PMTypeOK /\ StrongAliasUnique /\ TextOwned

(* What More and Less say is what the library holds, for rows that share an item. *)
FeedbackKept == MoreRemembered /\ FeedbackMirrored

(* What the user decided by hand (Read later, Keep, a verdict on a membership)
   outlives the feedback and the automatic routing. *)
UserDecides == HeldSurvivesLess /\ ExcludedStaysOut
=============================================================================
