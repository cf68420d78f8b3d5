------------------------- MODULE PersonalMemoryProofs -------------------------
(***************************************************************************)
(* The library, for any number of Timeline rows, items, aliases and        *)
(* requests: its identities and texts are sound, what More and Less say is *)
(* what it holds, what was forgotten stays so, and what the user decided   *)
(* stands.                                                                 *)
(*                                                                         *)
(* The argument.  A row is replaced by what the transactions make of it    *)
(* (the lemmas on rows).  resolveMemoryIdentity finds an item that owns    *)
(* every strong alias that is owned, so an accepted upsert gives no alias  *)
(* a second owner.  An item that a More holds has the evidence key of its  *)
(* Timeline row, which every later evidence carries: a Less therefore      *)
(* finds the item of its More, unless requests of the row overlapped.      *)
(***************************************************************************)
EXTENDS PersonalMemory, FiniteSetTheorems, SequenceTheorems, TLAPS

-----------------------------------------------------------------------------
(* The inductive invariant.                                                 *)

\* The evidence key of a Timeline row, an alias of all its evidence.
Key(t) == CHOOSE a \in Aliases : \A k \in DOMAIN Evidence[t] : a \in Evidence[t][k].strong

\* A row is typed, and its text is where somebody asked for it.
RowSound(row) ==
    /\ row \in Row
    /\ row.tier = "full_copy" <=> row.live # {}
    /\ row.live # {} => row.live = {row.named} /\ (row.saved \/ row.keep)
    /\ row.live = {} => row.named = NoText
    /\ row.keep => row.live # {}
    /\ row.fts = IF row.state # "active" THEN NoRow ELSE row.named
    /\ row.state # "active" => row.alias = {} /\ row.prov = {} /\ ~row.saved /\ ~row.keep

RowsInv == \A i \in Items : RowSound(mem[i])

\* A strong alias belongs to one item.
UniqueInv ==
    \A i, j \in Items : \A a \in Aliases : a \in mem[i].alias /\ a \in mem[j].alias => i = j

\* An item that a More holds has the evidence key of its row; the row is final.
KeyInv ==
    \A t \in Timelines : \A i \in Items :
      <<"more", t>> \in mem[i].prov => Key(t) \in mem[i].alias /\ final[t]

\* A feedback request carries the evidence key of its row.
RequestInv ==
    \A k \in DOMAIN requests :
      /\ Key(requests[k].t) \in requests[k].e.strong
      /\ requests[k].final => final[requests[k].t]

\* Of a row whose requests do not overlap there is one request at most, which is
\* not late; and if a More holds an item, More is the row's latest feedback and
\* the request has seen the final session.
AloneInv ==
    \A t \in Timelines : ~raced[t] =>
      \A k \in DOMAIN requests : requests[k].t = t =>
        ~requests[k].late /\ \A j \in DOMAIN requests : requests[j].t = t => j = k
HeldInv ==
    \A t \in Timelines : ~raced[t] => \A i \in Items : <<"more", t>> \in mem[i].prov =>
      /\ latest[t] = "more"
      /\ \A k \in DOMAIN requests : requests[k].t = t => requests[k].final

\* The inductive invariant.
PMInv == /\ PMTypeOK /\ RowsInv /\ UniqueInv /\ KeyInv /\ RequestInv /\ AloneInv /\ HeldInv
         /\ MoreRemembered

-----------------------------------------------------------------------------
(* Rows.                                                                    *)

\* The text of a row is in order: one live version, the one the item names.
TextSound(row) ==
    /\ row \in Row
    /\ row.tier = "full_copy" <=> row.live # {}
    /\ row.live # {} => row.live = {row.named}
    /\ row.live = {} => row.named = NoText
    /\ row.state # "active" => row.live = {}

\* Two rows that agree but in the search index.
SameButIndex(row, new) ==
    /\ new.state = row.state /\ new.alias = row.alias /\ new.prov = row.prov
    /\ new.saved = row.saved /\ new.keep = row.keep /\ new.live = row.live
    /\ new.member = row.member /\ new.verdict = row.verdict
    /\ new.tier = row.tier /\ new.named = row.named

\* syncMemorySearchIndexTx indexes the text the item names.
LEMMA IndexedRow ==
  ASSUME NEW row, TextSound(row)
  PROVE  /\ SameButIndex(row, Indexed(row)) /\ TextSound(Indexed(row))
         /\ Indexed(row).fts = IF row.state # "active" THEN NoRow ELSE row.named
<1> DEFINE f == CASE row.state # "active" -> NoRow
                  [] row.tier = "full_copy" /\ row.named \in row.live -> row.named
                  [] OTHER -> NoText
<1>1. Indexed(row) = [row EXCEPT !.fts = f]
  BY DEF Indexed
<1>2. f = IF row.state # "active" THEN NoRow ELSE row.named
  <2>1. CASE row.live = {}
    BY <2>1 DEF TextSound, Row
  <2>2. CASE row.live # {}
    BY <2>2 DEF TextSound, Row
  <2> QED BY <2>1, <2>2
<1>3. f \in Prints \cup {NoText, NoRow}
  BY <1>2 DEF Row, TextSound
<1> HIDE DEF f
<1>4. Indexed(row) \in Row /\ Indexed(row).fts = f /\ SameButIndex(row, Indexed(row))
  BY <1>1, <1>3 DEF Row, TextSound, SameButIndex
<1> QED BY <1>2, <1>4 DEF TextSound, SameButIndex

\* A claimed text that was indexed makes a sound row.
LEMMA ClaimedRow ==
  ASSUME NEW row, TextSound(row), row.state = "active",
         row.live # {} => row.saved \/ row.keep, row.keep => row.live # {}
  PROVE  RowSound(Indexed(row)) /\ SameButIndex(row, Indexed(row))
<1>1. /\ SameButIndex(row, Indexed(row)) /\ TextSound(Indexed(row))
      /\ Indexed(row).fts = row.named
  BY IndexedRow
<1> QED BY <1>1 DEF RowSound, TextSound, SameButIndex

\* No item.
LEMMA NoItemRow == RowSound(NoItem)
BY DEF RowSound, NoItem, Row, Verdicts

\* What upsertMemoryRecallStubTx leaves of a row.
LEMMA StubRow ==
  ASSUME NEW row, RowSound(row), NEW e \in Shape, NEW kind \in Kinds, NEW t \in Timelines
  PROVE  /\ RowSound(Stub(row, e, kind, t))
         /\ Stub(row, e, kind, t).state = "active"
         /\ Stub(row, e, kind, t).alias = row.alias \cup AliasesOf(e)
         /\ Stub(row, e, kind, t).prov = row.prov \cup {<<kind, t>>}
         /\ Stub(row, e, kind, t).saved = row.saved /\ Stub(row, e, kind, t).keep = row.keep
         /\ Stub(row, e, kind, t).live = row.live /\ Stub(row, e, kind, t).tier = row.tier
         /\ Stub(row, e, kind, t).member = row.member /\ Stub(row, e, kind, t).verdict = row.verdict
<1> DEFINE a == row.alias \cup AliasesOf(e)
           p == row.prov \cup {<<kind, t>>}
           r == [row EXCEPT !.state = "active", !.alias = a, !.prov = p]
<1>1. Stub(row, e, kind, t) = Indexed(r)
  BY DEF Stub
<1>2. a \subseteq Aliases \cup Prints /\ p \subseteq Kinds \X Timelines
  BY DEF AliasesOf, Shape, RowSound, Row
<1> HIDE DEF a, p
<1>3. /\ TextSound(r) /\ r.state = "active" /\ r.alias = a /\ r.prov = p
      /\ r.saved = row.saved /\ r.keep = row.keep /\ r.live = row.live
      /\ r.tier = row.tier /\ r.member = row.member /\ r.verdict = row.verdict
  BY <1>2 DEF RowSound, Row, TextSound
<1> HIDE DEF r
<1>4. RowSound(Indexed(r)) /\ SameButIndex(r, Indexed(r))
  BY <1>3, ClaimedRow DEF RowSound
<1> QED BY <1>1, <1>3, <1>4 DEF a, p, SameButIndex

\* A row of the same item: what identifies it and who holds it did not change.
SameItem(row, new) ==
    /\ RowSound(new)
    /\ new.state = row.state /\ new.alias = row.alias /\ new.prov = row.prov

\* A text is stored.
LEMMA StoreRow ==
  ASSUME NEW row, RowSound(row), row.state = "active", NEW text \in Prints
  PROVE  LET r == StoreText(row, text) IN
         /\ TextSound(r) /\ r.state = row.state /\ r.alias = row.alias /\ r.prov = row.prov
         /\ r.saved = row.saved /\ r.keep = row.keep /\ r.live = {text}
         /\ r.member = row.member /\ r.verdict = row.verdict
BY DEF RowSound, Row, StoreText, TextSound

\* keepMemoryFullCopyTx keeps it.
LEMMA KeepRow ==
  ASSUME NEW row, RowSound(row), row.state = "active", NEW text \in Prints
  PROVE  LET new == KeepFullCopy(row, text) IN
         SameItem(row, new) /\ new.member = row.member /\ new.verdict = row.verdict
<1> DEFINE s == StoreText(row, text)
           r == [s EXCEPT !.keep = TRUE]
<1>1. /\ TextSound(s) /\ s.state = row.state /\ s.alias = row.alias /\ s.prov = row.prov
      /\ s.live = {text} /\ s.member = row.member /\ s.verdict = row.verdict
  BY StoreRow
<1> HIDE DEF s
<1>2. /\ TextSound(r) /\ r.state = "active" /\ r.alias = row.alias /\ r.prov = row.prov
      /\ r.keep /\ r.live = {text} /\ r.member = row.member /\ r.verdict = row.verdict
  BY <1>1 DEF TextSound, Row
<1>3. KeepFullCopy(row, text) = Indexed(r)
  BY DEF KeepFullCopy, s
<1> HIDE DEF r
<1>4. RowSound(Indexed(r)) /\ SameButIndex(r, Indexed(r))
  BY <1>2, ClaimedRow
<1> QED BY <1>2, <1>3, <1>4 DEF SameItem, SameButIndex

\* saveMemoryContentForLaterTx, and the claim its caller makes.
LEMMA LaterRow ==
  ASSUME NEW row, RowSound(row), row.state = "active", NEW text \in Prints \cup {NoText}
  PROVE  LET new == [SaveForLater(row, text) EXCEPT !.saved = TRUE] IN
         SameItem(row, new) /\ new.member = row.member /\ new.verdict = row.verdict
<1>1. CASE text = NoText
  BY <1>1 DEF SaveForLater, SameItem, RowSound, Row
<1>2. CASE text # NoText
  <2> DEFINE s == StoreText(row, text)
             r == Indexed(s)
             new == [r EXCEPT !.saved = TRUE]
  <2>1. /\ TextSound(s) /\ s.state = row.state /\ s.alias = row.alias /\ s.prov = row.prov
        /\ s.live = {text} /\ s.keep = row.keep /\ s.member = row.member /\ s.verdict = row.verdict
    BY <1>2, StoreRow
  <2>2. [SaveForLater(row, text) EXCEPT !.saved = TRUE] = new
    BY <1>2 DEF SaveForLater
  <2> HIDE DEF s
  <2>3. TextSound(r) /\ SameButIndex(s, r) /\ r.fts = IF s.state # "active" THEN NoRow ELSE s.named
    BY <2>1, IndexedRow
  <2> HIDE DEF r
  <2>4. /\ new \in Row /\ new.state = "active" /\ new.alias = row.alias /\ new.prov = row.prov
        /\ new.keep = row.keep /\ new.saved /\ new.live = {text} /\ new.tier = r.tier
        /\ new.named = r.named /\ new.fts = r.named
        /\ new.member = row.member /\ new.verdict = row.verdict
    BY <2>1, <2>3 DEF TextSound, Row, SameButIndex
  <2> HIDE DEF new
  <2>5. RowSound(new)
    BY <2>1, <2>3, <2>4 DEF RowSound, TextSound, SameButIndex
  <2> QED BY <2>2, <2>4, <2>5 DEF SameItem
<1> QED BY <1>1, <1>2

\* KeepMemoryInLibrary makes a text that was saved for later a kept one.
LEMMA LibraryRow ==
  ASSUME NEW row, RowSound(row), row.state = "active",
         row.keep \/ (row.saved /\ row.tier = "full_copy" /\ row.named \in row.live)
  PROVE  LET new == Indexed([row EXCEPT !.keep = TRUE, !.saved = FALSE]) IN
         SameItem(row, new) /\ new.member = row.member /\ new.verdict = row.verdict
<1> DEFINE r == [row EXCEPT !.keep = TRUE, !.saved = FALSE]
<1>1. /\ TextSound(r) /\ r.state = "active" /\ r.alias = row.alias /\ r.prov = row.prov
      /\ r.keep /\ r.live # {} /\ r.member = row.member /\ r.verdict = row.verdict
  BY DEF RowSound, TextSound, Row
<1> HIDE DEF r
<1>2. RowSound(Indexed(r)) /\ SameButIndex(r, Indexed(r))
  BY <1>1, ClaimedRow
<1> QED BY <1>1, <1>2 DEF SameItem, SameButIndex, r

\* The text is released with the last claim on it.
LEMMA ReleaseRow ==
  ASSUME NEW row, row \in Row, row.state = "active", ~row.keep
  PROVE  LET new == Indexed(ReleaseText(row)) IN
         SameItem(row, new) /\ new.member = row.member /\ new.verdict = row.verdict
<1> DEFINE r == ReleaseText(row)
<1>1. /\ TextSound(r) /\ r.state = "active" /\ r.alias = row.alias /\ r.prov = row.prov
      /\ ~r.keep /\ r.live = {} /\ r.member = row.member /\ r.verdict = row.verdict
  BY DEF ReleaseText, TextSound, Row
<1> HIDE DEF r
<1>2. RowSound(Indexed(r)) /\ SameButIndex(r, Indexed(r))
  BY <1>1, ClaimedRow
<1> QED BY <1>1, <1>2 DEF SameItem, SameButIndex, r

\* ReleaseMemoryFullCopy gives the text up whoever asked for it.
LEMMA GiveUpRow ==
  ASSUME NEW row, RowSound(row), row.state = "active"
  PROVE  LET new == Indexed(ReleaseText([row EXCEPT !.keep = FALSE])) IN
         SameItem(row, new) /\ new.member = row.member /\ new.verdict = row.verdict
<1> DEFINE r == [row EXCEPT !.keep = FALSE]
<1>1. /\ r \in Row /\ r.state = "active" /\ ~r.keep /\ r.alias = row.alias /\ r.prov = row.prov
      /\ r.member = row.member /\ r.verdict = row.verdict
  BY DEF RowSound, Row
<1> HIDE DEF r
<1> QED BY <1>1, ReleaseRow DEF SameItem, r

\* DoneSavedMemory.
LEMMA DoneRow ==
  ASSUME NEW row, RowSound(row), row.state = "active"
  PROVE  SameItem(row, Done(row)) /\ Done(row).member = row.member /\ Done(row).verdict = row.verdict
<1> DEFINE r == [row EXCEPT !.saved = FALSE]
<1>1. /\ TextSound(r) /\ r.state = "active" /\ r.alias = row.alias /\ r.prov = row.prov
      /\ r.keep = row.keep /\ r.live = row.live /\ r.member = row.member /\ r.verdict = row.verdict
  BY DEF RowSound, TextSound, Row
<1>2. Done(row) = IF row.keep THEN Indexed(r) ELSE Indexed(ReleaseText(r))
  BY DEF Done
<1> HIDE DEF r
<1>3. CASE row.keep
  <2>1. RowSound(Indexed(r)) /\ SameButIndex(r, Indexed(r))
    BY <1>1, <1>3, ClaimedRow DEF RowSound
  <2> QED BY <1>1, <1>2, <1>3, <2>1 DEF SameItem, SameButIndex
<1>4. CASE ~row.keep
  BY <1>1, <1>2, <1>4, ReleaseRow DEF SameItem, TextSound
<1> QED BY <1>3, <1>4

\* A row that is gone: nothing is left of its text, aliases and provenance.
LEMMA RemovedRow ==
  ASSUME NEW row, RowSound(row)
  PROVE  /\ RowSound(Removed(row)) /\ Removed(row).state = "none" /\ Removed(row).verdict = row.verdict
         /\ ~Removed(row).member /\ Removed(row).alias = {} /\ Removed(row).prov = {}
BY DEF RowSound, Removed, NoItem, Row, Verdicts

\* A forgotten row keeps its place as a tombstone.
LEMMA ForgottenRow ==
  ASSUME NEW row, RowSound(row)
  PROVE  LET new == Indexed([Removed(row) EXCEPT !.state = "tombstone"]) IN
         /\ RowSound(new) /\ new.state = "tombstone" /\ new.verdict = row.verdict /\ ~new.member
         /\ new.alias = {} /\ new.prov = {}
<1> DEFINE r == [Removed(row) EXCEPT !.state = "tombstone"]
<1>1. /\ TextSound(r) /\ r.state = "tombstone" /\ r.verdict = row.verdict /\ ~r.member
      /\ r.alias = {} /\ r.prov = {} /\ ~r.saved /\ ~r.keep /\ r.live = {}
  BY DEF RowSound, TextSound, Removed, NoItem, Row, Verdicts
<1> HIDE DEF r
<1> QED BY <1>1, IndexedRow DEF RowSound, TextSound, SameButIndex, r

\* retractRoutineMoreMemoryTx takes back one More, and the item when nothing else
\* holds it.
LEMMA RetractRow ==
  ASSUME NEW row, RowSound(row), NEW t \in Timelines
  PROVE  /\ RowSound(Retract(row, t)) /\ Retract(row, t).member = row.member
         /\ Retract(row, t).verdict = row.verdict
         /\ \/ Retract(row, t) = row /\ <<"more", t>> \notin row.prov
            \/ /\ Retract(row, t).state = row.state /\ Retract(row, t).alias = row.alias
               /\ Retract(row, t).saved = row.saved /\ Retract(row, t).keep = row.keep
               /\ Retract(row, t).live = row.live
               /\ Retract(row, t).prov = row.prov \ {<<"more", t>>}
            \/ /\ row.prov \subseteq {<<"more", t>>, <<"later", t>>} /\ ~row.saved /\ ~row.keep
               /\ Retract(row, t).state = "none" /\ Retract(row, t).alias = {} /\ Retract(row, t).prov = {}
<1> DEFINE rest == row.prov \ {<<"more", t>>}
<1>1. CASE <<"more", t>> \notin row.prov
  BY <1>1 DEF Retract
<1>2. CASE <<"more", t>> \in row.prov /\ (row.saved \/ row.keep \/ rest \ {<<"later", t>>} # {})
  <2>1. Retract(row, t) = [row EXCEPT !.prov = rest]
    BY <1>2 DEF Retract
  <2>2. rest \subseteq Kinds \X Timelines /\ row.state = "active"
    BY <1>2 DEF RowSound, Row
  <2> HIDE DEF rest
  <2>3. /\ Retract(row, t) \in Row /\ Retract(row, t).prov = rest
        /\ Retract(row, t).state = row.state /\ Retract(row, t).alias = row.alias
        /\ Retract(row, t).saved = row.saved /\ Retract(row, t).keep = row.keep
        /\ Retract(row, t).live = row.live /\ Retract(row, t).tier = row.tier
        /\ Retract(row, t).named = row.named /\ Retract(row, t).fts = row.fts
        /\ Retract(row, t).member = row.member /\ Retract(row, t).verdict = row.verdict
    BY <2>1, <2>2 DEF RowSound, Row
  <2> QED BY <2>2, <2>3 DEF RowSound, rest
<1>3. CASE <<"more", t>> \in row.prov /\ ~(row.saved \/ row.keep \/ rest \ {<<"later", t>>} # {})
  <2>1. Retract(row, t) = [Removed(row) EXCEPT !.member = row.member]
    BY <1>3 DEF Retract
  <2>2. /\ RowSound(Retract(row, t)) /\ Retract(row, t).member = row.member
        /\ Retract(row, t).verdict = row.verdict
        /\ Retract(row, t).state = "none" /\ Retract(row, t).alias = {} /\ Retract(row, t).prov = {}
    BY <2>1, RemovedRow DEF RowSound, Row
  <2> QED BY <1>3, <2>2
<1> QED BY <1>1, <1>2, <1>3

-----------------------------------------------------------------------------
(* Identity.                                                                *)

\* The evidence key is an alias of whatever evidence the row has now.
LEMMA KeyFact ==
  ASSUME PMTypeOK, NEW t \in Timelines
  PROVE  Now(t) \in Shape /\ Key(t) \in Aliases /\ Key(t) \in Now(t).strong
<1>1. PICK a \in Aliases : \A k \in DOMAIN Evidence[t] : a \in Evidence[t][k].strong
  BY EvidenceAssumption
<1>2. Key(t) \in Aliases /\ \A k \in DOMAIN Evidence[t] : Key(t) \in Evidence[t][k].strong
  BY <1>1 DEF Key
<1>3. Evidence[t] \in Seq(Shape) /\ shape[t] \in Nat \ {0} /\ shape[t] <= Len(Evidence[t])
  BY EvidenceAssumption DEF PMTypeOK
<1>4. shape[t] \in DOMAIN Evidence[t] /\ Evidence[t][shape[t]] \in Shape
  BY <1>3, LenProperties, ElementOfSeq
<1> QED BY <1>2, <1>4 DEF Now

\* Sets of items are finite.
LEMMA ItemSets ==
  ASSUME NEW S \in SUBSET Items
  PROVE  /\ Cardinality(S) \in Nat
         /\ Cardinality(S) = 0 <=> S = {}
         /\ Cardinality(S) = 1 <=> \E i : S = {i}
<1>1. IsFiniteSet(S)
  BY FS_Subset, InstanceAssumption
<1> QED BY <1>1, FS_CardinalityType, FS_EmptySet, FS_Singleton

\* resolveMemoryIdentity: the item it finds is active and owns every strong alias
\* that is owned at all; when it finds none, no strong alias is owned.
LEMMA ResolveFact ==
  ASSUME NEW e \in Shape
  PROVE  /\ Resolve(e) \in Items \cup {Nobody, Conflict}
         /\ Resolve(e) = Nobody => StrongOwners(e) = {}
         /\ Resolve(e) \in Items => /\ mem[Resolve(e)].state = "active"
                                    /\ StrongOwners(e) \subseteq {Resolve(e)}
<1>1. /\ StrongOwners(e) \subseteq Items
      /\ \A i \in StrongOwners(e) : mem[i].state = "active"
      /\ \A a : Owners(a) \subseteq Items /\ \A i \in Owners(a) : mem[i].state = "active"
  BY DEF StrongOwners, Owners
<1>2. /\ Cardinality(StrongOwners(e)) \in Nat
      /\ Cardinality(StrongOwners(e)) = 0 <=> StrongOwners(e) = {}
      /\ Cardinality(StrongOwners(e)) = 1 <=> \E i : StrongOwners(e) = {i}
  BY <1>1, ItemSets
<1>3. CASE Cardinality(StrongOwners(e)) > 1
  <2>1. Resolve(e) = Conflict
    BY <1>2, <1>3 DEF Resolve
  <2> QED BY <2>1, SentinelAssumption
<1>4. CASE Cardinality(StrongOwners(e)) = 1
  <2>1. PICK i : StrongOwners(e) = {i}
    BY <1>2, <1>4
  <2>2. Resolve(e) = i
    BY <1>4, <2>1 DEF Resolve
  <2> QED BY <1>1, <2>1, <2>2, SentinelAssumption
<1>5. CASE StrongOwners(e) = {}
  <2>1. CASE e.print # NoText /\ Cardinality(Owners(e.print)) = 1
    <3>1. PICK i : Owners(e.print) = {i}
      BY <1>1, <2>1, ItemSets
    <3>2. Resolve(e) = i
      BY <1>2, <1>5, <2>1, <3>1 DEF Resolve
    <3> QED BY <1>1, <1>5, <3>1, <3>2, SentinelAssumption
  <2>2. CASE ~(e.print # NoText /\ Cardinality(Owners(e.print)) = 1)
    <3>1. Resolve(e) = Nobody
      BY <1>2, <1>5, <2>2 DEF Resolve
    <3> QED BY <1>5, <3>1, SentinelAssumption
  <2> QED BY <2>1, <2>2
<1> QED BY <1>2, <1>3, <1>4, <1>5

\* An accepted upsert works on a new row, or on the active one that owns all the
\* strong aliases that are owned.
LEMMA TargetFact ==
  ASSUME RowsInv, NEW e \in Shape, Accepted(e), NEW i \in Targets(e)
  PROVE  /\ i \in Items /\ StrongOwners(e) \subseteq {i} /\ RowSound(Base(e, i))
         /\ \/ Resolve(e) = Nobody /\ Base(e, i) = NoItem /\ mem[i].state = "none" /\ ~mem[i].member
            \/ Resolve(e) = i /\ Base(e, i) = mem[i] /\ mem[i].state = "active"
<1>1. CASE Resolve(e) = Nobody
  BY <1>1, ResolveFact, NoItemRow DEF Targets, Base, FreshItems
<1>2. CASE Resolve(e) # Nobody
  BY <1>2, ResolveFact DEF Targets, Base, Accepted, RowsInv
<1> QED BY <1>1, <1>2

-----------------------------------------------------------------------------
(* What a transaction does to the library.                                  *)

\* One row is replaced.
Writes(i, new) == mem' = [mem EXCEPT ![i] = new]

\* It, and no other.
LEMMA WriteFact ==
  ASSUME PMTypeOK, NEW i \in Items, NEW new, Writes(i, new)
  PROVE  mem'[i] = new /\ \A j \in Items \ {i} : mem'[j] = mem[j]
BY DEF PMTypeOK, Writes

\* Provenance, aliases and state of the rows stay.
SameItems == \A i \in Items : /\ mem'[i].state = mem[i].state /\ mem'[i].alias = mem[i].alias
                              /\ mem'[i].prov = mem[i].prov

\* What a transaction of the library starts from.
LibraryInv == RowsInv /\ UniqueInv /\ KeyInv /\ MoreRemembered
\* The library's part of a step: types, identity and what holds the items.
LibraryKept == RowsInv' /\ UniqueInv' /\ KeyInv' /\ MoreRemembered' /\ mem' \in [Items -> Row]

\* A row is adjusted, with the same aliases and the same provenance.
LEMMA AdjustKeeps ==
  ASSUME PMTypeOK, LibraryInv, NEW i \in Items, NEW new, SameItem(mem[i], new), Writes(i, new),
         UNCHANGED <<owed, final>>
  PROVE  LibraryKept /\ SameItems
<1>1. mem'[i] = new /\ \A j \in Items \ {i} : mem'[j] = mem[j]
  BY WriteFact
<1>2. SameItems
  BY <1>1 DEF SameItems, SameItem
<1>3. RowsInv'
  BY <1>1 DEF RowsInv, LibraryInv, SameItem
<1>4. mem' \in [Items -> Row]
  BY <1>3 DEF PMTypeOK, Writes, RowsInv, RowSound
<1>5. UniqueInv' /\ KeyInv' /\ MoreRemembered'
  BY <1>2 DEF LibraryInv, UniqueInv, KeyInv, MoreRemembered, SameItems
<1> QED BY <1>2, <1>3, <1>4, <1>5 DEF LibraryKept

\* The library is left alone.
LEMMA StillKeeps ==
  ASSUME PMTypeOK, LibraryInv, UNCHANGED mem,
         \A t \in Timelines : (final[t] => final'[t]) /\ (owed'[t] => owed[t])
  PROVE  LibraryKept /\ SameItems
BY DEF PMTypeOK, LibraryInv, LibraryKept, RowsInv, UniqueInv, KeyInv, MoreRemembered, SameItems

\* An accepted upsert: the row takes the aliases of the evidence and one provenance.
Upserts(i, new, e, kind, t) ==
    /\ Accepted(e) /\ i \in Targets(e) /\ Writes(i, new) /\ RowSound(new) /\ new.state = "active"
    /\ new.alias = Base(e, i).alias \cup AliasesOf(e)
    /\ new.prov = Base(e, i).prov \cup {<<kind, t>>}
    /\ new.member = Base(e, i).member

\* Identity survives it: the aliases it adds had no other owner.
LEMMA UpsertKeeps ==
  ASSUME PMTypeOK, LibraryInv, NEW e \in Shape, NEW kind \in Kinds, NEW t \in Timelines,
         NEW i, NEW new, Upserts(i, new, e, kind, t), UNCHANGED final,
         kind = "more" => Key(t) \in e.strong /\ final[t],
         UNCHANGED owed \/ (kind = "more" /\ owed' = [owed EXCEPT ![t] = TRUE])
  PROVE  /\ LibraryKept /\ i \in Items
         /\ \A j \in Items : \A s \in Timelines :
              <<"more", s>> \in mem'[j].prov => <<"more", s>> \in mem[j].prov \/ (kind = "more" /\ s = t)
<1>0. RowsInv /\ UniqueInv /\ KeyInv /\ MoreRemembered /\ Accepted(e) /\ i \in Targets(e)
  BY DEF LibraryInv, Upserts
<1>1. /\ i \in Items /\ StrongOwners(e) \subseteq {i} /\ RowSound(Base(e, i))
      /\ \/ Resolve(e) = Nobody /\ Base(e, i) = NoItem /\ mem[i].state = "none" /\ ~mem[i].member
         \/ Resolve(e) = i /\ Base(e, i) = mem[i] /\ mem[i].state = "active"
  BY <1>0, TargetFact
<1>2. mem'[i] = new /\ \A j \in Items \ {i} : mem'[j] = mem[j]
  BY <1>1, WriteFact DEF Upserts
<1>3. RowsInv'
  BY <1>0, <1>2 DEF RowsInv, Upserts
<1>4. mem' \in [Items -> Row]
  BY <1>3 DEF PMTypeOK, Writes, Upserts, RowsInv, RowSound
<1>5. /\ Base(e, i).alias \subseteq mem[i].alias /\ Base(e, i).prov \subseteq mem[i].prov
      /\ mem[i].alias \subseteq new.alias /\ mem[i].prov \subseteq new.prov
      /\ new.alias \subseteq mem[i].alias \cup AliasesOf(e)
      /\ new.prov \subseteq mem[i].prov \cup {<<kind, t>>} /\ <<kind, t>> \in new.prov
      /\ e.strong \subseteq new.alias
  BY <1>0, <1>1 DEF Upserts, NoItem, RowsInv, RowSound, AliasesOf
<1>6. UniqueInv'
  <2> SUFFICES ASSUME NEW j \in Items \ {i}, NEW a \in Aliases, a \in new.alias, a \in mem[j].alias
               PROVE  FALSE
    BY <1>0, <1>2 DEF UniqueInv
  <2>1. a \in e.strong
    BY <1>0, <1>1, <1>5, SentinelAssumption DEF UniqueInv, AliasesOf, Shape
  <2>2. mem[j].state = "active"
    BY <1>0 DEF RowsInv, RowSound
  <2> QED BY <1>1, <2>1, <2>2 DEF StrongOwners, Owners
<1>7. \A j \in Items : \A s \in Timelines :
        <<"more", s>> \in mem'[j].prov => <<"more", s>> \in mem[j].prov \/ (kind = "more" /\ s = t)
  BY <1>2, <1>5
<1>8. KeyInv'
  BY <1>0, <1>2, <1>5, <1>7 DEF KeyInv
<1>9. MoreRemembered'
  <2> SUFFICES ASSUME NEW s \in Timelines, owed'[s]
               PROVE  \E j \in Items : mem'[j].state = "active" /\ <<"more", s>> \in mem'[j].prov
    BY DEF MoreRemembered
  <2>1. CASE owed[s]
    <3>1. PICK j \in Items : mem[j].state = "active" /\ <<"more", s>> \in mem[j].prov
      BY <1>0, <2>1 DEF MoreRemembered
    <3> QED BY <1>2, <1>5, <3>1 DEF Upserts
  <2>2. CASE ~owed[s]
    <3>1. kind = "more" /\ s = t
      BY <2>2 DEF PMTypeOK
    <3> QED BY <1>1, <1>2, <1>5, <3>1 DEF Upserts
  <2> QED BY <2>1, <2>2
<1> QED BY <1>1, <1>3, <1>4, <1>6, <1>7, <1>8, <1>9 DEF LibraryKept

\* A row is removed or forgotten, and with it what its Mores are owed.
LEMMA ClearKeeps ==
  ASSUME PMTypeOK, LibraryInv, NEW i \in Items, NEW new, Writes(i, new),
         RowSound(new), new.alias = {}, new.prov = {}, UNCHANGED final,
         owed' \in [Timelines -> BOOLEAN],
         \A t \in Timelines : owed'[t] => owed[t] /\ <<"more", t>> \notin mem[i].prov
  PROVE  /\ LibraryKept
         /\ \A j \in Items : mem'[j].prov \subseteq mem[j].prov
<1>1. mem'[i] = new /\ \A j \in Items \ {i} : mem'[j] = mem[j]
  BY WriteFact
<1>2. RowsInv'
  BY <1>1 DEF RowsInv, LibraryInv
<1>3. mem' \in [Items -> Row]
  BY <1>2 DEF PMTypeOK, Writes, RowsInv, RowSound
<1>4. UniqueInv' /\ KeyInv'
  BY <1>1 DEF LibraryInv, UniqueInv, KeyInv
<1>5. MoreRemembered'
  BY <1>1 DEF LibraryInv, MoreRemembered
<1> QED BY <1>1, <1>2, <1>3, <1>4, <1>5 DEF LibraryKept

\* A Less takes its More back from the one item that may have it.
LEMMA RetractKeeps ==
  ASSUME PMTypeOK, LibraryInv, NEW i \in Items, NEW t \in Timelines, Writes(i, Retract(mem[i], t)),
         UNCHANGED final, owed' = [owed EXCEPT ![t] = FALSE]
  PROVE  /\ LibraryKept
         /\ \A j \in Items : mem'[j].prov \subseteq mem[j].prov
         /\ <<"more", t>> \notin mem'[i].prov
<1> DEFINE new == Retract(mem[i], t)
<1>0. RowsInv /\ UniqueInv /\ KeyInv /\ MoreRemembered
  BY DEF LibraryInv
<1>1. mem'[i] = new /\ \A j \in Items \ {i} : mem'[j] = mem[j]
  BY WriteFact
<1>2. /\ RowSound(new)
      /\ \/ new = mem[i] /\ <<"more", t>> \notin mem[i].prov
         \/ /\ new.state = mem[i].state /\ new.alias = mem[i].alias
            /\ new.prov = mem[i].prov \ {<<"more", t>>}
         \/ /\ mem[i].prov \subseteq {<<"more", t>>, <<"later", t>>}
            /\ new.state = "none" /\ new.alias = {} /\ new.prov = {}
  BY <1>0, RetractRow DEF RowsInv
<1> HIDE DEF new
<1>3. RowsInv'
  BY <1>0, <1>1, <1>2 DEF RowsInv
<1>4. mem' \in [Items -> Row]
  BY <1>3 DEF PMTypeOK, Writes, RowsInv, RowSound
<1>5. /\ new.alias \subseteq mem[i].alias /\ new.prov \subseteq mem[i].prov /\ <<"more", t>> \notin new.prov
      /\ new.prov # {} => new.alias = mem[i].alias
  BY <1>2
<1>6. UniqueInv' /\ KeyInv'
  BY <1>0, <1>1, <1>5 DEF UniqueInv, KeyInv
<1>7. MoreRemembered'
  <2> SUFFICES ASSUME NEW s \in Timelines, owed'[s]
               PROVE  \E j \in Items : mem'[j].state = "active" /\ <<"more", s>> \in mem'[j].prov
    BY DEF MoreRemembered
  <2>1. s # t /\ owed[s]
    BY DEF PMTypeOK
  <2>2. PICK j \in Items : mem[j].state = "active" /\ <<"more", s>> \in mem[j].prov
    BY <1>0, <2>1 DEF MoreRemembered
  <2> QED BY <1>1, <1>2, <2>1, <2>2
<1> QED BY <1>1, <1>3, <1>4, <1>5, <1>6, <1>7 DEF LibraryKept

-----------------------------------------------------------------------------
(* Feedback requests.                                                       *)

\* The requests.
Requests == [t : Timelines, d : {"more", "less"}, final : BOOLEAN, e : Shape, late : BOOLEAN]

\* The requests that are left when request k is answered, in their order.
LEMMA WithoutFact ==
  ASSUME requests \in Seq(Requests), NEW k \in DOMAIN requests
  PROVE  /\ Without(k) \in Seq(Requests) /\ Len(Without(k)) = Len(requests) - 1
         /\ \A j \in 1 .. Len(requests) - 1 :
              Without(k)[j] = requests[IF j < k THEN j ELSE j + 1]
<1> DEFINE n == Len(requests)
           s1 == SubSeq(requests, 1, k - 1)
           s2 == SubSeq(requests, k + 1, Len(requests))
<1>1. n \in Nat /\ k \in 1 .. n /\ k \in Int /\ DOMAIN requests = 1 .. n
  BY LenProperties
<1>2. \A j \in 1 .. n : requests[j] \in Requests
  BY <1>1, ElementOfSeq
<1>3. /\ s1 \in Seq(Requests) /\ Len(s1) = k - 1
      /\ \A j \in 1 .. k - 1 : s1[j] = requests[j]
  <2>1. k - 1 \in Int /\ \A j \in 1 .. k - 1 : requests[j] \in Requests
    BY <1>1, <1>2
  <2>2. /\ s1 \in Seq(Requests) /\ Len(s1) = IF 1 <= k - 1 THEN k - 1 - 1 + 1 ELSE 0
        /\ \A j \in 1 .. k - 1 - 1 + 1 : s1[j] = requests[1 + j - 1]
    BY <2>1, SubSeqProperties
  <2> QED BY <1>1, <2>2
<1>4. /\ s2 \in Seq(Requests) /\ Len(s2) = n - k
      /\ \A j \in 1 .. n - k : s2[j] = requests[j + k]
  <2>1. k + 1 \in Int /\ n \in Int /\ \A j \in k + 1 .. n : requests[j] \in Requests
    BY <1>1, <1>2
  <2>2. /\ s2 \in Seq(Requests) /\ Len(s2) = IF k + 1 <= n THEN n - (k + 1) + 1 ELSE 0
        /\ \A j \in 1 .. n - (k + 1) + 1 : s2[j] = requests[k + 1 + j - 1]
    BY <2>1, SubSeqProperties
  <2> QED BY <1>1, <2>2
<1> HIDE DEF s1, s2
<1>5. /\ s1 \o s2 \in Seq(Requests) /\ Len(s1 \o s2) = Len(s1) + Len(s2)
      /\ \A j \in 1 .. Len(s1) + Len(s2) : (s1 \o s2)[j] = IF j <= Len(s1) THEN s1[j] ELSE s2[j - Len(s1)]
  BY <1>3, <1>4, ConcatProperties
<1>6. Without(k) = s1 \o s2
  BY DEF Without, s1, s2
<1>7. Len(s1) + Len(s2) = n - 1
  BY <1>1, <1>3, <1>4
<1>8. \A j \in 1 .. n - 1 : (s1 \o s2)[j] = requests[IF j < k THEN j ELSE j + 1]
  <2> TAKE j \in 1 .. n - 1
  <2>1. (s1 \o s2)[j] = IF j <= k - 1 THEN s1[j] ELSE s2[j - (k - 1)]
    BY <1>3, <1>5, <1>7
  <2>0. j \in Int /\ k \in Int
    BY <1>1
  <2>2. CASE j < k
    BY <1>1, <1>3, <2>1, <2>2
  <2>3. CASE j >= k
    <3>1. j - (k - 1) \in 1 .. n - k /\ ~(j <= k - 1) /\ j - (k - 1) + k = j + 1
      BY <1>1, <2>3
    <3>2. s2[j - (k - 1)] = requests[j + 1]
      BY <1>4, <3>1
    <3> QED BY <1>1, <2>1, <2>3, <3>1, <3>2
  <2>4. j < k \/ j >= k
    BY <2>0
  <2> QED BY <2>2, <2>3, <2>4
<1> QED BY <1>5, <1>6, <1>7, <1>8

\* Which request each one left was; its evidence, direction and clock are the same.
Left(k) ==
    /\ requests' \in Seq(Requests) /\ Len(requests') = Len(requests) - 1
    /\ DOMAIN requests' = 1 .. Len(requests) - 1
    /\ \A j \in DOMAIN requests' :
         LET m == IF j < k THEN j ELSE j + 1 IN
         /\ m \in DOMAIN requests /\ m # k
         /\ requests'[j].t = requests[m].t /\ requests'[j].e = requests[m].e
         /\ requests'[j].final = requests[m].final
         /\ requests'[j].late => requests[m].late \/ requests[m].t = requests[k].t

\* A request that failed is left out.
LEMMA DroppedLeft ==
  ASSUME PMTypeOK, NEW k \in DOMAIN requests, requests' = Without(k)
  PROVE  Left(k)
<1>1. requests \in Seq(Requests)
  BY DEF PMTypeOK, Requests
<1>2. Len(requests) \in Nat /\ DOMAIN requests = 1 .. Len(requests)
  BY <1>1, LenProperties
<1>3. /\ requests' \in Seq(Requests) /\ Len(requests') = Len(requests) - 1
      /\ \A j \in 1 .. Len(requests) - 1 : requests'[j] = requests[IF j < k THEN j ELSE j + 1]
  BY <1>1, WithoutFact
<1>4. DOMAIN requests' = 1 .. Len(requests) - 1
  BY <1>3, LenProperties
<1> QED BY <1>2, <1>3, <1>4 DEF Left

\* A request that was stored is left out, and its row has its direction, unless late.
LEMMA StoredLeft ==
  ASSUME PMTypeOK, NEW k \in DOMAIN requests, Stored(k)
  PROVE  /\ Left(k) /\ latest' \in [Timelines -> {"none", "more", "less"}]
         /\ \A s \in Timelines : latest'[s] =
              IF s = requests[k].t /\ ~requests[k].late THEN requests[k].d ELSE latest[s]
<1> DEFINE n == Len(requests) - 1
           w == Without(k)
           late(j) == w[j].late \/ (j < k /\ w[j].t = requests[k].t)
<1>1. requests \in Seq(Requests) /\ latest \in [Timelines -> {"none", "more", "less"}]
  BY DEF PMTypeOK, Requests
<1>2. Len(requests) \in Nat /\ DOMAIN requests = 1 .. Len(requests) /\ requests[k] \in Requests
  BY <1>1, LenProperties, ElementOfSeq
<1>3. /\ w \in Seq(Requests) /\ Len(w) = n
      /\ \A j \in 1 .. n : w[j] = requests[IF j < k THEN j ELSE j + 1]
  BY <1>1, WithoutFact
<1>4. n \in Nat /\ \A j \in 1 .. n : w[j] \in Requests
  BY <1>2, <1>3, ElementOfSeq
<1>5. requests' = [j \in 1 .. n |-> [w[j] EXCEPT !.late = late(j)]]
  BY DEF Stored
<1> HIDE DEF w
<1>6. \A j \in 1 .. n : [w[j] EXCEPT !.late = late(j)] \in Requests
  BY <1>4 DEF Requests
<1>7. requests' \in [1 .. n -> Requests]
  BY <1>5, <1>6
<1>8. requests' \in Seq(Requests) /\ Len(requests') = n /\ DOMAIN requests' = 1 .. n
  BY <1>4, <1>7, SeqDef, LenProperties
<1>9. Left(k)
  <2> HIDE DEF n
  <2> SUFFICES ASSUME NEW j \in 1 .. n
               PROVE  LET m == IF j < k THEN j ELSE j + 1 IN
                      /\ m \in DOMAIN requests /\ m # k
                      /\ requests'[j].t = requests[m].t /\ requests'[j].e = requests[m].e
                      /\ requests'[j].final = requests[m].final
                      /\ requests'[j].late => requests[m].late \/ requests[m].t = requests[k].t
    BY <1>8 DEF Left, n
  <2> DEFINE m == IF j < k THEN j ELSE j + 1
  <2>1. m \in DOMAIN requests /\ m # k
    BY <1>2, <1>4 DEF n
  <2>2. w[j] = requests[m]
    BY <1>3
  <2> HIDE DEF m
  <2>3. /\ requests'[j].t = requests[m].t /\ requests'[j].e = requests[m].e
        /\ requests'[j].final = requests[m].final
        /\ requests'[j].late => requests[m].late \/ requests[m].t = requests[k].t
    <3>1. /\ requests'[j].t = w[j].t /\ requests'[j].e = w[j].e /\ requests'[j].final = w[j].final
          /\ requests'[j].late => w[j].late \/ w[j].t = requests[k].t
      <4>1. requests'[j] = [w[j] EXCEPT !.late = late(j)] /\ w[j] \in Requests
        BY <1>4, <1>5
      <4> QED BY <4>1 DEF Requests
    <3> QED BY <2>2, <3>1
  <2> QED BY <2>1, <2>3 DEF m
<1>10. latest' = [latest EXCEPT ![requests[k].t] = IF requests[k].late THEN @ ELSE requests[k].d]
  BY DEF Stored
<1> QED BY <1>1, <1>2, <1>9, <1>10 DEF Requests

\* An answered request leaves the others as they were: to be late, or to be the
\* only one, is to be so of one row.
LEMMA LeftKeeps ==
  ASSUME PMTypeOK, RequestInv, AloneInv, NEW k \in DOMAIN requests, Left(k), UNCHANGED <<raced, final>>
  PROVE  /\ RequestInv' /\ AloneInv'
         /\ requests' \in Seq(Requests) /\ Len(requests') <= Len(requests)
         /\ \A j \in DOMAIN requests' : \E m \in DOMAIN requests \ {k} :
              requests'[j].t = requests[m].t /\ requests'[j].final = requests[m].final
<1>1. Len(requests) \in Nat /\ DOMAIN requests = 1 .. Len(requests)
  BY LenProperties DEF PMTypeOK
<1>2. RequestInv'
  BY DEF RequestInv, Left
<1>3. AloneInv'
  <2> SUFFICES ASSUME NEW t \in Timelines, ~raced[t], NEW j \in DOMAIN requests', requests'[j].t = t,
                      NEW h \in DOMAIN requests', requests'[h].t = t
               PROVE  ~requests'[j].late /\ h = j
    BY DEF AloneInv
  <2> DEFINE mj == IF j < k THEN j ELSE j + 1
             mh == IF h < k THEN h ELSE h + 1
  <2>1. /\ mj \in DOMAIN requests /\ mj # k /\ requests[mj].t = t
        /\ mh \in DOMAIN requests /\ mh # k /\ requests[mh].t = t
        /\ requests'[j].late => requests[mj].late \/ t = requests[k].t
    BY DEF Left
  <2>2. ~requests[mj].late /\ mh = mj /\ requests[k].t # t
    BY <2>1 DEF AloneInv
  <2>3. j \in Nat /\ h \in Nat /\ k \in Nat
    BY <1>1 DEF Left
  <2> QED BY <2>1, <2>2, <2>3
<1> QED BY <1>1, <1>2, <1>3 DEF Left

-----------------------------------------------------------------------------
(* The operations of the library.                                           *)

\* A membership or a verdict is written, and a text that is stored is claimed.
LEMMA MemberRow ==
  ASSUME NEW row, RowSound(row), NEW m \in BOOLEAN, NEW v \in Verdicts
  PROVE  /\ SameItem(row, [row EXCEPT !.member = m]) /\ SameItem(row, [row EXCEPT !.member = m, !.verdict = v])
         /\ [row EXCEPT !.member = m, !.verdict = v].member = m
         /\ [row EXCEPT !.member = m, !.verdict = v].verdict = v
BY DEF RowSound, Row, SameItem

\* A text that is stored may be kept.
LEMMA ClaimRow ==
  ASSUME NEW row, RowSound(row), row.tier = "full_copy"
  PROVE  SameItem(row, [row EXCEPT !.keep = TRUE]) /\ [row EXCEPT !.keep = TRUE].member = row.member
<1>1. row.live # {} /\ row.state = "active"
  BY DEF RowSound
<1> QED BY <1>1 DEF RowSound, Row, SameItem

\* No More takes hold of an item in this step.
NoNewMore == \A i \in Items : \A s \in Timelines :
  <<"more", s>> \in mem'[i].prov => <<"more", s>> \in mem[i].prov

\* No alias that a Forget suppressed is acquired, and no item the user took out
\* of the topic comes back but by the user's hand.
NoRecapture == \A i \in Items : (mem'[i].alias \ mem[i].alias) \cap tomb = {}
NoReturn == \A i \in Items :
  ~mem[i].member /\ mem'[i].member /\ mem[i].verdict = "exclude" => mem'[i].verdict = "include"

\* Identity kept, and no new hold, alias or member that must not be.
Tidy == LibraryKept /\ NoNewMore /\ NoRecapture /\ NoReturn

\* The parts of the invariant.
LEMMA InvParts ==
  ASSUME PMInv
  PROVE  /\ PMTypeOK /\ LibraryInv /\ RowsInv /\ UniqueInv /\ KeyInv /\ RequestInv
         /\ AloneInv /\ HeldInv /\ MoreRemembered
BY DEF PMInv, LibraryInv

\* One row is adjusted.
LEMMA AdjustTidy ==
  ASSUME PMInv, NEW i \in Items, NEW new, SameItem(mem[i], new),
         ~mem[i].member /\ new.member /\ mem[i].verdict = "exclude" => new.verdict = "include",
         Writes(i, new), UNCHANGED <<owed, final>>
  PROVE  Tidy
<1>1. LibraryKept /\ SameItems
  BY InvParts, AdjustKeeps
<1>2. mem'[i] = new /\ \A j \in Items \ {i} : mem'[j] = mem[j]
  BY InvParts, WriteFact
<1>3. NoReturn
  BY <1>2 DEF NoReturn
<1> QED BY <1>1, <1>3 DEF Tidy, NoNewMore, NoRecapture, SameItems

\* No row is written.
LEMMA StillTidy ==
  ASSUME PMInv, UNCHANGED mem,
         \A t \in Timelines : (final[t] => final'[t]) /\ (owed'[t] => owed[t])
  PROVE  Tidy
BY InvParts, StillKeeps DEF Tidy, NoNewMore, NoRecapture, NoReturn

\* An upsert was accepted: none of its aliases is suppressed, and a new item is no
\* member.
LEMMA UpsertDecides ==
  ASSUME PMInv, NEW e \in Shape, NEW kind \in Kinds, NEW t \in Timelines,
         NEW i, NEW new, Upserts(i, new, e, kind, t)
  PROVE  NoRecapture /\ NoReturn
<1>0. RowsInv /\ Accepted(e) /\ i \in Targets(e)
  BY InvParts DEF Upserts
<1>1. /\ i \in Items /\ RowSound(Base(e, i))
      /\ \/ Resolve(e) = Nobody /\ Base(e, i) = NoItem /\ mem[i].state = "none" /\ ~mem[i].member
         \/ Resolve(e) = i /\ Base(e, i) = mem[i] /\ mem[i].state = "active"
  BY <1>0, TargetFact
<1>2. mem'[i] = new /\ \A j \in Items \ {i} : mem'[j] = mem[j]
  BY <1>1, InvParts, WriteFact DEF Upserts
<1>3. Base(e, i).alias \subseteq mem[i].alias /\ Base(e, i).member = mem[i].member
  <2>1. mem[i].member \in BOOLEAN
    BY <1>0, <1>1 DEF RowsInv, RowSound, Row
  <2>2. NoItem.alias = {} /\ NoItem.member = FALSE
    BY DEF NoItem
  <2>3. CASE Base(e, i) = NoItem /\ ~mem[i].member
    <3>1. mem[i].member = FALSE
      BY <2>1, <2>3
    <3> QED BY <2>2, <2>3, <3>1
  <2> QED BY <1>1, <2>3
<1>4. AliasesOf(e) \cap tomb = {}
  BY <1>0 DEF Accepted, Tombstoned
<1>5. new.alias = Base(e, i).alias \cup AliasesOf(e) /\ new.member = Base(e, i).member
  BY DEF Upserts
<1> QED BY <1>2, <1>3, <1>4, <1>5 DEF NoRecapture, NoReturn

\* The three upserts that are not a More.
LEMMA UpsertTidy ==
  ASSUME PMInv, NEW e \in Shape, NEW kind \in Kinds \ {"more"}, NEW t \in Timelines,
         NEW i, NEW new, Upserts(i, new, e, kind, t), UNCHANGED <<owed, final>>
  PROVE  Tidy
BY InvParts, UpsertKeeps, UpsertDecides DEF Tidy, NoNewMore

\* Keep: the text of the Timeline row, in the item of its evidence.
LEMMA KeepTidy ==
  ASSUME PMInv, NEW t \in Timelines, KeepTimelineFullCopy(t)
  PROVE  Tidy
<1> DEFINE e == Now(t)
<1>1. e \in Shape /\ Accepted(e) /\ e.print \in Prints /\ UNCHANGED <<owed, final>>
  BY InvParts, KeyFact DEF KeepTimelineFullCopy, Shape
<1>2. /\ Resolve(e) \in Items \cup {Nobody, Conflict} /\ Resolve(e) # Conflict
      /\ Resolve(e) \in Items => mem[Resolve(e)].state = "active"
  BY <1>1, ResolveFact DEF Accepted
<1>3. CASE Resolve(e) # Nobody /\ mem[Resolve(e)].tier = "full_copy"
  <2> DEFINE i == Resolve(e)
  <2>1. i \in Items /\ RowSound(mem[i]) /\ mem[i].tier = "full_copy"
    BY <1>2, <1>3, InvParts DEF RowsInv
  <2>2. mem' = [mem EXCEPT ![i] = [mem[i] EXCEPT !.keep = TRUE]]
    BY <1>3 DEF KeepTimelineFullCopy
  <2> HIDE DEF i
  <2> QED BY <1>1, <2>1, <2>2, ClaimRow, AdjustTidy DEF Writes
<1>4. CASE ~(Resolve(e) # Nobody /\ mem[Resolve(e)].tier = "full_copy")
  <2>1. PICK i \in Targets(e) :
          mem' = [mem EXCEPT ![i] = KeepFullCopy(Stub(Base(e, i), e, "keep", t), e.print)]
    BY <1>4 DEF KeepTimelineFullCopy
  <2> DEFINE stub == Stub(Base(e, i), e, "keep", t)
             new == KeepFullCopy(stub, e.print)
  <2>2. RowSound(Base(e, i))
    BY <1>1, InvParts, TargetFact
  <2>3. /\ RowSound(stub) /\ stub.state = "active" /\ stub.alias = Base(e, i).alias \cup AliasesOf(e)
        /\ stub.prov = Base(e, i).prov \cup {<<"keep", t>>} /\ stub.member = Base(e, i).member
    BY <1>1, <2>2, StubRow DEF Kinds
  <2> HIDE DEF stub
  <2>4. SameItem(stub, new) /\ new.member = stub.member
    BY <1>1, <2>3, KeepRow
  <2>5. Writes(i, new)
    BY <2>1 DEF Writes, stub
  <2> HIDE DEF e, new
  <2>6. Upserts(i, new, e, "keep", t)
    BY <1>1, <2>1, <2>3, <2>4, <2>5 DEF Upserts, SameItem
  <2> QED BY <1>1, <2>6, UpsertTidy DEF Kinds
<1> QED BY <1>3, <1>4

\* Read later: a stub, with the text if the row has none yet.
LEMMA LaterTidy ==
  ASSUME PMInv, NEW t \in Timelines, ReadLaterTimeline(t)
  PROVE  Tidy
<1> DEFINE e == Now(t)
<1>1. e \in Shape /\ Accepted(e) /\ e.print \in Prints \cup {NoText} /\ UNCHANGED <<owed, final>>
  BY InvParts, KeyFact DEF ReadLaterTimeline, Shape
<1>2. PICK i \in Targets(e) :
        LET stub == Stub(Base(e, i), e, "later", t)
            text == IF stub.tier = "full_copy" THEN NoText ELSE e.print
        IN  mem' = [mem EXCEPT ![i] = [SaveForLater(stub, text) EXCEPT !.saved = TRUE]]
  BY DEF ReadLaterTimeline
<1> DEFINE stub == Stub(Base(e, i), e, "later", t)
           text == IF stub.tier = "full_copy" THEN NoText ELSE e.print
           new == [SaveForLater(stub, text) EXCEPT !.saved = TRUE]
<1>3. RowSound(Base(e, i))
  BY <1>1, InvParts, TargetFact
<1>4. /\ RowSound(stub) /\ stub.state = "active" /\ stub.alias = Base(e, i).alias \cup AliasesOf(e)
      /\ stub.prov = Base(e, i).prov \cup {<<"later", t>>} /\ stub.member = Base(e, i).member
  BY <1>1, <1>3, StubRow DEF Kinds
<1>5. Writes(i, new)
  BY <1>2 DEF Writes
<1> HIDE DEF stub
<1>6. SameItem(stub, new) /\ new.member = stub.member
  BY <1>1, <1>4, LaterRow
<1> HIDE DEF e, new
<1>7. Upserts(i, new, e, "later", t)
  BY <1>1, <1>2, <1>4, <1>5, <1>6 DEF Upserts, SameItem
<1> QED BY <1>1, <1>7, UpsertTidy DEF Kinds

\* The operations on an item of the library that leave it in the library.
LEMMA ItemTidy ==
  ASSUME PMInv, NEW i \in Items,
         \/ KeepMemoryInLibrary(i) \/ DoneSavedMemory(i) \/ ReleaseMemoryFullCopy(i)
         \/ AddLivingTopicMember(i) \/ RemoveLivingTopicMember(i)
  PROVE  Tidy
<1>1. RowSound(mem[i])
  BY InvParts DEF RowsInv
<1>2. CASE KeepMemoryInLibrary(i)
  <2>1. Writes(i, Indexed([mem[i] EXCEPT !.keep = TRUE, !.saved = FALSE]))
    BY <1>2 DEF KeepMemoryInLibrary, Writes
  <2> QED BY <1>1, <1>2, <2>1, LibraryRow, AdjustTidy DEF KeepMemoryInLibrary
<1>3. CASE DoneSavedMemory(i)
  <2>1. Writes(i, Done(mem[i]))
    BY <1>3 DEF DoneSavedMemory, Writes
  <2> QED BY <1>1, <1>3, <2>1, DoneRow, AdjustTidy DEF DoneSavedMemory
<1>4. CASE ReleaseMemoryFullCopy(i)
  <2>1. Writes(i, Indexed(ReleaseText([mem[i] EXCEPT !.keep = FALSE])))
    BY <1>4 DEF ReleaseMemoryFullCopy, Writes
  <2> QED BY <1>1, <1>4, <2>1, GiveUpRow, AdjustTidy DEF ReleaseMemoryFullCopy
<1>5. CASE AddLivingTopicMember(i)
  <2>1. Writes(i, [mem[i] EXCEPT !.member = TRUE, !.verdict = "include"])
    BY <1>5 DEF AddLivingTopicMember, Writes
  <2> QED BY <1>1, <1>5, <2>1, MemberRow, AdjustTidy DEF AddLivingTopicMember, Verdicts
<1>6. CASE RemoveLivingTopicMember(i)
  <2>1. Writes(i, [mem[i] EXCEPT !.member = FALSE, !.verdict = "exclude"])
    BY <1>6 DEF RemoveLivingTopicMember, Writes
  <2> QED BY <1>1, <1>6, <2>1, MemberRow, AdjustTidy DEF RemoveLivingTopicMember, Verdicts
<1> QED BY <1>2, <1>3, <1>4, <1>5, <1>6

\* Remove and Forget.
LEMMA ClearTidy ==
  ASSUME PMInv, NEW i \in Items, RemoveMemory(i) \/ ForgetMemory(i)
  PROVE  Tidy /\ owed' \in [Timelines -> BOOLEAN] /\ tomb' \subseteq Aliases \cup Prints
<1>1. /\ RowSound(mem[i]) /\ mem[i].alias \subseteq Aliases \cup Prints
      /\ tomb \subseteq Aliases \cup Prints /\ owed \in [Timelines -> BOOLEAN]
  BY InvParts DEF RowsInv, RowSound, Row, PMTypeOK
<1>2. /\ owed' = [t \in Timelines |-> owed[t] /\ <<"more", t>> \notin mem[i].prov]
      /\ UNCHANGED final
      /\ \E new : Writes(i, new) /\ RowSound(new) /\ new.alias = {} /\ new.prov = {} /\ ~new.member
  <2>1. CASE RemoveMemory(i)
    BY <1>1, <2>1, RemovedRow DEF RemoveMemory, Writes
  <2>2. CASE ForgetMemory(i)
    BY <1>1, <2>2, ForgottenRow DEF ForgetMemory, Writes
  <2> QED BY <2>1, <2>2
<1>3. owed' \in [Timelines -> BOOLEAN]
  BY <1>2
<1>4. tomb' \subseteq Aliases \cup Prints
  BY <1>1 DEF RemoveMemory, ForgetMemory
<1>5. \A t \in Timelines : owed'[t] => owed[t] /\ <<"more", t>> \notin mem[i].prov
  BY <1>2
<1>6. PICK new : Writes(i, new) /\ RowSound(new) /\ new.alias = {} /\ new.prov = {} /\ ~new.member
  BY <1>2
<1>7. mem'[i] = new /\ \A j \in Items \ {i} : mem'[j] = mem[j]
  BY <1>6, InvParts, WriteFact
<1>8. NoRecapture /\ NoReturn
  BY <1>6, <1>7 DEF NoRecapture, NoReturn
<1>9. LibraryKept /\ \A j \in Items : mem'[j].prov \subseteq mem[j].prov
  BY <1>2, <1>3, <1>5, <1>6, InvParts, ClearKeeps
<1> QED BY <1>3, <1>4, <1>8, <1>9 DEF Tidy, NoNewMore

-----------------------------------------------------------------------------
(* The automatic membership.                                                *)

\* The automatic membership under way.
RouteType == \/ route = NoRoute
             \/ route \in [pc : {"resolve", "create"}, t : Timelines, e : Shape]
             \/ route \in [pc : {"join"}, item : Items]

\* The lookup of the evidence that was read.
LEMMA ResolveRoute ==
  ASSUME PMInv, RouteResolve
  PROVE  RouteType'
<1>1. RouteType
  BY InvParts DEF PMTypeOK, RouteType
<1>2. route \in [pc : {"resolve", "create"}, t : Timelines, e : Shape]
  BY <1>1 DEF RouteResolve, RouteType, NoRoute
<1>3. Resolve(route.e) \in Items \cup {Nobody, Conflict}
  BY <1>2, ResolveFact
<1>4. CASE Resolve(route.e) = Conflict
  BY <1>4, SentinelAssumption DEF RouteResolve, RouteType
<1>5. CASE Resolve(route.e) = Nobody
  <2>1. route' = [route EXCEPT !.pc = "create"]
    BY <1>5, SentinelAssumption DEF RouteResolve
  <2> QED BY <1>2, <2>1 DEF RouteType
<1>6. CASE Resolve(route.e) \in Items
  <2>1. route' = [pc |-> "join", item |-> Resolve(route.e)]
    BY <1>6, SentinelAssumption DEF RouteResolve
  <2> QED BY <1>6, <2>1 DEF RouteType
<1> QED BY <1>3, <1>4, <1>5, <1>6

\* An accepted stub is such an upsert.
LEMMA StubUpserts ==
  ASSUME PMInv, NEW e \in Shape, Accepted(e), NEW kind \in Kinds, NEW t \in Timelines,
         NEW i \in Targets(e), mem' = [mem EXCEPT ![i] = Stub(Base(e, i), e, kind, t)]
  PROVE  i \in Items /\ \E new : Upserts(i, new, e, kind, t)
<1> DEFINE new == Stub(Base(e, i), e, kind, t)
<1>1. RowSound(Base(e, i)) /\ i \in Items
  BY InvParts, TargetFact
<1>2. /\ RowSound(new) /\ new.state = "active" /\ new.alias = Base(e, i).alias \cup AliasesOf(e)
      /\ new.prov = Base(e, i).prov \cup {<<kind, t>>} /\ new.member = Base(e, i).member
  BY <1>1, StubRow
<1>3. Writes(i, new)
  BY DEF Writes
<1> HIDE DEF new
<1> QED BY <1>1, <1>2, <1>3 DEF Upserts

\* The insertion, unless it is refused.
LEMMA CreateRoute ==
  ASSUME PMInv, RouteCreate
  PROVE  RouteType' /\ Tidy
<1>1. RouteType
  BY InvParts DEF PMTypeOK, RouteType
<1>2. route \in [pc : {"resolve", "create"}, t : Timelines, e : Shape]
  BY <1>1 DEF RouteCreate, RouteType, NoRoute
<1> DEFINE e == route.e
           t == route.t
<1>3. e \in Shape /\ t \in Timelines /\ UNCHANGED <<owed, final>>
  BY <1>2 DEF RouteCreate
<1>4. CASE ~Accepted(e)
  <2>1. UNCHANGED mem /\ route' = NoRoute
    BY <1>4 DEF RouteCreate
  <2> QED BY <1>3, <2>1, StillTidy DEF RouteType
<1>5. CASE Accepted(e)
  <2>1. PICK i \in Targets(e) : /\ mem' = [mem EXCEPT ![i] = Stub(Base(e, i), e, "topic", t)]
                                /\ route' = [pc |-> "join", item |-> i]
    BY <1>5 DEF RouteCreate
  <2> HIDE DEF e, t
  <2>2. i \in Items /\ \E new : Upserts(i, new, e, "topic", t)
    BY <1>3, <1>5, <2>1, StubUpserts DEF Kinds
  <2>3. Tidy
    BY <1>3, <2>2, UpsertTidy DEF Kinds
  <2> QED BY <2>1, <2>2, <2>3 DEF RouteType
<1> QED BY <1>4, <1>5

\* The join, whatever has become of the item.
LEMMA JoinRoute ==
  ASSUME PMInv, RouteJoin
  PROVE  RouteType' /\ Tidy
<1>1. RouteType /\ route' = NoRoute /\ UNCHANGED <<owed, final>>
  BY InvParts DEF PMTypeOK, RouteType, RouteJoin
<1>2. route.item \in Items
  BY <1>1 DEF RouteJoin, RouteType, NoRoute
<1>3. CASE UNCHANGED mem
  BY <1>1, <1>3, StillTidy DEF RouteType
<1>4. CASE /\ Writes(route.item, [mem[route.item] EXCEPT !.member = TRUE])
            /\ mem[route.item].verdict # "exclude"
  <2>1. RowSound(mem[route.item]) /\ mem[route.item].verdict \in Verdicts
    BY <1>2, InvParts DEF RowsInv, RowSound, Row
  <2> QED BY <1>1, <1>2, <1>4, <2>1, MemberRow, AdjustTidy DEF RouteType
<1> QED BY <1>3, <1>4 DEF RouteJoin, Writes

-----------------------------------------------------------------------------
(* Feedback.                                                                *)

\* A step that leaves the requests alone, and adds no hold.
LEMMA RequestsSame ==
  ASSUME PMInv, NoNewMore, UNCHANGED <<requests, raced, latest>>,
         \A t \in Timelines : final[t] => final'[t]
  PROVE  RequestInv' /\ AloneInv' /\ HeldInv'
<1>1. RequestInv /\ AloneInv /\ HeldInv
  BY InvParts
<1>2. \A k \in DOMAIN requests : requests[k].t \in Timelines
  <2>1. requests \in Seq(Requests)
    BY InvParts DEF PMTypeOK, Requests
  <2>2. \A k \in DOMAIN requests : requests[k] \in Requests
    BY <2>1, ElementOfSeq, LenProperties
  <2> QED BY <2>2 DEF Requests
<1>3. RequestInv'
  BY <1>1, <1>2 DEF RequestInv
<1>4. AloneInv'
  BY <1>1 DEF AloneInv
<1>5. HeldInv'
  BY <1>1 DEF HeldInv, NoNewMore
<1> QED BY <1>3, <1>4, <1>5

\* A request begins: of a row whose requests do not overlap it is the only one.
LEMMA BeginKeeps ==
  ASSUME PMInv, NEW t \in Timelines, NEW d \in {"more", "less"}, FeedbackBegin(t, d)
  PROVE  PMInv'
<1> DEFINE r == [t |-> t, d |-> d, final |-> final[t], e |-> Now(t), late |-> FALSE]
           n == Len(requests)
<1>1. requests \in Seq(Requests) /\ n \in Nat /\ DOMAIN requests = 1 .. n
  BY InvParts, LenProperties DEF PMTypeOK, Requests
<1>2. /\ Now(t) \in Shape /\ Key(t) \in Now(t).strong /\ final[t] \in BOOLEAN
  BY InvParts, KeyFact DEF PMTypeOK
<1>3. r \in Requests /\ r.t = t /\ r.e = Now(t) /\ r.final = final[t] /\ ~r.late
  BY <1>2 DEF Requests
<1>4. requests' = Append(requests, r)
  BY DEF FeedbackBegin
<1> HIDE DEF r
<1>5. /\ requests' \in Seq(Requests) /\ Len(requests') = n + 1 /\ DOMAIN requests' = 1 .. n + 1
      /\ \A k \in 1 .. n : requests'[k] = requests[k]
      /\ requests'[n + 1] = r
  BY <1>1, <1>3, <1>4, AppendProperties, LenProperties
<1> HIDE DEF n
<1>6. /\ raced' = [raced EXCEPT ![t] = raced[t] \/ \E k \in DOMAIN requests : requests[k].t = t]
      /\ UNCHANGED <<instance, shape, final, mem, tomb, latest, route, owed>>
      /\ Len(requests) < instance.requests
  BY DEF FeedbackBegin
<1>7. /\ raced \in [Timelines -> BOOLEAN] /\ raced' \in [Timelines -> BOOLEAN]
      /\ instance.requests \in Nat
  BY <1>6, InvParts, InstanceAssumption DEF PMTypeOK
<1>8. /\ \A s \in Timelines : ~raced'[s] => ~raced[s]
      /\ ~raced'[t] => \A k \in DOMAIN requests : requests[k].t # t
  BY <1>6, <1>7
<1>9. \A k \in 1 .. n + 1 : k = n + 1 \/ k \in 1 .. n
  BY <1>1 DEF n
<1>10. LibraryKept
  BY <1>6, InvParts, StillKeeps
<1>11. RequestInv'
  <2>1. RequestInv
    BY InvParts
  <2>2. \A k \in 1 .. n + 1 : /\ Key(requests'[k].t) \in requests'[k].e.strong
                              /\ requests'[k].final => final[requests'[k].t]
    <3> TAKE k \in 1 .. n + 1
    <3>1. CASE k = n + 1
      BY <1>2, <1>3, <1>5, <3>1
    <3>2. CASE k \in 1 .. n
      BY <1>1, <1>5, <2>1, <3>2 DEF RequestInv, n
    <3> QED BY <1>9, <3>1, <3>2
  <2> QED BY <1>5, <1>6, <2>2 DEF RequestInv, Key
<1>12. AloneInv'
  <2>1. AloneInv
    BY InvParts
  <2> SUFFICES ASSUME NEW s \in Timelines, ~raced'[s], NEW k \in 1 .. n + 1, requests'[k].t = s,
                      NEW j \in 1 .. n + 1, requests'[j].t = s
               PROVE  ~requests'[k].late /\ j = k
    BY <1>5 DEF AloneInv
  <2>2. ~raced[s]
    BY <1>8
  <2>3. CASE s = t
    <3>1. k = n + 1 /\ j = n + 1
      BY <1>1, <1>5, <1>8, <1>9, <2>3 DEF n
    <3> QED BY <1>3, <1>5, <3>1
  <2>4. CASE s # t
    <3>1. k \in 1 .. n /\ j \in 1 .. n
      BY <1>3, <1>5, <1>9, <2>4
    <3> QED BY <1>1, <1>5, <2>1, <2>2, <3>1 DEF AloneInv, n
  <2> QED BY <2>3, <2>4
<1>13. HeldInv'
  <2>1. HeldInv /\ KeyInv
    BY InvParts
  <2> SUFFICES ASSUME NEW s \in Timelines, ~raced'[s], NEW i \in Items, <<"more", s>> \in mem[i].prov
               PROVE  /\ latest[s] = "more"
                      /\ \A k \in 1 .. n + 1 : requests'[k].t = s => requests'[k].final
    BY <1>5, <1>6 DEF HeldInv
  <2>2. ~raced[s]
    BY <1>8
  <2>3. latest[s] = "more" /\ final[s] /\ \A k \in 1 .. n : requests[k].t = s => requests[k].final
    BY <1>1, <2>1, <2>2 DEF HeldInv, KeyInv, n
  <2> QED BY <1>3, <1>5, <1>9, <2>3
<1>14. Len(requests') <= instance.requests
  BY <1>1, <1>5, <1>6, <1>7 DEF n
<1>15. PMTypeOK'
  BY <1>5, <1>6, <1>7, <1>10, <1>14, InvParts DEF PMTypeOK, Requests
<1> QED BY <1>10, <1>11, <1>12, <1>13, <1>15 DEF PMInv, LibraryKept

\* What a request that ends carries.
LEMMA RequestFact ==
  ASSUME PMInv, NEW k \in DOMAIN requests
  PROVE  /\ requests[k] \in Requests
         /\ requests[k].t \in Timelines /\ requests[k].e \in Shape
         /\ requests[k].final \in BOOLEAN /\ requests[k].d \in {"more", "less"}
         /\ Key(requests[k].t) \in requests[k].e.strong
         /\ requests[k].final => final[requests[k].t]
<1>1. requests[k] \in Requests
  <2>1. requests \in Seq(Requests)
    BY InvParts DEF PMTypeOK, Requests
  <2> QED BY <2>1, LenProperties, ElementOfSeq
<1> QED BY <1>1, InvParts DEF RequestInv, Requests

\* The end of a request, for the rest of the state.
LEMMA EndType ==
  ASSUME PMInv, NEW k \in DOMAIN requests, Left(k), LibraryKept,
         UNCHANGED <<instance, shape, final, tomb, route, raced>>,
         latest' \in [Timelines -> {"none", "more", "less"}],
         owed' \in [Timelines -> BOOLEAN]
  PROVE  PMTypeOK'
<1>1. requests' \in Seq(Requests) /\ Len(requests') <= Len(requests)
  BY InvParts, LeftKeeps
<1>2. Len(requests) \in Nat /\ Len(requests') \in Nat /\ instance.requests \in Nat
  BY <1>1, InvParts, LenProperties, InstanceAssumption DEF PMTypeOK
<1>3. Len(requests') <= instance'.requests
  BY <1>1, <1>2, InvParts DEF PMTypeOK
<1> QED BY <1>1, <1>3, InvParts DEF PMTypeOK, LibraryKept, Requests

\* A request that failed changes nothing else.
LEMMA DroppedKeeps ==
  ASSUME PMInv, NEW k \in DOMAIN requests, Dropped(k),
         UNCHANGED <<instance, shape, final, tomb, route, raced>>
  PROVE  PMInv'
<1>1. Left(k) /\ UNCHANGED <<latest, mem, owed>>
  BY InvParts, DroppedLeft DEF Dropped
<1>2. LibraryKept
  BY <1>1, InvParts, StillKeeps
<1>3. /\ RequestInv' /\ AloneInv'
      /\ \A j \in DOMAIN requests' : \E m \in DOMAIN requests \ {k} :
           requests'[j].t = requests[m].t /\ requests'[j].final = requests[m].final
  BY <1>1, InvParts, LeftKeeps
<1>4. HeldInv'
  <2>1. HeldInv
    BY InvParts
  <2> QED BY <1>1, <1>3, <2>1 DEF HeldInv
<1>5. PMTypeOK'
  BY <1>1, <1>2, InvParts, EndType DEF PMTypeOK
<1> QED BY <1>2, <1>3, <1>4, <1>5 DEF PMInv, LibraryKept

\* The holds of Mores after a request of row r.t was stored: a hold that is there
\* was there, or is the More's own; the latest feedback of a row that has one is a
\* More, and the requests that are left have seen its final session.
LEMMA StoredKeeps ==
  ASSUME PMInv, NEW k \in DOMAIN requests, Stored(k),
         UNCHANGED <<instance, shape, final, tomb, route, raced>>,
         LibraryKept, owed' \in [Timelines -> BOOLEAN],
         \A i \in Items : \A s \in Timelines : <<"more", s>> \in mem'[i].prov =>
           <<"more", s>> \in mem[i].prov \/ (s = requests[k].t /\ requests[k].d = "more"),
         requests[k].d = "less" /\ ~raced[requests[k].t] =>
           \A i \in Items : <<"more", requests[k].t>> \notin mem'[i].prov
  PROVE  PMInv'
<1> DEFINE t == requests[k].t
<1>1. /\ Left(k) /\ latest' \in [Timelines -> {"none", "more", "less"}]
      /\ \A s \in Timelines : latest'[s] =
           IF s = t /\ ~requests[k].late THEN requests[k].d ELSE latest[s]
  BY InvParts, StoredLeft
<1>2. /\ RequestInv' /\ AloneInv'
      /\ \A j \in DOMAIN requests' : \E m \in DOMAIN requests \ {k} :
           requests'[j].t = requests[m].t /\ requests'[j].final = requests[m].final
  BY <1>1, InvParts, LeftKeeps
<1>3. t \in Timelines /\ requests[k].d \in {"more", "less"}
  BY RequestFact
<1>4. HeldInv'
  <2>1. HeldInv /\ AloneInv
    BY InvParts
  <2> SUFFICES ASSUME NEW s \in Timelines, ~raced[s], NEW i \in Items, <<"more", s>> \in mem'[i].prov
               PROVE  /\ latest'[s] = "more"
                      /\ \A j \in DOMAIN requests' : requests'[j].t = s => requests'[j].final
    BY DEF HeldInv
  <2>2. CASE s = t
    <3>1. requests[k].d = "more" /\ ~requests[k].late
      BY <1>3, <2>1, <2>2 DEF AloneInv
    <3>2. \A m \in DOMAIN requests \ {k} : requests[m].t # t
      BY <2>1, <2>2 DEF AloneInv
    <3> QED BY <1>1, <1>2, <2>2, <3>1, <3>2
  <2>3. CASE s # t
    <3>1. <<"more", s>> \in mem[i].prov
      BY <2>3
    <3>2. latest[s] = "more" /\ \A m \in DOMAIN requests : requests[m].t = s => requests[m].final
      BY <2>1, <3>1 DEF HeldInv
    <3> QED BY <1>1, <1>2, <2>3, <3>2
  <2> QED BY <2>2, <2>3
<1>5. PMTypeOK'
  BY <1>1, EndType
<1> QED BY <1>2, <1>4, <1>5 DEF PMInv, LibraryKept

\* More.
LEMMA MoreKeeps ==
  ASSUME PMInv, NEW k \in DOMAIN requests, FeedbackMore(k)
  PROVE  PMInv'
<1> DEFINE r == requests[k]
<1>1. /\ r.t \in Timelines /\ r.e \in Shape /\ Key(r.t) \in r.e.strong /\ r.d = "more"
      /\ r.final => final[r.t]
  BY RequestFact DEF FeedbackMore
<1>2. UNCHANGED <<instance, shape, final, tomb, route, raced>> /\ owed \in [Timelines -> BOOLEAN]
  BY InvParts DEF FeedbackMore, PMTypeOK
<1>3. CASE r.final /\ ~Accepted(r.e)
  BY <1>2, <1>3, DroppedKeeps DEF FeedbackMore
<1>4. CASE r.final /\ Accepted(r.e)
  <2>1. PICK i \in Targets(r.e) : mem' = [mem EXCEPT ![i] = Stub(Base(r.e, i), r.e, "more", r.t)]
    BY <1>4 DEF FeedbackMore
  <2>2. Stored(k) /\ owed' = [owed EXCEPT ![r.t] = TRUE]
    BY <1>4 DEF FeedbackMore
  <2> DEFINE e == r.e
             t == r.t
  <2>3. /\ e \in Shape /\ t \in Timelines /\ Accepted(e) /\ i \in Targets(e)
        /\ Key(t) \in e.strong /\ final[t]
        /\ mem' = [mem EXCEPT ![i] = Stub(Base(e, i), e, "more", t)]
        /\ owed' = [owed EXCEPT ![t] = TRUE]
    BY <1>1, <1>4, <2>1, <2>2
  <2>4. /\ LibraryKept
        /\ \A j \in Items : \A s \in Timelines :
             <<"more", s>> \in mem'[j].prov => <<"more", s>> \in mem[j].prov \/ s = t
    <3> HIDE DEF e, t
    <3>1. PICK new : Upserts(i, new, e, "more", t)
      BY <2>3, StubUpserts DEF Kinds
    <3> QED BY <1>2, <2>3, <3>1, InvParts, UpsertKeeps DEF Kinds
  <2>5. owed' \in [Timelines -> BOOLEAN]
    BY <1>2, <2>2
  <2> QED BY <1>1, <1>2, <2>2, <2>4, <2>5, StoredKeeps
<1>5. CASE ~r.final
  <2>1. Stored(k) /\ UNCHANGED <<mem, owed>>
    BY <1>5 DEF FeedbackMore
  <2>2. LibraryKept
    BY <1>2, <2>1, InvParts, StillKeeps
  <2> QED BY <1>1, <1>2, <2>1, <2>2, StoredKeeps
<1> QED BY <1>3, <1>4, <1>5

\* Less: the item its More holds is the one that its evidence finds.
LEMMA LessKeeps ==
  ASSUME PMInv, NEW k \in DOMAIN requests, FeedbackLess(k)
  PROVE  PMInv'
<1> DEFINE r == requests[k]
           retracts == r.final /\ latest[r.t] = "more"
<1>1. r.t \in Timelines /\ r.e \in Shape /\ Key(r.t) \in r.e.strong /\ r.d = "less"
  BY RequestFact DEF FeedbackLess
<1>2. UNCHANGED <<instance, shape, final, tomb, route, raced>> /\ owed \in [Timelines -> BOOLEAN]
  BY InvParts DEF FeedbackLess, PMTypeOK
<1>3. CASE retracts /\ Resolve(r.e) = Conflict
  BY <1>2, <1>3, DroppedKeeps DEF FeedbackLess
<1>4. CASE ~(retracts /\ Resolve(r.e) = Conflict)
  <2>1. /\ Stored(k) /\ owed' = [owed EXCEPT ![r.t] = FALSE]
        /\ mem' = IF retracts /\ Resolve(r.e) # Nobody
                  THEN [mem EXCEPT ![Resolve(r.e)] = Retract(mem[Resolve(r.e)], r.t)]
                  ELSE mem
    BY <1>4 DEF FeedbackLess
  <2>2. /\ owed' \in [Timelines -> BOOLEAN]
        /\ \A s \in Timelines : owed'[s] => owed[s]
    BY <1>2, <2>1
  <2>3. /\ Resolve(r.e) \in Items \cup {Nobody, Conflict}
        /\ Resolve(r.e) = Nobody => StrongOwners(r.e) = {}
        /\ Resolve(r.e) \in Items => StrongOwners(r.e) \subseteq {Resolve(r.e)}
    BY <1>1, ResolveFact
  <2>4. ~raced[r.t] => \A i \in Items : <<"more", r.t>> \in mem[i].prov =>
          retracts /\ Resolve(r.e) = i
    <3> SUFFICES ASSUME ~raced[r.t], NEW i \in Items, <<"more", r.t>> \in mem[i].prov
                 PROVE  retracts /\ Resolve(r.e) = i
      OBVIOUS
    <3>1. retracts
      BY <1>1, InvParts DEF HeldInv
    <3>2. Key(r.t) \in mem[i].alias /\ mem[i].state = "active"
      BY <1>1, InvParts DEF KeyInv, RowsInv, RowSound
    <3>3. i \in StrongOwners(r.e)
      BY <1>1, <3>2 DEF StrongOwners, Owners
    <3> QED BY <1>4, <2>3, <3>1, <3>3
  <2>5. CASE retracts /\ Resolve(r.e) # Nobody
    <3> DEFINE i == Resolve(r.e)
    <3>1. i \in Items /\ Writes(i, Retract(mem[i], r.t))
      BY <1>4, <2>1, <2>3, <2>5 DEF Writes
    <3>2. /\ LibraryKept /\ \A j \in Items : mem'[j].prov \subseteq mem[j].prov
          /\ <<"more", r.t>> \notin mem'[i].prov
      BY <1>1, <1>2, <2>1, <3>1, InvParts, RetractKeeps
    <3>3. ~raced[r.t] => \A j \in Items : <<"more", r.t>> \notin mem'[j].prov
      BY <2>4, <3>2
    <3> QED BY <1>1, <1>2, <2>1, <2>2, <3>2, <3>3, StoredKeeps
  <2>6. CASE ~(retracts /\ Resolve(r.e) # Nobody)
    <3>1. UNCHANGED mem
      BY <2>1, <2>6
    <3>2. LibraryKept
      BY <1>2, <2>2, <3>1, InvParts, StillKeeps
    <3>3. ~raced[r.t] => \A j \in Items : <<"more", r.t>> \notin mem'[j].prov
      BY <2>4, <2>6, <3>1, SentinelAssumption
    <3> QED BY <1>1, <1>2, <2>1, <2>2, <3>1, <3>2, <3>3, StoredKeeps
  <2> QED BY <2>5, <2>6
<1> QED BY <1>3, <1>4

-----------------------------------------------------------------------------
(* The invariant.                                                           *)

\* A step of the library or of the routing: no request moves.
LEMMA TidyKeeps ==
  ASSUME PMInv, Tidy, UNCHANGED <<instance, shape, final, latest, requests, raced>>,
         tomb' \subseteq Aliases \cup Prints, RouteType', owed' \in [Timelines -> BOOLEAN]
  PROVE  PMInv'
<1>1. RequestInv' /\ AloneInv' /\ HeldInv'
  BY RequestsSame DEF Tidy
<1>2. PMTypeOK'
  BY InvParts DEF PMTypeOK, Tidy, LibraryKept, RouteType
<1> QED BY <1>1, <1>2 DEF PMInv, Tidy, LibraryKept

\* The library is empty at first.
LEMMA InitPM == Init => PMInv
<1> SUFFICES ASSUME Init PROVE PMInv
  OBVIOUS
<1>1. \A t \in Timelines : Len(Evidence[t]) \in Nat \ {0}
  BY EvidenceAssumption, EmptySeq, LenProperties
<1>2. NoItem \in Row /\ RowSound(NoItem)
  BY NoItemRow DEF RowSound
<1>3. RowsInv /\ mem \in [Items -> Row]
  BY <1>2 DEF Init, RowsInv
<1>4. UniqueInv /\ KeyInv /\ HeldInv
  BY DEF Init, UniqueInv, KeyInv, HeldInv, NoItem
<1>5. requests = << >> /\ Len(requests) = 0 /\ DOMAIN requests = {}
  BY EmptySeq DEF Init
<1>6. RequestInv /\ AloneInv
  BY <1>5 DEF RequestInv, AloneInv
<1>7. MoreRemembered
  BY DEF Init, MoreRemembered
<1>8. instance \in Instances /\ instance.requests \in Nat
  BY InstanceAssumption DEF Init
<1>9. /\ requests \in Seq(Requests) /\ Len(requests) <= instance.requests
  BY <1>5, <1>8, EmptySeq
<1>10. /\ shape \in [Timelines -> Nat \ {0}] /\ \A t \in Timelines : shape[t] <= Len(Evidence[t])
  BY <1>1 DEF Init
<1>11. PMTypeOK
  BY <1>3, <1>8, <1>9, <1>10 DEF Init, PMTypeOK, Requests
<1> QED BY <1>3, <1>4, <1>6, <1>7, <1>11 DEF PMInv

\* Every step keeps the invariant.
LEMMA NextPM == PMInv /\ [Next]_vars => PMInv'
<1> SUFFICES ASSUME PMInv, [Next]_vars PROVE PMInv'
  OBVIOUS
<1>1. /\ instance.rows \subseteq Timelines /\ RouteType /\ tomb \subseteq Aliases \cup Prints
      /\ owed \in [Timelines -> BOOLEAN]
  BY InvParts, InstanceAssumption DEF PMTypeOK, RouteType
<1>2. ASSUME NEW t \in Timelines, Finalize(t) PROVE PMInv'
  <2>1. final \in [Timelines -> BOOLEAN]
    BY InvParts DEF PMTypeOK
  <2>2. /\ final' \in [Timelines -> BOOLEAN] /\ \A s \in Timelines : final[s] => final'[s]
        /\ UNCHANGED <<instance, shape, mem, tomb, latest, requests, route, owed, raced>>
    BY <1>2, <2>1 DEF Finalize
  <2>3. LibraryKept /\ NoNewMore
    BY <2>2, StillTidy DEF Tidy
  <2>4. RequestInv' /\ AloneInv' /\ HeldInv'
    BY <2>2, <2>3, RequestsSame
  <2>5. PMTypeOK'
    BY <2>2, InvParts DEF PMTypeOK
  <2> QED BY <2>3, <2>4, <2>5 DEF PMInv, LibraryKept
<1>3. ASSUME NEW t \in Timelines, Override(t) PROVE PMInv'
  <2>1. /\ shape \in [Timelines -> Nat \ {0}] /\ \A s \in Timelines : shape[s] <= Len(Evidence[s])
        /\ \A s \in Timelines : Len(Evidence[s]) \in Nat
    BY InvParts, EvidenceAssumption, LenProperties DEF PMTypeOK
  <2>2. /\ shape' \in [Timelines -> Nat \ {0}] /\ \A s \in Timelines : shape'[s] <= Len(Evidence[s])
        /\ UNCHANGED <<instance, final, mem, tomb, latest, requests, route, owed, raced>>
    BY <1>3, <2>1 DEF Override
  <2>3. LibraryKept /\ NoNewMore
    BY <2>2, StillTidy DEF Tidy
  <2>4. RequestInv' /\ AloneInv' /\ HeldInv'
    BY <2>2, <2>3, RequestsSame
  <2>5. PMTypeOK'
    BY <2>2, InvParts DEF PMTypeOK
  <2> QED BY <2>3, <2>4, <2>5 DEF PMInv, LibraryKept
<1>4. ASSUME NEW t \in Timelines, KeepTimelineFullCopy(t) \/ ReadLaterTimeline(t) PROVE PMInv'
  <2>1. Tidy
    BY <1>4, KeepTidy, LaterTidy
  <2>2. UNCHANGED <<instance, shape, final, tomb, latest, requests, route, owed, raced>>
    BY <1>4 DEF KeepTimelineFullCopy, ReadLaterTimeline
  <2> QED BY <1>1, <2>1, <2>2, TidyKeeps DEF RouteType
<1>5. ASSUME NEW i \in Items,
             \/ KeepMemoryInLibrary(i) \/ DoneSavedMemory(i) \/ ReleaseMemoryFullCopy(i)
             \/ AddLivingTopicMember(i) \/ RemoveLivingTopicMember(i)
      PROVE  PMInv'
  <2>1. Tidy
    BY <1>5, ItemTidy
  <2>2. UNCHANGED <<instance, shape, final, tomb, latest, requests, route, owed, raced>>
    BY <1>5 DEF KeepMemoryInLibrary, DoneSavedMemory, ReleaseMemoryFullCopy, AddLivingTopicMember,
                RemoveLivingTopicMember
  <2> QED BY <1>1, <2>1, <2>2, TidyKeeps DEF RouteType
<1>6. ASSUME NEW i \in Items, RemoveMemory(i) \/ ForgetMemory(i) PROVE PMInv'
  <2>1. Tidy /\ owed' \in [Timelines -> BOOLEAN] /\ tomb' \subseteq Aliases \cup Prints
    BY <1>6, ClearTidy
  <2>2. UNCHANGED <<instance, shape, final, latest, requests, route, raced>>
    BY <1>6 DEF RemoveMemory, ForgetMemory
  <2> QED BY <1>1, <2>1, <2>2, TidyKeeps DEF RouteType
<1>7. ASSUME NEW t \in Timelines, RouteRead(t) PROVE PMInv'
  <2>1. Now(t) \in Shape
    BY InvParts, KeyFact
  <2>2. /\ route' = [pc |-> "resolve", t |-> t, e |-> Now(t)]
        /\ UNCHANGED <<instance, shape, final, mem, tomb, latest, requests, owed, raced>>
    BY <1>7 DEF RouteRead
  <2>3. RouteType' /\ Tidy
    BY <2>1, <2>2, StillTidy DEF RouteType
  <2> QED BY <1>1, <2>2, <2>3, TidyKeeps
<1>8. ASSUME RouteResolve PROVE PMInv'
  <2>1. UNCHANGED <<instance, shape, final, mem, tomb, latest, requests, owed, raced>>
    BY <1>8 DEF RouteResolve
  <2>2. RouteType' /\ Tidy
    BY <1>8, <2>1, StillTidy, ResolveRoute
  <2> QED BY <1>1, <2>1, <2>2, TidyKeeps
<1>9. ASSUME RouteCreate \/ RouteJoin PROVE PMInv'
  <2>1. RouteType' /\ Tidy
    BY <1>9, CreateRoute, JoinRoute
  <2>2. UNCHANGED <<instance, shape, final, tomb, latest, requests, owed, raced>>
    BY <1>9 DEF RouteCreate, RouteJoin
  <2> QED BY <1>1, <2>1, <2>2, TidyKeeps
<1>10. CASE UNCHANGED vars
  <2>1. UNCHANGED <<instance, shape, final, mem, tomb, latest, requests, route, owed, raced>>
    BY <1>10 DEF vars
  <2>2. Tidy
    BY <2>1, StillTidy
  <2> QED BY <1>1, <2>1, <2>2, TidyKeeps DEF RouteType
<1> QED BY <1>1, <1>2, <1>3, <1>4, <1>5, <1>6, <1>7, <1>8, <1>9, <1>10,
           BeginKeeps, MoreKeeps, LessKeeps DEF Next

\* A feedback transaction leaves the claims of the user and their text alone.
HeldKept == \A i \in Items : mem[i].saved \/ mem[i].keep =>
    /\ mem'[i].state = "active"
    /\ mem'[i].saved = mem[i].saved /\ mem'[i].keep = mem[i].keep /\ mem'[i].live = mem[i].live

\* Nothing of the library moved.
LEMMA StillHeld ==
  ASSUME PMInv, UNCHANGED mem
  PROVE  HeldKept /\ NoRecapture /\ NoReturn
<1>1. RowsInv
  BY InvParts
<1> QED BY <1>1 DEF HeldKept, NoRecapture, NoReturn, RowsInv, RowSound

\* Storing a More.
LEMMA MoreDecides ==
  ASSUME PMInv, NEW k \in DOMAIN requests, FeedbackMore(k)
  PROVE  HeldKept /\ NoRecapture /\ NoReturn
<1> DEFINE e == requests[k].e
           t == requests[k].t
<1>1. t \in Timelines /\ e \in Shape
  BY RequestFact
<1>2. CASE UNCHANGED mem
  BY <1>2, StillHeld
<1>3. CASE Accepted(e) /\ \E i \in Targets(e) : mem' = [mem EXCEPT ![i] = Stub(Base(e, i), e, "more", t)]
  <2>1. PICK i \in Targets(e) : mem' = [mem EXCEPT ![i] = Stub(Base(e, i), e, "more", t)]
    BY <1>3
  <2> HIDE DEF e, t
  <2>2. /\ i \in Items /\ RowSound(Base(e, i))
        /\ \/ Base(e, i) = NoItem /\ mem[i].state = "none"
           \/ Base(e, i) = mem[i] /\ mem[i].state = "active"
    BY <1>1, <1>3, InvParts, TargetFact
  <2> DEFINE new == Stub(Base(e, i), e, "more", t)
  <2>3. /\ new.state = "active" /\ new.saved = Base(e, i).saved
        /\ new.keep = Base(e, i).keep /\ new.live = Base(e, i).live
    BY <1>1, <2>2, StubRow DEF Kinds
  <2>4. Writes(i, new)
    BY <2>1 DEF Writes
  <2> HIDE DEF new
  <2>5. mem'[i] = new /\ \A j \in Items \ {i} : mem'[j] = mem[j]
    BY <2>2, <2>4, InvParts, WriteFact
  <2>6. RowsInv
    BY InvParts
  <2>7. \A j \in Items : mem[j].saved \/ mem[j].keep => mem[j].state = "active"
    BY <2>6 DEF RowsInv, RowSound
  <2>8. HeldKept
    BY <2>2, <2>3, <2>5, <2>7 DEF HeldKept
  <2>9. \E v : Upserts(i, v, e, "more", t)
    BY <1>1, <1>3, <2>1, StubUpserts DEF Kinds
  <2> QED BY <1>1, <2>8, <2>9, UpsertDecides DEF Kinds
<1> QED BY <1>2, <1>3 DEF FeedbackMore, Dropped

\* Storing a Less.
LEMMA LessDecides ==
  ASSUME PMInv, NEW k \in DOMAIN requests, FeedbackLess(k)
  PROVE  HeldKept /\ NoRecapture /\ NoReturn
<1> DEFINE e == requests[k].e
           t == requests[k].t
           i == Resolve(e)
<1>1. t \in Timelines /\ e \in Shape
  BY RequestFact
<1>2. CASE UNCHANGED mem
  BY <1>2, StillHeld
<1>3. CASE i # Nobody /\ i # Conflict /\ mem' = [mem EXCEPT ![i] = Retract(mem[i], t)]
  <2>1. i \in Items
    BY <1>1, <1>3, ResolveFact
  <2>2. Writes(i, Retract(mem[i], t))
    BY <1>3 DEF Writes
  <2> HIDE DEF i, e, t
  <2> DEFINE new == Retract(mem[i], t)
  <2>3. mem'[i] = new /\ \A j \in Items \ {i} : mem'[j] = mem[j]
    BY <2>1, <2>2, InvParts, WriteFact
  <2>4. RowsInv /\ RowSound(mem[i])
    BY <2>1, InvParts DEF RowsInv
  <2>5. /\ new.member = mem[i].member /\ new.alias \subseteq mem[i].alias
        /\ mem[i].saved \/ mem[i].keep =>
             /\ new.state = mem[i].state /\ new.saved = mem[i].saved
             /\ new.keep = mem[i].keep /\ new.live = mem[i].live
    BY <1>1, <2>4, RetractRow
  <2> HIDE DEF new
  <2>6. \A j \in Items : mem[j].saved \/ mem[j].keep => mem[j].state = "active"
    BY <2>4 DEF RowsInv, RowSound
  <2>7. HeldKept
    BY <2>1, <2>3, <2>5, <2>6 DEF HeldKept
  <2> QED BY <2>3, <2>5, <2>7 DEF NoRecapture, NoReturn
<1> QED BY <1>2, <1>3 DEF FeedbackLess, Dropped

\* What no step does.
LEMMA NextDecides ==
  ASSUME PMInv, [Next]_vars
  PROVE  NoRecapture /\ NoReturn /\ (requests' # requests => HeldKept)
<1>1. instance.rows \subseteq Timelines
  BY InvParts, InstanceAssumption DEF PMTypeOK
<1>2. ASSUME NEW t \in Timelines, KeepTimelineFullCopy(t) \/ ReadLaterTimeline(t)
      PROVE  NoRecapture /\ NoReturn /\ UNCHANGED requests
  BY <1>2, KeepTidy, LaterTidy DEF Tidy, KeepTimelineFullCopy, ReadLaterTimeline
<1>3. ASSUME NEW i \in Items,
             \/ KeepMemoryInLibrary(i) \/ DoneSavedMemory(i) \/ ReleaseMemoryFullCopy(i)
             \/ AddLivingTopicMember(i) \/ RemoveLivingTopicMember(i)
      PROVE  NoRecapture /\ NoReturn /\ UNCHANGED requests
  BY <1>3, ItemTidy DEF Tidy, KeepMemoryInLibrary, DoneSavedMemory, ReleaseMemoryFullCopy,
                        AddLivingTopicMember, RemoveLivingTopicMember
<1>4. ASSUME NEW i \in Items, RemoveMemory(i) \/ ForgetMemory(i)
      PROVE  NoRecapture /\ NoReturn /\ UNCHANGED requests
  BY <1>4, ClearTidy DEF Tidy, RemoveMemory, ForgetMemory
<1>5. ASSUME RouteCreate \/ RouteJoin
      PROVE  NoRecapture /\ NoReturn /\ UNCHANGED requests
  BY <1>5, CreateRoute, JoinRoute DEF Tidy, RouteCreate, RouteJoin
<1>6. ASSUME \/ \E t \in Timelines : \/ Finalize(t) \/ Override(t) \/ RouteRead(t)
                                     \/ FeedbackBegin(t, "more") \/ FeedbackBegin(t, "less")
             \/ RouteResolve \/ UNCHANGED vars
      PROVE  HeldKept /\ NoRecapture /\ NoReturn
  <2>1. UNCHANGED mem
    BY <1>6 DEF Finalize, Override, RouteRead, FeedbackBegin, RouteResolve, vars
  <2> QED BY <2>1, StillHeld
<1> QED BY <1>1, <1>2, <1>3, <1>4, <1>5, <1>6, MoreDecides, LessDecides DEF Next

-----------------------------------------------------------------------------
(* The results.                                                             *)

\* The library always satisfies PMInv: every transaction of personal_memory.go,
\* feedback.go and living_topic_routing.go keeps it, in any order.
THEOREM LibraryInvariant == Spec => []PMInv
<1> QED BY InitPM, NextPM, PTL DEF Spec

\* The library is sound for any number of rows, items and requests: a strong alias
\* has one owner, so that upsertMemoryAliases never fails on it, and a full text is
\* stored exactly while somebody asked for it.
THEOREM LibraryIsSound == Spec => []LibrarySound
<1>1. PMInv => LibrarySound
  <2> SUFFICES ASSUME PMInv PROVE LibrarySound
    OBVIOUS
  <2>1. PMTypeOK /\ RowsInv /\ UniqueInv
    BY InvParts
  <2>2. TextOwned
    BY <2>1 DEF TextOwned, RowsInv, RowSound
  <2>3. StrongAliasUnique
    <3> SUFFICES ASSUME NEW a \in Aliases PROVE Cardinality(Owners(a)) <= 1
      BY DEF StrongAliasUnique
    <3>1. Owners(a) \in SUBSET Items /\ \A i, j \in Owners(a) : i = j
      BY <2>1 DEF Owners, UniqueInv
    <3>2. Owners(a) = {} \/ \E i : Owners(a) = {i}
      BY <3>1
    <3>3. Cardinality(Owners(a)) \in {0, 1}
      BY <3>1, <3>2, ItemSets
    <3> QED BY <3>3
  <2> QED BY <2>1, <2>2, <2>3 DEF LibrarySound
<1> QED BY <1>1, LibraryInvariant, PTL

\* What More and Less say is what the library holds: a committed More is remembered
\* until something takes it back, and a Less whose requests did not overlap leaves
\* nothing of its More (AddFeedback, retractRoutineMoreMemoryTx).
THEOREM FeedbackIsKept == Spec => []FeedbackKept
<1>1. PMInv => FeedbackKept
  BY DEF PMInv, HeldInv, FeedbackKept, FeedbackMirrored
<1> QED BY <1>1, LibraryInvariant, PTL

\* What a Forget suppressed is never acquired again, however the evidence of a
\* Timeline row has changed since (DeleteMemory, tombstonedMemoryID).
THEOREM ForgottenStaysForgotten == Spec => NeverRecaptured
<1>1. PMInv /\ [Next]_vars =>
        [\A i \in Items : (mem'[i].alias \ mem[i].alias) \cap tomb = {}]_vars
  BY NextDecides DEF NoRecapture
<1> QED BY <1>1, LibraryInvariant, PTL DEF Spec, NeverRecaptured

\* What the user saved, kept or took out of a topic outlives every feedback and the
\* automatic membership (retractRoutineMoreMemoryTx, AddAutomaticLivingTopicMember).
THEOREM UserDecisionsStand == Spec => UserDecides
<1>1. PMInv /\ [Next]_vars =>
        [requests' # requests =>
           \A i \in Items : mem[i].saved \/ mem[i].keep =>
              /\ mem'[i].state = "active"
              /\ mem'[i].saved = mem[i].saved /\ mem'[i].keep = mem[i].keep
              /\ mem'[i].live = mem[i].live]_vars
  BY NextDecides DEF HeldKept
<1>2. PMInv /\ [Next]_vars =>
        [\A i \in Items :
           ~mem[i].member /\ mem'[i].member /\ mem[i].verdict = "exclude"
              => mem'[i].verdict = "include"]_vars
  BY NextDecides DEF NoReturn
<1> QED BY <1>1, <1>2, LibraryInvariant, PTL
        DEF Spec, UserDecides, HeldSurvivesLess, ExcludedStaysOut
=============================================================================
