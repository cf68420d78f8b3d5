-------------------------- MODULE LivingTopicsProofs --------------------------
(***************************************************************************)
(* Living Topics, for any topics, items, requests, crashes and stops: no   *)
(* path takes a topic over its limit, moves are taken back in an order     *)
(* that leaves no membership of an undone move, what the user decided      *)
(* about a candidate is the user's to change, and what the status columns  *)
(* claim agrees with the job rows, the goroutines and the present topic.   *)
(*                                                                         *)
(* The argument about members.  A membership that names a move was made by *)
(* it, so the move was one of an item the target did not hold (Stands);    *)
(* what a move would restore names an older move (Older).  The move that   *)
(* is undone is the latest of its item, so what the others would restore   *)
(* does not name it, and the one membership that does goes with it.        *)
(*                                                                         *)
(* The argument about jobs (JobsInv).  A running row is the one of the     *)
(* goroutine at work, or the one a cancelled goroutine left behind, and    *)
(* only a process that stops has both (BusyInv, StopInv); so a topic has   *)
(* at most three understanding rows (CountInv) and a revision one          *)
(* activation row (OnceInv).  Whoever changes a topic first writes down    *)
(* the call that queues it, in a thread or in the dirty set of the routing *)
(* goroutine, and a call that queues it takes its place with a row: so an  *)
(* understanding that was read before the change never settles it alone    *)
(* (SeenInv), and a topic whose revision moved on waits for a row or for   *)
(* a call (RouteInv).                                                      *)
(***************************************************************************)
EXTENDS LivingTopics, FiniteSetTheorems, SequenceTheorems, WellFoundedInduction, TLAPS

-----------------------------------------------------------------------------
(* The inductive invariant.                                                 *)

Member == [mode : Modes, move : Nat]
MoveRow == [i : Items, from : Topics, to : Topics, source : Member,
            pre : BOOLEAN, undone : BOOLEAN]

MembershipType ==
  /\ member \in [Topics -> [Items -> Member]]
  /\ moves \in Seq(MoveRow)
  /\ cand \in [Topics -> [Items -> CandidateStates]]
  /\ spent \in [requests : Nat, crashes : Nat, stops : Nat]

\* A membership that topic t has of item i names a move that made it and stands.
Stands(m, t, i) ==
  m.move # 0 =>
    /\ m.move \in DOMAIN moves
    /\ moves[m.move].to = t /\ moves[m.move].i = i
    /\ ~moves[m.move].undone /\ ~moves[m.move].pre

MembersStand == \A t \in Topics, i \in Items : Stands(member[t][i], t, i)

\* What a standing move would restore stands, and is older than the move.
Older(k) ==
  /\ moves[k].from # moves[k].to
  /\ ~moves[k].undone => /\ Stands(moves[k].source, moves[k].from, moves[k].i)
                         /\ moves[k].source.move < k
MovesStand == \A k \in DOMAIN moves : Older(k)

MembershipInv == MembershipType /\ MembersStand /\ MovesStand /\ MemberLimit

-----------------------------------------------------------------------------
(* Memberships that come and go.                                            *)

Table(V) == [Topics -> [Items -> V]]
Put(f, t, i, v) == [f EXCEPT ![t][i] = v]

\* One entry of a table is set, if there is such an entry.
LEMMA EntrySet ==
  ASSUME NEW V, NEW f \in Table(V), NEW t, NEW i, NEW v \in V
  PROVE  /\ Put(f, t, i, v) \in Table(V)
         /\ \A a \in Topics, j \in Items :
              Put(f, t, i, v)[a][j] = IF a = t /\ j = i THEN v ELSE f[a][j]
<1> DEFINE h == [f[t] EXCEPT ![i] = v]
           g == Put(f, t, i, v)
<1>1. g = [f EXCEPT ![t] = h] /\ f \in [Topics -> [Items -> V]]
  BY DEF Put, Table
<1>2. t \in Topics => h \in [Items -> V] /\ \A j \in Items : h[j] = IF j = i THEN v ELSE f[t][j]
  BY DEF Table
<1> HIDE DEF g, h
<1>3. \A a \in Topics : g[a] = IF a = t THEN h ELSE f[a]
  BY <1>1
<1>4. \A a \in Topics : g[a] \in [Items -> V]
  BY <1>1, <1>2, <1>3
<1>5. g \in Table(V)
  BY <1>1, <1>4 DEF Table
<1>6. \A a \in Topics, j \in Items : g[a][j] = IF a = t /\ j = i THEN v ELSE f[a][j]
  BY <1>2, <1>3
<1> QED BY <1>5, <1>6 DEF g

LEMMA MembersFinite ==
  ASSUME NEW t
  PROVE  IsFiniteSet(AllMembers(t)) /\ Cardinality(AllMembers(t)) \in Nat
<1>1. IsFiniteSet(Items) /\ AllMembers(t) \subseteq Items
  BY TopicAssumption DEF AllMembers
<1> QED BY <1>1, FS_Subset, FS_CardinalityType

\* A topic that gains at most an item for which it has room keeps its limit.
LEMMA LimitKept ==
  ASSUME MembershipInv, NEW t \in Topics, NEW i, NEW M,
         M \subseteq AllMembers(t) \cup {i},
         M \subseteq AllMembers(t) \/ Cardinality(AllMembers(t)) < MaxMembers
  PROVE  Cardinality(M) <= MaxMembers
<1> DEFINE A == AllMembers(t)
<1>1. IsFiniteSet(A) /\ Cardinality(A) \in Nat /\ Cardinality(A) <= MaxMembers
  BY MembersFinite DEF MembershipInv, MemberLimit
<1>2. MaxMembers \in Nat
  BY TopicAssumption
<1> HIDE DEF A
<1>3. CASE M \subseteq A
  <2>1. IsFiniteSet(M) /\ Cardinality(M) <= Cardinality(A)
    BY <1>1, <1>3, FS_Subset
  <2>2. Cardinality(M) \in Nat
    BY <2>1, FS_CardinalityType
  <2> QED BY <1>1, <1>2, <2>1, <2>2
<1>4. CASE ~(M \subseteq A) /\ Cardinality(A) < MaxMembers
  <2>1. i \notin A
    BY <1>4 DEF A
  <2>2. IsFiniteSet(A \cup {i}) /\ Cardinality(A \cup {i}) = Cardinality(A) + 1
    BY <1>1, <2>1, FS_AddElement
  <2>3. M \subseteq A \cup {i}
    BY DEF A
  <2>4. IsFiniteSet(M) /\ Cardinality(M) <= Cardinality(A) + 1
    BY <2>2, <2>3, FS_Subset
  <2>5. Cardinality(M) \in Nat
    BY <2>4, FS_CardinalityType
  <2> QED BY <1>1, <1>2, <1>4, <2>4, <2>5
<1> QED BY <1>3, <1>4 DEF A

\* A step that sets one membership, to one without a move, and touches no move.
OneMember(t, i, m) ==
  /\ member' = [member EXCEPT ![t][i] = m] /\ moves' = moves
  /\ m \in Member /\ m.move = 0
  /\ m.mode = "none" \/ HasRoom(t, i)

LEMMA OneMemberStep ==
  ASSUME MembershipInv, MembershipType', NEW t, NEW i, NEW m, OneMember(t, i, m)
  PROVE  MembershipInv'
<1>1. /\ moves' = moves /\ m.move = 0 /\ (m.mode = "none" \/ HasRoom(t, i))
      /\ \A s \in Topics, j \in Items :
           member'[s][j] = IF s = t /\ j = i THEN m ELSE member[s][j]
  BY DEF MembershipInv, MembershipType, OneMember
<1>2. MembersStand'
  BY <1>1 DEF MembershipInv, MembersStand, Stands
<1>3. MovesStand'
  BY <1>1 DEF MembershipInv, MovesStand, Older, Stands
<1>4. MemberLimit'
  <2>1. SUFFICES ASSUME NEW s \in Topics
                 PROVE  Cardinality(AllMembers(s)') <= MaxMembers
    BY DEF MemberLimit
  <2>2. AllMembers(s)' \subseteq AllMembers(s) \cup {i}
    BY <1>1 DEF AllMembers
  <2>3. AllMembers(s)' \subseteq AllMembers(s) \/ Cardinality(AllMembers(s)) < MaxMembers
    BY <1>1 DEF AllMembers, HasRoom
  <2> QED BY <2>2, <2>3, LimitKept
<1> QED BY <1>2, <1>3, <1>4 DEF MembershipInv

\* MoveLivingTopicMember
LEMMA MoveStep ==
  ASSUME MembershipInv, MembershipType', NEW c, NEW s \in Topics, NEW t \in Topics,
         NEW i \in Items, MoveMember(c, s, t, i)
  PROVE  MembershipInv'
<1> DEFINE n == Len(moves) + 1
           p == member[t][i].mode # "none"
           r == [i |-> i, from |-> s, to |-> t, source |-> member[s][i], pre |-> p, undone |-> FALSE]
           m == IF p THEN member[t][i] ELSE [mode |-> "move", move |-> n]
<1>1. /\ moves' = Append(moves, r) /\ s # t /\ HasRoom(t, i)
      /\ member' = [member EXCEPT ![s][i] = NoMember, ![t][i] = m]
  BY DEF MoveMember
<1>2. /\ member \in [Topics -> [Items -> Member]] /\ moves \in Seq(MoveRow) /\ Len(moves) \in Nat
      /\ p \in BOOLEAN
  BY DEF MembershipInv, MembershipType
<1>3. \A a \in Topics, j \in Items :
        member'[a][j] = IF a = t /\ j = i THEN m ELSE IF a = s /\ j = i THEN NoMember ELSE member[a][j]
  BY <1>1, <1>2
<1>4. /\ r.i = i /\ r.from = s /\ r.to = t /\ r.source = member[s][i] /\ r.pre = p /\ r.undone = FALSE
  OBVIOUS
<1> HIDE DEF r
<1>5. /\ DOMAIN moves' = DOMAIN moves \cup {n} /\ n \notin DOMAIN moves /\ moves'[n] = r
      /\ \A k \in DOMAIN moves : moves'[k] = moves[k] /\ k \in Nat /\ k < n
  BY <1>1, <1>2
<1>6. ASSUME NEW x, NEW a, NEW j, Stands(x, a, j)
      PROVE  x.move # 0 =>
               /\ x.move \in DOMAIN moves'
               /\ moves'[x.move].to = a /\ moves'[x.move].i = j
               /\ ~moves'[x.move].undone /\ ~moves'[x.move].pre
  BY <1>5, <1>6 DEF Stands
<1>7. MembersStand'
  <2>1. SUFFICES ASSUME NEW a \in Topics, NEW j \in Items, member'[a][j].move # 0
                 PROVE  /\ member'[a][j].move \in DOMAIN moves'
                        /\ moves'[member'[a][j].move].to = a /\ moves'[member'[a][j].move].i = j
                        /\ ~moves'[member'[a][j].move].undone /\ ~moves'[member'[a][j].move].pre
    BY DEF MembersStand, Stands
  <2>2. CASE a = t /\ j = i /\ ~p
    <3>1. member'[a][j].move = n
      BY <1>3, <2>2
    <3> HIDE DEF n, p
    <3> QED BY <1>4, <1>5, <2>2, <3>1
  <2>3. CASE member'[a][j] = member[a][j]
    <3>1. Stands(member[a][j], a, j)
      BY DEF MembershipInv, MembersStand
    <3> QED BY <1>6, <2>1, <2>3, <3>1
  <2>4. member'[a][j] # NoMember
    BY <2>1 DEF NoMember
  <2> QED BY <1>3, <2>2, <2>3, <2>4
<1>8. MovesStand'
  <2>1. SUFFICES ASSUME NEW k \in DOMAIN moves'
                 PROVE  /\ moves'[k].from # moves'[k].to
                        /\ ~moves'[k].undone =>
                             /\ moves'[k].source.move # 0 =>
                                  /\ moves'[k].source.move \in DOMAIN moves'
                                  /\ moves'[moves'[k].source.move].to = moves'[k].from
                                  /\ moves'[moves'[k].source.move].i = moves'[k].i
                                  /\ ~moves'[moves'[k].source.move].undone
                                  /\ ~moves'[moves'[k].source.move].pre
                             /\ moves'[k].source.move < k
    BY DEF MovesStand, Older, Stands
  <2>2. CASE k \in DOMAIN moves
    <3>1. moves'[k] = moves[k]
      BY <1>5, <2>2
    <3>2. Older(k)
      BY <2>2 DEF MembershipInv, MovesStand
    <3> QED BY <1>6, <3>1, <3>2 DEF Older
  <2>3. CASE k = n
    <3>1. moves'[k] = r
      BY <1>5, <2>3
    <3>2. Stands(member[s][i], s, i)
      BY DEF MembershipInv, MembersStand
    <3>3. member[s][i].move < n
      BY <1>2, <1>5, <3>2 DEF Stands, Member
    <3> HIDE DEF n
    <3> QED BY <1>1, <1>4, <1>6, <2>3, <3>1, <3>2, <3>3
  <2> QED BY <1>5, <2>2, <2>3
<1>9. MemberLimit'
  <2>1. SUFFICES ASSUME NEW a \in Topics
                 PROVE  Cardinality(AllMembers(a)') <= MaxMembers
    BY DEF MemberLimit
  <2>2. AllMembers(a)' \subseteq AllMembers(a) \cup {i}
    BY <1>3 DEF AllMembers
  <2>3. AllMembers(a)' \subseteq AllMembers(a) \/ Cardinality(AllMembers(a)) < MaxMembers
    <3>1. CASE a = t
      <4>1. p => member'[t][i] = member[t][i]
        BY <1>3
      <4>2. \A j \in Items : j # i => member'[t][j] = member[t][j]
        BY <1>3
      <4>3. p \/ Cardinality(AllMembers(t)) < MaxMembers
        BY <1>1 DEF HasRoom
      <4>4. p => AllMembers(t)' \subseteq AllMembers(t)
        BY <4>1, <4>2 DEF AllMembers
      <4> QED BY <3>1, <4>3, <4>4
    <3>2. CASE a # t
      BY <1>3, <3>2 DEF AllMembers, NoMember
    <3> QED BY <3>1, <3>2
  <2> QED BY <2>2, <2>3, LimitKept
<1> QED BY <1>7, <1>8, <1>9 DEF MembershipInv

\* UndoLivingTopicMemberMove
LEMMA UndoStep ==
  ASSUME MembershipInv, MembershipType', NEW c, NEW k \in DOMAIN moves, UndoMove(c, k)
  PROVE  MembershipInv'
<1> DEFINE m == moves[k]
           old == member[m.to][m.i]
           kept == IF ~m.pre /\ old.move = k THEN NoMember ELSE old
<1>1. /\ Undoable(k) /\ member[m.from][m.i].mode = "none" /\ Cardinality(AllMembers(m.from)) < MaxMembers
      /\ member' = [member EXCEPT ![m.to][m.i] = kept, ![m.from][m.i] = m.source]
      /\ moves' = [moves EXCEPT ![k].undone = TRUE]
  BY DEF UndoMove
<1>2. /\ member \in [Topics -> [Items -> Member]] /\ moves \in Seq(MoveRow)
      /\ m.from \in Topics /\ m.to \in Topics /\ m.i \in Items /\ m.source \in Member
  <2>1. member \in [Topics -> [Items -> Member]] /\ moves \in Seq(MoveRow)
    BY DEF MembershipInv, MembershipType
  <2>2. m \in MoveRow
    BY <2>1
  <2> QED BY <2>1, <2>2 DEF MoveRow
<1>3. Older(k) /\ m.from # m.to /\ ~m.undone
  BY <1>1 DEF MembershipInv, MovesStand, Older, Undoable
<1>4. \A a \in Topics, j \in Items :
        member'[a][j] = IF a = m.from /\ j = m.i THEN m.source
                        ELSE IF a = m.to /\ j = m.i THEN kept ELSE member[a][j]
  <2>1. kept \in Member
    <3>1. NoMember \in Member /\ old \in Member
      BY <1>2 DEF NoMember, Member, Modes
    <3> QED BY <3>1
  <2> DEFINE to == m.to
             from == m.from
             item == m.i
             src == m.source
             new == kept
  <2>2. /\ member' = [member EXCEPT ![to][item] = new, ![from][item] = src]
        /\ to \in Topics /\ from \in Topics /\ to # from /\ item \in Items
        /\ new \in Member /\ src \in Member
    BY <1>1, <1>2, <1>3, <2>1
  <2> HIDE DEF to, from, item, src, new
  <2> DEFINE h == Put(member, to, item, new)
  <2>3. /\ h \in Table(Member)
        /\ \A a \in Topics, j \in Items : h[a][j] = IF a = to /\ j = item THEN new ELSE member[a][j]
    <3>1. member \in Table(Member)
      BY <1>2 DEF Table
    <3> HIDE DEF h
    <3>2. h = Put(member, to, item, new)
      BY DEF h
    <3> QED BY <2>2, <3>1, <3>2, EntrySet
  <2>4. member' = Put(h, from, item, src)
    BY <2>2 DEF Put
  <2> HIDE DEF h
  <2>5. \A a \in Topics, j \in Items :
          member'[a][j] = IF a = from /\ j = item THEN src ELSE h[a][j]
    <3>1. \A a \in Topics, j \in Items :
            Put(h, from, item, src)[a][j] = IF a = from /\ j = item THEN src ELSE h[a][j]
      BY <2>2, <2>3, EntrySet
    <3> QED BY <2>4, <3>1
  <2>6. \A a \in Topics, j \in Items :
          member'[a][j] = IF a = from /\ j = item THEN src
                          ELSE IF a = to /\ j = item THEN new ELSE member[a][j]
    BY <2>3, <2>5
  <2> QED BY <2>6 DEF to, from, item, src, new
<1>5. /\ DOMAIN moves' = DOMAIN moves /\ \A n \in DOMAIN moves : n \in Nat
      /\ \A n \in DOMAIN moves : n # k => moves'[n] = moves[n]
      /\ moves'[k].undone = TRUE /\ moves'[k].from = m.from /\ moves'[k].to = m.to
  <2> DEFINE u == [m EXCEPT !.undone = TRUE]
  <2>1. m \in MoveRow /\ DOMAIN moves \subseteq Nat
    BY <1>2
  <2>2. u.undone = TRUE /\ u.from = m.from /\ u.to = m.to
    BY <2>1 DEF MoveRow
  <2>3. moves' = [moves EXCEPT ![k] = u]
    BY <1>1
  <2> HIDE DEF u
  <2>4. /\ DOMAIN moves' = DOMAIN moves /\ moves'[k] = u
        /\ \A n \in DOMAIN moves : n # k => moves'[n] = moves[n]
    BY <2>3
  <2> QED BY <2>1, <2>2, <2>4
\* What stands and does not name k still stands.
<1>6. ASSUME NEW x, NEW a, NEW j, Stands(x, a, j), x.move # k
      PROVE  x.move # 0 =>
               /\ x.move \in DOMAIN moves'
               /\ moves'[x.move].to = a /\ moves'[x.move].i = j
               /\ ~moves'[x.move].undone /\ ~moves'[x.move].pre
  BY <1>5, <1>6 DEF Stands
<1>7. MembersStand'
  <2>1. SUFFICES ASSUME NEW a \in Topics, NEW j \in Items, member'[a][j].move # 0
                 PROVE  /\ member'[a][j].move \in DOMAIN moves'
                        /\ moves'[member'[a][j].move].to = a /\ moves'[member'[a][j].move].i = j
                        /\ ~moves'[member'[a][j].move].undone /\ ~moves'[member'[a][j].move].pre
    BY DEF MembersStand, Stands
  <2>2. CASE a = m.from /\ j = m.i
    <3>1. Stands(m.source, m.from, m.i) /\ m.source.move < k
      BY <1>3 DEF Older
    <3>2. member'[a][j] = m.source
      BY <1>4, <2>2
    <3>3. m.source.move # k
      BY <1>5, <3>1
    <3> QED BY <1>6, <2>1, <2>2, <3>1, <3>2, <3>3
  <2>3. CASE ~(a = m.from /\ j = m.i)
    <3>1. Stands(member[a][j], a, j)
      BY DEF MembershipInv, MembersStand
    <3>2. member'[a][j] \in {member[a][j], NoMember}
      BY <1>4, <2>3
    <3>3. member'[a][j] = member[a][j]
      BY <2>1, <3>2 DEF NoMember
    <3>4. member[a][j].move # k
      <4>1. SUFFICES ASSUME member[a][j].move = k
                     PROVE  FALSE
        OBVIOUS
      <4>2. a = m.to /\ j = m.i /\ ~m.pre
        BY <2>1, <3>1, <3>3, <4>1 DEF Stands
      <4>3. member'[a][j] = NoMember
        BY <1>3, <1>4, <4>1, <4>2
      <4> QED BY <2>1, <4>3 DEF NoMember
    <3> QED BY <1>6, <2>1, <3>1, <3>3, <3>4
  <2> QED BY <2>2, <2>3
<1>8. MovesStand'
  <2>1. SUFFICES ASSUME NEW n \in DOMAIN moves
                 PROVE  /\ moves'[n].from # moves'[n].to
                        /\ ~moves'[n].undone =>
                             /\ moves'[n].source.move # 0 =>
                                  /\ moves'[n].source.move \in DOMAIN moves'
                                  /\ moves'[moves'[n].source.move].to = moves'[n].from
                                  /\ moves'[moves'[n].source.move].i = moves'[n].i
                                  /\ ~moves'[moves'[n].source.move].undone
                                  /\ ~moves'[moves'[n].source.move].pre
                             /\ moves'[n].source.move < n
    BY <1>5 DEF MovesStand, Older, Stands
  <2>2. CASE n = k
    BY <1>3, <1>5, <2>2
  <2>3. CASE n # k /\ moves[n].undone
    BY <1>5, <2>3 DEF MembershipInv, MovesStand, Older
  <2>4. CASE n # k /\ ~moves[n].undone
    <3>1. /\ moves'[n] = moves[n] /\ moves[n].from # moves[n].to
          /\ Stands(moves[n].source, moves[n].from, moves[n].i) /\ moves[n].source.move < n
      BY <1>5, <2>4 DEF MembershipInv, MovesStand, Older
    <3>2. moves[n].source.move # k
      <4>1. SUFFICES ASSUME moves[n].source.move = k
                     PROVE  FALSE
        OBVIOUS
      <4>2. k # 0 /\ k < n
        BY <1>2, <3>1, <4>1
      <4>3. moves[k].i = moves[n].i
        BY <3>1, <4>1, <4>2 DEF Stands
      <4>4. n <= k
        BY <1>1, <2>4, <4>3 DEF Undoable, IsLatestMove, ActiveMoves
      <4> QED BY <1>5, <4>2, <4>4
    <3> QED BY <1>6, <3>1, <3>2
  <2> QED BY <2>2, <2>3, <2>4
<1>9. MemberLimit'
  <2>1. SUFFICES ASSUME NEW a \in Topics
                 PROVE  Cardinality(AllMembers(a)') <= MaxMembers
    BY DEF MemberLimit
  <2>2. AllMembers(a)' \subseteq AllMembers(a) \cup {m.i}
    BY <1>4 DEF AllMembers, NoMember
  <2>3. a # m.from => AllMembers(a)' \subseteq AllMembers(a)
    BY <1>4 DEF AllMembers, NoMember
  <2> HIDE DEF m
  <2>4. AllMembers(a)' \subseteq AllMembers(a) \/ Cardinality(AllMembers(a)) < MaxMembers
    BY <1>1, <2>3
  <2> QED BY <2>2, <2>4, LimitKept
<1> QED BY <1>7, <1>8, <1>9 DEF MembershipInv

\* The removal of an item from the library takes all its memberships.
LEMMA RemovalStep ==
  ASSUME MembershipInv, MembershipType', NEW c, Removal(c)
  PROVE  MembershipInv'
<1> DEFINE i == Head(thread[c]).i
<1>1. moves' = moves
  BY DEF Removal
<1>2. member' = member \/ member' = [t \in Topics |-> [member[t] EXCEPT ![i] = NoMember]]
  BY DEF Removal
<1> HIDE DEF i
<1>3. \A t \in Topics, j \in Items : member'[t][j] \in {member[t][j], NoMember}
  BY <1>2 DEF MembershipInv, MembershipType
<1>4. MembersStand'
  BY <1>1, <1>3 DEF MembershipInv, MembersStand, Stands, NoMember
<1>5. MovesStand'
  BY <1>1 DEF MembershipInv, MovesStand, Older, Stands
<1>6. MemberLimit'
  <2>1. SUFFICES ASSUME NEW s \in Topics
                 PROVE  Cardinality(AllMembers(s)') <= MaxMembers
    BY DEF MemberLimit
  <2>2. AllMembers(s)' \subseteq AllMembers(s)
    BY <1>3 DEF AllMembers, NoMember
  <2> QED BY <2>2, LimitKept
<1> QED BY <1>4, <1>5, <1>6 DEF MembershipInv

-----------------------------------------------------------------------------
(* Every step.                                                              *)

\* The requests that change no membership.
PlainRequests ==
  \E c \in Clients :
    \/ \E t \in Topics : \/ Create(c, t) \/ UpdateCriteria(c, t)
                         \/ RequestActivation(c, t) \/ RequestUnderstanding(c, t)
    \/ \E i \in Items : ReadTopics(c, i) \/ Touch(c, i) \/ Less(c, i) \/ QueueRouting(c, i)

\* The steps of the program that change no membership and are no request.
PlainCalls ==
  \E c \in Clients :
    \/ NextRemoved(c) \/ CallQueueUnderstanding(c) \/ CallReadRevision(c)
    \/ CallQueueActivation(c) \/ CallMarkPending(c) \/ CallLaunch(c)

PlainRouting ==
  \/ ClaimRouting \/ (\E ts \in SUBSET Topics : Match(ts)) \/ FailRouting
  \/ (\E t \in Topics : Remember(t)) \/ FinishRouting \/ QueueDirty
  \/ Retire("r") \/ Recheck("r")

Same == UNCHANGED <<member, moves, cand>>

LEMMA PlainRequestsStep ==
  ASSUME PlainRequests, MembershipType
  PROVE  /\ UNCHANGED <<member, moves>> /\ cand' \in [Topics -> [Items -> CandidateStates]]
         /\ spent' = [spent EXCEPT !.requests = @ + 1]
<1>1. CASE \E c \in Clients, t \in Topics : UpdateCriteria(c, t)
  BY <1>1 DEF UpdateCriteria, Request, MembershipType, CandidateStates
<1>2. CASE \E c \in Clients, t \in Topics : Create(c, t)
  BY <1>2 DEF Create, Request, MembershipType
<1>3. CASE \E c \in Clients, t \in Topics : RequestActivation(c, t) \/ RequestUnderstanding(c, t)
  BY <1>3 DEF RequestActivation, RequestUnderstanding, Request, rows, MembershipType
<1>4. CASE \E c \in Clients, i \in Items : ReadTopics(c, i) \/ Touch(c, i) \/ QueueRouting(c, i)
  BY <1>4 DEF ReadTopics, Touch, QueueRouting, Request, rows, MembershipType
<1>5. CASE \E c \in Clients, i \in Items : Less(c, i)
  BY <1>5 DEF Less, Request, MembershipType, CandidateStates
<1> QED BY <1>1, <1>2, <1>3, <1>4, <1>5 DEF PlainRequests

LEMMA PlainCallsStep ==
  ASSUME PlainCalls
  PROVE  Same /\ spent' = spent
BY DEF PlainCalls, NextRemoved, CallQueueUnderstanding, CallReadRevision, CallQueueActivation,
       CallMarkPending, CallLaunch, rows, Same

LEMMA UnderstandingStepsSame ==
  ASSUME UnderstandingSteps
  PROVE  Same /\ spent' = spent
BY DEF UnderstandingSteps, ClaimUnderstanding, ReadInput, Ask, SaveSnapshot, FinishUnderstanding,
       Retire, Recheck, rows, Same

LEMMA ActivationStepsSame ==
  ASSUME ActivationSteps
  PROVE  UNCHANGED <<member, moves, spent>> /\ (cand' = cand \/ \E i \in Items : Decide(i))
BY DEF ActivationSteps, ClaimActivation, ReadLibrary, Decide, EndScan, FinishActivation,
       Retire, Recheck, rows

LEMMA PlainRoutingStep ==
  ASSUME PlainRouting
  PROVE  Same /\ spent' = spent
BY DEF PlainRouting, ClaimRouting, Match, FailRouting, Remember, FinishRouting, QueueDirty,
       Retire, Recheck, rows, Same

\* The requests that set memberships, moves or candidates.
SetRequests ==
  \E c \in Clients :
    \/ \E t \in Topics, i \in Items :
         \/ AddMember(c, t, i) \/ RemoveMember(c, t, i)
         \/ Accept(c, t, i) \/ Reject(c, t, i) \/ UndoReview(c, t, i)
         \/ \E s \in Topics : MoveMember(c, s, t, i)
    \/ \E k \in DOMAIN moves : UndoMove(c, k)

LEMMA StepKinds ==
  ASSUME [Next]_vars
  PROVE  \/ PlainRequests \/ SetRequests
         \/ PlainCalls \/ (\E c \in Clients : Removal(c))
         \/ UnderstandingSteps \/ ActivationSteps \/ PlainRouting \/ Join
         \/ Stop \/ End \/ Restart \/ UNCHANGED vars
<1>1. Requests => PlainRequests \/ SetRequests
  BY DEF Requests, PlainRequests, SetRequests
<1>2. Calls => PlainCalls \/ \E c \in Clients : Removal(c)
  BY DEF Calls, PlainCalls
<1>3. RoutingSteps => PlainRouting \/ Join
  BY DEF RoutingSteps, PlainRouting
<1> QED BY <1>1, <1>2, <1>3 DEF Next

\* Only requests count as requests, and only decisions of a scan and requests touch
\* the candidates.
LEMMA Effects ==
  ASSUME MembershipType, [Next]_vars
  PROVE  /\ MembershipType'
         /\ \/ spent'.requests = spent.requests + 1
            \/ cand' = cand
            \/ \E i \in Items : Decide(i)
<1>0. /\ member \in Table(Member) /\ moves \in Seq(MoveRow)
      /\ cand \in Table(CandidateStates)
      /\ spent \in [requests : Nat, crashes : Nat, stops : Nat]
  BY DEF MembershipType, Table
<1>1. NoMember \in Member /\ \A m \in Modes : [mode |-> m, move |-> 0] \in Member
  BY DEF NoMember, Member, Modes
<1>2. CASE PlainRequests
  BY <1>0, <1>2, PlainRequestsStep DEF MembershipType, Table
<1>3. CASE SetRequests
  <2>1. spent' = [spent EXCEPT !.requests = @ + 1]
    <3>1. PICK c \in Clients :
            \/ \E t \in Topics, i \in Items :
                 \/ AddMember(c, t, i) \/ RemoveMember(c, t, i)
                 \/ Accept(c, t, i) \/ Reject(c, t, i) \/ UndoReview(c, t, i)
                 \/ \E s \in Topics : MoveMember(c, s, t, i)
            \/ \E k \in DOMAIN moves : UndoMove(c, k)
      BY <1>3 DEF SetRequests
    <3>2. \E op : Request(c, op)
      <4>1. CASE \E t \in Topics, i \in Items : AddMember(c, t, i)
        BY <4>1 DEF AddMember
      <4>2. CASE \E t \in Topics, i \in Items : RemoveMember(c, t, i)
        BY <4>2 DEF RemoveMember
      <4>3. CASE \E t \in Topics, i \in Items : Accept(c, t, i)
        BY <4>3 DEF Accept
      <4>4. CASE \E t \in Topics, i \in Items : Reject(c, t, i) \/ UndoReview(c, t, i)
        BY <4>4 DEF Reject, UndoReview
      <4>5. CASE \E t \in Topics, i \in Items, s \in Topics : MoveMember(c, s, t, i)
        BY <4>5 DEF MoveMember
      <4>6. CASE \E k \in DOMAIN moves : UndoMove(c, k)
        BY <4>6 DEF UndoMove
      <4> QED BY <3>1, <4>1, <4>2, <4>3, <4>4, <4>5, <4>6
    <3> QED BY <3>2 DEF Request
  <2>2. spent' \in [requests : Nat, crashes : Nat, stops : Nat] /\ spent'.requests = spent.requests + 1
    BY <1>0, <2>1
  <2>3. CASE \E c \in Clients, t \in Topics, i \in Items : AddMember(c, t, i) \/ RemoveMember(c, t, i)
    <3>1. PICK c \in Clients, t \in Topics, i \in Items : AddMember(c, t, i) \/ RemoveMember(c, t, i)
      BY <2>3
    <3>2. \E m \in Member : member' = Put(member, t, i, m)
      BY <1>1, <3>1 DEF AddMember, RemoveMember, Modes, Put
    <3>3. moves' = moves /\ cand' = cand
      BY <3>1 DEF AddMember, RemoveMember
    <3>4. member' \in Table(Member)
      BY <1>0, <3>2, EntrySet
    <3> QED BY <1>0, <2>2, <3>3, <3>4 DEF MembershipType, Table
  <2>4. CASE \E c \in Clients, t \in Topics, i \in Items : Accept(c, t, i) \/ Reject(c, t, i) \/ UndoReview(c, t, i)
    <3>1. PICK c \in Clients, t \in Topics, i \in Items : Accept(c, t, i) \/ Reject(c, t, i) \/ UndoReview(c, t, i)
      BY <2>4
    <3>2. member' = member \/ \E m \in Member : member' = Put(member, t, i, m)
      <4>1. member[t][i] \in Member
        BY <1>0 DEF Table
      <4>2. CASE Accept(c, t, i)
        BY <1>1, <4>1, <4>2 DEF Accept, Modes, Put
      <4>3. CASE Reject(c, t, i) \/ UndoReview(c, t, i)
        BY <1>1, <4>3 DEF Reject, UndoReview, DropAccepted, Put
      <4> QED BY <3>1, <4>2, <4>3
    <3>3. moves' = moves /\ \E x \in CandidateStates : cand' = Put(cand, t, i, x)
      BY <3>1 DEF Accept, Reject, UndoReview, Reviewed, CandidateStates, Put
    <3>4. member' \in Table(Member)
      BY <1>0, <3>2, EntrySet
    <3>5. cand' \in Table(CandidateStates)
      BY <1>0, <3>3, EntrySet
    <3> QED BY <1>0, <2>2, <3>3, <3>4, <3>5 DEF MembershipType, Table
  <2>5. CASE \E c \in Clients, s \in Topics, t \in Topics, i \in Items : MoveMember(c, s, t, i)
    <3>1. PICK c \in Clients, s \in Topics, t \in Topics, i \in Items : MoveMember(c, s, t, i)
      BY <2>5
    <3> DEFINE p == member[t][i].mode # "none"
               n == Len(moves) + 1
               m == IF p THEN member[t][i] ELSE [mode |-> "move", move |-> n]
               r == [i |-> i, from |-> s, to |-> t, source |-> member[s][i], pre |-> p, undone |-> FALSE]
    <3>2. /\ moves' = Append(moves, r) /\ cand' = cand
          /\ member' = [member EXCEPT ![s][i] = NoMember, ![t][i] = m]
      BY <3>1 DEF MoveMember
    <3>3. p \in BOOLEAN /\ n \in Nat /\ member[s][i] \in Member /\ member[t][i] \in Member
      BY <1>0 DEF Table
    <3> HIDE DEF p, n
    <3>4. m \in Member /\ r \in MoveRow
      BY <3>3 DEF Member, MoveRow, Modes
    <3> HIDE DEF m, r
    <3>5. moves' \in Seq(MoveRow)
      BY <1>0, <3>2, <3>4
    <3>6. PICK h \in Table(Member) : h = Put(member, s, i, NoMember)
      BY <1>0, <1>1, EntrySet
    <3>8. member' = Put(h, t, i, m)
      <4>1. s # t
        BY <3>1 DEF MoveMember
      <4> QED BY <3>2, <3>6, <4>1 DEF Put
    <3>7. member' \in Table(Member)
      BY <3>4, <3>6, <3>8, EntrySet
    <3> QED BY <1>0, <2>2, <3>2, <3>5, <3>7 DEF MembershipType, Table
  <2>6. CASE \E c \in Clients, k \in DOMAIN moves : UndoMove(c, k)
    <3>1. PICK c \in Clients, k \in DOMAIN moves : UndoMove(c, k)
      BY <2>6
    <3> DEFINE m == moves[k]
               old == member[m.to][m.i]
               kept == IF ~m.pre /\ old.move = k THEN NoMember ELSE old
               r == [m EXCEPT !.undone = TRUE]
    <3>2. /\ moves' = [moves EXCEPT ![k] = r] /\ cand' = cand
          /\ member' = [member EXCEPT ![m.to][m.i] = kept, ![m.from][m.i] = m.source]
      BY <3>1 DEF UndoMove
    <3>0. m \in MoveRow
      BY <1>0
    <3>3. m \in MoveRow /\ r \in MoveRow
      BY <3>0 DEF MoveRow
    <3>4. m.source \in Member /\ m.to \in Topics /\ m.from \in Topics /\ m.i \in Items
      BY <3>3 DEF MoveRow
    <3>5. kept \in Member
      BY <1>0, <1>1, <3>4 DEF Table
    <3> HIDE DEF m, kept, r
    <3>6. moves' \in Seq(MoveRow)
      BY <1>0, <3>2, <3>3
    <3>7. PICK h \in Table(Member) : h = Put(member, m.to, m.i, kept)
      BY <1>0, <3>5, EntrySet
    <3>8. member' = Put(h, m.from, m.i, m.source)
      BY <3>2, <3>7 DEF Put
    <3>9. member' \in Table(Member)
      BY <3>4, <3>8, EntrySet
    <3> QED BY <1>0, <2>2, <3>2, <3>6, <3>9 DEF MembershipType, Table
  <2> QED BY <1>3, <2>3, <2>4, <2>5, <2>6 DEF SetRequests
<1>4. CASE PlainCalls \/ UnderstandingSteps \/ PlainRouting
  BY <1>0, <1>4, PlainCallsStep, UnderstandingStepsSame, PlainRoutingStep DEF Same, MembershipType
<1>5. CASE \E c \in Clients : Removal(c)
  <2>1. UNCHANGED <<moves, cand, spent>>
    BY <1>5 DEF Removal
  <2>2. member' = member \/ \E i : member' = [t \in Topics |-> [member[t] EXCEPT ![i] = NoMember]]
    BY <1>5 DEF Removal
  <2>3. member' \in Table(Member)
    BY <1>0, <1>1, <2>2 DEF Table
  <2> QED BY <1>0, <2>1, <2>3 DEF MembershipType, Table
<1>6. CASE ActivationSteps
  <2>1. UNCHANGED <<member, moves, spent>> /\ (cand' = cand \/ \E i \in Items : Decide(i))
    BY <1>6, ActivationStepsSame
  <2>2. cand' \in Table(CandidateStates)
    <3>1. CASE cand' = cand
      BY <1>0, <3>1
    <3>2. CASE \E i \in Items : Decide(i)
      <4>1. cand' = cand \/ \E i, x : x \in CandidateStates /\ cand' = Put(cand, arun.t, i, x)
        BY <3>2 DEF Decide, Decided, CandidateStates, Put
      <4> QED BY <1>0, <4>1, EntrySet
    <3> QED BY <2>1, <3>1, <3>2
  <2> QED BY <1>0, <2>1, <2>2 DEF MembershipType, Table
<1>7. CASE Join
  <2>1. UNCHANGED <<moves, cand, spent>>
    BY <1>7 DEF Join
  <2>2. member' = member \/ \E t, i : member' = Put(member, t, i, [mode |-> "automatic", move |-> 0])
    BY <1>7 DEF Join, Put
  <2>3. [mode |-> "automatic", move |-> 0] \in Member
    BY <1>1 DEF Modes
  <2>4. member' \in Table(Member)
    BY <1>0, <2>2, <2>3, EntrySet
  <2> QED BY <1>0, <2>1, <2>4 DEF MembershipType, Table
<1>8. CASE Stop \/ End \/ Restart \/ UNCHANGED vars
  <2>1. UNCHANGED <<member, moves, cand>>
    BY <1>8 DEF Stop, End, Restart, vars, rows
  <2>2. spent' \in [requests : Nat, crashes : Nat, stops : Nat]
    <3>1. \/ spent' = spent
          \/ spent' = [spent EXCEPT !.stops = @ + 1]
          \/ spent' = [spent EXCEPT !.crashes = @ + 1]
      BY <1>8 DEF Stop, End, Restart, vars
    <3> QED BY <1>0, <3>1
  <2> QED BY <1>0, <2>1, <2>2 DEF MembershipType, Table
<1> QED BY <1>2, <1>3, <1>4, <1>5, <1>6, <1>7, <1>8, StepKinds

LEMMA MembershipNext ==
  ASSUME MembershipInv, [Next]_vars
  PROVE  MembershipInv'
<1>0. MembershipType'
  BY Effects DEF MembershipInv
<1>1. ASSUME UNCHANGED <<member, moves>>
      PROVE  MembershipInv'
  BY <1>0, <1>1 DEF MembershipInv, MembersStand, MovesStand, Older, Stands, MemberLimit, AllMembers
<1>2. CASE SetRequests
  <2>1. CASE \E c \in Clients, t \in Topics, i \in Items : AddMember(c, t, i) \/ RemoveMember(c, t, i)
    <3>1. PICK c \in Clients, t \in Topics, i \in Items : AddMember(c, t, i) \/ RemoveMember(c, t, i)
      BY <2>1
    <3>2. OneMember(t, i, [mode |-> "manual", move |-> 0]) \/ OneMember(t, i, NoMember)
      BY <3>1 DEF AddMember, RemoveMember, OneMember, NoMember, Member, Modes
    <3> QED BY <1>0, <3>2, OneMemberStep
  <2>2. CASE \E c \in Clients, t \in Topics, i \in Items : Accept(c, t, i) \/ Reject(c, t, i) \/ UndoReview(c, t, i)
    <3>1. PICK c \in Clients, t \in Topics, i \in Items : Accept(c, t, i) \/ Reject(c, t, i) \/ UndoReview(c, t, i)
      BY <2>2
    <3>2. moves' = moves
      BY <3>1 DEF Accept, Reject, UndoReview, Reviewed
    <3>3. \/ member' = member
          \/ OneMember(t, i, [mode |-> "candidate", move |-> 0]) \/ OneMember(t, i, NoMember)
      <4>1. CASE Accept(c, t, i) /\ member[t][i].mode # "none"
        <5>1. member' = [member EXCEPT ![t][i] = member[t][i]]
          BY <4>1 DEF Accept
        <5> QED BY <5>1 DEF MembershipInv, MembershipType
      <4>2. CASE Accept(c, t, i) /\ member[t][i].mode = "none"
        BY <3>2, <4>2 DEF Accept, OneMember, Member, Modes
      <4>3. CASE Reject(c, t, i) \/ UndoReview(c, t, i)
        BY <3>2, <4>3 DEF Reject, UndoReview, DropAccepted, OneMember, NoMember, Member, Modes
      <4> QED BY <3>1, <4>1, <4>2, <4>3
    <3> QED BY <1>0, <1>1, <3>2, <3>3, OneMemberStep
  <2>3. CASE \E c \in Clients, s \in Topics, t \in Topics, i \in Items : MoveMember(c, s, t, i)
    BY <1>0, <2>3, MoveStep
  <2>4. CASE \E c \in Clients, k \in DOMAIN moves : UndoMove(c, k)
    BY <1>0, <2>4, UndoStep
  <2> QED BY <1>2, <2>1, <2>2, <2>3, <2>4 DEF SetRequests
<1>3. CASE \E c \in Clients : Removal(c)
  BY <1>0, <1>3, RemovalStep
<1>4. CASE Join
  <2> DEFINE t == worker["r"].out
             i == worker["r"].seen
  <2>1. \/ UNCHANGED <<member, moves>>
        \/ OneMember(t, i, [mode |-> "automatic", move |-> 0])
    BY <1>4 DEF Join, OneMember, Member, Modes
  <2> QED BY <1>0, <1>1, <2>1, OneMemberStep
<1>5. CASE PlainRequests \/ PlainCalls \/ UnderstandingSteps \/ ActivationSteps \/ PlainRouting
  BY <1>1, <1>5, PlainRequestsStep, PlainCallsStep, UnderstandingStepsSame, ActivationStepsSame,
     PlainRoutingStep DEF Same, MembershipInv
<1>6. CASE Stop \/ End \/ Restart \/ UNCHANGED vars
  BY <1>1, <1>6 DEF Stop, End, Restart, vars, rows
<1> QED BY <1>2, <1>3, <1>4, <1>5, <1>6, StepKinds

LEMMA MembershipInit ==
  ASSUME Init
  PROVE  MembershipInv
<1>1. /\ inst \in Instances /\ moves = << >>
      /\ member = [t \in Topics |-> [i \in Items |->
                     IF <<t, i>> \in inst.held THEN [mode |-> "manual", move |-> 0] ELSE NoMember]]
      /\ cand = [t \in Topics |-> [i \in Items |-> "none"]]
      /\ spent = [requests |-> 0, crashes |-> 0, stops |-> 0]
  BY DEF Init
<1>2. MembershipType
  BY <1>1 DEF MembershipType, Member, Modes, NoMember, CandidateStates
<1>3. MembersStand /\ MovesStand
  BY <1>1 DEF MembersStand, MovesStand, Stands, NoMember
<1>4. MemberLimit
  <2>1. SUFFICES ASSUME NEW t \in Topics
                 PROVE  Cardinality(AllMembers(t)) <= MaxMembers
    BY DEF MemberLimit
  <2>2. AllMembers(t) = {i \in Items : <<t, i>> \in inst.held}
    BY <1>1 DEF AllMembers, NoMember
  <2> QED BY <1>1, <2>2, TopicAssumption
<1> QED BY <1>2, <1>3, <1>4 DEF MembershipInv

-----------------------------------------------------------------------------
(* Members: the theorems.                                                   *)

\* MembershipInv is an invariant: every membership that names a move, and everything a
\* standing move would restore, was made by a move that stands.
THEOREM MembershipInvariant == Spec => []MembershipInv
<1>1. Init => MembershipInv
  BY MembershipInit
<1>2. MembershipInv /\ [Next]_vars => MembershipInv'
  BY MembershipNext
<1> QED BY <1>1, <1>2, PTL DEF Spec

\* Add, accept, move, undo and automatic routing keep every topic within
\* LivingTopicMaxMembers, and UndoLivingTopicMemberMove leaves nothing that names a
\* move taken back.
THEOREM MembershipIsSound == Spec => []MembershipSound
<1>1. MembershipInv => MembershipSound
  BY DEF MembershipInv, MembershipSound, MembersStand, MovesStand, Older, Stands, MoveIdLive
<1> QED BY <1>1, MembershipInvariant, PTL

\* An accepted or rejected candidate changes only with a request of the user: the scan
\* that read it before reads it again when it saves its decision
\* (SaveLivingTopicCandidateDecision).
THEOREM ReviewsAreKept == Spec => ReviewKept
<1>1. MembershipInv /\ [Next]_vars =>
        [\A t \in Topics, i \in Items :
           cand[t][i] \in {"accepted", "rejected"} /\ cand'[t][i] # cand[t][i]
             => spent'.requests > spent.requests]_vars
  <2>1. SUFFICES ASSUME MembershipInv, [Next]_vars, NEW t \in Topics, NEW i \in Items,
                        cand[t][i] \in {"accepted", "rejected"}, cand'[t][i] # cand[t][i]
                 PROVE  spent'.requests > spent.requests
    OBVIOUS
  <2>2. MembershipType
    BY <2>1 DEF MembershipInv
  <2>3. ~\E j \in Items : Decide(j)
    <3>1. SUFFICES ASSUME NEW j \in Items, Decide(j)
                   PROVE  cand'[t][i] = cand[t][i]
      BY <2>1
    <3>2. \/ cand' = cand
          \/ /\ cand[arun.t][j] \notin {"accepted", "rejected"}
             /\ \E x \in CandidateStates : cand' = Put(cand, arun.t, j, x)
      BY <3>1 DEF Decide, Decided, CandidateStates, Put
    <3>3. CASE cand' = cand
      BY <3>3
    <3>4. CASE cand[arun.t][j] \notin {"accepted", "rejected"}
               /\ \E x \in CandidateStates : cand' = Put(cand, arun.t, j, x)
      <4>1. ~(t = arun.t /\ i = j)
        BY <2>1, <3>4
      <4>2. cand \in Table(CandidateStates)
        BY <2>2 DEF MembershipType, Table
      <4> QED BY <3>4, <4>1, <4>2, EntrySet
    <3> QED BY <3>2, <3>3, <3>4
  <2>4. spent'.requests = spent.requests + 1
    BY <2>1, <2>2, <2>3, Effects
  <2>5. spent.requests \in Nat
    BY <2>2 DEF MembershipType
  <2> QED BY <2>4, <2>5
<1> QED BY <1>1, MembershipInvariant, PTL DEF Spec, ReviewKept

-----------------------------------------------------------------------------
(* The jobs: what the tables, the goroutines and the calls still to come     *)
(* say together.                                                             *)

Elems(s) == {s[k] : k \in DOMAIN s}
JobRow == Row \cup {NoJob}
TopicRow == [rev : Nat,
             ustatus : {"idle", "pending", "running", "current", "insufficient_evidence", "failed"},
             udigest : Digests,
             rstatus : {"idle", "pending", "running", "current", "failed"}]

\* The calls a request may still have to make.
Call == [op : {"uqueue"}, t : Topics, n : Nat] \cup [op : {"ulaunch", "alaunch", "rlaunch"}]
        \cup [op : {"aread"}, t : Topics] \cup [op : {"ainsert", "astatus"}, t : Topics, n : Nat]
        \cup [op : {"removal"}, i : Items, topics : SUBSET Topics]
        \cup [op : {"uqueues"}, topics : SUBSET Topics]

UBusy == {"read", "ask", "save", "done"}
ABusy == {"read", "decide", "done"}
RBusy == {"match", "join", "insert", "done"}

UWorker == [pc : UBusy \cup {"claim", "retire"}, cancelled : BOOLEAN, left : {{}}, dirty : {{}},
            out : {"none", "no_change"} \cup Answers, seen : Digests]
AWorker == [pc : ABusy \cup {"claim", "retire"}, cancelled : BOOLEAN, left : SUBSET Items,
            dirty : {{}}, out : {"none", "failed"}, seen : Digests]
RWorker == [pc : RBusy \cup {"claim", "queue", "retire"}, cancelled : BOOLEAN,
            left : SUBSET Topics, dirty : SUBSET Topics, out : Topics \cup {"none", "failed"},
            seen : Items \cup {NoDigest}]

RowsType ==
  /\ inst \in Instances
  /\ topic \in [Topics -> TopicRow] /\ snap \in [Topics -> Digests]
  /\ lib \subseteq Items /\ gone \subseteq Items /\ lib \cap gone = {}
  /\ version \in [Items -> Nat]
  /\ verdict \in [Topics -> [Items -> {"none", "include", "exclude", "clear"}]]
  /\ rstat \in [Items -> {"none", "pending", "running", "completed", "failed"}]
  /\ lost \subseteq Topics /\ stuck \subseteq Topics

QueueType ==
  /\ uq \in Seq(Row) /\ urun \in JobRow /\ aq \in Seq(Row) /\ arun \in JobRow
  /\ orphan \in [{"u", "a"} -> JobRow]

WorkType ==
  /\ worker \in [Kinds -> {Idle} \cup UWorker \cup AWorker \cup RWorker]
  /\ worker["u"] \in {Idle} \cup UWorker /\ worker["a"] \in {Idle} \cup AWorker
  /\ worker["r"] \in {Idle} \cup RWorker
  /\ thread \in [Clients -> Seq(Call)] /\ checks \in [Kinds -> Nat]
  /\ process \in {"up", "stopping", "down"}

LEMMA FirstDigest == NoDigest \in Digests
BY DEF NoDigest, Digests

\* Rows of one topic: a pending one, one at work and one left by Shutdown.
One(x) == IF x THEN 1 ELSE 0
RowsOf(q, t) == {k \in DOMAIN q : q[k].t = t}
CountInv ==
  \A t \in Topics :
    Cardinality(RowsOf(uq, t)) + One(urun.t = t) + One(orphan["u"].t = t) <= 3

\* An activation row is pending or running, once.
Distinct(q) == \A j, k \in DOMAIN q : q[j] = q[k] => j = k
OnceInv ==
  /\ Distinct(aq) /\ arun \notin Elems(aq) /\ orphan["a"] \notin Elems(aq)
  /\ arun = orphan["a"] => arun = NoJob

\* The goroutines and the rows they run.
BusyInv ==
  /\ process # "down" =>
       /\ urun # NoJob <=> worker["u"].pc \in UBusy
       /\ arun # NoJob <=> worker["a"].pc \in ABusy
       /\ \A i \in Items : rstat[i] = "running" <=> worker["r"].pc \in RBusy /\ worker["r"].seen = i
  /\ worker["r"].pc \in RBusy => worker["r"].seen \in Items
  /\ worker["r"].pc = "insert" => worker["r"].out \in Topics
  /\ worker["r"].pc \in {"claim", "done"} => worker["r"].left = {}

\* Only Shutdown cancels, and what it cancels leaves at most one row running.
StopInv ==
  /\ process = "up" =>
       /\ orphan = [k \in {"u", "a"} |-> NoJob]
       /\ \A k \in Kinds : worker[k].pc # "off" => ~worker[k].cancelled
  /\ process = "down" =>
       /\ worker = [k \in Kinds |-> Idle] /\ thread = [c \in Clients |-> << >>]
       /\ checks = [k \in Kinds |-> 0]
  /\ \A k \in {"u", "a"} :
       worker[k].pc \notin {"off", "retire"} /\ worker[k].cancelled => orphan[k] = NoJob

\* A call still to come that queues or marks the present revision of a topic.
Awaits(x, t) ==
  \/ x.op = "aread" /\ x.t = t
  \/ x.op \in {"ainsert", "astatus"} /\ x.t = t /\ x.n = topic[t].rev
Awaited(t) == \E c \in Clients : \E x \in Elems(thread[c]) : Awaits(x, t)

RouteInv ==
  \A t \in Topics :
    Awaited(t) \/ t \in stuck \/ (topic[t].rstatus \in {"pending", "running"} <=> ABacked(t))

\* Members are in the library, or were; so is an item about to become one.
HeldInv ==
  /\ \A t \in Topics, i \in Items : member[t][i].mode # "none" => i \in lib \cup gone
  /\ worker["r"].pc = "insert" => worker["r"].seen \in lib \cup gone

\* An understanding under way is of the present topic, or another follows.
SeenInv ==
  worker["u"].pc \in {"ask", "save", "done"} =>
    \/ worker["u"].seen = Digest(urun.t)
    \/ UPending(urun.t) \/ urun.t \in Owed \cup lost

JobsInv ==
  /\ RowsType /\ QueueType /\ WorkType /\ CountInv /\ OnceInv /\ BusyInv /\ StopInv
  /\ StatusHonest /\ RouteInv /\ HeldInv /\ UnderstandingCatchesUp /\ SeenInv
-----------------------------------------------------------------------------
(* Sequences of rows and of calls.                                           *)

\* The first entry is taken.
LEMMA ElemsOfTail ==
  ASSUME NEW S, NEW q \in Seq(S), q # << >>
  PROVE  /\ Head(q) \in S /\ Tail(q) \in Seq(S) /\ Head(q) = q[1] /\ 1 \in DOMAIN q
         /\ Elems(q) = Elems(Tail(q)) \cup {Head(q)}
         /\ Distinct(q) => Distinct(Tail(q)) /\ Head(q) \notin Elems(Tail(q))
<1>1. /\ Head(q) \in S /\ Tail(q) \in Seq(S) /\ Head(q) = q[1] /\ Len(Tail(q)) = Len(q) - 1
      /\ \A i \in 1..Len(Tail(q)) : Tail(q)[i] = q[i + 1]
  BY HeadTailProperties
<1>2. Len(q) \in Nat /\ DOMAIN q = 1..Len(q) /\ Len(q) # 0
  BY LenProperties, EmptySeq
<1>3. DOMAIN Tail(q) = 1..(Len(q) - 1)
  BY <1>1, LenProperties
<1>4. \A i \in DOMAIN Tail(q) : i + 1 \in DOMAIN q /\ i + 1 # 1 /\ Tail(q)[i] = q[i + 1]
  BY <1>1, <1>2, <1>3
<1>5. \A j \in DOMAIN q : j = 1 \/ (j - 1 \in DOMAIN Tail(q) /\ Tail(q)[j - 1] = q[j])
  BY <1>1, <1>2, <1>3
<1>6. Elems(q) = Elems(Tail(q)) \cup {Head(q)}
  <2>1. Elems(q) \subseteq Elems(Tail(q)) \cup {Head(q)}
    <3>1. ASSUME NEW j \in DOMAIN q PROVE q[j] \in Elems(Tail(q)) \cup {Head(q)}
      <4>1. CASE j = 1
        BY <1>1, <4>1
      <4>2. CASE j - 1 \in DOMAIN Tail(q) /\ Tail(q)[j - 1] = q[j]
        BY <4>2 DEF Elems
      <4> QED BY <1>5, <4>1, <4>2
    <3> QED BY <3>1 DEF Elems
  <2>2. Elems(Tail(q)) \subseteq Elems(q)
    BY <1>4 DEF Elems
  <2>3. Head(q) \in Elems(q)
    BY <1>1, <1>2 DEF Elems
  <2> QED BY <2>1, <2>2, <2>3
<1>7. ASSUME Distinct(q) PROVE Distinct(Tail(q)) /\ Head(q) \notin Elems(Tail(q))
  <2>1. ASSUME NEW i \in DOMAIN Tail(q), NEW j \in DOMAIN Tail(q), Tail(q)[i] = Tail(q)[j]
        PROVE  i = j
    <3>1. i + 1 = j + 1
      BY <1>4, <1>7, <2>1 DEF Distinct
    <3> QED BY <1>2, <1>3, <3>1
  <2>2. \A i \in DOMAIN Tail(q) : Tail(q)[i] # Head(q)
    BY <1>1, <1>2, <1>4, <1>7 DEF Distinct
  <2> QED BY <2>1, <2>2 DEF Distinct, Elems
<1> QED BY <1>1, <1>2, <1>6, <1>7

\* An entry is added at the end.
LEMMA ElemsOfAppend ==
  ASSUME NEW S, NEW q \in Seq(S), NEW x \in S
  PROVE  /\ Append(q, x) \in Seq(S)
         /\ Elems(Append(q, x)) = Elems(q) \cup {x}
         /\ Distinct(q) /\ x \notin Elems(q) => Distinct(Append(q, x))
<1>1. /\ Append(q, x) \in Seq(S) /\ Len(Append(q, x)) = Len(q) + 1
      /\ \A i \in 1..Len(q) : Append(q, x)[i] = q[i]
      /\ Append(q, x)[Len(q) + 1] = x
  BY AppendProperties
<1>2. Len(q) \in Nat /\ DOMAIN q = 1..Len(q) /\ DOMAIN Append(q, x) = 1..(Len(q) + 1)
  BY <1>1, LenProperties
<1>3. \A i \in DOMAIN q : i \in DOMAIN Append(q, x) /\ i # Len(q) + 1 /\ Append(q, x)[i] = q[i]
  BY <1>1, <1>2
<1>4. \A i \in DOMAIN Append(q, x) : i \in DOMAIN q \/ i = Len(q) + 1
  BY <1>2
<1>5. Elems(Append(q, x)) = Elems(q) \cup {x}
  <2>1. Elems(q) \subseteq Elems(Append(q, x))
    BY <1>3 DEF Elems
  <2>2. x \in Elems(Append(q, x))
    BY <1>1, <1>2 DEF Elems
  <2>3. Elems(Append(q, x)) \subseteq Elems(q) \cup {x}
    BY <1>1, <1>3, <1>4 DEF Elems
  <2> QED BY <2>1, <2>2, <2>3
<1>6. ASSUME Distinct(q), x \notin Elems(q) PROVE Distinct(Append(q, x))
  BY <1>1, <1>3, <1>4, <1>6 DEF Distinct, Elems
<1> QED BY <1>1, <1>5, <1>6

\* Two sequences are put together.
LEMMA ElemsOfConcat ==
  ASSUME NEW S, NEW p \in Seq(S), NEW q \in Seq(S)
  PROVE  /\ p \o q \in Seq(S)
         /\ Elems(p \o q) = Elems(p) \cup Elems(q)
         /\ Distinct(p) /\ Distinct(q) /\ Elems(p) \cap Elems(q) = {} => Distinct(p \o q)
<1>1. /\ p \o q \in Seq(S) /\ Len(p \o q) = Len(p) + Len(q)
      /\ \A i \in 1..(Len(p) + Len(q)) : (p \o q)[i] = IF i <= Len(p) THEN p[i] ELSE q[i - Len(p)]
  BY ConcatProperties
<1>2. /\ Len(p) \in Nat /\ Len(q) \in Nat /\ DOMAIN p = 1..Len(p) /\ DOMAIN q = 1..Len(q)
      /\ DOMAIN (p \o q) = 1..(Len(p) + Len(q))
  BY <1>1, LenProperties
<1>3. \A i \in DOMAIN p : i \in DOMAIN (p \o q) /\ (p \o q)[i] = p[i]
  BY <1>1, <1>2
<1>4. \A i \in DOMAIN q : i + Len(p) \in DOMAIN (p \o q) /\ (p \o q)[i + Len(p)] = q[i]
  BY <1>1, <1>2
<1>5. \A i \in DOMAIN (p \o q) : \/ (i \in DOMAIN p /\ (p \o q)[i] = p[i])
                                \/ (i - Len(p) \in DOMAIN q /\ (p \o q)[i] = q[i - Len(p)])
  BY <1>1, <1>2
<1>6. Elems(p \o q) = Elems(p) \cup Elems(q)
  <2>1. Elems(p) \subseteq Elems(p \o q)
    BY <1>3 DEF Elems
  <2>2. Elems(q) \subseteq Elems(p \o q)
    BY <1>4 DEF Elems
  <2>3. Elems(p \o q) \subseteq Elems(p) \cup Elems(q)
    BY <1>5 DEF Elems
  <2> QED BY <2>1, <2>2, <2>3
<1>7. ASSUME Distinct(p), Distinct(q), Elems(p) \cap Elems(q) = {},
             NEW i \in DOMAIN (p \o q), NEW j \in DOMAIN (p \o q), (p \o q)[i] = (p \o q)[j]
      PROVE  i = j
  <2>1. CASE i \in DOMAIN p /\ (p \o q)[i] = p[i] /\ j \in DOMAIN p /\ (p \o q)[j] = p[j]
    BY <1>7, <2>1 DEF Distinct
  <2>2. CASE /\ i - Len(p) \in DOMAIN q /\ (p \o q)[i] = q[i - Len(p)]
             /\ j - Len(p) \in DOMAIN q /\ (p \o q)[j] = q[j - Len(p)]
    <3>1. i - Len(p) = j - Len(p)
      BY <1>7, <2>2 DEF Distinct
    <3> QED BY <1>2, <3>1
  <2>3. CASE i \in DOMAIN p /\ (p \o q)[i] = p[i] /\ j - Len(p) \in DOMAIN q /\ (p \o q)[j] = q[j - Len(p)]
    BY <1>7, <2>3 DEF Elems
  <2>4. CASE j \in DOMAIN p /\ (p \o q)[j] = p[j] /\ i - Len(p) \in DOMAIN q /\ (p \o q)[i] = q[i - Len(p)]
    BY <1>7, <2>4 DEF Elems
  <2> QED BY <1>5, <2>1, <2>2, <2>3, <2>4
<1>8. Distinct(p) /\ Distinct(q) /\ Elems(p) \cap Elems(q) = {} => Distinct(p \o q)
  BY <1>7 DEF Distinct
<1> QED BY <1>1, <1>6, <1>8

\* One entry is taken out: where the others are.
LEMMA WithoutPlaces ==
  ASSUME NEW S, NEW q \in Seq(S), NEW k \in DOMAIN q
  PROVE  /\ Without(q, k) \in Seq(S) /\ k \in Nat /\ DOMAIN q \subseteq Nat
         /\ \A j \in DOMAIN Without(q, k) :
              /\ (IF j < k THEN j ELSE j + 1) \in DOMAIN q \ {k}
              /\ Without(q, k)[j] = q[IF j < k THEN j ELSE j + 1]
         /\ \A i \in DOMAIN q \ {k} :
              /\ (IF i < k THEN i ELSE i - 1) \in DOMAIN Without(q, k)
              /\ Without(q, k)[IF i < k THEN i ELSE i - 1] = q[i]
<1> DEFINE a == SubSeq(q, 1, k - 1)
           b == SubSeq(q, k + 1, Len(q))
<1>1. Len(q) \in Nat /\ DOMAIN q = 1..Len(q) /\ k \in 1..Len(q) /\ \A i \in 1..Len(q) : q[i] \in S
  BY LenProperties, ElementOfSeq
<1>2. /\ 1 \in Int /\ k - 1 \in Int /\ k + 1 \in Int /\ Len(q) \in Int
      /\ \A i \in 1..(k - 1) : q[i] \in S
      /\ \A i \in (k + 1)..Len(q) : q[i] \in S
  BY <1>1
<1>3. /\ a \in Seq(S) /\ Len(a) = IF 1 <= k - 1 THEN k - 1 - 1 + 1 ELSE 0
      /\ \A i \in 1..(k - 1 - 1 + 1) : a[i] = q[1 + i - 1]
  BY <1>2, SubSeqProperties
<1>4. /\ b \in Seq(S) /\ Len(b) = IF k + 1 <= Len(q) THEN Len(q) - (k + 1) + 1 ELSE 0
      /\ \A i \in 1..(Len(q) - (k + 1) + 1) : b[i] = q[k + 1 + i - 1]
  BY <1>2, SubSeqProperties
<1>5. Len(a) = k - 1 /\ \A i \in 1..(k - 1) : a[i] = q[i]
  BY <1>1, <1>3
<1>6. Len(b) = Len(q) - k /\ \A i \in 1..(Len(q) - k) : b[i] = q[k + i]
  BY <1>1, <1>4
<1> HIDE DEF a, b
<1>7. /\ a \o b \in Seq(S) /\ Len(a \o b) = Len(a) + Len(b)
      /\ \A i \in 1..(Len(a) + Len(b)) : (a \o b)[i] = IF i <= Len(a) THEN a[i] ELSE b[i - Len(a)]
  BY <1>3, <1>4, ConcatProperties
<1>8. /\ Without(q, k) = a \o b /\ DOMAIN Without(q, k) = 1..(Len(q) - 1)
  <2>1. Without(q, k) = a \o b
    BY DEF Without, a, b
  <2>2. DOMAIN (a \o b) = 1..Len(a \o b)
    BY <1>7, LenProperties
  <2>3. Len(a \o b) = Len(q) - 1
    BY <1>1, <1>5, <1>6, <1>7
  <2> QED BY <2>1, <2>2, <2>3
<1>9. ASSUME NEW j \in 1..(Len(q) - 1)
      PROVE  /\ j < k => j \in 1..Len(q) /\ j # k /\ (a \o b)[j] = q[j]
             /\ ~(j < k) => j + 1 \in 1..Len(q) /\ j + 1 # k /\ (a \o b)[j] = q[j + 1]
  <2>1. j \in 1..(Len(a) + Len(b))
    BY <1>1, <1>5, <1>6
  <2>2. ASSUME j < k PROVE j \in 1..Len(q) /\ j # k /\ (a \o b)[j] = q[j]
    <3>1. j \in 1..(k - 1) /\ j <= Len(a) /\ j \in 1..Len(q) /\ j # k
      BY <1>1, <1>5, <2>2
    <3>2. (a \o b)[j] = a[j]
      BY <1>7, <2>1, <3>1
    <3> QED BY <1>5, <3>1, <3>2
  <2>3. ASSUME ~(j < k) PROVE j + 1 \in 1..Len(q) /\ j + 1 # k /\ (a \o b)[j] = q[j + 1]
    <3>1. ~(j <= Len(a)) /\ j - Len(a) \in 1..(Len(q) - k) /\ k + (j - Len(a)) = j + 1
      BY <1>1, <1>5, <2>3
    <3>2. (a \o b)[j] = b[j - Len(a)]
      BY <1>7, <2>1, <3>1
    <3>3. b[j - Len(a)] = q[j + 1]
      BY <1>6, <3>1
    <3>4. j + 1 \in 1..Len(q) /\ j + 1 # k
      BY <1>1, <2>3
    <3> QED BY <3>2, <3>3, <3>4
  <2> QED BY <2>2, <2>3
<1>10. \A j \in DOMAIN Without(q, k) :
         /\ (IF j < k THEN j ELSE j + 1) \in DOMAIN q \ {k}
         /\ Without(q, k)[j] = q[IF j < k THEN j ELSE j + 1]
  <2> SUFFICES ASSUME NEW j \in DOMAIN Without(q, k)
               PROVE  /\ (IF j < k THEN j ELSE j + 1) \in DOMAIN q \ {k}
                      /\ Without(q, k)[j] = q[IF j < k THEN j ELSE j + 1]
    OBVIOUS
  <2>1. j \in 1..(Len(q) - 1) /\ Without(q, k)[j] = (a \o b)[j]
    BY <1>8
  <2> QED BY <1>1, <1>9, <2>1
<1>11. ASSUME NEW i \in DOMAIN q \ {k}
       PROVE  /\ (IF i < k THEN i ELSE i - 1) \in DOMAIN Without(q, k)
              /\ Without(q, k)[IF i < k THEN i ELSE i - 1] = q[i]
  <2>1. CASE i < k
    <3>1. i \in 1..(Len(q) - 1)
      BY <1>1, <2>1
    <3> QED BY <1>8, <1>9, <2>1, <3>1
  <2>2. CASE ~(i < k)
    <3>1. i - 1 \in 1..(Len(q) - 1) /\ ~(i - 1 < k) /\ (i - 1) + 1 = i
      BY <1>1, <2>2
    <3>2. (a \o b)[i - 1] = q[(i - 1) + 1]
      BY <1>9, <3>1
    <3> QED BY <1>8, <2>2, <3>1, <3>2
  <2> QED BY <2>1, <2>2
<1>12. k \in Nat /\ DOMAIN q \subseteq Nat
  BY <1>1
<1>13. Without(q, k) \in Seq(S)
  BY <1>7, <1>8
<1> QED BY <1>10, <1>11, <1>12, <1>13

LEMMA ElemsOfWithout ==
  ASSUME NEW S, NEW q \in Seq(S), NEW k \in DOMAIN q
  PROVE  /\ Without(q, k) \in Seq(S) /\ q[k] \in S
         /\ Elems(q) = Elems(Without(q, k)) \cup {q[k]}
         /\ Distinct(q) => Distinct(Without(q, k)) /\ q[k] \notin Elems(Without(q, k))
<1> DEFINE w == Without(q, k)
           up(j) == IF j < k THEN j ELSE j + 1
           down(i) == IF i < k THEN i ELSE i - 1
<1>0. /\ w \in Seq(S) /\ k \in Nat /\ DOMAIN q \subseteq Nat
      /\ \A j \in DOMAIN w : up(j) \in DOMAIN q \ {k} /\ w[j] = q[up(j)]
      /\ \A i \in DOMAIN q \ {k} : down(i) \in DOMAIN w /\ w[down(i)] = q[i]
  BY WithoutPlaces
<1> HIDE DEF w, down
<1>1. /\ w \in Seq(S) /\ k \in Nat /\ DOMAIN q \subseteq Nat
      /\ \A j \in DOMAIN w : up(j) \in DOMAIN q \ {k} /\ w[j] = q[up(j)]
      /\ \A i \in DOMAIN q \ {k} : \E j \in DOMAIN w : w[j] = q[i]
  BY <1>0
<1>2. DOMAIN w \subseteq Nat
  BY <1>1, LenProperties
<1>3. \A i, j \in Nat : up(i) = up(j) => i = j
  BY <1>1
<1> HIDE DEF up
<1>4. Elems(q) = Elems(w) \cup {q[k]}
  <2>1. Elems(w) \subseteq Elems(q)
    BY <1>1 DEF Elems
  <2>2. q[k] \in Elems(q)
    BY DEF Elems
  <2>3. ASSUME NEW i \in DOMAIN q PROVE q[i] \in Elems(w) \cup {q[k]}
    BY <1>1 DEF Elems
  <2>4. Elems(q) \subseteq Elems(w) \cup {q[k]}
    BY <2>3 DEF Elems
  <2> QED BY <2>1, <2>2, <2>4
<1>5. ASSUME Distinct(q) PROVE Distinct(w) /\ q[k] \notin Elems(w)
  <2>1. ASSUME NEW i \in DOMAIN w, NEW j \in DOMAIN w, w[i] = w[j] PROVE i = j
    <3>1. up(i) = up(j)
      BY <1>1, <1>5, <2>1 DEF Distinct
    <3> QED BY <1>2, <1>3, <3>1
  <2>2. \A j \in DOMAIN w : w[j] # q[k]
    BY <1>1, <1>5 DEF Distinct
  <2> QED BY <2>1, <2>2 DEF Distinct, Elems
<1>6. q[k] \in S
  BY LenProperties, ElementOfSeq
<1> QED BY <1>1, <1>4, <1>5, <1>6 DEF w
-----------------------------------------------------------------------------
(* Rows of a topic, counted.                                                 *)

LEMMA RowsFinite ==
  ASSUME NEW q \in Seq(Row), NEW t
  PROVE  /\ IsFiniteSet(RowsOf(q, t)) /\ Cardinality(RowsOf(q, t)) \in Nat
         /\ RowsOf(q, t) \subseteq Nat /\ RowsOf(q, t) \subseteq DOMAIN q
         /\ RowsOf(q, t) = {} => Cardinality(RowsOf(q, t)) = 0
<1>1. Len(q) \in Nat /\ DOMAIN q = 1..Len(q)
  BY LenProperties
<1>2. IsFiniteSet(1..Len(q))
  <2>1. 1 \in Int /\ Len(q) \in Int
    BY <1>1
  <2> QED BY ONLY <2>1, FS_Interval
<1>3. RowsOf(q, t) \in SUBSET (1..Len(q))
  BY <1>1 DEF RowsOf
<1>4. IsFiniteSet(RowsOf(q, t))
  BY <1>2, <1>3, FS_Subset
<1> QED BY <1>1, <1>3, <1>4, FS_CardinalityType, FS_EmptySet

\* A set that is reached from another one has no more elements.
LEMMA NoMore ==
  ASSUME NEW S, NEW T, NEW f \in [S -> T], IsFiniteSet(S), \A y \in T : \E x \in S : f[x] = y
  PROVE  Cardinality(T) <= Cardinality(S)
<1>1. f \in Surjection(S, T)
  BY DEF Surjection
<1> QED BY <1>1, FS_Surjection

\* A bounded set of numbers has a last one.
LEMMA LastOne ==
  ASSUME NEW b \in Nat, NEW S \in SUBSET (1..b), S # {}
  PROVE  \E x \in S : \A j \in S : j <= x
<1>1. \A j \in S : j \in Nat /\ j <= b
  OBVIOUS
<1> DEFINE T == {b - j : j \in S}
<1>2. T \subseteq Nat /\ T # {}
  <2>1. \A j \in S : b - j \in Nat
    BY <1>1
  <2> QED BY <2>1
<1> HIDE DEF T
<1>3. PICK m \in T : \A y \in T : m <= y
  <2> DEFINE less == {ss \in Nat \X Nat : ss[1] < ss[2]}
  <2>1. IsWellFoundedOn(less, Nat)
    BY NatLessThanWellFounded DEF OpToRel
  <2>2. \A x, y \in Nat : <<y, x>> \in less <=> y < x
    OBVIOUS
  <2> HIDE DEF less
  <2>3. PICK m \in T : \A y \in T : <<y, m>> \notin less
    BY <1>2, <2>1, WFMin
  <2>4. \A y \in T : m \in Nat /\ y \in Nat /\ ~(y < m)
    BY <1>2, <2>2, <2>3
  <2>5. \A y \in T : m <= y
    BY <2>4
  <2> QED BY <2>3, <2>5
<1>4. PICK x \in S : m = b - x
  BY <1>3 DEF T
<1>5. \A j \in S : b - x <= b - j
  BY <1>3, <1>4 DEF T
<1>6. \A j \in S : j <= x
  BY <1>1, <1>4, <1>5
<1> QED BY <1>4, <1>6

LEMMA CountTail ==
  ASSUME NEW q \in Seq(Row), NEW t, q # << >>
  PROVE  Cardinality(RowsOf(Tail(q), t)) + One(Head(q).t = t) <= Cardinality(RowsOf(q, t))
<1> DEFINE A == RowsOf(q, t) \ {1}
           B == RowsOf(Tail(q), t)
           f == [k \in A |-> k - 1]
<1>1. /\ Tail(q) \in Seq(Row) /\ Head(q) = q[1] /\ Len(Tail(q)) = Len(q) - 1
      /\ \A i \in 1..Len(Tail(q)) : Tail(q)[i] = q[i + 1]
  BY HeadTailProperties
<1>2. /\ Len(q) \in Nat /\ DOMAIN q = 1..Len(q) /\ Len(q) # 0
      /\ DOMAIN Tail(q) = 1..(Len(q) - 1)
  BY <1>1, LenProperties, EmptySeq
<1>3. /\ IsFiniteSet(RowsOf(q, t)) /\ Cardinality(RowsOf(q, t)) \in Nat
      /\ IsFiniteSet(A) /\ Cardinality(B) \in Nat
      /\ Cardinality(A) = IF 1 \in RowsOf(q, t) THEN Cardinality(RowsOf(q, t)) - 1
                          ELSE Cardinality(RowsOf(q, t))
  BY <1>1, RowsFinite, FS_RemoveElement
<1>4. f \in [A -> B]
  <2>1. ASSUME NEW k \in A PROVE k - 1 \in B
    <3>1. k \in 1..Len(q) /\ k # 1 /\ q[k].t = t
      BY <1>2 DEF RowsOf
    <3>2. k - 1 \in 1..(Len(q) - 1) /\ (k - 1) + 1 = k
      BY <1>2, <3>1
    <3>3. Tail(q)[k - 1] = q[k]
      BY <1>1, <3>2
    <3> QED BY <1>2, <3>1, <3>2, <3>3 DEF RowsOf
  <2> QED BY <2>1
<1>5. \A y \in B : \E x \in A : f[x] = y
  <2>1. ASSUME NEW y \in B PROVE y + 1 \in A /\ f[y + 1] = y
    <3>1. y \in 1..(Len(q) - 1) /\ Tail(q)[y].t = t
      BY <1>2 DEF RowsOf
    <3>2. y + 1 \in 1..Len(q) /\ y + 1 # 1 /\ Tail(q)[y] = q[y + 1] /\ (y + 1) - 1 = y
      BY <1>1, <1>2, <3>1
    <3>3. y + 1 \in A
      BY <1>2, <3>1, <3>2 DEF RowsOf
    <3> QED BY <3>2, <3>3
  <2> QED BY <2>1
<1>6. Cardinality(B) <= Cardinality(A)
  <2> HIDE DEF A, B, f
  <2> QED BY <1>3, <1>4, <1>5, NoMore
<1>7. 1 \in RowsOf(q, t) <=> Head(q).t = t
  BY <1>1, <1>2 DEF RowsOf
<1> QED
  <2> HIDE DEF A, B
  <2>1. CASE Head(q).t = t
    BY <1>3, <1>6, <1>7, <2>1 DEF One, B
  <2>2. CASE Head(q).t # t
    BY <1>3, <1>6, <1>7, <2>2 DEF One, B
  <2> QED BY <2>1, <2>2

LEMMA CountAppend ==
  ASSUME NEW q \in Seq(Row), NEW x \in Row, NEW t
  PROVE  Cardinality(RowsOf(Append(q, x), t)) <= Cardinality(RowsOf(q, t)) + One(x.t = t)
<1>1. /\ Append(q, x) \in Seq(Row) /\ Len(Append(q, x)) = Len(q) + 1
      /\ \A i \in 1..Len(q) : Append(q, x)[i] = q[i]
      /\ Append(q, x)[Len(q) + 1] = x
  BY AppendProperties
<1>2. Len(q) \in Nat /\ DOMAIN q = 1..Len(q) /\ DOMAIN Append(q, x) = 1..(Len(q) + 1)
  BY <1>1, LenProperties
<1>3. /\ IsFiniteSet(RowsOf(q, t)) /\ Cardinality(RowsOf(q, t)) \in Nat
      /\ RowsOf(q, t) \subseteq 1..Len(q)
  BY <1>2, RowsFinite
<1>4. CASE x.t = t
  <2>1. RowsOf(Append(q, x), t) = RowsOf(q, t) \cup {Len(q) + 1}
    BY <1>1, <1>2, <1>4 DEF RowsOf
  <2>2. Len(q) + 1 \notin RowsOf(q, t)
    BY <1>2, <1>3
  <2>3. Cardinality(RowsOf(Append(q, x), t)) = Cardinality(RowsOf(q, t)) + 1
    BY <1>3, <2>1, <2>2, FS_AddElement
  <2> QED BY <1>3, <1>4, <2>3 DEF One
<1>5. CASE x.t # t
  <2>1. RowsOf(Append(q, x), t) = RowsOf(q, t)
    BY <1>1, <1>2, <1>5 DEF RowsOf
  <2> QED BY <1>3, <1>5, <2>1 DEF One
<1> QED BY <1>4, <1>5

LEMMA CountWithout ==
  ASSUME NEW q \in Seq(Row), NEW k \in DOMAIN q, NEW t
  PROVE  Cardinality(RowsOf(Without(q, k), t)) + One(q[k].t = t) <= Cardinality(RowsOf(q, t))
<1> DEFINE A == RowsOf(q, t) \ {k}
           B == RowsOf(Without(q, k), t)
           up(j) == IF j < k THEN j ELSE j + 1
           down(i) == IF i < k THEN i ELSE i - 1
           f == [i \in A |-> down(i)]
<1>1. /\ Without(q, k) \in Seq(Row) /\ k \in Nat /\ DOMAIN q \subseteq Nat
      /\ \A j \in DOMAIN Without(q, k) : up(j) \in DOMAIN q \ {k} /\ Without(q, k)[j] = q[up(j)]
      /\ \A i \in DOMAIN q \ {k} : down(i) \in DOMAIN Without(q, k) /\ Without(q, k)[down(i)] = q[i]
  BY WithoutPlaces
<1>2. /\ IsFiniteSet(RowsOf(q, t)) /\ Cardinality(RowsOf(q, t)) \in Nat
      /\ IsFiniteSet(A) /\ Cardinality(B) \in Nat
      /\ Cardinality(A) = IF k \in RowsOf(q, t) THEN Cardinality(RowsOf(q, t)) - 1
                          ELSE Cardinality(RowsOf(q, t))
  BY <1>1, RowsFinite, FS_RemoveElement
<1>3. \A j \in Nat : down(up(j)) = j
  BY <1>1
<1>4. DOMAIN Without(q, k) \subseteq Nat
  BY <1>1, LenProperties
<1> HIDE DEF up, down
<1>5. f \in [A -> B]
  <2>1. ASSUME NEW i \in A PROVE down(i) \in B
    BY <1>1 DEF RowsOf
  <2> QED BY <2>1
<1>6. \A y \in B : \E x \in A : f[x] = y
  <2>1. ASSUME NEW y \in B PROVE up(y) \in A /\ f[up(y)] = y
    <3>1. y \in DOMAIN Without(q, k) /\ Without(q, k)[y].t = t
      BY DEF RowsOf
    <3>2. up(y) \in A
      BY <1>1, <3>1 DEF RowsOf
    <3> QED BY <1>3, <1>4, <3>1, <3>2
  <2> QED BY <2>1
<1>7. Cardinality(B) <= Cardinality(A)
  <2> HIDE DEF A, B, f
  <2> QED BY <1>2, <1>5, <1>6, NoMore
<1>8. k \in RowsOf(q, t) <=> q[k].t = t
  BY DEF RowsOf
<1> QED
  <2> HIDE DEF A
  <2>1. CASE q[k].t = t
    BY <1>2, <1>7, <1>8, <2>1 DEF One
  <2>2. CASE q[k].t # t
    BY <1>2, <1>7, <1>8, <2>2 DEF One
  <2> QED BY <2>1, <2>2

\* A row, or none, is put before the others.
LEMMA BeforeRows ==
  ASSUME NEW q \in Seq(Row), NEW j \in JobRow, NoJob \notin Row
  PROVE  /\ RowOf(j) \o q \in Seq(Row)
         /\ Elems(RowOf(j) \o q) = Elems(q) \cup (IF j = NoJob THEN {} ELSE {j})
         /\ Distinct(q) /\ j \notin Elems(q) => Distinct(RowOf(j) \o q)
         /\ \A t \in Topics : Cardinality(RowsOf(RowOf(j) \o q, t))
                              <= Cardinality(RowsOf(q, t)) + One(j.t = t)
<1>1. CASE j = NoJob
  <2>1. RowOf(j) = << >> /\ << >> \o q = q
    BY <1>1, ConcatEmptySeq DEF RowOf
  <2>2. \A t \in Topics : Cardinality(RowsOf(q, t)) \in Nat
    BY RowsFinite
  <2>3. \A t \in Topics : One(j.t = t) \in Nat
    BY DEF One
  <2>4. \A t \in Topics : Cardinality(RowsOf(q, t)) <= Cardinality(RowsOf(q, t)) + One(j.t = t)
    BY <2>2, <2>3
  <2>5. Elems(q) = Elems(q) \cup (IF j = NoJob THEN {} ELSE {j})
    BY <1>1
  <2> QED BY <2>1, <2>4, <2>5
<1>2. CASE j # NoJob
  <2>1. j \in Row /\ RowOf(j) = <<j>> /\ <<j>> \in Seq(Row)
    BY <1>2 DEF RowOf, JobRow
  <2>2. Len(<<j>>) = 1 /\ <<j>>[1] = j /\ DOMAIN <<j>> = {1}
    BY <2>1
  <2>3. Elems(<<j>>) = {j} /\ Distinct(<<j>>)
    BY <2>2 DEF Elems, Distinct
  <2>4. /\ RowOf(j) \o q \in Seq(Row)
        /\ Elems(RowOf(j) \o q) = Elems(q) \cup {j}
        /\ Distinct(q) /\ j \notin Elems(q) => Distinct(RowOf(j) \o q)
    <3>1. /\ <<j>> \o q \in Seq(Row) /\ Elems(<<j>> \o q) = Elems(<<j>>) \cup Elems(q)
          /\ Distinct(<<j>>) /\ Distinct(q) /\ Elems(<<j>>) \cap Elems(q) = {} => Distinct(<<j>> \o q)
      BY <2>1, ElemsOfConcat
    <3>2. j \notin Elems(q) => Elems(<<j>>) \cap Elems(q) = {}
      BY <2>3
    <3> QED BY <2>1, <2>3, <3>1, <3>2
  <2>5. ASSUME NEW t \in Topics
        PROVE Cardinality(RowsOf(RowOf(j) \o q, t)) <= Cardinality(RowsOf(q, t)) + One(j.t = t)
    <3> DEFINE w == <<j>> \o q
               A == RowsOf(q, t)
               B == RowsOf(w, t) \ {1}
               f == [k \in A |-> k + 1]
    <3>1. /\ w \in Seq(Row) /\ Len(w) = 1 + Len(q)
          /\ \A i \in 1..(1 + Len(q)) : w[i] = IF i <= 1 THEN j ELSE q[i - 1]
      <4>1. /\ w \in Seq(Row) /\ Len(w) = Len(<<j>>) + Len(q)
            /\ \A i \in 1..(Len(<<j>>) + Len(q)) : w[i] = IF i <= Len(<<j>>) THEN <<j>>[i] ELSE q[i - Len(<<j>>)]
        BY <2>1, ConcatProperties
      <4>2. Len(q) \in Nat
        BY LenProperties
      <4>3. ASSUME NEW i \in 1..(1 + Len(q)) PROVE w[i] = IF i <= 1 THEN j ELSE q[i - 1]
        <5>1. i <= 1 => i = 1
          BY <4>2
        <5> QED BY <2>2, <4>1, <5>1
      <4> QED BY <2>2, <4>1, <4>3
    <3> HIDE DEF w
    <3>2. Len(q) \in Nat /\ DOMAIN q = 1..Len(q) /\ DOMAIN w = 1..(1 + Len(q))
      BY <3>1, LenProperties
    <3>3. f \in [A -> B]
      <4>1. ASSUME NEW k \in A PROVE k + 1 \in B
        <5>1. k \in 1..Len(q) /\ q[k].t = t
          BY <3>2 DEF RowsOf
        <5>2. k + 1 \in 1..(1 + Len(q)) /\ ~(k + 1 <= 1) /\ (k + 1) - 1 = k /\ k + 1 # 1
          BY <3>2, <5>1
        <5>3. w[k + 1] = q[k]
          BY <3>1, <5>2
        <5> QED BY <3>2, <5>1, <5>2, <5>3 DEF RowsOf
      <4> QED BY <4>1
    <3>4. \A y \in B : \E x \in A : f[x] = y
      <4>1. ASSUME NEW y \in B PROVE y - 1 \in A /\ f[y - 1] = y
        <5>1. y \in 1..(1 + Len(q)) /\ y # 1 /\ w[y].t = t
          BY <3>2 DEF RowsOf
        <5>2. y - 1 \in 1..Len(q) /\ ~(y <= 1) /\ (y - 1) + 1 = y
          BY <3>2, <5>1
        <5>3. w[y] = q[y - 1]
          BY <3>1, <5>1, <5>2
        <5>4. y - 1 \in A
          BY <3>2, <5>1, <5>2, <5>3 DEF RowsOf
        <5> QED BY <5>2, <5>4
      <4> QED BY <4>1
    <3>5. /\ IsFiniteSet(A) /\ Cardinality(A) \in Nat /\ IsFiniteSet(RowsOf(w, t))
          /\ Cardinality(RowsOf(w, t)) \in Nat /\ IsFiniteSet(B)
          /\ Cardinality(B) = IF 1 \in RowsOf(w, t) THEN Cardinality(RowsOf(w, t)) - 1
                              ELSE Cardinality(RowsOf(w, t))
      BY <3>1, RowsFinite, FS_RemoveElement
    <3>6. Cardinality(B) <= Cardinality(A)
      <4> HIDE DEF A, B, f
      <4> QED BY <3>3, <3>4, <3>5, NoMore
    <3>7. 1 \in RowsOf(w, t) => j.t = t
      BY <3>1, <3>2 DEF RowsOf
    <3>8. Cardinality(RowsOf(w, t)) <= Cardinality(A) + One(j.t = t)
      <4> HIDE DEF A, B
      <4>1. CASE j.t = t
        BY <3>5, <3>6, <4>1 DEF One
      <4>2. CASE j.t # t
        BY <3>5, <3>6, <3>7, <4>2 DEF One
      <4> QED BY <4>1, <4>2
    <3> QED BY <2>1, <3>8 DEF w
  <2> QED BY <1>2, <2>4, <2>5
<1> QED BY <1>1, <1>2

\* QueueLivingTopicUnderstanding: the latest pending row of the topic takes the
\* request, or there is one more.
LEMMA QueuedRows ==
  ASSUME uq \in Seq(Row), NEW t \in Topics, NEW n \in Nat
  PROVE  /\ UQueued(t, n) \in Seq(Row)
         /\ \E k \in DOMAIN UQueued(t, n) : UQueued(t, n)[k].t = t
         /\ \A s \in Topics \ {t} :
              (\E k \in DOMAIN UQueued(t, n) : UQueued(t, n)[k].t = s) <=> UPending(s)
         /\ \A s \in Topics :
              \/ Cardinality(RowsOf(UQueued(t, n), s)) <= Cardinality(RowsOf(uq, s))
              \/ (s = t /\ Cardinality(RowsOf(UQueued(t, n), s)) <= 1)
<1> DEFINE row == [t |-> t, n |-> n]
           old == {k \in DOMAIN uq : uq[k].t = t}
           k == CHOOSE k \in old : \A j \in old : j <= k
           w == UQueued(t, n)
<1>1. row \in Row /\ row.t = t
  BY DEF Row
<1>2. w = IF old = {} THEN Append(uq, row) ELSE Append(Without(uq, k), row)
  BY DEF UQueued
<1>3. old = RowsOf(uq, t)
  BY DEF RowsOf
<1>4. \A s : UPending(s) <=> \E r \in Elems(uq) : r.t = s
  BY DEF UPending, Elems
<1>5. \A s : (\E i \in DOMAIN w : w[i].t = s) <=> \E r \in Elems(w) : r.t = s
  BY DEF Elems
<1> HIDE DEF row, w, old, k
<1>6. CASE old = {}
  <2>1. w = Append(uq, row) /\ w \in Seq(Row) /\ Elems(w) = Elems(uq) \cup {row}
    BY <1>1, <1>2, <1>6, ElemsOfAppend
  <2>2. \A s \in Topics : /\ Cardinality(RowsOf(w, s)) <= Cardinality(RowsOf(uq, s)) + One(row.t = s)
                           /\ Cardinality(RowsOf(uq, s)) \in Nat
    BY <1>1, <2>1, CountAppend, RowsFinite
  <2>3. Cardinality(RowsOf(uq, t)) = 0
    BY <1>3, <1>6, RowsFinite
  <2>4. ASSUME NEW s \in Topics
        PROVE  \/ Cardinality(RowsOf(w, s)) <= Cardinality(RowsOf(uq, s))
               \/ (s = t /\ Cardinality(RowsOf(w, s)) <= 1)
    <3>1. Cardinality(RowsOf(w, s)) \in Nat
      BY <2>1, RowsFinite
    <3>2. CASE s = t
      BY <1>1, <2>2, <2>3, <3>1, <3>2 DEF One
    <3>3. CASE s # t
      BY <1>1, <2>2, <3>1, <3>3 DEF One
    <3> QED BY <3>2, <3>3
  <2>5. \E r \in Elems(w) : r.t = t
    BY <1>1, <2>1
  <2>6. \A s \in Topics \ {t} : (\E r \in Elems(w) : r.t = s) <=> \E r \in Elems(uq) : r.t = s
    BY <1>1, <2>1
  <2> QED BY <1>4, <1>5, <2>1, <2>4, <2>5, <2>6 DEF w
<1>7. CASE old # {}
  <2>0. Len(uq) \in Nat /\ DOMAIN uq = 1..Len(uq) /\ old \subseteq 1..Len(uq)
    BY <1>3, RowsFinite, LenProperties
  <2>1. k \in old /\ k \in DOMAIN uq /\ uq[k].t = t
    <3>1. \E x \in old : \A j \in old : j <= x
      BY <1>7, <2>0, LastOne
    <3>2. k \in old
      BY <3>1 DEF k
    <3> QED BY <2>0, <3>2 DEF old
  <2> DEFINE v == Without(uq, k)
  <2>2. v \in Seq(Row) /\ Elems(uq) = Elems(v) \cup {uq[k]}
    BY <2>1, ElemsOfWithout
  <2>3. \A s \in Topics : /\ Cardinality(RowsOf(v, s)) + One(uq[k].t = s) <= Cardinality(RowsOf(uq, s))
                           /\ Cardinality(RowsOf(uq, s)) \in Nat /\ Cardinality(RowsOf(v, s)) \in Nat
    BY <2>1, <2>2, CountWithout, RowsFinite
  <2> HIDE DEF v
  <2>4. w = Append(v, row) /\ w \in Seq(Row) /\ Elems(w) = Elems(v) \cup {row}
    BY <1>1, <1>2, <1>7, <2>2, ElemsOfAppend DEF v
  <2>5. \A s \in Topics : /\ Cardinality(RowsOf(w, s)) <= Cardinality(RowsOf(v, s)) + One(row.t = s)
                           /\ Cardinality(RowsOf(w, s)) \in Nat
    BY <1>1, <2>2, <2>4, CountAppend, RowsFinite
  <2>6. ASSUME NEW s \in Topics
        PROVE  Cardinality(RowsOf(w, s)) <= Cardinality(RowsOf(uq, s))
    <3>1. CASE s = t
      BY <1>1, <2>1, <2>3, <2>5, <3>1 DEF One
    <3>2. CASE s # t
      BY <1>1, <2>1, <2>3, <2>5, <3>2 DEF One
    <3> QED BY <3>1, <3>2
  <2>7. \E r \in Elems(w) : r.t = t
    BY <1>1, <2>4
  <2>8. \A s \in Topics \ {t} : (\E r \in Elems(w) : r.t = s) <=> \E r \in Elems(uq) : r.t = s
    BY <1>1, <2>1, <2>2, <2>4
  <2> QED BY <1>4, <1>5, <2>4, <2>6, <2>7, <2>8 DEF w
<1> QED BY <1>6, <1>7

-----------------------------------------------------------------------------
(* What a step that leaves the parts alone keeps.                            *)

\* No row is no row of a topic.
LEMMA NoRow ==
  /\ NoJob \notin Row /\ \A t \in Topics : NoJob.t # t
  /\ \A t \in Topics, n \in Nat : [t |-> t, n |-> n] \in Row
  /\ \A t, n : [t |-> t, n |-> n] = NoJob => t = "none"
BY TopicAssumption DEF NoJob, Row

LEMMA CountKept ==
  ASSUME CountInv, UNCHANGED <<uq, urun>>, orphan'["u"] = orphan["u"]
  PROVE  CountInv'
BY DEF CountInv, RowsOf, One

LEMMA OnceKept ==
  ASSUME OnceInv, UNCHANGED <<aq, arun>>, orphan'["a"] = orphan["a"]
  PROVE  OnceInv'
BY DEF OnceInv, Distinct, Elems

LEMMA StatusKept ==
  ASSUME StatusHonest, UNCHANGED <<uq, urun>>, orphan'["u"] = orphan["u"],
         \A t \in Topics : topic'[t].ustatus = topic[t].ustatus
  PROVE  StatusHonest'
BY DEF StatusHonest, UPending

LEMMA HeldKept ==
  ASSUME HeldInv, UNCHANGED <<member, lib, gone>>,
         worker'["r"].pc = "insert" => worker["r"].pc = "insert" /\ worker'["r"].seen = worker["r"].seen
  PROVE  HeldInv'
BY DEF HeldInv

LEMMA RouteKept ==
  ASSUME RouteInv, UNCHANGED <<aq, arun>>, orphan'["a"] = orphan["a"],
         \A t \in Topics :
           \/ Awaited(t)' \/ t \in stuck'
           \/ /\ topic'[t].rev = topic[t].rev /\ topic'[t].rstatus = topic[t].rstatus
              /\ ~Awaited(t) /\ t \notin stuck
  PROVE  RouteInv'
<1> SUFFICES ASSUME NEW t \in Topics
             PROVE  \/ Awaited(t)' \/ t \in stuck'
                    \/ (topic'[t].rstatus \in {"pending", "running"} <=> ABacked(t)')
  BY DEF RouteInv
<1>1. CASE /\ topic'[t].rev = topic[t].rev /\ topic'[t].rstatus = topic[t].rstatus
           /\ ~Awaited(t) /\ t \notin stuck
  <2>1. topic[t].rstatus \in {"pending", "running"} <=> ABacked(t)
    BY <1>1 DEF RouteInv
  <2>2. ABacked(t)' = ABacked(t)
    BY <1>1 DEF ABacked, AJob
  <2> QED BY <1>1, <2>1, <2>2
<1> QED BY <1>1

\* Owed or lost.
Due(t) == t \in Owed \cup lost

LEMMA SeenKept ==
  ASSUME UnderstandingCatchesUp, SeenInv, urun \in JobRow, UNCHANGED <<uq, urun>>,
         worker["u"].pc \in {"ask", "save", "done"} => urun # NoJob,
         worker'["u"].pc \in {"ask", "save", "done"} =>
           \/ worker'["u"].seen = Digest(urun.t)'
           \/ worker["u"].pc \in {"ask", "save", "done"} /\ worker'["u"].seen = worker["u"].seen,
         \A t \in Topics :
           \/ Due(t)'
           \/ /\ topic'[t].ustatus = topic[t].ustatus /\ topic'[t].udigest = topic[t].udigest
              /\ Digest(t)' = Digest(t) /\ ~Due(t)
  PROVE  UnderstandingCatchesUp' /\ SeenInv'
<1>1. UnderstandingCatchesUp'
  BY DEF UnderstandingCatchesUp, Due
<1>2. SeenInv'
  <2> SUFFICES ASSUME worker'["u"].pc \in {"ask", "save", "done"}
               PROVE  \/ worker'["u"].seen = Digest(urun.t)'
                      \/ UPending(urun.t)' \/ Due(urun.t)'
    BY DEF SeenInv, Due
  <2>1. urun' = urun
    OBVIOUS
  <2>2. CASE worker'["u"].seen = Digest(urun.t)'
    BY <2>2
  <2>3. CASE worker["u"].pc \in {"ask", "save", "done"} /\ worker'["u"].seen = worker["u"].seen
    <3>1. urun.t \in Topics
      BY <2>3 DEF JobRow, Row
    <3>2. \/ worker["u"].seen = Digest(urun.t) \/ UPending(urun.t) \/ Due(urun.t)
      BY <2>3 DEF SeenInv, Due
    <3>3. UPending(urun.t)' <=> UPending(urun.t)
      BY <2>1 DEF UPending
    <3>4. CASE Due(urun.t)'
      BY <3>4
    <3>5. CASE Digest(urun.t)' = Digest(urun.t) /\ ~Due(urun.t)
      BY <2>3, <3>2, <3>3, <3>5
    <3> QED BY <3>1, <3>4, <3>5
  <2> QED BY <2>2, <2>3
<1> QED BY <1>1, <1>2

-----------------------------------------------------------------------------
(* The calls still to come.                                                  *)

CallOwes(x, t) == (x.op = "uqueue" /\ x.t = t) \/ (x.op = "uqueues" /\ t \in x.topics)
Owing(s) == {t \in Topics : \E x \in Elems(s) : CallOwes(x, t)}
AwaitsAt(x, t, r) ==
  (x.op = "aread" /\ x.t = t) \/ (x.op \in {"ainsert", "astatus"} /\ x.t = t /\ x.n = r)
Awaiting(s, t, r) == \E x \in Elems(s) : AwaitsAt(x, t, r)
Threads == [Clients -> Seq(Call)]

LEMMA OwedIn ==
  ASSUME NEW s \in Seq(Call)
  PROVE  UNION {LET x == s[k] IN
                CASE x.op = "uqueue" -> {x.t} [] x.op = "uqueues" -> x.topics [] OTHER -> {}
                : k \in DOMAIN s} = Owing(s)
<1> DEFINE of(x) == CASE x.op = "uqueue" -> {x.t} [] x.op = "uqueues" -> x.topics [] OTHER -> {}
<1>1. \A x \in Elems(s) : x \in Call
  BY LenProperties, ElementOfSeq DEF Elems
<1>2. ASSUME NEW x \in Call PROVE of(x) = {t \in Topics : CallOwes(x, t)}
  BY DEF Call, CallOwes
<1> HIDE DEF of
<1>3. UNION {of(s[k]) : k \in DOMAIN s} = UNION {of(x) : x \in Elems(s)}
  BY DEF Elems
<1>4. UNION {of(x) : x \in Elems(s)} = Owing(s)
  BY <1>1, <1>2 DEF Owing
<1> QED BY <1>3, <1>4 DEF of

LEMMA OwedNow ==
  ASSUME thread \in Threads
  PROVE  \A t \in Topics : t \in Owed <=> t \in OwedByRouting \/ \E c \in Clients : t \in Owing(thread[c])
<1>1. \A c \in Clients : OwedBy(c) = Owing(thread[c])
  BY OwedIn DEF OwedBy, Threads
<1> QED BY <1>1 DEF Owed

LEMMA OwedNext ==
  ASSUME thread' \in Threads
  PROVE  \A t \in Topics : t \in Owed' <=> t \in OwedByRouting' \/ \E c \in Clients : t \in Owing(thread'[c])
<1>1. \A c \in Clients : OwedBy(c)' = Owing(thread'[c])
  BY OwedIn DEF OwedBy, Threads
<1> QED BY <1>1 DEF Owed

LEMMA AwaitedNow ==
  /\ \A t \in Topics : Awaited(t) <=> \E c \in Clients : Awaiting(thread[c], t, topic[t].rev)
  /\ \A t \in Topics : Awaited(t)' <=> \E c \in Clients : Awaiting(thread'[c], t, topic'[t].rev)
BY DEF Awaited, Awaits, Awaiting, AwaitsAt

LEMMA NoCalls ==
  /\ << >> \in Seq(Call) /\ Elems(<< >>) = {} /\ Owing(<< >>) = {}
  /\ \A t, r : ~Awaiting(<< >>, t, r)
BY DEF Elems, Owing, Awaiting

LEMMA CallsOf ==
  ASSUME NEW x \in Call
  PROVE  /\ <<x>> \in Seq(Call) /\ Elems(<<x>>) = {x}
         /\ Owing(<<x>>) = {t \in Topics : CallOwes(x, t)}
         /\ \A t, r : Awaiting(<<x>>, t, r) <=> AwaitsAt(x, t, r)
<1>1. <<x>> \in Seq(Call) /\ DOMAIN <<x>> = {1} /\ <<x>>[1] = x
  OBVIOUS
<1>2. Elems(<<x>>) = {x}
  BY <1>1 DEF Elems
<1> QED BY <1>1, <1>2 DEF Owing, Awaiting

LEMMA CallsConcat ==
  ASSUME NEW a \in Seq(Call), NEW b \in Seq(Call)
  PROVE  /\ a \o b \in Seq(Call) /\ Owing(a \o b) = Owing(a) \cup Owing(b)
         /\ \A t, r : Awaiting(a \o b, t, r) <=> Awaiting(a, t, r) \/ Awaiting(b, t, r)
<1>1. a \o b \in Seq(Call) /\ Elems(a \o b) = Elems(a) \cup Elems(b)
  BY ElemsOfConcat
<1> QED BY <1>1 DEF Owing, Awaiting

LEMMA FirstCall ==
  ASSUME NEW s \in Seq(Call), s # << >>
  PROVE  /\ Head(s) \in Call /\ Tail(s) \in Seq(Call)
         /\ Owing(s) = {t \in Topics : CallOwes(Head(s), t)} \cup Owing(Tail(s))
         /\ \A t, r : Awaiting(s, t, r) <=> AwaitsAt(Head(s), t, r) \/ Awaiting(Tail(s), t, r)
<1>1. Head(s) \in Call /\ Tail(s) \in Seq(Call) /\ Elems(s) = Elems(Tail(s)) \cup {Head(s)}
  BY ElemsOfTail
<1> QED BY <1>1 DEF Owing, Awaiting

LEMMA UnderstandCalls ==
  ASSUME NEW t \in Topics, NEW forced \in BOOLEAN
  PROVE  /\ Understand(t, forced) \in Seq(Call) /\ Owing(Understand(t, forced)) = {t}
         /\ \A s, r : ~Awaiting(Understand(t, forced), s, r)
<1> DEFINE x == [op |-> "uqueue", t |-> t, n |-> IF forced THEN 1 ELSE 0]
           y == [op |-> "ulaunch"]
<1>1. x \in Call /\ y \in Call
  BY DEF Call
<1>2. /\ \A s \in Topics : CallOwes(x, s) <=> s = t
      /\ \A s : ~CallOwes(y, s)
      /\ \A s, r : ~AwaitsAt(x, s, r) /\ ~AwaitsAt(y, s, r)
  BY DEF CallOwes, AwaitsAt
<1>3. Understand(t, forced) = <<x>> \o <<y>>
  BY DEF Understand
<1> HIDE DEF x, y
<1>4. <<x>> \in Seq(Call) /\ <<y>> \in Seq(Call)
  BY <1>1, CallsOf
<1>5. /\ <<x>> \o <<y>> \in Seq(Call) /\ Owing(<<x>> \o <<y>>) = Owing(<<x>>) \cup Owing(<<y>>)
      /\ \A s, r : Awaiting(<<x>> \o <<y>>, s, r) <=> Awaiting(<<x>>, s, r) \/ Awaiting(<<y>>, s, r)
  BY <1>4, CallsConcat
<1>6. Owing(<<x>>) = {s \in Topics : CallOwes(x, s)} /\ Owing(<<y>>) = {s \in Topics : CallOwes(y, s)}
  BY <1>1, CallsOf
<1>7. Owing(<<x>>) = {t} /\ Owing(<<y>>) = {}
  BY <1>2, <1>6
<1>8. \A s, r : ~Awaiting(<<x>>, s, r) /\ ~Awaiting(<<y>>, s, r)
  BY <1>1, <1>2, CallsOf
<1> QED BY <1>3, <1>5, <1>7, <1>8

LEMMA ActivateCalls ==
  ASSUME NEW t \in Topics
  PROVE  /\ Activate(t) \in Seq(Call) /\ Owing(Activate(t)) = {}
         /\ \A r : Awaiting(Activate(t), t, r)
<1> DEFINE x == [op |-> "aread", t |-> t]
           y == [op |-> "alaunch"]
<1>1. x \in Call /\ y \in Call
  BY DEF Call
<1>2. (\A s : ~CallOwes(x, s) /\ ~CallOwes(y, s)) /\ \A r : AwaitsAt(x, t, r)
  BY DEF CallOwes, AwaitsAt
<1>3. Activate(t) = <<x>> \o <<y>>
  BY DEF Activate
<1> HIDE DEF x, y
<1>4. <<x>> \in Seq(Call) /\ <<y>> \in Seq(Call)
  BY <1>1, CallsOf
<1>5. /\ <<x>> \o <<y>> \in Seq(Call) /\ Owing(<<x>> \o <<y>>) = Owing(<<x>>) \cup Owing(<<y>>)
      /\ \A s, r : Awaiting(<<x>> \o <<y>>, s, r) <=> Awaiting(<<x>>, s, r) \/ Awaiting(<<y>>, s, r)
  BY <1>4, CallsConcat
<1>6. Owing(<<x>>) = {} /\ Owing(<<y>>) = {} /\ \A r : Awaiting(<<x>>, t, r)
  BY <1>1, <1>2, CallsOf
<1> QED BY <1>3, <1>5, <1>6

\* One request goes on: the calls of the others stay.
LEMMA OneThread ==
  ASSUME thread \in Threads, NEW c \in Clients, NEW calls \in Seq(Call), Owes(c, calls)
  PROVE  /\ thread' \in Threads /\ thread'[c] = calls
         /\ \A d \in Clients \ {c} : thread'[d] = thread[d]
BY DEF Threads, Owes

-----------------------------------------------------------------------------
(* Requests and calls.                                                       *)

\* The rest of what a call leaves is owed and awaited as before.
LEMMA GoingOn ==
  ASSUME thread \in Threads, NEW c \in Clients, NEW calls \in Seq(Call), Owes(c, calls),
         OwedByRouting \subseteq OwedByRouting'
  PROVE  /\ \A t \in Owing(calls) : t \in Owed'
         /\ \A t \in Topics : t \in Owed /\ (t \in Owing(thread[c]) => t \in Owing(calls)) => t \in Owed'
         /\ \A t \in Topics : Awaiting(calls, t, topic'[t].rev) => Awaited(t)'
         /\ \A t \in Topics :
              Awaited(t) /\ topic'[t].rev = topic[t].rev
              /\ (Awaiting(thread[c], t, topic[t].rev) => Awaiting(calls, t, topic[t].rev)) => Awaited(t)'
<1>1. /\ thread' \in Threads /\ thread'[c] = calls
      /\ \A d \in Clients \ {c} : thread'[d] = thread[d]
  BY OneThread
<1>2. Owing(calls) \subseteq Topics
  BY DEF Owing
<1>3. \A t \in Topics : t \in Owed <=> t \in OwedByRouting \/ \E d \in Clients : t \in Owing(thread[d])
  BY OwedNow
<1>4. \A t \in Topics : t \in Owed' <=> t \in OwedByRouting' \/ \E d \in Clients : t \in Owing(thread'[d])
  BY <1>1, OwedNext
<1>5. \A t \in Owing(calls) : t \in Owed'
  BY <1>1, <1>2, <1>4
<1>6. ASSUME NEW t \in Topics, t \in Owed, t \in Owing(thread[c]) => t \in Owing(calls)
      PROVE  t \in Owed'
  <2>1. CASE t \in OwedByRouting
    BY <1>4, <2>1
  <2>2. ASSUME NEW d \in Clients, t \in Owing(thread[d]) PROVE t \in Owed'
    <3>1. t \in Owing(thread'[d])
      BY <1>1, <1>6, <2>2
    <3> QED BY <1>4, <3>1
  <2> QED BY <1>3, <1>6, <2>1, <2>2
<1>7. \A t \in Topics : Awaiting(calls, t, topic'[t].rev) => Awaited(t)'
  BY <1>1, AwaitedNow
<1>8. ASSUME NEW t \in Topics, Awaited(t), topic'[t].rev = topic[t].rev,
             Awaiting(thread[c], t, topic[t].rev) => Awaiting(calls, t, topic[t].rev)
      PROVE  Awaited(t)'
  <2>1. PICK d \in Clients : Awaiting(thread[d], t, topic[t].rev)
    BY <1>8, AwaitedNow
  <2>2. Awaiting(thread'[d], t, topic[t].rev)
    BY <1>1, <1>8, <2>1
  <2>3. Awaiting(thread'[d], t, topic'[t].rev)
    BY <1>8, <2>2
  <2> QED BY <2>3, AwaitedNow
<1> QED BY <1>5, <1>6, <1>7, <1>8

\* The goroutines are where they were.
LEMMA WorkKept ==
  ASSUME WorkType, BusyInv, StopInv, process # "down", thread' \in Threads,
         UNCHANGED <<urun, arun, orphan, worker, checks, process>>,
         \A i \in Items : rstat'[i] = "running" <=> rstat[i] = "running"
  PROVE  WorkType' /\ BusyInv' /\ StopInv' /\ OwedByRouting' = OwedByRouting
<1>1. WorkType'
  BY DEF WorkType, Threads
<1>2. BusyInv'
  BY DEF BusyInv
<1>3. StopInv'
  BY DEF StopInv
<1>4. OwedByRouting' = OwedByRouting
  BY DEF OwedByRouting, RStep
<1> QED BY <1>1, <1>2, <1>3, <1>4

\* A request, or a call that changes no job table.
LEMMA ThreadStep ==
  ASSUME JobsInv, NEW c \in Clients, NEW calls \in Seq(Call), Owes(c, calls), process # "down",
         UNCHANGED <<uq, urun, aq, arun, orphan, worker, checks, process>>,
         stuck \subseteq stuck', lost \subseteq lost', RowsType', HeldInv',
         \A i \in Items : rstat'[i] = "running" <=> rstat[i] = "running",
         \A t \in Topics : topic'[t].ustatus = topic[t].ustatus /\ topic'[t].udigest = topic[t].udigest,
         \A t \in Topics :
           \/ Awaiting(calls, t, topic'[t].rev) \/ t \in stuck'
           \/ topic'[t].rstatus \in {"pending", "running"} /\ ABacked(t)'
           \/ /\ topic'[t].rev = topic[t].rev /\ topic'[t].rstatus = topic[t].rstatus
              /\ ~Awaiting(thread[c], t, topic[t].rev),
         \A t \in Topics :
           t \in Owing(calls) \cup lost' \/ (Digest(t)' = Digest(t) /\ t \notin Owing(thread[c]))
  PROVE  JobsInv'
<1>1. /\ QueueType /\ WorkType /\ CountInv /\ OnceInv /\ BusyInv /\ StopInv /\ StatusHonest
      /\ RouteInv /\ UnderstandingCatchesUp /\ SeenInv /\ thread \in Threads
  BY DEF JobsInv, WorkType, Threads
<1>2. thread' \in Threads
  BY <1>1, OneThread
<1>3. WorkType' /\ BusyInv' /\ StopInv' /\ OwedByRouting' = OwedByRouting
  BY <1>1, <1>2, WorkKept
<1>4. /\ \A t \in Owing(calls) : t \in Owed'
      /\ \A t \in Topics : t \in Owed /\ (t \in Owing(thread[c]) => t \in Owing(calls)) => t \in Owed'
      /\ \A t \in Topics : Awaiting(calls, t, topic'[t].rev) => Awaited(t)'
      /\ \A t \in Topics :
           Awaited(t) /\ topic'[t].rev = topic[t].rev
           /\ (Awaiting(thread[c], t, topic[t].rev) => Awaiting(calls, t, topic[t].rev)) => Awaited(t)'
  BY <1>1, <1>3, GoingOn
<1>5. QueueType' /\ CountInv' /\ OnceInv' /\ StatusHonest'
  <2>1. QueueType'
    BY <1>1 DEF QueueType
  <2>2. CountInv' /\ OnceInv' /\ StatusHonest'
    BY <1>1, CountKept, OnceKept, StatusKept
  <2> QED BY <2>1, <2>2
<1>6. RouteInv'
  <2> SUFFICES ASSUME NEW t \in Topics
               PROVE  \/ Awaited(t)' \/ t \in stuck'
                      \/ (topic'[t].rstatus \in {"pending", "running"} <=> ABacked(t)')
    BY DEF RouteInv
  <2>1. CASE Awaiting(calls, t, topic'[t].rev) \/ t \in stuck'
    BY <1>4, <2>1
  <2>2. CASE topic'[t].rstatus \in {"pending", "running"} /\ ABacked(t)'
    BY <2>2
  <2>3. CASE /\ topic'[t].rev = topic[t].rev /\ topic'[t].rstatus = topic[t].rstatus
             /\ ~Awaiting(thread[c], t, topic[t].rev)
    <3>1. CASE Awaited(t)
      BY <1>4, <2>3, <3>1
    <3>2. CASE t \in stuck
      BY <3>2
    <3>3. CASE topic[t].rstatus \in {"pending", "running"} <=> ABacked(t)
      <4>1. ABacked(t)' = ABacked(t)
        BY <2>3 DEF ABacked, AJob
      <4> QED BY <2>3, <3>3, <4>1
    <3> QED BY <1>1, <3>1, <3>2, <3>3 DEF RouteInv
  <2> QED BY <2>1, <2>2, <2>3
<1>7. UnderstandingCatchesUp' /\ SeenInv'
  <2>1. worker["u"].pc \in {"ask", "save", "done"} => urun # NoJob
    BY <1>1 DEF BusyInv, UBusy
  <2>2. ASSUME NEW t \in Topics
        PROVE  \/ Due(t)'
               \/ /\ topic'[t].ustatus = topic[t].ustatus /\ topic'[t].udigest = topic[t].udigest
                  /\ Digest(t)' = Digest(t) /\ ~Due(t)
    <3>1. t \in Owing(calls) \cup lost' => Due(t)'
      BY <1>4 DEF Due
    <3>2. t \notin Owing(thread[c]) /\ Due(t) => Due(t)'
      BY <1>4 DEF Due
    <3> QED BY <3>1, <3>2
  <2>3. urun \in JobRow /\ UNCHANGED <<uq, urun, worker>>
    BY <1>1 DEF QueueType
  <2> QED BY <1>1, <2>1, <2>2, <2>3, SeenKept
<1> QED BY <1>3, <1>5, <1>6, <1>7 DEF JobsInv

\* A request starts from no calls.
LEMMA RequestStep ==
  ASSUME JobsInv, NEW c \in Clients, NEW op, Request(c, op), NEW calls \in Seq(Call), Owes(c, calls),
         UNCHANGED <<uq, urun, aq, arun, orphan, worker, checks, process, lost, stuck>>,
         RowsType', HeldInv',
         \A i \in Items : rstat'[i] = "running" <=> rstat[i] = "running",
         \A t \in Topics : topic'[t].ustatus = topic[t].ustatus /\ topic'[t].udigest = topic[t].udigest,
         \A t \in Topics :
           \/ Awaiting(calls, t, topic'[t].rev)
           \/ topic'[t].rev = topic[t].rev /\ topic'[t].rstatus = topic[t].rstatus,
         \A t \in Topics : t \in Owing(calls) \/ Digest(t)' = Digest(t)
  PROVE  JobsInv'
<1>1. process # "down" /\ thread[c] = << >>
  BY DEF Request
<1>2. Owing(thread[c]) = {} /\ \A t, r : ~Awaiting(thread[c], t, r)
  BY <1>1, NoCalls
<1>3. /\ UNCHANGED <<uq, urun, aq, arun, orphan, worker, checks, process>>
      /\ stuck \subseteq stuck' /\ lost \subseteq lost'
  OBVIOUS
<1>4. \A t \in Topics :
        \/ Awaiting(calls, t, topic'[t].rev) \/ t \in stuck'
        \/ topic'[t].rstatus \in {"pending", "running"} /\ ABacked(t)'
        \/ /\ topic'[t].rev = topic[t].rev /\ topic'[t].rstatus = topic[t].rstatus
           /\ ~Awaiting(thread[c], t, topic[t].rev)
  BY <1>2
<1>5. \A t \in Topics :
        t \in Owing(calls) \cup lost' \/ (Digest(t)' = Digest(t) /\ t \notin Owing(thread[c]))
  BY <1>2
<1> QED BY <1>1, <1>3, <1>4, <1>5, ThreadStep

\* A request that changes the members of the topics it will queue.
LEMMA MemberRequest ==
  ASSUME JobsInv, NEW c \in Clients, NEW op, Request(c, op), NEW calls \in Seq(Call), Owes(c, calls),
         UNCHANGED <<inst, topic, lib, gone, version, snap, queues, worker, checks, process, ghosts>>,
         verdict' \in [Topics -> [Items -> {"none", "include", "exclude", "clear"}]],
         \A t \in Topics, i \in Items :
           member'[t][i] = member[t][i] \/ i \in lib \/ member'[t][i].mode = "none",
         \A t \in Topics : t \in Owing(calls) \/ member'[t] = member[t]
  PROVE  JobsInv'
<1>1. RowsType /\ HeldInv
  BY DEF JobsInv
<1>2. RowsType'
  BY <1>1 DEF RowsType, queues, ghosts
<1>3. HeldInv'
  BY <1>1 DEF HeldInv
<1>4. ASSUME NEW t \in Topics PROVE t \in Owing(calls) \/ Digest(t)' = Digest(t)
  BY DEF Digest, LiveMembers, AllMembers
<1>5. UNCHANGED <<uq, urun, aq, arun, orphan, rstat, worker, checks, process, lost, stuck>>
  BY DEF queues, ghosts
<1>6. topic' = topic
  OBVIOUS
<1> QED BY <1>2, <1>3, <1>4, <1>5, <1>6, RequestStep

\* A request that only changes what it will queue.
LEMMA PlainRequest ==
  ASSUME JobsInv, NEW c \in Clients, NEW op, Request(c, op), NEW calls \in Seq(Call), Owes(c, calls),
         UNCHANGED <<inst, rows, queues, worker, checks, process, ghosts>>
  PROVE  JobsInv'
<1>1. RowsType
  BY DEF JobsInv
<1>2. UNCHANGED <<inst, topic, lib, gone, version, snap, queues, worker, checks, process, ghosts, verdict, member>>
  BY DEF rows
<1>3. verdict' \in [Topics -> [Items -> {"none", "include", "exclude", "clear"}]]
  BY <1>1, <1>2 DEF RowsType
<1> QED BY <1>2, <1>3, MemberRequest

-----------------------------------------------------------------------------
(* The requests.                                                             *)

Feedback == {"none", "include", "exclude", "clear"}

LEMMA TopicRequests ==
  ASSUME JobsInv, NEW c \in Clients, NEW t \in Topics,
         Create(c, t) \/ UpdateCriteria(c, t) \/ RequestActivation(c, t) \/ RequestUnderstanding(c, t)
  PROVE  JobsInv'
<1>0. RowsType /\ HeldInv /\ topic \in [Topics -> TopicRow]
  BY DEF JobsInv, RowsType
<1>1. /\ Understand(t, FALSE) \in Seq(Call) /\ Owing(Understand(t, FALSE)) = {t}
      /\ Understand(t, TRUE) \in Seq(Call)
      /\ Activate(t) \in Seq(Call) /\ Owing(Activate(t)) = {}
      /\ \A r : Awaiting(Activate(t), t, r)
  BY UnderstandCalls, ActivateCalls
<1> DEFINE calls == Activate(t) \o Understand(t, FALSE)
<1>2. calls \in Seq(Call) /\ Owing(calls) = {t} /\ \A r : Awaiting(calls, t, r)
  <2>1. /\ Activate(t) \o Understand(t, FALSE) \in Seq(Call)
        /\ Owing(Activate(t) \o Understand(t, FALSE)) = Owing(Activate(t)) \cup Owing(Understand(t, FALSE))
        /\ \A s, r : Awaiting(Activate(t) \o Understand(t, FALSE), s, r)
                       <=> Awaiting(Activate(t), s, r) \/ Awaiting(Understand(t, FALSE), s, r)
    BY <1>1, CallsConcat
  <2> QED BY <1>1, <2>1
<1> HIDE DEF calls
<1>3. ASSUME NEW op, Request(c, op), Owes(c, calls), topic' \in [Topics -> TopicRow],
             UNCHANGED <<inst, lib, gone, version, member, verdict, snap, queues, worker, checks, process, ghosts>>,
             \A s \in Topics : topic'[s].ustatus = topic[s].ustatus /\ topic'[s].udigest = topic[s].udigest,
             \A s \in Topics \ {t} : topic'[s] = topic[s]
      PROVE  JobsInv'
  <2>1. RowsType'
    BY <1>0, <1>3 DEF RowsType, queues, ghosts
  <2>2. HeldInv'
    BY <1>0, <1>3, HeldKept
  <2>3. \A s \in Topics : s \in Owing(calls) \/ Digest(s)' = Digest(s)
    BY <1>2, <1>3 DEF Digest, LiveMembers, AllMembers
  <2>4. ASSUME NEW s \in Topics
        PROVE  \/ Awaiting(calls, s, topic'[s].rev)
               \/ (topic'[s].rev = topic[s].rev /\ topic'[s].rstatus = topic[s].rstatus)
    <3>1. CASE s = t
      BY <1>2, <3>1
    <3>2. CASE s # t
      BY <1>3, <3>2
    <3> QED BY <3>1, <3>2
  <2>5. UNCHANGED <<uq, urun, aq, arun, orphan, rstat, worker, checks, process, lost, stuck>>
    BY <1>3 DEF queues, ghosts
  <2> QED BY <1>2, <1>3, <2>1, <2>2, <2>3, <2>4, <2>5, RequestStep
<1>4. CASE Create(c, t)
  <2>1. topic' = [topic EXCEPT ![t].rev = 1]
    BY <1>4 DEF Create
  <2>2. /\ topic' \in [Topics -> TopicRow]
        /\ \A s \in Topics : topic'[s].ustatus = topic[s].ustatus /\ topic'[s].udigest = topic[s].udigest
        /\ \A s \in Topics \ {t} : topic'[s] = topic[s]
    BY <1>0, <2>1 DEF TopicRow
  <2>3. /\ Request(c, "create") /\ Owes(c, calls)
        /\ UNCHANGED <<inst, lib, gone, version, member, verdict, snap, queues, worker, checks, process, ghosts>>
    BY <1>4 DEF Create, calls
  <2> QED BY <1>3, <2>2, <2>3
<1>5. CASE UpdateCriteria(c, t)
  <2>1. topic' = [topic EXCEPT ![t].rev = @ + 1, ![t].rstatus = "pending"]
    BY <1>5 DEF UpdateCriteria
  <2> DEFINE x == [topic[t] EXCEPT !.rev = topic[t].rev + 1, !.rstatus = "pending"]
  <2>2. topic' = [topic EXCEPT ![t] = x]
    BY <1>0, <2>1
  <2>5. x \in TopicRow /\ x.ustatus = topic[t].ustatus /\ x.udigest = topic[t].udigest
    <3>1. topic[t] \in TopicRow
      BY <1>0
    <3>2. topic[t].rev + 1 \in Nat
      BY <3>1 DEF TopicRow
    <3> QED BY <3>1, <3>2 DEF TopicRow
  <2> HIDE DEF x
  <2>3. /\ topic' \in [Topics -> TopicRow]
        /\ \A s \in Topics : topic'[s].ustatus = topic[s].ustatus /\ topic'[s].udigest = topic[s].udigest
        /\ \A s \in Topics \ {t} : topic'[s] = topic[s]
    BY <1>0, <2>2, <2>5
  <2>4. /\ Request(c, "criteria") /\ Owes(c, calls)
        /\ UNCHANGED <<inst, lib, gone, version, member, verdict, snap, queues, worker, checks, process, ghosts>>
    BY <1>5 DEF UpdateCriteria, calls
  <2> QED BY <1>3, <2>3, <2>4
<1>6. CASE RequestActivation(c, t)
  <2>1. /\ Request(c, "activate") /\ Owes(c, Activate(t))
        /\ UNCHANGED <<inst, rows, queues, worker, checks, process, ghosts>>
    BY <1>6 DEF RequestActivation
  <2> QED BY <1>1, <2>1, PlainRequest
<1>7. CASE RequestUnderstanding(c, t)
  <2>1. /\ Request(c, "refresh") /\ Owes(c, Understand(t, TRUE))
        /\ UNCHANGED <<inst, rows, queues, worker, checks, process, ghosts>>
    BY <1>7 DEF RequestUnderstanding
  <2> QED BY <1>1, <2>1, PlainRequest
<1> QED BY <1>4, <1>5, <1>6, <1>7

\* The requests of the library that queue nothing: the topics that hold the item are
\* in lost until they are read again.
LEMMA LibraryRequests ==
  ASSUME JobsInv, NEW c \in Clients, NEW i \in Items, Touch(c, i) \/ Less(c, i)
  PROVE  JobsInv'
<1>0. RowsType /\ HeldInv
  BY DEF JobsInv
<1>1. /\ process # "down" /\ thread[c] = << >> /\ Owes(c, << >>) /\ i \in lib
      /\ UNCHANGED <<inst, topic, member, verdict, snap, queues, worker, checks, process, stuck>>
      /\ lost' = lost \cup {t \in Topics : i \in AllMembers(t)}
  BY DEF Touch, Less, Request, Unannounced
<1>2. \/ version' = [version EXCEPT ![i] = @ + 1] /\ UNCHANGED <<lib, gone>>
      \/ /\ version' = [version EXCEPT ![i] = 0]
         /\ lib' = lib \ {i} /\ gone' = gone \cup {i}
  BY DEF Touch, Less
<1>3. \A j \in Items : j # i => version'[j] = version[j] /\ (j \in lib' <=> j \in lib)
  BY <1>0, <1>2 DEF RowsType
<1>4. UNCHANGED <<uq, urun, aq, arun, orphan, rstat>>
  BY <1>1 DEF queues
<1>5. RowsType'
  <2>1. version' \in [Items -> Nat]
    BY <1>0, <1>2 DEF RowsType
  <2>2. lib' \subseteq Items /\ gone' \subseteq Items /\ lib' \cap gone' = {}
    BY <1>0, <1>2 DEF RowsType
  <2> QED BY <1>0, <1>1, <1>4, <2>1, <2>2 DEF RowsType
<1>6. HeldInv'
  BY <1>0, <1>1, <1>2 DEF HeldInv
<1>7. ASSUME NEW t \in Topics PROVE t \in lost' \/ Digest(t)' = Digest(t)
  <2>1. CASE i \in AllMembers(t)
    BY <1>1, <2>1
  <2>2. CASE i \notin AllMembers(t)
    <3>1. AllMembers(t)' = AllMembers(t) /\ AllMembers(t) \subseteq Items
      BY <1>1 DEF AllMembers
    <3>2. LiveMembers(t)' = LiveMembers(t)
      BY <1>3, <2>2, <3>1 DEF LiveMembers
    <3>3. \A j \in LiveMembers(t) : version'[j] = version[j]
      BY <1>3, <2>2, <3>1 DEF LiveMembers
    <3>4. {<<j, version[j]>> : j \in LiveMembers(t)}' = {<<j, version[j]>> : j \in LiveMembers(t)}
      BY <3>2, <3>3
    <3> QED BY <1>1, <3>4 DEF Digest
  <2> QED BY <2>1, <2>2
<1>8. Owing(thread[c]) = {} /\ \A t, n : ~Awaiting(thread[c], t, n)
  BY <1>1, NoCalls
<1>9. << >> \in Seq(Call)
  OBVIOUS
<1>10. \A t \in Topics :
         \/ Awaiting(<< >>, t, topic'[t].rev) \/ t \in stuck'
         \/ topic'[t].rstatus \in {"pending", "running"} /\ ABacked(t)'
         \/ /\ topic'[t].rev = topic[t].rev /\ topic'[t].rstatus = topic[t].rstatus
            /\ ~Awaiting(thread[c], t, topic[t].rev)
  BY <1>1, <1>8
<1>11. \A t \in Topics :
         t \in Owing(<< >>) \cup lost' \/ (Digest(t)' = Digest(t) /\ t \notin Owing(thread[c]))
  BY <1>7, <1>8
<1>12. stuck \subseteq stuck' /\ lost \subseteq lost'
  BY <1>1
<1>13. topic' = topic /\ rstat' = rstat /\ UNCHANGED <<uq, urun, aq, arun, orphan, worker, checks, process>>
  BY <1>1, <1>4
<1> QED BY <1>1, <1>5, <1>6, <1>9, <1>10, <1>11, <1>12, <1>13, ThreadStep

LEMMA ItemRequests ==
  ASSUME JobsInv, NEW c \in Clients, NEW i \in Items,
         ReadTopics(c, i) \/ Touch(c, i) \/ Less(c, i) \/ QueueRouting(c, i)
  PROVE  JobsInv'
<1>1. CASE ReadTopics(c, i)
  <2> DEFINE x == [op |-> "removal", i |-> i, topics |-> {t \in Topics : i \in AllMembers(t)}]
  <2>1. x \in Call
    BY DEF Call
  <2>2. /\ Request(c, "library") /\ Owes(c, <<x>>)
        /\ UNCHANGED <<inst, rows, queues, worker, checks, process, ghosts>>
    BY <1>1 DEF ReadTopics
  <2> HIDE DEF x
  <2>3. <<x>> \in Seq(Call)
    BY <2>1, CallsOf
  <2> QED BY <2>2, <2>3, PlainRequest
<1>2. CASE QueueRouting(c, i)
  <2>0. RowsType /\ HeldInv
    BY DEF JobsInv
  <2> DEFINE x == [op |-> "rlaunch"]
  <2>1. x \in Call
    BY DEF Call
  <2>2. /\ Request(c, "route") /\ Owes(c, <<x>>) /\ rstat[i] = "none"
        /\ rstat' = [rstat EXCEPT ![i] = "pending"]
        /\ UNCHANGED <<inst, rows, uq, urun, aq, arun, orphan, worker, checks, process, ghosts>>
    BY <1>2 DEF QueueRouting
  <2> HIDE DEF x
  <2>3. <<x>> \in Seq(Call)
    BY <2>1, CallsOf
  <2>4. RowsType'
    BY <2>0, <2>2 DEF RowsType, rows, ghosts
  <2>5. UNCHANGED <<topic, lib, gone, version, member, lost, stuck>>
    BY <2>2 DEF rows, ghosts
  <2>6. HeldInv'
    BY <2>0, <2>2, <2>5, HeldKept
  <2>7. \A j \in Items : rstat'[j] = "running" <=> rstat[j] = "running"
    BY <2>0, <2>2 DEF RowsType
  <2>8. \A t \in Topics : Digest(t)' = Digest(t)
    BY <2>5 DEF Digest, LiveMembers, AllMembers
  <2> QED BY <2>2, <2>3, <2>4, <2>5, <2>6, <2>7, <2>8, RequestStep
<1>3. CASE Touch(c, i) \/ Less(c, i)
  BY <1>3, LibraryRequests
<1> QED BY <1>1, <1>2, <1>3

\* One membership and its verdict change.
LEMMA OneMemberRequest ==
  ASSUME JobsInv, MembershipType, NEW c \in Clients, NEW op, Request(c, op),
         NEW t \in Topics, NEW i \in Items, Owes(c, Understand(t, FALSE)),
         UNCHANGED <<inst, topic, lib, gone, version, snap, queues, worker, checks, process, ghosts>>,
         NEW v \in Feedback, verdict' = [verdict EXCEPT ![t][i] = v],
         NEW m \in Member, m.mode = "none" \/ i \in lib,
         member' = member \/ member' = [member EXCEPT ![t][i] = m]
  PROVE  JobsInv'
<1>0. RowsType
  BY DEF JobsInv
<1>1. Understand(t, FALSE) \in Seq(Call) /\ Owing(Understand(t, FALSE)) = {t}
  BY UnderstandCalls
<1>2. verdict' \in [Topics -> [Items -> {"none", "include", "exclude", "clear"}]]
  <2>1. verdict \in Table(Feedback) /\ verdict' = Put(verdict, t, i, v)
    BY <1>0 DEF RowsType, Table, Feedback, Put
  <2>2. Put(verdict, t, i, v) \in Table(Feedback)
    BY <2>1, EntrySet
  <2> QED BY <2>1, <2>2 DEF Table, Feedback
<1>3. /\ \A s \in Topics, j \in Items :
           member'[s][j] = member[s][j] \/ j \in lib \/ member'[s][j].mode = "none"
      /\ \A s \in Topics : s \in Owing(Understand(t, FALSE)) \/ member'[s] = member[s]
  <2>1. CASE member' = member
    BY <2>1
  <2>2. CASE member' = [member EXCEPT ![t][i] = m]
    <3>1. member \in Table(Member) /\ member' = Put(member, t, i, m)
      BY <2>2 DEF MembershipType, Table, Put
    <3>2. \A s \in Topics, j \in Items : member'[s][j] = IF s = t /\ j = i THEN m ELSE member[s][j]
      BY <3>1, EntrySet
    <3>3. \A s \in Topics : s # t => member'[s] = member[s]
      BY <2>2 DEF MembershipType
    <3> QED BY <1>1, <3>2, <3>3
  <2> QED BY <2>1, <2>2
<1> QED BY <1>1, <1>2, <1>3, MemberRequest

LEMMA MemberRequests ==
  ASSUME JobsInv, MembershipType, NEW c \in Clients, NEW t \in Topics, NEW i \in Items,
         \/ AddMember(c, t, i) \/ RemoveMember(c, t, i)
         \/ Accept(c, t, i) \/ Reject(c, t, i) \/ UndoReview(c, t, i)
  PROVE  JobsInv'
<1> DEFINE none == NoMember
           manual == [mode |-> "manual", move |-> 0]
           candidate == [mode |-> "candidate", move |-> 0]
           Rest == UNCHANGED <<inst, topic, lib, gone, version, snap, queues, worker, checks, process, ghosts>>
<1>0. /\ none \in Member /\ manual \in Member /\ candidate \in Member /\ none.mode = "none"
      /\ \A v \in {"include", "exclude", "clear"} : v \in Feedback
  BY DEF Member, Modes, NoMember, Feedback
<1>1. CASE AddMember(c, t, i)
  <2>1. /\ Request(c, "add") /\ i \in lib /\ member' = [member EXCEPT ![t][i] = manual]
        /\ verdict' = [verdict EXCEPT ![t][i] = "include"] /\ Owes(c, Understand(t, FALSE)) /\ Rest
    BY <1>1 DEF AddMember
  <2> HIDE DEF manual
  <2> QED BY <1>0, <2>1, OneMemberRequest
<1>2. CASE RemoveMember(c, t, i)
  <2>1. /\ Request(c, "remove") /\ member' = [member EXCEPT ![t][i] = none]
        /\ verdict' = [verdict EXCEPT ![t][i] = "exclude"] /\ Owes(c, Understand(t, FALSE)) /\ Rest
    BY <1>2 DEF RemoveMember
  <2> HIDE DEF none
  <2> QED BY <1>0, <2>1, OneMemberRequest
<1>3. CASE Accept(c, t, i)
  <2>1. /\ Request(c, "review") /\ i \in lib /\ member[t][i] \in Member
        /\ member' = [member EXCEPT ![t][i] = IF @.mode # "none" THEN @ ELSE candidate]
        /\ verdict' = [verdict EXCEPT ![t][i] = "include"] /\ Owes(c, Understand(t, FALSE)) /\ Rest
    BY <1>3 DEF Accept, Reviewed, MembershipType
  <2> DEFINE m == IF member[t][i].mode # "none" THEN member[t][i] ELSE candidate
  <2>2. m \in Member /\ member' = [member EXCEPT ![t][i] = m]
    BY <1>0, <2>1
  <2> HIDE DEF m
  <2> QED BY <1>0, <2>1, <2>2, OneMemberRequest
<1>4. ASSUME NEW v \in {"exclude", "clear"}, NEW status, Request(c, "review"), DropAccepted(t, i),
             Reviewed(c, t, i, status, v)
      PROVE  JobsInv'
  <2>1. /\ member' = member \/ member' = [member EXCEPT ![t][i] = none]
        /\ verdict' = [verdict EXCEPT ![t][i] = v] /\ Owes(c, Understand(t, FALSE)) /\ Rest
    BY <1>4 DEF DropAccepted, Reviewed
  <2>2. v \in Feedback
    BY <1>0, <1>4
  <2> HIDE DEF none
  <2> QED BY <1>0, <1>4, <2>1, <2>2, OneMemberRequest
<1>5. CASE Reject(c, t, i)
  BY <1>4, <1>5 DEF Reject
<1>6. CASE UndoReview(c, t, i)
  BY <1>4, <1>6 DEF UndoReview
<1> QED BY <1>1, <1>2, <1>3, <1>5, <1>6

LEMMA TwoEntries ==
  ASSUME NEW V, NEW f \in Table(V), NEW a \in Topics, NEW b \in Topics, NEW i \in Items,
         NEW x \in V, NEW y \in V
  PROVE  /\ Put(Put(f, a, i, x), b, i, y) \in Table(V)
         /\ \A d \in Topics, j \in Items : j # i => Put(Put(f, a, i, x), b, i, y)[d][j] = f[d][j]
         /\ \A d \in Topics : d # a /\ d # b => Put(Put(f, a, i, x), b, i, y)[d] = f[d]
<1> DEFINE h == Put(f, a, i, x)
           g == Put(h, b, i, y)
<1>1. h \in Table(V) /\ \A d \in Topics, j \in Items : h[d][j] = IF d = a /\ j = i THEN x ELSE f[d][j]
  BY EntrySet
<1>3. \A d \in Topics : d # a => h[d] = f[d]
  BY DEF Put, Table
<1> HIDE DEF h
<1>4. g \in Table(V) /\ \A d \in Topics, j \in Items : g[d][j] = IF d = b /\ j = i THEN y ELSE h[d][j]
  BY <1>1, EntrySet
<1>5. \A d \in Topics : d # b => g[d] = h[d]
  BY <1>1 DEF Put, Table
<1> HIDE DEF g
<1>6. /\ g \in Table(V)
      /\ \A d \in Topics, j \in Items : j # i => g[d][j] = f[d][j]
      /\ \A d \in Topics : d # a /\ d # b => g[d] = f[d]
  BY <1>1, <1>3, <1>4, <1>5
<1> QED BY <1>6 DEF g, h

\* A move and its undoing change two topics and queue both.
LEMMA TwoMemberRequest ==
  ASSUME JobsInv, MembershipType, NEW c \in Clients, NEW op, Request(c, op),
         NEW s \in Topics, NEW t \in Topics, NEW i \in Items, i \in lib,
         Owes(c, Understand(s, FALSE) \o Understand(t, FALSE)),
         UNCHANGED <<inst, topic, lib, gone, version, snap, queues, worker, checks, process, ghosts>>,
         NEW v \in Feedback, NEW w \in Feedback, verdict' = [verdict EXCEPT ![s][i] = v, ![t][i] = w],
         NEW m \in Member, NEW n \in Member,
         \/ member' = [member EXCEPT ![s][i] = m, ![t][i] = n]
         \/ member' = [member EXCEPT ![t][i] = m, ![s][i] = n]
  PROVE  JobsInv'
<1>0. RowsType
  BY DEF JobsInv
<1> DEFINE calls == Understand(s, FALSE) \o Understand(t, FALSE)
<1>1. calls \in Seq(Call) /\ Owing(calls) = {s, t}
  <2>1. /\ Understand(s, FALSE) \in Seq(Call) /\ Owing(Understand(s, FALSE)) = {s}
        /\ Understand(t, FALSE) \in Seq(Call) /\ Owing(Understand(t, FALSE)) = {t}
    BY UnderstandCalls
  <2>2. calls \in Seq(Call) /\ Owing(calls) = Owing(Understand(s, FALSE)) \cup Owing(Understand(t, FALSE))
    BY <2>1, CallsConcat
  <2> QED BY <2>1, <2>2
<1>3. verdict' \in [Topics -> [Items -> {"none", "include", "exclude", "clear"}]]
  <2>1. verdict \in Table(Feedback)
    BY <1>0 DEF RowsType, Table, Feedback
  <2>2. Put(Put(verdict, s, i, v), t, i, w) \in Table(Feedback)
    BY <2>1, TwoEntries
  <2>3. verdict' = Put(Put(verdict, s, i, v), t, i, w)
    BY DEF Put
  <2> QED BY <2>2, <2>3 DEF Table, Feedback
<1>4. /\ \A d \in Topics, j \in Items :
           member'[d][j] = member[d][j] \/ j \in lib \/ member'[d][j].mode = "none"
      /\ \A d \in Topics : d \in Owing(calls) \/ member'[d] = member[d]
  <2>1. member \in Table(Member)
    BY DEF MembershipType, Table
  <2>2. /\ \A d \in Topics, j \in Items : j # i => member'[d][j] = member[d][j]
        /\ \A d \in Topics : d # s /\ d # t => member'[d] = member[d]
    <3>1. CASE member' = [member EXCEPT ![s][i] = m, ![t][i] = n]
      <4> DEFINE g == Put(Put(member, s, i, m), t, i, n)
      <4>1. /\ \A d \in Topics, j \in Items : j # i => g[d][j] = member[d][j]
            /\ \A d \in Topics : d # s /\ d # t => g[d] = member[d]
        BY <2>1, TwoEntries
      <4>2. member' = g
        BY <3>1 DEF Put
      <4> HIDE DEF g
      <4> QED BY <4>1, <4>2
    <3>2. CASE member' = [member EXCEPT ![t][i] = m, ![s][i] = n]
      <4> DEFINE g == Put(Put(member, t, i, m), s, i, n)
      <4>1. /\ \A d \in Topics, j \in Items : j # i => g[d][j] = member[d][j]
            /\ \A d \in Topics : d # t /\ d # s => g[d] = member[d]
        BY <2>1, TwoEntries
      <4>2. member' = g
        BY <3>2 DEF Put
      <4> HIDE DEF g
      <4> QED BY <4>1, <4>2
    <3> QED BY <3>1, <3>2
  <2> QED BY <1>1, <2>2
<1> HIDE DEF calls
<1>5. Owes(c, calls)
  BY DEF calls
<1> QED BY <1>1, <1>3, <1>4, <1>5, MemberRequest

LEMMA MoveRequests ==
  ASSUME JobsInv, MembershipType, NEW c \in Clients,
         \/ \E s \in Topics, t \in Topics, i \in Items : MoveMember(c, s, t, i)
         \/ \E k \in DOMAIN moves : UndoMove(c, k)
  PROVE  JobsInv'
<1>0. /\ NoMember \in Member /\ \A v \in {"include", "exclude", "clear"} : v \in Feedback
  BY DEF Member, Modes, NoMember, Feedback
<1>1. ASSUME NEW s \in Topics, NEW t \in Topics, NEW i \in Items, MoveMember(c, s, t, i)
      PROVE  JobsInv'
  <2> DEFINE n == IF member[t][i].mode # "none" THEN member[t][i] ELSE [mode |-> "move", move |-> Len(moves) + 1]
  <2>1. n \in Member
    <3>1. Len(moves) + 1 \in Nat /\ member[t][i] \in Member
      BY LenProperties DEF MembershipType
    <3> QED BY <3>1 DEF Member, Modes
  <2>2. /\ Request(c, "move") /\ i \in lib /\ s # t
        /\ verdict' = [verdict EXCEPT ![s][i] = "exclude", ![t][i] = "include"]
        /\ Owes(c, Understand(s, FALSE) \o Understand(t, FALSE))
        /\ UNCHANGED <<inst, topic, lib, gone, version, snap, queues, worker, checks, process, ghosts>>
    BY <1>1 DEF MoveMember
  <2>3. member' = [member EXCEPT ![s][i] = NoMember, ![t][i] = n]
    <3>1. member' = [member EXCEPT ![s][i] = NoMember,
                                   ![t][i] = IF @.mode # "none" THEN @
                                             ELSE [mode |-> "move", move |-> Len(moves) + 1]]
      BY <1>1 DEF MoveMember
    <3>2. s # t /\ member \in [Topics -> [Items -> Member]]
      BY <2>2 DEF MembershipType
    <3> QED BY <3>1, <3>2
  <2> HIDE DEF n
  <2> QED BY <1>0, <2>1, <2>2, <2>3, TwoMemberRequest
<1>2. ASSUME NEW k \in DOMAIN moves, UndoMove(c, k)
      PROVE  JobsInv'
  <2> DEFINE s == moves[k].from
             t == moves[k].to
             i == moves[k].i
             n == moves[k].source
             m == IF ~moves[k].pre /\ member[t][i].move = k THEN NoMember ELSE member[t][i]
  <2>1. s \in Topics /\ t \in Topics /\ i \in Items /\ n \in Member /\ member[t][i] \in Member
    <3>1. moves[k] \in MoveRow
      BY <1>2, LenProperties, ElementOfSeq DEF MembershipType
    <3> QED BY <3>1 DEF MoveRow, MembershipType
  <2>2. m \in Member
    BY <1>0, <2>1
  <2>3. /\ Request(c, "undo") /\ i \in lib
        /\ verdict' = [verdict EXCEPT ![s][i] = "clear", ![t][i] = "clear"]
        /\ Owes(c, Understand(s, FALSE) \o Understand(t, FALSE))
        /\ UNCHANGED <<inst, topic, lib, gone, version, snap, queues, worker, checks, process, ghosts>>
    BY <1>2 DEF UndoMove
  <2>4. member' = [member EXCEPT ![t][i] = m, ![s][i] = n]
    BY <1>2, <2>1 DEF UndoMove, MembershipType
  <2> HIDE DEF s, t, i, n, m
  <2> QED BY <1>0, <2>1, <2>2, <2>3, <2>4, TwoMemberRequest
<1> QED BY <1>1, <1>2

-----------------------------------------------------------------------------
(* The calls a request makes after its change.                               *)

LEMMA NextCall ==
  ASSUME JobsInv, NEW c \in Clients, thread[c] # << >>
  PROVE  /\ process # "down" /\ thread \in Threads /\ thread[c] \in Seq(Call)
         /\ Head(thread[c]) \in Call /\ Tail(thread[c]) \in Seq(Call)
         /\ Owing(thread[c]) = {t \in Topics : CallOwes(Head(thread[c]), t)} \cup Owing(Tail(thread[c]))
         /\ \A t, r : Awaiting(thread[c], t, r)
                        <=> AwaitsAt(Head(thread[c]), t, r) \/ Awaiting(Tail(thread[c]), t, r)
<1>1. thread \in [Clients -> Seq(Call)] /\ thread[c] \in Seq(Call)
  BY DEF JobsInv, WorkType
<1>2. process # "down"
  BY DEF JobsInv, StopInv
<1> QED BY <1>1, <1>2, FirstCall DEF Threads

LEMMA MoreCalls ==
  ASSUME NEW x \in Call, NEW s \in Seq(Call)
  PROVE  /\ <<x>> \o s \in Seq(Call)
         /\ Owing(<<x>> \o s) = {t \in Topics : CallOwes(x, t)} \cup Owing(s)
         /\ \A t, r : Awaiting(<<x>> \o s, t, r) <=> AwaitsAt(x, t, r) \/ Awaiting(s, t, r)
<1>1. /\ <<x>> \in Seq(Call) /\ Owing(<<x>>) = {t \in Topics : CallOwes(x, t)}
      /\ \A t, r : Awaiting(<<x>>, t, r) <=> AwaitsAt(x, t, r)
  BY CallsOf
<1>2. /\ <<x>> \o s \in Seq(Call) /\ Owing(<<x>> \o s) = Owing(<<x>>) \cup Owing(s)
      /\ \A t, r : Awaiting(<<x>> \o s, t, r) <=> Awaiting(<<x>>, t, r) \/ Awaiting(s, t, r)
  BY <1>1, CallsConcat
<1> QED BY <1>1, <1>2

\* A call that leaves the statuses and the job tables alone.
LEMMA CallStep ==
  ASSUME JobsInv, NEW c \in Clients, NEW calls \in Seq(Call), Owes(c, calls), thread[c] # << >>,
         UNCHANGED <<inst, topic, version, verdict, snap, queues, worker, checks, process, stuck>>,
         lost \subseteq lost', lost' \subseteq Topics,
         lib' \subseteq Items, gone' \subseteq Items, lib' \cap gone' = {}, HeldInv',
         \A t, r : Awaiting(thread[c], t, r) => Awaiting(calls, t, r),
         Owing(thread[c]) \subseteq Owing(calls),
         \A t \in Topics : t \in Owing(calls) \cup lost' \/ Digest(t)' = Digest(t)
  PROVE  JobsInv'
<1>1. process # "down" /\ RowsType
  BY NextCall DEF JobsInv
<1>2. UNCHANGED <<uq, urun, aq, arun, orphan, rstat, worker, checks, process, stuck, topic>>
  BY DEF queues
<1>3. RowsType'
  BY <1>1, <1>2 DEF RowsType
<1>4. \A t \in Topics :
        \/ Awaiting(calls, t, topic'[t].rev) \/ t \in stuck'
        \/ topic'[t].rstatus \in {"pending", "running"} /\ ABacked(t)'
        \/ /\ topic'[t].rev = topic[t].rev /\ topic'[t].rstatus = topic[t].rstatus
           /\ ~Awaiting(thread[c], t, topic[t].rev)
  BY <1>2
<1>5. \A t \in Topics :
        t \in Owing(calls) \cup lost' \/ (Digest(t)' = Digest(t) /\ t \notin Owing(thread[c]))
  OBVIOUS
<1> QED BY <1>1, <1>2, <1>3, <1>4, <1>5, ThreadStep

LEMMA RemovalCall ==
  ASSUME JobsInv, MembershipType, NEW c \in Clients, Removal(c)
  PROVE  JobsInv'
<1> DEFINE r == Head(thread[c])
           rest == Tail(thread[c])
<1>1. thread[c] # << >> /\ r.op = "removal"
  BY DEF Removal
<1>2. /\ r \in Call /\ rest \in Seq(Call)
      /\ Owing(thread[c]) = {t \in Topics : CallOwes(r, t)} \cup Owing(rest)
      /\ \A t, n : Awaiting(thread[c], t, n) <=> AwaitsAt(r, t, n) \/ Awaiting(rest, t, n)
  BY <1>1, NextCall
<1>3. r.i \in Items /\ r.topics \subseteq Topics
  BY <1>1, <1>2 DEF Call
<1>4. Owing(thread[c]) = Owing(rest) /\ \A t, n : Awaiting(thread[c], t, n) <=> Awaiting(rest, t, n)
  BY <1>1, <1>2 DEF CallOwes, AwaitsAt
<1>5. RowsType /\ HeldInv /\ member \in [Topics -> [Items -> Member]]
  BY DEF JobsInv, MembershipType
<1>6. UNCHANGED <<inst, topic, version, verdict, snap, queues, worker, checks, process, stuck>>
  BY DEF Removal
<1>7. CASE r.i \in lib
  <2> DEFINE x == [op |-> "uqueues", topics |-> r.topics]
             calls == <<x>> \o rest
  <2>1. /\ lib' = lib \ {r.i} /\ gone' = gone \cup {r.i}
        /\ member' = [t \in Topics |-> [member[t] EXCEPT ![r.i] = NoMember]]
        /\ Owes(c, calls)
        /\ lost' = lost \cup {t \in Topics : r.i \in AllMembers(t) /\ t \notin r.topics}
    BY <1>7 DEF Removal
  <2>2. x \in Call /\ (\A t : CallOwes(x, t) <=> t \in r.topics)
    BY <1>3 DEF Call, CallOwes
  <2> HIDE DEF x
  <2>3. /\ calls \in Seq(Call) /\ Owing(calls) = {t \in Topics : CallOwes(x, t)} \cup Owing(rest)
        /\ \A t, n : Awaiting(rest, t, n) => Awaiting(calls, t, n)
    BY <1>2, <2>2, MoreCalls
  <2> HIDE DEF calls, r, rest
  <2>4. Owing(calls) = r.topics \cup Owing(rest)
    BY <1>3, <2>2, <2>3
  <2>5. /\ lost \subseteq lost' /\ lost' \subseteq Topics
        /\ lib' \subseteq Items /\ gone' \subseteq Items /\ lib' \cap gone' = {}
    BY <1>3, <1>5, <2>1 DEF RowsType
  <2>6. \A t \in Topics, j \in Items : member'[t][j] = IF j = r.i THEN NoMember ELSE member[t][j]
    BY <1>3, <1>5, <2>1
  <2>7. HeldInv'
    BY <1>5, <1>6, <2>1, <2>6 DEF HeldInv, NoMember
  <2>8. ASSUME NEW t \in Topics PROVE t \in Owing(calls) \cup lost' \/ Digest(t)' = Digest(t)
    <3>1. CASE r.i \in AllMembers(t)
      BY <2>1, <2>4, <3>1
    <3>2. CASE r.i \notin AllMembers(t)
      <4>1. AllMembers(t)' = AllMembers(t)
        BY <2>6, <3>2 DEF AllMembers, NoMember
      <4>2. LiveMembers(t)' = LiveMembers(t)
        BY <2>1, <3>2, <4>1 DEF LiveMembers
      <4> QED BY <1>6, <4>2 DEF Digest
    <3> QED BY <3>1, <3>2
  <2>9. /\ Owing(thread[c]) \subseteq Owing(calls)
        /\ \A t, n : Awaiting(thread[c], t, n) => Awaiting(calls, t, n)
    BY <1>4, <2>3, <2>4
  <2> QED BY <1>1, <1>6, <2>1, <2>3, <2>5, <2>7, <2>8, <2>9, CallStep
<1>8. CASE r.i \notin lib
  <2>1. Owes(c, rest) /\ UNCHANGED <<lib, gone, member, lost>>
    BY <1>8 DEF Removal
  <2> HIDE DEF rest
  <2>2. HeldInv'
    BY <1>5, <1>6, <2>1, HeldKept
  <2>3. \A t \in Topics : Digest(t)' = Digest(t)
    BY <1>6, <2>1 DEF Digest, LiveMembers, AllMembers
  <2>4. /\ lost \subseteq lost' /\ lost' \subseteq Topics
        /\ lib' \subseteq Items /\ gone' \subseteq Items /\ lib' \cap gone' = {}
    BY <1>5, <2>1 DEF RowsType
  <2> QED BY <1>1, <1>2, <1>4, <1>6, <2>1, <2>2, <2>3, <2>4, CallStep
<1> QED BY <1>7, <1>8

\* A call that only replaces itself by others.
LEMMA OtherCalls ==
  ASSUME JobsInv, NEW c \in Clients, NEW calls \in Seq(Call), Owes(c, calls), thread[c] # << >>,
         UNCHANGED <<inst, rows, queues, worker, checks, process, ghosts>>,
         \A t, r : Awaiting(thread[c], t, r) => Awaiting(calls, t, r),
         Owing(thread[c]) \subseteq Owing(calls)
  PROVE  JobsInv'
<1>1. RowsType /\ HeldInv
  BY DEF JobsInv
<1>2. UNCHANGED <<topic, lib, gone, version, member, verdict, snap, lost, stuck>>
  BY DEF rows, ghosts
<1>3. HeldInv'
  BY <1>1, <1>2, HeldKept
<1>4. \A t \in Topics : Digest(t)' = Digest(t)
  BY <1>2 DEF Digest, LiveMembers, AllMembers
<1>5. /\ lost \subseteq lost' /\ lost' \subseteq Topics
      /\ lib' \subseteq Items /\ gone' \subseteq Items /\ lib' \cap gone' = {}
  BY <1>1, <1>2 DEF RowsType
<1> QED BY <1>2, <1>3, <1>4, <1>5, CallStep

LEMMA NextRemovedCall ==
  ASSUME JobsInv, NEW c \in Clients, NextRemoved(c)
  PROVE  JobsInv'
<1> DEFINE x == Head(thread[c])
           rest == Tail(thread[c])
           ts == x.topics
<1>1. /\ thread[c] # << >> /\ x.op = "uqueues"
      /\ UNCHANGED <<inst, rows, queues, worker, checks, process, ghosts>>
  BY DEF NextRemoved
<1>2. /\ x \in Call /\ rest \in Seq(Call)
      /\ Owing(thread[c]) = {t \in Topics : CallOwes(x, t)} \cup Owing(rest)
      /\ \A t, n : Awaiting(thread[c], t, n) <=> AwaitsAt(x, t, n) \/ Awaiting(rest, t, n)
  BY <1>1, NextCall
<1>3. ts \subseteq Topics
  BY <1>1, <1>2 DEF Call
<1>4. Owing(thread[c]) = ts \cup Owing(rest) /\ \A t, n : Awaiting(thread[c], t, n) <=> Awaiting(rest, t, n)
  BY <1>1, <1>2, <1>3 DEF CallOwes, AwaitsAt
<1>5. CASE ts = {} /\ Owes(c, rest)
  <2> HIDE DEF rest, ts
  <2>1. Owing(thread[c]) \subseteq Owing(rest)
    BY <1>4, <1>5
  <2> QED BY <1>1, <1>2, <1>4, <1>5, <2>1, OtherCalls
<1>6. ASSUME NEW t \in ts,
             Owes(c, Understand(t, FALSE) \o <<[op |-> "uqueues", topics |-> ts \ {t}]>> \o rest)
      PROVE  JobsInv'
  <2> DEFINE y == [op |-> "uqueues", topics |-> ts \ {t}]
             us == Understand(t, FALSE)
             calls == (us \o <<y>>) \o rest
  <2>1. y \in Call /\ \A s : CallOwes(y, s) <=> s \in ts \ {t}
    BY <1>3 DEF Call, CallOwes
  <2>2. us \in Seq(Call) /\ Owing(us) = {t}
    BY <1>3, UnderstandCalls
  <2> HIDE DEF y, us, rest
  <2>3. <<y>> \in Seq(Call) /\ Owing(<<y>>) = {s \in Topics : CallOwes(y, s)}
    BY <2>1, CallsOf
  <2>4. us \o <<y>> \in Seq(Call) /\ Owing(us \o <<y>>) = Owing(us) \cup Owing(<<y>>)
    BY <2>2, <2>3, CallsConcat
  <2>5. /\ calls \in Seq(Call) /\ Owing(calls) = Owing(us \o <<y>>) \cup Owing(rest)
        /\ \A s, n : Awaiting(rest, s, n) => Awaiting(calls, s, n)
    BY <1>2, <2>4, CallsConcat
  <2>6. Owing(thread[c]) \subseteq Owing(calls)
    BY <1>3, <1>4, <2>1, <2>2, <2>3, <2>4, <2>5
  <2>7. Owes(c, calls)
    BY <1>6 DEF y, us, rest
  <2> HIDE DEF calls
  <2> QED BY <1>1, <1>4, <2>5, <2>6, <2>7, OtherCalls
<1> QED BY <1>5, <1>6 DEF NextRemoved

-----------------------------------------------------------------------------
(* Queueing and launching.                                                   *)

LEMMA ReadRevisionCall ==
  ASSUME JobsInv, NEW c \in Clients, CallReadRevision(c)
  PROVE  JobsInv'
<1> DEFINE x == Head(thread[c])
           rest == Tail(thread[c])
           t == x.t
           y == [op |-> "ainsert", t |-> t, n |-> topic[t].rev]
           calls == <<y>> \o rest
<1>1. /\ thread[c] # << >> /\ x.op = "aread" /\ Owes(c, calls)
      /\ UNCHANGED <<inst, rows, queues, worker, checks, process, ghosts>>
  BY DEF CallReadRevision
<1>2. /\ x \in Call /\ rest \in Seq(Call)
      /\ Owing(thread[c]) = {s \in Topics : CallOwes(x, s)} \cup Owing(rest)
      /\ \A s, n : Awaiting(thread[c], s, n) <=> AwaitsAt(x, s, n) \/ Awaiting(rest, s, n)
  BY <1>1, NextCall
<1>3. t \in Topics /\ topic[t].rev \in Nat
  <2>1. t \in Topics
    BY <1>1, <1>2 DEF Call
  <2> QED BY <2>1 DEF JobsInv, RowsType, TopicRow
<1>4. y \in Call /\ (\A s : ~CallOwes(y, s)) /\ AwaitsAt(y, t, topic[t].rev)
  BY <1>3 DEF Call, CallOwes, AwaitsAt
<1>5. (\A s : ~CallOwes(x, s)) /\ \A s, n : AwaitsAt(x, s, n) => s = t
  BY <1>1 DEF CallOwes, AwaitsAt
<1> HIDE DEF x, y, rest, t
<1>6. /\ calls \in Seq(Call) /\ Owing(calls) = {s \in Topics : CallOwes(y, s)} \cup Owing(rest)
      /\ \A s, n : Awaiting(calls, s, n) <=> AwaitsAt(y, s, n) \/ Awaiting(rest, s, n)
  BY <1>2, <1>4, MoreCalls
<1> HIDE DEF calls
<1>7. RowsType /\ HeldInv /\ process # "down"
  BY <1>1, NextCall DEF JobsInv
<1>8. UNCHANGED <<inst, topic, lib, gone, version, member, verdict, snap, uq, urun, aq, arun, orphan, rstat,
                  worker, checks, process, lost, stuck>>
  BY <1>1 DEF rows, queues, ghosts
<1>9. HeldInv' /\ RowsType'
  <2>1. HeldInv'
    BY <1>7, <1>8, HeldKept
  <2>2. RowsType'
    BY <1>7, <1>8 DEF RowsType
  <2> QED BY <2>1, <2>2
<1>10. \A s \in Topics : Digest(s)' = Digest(s)
  BY <1>8 DEF Digest, LiveMembers, AllMembers
<1>11. ASSUME NEW s \in Topics
       PROVE  \/ Awaiting(calls, s, topic'[s].rev)
              \/ (topic'[s].rev = topic[s].rev /\ topic'[s].rstatus = topic[s].rstatus
                  /\ ~Awaiting(thread[c], s, topic[s].rev))
  <2>1. CASE Awaiting(thread[c], s, topic[s].rev)
    <3>1. CASE s = t
      BY <1>4, <1>6, <1>8, <3>1
    <3>2. CASE s # t
      BY <1>2, <1>5, <1>6, <1>8, <2>1, <3>2
    <3> QED BY <3>1, <3>2
  <2>2. CASE ~Awaiting(thread[c], s, topic[s].rev)
    BY <1>8, <2>2
  <2> QED BY <2>1, <2>2
<1>12. Owing(thread[c]) \subseteq Owing(calls)
  BY <1>2, <1>5, <1>6
<1>13. stuck \subseteq stuck' /\ lost \subseteq lost'
  BY <1>8
<1> QED BY <1>1, <1>6, <1>7, <1>8, <1>9, <1>10, <1>11, <1>12, <1>13, ThreadStep

LEMMA MarkPendingCall ==
  ASSUME JobsInv, NEW c \in Clients, CallMarkPending(c)
  PROVE  JobsInv'
<1> DEFINE x == Head(thread[c])
           rest == Tail(thread[c])
           t == x.t
           now == topic[t].rev = x.n
<1>1. /\ thread[c] # << >> /\ x.op = "astatus" /\ Owes(c, rest)
      /\ topic' = IF now THEN [topic EXCEPT ![t].rstatus = "pending"] ELSE topic
      /\ stuck' = IF now /\ ~ABacked(t) THEN stuck \cup {t} ELSE stuck
      /\ UNCHANGED <<inst, lib, gone, version, member, verdict, moves, cand, snap, queues, worker, checks,
                     process, lost, spent>>
  BY DEF CallMarkPending
<1>2. /\ x \in Call /\ rest \in Seq(Call) /\ process # "down"
      /\ Owing(thread[c]) = {s \in Topics : CallOwes(x, s)} \cup Owing(rest)
      /\ \A s, n : Awaiting(thread[c], s, n) <=> AwaitsAt(x, s, n) \/ Awaiting(rest, s, n)
  BY <1>1, NextCall
<1>3. t \in Topics
  BY <1>1, <1>2 DEF Call
<1>4. (\A s : ~CallOwes(x, s)) /\ \A s, n : AwaitsAt(x, s, n) => s = t /\ n = x.n
  BY <1>1 DEF CallOwes, AwaitsAt
<1>5. RowsType /\ HeldInv /\ topic \in [Topics -> TopicRow]
  BY DEF JobsInv, RowsType
<1>6. /\ topic' \in [Topics -> TopicRow]
      /\ \A s \in Topics : topic'[s].rev = topic[s].rev /\ topic'[s].ustatus = topic[s].ustatus
                           /\ topic'[s].udigest = topic[s].udigest
      /\ now => topic'[t].rstatus = "pending"
      /\ \A s \in Topics : s # t \/ ~now => topic'[s].rstatus = topic[s].rstatus
  BY <1>1, <1>3, <1>5 DEF TopicRow
<1> HIDE DEF x, rest, t
<1>7. UNCHANGED <<inst, lib, gone, version, member, verdict, snap, uq, urun, aq, arun, orphan, rstat, worker,
                  checks, process, lost>>
  BY <1>1 DEF queues
<1>8. HeldInv' /\ RowsType' /\ stuck \subseteq stuck' /\ lost \subseteq lost'
  <2>1. HeldInv'
    BY <1>5, <1>7, HeldKept
  <2>2. stuck' \subseteq Topics /\ stuck \subseteq stuck'
    BY <1>1, <1>3, <1>5 DEF RowsType
  <2>3. RowsType'
    BY <1>5, <1>6, <1>7, <2>2 DEF RowsType
  <2> QED BY <1>7, <2>1, <2>2, <2>3
<1>9. \A s \in Topics : Digest(s)' = Digest(s)
  BY <1>6, <1>7 DEF Digest, LiveMembers, AllMembers
<1>10. \A s \in Topics : ABacked(s)' = ABacked(s)
  BY <1>6, <1>7 DEF ABacked, AJob
<1>11. ASSUME NEW s \in Topics
       PROVE  \/ Awaiting(rest, s, topic'[s].rev) \/ s \in stuck'
              \/ topic'[s].rstatus \in {"pending", "running"} /\ ABacked(s)'
              \/ (topic'[s].rev = topic[s].rev /\ topic'[s].rstatus = topic[s].rstatus
                  /\ ~Awaiting(thread[c], s, topic[s].rev))
  <2>1. CASE s = t /\ now
    <3>1. CASE ABacked(t)
      BY <1>3, <1>6, <1>10, <2>1, <3>1
    <3>2. CASE ~ABacked(t)
      BY <1>1, <2>1, <3>2
    <3> QED BY <3>1, <3>2
  <2>2. CASE ~(s = t /\ now)
    <3>1. ~AwaitsAt(x, s, topic[s].rev)
      BY <1>4, <2>2
    <3> QED BY <1>2, <1>6, <2>2, <3>1
  <2> QED BY <2>1, <2>2
<1>12. Owing(thread[c]) \subseteq Owing(rest)
  BY <1>2, <1>4
<1> QED BY <1>1, <1>2, <1>6, <1>7, <1>8, <1>9, <1>11, <1>12, ThreadStep

\* A launch starts at the claim, or changes nothing.
LEMMA LaunchStep ==
  ASSUME WorkType, BusyInv, StopInv, process # "down", NEW k \in Kinds, worker' = Launched(k),
         UNCHANGED <<urun, arun, orphan, rstat, process>>,
         thread' \in Threads, checks' \in [Kinds -> Nat]
  PROVE  /\ WorkType' /\ BusyInv' /\ StopInv' /\ OwedByRouting' = OwedByRouting
         /\ worker'["u"].pc \in {"ask", "save", "done"} =>
              worker["u"].pc \in {"ask", "save", "done"} /\ worker'["u"].seen = worker["u"].seen
         /\ worker'["r"].pc = "insert" => worker["r"].pc = "insert" /\ worker'["r"].seen = worker["r"].seen
<1> DEFINE w == [pc |-> "claim", cancelled |-> FALSE, left |-> {}, dirty |-> {},
                 out |-> "none", seen |-> NoDigest]
<1>1. CASE worker[k].pc # "off"
  <2>1. worker' = worker
    BY <1>1 DEF Launched
  <2>2. WorkType'
    BY <2>1 DEF WorkType, Threads
  <2>3. BusyInv' /\ OwedByRouting' = OwedByRouting
    BY <2>1 DEF BusyInv, OwedByRouting, RStep
  <2>4. StopInv'
    BY <2>1 DEF StopInv
  <2> QED BY <2>1, <2>2, <2>3, <2>4
<1>2. CASE worker[k].pc = "off"
  <2>1. worker' = [worker EXCEPT ![k] = w]
    BY <1>2 DEF Launched
  <2>2. w \in UWorker /\ w \in AWorker /\ w \in RWorker
    BY FirstDigest DEF UWorker, AWorker, RWorker, NoDigest
  <2>3. w.pc = "claim" /\ w.cancelled = FALSE /\ w.left = {} /\ w.dirty = {}
    OBVIOUS
  <2> HIDE DEF w
  <2>4. /\ worker'[k] = w /\ \A j \in Kinds \ {k} : worker'[j] = worker[j]
        /\ worker' \in [Kinds -> {Idle} \cup UWorker \cup AWorker \cup RWorker]
    BY <2>1, <2>2 DEF WorkType
  <2>5. "u" \in Kinds /\ "a" \in Kinds /\ "r" \in Kinds
    BY DEF Kinds
  <2>6. WorkType'
    BY <2>2, <2>4, <2>5 DEF WorkType, Threads
  <2>7. BusyInv'
    BY <1>2, <2>3, <2>4, <2>5 DEF BusyInv, UBusy, ABusy, RBusy
  <2>8. StopInv'
    BY <2>3, <2>4, <2>5 DEF StopInv
  <2>9. OwedByRouting' = OwedByRouting
    BY <1>2, <2>3, <2>4, <2>5 DEF OwedByRouting, RStep
  <2>10. worker'["u"].pc \in {"ask", "save", "done"} => worker'["u"] = worker["u"]
    BY <2>3, <2>4, <2>5
  <2>11. worker'["r"].pc = "insert" => worker'["r"] = worker["r"]
    BY <2>3, <2>4, <2>5
  <2> QED BY <2>6, <2>7, <2>8, <2>9, <2>10, <2>11
<1> QED BY <1>1, <1>2

\* The understandings under way stay; a goroutine that has none is not there.
LEMMA AtWork ==
  ASSUME QueueType, BusyInv, StopInv
  PROVE  /\ \A k \in Kinds : worker[k].pc # "off" => process # "down"
         /\ worker["u"].pc \in UBusy => urun \in Row /\ urun # NoJob
         /\ worker["a"].pc \in ABusy => arun \in Row /\ arun # NoJob
<1>1. \A k \in Kinds : worker[k].pc # "off" => process # "down"
  BY DEF StopInv, Idle
<1>2. "u" \in Kinds /\ "a" \in Kinds
  BY DEF Kinds
<1>3. worker["u"].pc \in UBusy => urun # NoJob
  BY <1>1, <1>2 DEF BusyInv, UBusy
<1>4. worker["a"].pc \in ABusy => arun # NoJob
  BY <1>1, <1>2 DEF BusyInv, ABusy
<1> QED BY <1>1, <1>3, <1>4 DEF QueueType, JobRow

\* Nothing of what the job tables of "u" and "a" say changes.
LEMMA WorkStep ==
  ASSUME JobsInv, UNCHANGED <<topic, uq, urun, aq, arun, orphan, lost, stuck>>,
         RowsType', HeldInv', WorkType', BusyInv', StopInv',
         worker'["u"].pc \in {"ask", "save", "done"} =>
           \/ worker'["u"].seen = Digest(urun.t)'
           \/ worker["u"].pc \in {"ask", "save", "done"} /\ worker'["u"].seen = worker["u"].seen,
         \A t \in Topics : Due(t)' \/ (Digest(t)' = Digest(t) /\ ~Due(t)),
         \A t \in Topics : Awaited(t) => Awaited(t)'
  PROVE  JobsInv'
<1>1. /\ RowsType /\ QueueType /\ CountInv /\ OnceInv /\ StatusHonest /\ RouteInv
      /\ UnderstandingCatchesUp /\ SeenInv /\ BusyInv /\ StopInv
  BY DEF JobsInv
<1>2. QueueType'
  BY <1>1 DEF QueueType
<1>3. CountInv' /\ OnceInv' /\ StatusHonest'
  BY <1>1, CountKept, OnceKept, StatusKept
<1>4. RouteInv'
  <2>1. \A t \in Topics :
           \/ Awaited(t)' \/ t \in stuck'
           \/ /\ topic'[t].rev = topic[t].rev /\ topic'[t].rstatus = topic[t].rstatus
              /\ ~Awaited(t) /\ t \notin stuck
    OBVIOUS
  <2> QED BY <1>1, <2>1, RouteKept
<1>5. UnderstandingCatchesUp' /\ SeenInv'
  <2>1. worker["u"].pc \in {"ask", "save", "done"} => urun # NoJob
    BY <1>1, AtWork DEF UBusy
  <2>2. urun \in JobRow
    BY <1>1 DEF QueueType
  <2>3. \A t \in Topics :
          \/ Due(t)'
          \/ /\ topic'[t].ustatus = topic[t].ustatus /\ topic'[t].udigest = topic[t].udigest
             /\ Digest(t)' = Digest(t) /\ ~Due(t)
    OBVIOUS
  <2> QED BY <1>1, <2>1, <2>2, <2>3, SeenKept
<1> QED BY <1>2, <1>3, <1>4, <1>5 DEF JobsInv

\* A step of a goroutine that changes no row at all.
LEMMA WorkOnly ==
  ASSUME JobsInv, UNCHANGED <<inst, topic, lib, gone, version, member, verdict, rstat, uq, urun, aq, arun,
                              orphan, lost, stuck>>,
         snap' \in [Topics -> Digests],
         WorkType', BusyInv', StopInv',
         worker'["u"].pc \in {"ask", "save", "done"} =>
           \/ worker'["u"].seen = Digest(urun.t)'
           \/ worker["u"].pc \in {"ask", "save", "done"} /\ worker'["u"].seen = worker["u"].seen,
         worker'["r"].pc = "insert" => worker["r"].pc = "insert" /\ worker'["r"].seen = worker["r"].seen,
         \A t \in Topics : t \in Owed => t \in Owed',
         \A t \in Topics : Awaited(t) => Awaited(t)'
  PROVE  JobsInv'
<1>1. RowsType /\ HeldInv
  BY DEF JobsInv
<1>2. RowsType' /\ HeldInv'
  BY <1>1, HeldKept DEF RowsType
<1>3. \A t \in Topics : Digest(t)' = Digest(t)
  BY DEF Digest, LiveMembers, AllMembers
<1>4. \A t \in Topics : Due(t) => Due(t)'
  BY DEF Due
<1> QED BY <1>2, <1>3, <1>4, WorkStep

LEMMA LaunchCall ==
  ASSUME JobsInv, NEW c \in Clients, CallLaunch(c)
  PROVE  JobsInv'
<1> DEFINE x == Head(thread[c])
           rest == Tail(thread[c])
<1>1. /\ thread[c] # << >> /\ x.op \in {"ulaunch", "alaunch", "rlaunch"} /\ Owes(c, rest)
      /\ worker' = Launched(LaunchOf[x.op]) /\ LaunchOf[x.op] \in Kinds
      /\ UNCHANGED <<inst, rows, queues, checks, process, ghosts>>
  BY DEF CallLaunch, LaunchOf, Kinds
<1>2. /\ x \in Call /\ rest \in Seq(Call) /\ process # "down" /\ thread \in Threads
      /\ Owing(thread[c]) = {s \in Topics : CallOwes(x, s)} \cup Owing(rest)
      /\ \A s, n : Awaiting(thread[c], s, n) <=> AwaitsAt(x, s, n) \/ Awaiting(rest, s, n)
  BY <1>1, NextCall
<1>3. (\A s : ~CallOwes(x, s)) /\ \A s, n : ~AwaitsAt(x, s, n)
  BY <1>1 DEF CallOwes, AwaitsAt
<1> HIDE DEF x, rest
<1>4. WorkType /\ BusyInv /\ StopInv
  BY DEF JobsInv
<1>5. thread' \in Threads /\ checks' \in [Kinds -> Nat]
  BY <1>1, <1>2, <1>4, OneThread DEF WorkType
<1>6. UNCHANGED <<urun, arun, orphan, rstat, process, topic>>
  BY <1>1 DEF queues, rows
<1>7. /\ WorkType' /\ BusyInv' /\ StopInv' /\ OwedByRouting' = OwedByRouting
      /\ worker'["u"].pc \in {"ask", "save", "done"} =>
           worker["u"].pc \in {"ask", "save", "done"} /\ worker'["u"].seen = worker["u"].seen
      /\ worker'["r"].pc = "insert" => worker["r"].pc = "insert" /\ worker'["r"].seen = worker["r"].seen
  BY <1>1, <1>2, <1>4, <1>5, <1>6, LaunchStep
<1>8. /\ \A t \in Topics : t \in Owed /\ (t \in Owing(thread[c]) => t \in Owing(rest)) => t \in Owed'
      /\ \A t \in Topics :
           Awaited(t) /\ topic'[t].rev = topic[t].rev
           /\ (Awaiting(thread[c], t, topic[t].rev) => Awaiting(rest, t, topic[t].rev)) => Awaited(t)'
  BY <1>1, <1>2, <1>7, GoingOn
<1>9. \A t \in Topics : (t \in Owed => t \in Owed') /\ (Awaited(t) => Awaited(t)')
  BY <1>2, <1>3, <1>6, <1>8
<1>10. snap' \in [Topics -> Digests]
  BY <1>1 DEF JobsInv, RowsType, rows
<1>11. UNCHANGED <<inst, topic, lib, gone, version, member, verdict, rstat, uq, urun, aq, arun, orphan, lost, stuck>>
  BY <1>1 DEF rows, queues, ghosts
<1> QED BY <1>7, <1>9, <1>10, <1>11, WorkOnly

LEMMA QueueActivationCall ==
  ASSUME JobsInv, NEW c \in Clients, CallQueueActivation(c)
  PROVE  JobsInv'
<1> DEFINE x == Head(thread[c])
           rest == Tail(thread[c])
           job == [t |-> x.t, n |-> x.n]
           old == {k \in DOMAIN aq : aq[k] = job}
           k == CHOOSE j \in old : TRUE
           y == [op |-> "astatus", t |-> job.t, n |-> job.n]
           calls == <<y>> \o rest
<1>1. /\ thread[c] # << >> /\ x.op = "ainsert" /\ Owes(c, calls)
      /\ aq' = IF job \in {arun, orphan["a"]} THEN aq
               ELSE Append(IF old = {} THEN aq ELSE Without(aq, k), job)
      /\ UNCHANGED <<inst, rows, uq, urun, arun, orphan, rstat, worker, checks, process, ghosts>>
  BY DEF CallQueueActivation
<1>2. /\ x \in Call /\ rest \in Seq(Call) /\ process # "down" /\ thread \in Threads
      /\ Owing(thread[c]) = {s \in Topics : CallOwes(x, s)} \cup Owing(rest)
      /\ \A s, n : Awaiting(thread[c], s, n) <=> AwaitsAt(x, s, n) \/ Awaiting(rest, s, n)
  BY <1>1, NextCall
<1>3. x.t \in Topics /\ x.n \in Nat /\ job \in Row /\ job.t = x.t /\ job.n = x.n
  BY <1>1, <1>2 DEF Call, Row
<1>4. y \in Call /\ (\A s : ~CallOwes(y, s)) /\ AwaitsAt(y, x.t, x.n)
  BY <1>3 DEF Call, CallOwes, AwaitsAt
<1>5. (\A s : ~CallOwes(x, s)) /\ \A s, n : AwaitsAt(x, s, n) => s = x.t /\ n = x.n
  BY <1>1 DEF CallOwes, AwaitsAt
<1>6. /\ aq \in Seq(Row) /\ Distinct(aq) /\ arun \notin Elems(aq) /\ orphan["a"] \notin Elems(aq)
      /\ WorkType /\ BusyInv /\ StopInv /\ RowsType /\ QueueType /\ OnceInv /\ HeldInv /\ CountInv
      /\ StatusHonest /\ RouteInv /\ UnderstandingCatchesUp /\ SeenInv
  BY DEF JobsInv, QueueType, OnceInv
<1> HIDE DEF x, rest
<1>7. /\ aq' \in Seq(Row) /\ Distinct(aq') /\ arun \notin Elems(aq') /\ orphan["a"] \notin Elems(aq')
      /\ Elems(aq') \cup {job} = Elems(aq) \cup {job}
  <2> HIDE DEF job
  <2>1. CASE job \in {arun, orphan["a"]}
    BY <1>1, <1>6, <2>1
  <2>2. CASE job \notin {arun, orphan["a"]} /\ old = {}
    <3>1. job \notin Elems(aq)
      BY <2>2 DEF Elems
    <3>2. aq' = Append(aq, job)
      BY <1>1, <2>2
    <3>3. /\ Append(aq, job) \in Seq(Row) /\ Elems(Append(aq, job)) = Elems(aq) \cup {job}
          /\ Distinct(aq) /\ job \notin Elems(aq) => Distinct(Append(aq, job))
      BY <1>3, <1>6, ElemsOfAppend
    <3> QED BY <1>6, <2>2, <3>1, <3>2, <3>3
  <2>3. CASE job \notin {arun, orphan["a"]} /\ old # {}
    <3>1. k \in DOMAIN aq /\ aq[k] = job
      BY <2>3
    <3> HIDE DEF k
    <3> DEFINE v == Without(aq, k)
    <3>2. /\ v \in Seq(Row) /\ Elems(aq) = Elems(v) \cup {job} /\ Distinct(v) /\ job \notin Elems(v)
      BY <1>6, <3>1, ElemsOfWithout
    <3>3. aq' = Append(v, job)
      BY <1>1, <2>3
    <3> HIDE DEF v
    <3>4. /\ Append(v, job) \in Seq(Row) /\ Elems(Append(v, job)) = Elems(v) \cup {job}
          /\ Distinct(v) /\ job \notin Elems(v) => Distinct(Append(v, job))
      BY <1>3, <3>2, ElemsOfAppend
    <3> QED BY <1>6, <2>3, <3>2, <3>3, <3>4
  <2> QED BY <2>1, <2>2, <2>3
<1> HIDE DEF old, k
<1>8. UNCHANGED <<inst, topic, lib, gone, version, member, verdict, snap, uq, urun, arun, orphan, rstat,
                  worker, checks, process, lost, stuck>>
  BY <1>1 DEF rows, ghosts
<1>9. ASSUME NEW s \in Topics, ~(s = x.t /\ topic[s].rev = x.n) PROVE ABacked(s)' = ABacked(s)
  <2>1. AJob(s) # job /\ AJob(s)' = AJob(s)
    BY <1>3, <1>8, <1>9 DEF AJob
  <2>2. \A q, a : (\E j \in DOMAIN q : q[j] = a) <=> a \in Elems(q)
    BY DEF Elems
  <2>3. ABacked(s) <=> AJob(s) \in {arun, orphan["a"]} \/ AJob(s) \in Elems(aq)
    BY <2>2 DEF ABacked
  <2>4. ABacked(s)' <=> AJob(s) \in {arun, orphan["a"]} \/ AJob(s) \in Elems(aq')
    BY <1>8, <2>1, <2>2 DEF ABacked
  <2> HIDE DEF job
  <2>5. AJob(s) \in Elems(aq) <=> AJob(s) \in Elems(aq')
    BY <1>7, <2>1
  <2>6. ABacked(s)' <=> ABacked(s)
    BY <2>3, <2>4, <2>5
  <2>7. ABacked(s) \in BOOLEAN /\ ABacked(s)' \in BOOLEAN
    BY DEF ABacked
  <2> QED BY <2>6, <2>7
<1> HIDE DEF y, job
<1>10. /\ calls \in Seq(Call) /\ Owing(calls) = {s \in Topics : CallOwes(y, s)} \cup Owing(rest)
       /\ \A s, n : Awaiting(calls, s, n) <=> AwaitsAt(y, s, n) \/ Awaiting(rest, s, n)
  BY <1>2, <1>4, MoreCalls
<1> HIDE DEF calls
<1>11. thread' \in Threads
  BY <1>1, <1>2, <1>10, OneThread
<1>12. WorkType' /\ BusyInv' /\ StopInv' /\ OwedByRouting' = OwedByRouting
  BY <1>2, <1>6, <1>8, <1>11, WorkKept
<1>13. /\ \A t \in Topics : t \in Owed /\ (t \in Owing(thread[c]) => t \in Owing(calls)) => t \in Owed'
       /\ \A t \in Topics : Awaiting(calls, t, topic'[t].rev) => Awaited(t)'
       /\ \A t \in Topics :
            Awaited(t) /\ topic'[t].rev = topic[t].rev
            /\ (Awaiting(thread[c], t, topic[t].rev) => Awaiting(calls, t, topic[t].rev)) => Awaited(t)'
  BY <1>1, <1>2, <1>10, <1>12, GoingOn
<1>14. RouteInv'
  <2> SUFFICES ASSUME NEW s \in Topics
               PROVE  \/ Awaited(s)' \/ s \in stuck'
                      \/ (topic'[s].rstatus \in {"pending", "running"} <=> ABacked(s)')
    BY DEF RouteInv
  <2>1. CASE s = x.t /\ topic[s].rev = x.n
    BY <1>4, <1>8, <1>10, <1>13, <2>1
  <2>2. CASE ~(s = x.t /\ topic[s].rev = x.n)
    <3>1. Awaiting(thread[c], s, topic[s].rev) => Awaiting(calls, s, topic[s].rev)
      BY <1>2, <1>5, <1>10, <2>2
    <3>2. Awaited(s) => Awaited(s)'
      BY <1>8, <1>13, <3>1
    <3>3. ABacked(s)' = ABacked(s)
      BY <1>9, <2>2
    <3>4. Awaited(s) \/ s \in stuck \/ (topic[s].rstatus \in {"pending", "running"} <=> ABacked(s))
      BY <1>6 DEF RouteInv
    <3> QED BY <1>8, <3>2, <3>3, <3>4
  <2> QED BY <2>1, <2>2
<1>15. RowsType' /\ QueueType' /\ CountInv' /\ OnceInv' /\ StatusHonest' /\ HeldInv'
  <2>1. RowsType'
    BY <1>6, <1>8 DEF RowsType
  <2>2. QueueType'
    BY <1>6, <1>7, <1>8 DEF QueueType
  <2>3. OnceInv'
    BY <1>6, <1>7, <1>8 DEF OnceInv
  <2>4. CountInv' /\ StatusHonest' /\ HeldInv'
    BY <1>6, <1>8, CountKept, StatusKept, HeldKept
  <2> QED BY <2>1, <2>2, <2>3, <2>4
<1>16. UnderstandingCatchesUp' /\ SeenInv'
  <2>1. \A t \in Topics : Digest(t)' = Digest(t)
    BY <1>8 DEF Digest, LiveMembers, AllMembers
  <2>2. \A t \in Topics : Due(t) => Due(t)'
    BY <1>2, <1>5, <1>8, <1>10, <1>13 DEF Due
  <2>3. worker["u"].pc \in {"ask", "save", "done"} => urun # NoJob
    BY <1>2, <1>6 DEF BusyInv, UBusy
  <2>4. urun \in JobRow
    BY <1>6 DEF QueueType
  <2> QED BY <1>6, <1>8, <2>1, <2>2, <2>3, <2>4, SeenKept
<1> QED BY <1>12, <1>14, <1>15, <1>16 DEF JobsInv

-----------------------------------------------------------------------------
(* The understanding worker.                                                 *)

\* A goroutine of "u" or "a" goes on.
LEMMA GoroutineStep ==
  ASSUME WorkType, BusyInv, StopInv, NEW k \in {"u", "a"}, worker[k].pc \notin {"off", "retire"},
         NEW w, (k = "u" /\ w \in UWorker) \/ (k = "a" /\ w \in AWorker),
         w.cancelled = worker[k].cancelled, worker' = [worker EXCEPT ![k] = w],
         UNCHANGED <<rstat, checks, thread, process>>,
         k = "u" => arun' = arun /\ (urun' # NoJob <=> w.pc \in UBusy),
         k = "a" => urun' = urun /\ (arun' # NoJob <=> w.pc \in ABusy),
         \/ orphan' = orphan
         \/ /\ process # "up" /\ w.pc = "retire"
            /\ \A j \in {"u", "a"} \ {k} : orphan'[j] = orphan[j]
  PROVE  /\ WorkType' /\ BusyInv' /\ StopInv' /\ process # "down"
         /\ worker'[k] = w /\ \A j \in Kinds \ {k} : worker'[j] = worker[j]
         /\ worker'["r"] = worker["r"]
         /\ OwedByRouting' = OwedByRouting /\ \A t \in Topics : t \in Owed' <=> t \in Owed
<1>0. "u" \in Kinds /\ "a" \in Kinds /\ "r" \in Kinds /\ k # "r" /\ k \in Kinds
  BY DEF Kinds
<1>1. process # "down"
  BY <1>0 DEF StopInv, Idle
<1>2. /\ worker'[k] = w /\ \A j \in Kinds \ {k} : worker'[j] = worker[j]
      /\ worker' \in [Kinds -> {Idle} \cup UWorker \cup AWorker \cup RWorker]
  BY <1>0 DEF WorkType
<1>3. w.pc # "off"
  BY DEF UWorker, AWorker, UBusy, ABusy
<1>4. WorkType'
  BY <1>0, <1>2 DEF WorkType
<1>5. BusyInv'
  BY <1>0, <1>1, <1>2 DEF BusyInv
<1>6. StopInv'
  <2>1. process' = process /\ process # "down"
    BY <1>1
  <2>2. CASE orphan' = orphan
    BY <1>0, <1>2, <1>3, <2>1, <2>2 DEF StopInv
  <2>3. CASE /\ process # "up" /\ w.pc = "retire"
             /\ \A j \in {"u", "a"} \ {k} : orphan'[j] = orphan[j]
    BY <1>0, <1>2, <2>1, <2>3 DEF StopInv
  <2> QED BY <2>2, <2>3
<1>7. OwedByRouting' = OwedByRouting
  BY <1>0, <1>2 DEF OwedByRouting, RStep
<1>8. \A t \in Topics : t \in Owed' <=> t \in Owed
  <2>1. \A c \in Clients : OwedBy(c)' = OwedBy(c)
    BY DEF OwedBy
  <2> QED BY <1>7, <2>1 DEF Owed
<1> QED BY <1>0, <1>1, <1>2, <1>4, <1>5, <1>6, <1>7, <1>8

LEMMA CallsStay ==
  ASSUME UNCHANGED thread, NEW t \in Topics, topic'[t].rev = topic[t].rev
  PROVE  Awaited(t)' <=> Awaited(t)
BY DEF Awaited, Awaits

LEMMA UnderstandingWork ==
  ASSUME JobsInv,
         \/ ClaimUnderstanding /\ (uq = << >> \/ worker["u"].cancelled)
         \/ (\E answer \in Answers : Ask(answer)) \/ SaveSnapshot
  PROVE  JobsInv'
<1>0. /\ WorkType /\ BusyInv /\ StopInv /\ QueueType /\ RowsType /\ topic \in [Topics -> TopicRow]
      /\ "u" \in Kinds
  BY DEF JobsInv, RowsType, Kinds
<1>1. ASSUME NEW w \in UWorker, worker["u"].pc \notin {"off", "retire"},
             worker' = [worker EXCEPT !["u"] = w], w.cancelled = worker["u"].cancelled,
             urun # NoJob <=> w.pc \in UBusy,
             w.pc \in {"ask", "save", "done"} =>
               \/ w.seen = Digest(urun.t)
               \/ worker["u"].pc \in {"ask", "save", "done"} /\ w.seen = worker["u"].seen,
             UNCHANGED <<inst, topic, lib, gone, version, member, verdict, queues, checks, thread, process,
                         lost, stuck>>,
             snap' \in [Topics -> Digests]
      PROVE  JobsInv'
  <2>1. UNCHANGED <<uq, urun, aq, arun, orphan, rstat>>
    BY <1>1 DEF queues
  <2>2. /\ WorkType' /\ BusyInv' /\ StopInv' /\ worker'["u"] = w /\ worker'["r"] = worker["r"]
        /\ \A t \in Topics : t \in Owed' <=> t \in Owed
    BY <1>0, <1>1, <2>1, GoroutineStep
  <2>3. \A t \in Topics : Awaited(t)' <=> Awaited(t)
    BY <1>1, CallsStay
  <2>4. Digest(urun.t)' = Digest(urun.t)
    BY <1>1, <2>1 DEF Digest, LiveMembers, AllMembers
  <2>5. worker'["u"].pc \in {"ask", "save", "done"} =>
           \/ worker'["u"].seen = Digest(urun.t)'
           \/ worker["u"].pc \in {"ask", "save", "done"} /\ worker'["u"].seen = worker["u"].seen
    BY <1>1, <2>2, <2>4
  <2> QED BY <1>1, <2>1, <2>2, <2>3, <2>5, WorkOnly
<1> DEFINE old == worker["u"]
<1>2. old.pc # "off" => old \in UWorker /\ process # "down"
  BY <1>0, AtWork DEF WorkType, Idle
<1>3. CASE ClaimUnderstanding /\ (uq = << >> \/ worker["u"].cancelled)
  <2> DEFINE w == [old EXCEPT !.pc = "retire"]
  <2>1. /\ old.pc = "claim" /\ worker' = [worker EXCEPT !["u"] = w]
        /\ UNCHANGED <<inst, topic, lib, gone, version, member, verdict, queues, checks, thread, process,
                       lost, stuck, snap>>
    BY <1>0, <1>3 DEF ClaimUnderstanding, UStep, Goto, queues, ghosts
  <2>2. w \in UWorker /\ w.pc = "retire" /\ w.cancelled = old.cancelled
    BY <1>2, <2>1 DEF UWorker
  <2>3. ~(urun # NoJob)
    BY <1>0, <1>2, <2>1 DEF BusyInv, UBusy
  <2>4. w.pc \notin UBusy
    BY <2>2 DEF UBusy
  <2>5. snap' \in [Topics -> Digests]
    BY <1>0, <2>1 DEF RowsType
  <2> HIDE DEF w
  <2> QED BY <1>1, <2>1, <2>2, <2>3, <2>4, <2>5
<1>4. ASSUME UNCHANGED <<inst, rows, queues, checks, thread, process, ghosts>>
      PROVE  /\ UNCHANGED <<inst, topic, lib, gone, version, member, verdict, queues, checks, thread, process,
                            lost, stuck>>
             /\ snap' \in [Topics -> Digests]
  BY <1>0, <1>4 DEF rows, ghosts, RowsType
<1>5. old.pc \in UBusy => old \in UWorker /\ urun # NoJob /\ urun.t \in Topics
  BY <1>0, <1>2, AtWork DEF UBusy, Row
<1>7. ASSUME NEW answer \in Answers, Ask(answer) PROVE JobsInv'
  <2> DEFINE pc == IF answer = "ready" THEN "save" ELSE "done"
             w == [old EXCEPT !.pc = pc, !.out = answer]
  <2>1. /\ old.pc = "ask" /\ worker' = [worker EXCEPT !["u"].pc = pc, !["u"].out = answer]
        /\ UNCHANGED <<inst, rows, queues, checks, thread, process, ghosts>>
    BY <1>7 DEF Ask, UStep
  <2>2. worker["u"] \in UWorker /\ urun # NoJob
    BY <1>5, <2>1 DEF UBusy
  <2>3. pc \in {"save", "done"}
    OBVIOUS
  <2> HIDE DEF pc
  <2>4. worker' = [worker EXCEPT !["u"] = w]
    BY <1>0, <2>1 DEF WorkType
  <2>5. w \in UWorker /\ w.pc = pc /\ w.seen = old.seen /\ w.cancelled = old.cancelled
    BY <2>2, <2>3 DEF UWorker, UBusy
  <2>6. w.pc \in UBusy
    BY <2>3, <2>5 DEF UBusy
  <2> HIDE DEF w
  <2> QED BY <1>1, <1>4, <2>1, <2>2, <2>4, <2>5, <2>6
<1>8. CASE SaveSnapshot
  <2> DEFINE w == [old EXCEPT !.pc = "done"]
  <2>1. /\ old.pc = "save" /\ worker' = [worker EXCEPT !["u"] = w]
        /\ snap' = IF old.cancelled THEN snap ELSE [snap EXCEPT ![urun.t] = old.seen]
        /\ UNCHANGED <<inst, topic, lib, gone, version, member, verdict, queues, checks, thread, process, lost, stuck>>
    BY <1>0, <1>8 DEF SaveSnapshot, UStep, Goto, ghosts
  <2>2. worker["u"] \in UWorker /\ urun # NoJob /\ urun.t \in Topics
    BY <1>5, <2>1 DEF UBusy
  <2>3. w \in UWorker /\ w.pc = "done" /\ w.seen = old.seen /\ w.cancelled = old.cancelled
    BY <2>2 DEF UWorker, UBusy
  <2>4. w.pc \in UBusy
    BY <2>3 DEF UBusy
  <2>5. snap' \in [Topics -> Digests]
    <3>1. old.seen \in Digests /\ snap \in [Topics -> Digests]
      BY <1>0, <2>2 DEF UWorker, RowsType
    <3> HIDE DEF old, w
    <3> QED BY <2>1, <2>2, <3>1
  <2> HIDE DEF w
  <2> QED BY <1>1, <2>1, <2>2, <2>3, <2>4, <2>5
<1> QED BY <1>3, <1>7, <1>8

\* The reading sees the present topic: from here on a change has its own call, or is
\* in lost again.
LEMMA ReadInputStep ==
  ASSUME JobsInv, ReadInput
  PROVE  JobsInv'
<1>0. /\ WorkType /\ BusyInv /\ StopInv /\ QueueType /\ RowsType /\ topic \in [Topics -> TopicRow]
      /\ CountInv /\ OnceInv /\ StatusHonest /\ RouteInv /\ HeldInv /\ UnderstandingCatchesUp
      /\ "u" \in Kinds /\ "r" \in Kinds /\ "r" # "u"
  BY DEF JobsInv, RowsType, Kinds
<1> DEFINE old == worker["u"]
           t == urun.t
           same == urun.n = 0 /\ topic[t].udigest = Digest(t)
           pc == IF worker["u"].cancelled \/ same \/ LiveMembers(t) = {} THEN "done" ELSE "ask"
           out == CASE same -> "no_change"
                     [] LiveMembers(t) = {} -> "insufficient_evidence"
                     [] OTHER -> "none"
           w == [old EXCEPT !.pc = pc, !.seen = Digest(t), !.out = out]
<1>1. /\ old.pc = "read" /\ lost' = lost \ {t}
      /\ worker' = [worker EXCEPT !["u"].pc = pc, !["u"].seen = Digest(t), !["u"].out = out]
      /\ UNCHANGED <<inst, rows, queues, checks, thread, process, stuck, spent>>
  BY DEF ReadInput, UStep
<1>2. /\ UNCHANGED <<inst, topic, lib, gone, version, member, verdict, snap, checks, thread, process, stuck>>
      /\ UNCHANGED <<uq, urun, aq, arun, orphan, rstat>>
  BY <1>1 DEF rows, queues
<1>3. old \in UWorker /\ urun # NoJob /\ t \in Topics
  <2>1. old.pc # "off" /\ old.pc \in UBusy
    BY <1>1 DEF UBusy
  <2>2. old \in UWorker
    BY <1>0, <2>1 DEF WorkType, Idle
  <2> QED BY <1>0, <2>1, <2>2, AtWork DEF Row
<1>4. Digest(t) \in Digests
  <2>1. topic[t].rev \in Nat /\ LiveMembers(t) \subseteq Items
    BY <1>0, <1>3 DEF LiveMembers, AllMembers, TopicRow
  <2>2. version \in [Items -> Nat]
    BY <1>0 DEF RowsType
  <2> QED BY <2>1, <2>2 DEF Digest, Digests
<1>5. pc \in {"done", "ask"} /\ out \in {"none", "no_change"} \cup Answers
  BY DEF Answers
<1> HIDE DEF pc, out, same
<1>6. worker' = [worker EXCEPT !["u"] = w]
  BY <1>0, <1>1 DEF WorkType
<1>7. w \in UWorker /\ w.pc = pc /\ w.seen = Digest(t) /\ w.cancelled = old.cancelled
  BY <1>3, <1>4, <1>5 DEF UWorker, UBusy
<1>8. w.pc \in UBusy
  BY <1>5, <1>7 DEF UBusy
<1> HIDE DEF w
<1>9. /\ WorkType' /\ BusyInv' /\ StopInv' /\ worker'["u"] = w /\ worker'["r"] = worker["r"]
      /\ \A s \in Topics : s \in Owed' <=> s \in Owed
  BY <1>0, <1>1, <1>2, <1>3, <1>6, <1>7, <1>8, GoroutineStep
<1>10. RowsType' /\ QueueType'
  BY <1>0, <1>1, <1>2 DEF RowsType, QueueType
<1>11. CountInv' /\ OnceInv' /\ StatusHonest' /\ HeldInv'
  BY <1>0, <1>2, <1>9, CountKept, OnceKept, StatusKept, HeldKept
<1>12. RouteInv'
  <2>1. \A s \in Topics : Awaited(s)' <=> Awaited(s)
    BY <1>2, CallsStay
  <2> QED BY <1>0, <1>2, <2>1, RouteKept
<1>13. \A s \in Topics : Digest(s)' = Digest(s)
  BY <1>2 DEF Digest, LiveMembers, AllMembers
<1>14. UnderstandingCatchesUp'
  <2> SUFFICES ASSUME NEW s \in Topics, topic'[s].ustatus \in {"current", "insufficient_evidence"}
               PROVE  topic'[s].udigest = Digest(s)' \/ Due(s)'
    BY DEF UnderstandingCatchesUp, Due
  <2>1. s # t
    BY <1>0, <1>2 DEF StatusHonest
  <2>2. topic[s].udigest = Digest(s) \/ Due(s)
    BY <1>0, <1>2 DEF UnderstandingCatchesUp, Due
  <2>3. Due(s) => Due(s)'
    BY <1>1, <1>9, <2>1 DEF Due
  <2> QED BY <1>2, <1>13, <2>2, <2>3
<1>15. SeenInv'
  BY <1>2, <1>3, <1>7, <1>9, <1>13 DEF SeenInv
<1> QED BY <1>9, <1>10, <1>11, <1>12, <1>14, <1>15 DEF JobsInv

\* The rows of a topic, counted.
LEMMA Counts ==
  ASSUME uq \in Seq(Row), NEW t
  PROVE  /\ Cardinality(RowsOf(uq, t)) \in Nat
         /\ \A x : One(x) \in {0, 1} /\ (~x => One(x) = 0)
BY RowsFinite DEF One

\* Whatever goes on elsewhere: the status of an understanding does not depend on it.
LEMMA SettledKept ==
  ASSUME UnderstandingCatchesUp, UNCHANGED <<topic, lib, version, member>>,
         \A t \in Topics : Due(t) => Due(t)'
  PROVE  UnderstandingCatchesUp'
<1>1. \A t \in Topics : Digest(t)' = Digest(t)
  BY DEF Digest, LiveMembers, AllMembers
<1> QED BY <1>1 DEF UnderstandingCatchesUp, Due

LEMMA ClaimUnderstandingStep ==
  ASSUME JobsInv, ClaimUnderstanding, uq # << >>, ~worker["u"].cancelled
  PROVE  JobsInv'
<1> DEFINE old == worker["u"]
           w == [old EXCEPT !.pc = "read"]
           h == Head(uq)
<1>0. /\ WorkType /\ BusyInv /\ StopInv /\ QueueType /\ RowsType /\ topic \in [Topics -> TopicRow]
      /\ CountInv /\ OnceInv /\ StatusHonest /\ RouteInv /\ HeldInv /\ UnderstandingCatchesUp
      /\ uq \in Seq(Row) /\ "u" \in Kinds
  BY DEF JobsInv, RowsType, QueueType, Kinds
<1>1. /\ old.pc = "claim" /\ urun' = h /\ uq' = Tail(uq)
      /\ topic' = [topic EXCEPT ![h.t].ustatus = "running"]
      /\ worker' = [worker EXCEPT !["u"] = w]
      /\ UNCHANGED <<inst, lib, gone, version, member, verdict, snap, aq, arun, orphan, rstat,
                     checks, thread, process, lost, stuck>>
  BY <1>0 DEF ClaimUnderstanding, UStep, Goto, ghosts
<1>2. /\ h \in Row /\ Tail(uq) \in Seq(Row) /\ Elems(uq) = Elems(Tail(uq)) \cup {h}
      /\ h.t \in Topics /\ h # NoJob
  <2>1. h \in Row /\ Tail(uq) \in Seq(Row) /\ Elems(uq) = Elems(Tail(uq)) \cup {h}
    BY <1>0, ElemsOfTail
  <2> QED BY <2>1, NoRow DEF Row
<1>3. old \in UWorker /\ process # "down" /\ urun = NoJob
  BY <1>0, <1>1, AtWork DEF WorkType, Idle, BusyInv, UBusy
<1>4. w \in UWorker /\ w.pc = "read" /\ w.cancelled = old.cancelled
  BY <1>3 DEF UWorker, UBusy
<1>5. w.pc \in UBusy
  BY <1>4 DEF UBusy
<1> HIDE DEF w
<1>6. /\ WorkType' /\ BusyInv' /\ StopInv' /\ worker'["u"] = w /\ worker'["r"] = worker["r"]
      /\ \A t \in Topics : t \in Owed' <=> t \in Owed
  BY <1>0, <1>1, <1>2, <1>4, <1>5, GoroutineStep
<1> HIDE DEF h
<1>7. /\ topic' \in [Topics -> TopicRow] /\ topic'[h.t].ustatus = "running"
      /\ \A s \in Topics : topic'[s].rev = topic[s].rev /\ topic'[s].rstatus = topic[s].rstatus
                           /\ topic'[s].udigest = topic[s].udigest
      /\ \A s \in Topics \ {h.t} : topic'[s].ustatus = topic[s].ustatus
  BY <1>0, <1>1, <1>2 DEF TopicRow
<1>8. RowsType' /\ QueueType' /\ OnceInv' /\ HeldInv'
  <2>1. RowsType'
    BY <1>0, <1>1, <1>7 DEF RowsType
  <2>2. QueueType'
    BY <1>0, <1>1, <1>2 DEF QueueType, JobRow
  <2>3. OnceInv' /\ HeldInv'
    BY <1>0, <1>1, <1>6, OnceKept, HeldKept
  <2> QED BY <2>1, <2>2, <2>3
<1>9. CountInv'
  <2> SUFFICES ASSUME NEW t \in Topics
               PROVE  Cardinality(RowsOf(Tail(uq), t)) + One(h.t = t) + One(orphan["u"].t = t) <= 3
    BY <1>1 DEF CountInv
  <2>1. Cardinality(RowsOf(Tail(uq), t)) + One(h.t = t) <= Cardinality(RowsOf(uq, t))
    BY <1>0, CountTail DEF h
  <2>2. Cardinality(RowsOf(uq, t)) + One(urun.t = t) + One(orphan["u"].t = t) <= 3
    BY <1>0 DEF CountInv
  <2>3. One(urun.t = t) = 0
    BY <1>3, NoRow DEF One
  <2>4. /\ Cardinality(RowsOf(uq, t)) \in Nat /\ Cardinality(RowsOf(Tail(uq), t)) \in Nat
        /\ One(h.t = t) \in {0, 1} /\ One(orphan["u"].t = t) \in {0, 1}
    BY <1>0, <1>2, RowsFinite DEF One
  <2> QED BY <2>1, <2>2, <2>3, <2>4
<1>10. StatusHonest'
  <2> SUFFICES ASSUME NEW s \in Topics
               PROVE  /\ topic'[s].ustatus = "pending" => UPending(s)'
                      /\ topic'[s].ustatus = "running" => s \in {urun'.t, orphan'["u"].t}
                      /\ topic'[s].ustatus \notin {"pending", "running"} => ~UPending(s)' /\ urun'.t # s
    BY DEF StatusHonest
  <2>1. /\ topic[s].ustatus = "pending" => UPending(s)
        /\ topic[s].ustatus = "running" => s \in {urun.t, orphan["u"].t}
        /\ topic[s].ustatus \notin {"pending", "running"} => ~UPending(s) /\ urun.t # s
    BY <1>0 DEF StatusHonest
  <2>2. CASE s = h.t
    BY <1>1, <1>7, <2>2
  <2>3. CASE s # h.t
    <3>1. UPending(s) <=> \E r \in Elems(uq) : r.t = s
      BY DEF UPending, Elems
    <3>2. UPending(s)' <=> \E r \in Elems(Tail(uq)) : r.t = s
      BY <1>1 DEF UPending, Elems
    <3>3. UPending(s)' <=> UPending(s)
      BY <1>2, <2>3, <3>1, <3>2
    <3>4. urun.t # s
      BY <1>3, NoRow
    <3> QED BY <1>1, <1>7, <2>1, <2>3, <3>3, <3>4
  <2> QED BY <2>2, <2>3
<1>11. RouteInv'
  <2>1. \A t \in Topics : Awaited(t)' <=> Awaited(t)
    BY <1>1, <1>7, CallsStay
  <2>2. \A t \in Topics :
           \/ Awaited(t)' \/ t \in stuck'
           \/ /\ topic'[t].rev = topic[t].rev /\ topic'[t].rstatus = topic[t].rstatus
              /\ ~Awaited(t) /\ t \notin stuck
    BY <1>1, <1>7, <2>1
  <2> QED BY <1>0, <1>1, <2>2, RouteKept
<1>12. UnderstandingCatchesUp'
  <2>1. \A t \in Topics : Digest(t)' = Digest(t)
    BY <1>1, <1>7 DEF Digest, LiveMembers, AllMembers
  <2> QED BY <1>0, <1>1, <1>6, <1>7, <2>1 DEF UnderstandingCatchesUp
<1>13. SeenInv'
  BY <1>4, <1>6 DEF SeenInv
<1> QED BY <1>6, <1>8, <1>9, <1>10, <1>11, <1>12, <1>13 DEF JobsInv

LEMMA FinishUnderstandingStep ==
  ASSUME JobsInv, FinishUnderstanding
  PROVE  JobsInv'
<1> DEFINE old == worker["u"]
           job == urun
           t == job.t
<1>0. /\ WorkType /\ BusyInv /\ StopInv /\ QueueType /\ RowsType /\ topic \in [Topics -> TopicRow]
      /\ CountInv /\ OnceInv /\ StatusHonest /\ RouteInv /\ HeldInv /\ UnderstandingCatchesUp /\ SeenInv
      /\ uq \in Seq(Row) /\ "u" \in Kinds
  BY DEF JobsInv, RowsType, QueueType, Kinds
<1>1. /\ old.pc = "done" /\ urun' = NoJob
      /\ UNCHANGED <<inst, lib, gone, version, member, verdict, snap, uq, aq, arun, rstat,
                     checks, thread, process, lost, stuck>>
  BY DEF FinishUnderstanding, UStep, ghosts
<1>2. /\ old \in UWorker /\ process # "down" /\ urun \in Row /\ urun # NoJob /\ t \in Topics
  BY <1>0, <1>1, AtWork DEF WorkType, Idle, UBusy, Row
<1>3. /\ RowsType' /\ orphan' \in [{"u", "a"} -> JobRow] /\ orphan'["a"] = orphan["a"]
      /\ worker'["r"] = worker["r"]
      => QueueType' /\ OnceInv' /\ HeldInv'
  <2>1. orphan' \in [{"u", "a"} -> JobRow] => QueueType'
    BY <1>0, <1>1 DEF QueueType, JobRow
  <2>2. orphan'["a"] = orphan["a"] /\ worker'["r"] = worker["r"] => OnceInv' /\ HeldInv'
    BY <1>0, <1>1, OnceKept, HeldKept
  <2> QED BY <2>1, <2>2
<1>4. \A s \in Topics : NoJob.t # s
  BY NoRow
<1>5. \A s \in Topics :
        /\ Cardinality(RowsOf(uq, s)) \in Nat
        /\ Cardinality(RowsOf(uq, s)) + One(urun.t = s) + One(orphan["u"].t = s) <= 3
        /\ One(urun.t = s) \in {0, 1} /\ One(orphan["u"].t = s) \in {0, 1}
        /\ One(NoJob.t = s) = 0
  BY <1>0, <1>4, Counts DEF CountInv, One
<1>6. \A s \in Topics :
        /\ topic[s].ustatus = "pending" => UPending(s)
        /\ topic[s].ustatus = "running" => s \in {urun.t, orphan["u"].t}
        /\ topic[s].ustatus \notin {"pending", "running"} => ~UPending(s) /\ urun.t # s
  BY <1>0 DEF StatusHonest
<1>7. \A s \in Topics : UPending(s)' <=> UPending(s)
  BY <1>1 DEF UPending
<1>8. CASE old.cancelled
  <2> DEFINE w == [old EXCEPT !.pc = "retire"]
  <2>1. /\ worker' = [worker EXCEPT !["u"] = w] /\ orphan' = [orphan EXCEPT !["u"] = job] /\ topic' = topic
    BY <1>0, <1>8 DEF FinishUnderstanding, Goto
  <2>2. w \in UWorker /\ w.pc = "retire" /\ w.cancelled = old.cancelled
    BY <1>2 DEF UWorker
  <2>3. w.pc \notin UBusy
    BY <2>2 DEF UBusy
  <2> HIDE DEF w
  <2>4. orphan["u"] = NoJob /\ process # "up"
    BY <1>0, <1>1, <1>8 DEF StopInv
  <2>5. /\ orphan' \in [{"u", "a"} -> JobRow] /\ orphan'["u"] = urun /\ orphan'["a"] = orphan["a"]
    BY <1>0, <2>1 DEF QueueType
  <2>6. \A j \in {"u", "a"} \ {"u"} : orphan'[j] = orphan[j]
    BY <2>5
  <2>7. /\ WorkType' /\ BusyInv' /\ StopInv' /\ worker'["u"] = w /\ worker'["r"] = worker["r"]
        /\ \A s \in Topics : s \in Owed' <=> s \in Owed
    BY <1>0, <1>1, <2>1, <2>2, <2>3, <2>4, <2>6, GoroutineStep
  <2>8. RowsType'
    BY <1>0, <1>1, <2>1 DEF RowsType
  <2>9. CountInv'
    <3> SUFFICES ASSUME NEW s \in Topics
                 PROVE  Cardinality(RowsOf(uq, s)) + One(NoJob.t = s) + One(urun.t = s) <= 3
      BY <1>1, <2>5 DEF CountInv
    <3>1. One(orphan["u"].t = s) = 0
      BY <1>4, <2>4 DEF One
    <3> QED BY <1>5, <3>1
  <2>10. StatusHonest'
    BY <1>1, <1>4, <1>6, <1>7, <2>1, <2>4, <2>5 DEF StatusHonest
  <2>11. RouteInv'
    <3>1. \A s \in Topics : Awaited(s)' <=> Awaited(s)
      BY <1>1, <2>1, CallsStay
    <3> QED BY <1>0, <1>1, <2>1, <2>5, <3>1, RouteKept
  <2>12. UnderstandingCatchesUp'
    <3>1. \A s \in Topics : Due(s) => Due(s)'
      BY <1>1, <2>7 DEF Due
    <3> QED BY <1>0, <1>1, <2>1, <3>1, SettledKept
  <2>13. SeenInv'
    BY <2>2, <2>7 DEF SeenInv
  <2> QED BY <1>3, <2>5, <2>7, <2>8, <2>9, <2>10, <2>11, <2>12, <2>13 DEF JobsInv
<1>9. CASE ~old.cancelled
  <2> DEFINE w == [old EXCEPT !.pc = "claim"]
             row == FinishedRow(t)
  <2>1. /\ worker' = [worker EXCEPT !["u"] = w] /\ orphan' = orphan /\ topic' = [topic EXCEPT ![t] = row]
    BY <1>0, <1>9 DEF FinishUnderstanding, Goto
  <2>2. w \in UWorker /\ w.pc = "claim" /\ w.cancelled = old.cancelled
    BY <1>2 DEF UWorker
  <2>3. w.pc \notin UBusy
    BY <2>2 DEF UBusy
  <2> HIDE DEF w
  <2>4. /\ WorkType' /\ BusyInv' /\ StopInv' /\ worker'["u"] = w /\ worker'["r"] = worker["r"]
        /\ \A s \in Topics : s \in Owed' <=> s \in Owed
    BY <1>0, <1>1, <2>1, <2>2, <2>3, GoroutineStep
  <2>5. /\ row.rev = topic[t].rev /\ row.rstatus = topic[t].rstatus
        /\ row.ustatus = (IF UPending(t) THEN "pending" ELSE Understood(old.out))
        /\ row.udigest = (IF old.out = "failed" THEN topic[t].udigest ELSE old.seen)
        /\ Understood(old.out) \in {"failed", "insufficient_evidence", "current"}
        /\ old.out = "failed" <=> Understood(old.out) = "failed"
        /\ row \in TopicRow
    <3>1. topic[t] \in TopicRow /\ old.seen \in Digests
      BY <1>0, <1>2 DEF UWorker
    <3>2. Understood(old.out) \in {"failed", "insufficient_evidence", "current"}
          /\ (old.out = "failed" <=> Understood(old.out) = "failed")
      BY DEF Understood
    <3>3. /\ row.rev = topic[t].rev /\ row.rstatus = topic[t].rstatus
          /\ row.ustatus = (IF UPending(t) THEN "pending" ELSE Understood(old.out))
          /\ row.udigest = (IF old.out = "failed" THEN topic[t].udigest ELSE old.seen)
      BY <3>1 DEF FinishedRow, TopicRow
    <3>4. row = [topic[t] EXCEPT !.ustatus = row.ustatus, !.udigest = row.udigest]
      BY <3>1 DEF FinishedRow, TopicRow
    <3> HIDE DEF row
    <3>5. row \in TopicRow
      BY <3>1, <3>2, <3>3, <3>4 DEF TopicRow
    <3> QED BY <3>2, <3>3, <3>5
  <2> HIDE DEF row
  <2>6. /\ topic' \in [Topics -> TopicRow] /\ topic'[t] = row
        /\ \A s \in Topics \ {t} : topic'[s] = topic[s]
        /\ \A s \in Topics : topic'[s].rev = topic[s].rev /\ topic'[s].rstatus = topic[s].rstatus
    BY <1>0, <1>2, <2>1, <2>5
  <2>7. RowsType' /\ orphan' \in [{"u", "a"} -> JobRow]
    BY <1>0, <1>1, <2>1, <2>6 DEF RowsType, QueueType
  <2>8. CountInv'
    <3> SUFFICES ASSUME NEW s \in Topics
                 PROVE  Cardinality(RowsOf(uq, s)) + One(NoJob.t = s) + One(orphan["u"].t = s) <= 3
      BY <1>1, <2>1 DEF CountInv
    <3> QED BY <1>5
  <2>9. StatusHonest'
    <3> SUFFICES ASSUME NEW s \in Topics
                 PROVE  /\ topic'[s].ustatus = "pending" => UPending(s)
                        /\ topic'[s].ustatus = "running" => s \in {NoJob.t, orphan["u"].t}
                        /\ topic'[s].ustatus \notin {"pending", "running"} => ~UPending(s) /\ NoJob.t # s
      BY <1>1, <1>7, <2>1 DEF StatusHonest
    <3>1. CASE s = t
      BY <1>4, <2>5, <2>6, <3>1
    <3>2. CASE s # t
      BY <1>4, <1>6, <2>6, <3>2
    <3> QED BY <3>1, <3>2
  <2>10. RouteInv'
    <3>1. \A s \in Topics : Awaited(s)' <=> Awaited(s)
      BY <1>1, <2>6, CallsStay
    <3>2. \A s \in Topics :
             \/ Awaited(s)' \/ s \in stuck'
             \/ /\ topic'[s].rev = topic[s].rev /\ topic'[s].rstatus = topic[s].rstatus
                /\ ~Awaited(s) /\ s \notin stuck
      BY <1>1, <2>6, <3>1
    <3> QED BY <1>0, <1>1, <2>1, <3>2, RouteKept
  <2>11. UnderstandingCatchesUp'
    <3>1. \A s \in Topics : Digest(s)' = Digest(s)
      BY <1>1, <2>6 DEF Digest, LiveMembers, AllMembers
    <3> SUFFICES ASSUME NEW s \in Topics, topic'[s].ustatus \in {"current", "insufficient_evidence"}
                 PROVE  topic'[s].udigest = Digest(s) \/ s \in Owed \cup lost
      BY <1>1, <2>4, <3>1 DEF UnderstandingCatchesUp
    <3>2. CASE s = t
      <4>1. ~UPending(t) /\ old.out # "failed" /\ topic'[t].udigest = old.seen
        BY <2>5, <2>6, <3>2
      <4>2. old.seen = Digest(t) \/ UPending(t) \/ t \in Owed \cup lost
        BY <1>0, <1>1 DEF SeenInv
      <4> QED BY <3>2, <4>1, <4>2
    <3>3. CASE s # t
      BY <1>0, <2>6, <3>3 DEF UnderstandingCatchesUp
    <3> QED BY <3>2, <3>3
  <2>12. SeenInv'
    BY <2>2, <2>4 DEF SeenInv
  <2> QED BY <1>3, <2>1, <2>4, <2>7, <2>8, <2>9, <2>10, <2>11, <2>12 DEF JobsInv
<1> QED BY <1>8, <1>9

-----------------------------------------------------------------------------
(* Queueing an understanding.                                                *)

\* QueueLivingTopicUnderstanding, in a request or at the end of a routing.
LEMMA QueueStep ==
  ASSUME JobsInv, NEW t \in Topics, NEW n \in Nat, QueueUnderstanding(t, n),
         UNCHANGED <<inst, lib, gone, version, member, verdict, snap, urun, aq, arun, orphan, rstat, stuck>>,
         WorkType', BusyInv', StopInv', worker'["u"] = worker["u"],
         worker'["r"].pc = "insert" => worker["r"].pc = "insert" /\ worker'["r"].seen = worker["r"].seen,
         \A s \in Topics \ {t} : s \in Owed => s \in Owed',
         \A s \in Topics : Awaited(s) => Awaited(s)'
  PROVE  JobsInv'
<1>0. /\ QueueType /\ RowsType /\ topic \in [Topics -> TopicRow] /\ BusyInv /\ StopInv
      /\ CountInv /\ OnceInv /\ StatusHonest /\ RouteInv /\ HeldInv /\ UnderstandingCatchesUp /\ SeenInv
      /\ uq \in Seq(Row)
  BY DEF JobsInv, RowsType, QueueType
<1>1. /\ uq' = UQueued(t, n) /\ topic' = [topic EXCEPT ![t].ustatus = "pending"] /\ lost' = lost \ {t}
  BY DEF QueueUnderstanding
<1>2. /\ UQueued(t, n) \in Seq(Row)
      /\ \E k \in DOMAIN UQueued(t, n) : UQueued(t, n)[k].t = t
      /\ \A s \in Topics \ {t} :
           (\E k \in DOMAIN UQueued(t, n) : UQueued(t, n)[k].t = s) <=> UPending(s)
      /\ \A s \in Topics :
           \/ Cardinality(RowsOf(UQueued(t, n), s)) <= Cardinality(RowsOf(uq, s))
           \/ (s = t /\ Cardinality(RowsOf(UQueued(t, n), s)) <= 1)
  BY <1>0, QueuedRows
<1>3. UPending(t)' /\ \A s \in Topics \ {t} : UPending(s)' <=> UPending(s)
  BY <1>1, <1>2 DEF UPending
<1>4. /\ topic' \in [Topics -> TopicRow] /\ topic'[t].ustatus = "pending"
      /\ \A s \in Topics : topic'[s].rev = topic[s].rev /\ topic'[s].rstatus = topic[s].rstatus
                           /\ topic'[s].udigest = topic[s].udigest
      /\ \A s \in Topics \ {t} : topic'[s].ustatus = topic[s].ustatus
  BY <1>0, <1>1 DEF TopicRow
<1>5. \A s \in Topics : Digest(s)' = Digest(s)
  BY <1>4 DEF Digest, LiveMembers, AllMembers
<1>6. \A s \in Topics \ {t} : s \in Owed \cup lost => s \in Owed' \cup lost'
  BY <1>1
<1>7. RowsType' /\ QueueType' /\ OnceInv' /\ HeldInv'
  <2>1. RowsType'
    BY <1>0, <1>1, <1>4 DEF RowsType
  <2>2. QueueType'
    BY <1>0, <1>1, <1>2 DEF QueueType
  <2>3. OnceInv' /\ HeldInv'
    BY <1>0, OnceKept, HeldKept
  <2> QED BY <2>1, <2>2, <2>3
<1>8. CountInv'
  <2> SUFFICES ASSUME NEW s \in Topics
               PROVE  Cardinality(RowsOf(UQueued(t, n), s)) + One(urun.t = s) + One(orphan["u"].t = s) <= 3
    BY <1>1 DEF CountInv
  <2>1. /\ Cardinality(RowsOf(uq, s)) \in Nat /\ Cardinality(RowsOf(UQueued(t, n), s)) \in Nat
        /\ One(urun.t = s) \in {0, 1} /\ One(orphan["u"].t = s) \in {0, 1}
    BY <1>0, <1>2, RowsFinite DEF One
  <2>2. Cardinality(RowsOf(uq, s)) + One(urun.t = s) + One(orphan["u"].t = s) <= 3
    BY <1>0 DEF CountInv
  <2>3. \/ Cardinality(RowsOf(UQueued(t, n), s)) <= Cardinality(RowsOf(uq, s))
        \/ Cardinality(RowsOf(UQueued(t, n), s)) <= 1
    BY <1>2
  <2> QED BY <2>1, <2>2, <2>3
<1>9. StatusHonest'
  <2> SUFFICES ASSUME NEW s \in Topics
               PROVE  /\ topic'[s].ustatus = "pending" => UPending(s)'
                      /\ topic'[s].ustatus = "running" => s \in {urun.t, orphan["u"].t}
                      /\ topic'[s].ustatus \notin {"pending", "running"} => ~UPending(s)' /\ urun.t # s
    BY DEF StatusHonest
  <2>1. CASE s = t
    BY <1>3, <1>4, <2>1
  <2>2. CASE s # t
    BY <1>0, <1>3, <1>4, <2>2 DEF StatusHonest
  <2> QED BY <2>1, <2>2
<1>10. RouteInv'
  <2>1. \A s \in Topics :
           \/ Awaited(s)' \/ s \in stuck'
           \/ /\ topic'[s].rev = topic[s].rev /\ topic'[s].rstatus = topic[s].rstatus
              /\ ~Awaited(s) /\ s \notin stuck
    BY <1>4
  <2> QED BY <1>0, <2>1, RouteKept
<1>11. UnderstandingCatchesUp'
  <2> SUFFICES ASSUME NEW s \in Topics, topic'[s].ustatus \in {"current", "insufficient_evidence"}
               PROVE  topic'[s].udigest = Digest(s) \/ s \in Owed' \cup lost'
    BY <1>5 DEF UnderstandingCatchesUp
  <2>1. s # t /\ topic[s].ustatus \in {"current", "insufficient_evidence"}
    BY <1>4
  <2>2. topic[s].udigest = Digest(s) \/ s \in Owed \cup lost
    BY <1>0, <2>1 DEF UnderstandingCatchesUp
  <2> QED BY <1>4, <1>6, <2>1, <2>2
<1>12. SeenInv'
  <2> SUFFICES ASSUME worker["u"].pc \in {"ask", "save", "done"}
               PROVE  \/ worker["u"].seen = Digest(urun.t)'
                      \/ UPending(urun.t)' \/ urun.t \in Owed' \cup lost'
    BY DEF SeenInv
  <2>1. urun.t \in Topics
    BY <1>0, AtWork DEF UBusy, Row
  <2>2. \/ worker["u"].seen = Digest(urun.t) \/ UPending(urun.t) \/ urun.t \in Owed \cup lost
    BY <1>0 DEF SeenInv
  <2>3. CASE urun.t = t
    BY <1>3, <2>3
  <2>4. CASE urun.t # t
    BY <1>3, <1>5, <1>6, <2>1, <2>2, <2>4
  <2> QED BY <2>3, <2>4
<1> QED BY <1>7, <1>8, <1>9, <1>10, <1>11, <1>12 DEF JobsInv

LEMMA QueueUnderstandingCall ==
  ASSUME JobsInv, NEW c \in Clients, CallQueueUnderstanding(c)
  PROVE  JobsInv'
<1> DEFINE x == Head(thread[c])
           rest == Tail(thread[c])
<1>1. /\ thread[c] # << >> /\ x.op = "uqueue" /\ Owes(c, rest) /\ QueueUnderstanding(x.t, x.n)
      /\ UNCHANGED <<inst, lib, gone, version, member, verdict, snap, urun, aq, arun, orphan, rstat, worker,
                     checks, process, stuck>>
  BY DEF CallQueueUnderstanding
<1>2. /\ x \in Call /\ rest \in Seq(Call) /\ process # "down" /\ thread \in Threads
      /\ Owing(thread[c]) = {s \in Topics : CallOwes(x, s)} \cup Owing(rest)
      /\ \A s, n : Awaiting(thread[c], s, n) <=> AwaitsAt(x, s, n) \/ Awaiting(rest, s, n)
  BY <1>1, NextCall
<1>3. x.t \in Topics /\ x.n \in Nat
  BY <1>1, <1>2 DEF Call
<1>4. (\A s : CallOwes(x, s) => s = x.t) /\ \A s, n : ~AwaitsAt(x, s, n)
  BY <1>1 DEF CallOwes, AwaitsAt
<1> HIDE DEF x, rest
<1>5. WorkType /\ BusyInv /\ StopInv /\ thread' \in Threads
  BY <1>1, <1>2, OneThread DEF JobsInv
<1>6. WorkType' /\ BusyInv' /\ StopInv' /\ OwedByRouting' = OwedByRouting
  BY <1>1, <1>2, <1>5, WorkKept
<1>7. /\ \A t \in Topics : t \in Owed /\ (t \in Owing(thread[c]) => t \in Owing(rest)) => t \in Owed'
      /\ \A t \in Topics :
           Awaited(t) /\ topic'[t].rev = topic[t].rev
           /\ (Awaiting(thread[c], t, topic[t].rev) => Awaiting(rest, t, topic[t].rev)) => Awaited(t)'
  BY <1>1, <1>2, <1>6, GoingOn
<1>8. \A t \in Topics : topic'[t].rev = topic[t].rev
  BY <1>1, <1>3 DEF QueueUnderstanding, JobsInv, RowsType, TopicRow
<1>9. /\ \A t \in Topics \ {x.t} : t \in Owed => t \in Owed'
      /\ \A t \in Topics : Awaited(t) => Awaited(t)'
  BY <1>2, <1>4, <1>7, <1>8
<1> QED BY <1>1, <1>3, <1>6, <1>9, QueueStep
-----------------------------------------------------------------------------
(* The activation worker.                                                    *)

LEMMA Backed ==
  /\ \A t : ABacked(t) <=> AJob(t) \in {arun, orphan["a"]} \cup Elems(aq)
  /\ \A t : ABacked(t)' <=> AJob(t)' \in {arun', orphan'["a"]} \cup Elems(aq')
BY DEF ABacked, Elems

LEMMA ActivationWork ==
  ASSUME JobsInv,
         \/ ClaimActivation /\ (aq = << >> \/ worker["a"].cancelled)
         \/ ReadLibrary \/ (\E i \in Items : Decide(i)) \/ (\E out \in {"none", "failed"} : EndScan(out))
  PROVE  JobsInv'
<1>0. /\ WorkType /\ BusyInv /\ StopInv /\ QueueType /\ RowsType /\ "a" \in Kinds /\ "u" \in Kinds
  BY DEF JobsInv, Kinds
<1>1. ASSUME NEW w \in AWorker, worker["a"].pc \notin {"off", "retire"},
             worker' = [worker EXCEPT !["a"] = w], w.cancelled = worker["a"].cancelled,
             arun # NoJob <=> w.pc \in ABusy,
             UNCHANGED <<inst, topic, lib, gone, version, member, verdict, snap, queues, checks, thread,
                         process, lost, stuck>>
      PROVE  JobsInv'
  <2>1. UNCHANGED <<uq, urun, aq, arun, orphan, rstat>>
    BY <1>1 DEF queues
  <2>2. /\ WorkType' /\ BusyInv' /\ StopInv' /\ worker'["u"] = worker["u"] /\ worker'["r"] = worker["r"]
        /\ \A t \in Topics : t \in Owed' <=> t \in Owed
    BY <1>0, <1>1, <2>1, GoroutineStep
  <2>3. \A t \in Topics : Awaited(t)' <=> Awaited(t)
    BY <1>1, CallsStay
  <2>4. snap' \in [Topics -> Digests]
    BY <1>0, <1>1 DEF RowsType
  <2> QED BY <1>1, <2>1, <2>2, <2>3, <2>4, WorkOnly
<1> DEFINE old == worker["a"]
<1>2. old.pc # "off" => old \in AWorker /\ process # "down"
  BY <1>0, AtWork DEF WorkType, Idle
<1>3. CASE ClaimActivation /\ (aq = << >> \/ worker["a"].cancelled)
  <2> DEFINE w == [old EXCEPT !.pc = "retire"]
  <2>1. /\ old.pc = "claim" /\ worker' = [worker EXCEPT !["a"] = w]
        /\ UNCHANGED <<inst, topic, lib, gone, version, member, verdict, snap, queues, checks, thread,
                       process, lost, stuck>>
    BY <1>0, <1>3 DEF ClaimActivation, AStep, Goto, queues, ghosts
  <2>2. w \in AWorker /\ w.pc = "retire" /\ w.cancelled = old.cancelled
    BY <1>2, <2>1 DEF AWorker
  <2>3. ~(arun # NoJob)
    BY <1>0, <1>2, <2>1 DEF BusyInv, ABusy
  <2>4. w.pc \notin ABusy
    BY <2>2 DEF ABusy
  <2> HIDE DEF w
  <2> QED BY <1>1, <2>1, <2>2, <2>3, <2>4
<1>4. ASSUME UNCHANGED <<inst, topic, lib, gone, version, member, verdict, snap, queues, checks, thread, process, ghosts>>
      PROVE  UNCHANGED <<inst, topic, lib, gone, version, member, verdict, snap, queues, checks, thread,
                         process, lost, stuck>>
  BY <1>4 DEF ghosts
<1>5. old.pc \in ABusy => old \in AWorker /\ arun # NoJob /\ arun.t \in Topics
  BY <1>0, <1>2, AtWork DEF ABusy, Row
<1>6. CASE ReadLibrary
  <2> DEFINE pc == IF topic[arun.t].rev # arun.n \/ old.cancelled THEN "done" ELSE "decide"
             left == lib \ AllMembers(arun.t)
             w == [old EXCEPT !.pc = pc, !.left = left, !.out = "none"]
  <2>1. /\ old.pc = "read"
        /\ worker' = [worker EXCEPT !["a"].pc = pc, !["a"].left = left, !["a"].out = "none"]
        /\ UNCHANGED <<inst, topic, lib, gone, version, member, verdict, snap, queues, checks, thread, process, ghosts>>
    BY <1>6 DEF ReadLibrary, AStep, rows
  <2>2. worker["a"] \in AWorker /\ arun # NoJob
    BY <1>5, <2>1 DEF ABusy
  <2>3. pc \in {"done", "decide"} /\ left \in SUBSET Items
    BY <1>0 DEF RowsType
  <2> HIDE DEF pc, left
  <2>4. worker' = [worker EXCEPT !["a"] = w]
    BY <1>0, <2>1 DEF WorkType
  <2>5. w \in AWorker /\ w.pc = pc /\ w.cancelled = old.cancelled
    BY <2>2, <2>3 DEF AWorker, ABusy
  <2>6. w.pc \in ABusy
    BY <2>3, <2>5 DEF ABusy
  <2> HIDE DEF w
  <2> QED BY <1>1, <1>4, <2>1, <2>2, <2>4, <2>5, <2>6
<1>7. ASSUME NEW i \in Items, Decide(i) PROVE JobsInv'
  <2> DEFINE left == old.left \ {i}
             w == [old EXCEPT !.left = left]
  <2>1. /\ old.pc = "decide" /\ worker' = [worker EXCEPT !["a"].left = @ \ {i}]
        /\ UNCHANGED <<inst, topic, lib, gone, version, member, verdict, snap, queues, checks, thread, process, ghosts>>
    BY <1>7 DEF Decide, AStep
  <2>2. worker["a"] \in AWorker /\ arun # NoJob
    BY <1>5, <2>1 DEF ABusy
  <2>3. left \in SUBSET Items
    BY <2>2 DEF AWorker
  <2>4. worker' = [worker EXCEPT !["a"] = w]
    BY <1>0, <2>1 DEF WorkType
  <2> HIDE DEF left
  <2>5. w \in AWorker /\ w.pc = "decide" /\ w.cancelled = old.cancelled
    BY <2>1, <2>2, <2>3 DEF AWorker, ABusy
  <2>6. w.pc \in ABusy
    BY <2>5 DEF ABusy
  <2> HIDE DEF w
  <2> QED BY <1>1, <1>4, <2>1, <2>2, <2>4, <2>5, <2>6
<1>8. ASSUME NEW out \in {"none", "failed"}, EndScan(out) PROVE JobsInv'
  <2> DEFINE w == [old EXCEPT !.pc = "done", !.out = out, !.left = {}]
  <2>1. /\ old.pc = "decide"
        /\ worker' = [worker EXCEPT !["a"].pc = "done", !["a"].out = out, !["a"].left = {}]
        /\ UNCHANGED <<inst, topic, lib, gone, version, member, verdict, snap, queues, checks, thread, process, ghosts>>
    BY <1>8 DEF EndScan, AStep, rows
  <2>2. worker["a"] \in AWorker /\ arun # NoJob
    BY <1>5, <2>1 DEF ABusy
  <2>3. worker' = [worker EXCEPT !["a"] = w]
    BY <1>0, <2>1 DEF WorkType
  <2>4. w \in AWorker /\ w.pc = "done" /\ w.cancelled = old.cancelled
    BY <2>2 DEF AWorker, ABusy
  <2>5. w.pc \in ABusy
    BY <2>4 DEF ABusy
  <2> HIDE DEF w
  <2> QED BY <1>1, <1>4, <2>1, <2>2, <2>3, <2>4, <2>5
<1> QED BY <1>3, <1>6, <1>7, <1>8

LEMMA ClaimActivationStep ==
  ASSUME JobsInv, ClaimActivation, aq # << >>, ~worker["a"].cancelled
  PROVE  JobsInv'
<1> DEFINE old == worker["a"]
           w == [old EXCEPT !.pc = "read"]
           job == Head(aq)
           t == job.t
           status == IF topic[t].rev = job.n THEN "running" ELSE topic[t].rstatus
<1>0. /\ WorkType /\ BusyInv /\ StopInv /\ QueueType /\ RowsType /\ topic \in [Topics -> TopicRow]
      /\ CountInv /\ OnceInv /\ StatusHonest /\ RouteInv /\ HeldInv /\ UnderstandingCatchesUp /\ SeenInv
      /\ aq \in Seq(Row) /\ "a" \in Kinds /\ "u" \in Kinds
  BY DEF JobsInv, RowsType, QueueType, Kinds
<1>1. /\ job \in Row /\ Tail(aq) \in Seq(Row) /\ Elems(aq) = Elems(Tail(aq)) \cup {job}
      /\ Distinct(Tail(aq)) /\ job \notin Elems(Tail(aq))
      /\ t \in Topics /\ job # NoJob
  <2>1. /\ job \in Row /\ Tail(aq) \in Seq(Row) /\ Elems(aq) = Elems(Tail(aq)) \cup {job}
        /\ Distinct(Tail(aq)) /\ job \notin Elems(Tail(aq))
    BY <1>0, ElemsOfTail DEF OnceInv
  <2> QED BY <2>1, NoRow DEF Row
<1>2. /\ old.pc = "claim" /\ arun' = job /\ aq' = Tail(aq)
      /\ topic' = [topic EXCEPT ![t].rstatus = status]
      /\ worker' = [worker EXCEPT !["a"] = w]
      /\ UNCHANGED <<inst, lib, gone, version, member, verdict, snap, uq, urun, orphan, rstat,
                     checks, thread, process, lost, stuck>>
  BY <1>0, <1>1 DEF ClaimActivation, AStep, Goto, ghosts
<1>3. old \in AWorker /\ process # "down" /\ arun = NoJob
  BY <1>0, <1>2, AtWork DEF WorkType, Idle, BusyInv, ABusy
<1>4. w \in AWorker /\ w.pc = "read" /\ w.cancelled = old.cancelled
  BY <1>3 DEF AWorker, ABusy
<1>5. w.pc \in ABusy
  BY <1>4 DEF ABusy
<1> HIDE DEF w
<1>6. /\ WorkType' /\ BusyInv' /\ StopInv' /\ worker'["u"] = worker["u"] /\ worker'["r"] = worker["r"]
      /\ \A s \in Topics : s \in Owed' <=> s \in Owed
  BY <1>0, <1>1, <1>2, <1>4, <1>5, GoroutineStep
<1>7. status \in {"idle", "pending", "running", "current", "failed"}
  BY <1>0, <1>1 DEF TopicRow
<1> HIDE DEF status
<1>8. /\ topic' \in [Topics -> TopicRow] /\ topic'[t].rstatus = status
      /\ \A s \in Topics : topic'[s].rev = topic[s].rev /\ topic'[s].ustatus = topic[s].ustatus
                           /\ topic'[s].udigest = topic[s].udigest
      /\ \A s \in Topics \ {t} : topic'[s].rstatus = topic[s].rstatus
  BY <1>0, <1>1, <1>2, <1>7 DEF TopicRow
<1> HIDE DEF job
<1>9. RowsType' /\ QueueType' /\ CountInv' /\ StatusHonest' /\ HeldInv'
  <2>1. RowsType'
    BY <1>0, <1>2, <1>8 DEF RowsType
  <2>2. QueueType'
    BY <1>0, <1>1, <1>2 DEF QueueType, JobRow
  <2>3. CountInv' /\ StatusHonest' /\ HeldInv'
    BY <1>0, <1>2, <1>6, <1>8, CountKept, StatusKept, HeldKept
  <2> QED BY <2>1, <2>2, <2>3
<1>10. OnceInv'
  <2>1. orphan["a"] \notin Elems(Tail(aq)) /\ orphan["a"] # job
    BY <1>0, <1>1 DEF OnceInv
  <2> QED BY <1>1, <1>2, <2>1 DEF OnceInv
<1>11. RouteInv'
  <2> SUFFICES ASSUME NEW s \in Topics
               PROVE  \/ Awaited(s)' \/ s \in stuck'
                      \/ (topic'[s].rstatus \in {"pending", "running"} <=> ABacked(s)')
    BY DEF RouteInv
  <2>1. Awaited(s)' <=> Awaited(s)
    BY <1>2, <1>8, CallsStay
  <2>2. AJob(s)' = AJob(s) /\ AJob(s) # NoJob
    BY <1>8, NoRow DEF AJob, NoJob
  <2>3. ABacked(s)' <=> ABacked(s)
    <3>1. ABacked(s) <=> AJob(s) \in {NoJob, orphan["a"]} \cup Elems(aq)
      BY <1>3, Backed
    <3>2. ABacked(s)' <=> AJob(s) \in {job, orphan["a"]} \cup Elems(Tail(aq))
      BY <1>2, <2>2, Backed
    <3> QED BY <1>1, <2>2, <3>1, <3>2
  <2>4. Awaited(s) \/ s \in stuck \/ (topic[s].rstatus \in {"pending", "running"} <=> ABacked(s))
    BY <1>0 DEF RouteInv
  <2>5. CASE s = t /\ topic[t].rev = job.n
    <3>1. AJob(t) = job
      BY <1>1, <2>5 DEF AJob, Row
    <3>2. ABacked(s)'
      BY <1>2, <2>2, <2>5, <3>1, Backed
    <3>3. topic'[s].rstatus = "running"
      BY <1>8, <2>5 DEF status
    <3> QED BY <3>2, <3>3
  <2>6. CASE ~(s = t /\ topic[t].rev = job.n)
    <3>1. topic'[s].rstatus = topic[s].rstatus
      BY <1>8, <2>6 DEF status
    <3> QED BY <1>2, <2>1, <2>3, <2>4, <3>1
  <2> QED BY <2>5, <2>6
<1>12. UnderstandingCatchesUp' /\ SeenInv'
  <2>1. \A s \in Topics : Digest(s)' = Digest(s)
    BY <1>2, <1>8 DEF Digest, LiveMembers, AllMembers
  <2>2. \A s \in Topics : Due(s) => Due(s)'
    BY <1>2, <1>6 DEF Due
  <2>3. worker["u"].pc \in {"ask", "save", "done"} => urun # NoJob
    BY <1>0, AtWork DEF UBusy
  <2>4. urun \in JobRow
    BY <1>0 DEF QueueType
  <2> QED BY <1>0, <1>2, <1>6, <1>8, <2>1, <2>2, <2>3, <2>4, SeenKept
<1> QED BY <1>6, <1>9, <1>10, <1>11, <1>12 DEF JobsInv

LEMMA FinishActivationStep ==
  ASSUME JobsInv, FinishActivation
  PROVE  JobsInv'
<1> DEFINE old == worker["a"]
           job == arun
           t == job.t
<1>0. /\ WorkType /\ BusyInv /\ StopInv /\ QueueType /\ RowsType /\ topic \in [Topics -> TopicRow]
      /\ CountInv /\ OnceInv /\ StatusHonest /\ RouteInv /\ HeldInv /\ UnderstandingCatchesUp /\ SeenInv
      /\ aq \in Seq(Row) /\ "a" \in Kinds /\ "u" \in Kinds
  BY DEF JobsInv, RowsType, QueueType, Kinds
<1>1. /\ old.pc = "done" /\ arun' = NoJob
      /\ UNCHANGED <<inst, lib, gone, version, member, verdict, snap, uq, urun, aq, rstat,
                     checks, thread, process, lost>>
  BY DEF FinishActivation, AStep
<1>2. old \in AWorker /\ process # "down" /\ arun \in Row /\ arun # NoJob /\ t \in Topics
  BY <1>0, <1>1, AtWork DEF WorkType, Idle, ABusy, Row
<1>3. \A s \in Topics : AJob(s) \in Row /\ AJob(s) # NoJob
  BY <1>0, NoRow DEF AJob, TopicRow
<1>4. NoJob \notin Elems(aq)
  <2>1. \A k \in DOMAIN aq : aq[k] \in Row
    BY <1>0, LenProperties, ElementOfSeq
  <2> QED BY <2>1, NoRow DEF Elems
<1>5. /\ arun \notin Elems(aq) /\ orphan["a"] \notin Elems(aq) /\ arun # orphan["a"] /\ Distinct(aq)
  BY <1>0, <1>2 DEF OnceInv
<1>6. \A s \in Topics :
        Awaited(s) \/ s \in stuck \/ (topic[s].rstatus \in {"pending", "running"} <=> ABacked(s))
  BY <1>0 DEF RouteInv
<1>7. \A s \in Topics : ABacked(s) <=> AJob(s) \in {arun, orphan["a"]} \cup Elems(aq)
  BY Backed
<1>8. ASSUME worker'["u"] = worker["u"], worker'["r"] = worker["r"], \A s \in Topics : s \in Owed' <=> s \in Owed,
             orphan'["u"] = orphan["u"],
             \A s \in Topics : topic'[s].rev = topic[s].rev /\ topic'[s].ustatus = topic[s].ustatus
                               /\ topic'[s].udigest = topic[s].udigest
      PROVE  CountInv' /\ StatusHonest' /\ HeldInv' /\ UnderstandingCatchesUp' /\ SeenInv'
             /\ \A s \in Topics : (Awaited(s)' <=> Awaited(s)) /\ AJob(s)' = AJob(s)
  <2>1. CountInv' /\ StatusHonest' /\ HeldInv'
    BY <1>0, <1>1, <1>8, CountKept, StatusKept, HeldKept
  <2>2. UnderstandingCatchesUp' /\ SeenInv'
    <3>1. \A s \in Topics : Digest(s)' = Digest(s)
      BY <1>1, <1>8 DEF Digest, LiveMembers, AllMembers
    <3>2. \A s \in Topics : Due(s) => Due(s)'
      BY <1>1, <1>8 DEF Due
    <3>3. worker["u"].pc \in {"ask", "save", "done"} => urun # NoJob
      BY <1>0, AtWork DEF UBusy
    <3>4. urun \in JobRow
      BY <1>0 DEF QueueType
    <3> QED BY <1>0, <1>1, <1>8, <3>1, <3>2, <3>3, <3>4, SeenKept
  <2>3. \A s \in Topics : (Awaited(s)' <=> Awaited(s)) /\ AJob(s)' = AJob(s)
    BY <1>1, <1>8, CallsStay DEF AJob
  <2> QED BY <2>1, <2>2, <2>3
<1>9. CASE old.cancelled
  <2> DEFINE w == [old EXCEPT !.pc = "retire"]
  <2>1. /\ worker' = [worker EXCEPT !["a"] = w] /\ orphan' = [orphan EXCEPT !["a"] = job]
        /\ topic' = topic /\ stuck' = stuck
    BY <1>0, <1>9 DEF FinishActivation, Goto
  <2>2. w \in AWorker /\ w.pc = "retire" /\ w.cancelled = old.cancelled
    BY <1>2 DEF AWorker
  <2>3. w.pc \notin ABusy
    BY <2>2 DEF ABusy
  <2> HIDE DEF w
  <2>4. orphan["a"] = NoJob /\ process # "up"
    BY <1>0, <1>1, <1>9 DEF StopInv
  <2>5. orphan' \in [{"u", "a"} -> JobRow] /\ orphan'["a"] = arun /\ orphan'["u"] = orphan["u"]
    BY <1>0, <2>1 DEF QueueType
  <2>6. \A j \in {"u", "a"} \ {"a"} : orphan'[j] = orphan[j]
    BY <2>5
  <2>7. /\ WorkType' /\ BusyInv' /\ StopInv' /\ worker'["u"] = worker["u"] /\ worker'["r"] = worker["r"]
        /\ \A s \in Topics : s \in Owed' <=> s \in Owed
    BY <1>0, <1>1, <2>1, <2>2, <2>3, <2>4, <2>6, GoroutineStep
  <2>8. /\ CountInv' /\ StatusHonest' /\ HeldInv' /\ UnderstandingCatchesUp' /\ SeenInv'
        /\ \A s \in Topics : (Awaited(s)' <=> Awaited(s)) /\ AJob(s)' = AJob(s)
    BY <1>8, <2>1, <2>5, <2>7
  <2>9. RowsType' /\ QueueType'
    BY <1>0, <1>1, <2>1, <2>5 DEF RowsType, QueueType, JobRow
  <2>10. OnceInv'
    BY <1>1, <1>2, <1>4, <1>5, <2>5 DEF OnceInv
  <2>11. RouteInv'
    <3>1. \A s \in Topics : ABacked(s)' <=> AJob(s)' \in {NoJob, arun} \cup Elems(aq)
      BY <1>1, <2>5, Backed
    <3>2. \A s \in Topics : ABacked(s)' <=> ABacked(s)
      BY <1>3, <1>7, <2>4, <2>8, <3>1
    <3> QED BY <1>6, <2>1, <2>8, <3>2 DEF RouteInv
  <2> QED BY <2>7, <2>8, <2>9, <2>10, <2>11 DEF JobsInv
<1>10. CASE ~old.cancelled
  <2> DEFINE w == [old EXCEPT !.pc = "claim"]
             row == Activated(t)
  <2>1. /\ worker' = [worker EXCEPT !["a"] = w] /\ orphan' = orphan /\ topic' = [topic EXCEPT ![t] = row]
        /\ stuck' = IF topic[t].rev = job.n THEN stuck \ {t} ELSE stuck
    BY <1>0, <1>10 DEF FinishActivation, Goto
  <2>2. w \in AWorker /\ w.pc = "claim" /\ w.cancelled = old.cancelled
    BY <1>2 DEF AWorker
  <2>3. w.pc \notin ABusy
    BY <2>2 DEF ABusy
  <2> HIDE DEF w
  <2>4. /\ WorkType' /\ BusyInv' /\ StopInv' /\ worker'["u"] = worker["u"] /\ worker'["r"] = worker["r"]
        /\ \A s \in Topics : s \in Owed' <=> s \in Owed
    BY <1>0, <1>1, <2>1, <2>2, <2>3, GoroutineStep
  <2>5. /\ row \in TopicRow /\ row.rev = topic[t].rev /\ row.ustatus = topic[t].ustatus
        /\ row.udigest = topic[t].udigest
        /\ topic[t].rev = job.n => row.rstatus \in {"failed", "current"}
        /\ topic[t].rev # job.n => row.rstatus = topic[t].rstatus
    <3>1. topic[t] \in TopicRow
      BY <1>0, <1>2
    <3> QED BY <3>1 DEF Activated, TopicRow
  <2> HIDE DEF row
  <2>6. /\ topic' \in [Topics -> TopicRow] /\ topic'[t] = row
        /\ \A s \in Topics \ {t} : topic'[s] = topic[s]
        /\ \A s \in Topics : topic'[s].rev = topic[s].rev /\ topic'[s].ustatus = topic[s].ustatus
                             /\ topic'[s].udigest = topic[s].udigest
    BY <1>0, <1>2, <2>1, <2>5
  <2>7. /\ CountInv' /\ StatusHonest' /\ HeldInv' /\ UnderstandingCatchesUp' /\ SeenInv'
        /\ \A s \in Topics : (Awaited(s)' <=> Awaited(s)) /\ AJob(s)' = AJob(s)
    BY <1>8, <2>1, <2>4, <2>6
  <2>8. RowsType' /\ QueueType'
    <3>1. RowsType'
      BY <1>0, <1>1, <2>1, <2>6 DEF RowsType
    <3> QED BY <1>0, <1>1, <2>1, <3>1 DEF QueueType, JobRow
  <2>9. OnceInv'
    BY <1>1, <1>4, <1>5, <2>1 DEF OnceInv
  <2>10. RouteInv'
    <3> SUFFICES ASSUME NEW s \in Topics
                 PROVE  \/ Awaited(s)' \/ s \in stuck'
                        \/ (topic'[s].rstatus \in {"pending", "running"} <=> ABacked(s)')
      BY DEF RouteInv
    <3>1. ABacked(s)' <=> AJob(s) \in {NoJob, orphan["a"]} \cup Elems(aq)
      BY <1>1, <2>1, <2>7, Backed
    <3>2. CASE s = t /\ topic[t].rev = job.n
      <4>1. AJob(t) = job
        BY <1>2, <3>2 DEF AJob, Row
      <4>2. ~ABacked(s)'
        BY <1>2, <1>5, <3>1, <3>2, <4>1
      <4>3. topic'[s].rstatus \in {"failed", "current"}
        BY <2>5, <2>6, <3>2
      <4> QED BY <4>2, <4>3
    <3>3. CASE ~(s = t /\ topic[t].rev = job.n)
      <4>1. AJob(s) # arun
        BY <3>3 DEF AJob
      <4>2. ABacked(s)' <=> ABacked(s)
        BY <1>3, <1>7, <3>1, <4>1
      <4>3. topic'[s].rstatus = topic[s].rstatus
        BY <2>5, <2>6, <3>3
      <4>4. s \in stuck => s \in stuck'
        BY <2>1, <3>3
      <4> QED BY <1>6, <2>7, <4>2, <4>3, <4>4
    <3> QED BY <3>2, <3>3
  <2> QED BY <2>4, <2>7, <2>8, <2>9, <2>10 DEF JobsInv
<1> QED BY <1>9, <1>10

-----------------------------------------------------------------------------
(* The routing worker.                                                       *)

\* The topics the routing goroutine has still to queue.
RoutingOwes(w) ==
  IF w.pc \in {"off", "retire"} THEN {}
  ELSE IF w.pc = "queue" THEN w.dirty \ w.left ELSE w.dirty

LEMMA RoutingStep ==
  ASSUME WorkType, BusyInv, StopInv, worker["r"].pc # "off",
         NEW w \in RWorker, worker' = [worker EXCEPT !["r"] = w], w.cancelled = worker["r"].cancelled,
         UNCHANGED <<urun, arun, orphan, checks, thread, process>>,
         \A i \in Items : rstat'[i] = "running" <=> w.pc \in RBusy /\ w.seen = i,
         w.pc \in RBusy => w.seen \in Items,
         w.pc = "insert" => w.out \in Topics,
         w.pc \in {"claim", "done"} => w.left = {}
  PROVE  /\ WorkType' /\ BusyInv' /\ StopInv'
         /\ worker'["r"] = w /\ worker'["u"] = worker["u"]
         /\ \A t \in RoutingOwes(w) : t \in Owed'
         /\ \A t \in Topics : t \in Owed => t \in Owed' \/ t \in RoutingOwes(worker["r"]) \ RoutingOwes(w)
<1>0. "u" \in Kinds /\ "a" \in Kinds /\ "r" \in Kinds
  BY DEF Kinds
<1>1. process # "down"
  BY <1>0 DEF StopInv, Idle
<1>2. /\ worker'["r"] = w /\ worker'["u"] = worker["u"] /\ worker'["a"] = worker["a"]
      /\ worker' \in [Kinds -> {Idle} \cup UWorker \cup AWorker \cup RWorker]
  BY <1>0 DEF WorkType
<1>3. WorkType'
  BY <1>2 DEF WorkType
<1>4. BusyInv'
  BY <1>1, <1>2 DEF BusyInv
<1>5. StopInv'
  BY <1>0, <1>1, <1>2 DEF StopInv, Kinds
<1>6. OwedByRouting = RoutingOwes(worker["r"])
  BY DEF OwedByRouting, RoutingOwes, RStep
<1>7. OwedByRouting' = RoutingOwes(w)
  BY <1>2 DEF OwedByRouting, RoutingOwes, RStep
<1>8. \A c \in Clients : OwedBy(c)' = OwedBy(c)
  BY DEF OwedBy
<1>9. /\ \A t : t \in Owed <=> t \in RoutingOwes(worker["r"]) \/ t \in UNION {OwedBy(c) : c \in Clients}
      /\ \A t : t \in Owed' <=> t \in RoutingOwes(w) \/ t \in UNION {OwedBy(c) : c \in Clients}
  BY <1>6, <1>7, <1>8 DEF Owed
<1> QED BY <1>2, <1>3, <1>4, <1>5, <1>9

\* A step that queues nothing and makes no member.
LEMMA RoutingOnly ==
  ASSUME JobsInv, worker["r"].pc # "off",
         NEW w \in RWorker, worker' = [worker EXCEPT !["r"] = w], w.cancelled = worker["r"].cancelled,
         UNCHANGED <<inst, topic, gone, version, member, verdict, snap, uq, urun, aq, arun, orphan, checks,
                     thread, process, lost, stuck>>,
         rstat' \in [Items -> {"none", "pending", "running", "completed", "failed"}],
         lib' = lib \/ (worker["r"].seen \in Items \ gone /\ lib' = lib \cup {worker["r"].seen}),
         w.pc = "insert" => w.seen \in lib',
         \A i \in Items : rstat'[i] = "running" <=> w.pc \in RBusy /\ w.seen = i,
         w.pc \in RBusy => w.seen \in Items,
         w.pc = "insert" => w.out \in Topics,
         w.pc \in {"claim", "done"} => w.left = {},
         RoutingOwes(worker["r"]) \subseteq RoutingOwes(w)
  PROVE  JobsInv'
<1>0. /\ WorkType /\ BusyInv /\ StopInv /\ RowsType /\ HeldInv
  BY DEF JobsInv
<1>1. /\ WorkType' /\ BusyInv' /\ StopInv'
      /\ worker'["r"] = w /\ worker'["u"] = worker["u"]
      /\ \A t \in Topics : t \in Owed => t \in Owed' \/ t \in RoutingOwes(worker["r"]) \ RoutingOwes(w)
  BY <1>0, RoutingStep
<1>2. \A t \in Topics : t \in Owed => t \in Owed'
  BY <1>1
<1>3. lib' \subseteq Items /\ lib' \cap gone = {} /\ lib \subseteq lib'
  BY <1>0 DEF RowsType
<1>4. RowsType'
  BY <1>0, <1>3 DEF RowsType
<1>5. HeldInv'
  BY <1>0, <1>1, <1>3 DEF HeldInv
<1>6. ASSUME NEW t \in Topics PROVE Digest(t)' = Digest(t)
  <2>1. AllMembers(t)' = AllMembers(t)
    BY DEF AllMembers
  <2>2. \A i \in AllMembers(t) : i \in lib \cup gone
    BY <1>0 DEF HeldInv, AllMembers
  <2>3. LiveMembers(t)' = LiveMembers(t)
    BY <2>1, <2>2 DEF LiveMembers
  <2> QED BY <2>3 DEF Digest
<1>7. \A t \in Topics : Due(t)' \/ (Digest(t)' = Digest(t) /\ ~Due(t))
  BY <1>2, <1>6 DEF Due
<1>8. \A t \in Topics : Awaited(t) => Awaited(t)'
  BY CallsStay
<1>9. /\ UNCHANGED <<topic, uq, urun, aq, arun, orphan, lost, stuck>>
      /\ worker'["u"].pc \in {"ask", "save", "done"} =>
           worker["u"].pc \in {"ask", "save", "done"} /\ worker'["u"].seen = worker["u"].seen
  BY <1>1
<1> QED BY <1>1, <1>4, <1>5, <1>7, <1>8, <1>9, WorkStep

LEMMA RoutingWork ==
  ASSUME JobsInv,
         \/ ClaimRouting \/ (\E ts \in SUBSET Topics : Match(ts)) \/ FailRouting
         \/ (\E t \in Topics : Remember(t)) \/ FinishRouting
  PROVE  JobsInv'
<1> DEFINE old == worker["r"]
<1>0. /\ WorkType /\ BusyInv /\ StopInv /\ RowsType /\ "r" \in Kinds
      /\ rstat \in [Items -> {"none", "pending", "running", "completed", "failed"}]
  BY DEF JobsInv, RowsType, Kinds
<1>1. old.pc # "off" => /\ old \in RWorker /\ process # "down"
                        /\ \A i \in Items : rstat[i] = "running" <=> old.pc \in RBusy /\ old.seen = i
  BY <1>0 DEF WorkType, Idle, StopInv, BusyInv
<1>2. /\ old.pc \in RBusy => old.seen \in Items
      /\ old.pc \in {"claim", "done"} => old.left = {}
  BY <1>0 DEF BusyInv
<1>3. ASSUME NEW w \in RWorker, old.pc # "off",
             worker' = [worker EXCEPT !["r"] = w], w.cancelled = old.cancelled,
             UNCHANGED <<inst, topic, gone, version, member, verdict, snap, uq, urun, aq, arun, orphan, checks,
                         thread, process, lost, stuck>>,
             lib' = lib \/ (old.seen \in Items \ gone /\ lib' = lib \cup {old.seen}),
             w.pc = "insert" => w.seen \in lib' /\ w.out \in Topics,
             rstat' = rstat, old.pc \in RBusy, w.pc \in RBusy, w.seen = old.seen,
             w.pc \in {"claim", "done"} => w.left = {}, w.dirty = old.dirty
      PROVE  JobsInv'
  <2>1. /\ \A i \in Items : rstat'[i] = "running" <=> w.pc \in RBusy /\ w.seen = i
        /\ w.pc \in RBusy => w.seen \in Items
    BY <1>1, <1>2, <1>3
  <2>2. RoutingOwes(old) \subseteq RoutingOwes(w)
    BY <1>3 DEF RoutingOwes, RBusy
  <2> HIDE DEF old
  <2> QED BY <1>0, <1>3, <2>1, <2>2, RoutingOnly DEF old
<1> HIDE DEF old
<1>4. CASE ClaimRouting
  <2>1. /\ old.pc = "claim" /\ old \in RWorker
        /\ UNCHANGED <<inst, topic, lib, gone, version, member, verdict, snap, uq, urun, aq, arun, orphan,
                       checks, thread, process, lost, stuck>>
    BY <1>1, <1>4 DEF ClaimRouting, RStep, rows, ghosts, old
  <2>2. CASE Goto("r", "queue") /\ UNCHANGED rstat
    <3> DEFINE w == [old EXCEPT !.pc = "queue"]
    <3>1. worker' = [worker EXCEPT !["r"] = w]
      BY <1>0, <2>2 DEF Goto, old
    <3>2. /\ w \in RWorker /\ w.pc = "queue" /\ w.cancelled = old.cancelled /\ w.left = old.left
          /\ w.dirty = old.dirty
      BY <2>1 DEF RWorker
    <3> HIDE DEF w
    <3>3. /\ \A i \in Items : rstat'[i] = "running" <=> w.pc \in RBusy /\ w.seen = i
          /\ w.pc \notin RBusy /\ w.pc \notin {"claim", "done", "insert"}
      BY <1>1, <2>1, <2>2, <3>2 DEF RBusy
    <3>4. RoutingOwes(old) \subseteq RoutingOwes(w)
      BY <1>2, <2>1, <3>2 DEF RoutingOwes
    <3> QED BY <1>0, <2>1, <2>2, <3>1, <3>2, <3>3, <3>4, RoutingOnly DEF old
  <2>3. ASSUME NEW i \in Items, rstat' = [rstat EXCEPT ![i] = "running"],
               worker' = [worker EXCEPT !["r"].pc = "match", !["r"].seen = i]
        PROVE  JobsInv'
    <3> DEFINE w == [old EXCEPT !.pc = "match", !.seen = i]
    <3>1. worker' = [worker EXCEPT !["r"] = w]
      BY <1>0, <2>3 DEF old, WorkType
    <3>2. /\ w \in RWorker /\ w.pc = "match" /\ w.cancelled = old.cancelled /\ w.seen = i
          /\ w.dirty = old.dirty
      BY <2>1 DEF RWorker, RBusy
    <3> HIDE DEF w
    <3>3. w.pc \in RBusy /\ old.pc \notin RBusy
      BY <2>1, <3>2 DEF RBusy
    <3>4. /\ \A j \in Items : rstat'[j] = "running" <=> w.pc \in RBusy /\ w.seen = j
          /\ rstat' \in [Items -> {"none", "pending", "running", "completed", "failed"}]
      BY <1>0, <1>1, <2>1, <2>3, <3>2, <3>3
    <3>5. RoutingOwes(old) \subseteq RoutingOwes(w)
      BY <2>1, <3>2 DEF RoutingOwes
    <3> QED BY <1>0, <2>1, <3>1, <3>2, <3>4, <3>5, RoutingOnly DEF old
  <2> QED BY <1>4, <2>2, <2>3 DEF ClaimRouting
<1>5. ASSUME NEW ts \in SUBSET Topics, Match(ts) PROVE JobsInv'
  <2> DEFINE w == [old EXCEPT !.pc = "join", !.left = ts, !.out = "none"]
  <2>1. /\ old.pc = "match"
        /\ worker' = [worker EXCEPT !["r"].pc = "join", !["r"].left = ts, !["r"].out = "none"]
        /\ UNCHANGED <<inst, topic, lib, gone, version, member, verdict, snap, uq, urun, aq, arun, orphan,
                       rstat, checks, thread, process, lost, stuck>>
    BY <1>5 DEF Match, RStep, rows, queues, ghosts, old
  <2>2. old \in RWorker /\ old.pc \in RBusy
    BY <1>1, <2>1 DEF RBusy
  <2>3. worker' = [worker EXCEPT !["r"] = w]
    BY <1>0, <2>1 DEF old, WorkType
  <2>4. /\ w \in RWorker /\ w.pc = "join" /\ w.cancelled = old.cancelled /\ w.seen = old.seen
        /\ w.dirty = old.dirty /\ w.pc \in RBusy
    BY <2>2 DEF RWorker, RBusy
  <2> HIDE DEF w
  <2> QED BY <1>3, <2>1, <2>2, <2>3, <2>4
<1>6. CASE FailRouting
  <2> DEFINE w == [old EXCEPT !.pc = "done", !.out = "failed", !.left = {}]
  <2>1. /\ old.pc \in {"match", "join"}
        /\ worker' = [worker EXCEPT !["r"].pc = "done", !["r"].out = "failed", !["r"].left = {}]
        /\ UNCHANGED <<inst, topic, lib, gone, version, member, verdict, snap, uq, urun, aq, arun, orphan,
                       rstat, checks, thread, process, lost, stuck>>
    BY <1>6 DEF FailRouting, rows, queues, ghosts, old
  <2>2. old \in RWorker /\ old.pc \in RBusy /\ old.pc # "off"
    BY <1>1, <2>1 DEF RBusy
  <2>3. worker' = [worker EXCEPT !["r"] = w]
    BY <1>0, <2>1 DEF old, WorkType
  <2>4. /\ w \in RWorker /\ w.pc = "done" /\ w.cancelled = old.cancelled /\ w.seen = old.seen
        /\ w.dirty = old.dirty /\ w.pc \in RBusy /\ w.left = {}
    BY <2>2 DEF RWorker, RBusy
  <2> HIDE DEF w
  <2> QED BY <1>3, <2>1, <2>2, <2>3, <2>4
<1>7. ASSUME NEW t \in Topics, Remember(t) PROVE JobsInv'
  <2> DEFINE w == [old EXCEPT !.pc = "insert", !.out = t]
  <2>1. /\ old.pc = "join" /\ old.seen \notin gone /\ lib' = lib \cup {old.seen}
        /\ worker' = [worker EXCEPT !["r"].pc = "insert", !["r"].out = t]
        /\ UNCHANGED <<inst, topic, gone, version, member, verdict, snap, uq, urun, aq, arun, orphan,
                       rstat, checks, thread, process, lost, stuck>>
    BY <1>7 DEF Remember, RStep, queues, ghosts, old
  <2>2. old \in RWorker /\ old.pc \in RBusy /\ old.seen \in Items
    BY <1>1, <1>2, <2>1 DEF RBusy
  <2>3. worker' = [worker EXCEPT !["r"] = w]
    BY <1>0, <2>1 DEF old, WorkType
  <2>4. /\ w \in RWorker /\ w.pc = "insert" /\ w.cancelled = old.cancelled /\ w.seen = old.seen
        /\ w.dirty = old.dirty /\ w.pc \in RBusy /\ w.out = t
    BY <2>2 DEF RWorker, RBusy
  <2> HIDE DEF w
  <2> QED BY <1>3, <2>1, <2>2, <2>3, <2>4
<1>8. CASE FinishRouting
  <2> DEFINE pc == IF old.cancelled THEN "queue" ELSE "claim"
             w == [old EXCEPT !.pc = pc, !.out = "none"]
             end == IF old.out = "failed" THEN "failed" ELSE "completed"
  <2>1. /\ old.pc = "done" \/ (old.pc = "join" /\ old.left = {})
        /\ worker' = [worker EXCEPT !["r"].pc = pc, !["r"].out = "none"]
        /\ rstat' = [rstat EXCEPT ![old.seen] = end]
        /\ UNCHANGED <<inst, topic, lib, gone, version, member, verdict, snap, uq, urun, aq, arun, orphan,
                       checks, thread, process, lost, stuck>>
    BY <1>8 DEF FinishRouting, RStep, rows, ghosts, old
  <2>2. old \in RWorker /\ old.pc \in RBusy /\ old.pc # "off" /\ old.left = {} /\ old.seen \in Items
    BY <1>1, <1>2, <2>1 DEF RBusy
  <2>3. pc \in {"queue", "claim"} /\ end \in {"failed", "completed"}
    OBVIOUS
  <2> HIDE DEF pc, end
  <2>4. worker' = [worker EXCEPT !["r"] = w]
    BY <1>0, <2>1 DEF old, WorkType
  <2>5. /\ w \in RWorker /\ w.pc = pc /\ w.cancelled = old.cancelled /\ w.left = {}
        /\ w.dirty = old.dirty /\ w.pc \notin RBusy
    BY <2>2, <2>3 DEF RWorker, RBusy
  <2> HIDE DEF w
  <2>6. /\ \A i \in Items : rstat'[i] = "running" <=> w.pc \in RBusy /\ w.seen = i
        /\ rstat' \in [Items -> {"none", "pending", "running", "completed", "failed"}]
    BY <1>0, <1>1, <2>1, <2>2, <2>3, <2>5
  <2>7. RoutingOwes(old) \subseteq RoutingOwes(w)
    BY <2>2, <2>3, <2>5 DEF RoutingOwes, RBusy
  <2>8. w.pc # "insert" /\ w.pc \notin RBusy
    BY <2>5 DEF RBusy
  <2> QED BY <1>0, <2>1, <2>2, <2>4, <2>5, <2>6, <2>7, <2>8, RoutingOnly DEF old
<1> QED BY <1>4, <1>5, <1>6, <1>7, <1>8

\* The insert of AddAutomaticLivingTopicMember: the topic is dirty before anyone
\* can see its understanding as settled.
LEMMA JoinStep ==
  ASSUME JobsInv, MembershipType, Join
  PROVE  JobsInv'
<1> DEFINE old == worker["r"]
           t == old.out
           i == old.seen
           joins == /\ ~old.cancelled
                    /\ member[t][i].mode = "none" /\ HasRoom(t, i) /\ verdict[t][i] # "exclude"
           pc == IF old.cancelled THEN "done" ELSE "join"
           out == IF old.cancelled THEN "failed" ELSE "none"
           left == IF old.cancelled THEN {} ELSE old.left \ {t}
           dirty == IF joins THEN old.dirty \cup {t} ELSE old.dirty
           m == [mode |-> "automatic", move |-> 0]
           w == [old EXCEPT !.pc = pc, !.out = out, !.left = left, !.dirty = dirty]
<1>0. /\ WorkType /\ BusyInv /\ StopInv /\ RowsType /\ HeldInv /\ "r" \in Kinds
      /\ rstat \in [Items -> {"none", "pending", "running", "completed", "failed"}]
  BY DEF JobsInv, RowsType, Kinds
<1>1. /\ old.pc = "insert"
      /\ member' = IF joins THEN [member EXCEPT ![t][i] = m] ELSE member
      /\ worker' = [worker EXCEPT !["r"].pc = pc, !["r"].out = out, !["r"].left = left, !["r"].dirty = dirty]
      /\ UNCHANGED <<inst, topic, lib, gone, version, verdict, snap, uq, urun, aq, arun, orphan, rstat, checks,
                     thread, process, lost, stuck>>
  BY <1>0 DEF Join, RStep, queues, ghosts, WorkType
<1>2. /\ old \in RWorker /\ t \in Topics /\ i \in Items /\ i \in lib \cup gone /\ process # "down"
      /\ \A j \in Items : rstat[j] = "running" <=> old.pc \in RBusy /\ old.seen = j
      /\ old.pc \in RBusy /\ old.pc # "off"
  BY <1>0, <1>1 DEF WorkType, Idle, StopInv, BusyInv, HeldInv, RBusy
<1>3. /\ pc \in {"done", "join"} /\ out \in {"failed", "none"} /\ left \in SUBSET Topics
      /\ pc = "done" => left = {}
  BY <1>2 DEF RWorker
<1>4. dirty \in SUBSET Topics /\ old.dirty \subseteq dirty /\ (joins => t \in dirty)
  BY <1>2 DEF RWorker
<1> HIDE DEF pc, out, left, dirty
<1>5. worker' = [worker EXCEPT !["r"] = w]
  BY <1>0, <1>1 DEF WorkType
<1>6. /\ w \in RWorker /\ w.pc = pc /\ w.left = left /\ w.dirty = dirty /\ w.seen = i
      /\ w.cancelled = old.cancelled
  BY <1>2, <1>3, <1>4 DEF RWorker, RBusy
<1> HIDE DEF w
<1>7. /\ w.pc \in RBusy /\ w.pc # "insert" /\ (w.pc \in {"claim", "done"} => w.left = {})
      /\ \A j \in Items : rstat'[j] = "running" <=> w.pc \in RBusy /\ w.seen = j
  BY <1>1, <1>2, <1>3, <1>6 DEF RBusy
<1>8. RoutingOwes(w) = dirty /\ RoutingOwes(old) = old.dirty
  BY <1>1, <1>3, <1>6 DEF RoutingOwes
<1>9. /\ WorkType' /\ BusyInv' /\ StopInv' /\ worker'["r"] = w /\ worker'["u"] = worker["u"]
      /\ \A s \in dirty : s \in Owed'
      /\ \A s \in Topics : s \in Owed => s \in Owed' \/ s \in old.dirty \ dirty
  <2>1. i \in Items
    BY <1>2
  <2> HIDE DEF t, joins
  <2> QED BY <1>0, <1>1, <1>2, <1>5, <1>6, <1>7, <1>8, <2>1, RoutingStep
<1>10. RowsType'
  BY <1>0, <1>1 DEF RowsType
<1>11. /\ \A s \in Topics, j \in Items : member'[s][j] = member[s][j] \/ (s = t /\ j = i)
       /\ ~joins => member' = member
  <2>1. member \in [Topics -> [Items -> Member]]
    BY DEF MembershipType
  <2> HIDE DEF m, joins
  <2>2. CASE joins
    BY <1>1, <1>2, <2>1, <2>2
  <2>3. CASE ~joins
    BY <1>1, <2>3
  <2> QED BY <2>2, <2>3
<1> HIDE DEF joins
<1>12. HeldInv'
  BY <1>0, <1>1, <1>2, <1>7, <1>9, <1>11 DEF HeldInv
<1>13. ASSUME NEW s \in Topics PROVE Due(s)' \/ (Digest(s)' = Digest(s) /\ ~Due(s))
  <2>1. Due(s) => Due(s)'
    BY <1>1, <1>4, <1>9 DEF Due
  <2>2. CASE s = t /\ joins
    BY <1>4, <1>9, <2>2 DEF Due
  <2>3. CASE ~(s = t /\ joins)
    <3>1. \A j \in Items : member'[s][j] = member[s][j]
      BY <1>11, <2>3
    <3>2. Digest(s)' = Digest(s)
      BY <1>1, <3>1 DEF Digest, LiveMembers, AllMembers
    <3> QED BY <2>1, <3>2
  <2> QED BY <2>2, <2>3
<1>14. \A s \in Topics : Awaited(s) => Awaited(s)'
  BY <1>1, CallsStay
<1>15. worker'["u"].pc \in {"ask", "save", "done"} =>
         worker["u"].pc \in {"ask", "save", "done"} /\ worker'["u"].seen = worker["u"].seen
  BY <1>9
<1> QED BY <1>1, <1>9, <1>10, <1>12, <1>13, <1>14, <1>15, WorkStep

\* The topics that gained members are queued one after the other.
LEMMA QueueDirtyStep ==
  ASSUME JobsInv, QueueDirty
  PROVE  JobsInv'
<1> DEFINE old == worker["r"]
<1>0. /\ WorkType /\ BusyInv /\ StopInv /\ RowsType /\ "r" \in Kinds
      /\ rstat \in [Items -> {"none", "pending", "running", "completed", "failed"}]
  BY DEF JobsInv, RowsType, Kinds
<1>1. /\ old.pc = "queue"
      /\ UNCHANGED <<inst, lib, gone, version, member, verdict, snap, urun, aq, arun, orphan, rstat, checks,
                     thread, process, stuck>>
  BY DEF QueueDirty, RStep
<1>2. /\ old \in RWorker /\ process # "down" /\ old.pc # "off" /\ old.pc \notin RBusy
      /\ \A j \in Items : rstat[j] # "running"
  BY <1>0, <1>1 DEF WorkType, Idle, StopInv, BusyInv, RBusy
<1>3. CASE old.dirty \ old.left = {}
  <2> DEFINE w == [old EXCEPT !.pc = "retire"]
  <2>1. worker' = [worker EXCEPT !["r"] = w] /\ UNCHANGED <<uq, topic, lost>>
    BY <1>0, <1>3 DEF QueueDirty, Goto
  <2>2. w \in RWorker /\ w.pc = "retire" /\ w.cancelled = old.cancelled
    BY <1>2 DEF RWorker
  <2> HIDE DEF w
  <2>3. /\ \A j \in Items : rstat'[j] = "running" <=> w.pc \in RBusy /\ w.seen = j
        /\ w.pc \notin RBusy /\ w.pc \notin {"claim", "done", "insert"}
    BY <1>1, <1>2, <2>2 DEF RBusy
  <2>4. RoutingOwes(old) \subseteq RoutingOwes(w)
    BY <1>1, <1>3 DEF RoutingOwes
  <2> HIDE DEF old
  <2> QED BY <1>0, <1>1, <1>2, <2>1, <2>2, <2>3, <2>4, RoutingOnly DEF old
<1>4. ASSUME NEW t \in old.dirty \ old.left, QueueUnderstanding(t, 0),
             worker' = [worker EXCEPT !["r"].left = old.left \cup {t}]
      PROVE  JobsInv'
  <2> DEFINE w == [old EXCEPT !.left = old.left \cup {t}]
  <2>1. worker' = [worker EXCEPT !["r"] = w] /\ t \in Topics
    BY <1>0, <1>2, <1>4 DEF WorkType, RWorker
  <2>2. /\ w \in RWorker /\ w.pc = "queue" /\ w.cancelled = old.cancelled /\ w.dirty = old.dirty
        /\ w.left = old.left \cup {t}
    BY <1>1, <1>2, <2>1 DEF RWorker
  <2> HIDE DEF w
  <2>3. /\ \A j \in Items : rstat'[j] = "running" <=> w.pc \in RBusy /\ w.seen = j
        /\ w.pc \notin RBusy /\ w.pc \notin {"claim", "done", "insert"}
    BY <1>1, <1>2, <2>2 DEF RBusy
  <2>4. RoutingOwes(old) \ RoutingOwes(w) \subseteq {t}
    BY <1>1, <2>2 DEF RoutingOwes
  <2>5. /\ WorkType' /\ BusyInv' /\ StopInv' /\ worker'["r"] = w /\ worker'["u"] = worker["u"]
        /\ \A s \in Topics : s \in Owed => s \in Owed' \/ s \in RoutingOwes(old) \ RoutingOwes(w)
    BY <1>0, <1>1, <1>2, <2>1, <2>2, <2>3, RoutingStep
  <2>6. \A s \in Topics \ {t} : s \in Owed => s \in Owed'
    BY <2>4, <2>5
  <2>7. \A s \in Topics : topic'[s].rev = topic[s].rev
    BY <1>0, <1>4, <2>1 DEF QueueUnderstanding, RowsType, TopicRow
  <2>8. \A s \in Topics : Awaited(s) => Awaited(s)'
    BY <1>1, <2>7, CallsStay
  <2>9. worker'["r"].pc # "insert" /\ 0 \in Nat
    BY <2>2, <2>5
  <2> QED BY <1>1, <1>4, <2>1, <2>5, <2>6, <2>8, <2>9, QueueStep
<1> QED
  <2>1. CASE old.dirty \ old.left # {}
    <3>1. \E t \in old.dirty \ old.left :
            QueueUnderstanding(t, 0) /\ worker' = [worker EXCEPT !["r"].left = @ \cup {t}]
      BY <2>1 DEF QueueDirty
    <3>2. \A t : [worker EXCEPT !["r"].left = @ \cup {t}] = [worker EXCEPT !["r"].left = old.left \cup {t}]
      BY <1>0 DEF WorkType
    <3> QED BY <1>4, <3>1, <3>2
  <2> QED BY <1>3, <2>1

-----------------------------------------------------------------------------
(* The end of a goroutine, and of the process.                               *)

LEMMA RetireStep ==
  ASSUME JobsInv, NEW k \in Kinds, Retire(k)
  PROVE  JobsInv'
<1> DEFINE fresh == [pc |-> "claim", cancelled |-> FALSE, left |-> {}, dirty |-> {},
                     out |-> "none", seen |-> NoDigest]
<1>0. /\ WorkType /\ BusyInv /\ StopInv
      /\ "u" \in Kinds /\ "a" \in Kinds /\ "r" \in Kinds /\ "u" # "r" /\ "a" # "r" /\ "u" # "a"
      /\ worker \in [Kinds -> {Idle} \cup UWorker \cup AWorker \cup RWorker]
  BY DEF JobsInv, Kinds, WorkType
<1>1. /\ worker[k].pc = "retire"
      /\ checks' = IF process = "up" THEN [checks EXCEPT ![k] = checks[k] + 1] ELSE checks
      /\ UNCHANGED <<inst, topic, lib, gone, version, member, verdict, snap, rstat, uq, urun, aq, arun, orphan,
                     lost, stuck, thread, process>>
  BY <1>0 DEF Retire, rows, queues, ghosts, WorkType
<1>2. process # "down"
  BY <1>0, <1>1 DEF StopInv, Idle
<1>3. fresh \in UWorker /\ fresh.pc = "claim" /\ fresh.cancelled = FALSE
  BY FirstDigest DEF UWorker, NoDigest
<1>4. /\ worker' \in [Kinds -> {Idle} \cup UWorker \cup AWorker \cup RWorker]
      /\ worker'[k] = Idle
      /\ \A j \in Kinds \ {k} : worker'[j] = worker[j]
                               \/ (j = "u" /\ worker["u"].pc = "off" /\ worker'["u"] = fresh)
  <2>1. CASE k = "r" /\ worker[k].dirty # {} /\ process = "up"
    <3> DEFINE v == Launched("u")["u"]
    <3>1. worker' = [worker EXCEPT !["r"] = Idle, !["u"] = v]
      BY <2>1 DEF Retire
    <3>2. v = worker["u"] \/ (worker["u"].pc = "off" /\ v = fresh)
      BY <1>0 DEF Launched
    <3> HIDE DEF v, fresh
    <3>3. v \in {Idle} \cup UWorker
      BY <1>0, <1>3, <3>2 DEF WorkType
    <3> QED BY <1>0, <2>1, <3>1, <3>2, <3>3
  <2>2. CASE ~(k = "r" /\ worker[k].dirty # {} /\ process = "up")
    <3>1. worker' = [worker EXCEPT ![k] = Idle]
      BY <2>2 DEF Retire
    <3> QED BY <1>0, <3>1
  <2> QED BY <2>1, <2>2
<1> HIDE DEF fresh
<1>5. checks' \in [Kinds -> Nat]
  BY <1>0, <1>1 DEF WorkType
<1>6. WorkType'
  <2>1. worker'["u"] \in {Idle} \cup UWorker
    BY <1>0, <1>3, <1>4 DEF WorkType
  <2>2. worker'["a"] \in {Idle} \cup AWorker
    BY <1>0, <1>4 DEF WorkType
  <2>3. worker'["r"] \in {Idle} \cup RWorker
    BY <1>0, <1>4 DEF WorkType
  <2>4. thread' \in [Clients -> Seq(Call)] /\ process' \in {"up", "stopping", "down"}
    BY <1>0, <1>1 DEF WorkType
  <2> QED BY <1>4, <1>5, <2>1, <2>2, <2>3, <2>4 DEF WorkType
<1>7. /\ worker'["u"].pc \in UBusy <=> worker["u"].pc \in UBusy
      /\ worker'["a"].pc \in ABusy <=> worker["a"].pc \in ABusy
      /\ \A pc \in RBusy \cup {"claim", "queue"} :
           worker'["r"].pc = pc <=> worker["r"].pc = pc
      /\ worker["r"].pc \in RBusy \cup {"claim", "queue"} => worker'["r"] = worker["r"]
      /\ worker'["u"].pc \in UBusy => worker'["u"] = worker["u"]
      /\ worker'["r"].pc \notin {"off", "retire"} => worker'["r"] = worker["r"]
      /\ worker["r"].pc \notin {"off", "retire"} => worker'["r"] = worker["r"]
  <2>1. /\ worker'["u"].pc \in UBusy <=> worker["u"].pc \in UBusy
        /\ worker'["u"].pc \in UBusy => worker'["u"] = worker["u"]
    BY <1>0, <1>1, <1>3, <1>4 DEF UBusy, Idle
  <2>2. worker'["a"].pc \in ABusy <=> worker["a"].pc \in ABusy
    BY <1>0, <1>1, <1>4 DEF ABusy, Idle
  <2>3. worker'["r"] = worker["r"] \/ (worker["r"].pc = "retire" /\ worker'["r"] = Idle)
    BY <1>0, <1>1, <1>4
  <2> QED BY <2>1, <2>2, <2>3 DEF RBusy, Idle
<1>8. BusyInv'
  BY <1>0, <1>1, <1>2, <1>7 DEF BusyInv, RBusy
<1>9. StopInv'
  <2>1. /\ process = "up" => orphan = [j \in {"u", "a"} |-> NoJob]
        /\ process = "up" => \A j \in Kinds : worker'[j].pc # "off" => ~worker'[j].cancelled
    BY <1>0, <1>3, <1>4 DEF StopInv, Idle
  <2>2. ASSUME NEW j \in {"u", "a"}, worker'[j].pc \notin {"off", "retire"}, worker'[j].cancelled
        PROVE  orphan[j] = NoJob
    BY <1>0, <1>1, <1>3, <1>4, <2>2 DEF StopInv, Idle
  <2> QED BY <1>1, <1>2, <2>1, <2>2 DEF StopInv
<1>10. OwedByRouting' = OwedByRouting
  <2>1. CASE worker["r"].pc \notin {"off", "retire"}
    BY <1>7, <2>1 DEF OwedByRouting, RStep
  <2>2. CASE worker["r"].pc \in {"off", "retire"}
    <3>1. worker'["r"].pc \in {"off", "retire"}
      BY <1>7, <2>2
    <3> QED BY <2>2, <3>1 DEF OwedByRouting
  <2> QED BY <2>1, <2>2
<1>11. \A t \in Topics : t \in Owed => t \in Owed'
  <2>1. \A c \in Clients : OwedBy(c)' = OwedBy(c)
    BY <1>1 DEF OwedBy
  <2> QED BY <1>10, <2>1 DEF Owed
<1>12. \A t \in Topics : Awaited(t) => Awaited(t)'
  BY <1>1, CallsStay
<1>13. /\ worker'["u"].pc \in {"ask", "save", "done"} =>
            worker["u"].pc \in {"ask", "save", "done"} /\ worker'["u"].seen = worker["u"].seen
       /\ worker'["r"].pc = "insert" => worker["r"].pc = "insert" /\ worker'["r"].seen = worker["r"].seen
  BY <1>7 DEF UBusy, RBusy
<1>14. snap' \in [Topics -> Digests]
  BY <1>1 DEF JobsInv, RowsType
<1> QED BY <1>1, <1>6, <1>8, <1>9, <1>11, <1>12, <1>13, <1>14, WorkOnly

\* Pending rows found after the retirement launch the goroutine again.
LEMMA RecheckStep ==
  ASSUME JobsInv, NEW k \in Kinds, Recheck(k)
  PROVE  JobsInv'
<1>1. /\ checks[k] > 0 /\ checks' = [checks EXCEPT ![k] = checks[k] - 1]
      /\ worker' = Launched(k) \/ worker' = worker
      /\ UNCHANGED <<inst, topic, lib, gone, version, member, verdict, snap, rstat, uq, urun, aq, arun, orphan,
                     lost, stuck, thread, process>>
  BY DEF Recheck, rows, queues, ghosts, JobsInv, WorkType
<1>2. WorkType /\ BusyInv /\ StopInv /\ checks \in [Kinds -> Nat] /\ thread \in Threads
  BY DEF JobsInv, WorkType, Threads
<1>3. process # "down"
  BY <1>1, <1>2 DEF StopInv
<1>4. checks' \in [Kinds -> Nat] /\ thread' \in Threads
  <2>1. checks[k] - 1 \in Nat
    BY <1>1, <1>2
  <2> QED BY <1>1, <1>2, <2>1
<1>5. /\ WorkType' /\ BusyInv' /\ StopInv' /\ OwedByRouting' = OwedByRouting
      /\ worker'["u"].pc \in {"ask", "save", "done"} =>
           worker["u"].pc \in {"ask", "save", "done"} /\ worker'["u"].seen = worker["u"].seen
      /\ worker'["r"].pc = "insert" => worker["r"].pc = "insert" /\ worker'["r"].seen = worker["r"].seen
  <2>1. CASE worker' = Launched(k)
    BY <1>1, <1>2, <1>3, <1>4, <2>1, LaunchStep
  <2>2. CASE worker' = worker
    <3>1. WorkType' /\ BusyInv'
      BY <1>1, <1>2, <1>4, <2>2 DEF WorkType, BusyInv
    <3>2. StopInv'
      BY <1>1, <1>2, <1>3, <2>2 DEF StopInv
    <3> QED BY <2>2, <3>1, <3>2 DEF OwedByRouting, RStep
  <2> QED BY <1>1, <2>1, <2>2
<1>6. \A t \in Topics : t \in Owed => t \in Owed'
  <2>1. \A c \in Clients : OwedBy(c)' = OwedBy(c)
    BY <1>1 DEF OwedBy
  <2> QED BY <1>5, <2>1 DEF Owed
<1>7. \A t \in Topics : Awaited(t) => Awaited(t)'
  BY <1>1, CallsStay
<1>8. snap' \in [Topics -> Digests]
  BY <1>1 DEF JobsInv, RowsType
<1> QED BY <1>1, <1>5, <1>6, <1>7, <1>8, WorkOnly

\* Shutdown marks every goroutine of the moment.
LEMMA StopStep ==
  ASSUME JobsInv, Stop
  PROVE  JobsInv'
<1>1. /\ process = "up" /\ process' = "stopping"
      /\ worker' = [k \in Kinds |-> IF worker[k].pc = "off" THEN Idle
                                    ELSE [worker[k] EXCEPT !.cancelled = TRUE]]
      /\ UNCHANGED <<inst, topic, lib, gone, version, member, verdict, snap, rstat, uq, urun, aq, arun, orphan,
                     lost, stuck, thread, checks>>
  BY DEF Stop, rows, queues, ghosts
<1>2. /\ WorkType /\ BusyInv /\ StopInv
      /\ "u" \in Kinds /\ "a" \in Kinds /\ "r" \in Kinds
  BY DEF JobsInv, Kinds
<1>3. orphan = [k \in {"u", "a"} |-> NoJob]
  BY <1>1, <1>2 DEF StopInv
<1>4. ASSUME NEW k \in Kinds, NEW W \in {UWorker, AWorker, RWorker}, worker[k] \in {Idle} \cup W
      PROVE  /\ worker'[k] \in {Idle} \cup W /\ worker'[k].pc = worker[k].pc
             /\ worker[k].pc # "off" =>
                  /\ worker'[k].seen = worker[k].seen /\ worker'[k].left = worker[k].left
                  /\ worker'[k].dirty = worker[k].dirty /\ worker'[k].out = worker[k].out
  <2>1. CASE worker[k].pc = "off"
    BY <1>1, <2>1 DEF Idle
  <2>2. CASE worker[k].pc # "off"
    <3>1. worker'[k] = [worker[k] EXCEPT !.cancelled = TRUE] /\ worker[k] \in W
      BY <1>1, <1>4, <2>2 DEF Idle
    <3> DEFINE x == worker[k]
               y == [x EXCEPT !.cancelled = TRUE]
    <3>2. CASE W = UWorker
      <4>1. x \in UWorker
        BY <3>1, <3>2
      <4> HIDE DEF x
      <4>2. y \in UWorker /\ y.pc = x.pc /\ y.seen = x.seen /\ y.left = x.left /\ y.dirty = x.dirty
            /\ y.out = x.out
        BY <4>1 DEF UWorker
      <4> QED BY <3>1, <3>2, <4>2 DEF x
    <3>3. CASE W = AWorker
      <4>1. x \in AWorker
        BY <3>1, <3>3
      <4> HIDE DEF x
      <4>2. y \in AWorker /\ y.pc = x.pc /\ y.seen = x.seen /\ y.left = x.left /\ y.dirty = x.dirty
            /\ y.out = x.out
        BY <4>1 DEF AWorker
      <4> QED BY <3>1, <3>3, <4>2 DEF x
    <3>4. CASE W = RWorker
      <4>1. x \in RWorker
        BY <3>1, <3>4
      <4> HIDE DEF x
      <4>2. y \in RWorker /\ y.pc = x.pc /\ y.seen = x.seen /\ y.left = x.left /\ y.dirty = x.dirty
            /\ y.out = x.out
        BY <4>1 DEF RWorker
      <4> QED BY <3>1, <3>4, <4>2 DEF x
    <3> QED BY <3>2, <3>3, <3>4
  <2> QED BY <2>1, <2>2
<1>5. /\ worker'["u"] \in {Idle} \cup UWorker /\ worker'["u"].pc = worker["u"].pc
      /\ worker["u"].pc # "off" => worker'["u"].seen = worker["u"].seen
  BY <1>2, <1>4 DEF WorkType
<1>6. worker'["a"] \in {Idle} \cup AWorker /\ worker'["a"].pc = worker["a"].pc
  BY <1>2, <1>4 DEF WorkType
<1>7. /\ worker'["r"] \in {Idle} \cup RWorker /\ worker'["r"].pc = worker["r"].pc
      /\ worker["r"].pc # "off" =>
           /\ worker'["r"].seen = worker["r"].seen /\ worker'["r"].left = worker["r"].left
           /\ worker'["r"].dirty = worker["r"].dirty /\ worker'["r"].out = worker["r"].out
  BY <1>2, <1>4 DEF WorkType
<1>8. WorkType'
  <2>1. worker' \in [Kinds -> {Idle} \cup UWorker \cup AWorker \cup RWorker]
    <3>1. \A k \in Kinds : worker'[k] \in {Idle} \cup UWorker \cup AWorker \cup RWorker
      BY <1>5, <1>6, <1>7 DEF Kinds
    <3> QED BY <1>1, <3>1
  <2> QED BY <1>1, <1>2, <1>5, <1>6, <1>7, <2>1 DEF WorkType
<1>9. BusyInv'
  BY <1>1, <1>2, <1>5, <1>6, <1>7 DEF BusyInv, RBusy
<1>10. StopInv'
  BY <1>1, <1>3 DEF StopInv
<1>11. OwedByRouting' = OwedByRouting
  BY <1>7 DEF OwedByRouting, RStep
<1>12. \A t \in Topics : t \in Owed => t \in Owed'
  <2>1. \A c \in Clients : OwedBy(c)' = OwedBy(c)
    BY <1>1 DEF OwedBy
  <2> QED BY <1>11, <2>1 DEF Owed
<1>13. \A t \in Topics : Awaited(t) => Awaited(t)'
  BY <1>1, CallsStay
<1>14. snap' \in [Topics -> Digests]
  BY <1>1 DEF JobsInv, RowsType
<1>15. /\ worker'["u"].pc \in {"ask", "save", "done"} =>
            worker["u"].pc \in {"ask", "save", "done"} /\ worker'["u"].seen = worker["u"].seen
       /\ worker'["r"].pc = "insert" => worker["r"].pc = "insert" /\ worker'["r"].seen = worker["r"].seen
  BY <1>5, <1>7
<1> QED BY <1>1, <1>8, <1>9, <1>10, <1>12, <1>13, <1>14, <1>15, WorkOnly

\* The process ends: whom a call or the routing still owed a row is lost.
LEMMA EndStep ==
  ASSUME JobsInv, End
  PROVE  JobsInv'
<1>1. /\ process # "down" /\ process' = "down" /\ thread' = [c \in Clients |-> << >>]
      /\ worker' = [k \in Kinds |-> Idle] /\ checks' = [k \in Kinds |-> 0]
      /\ lost' = lost \cup Owed /\ stuck' = stuck \cup OwedActivation
      /\ UNCHANGED <<inst, topic, lib, gone, version, member, verdict, snap, rstat, uq, urun, aq, arun, orphan>>
  BY DEF End, rows, queues
<1>2. /\ RowsType /\ QueueType /\ WorkType /\ CountInv /\ OnceInv /\ BusyInv /\ StopInv
      /\ StatusHonest /\ RouteInv /\ HeldInv /\ UnderstandingCatchesUp
      /\ "u" \in Kinds /\ "a" \in Kinds /\ "r" \in Kinds
  BY DEF JobsInv, Kinds
<1>3. worker'["u"] = Idle /\ worker'["a"] = Idle /\ worker'["r"] = Idle /\ Idle.pc = "off"
  BY <1>1, <1>2 DEF Idle
<1>4. lost' \subseteq Topics /\ stuck' \subseteq Topics
  <2>1. \A c \in Clients : OwedBy(c) = Owing(thread[c])
    BY <1>2, OwedIn DEF OwedBy, WorkType
  <2>2. \A c \in Clients : OwedBy(c) \subseteq Topics
    BY <2>1 DEF Owing
  <2>3. OwedByRouting \subseteq Topics
    <3>1. worker["r"].pc # "off" => worker["r"].dirty \subseteq Topics
      BY <1>2 DEF WorkType, RWorker, Idle
    <3> QED BY <3>1 DEF OwedByRouting
  <2>4. Owed \subseteq Topics
    BY <2>2, <2>3 DEF Owed
  <2>5. OwedActivation \subseteq Topics
    BY DEF OwedActivation
  <2> QED BY <1>1, <1>2, <2>4, <2>5 DEF RowsType
<1>5. RowsType' /\ QueueType'
  BY <1>1, <1>2, <1>4 DEF RowsType, QueueType
<1>6. WorkType'
  <2>1. << >> \in Seq(Call)
    BY NoCalls
  <2> QED BY <1>1, <1>3, <2>1 DEF WorkType
<1>7. BusyInv' /\ StopInv'
  BY <1>1, <1>3 DEF BusyInv, StopInv, RBusy
<1>8. CountInv' /\ OnceInv' /\ StatusHonest'
  BY <1>1, <1>2, CountKept, OnceKept, StatusKept
<1>9. HeldInv'
  BY <1>1, <1>2, <1>3 DEF HeldInv
<1>10. RouteInv'
  <2>1. \A t \in Topics : Awaited(t) => t \in OwedActivation
    BY DEF Awaited, Awaits, Elems, OwedActivation
  <2>2. \A t \in Topics :
           \/ Awaited(t)' \/ t \in stuck'
           \/ /\ topic'[t].rev = topic[t].rev /\ topic'[t].rstatus = topic[t].rstatus
              /\ ~Awaited(t) /\ t \notin stuck
    BY <1>1, <2>1
  <2> QED BY <1>1, <1>2, <2>2, RouteKept
<1>11. UnderstandingCatchesUp'
  <2>1. \A t \in Topics : Due(t) => Due(t)'
    BY <1>1 DEF Due
  <2> QED BY <1>1, <1>2, <2>1, SettledKept
<1>12. SeenInv'
  BY <1>3 DEF SeenInv
<1> QED BY <1>5, <1>6, <1>7, <1>8, <1>9, <1>10, <1>11, <1>12 DEF JobsInv

\* The rows that are pending again: the one Shutdown left, the one at work, the others.
LEMMA ResumedRows ==
  ASSUME NEW q \in Seq(Row), NEW j \in JobRow, NEW o \in JobRow
  PROVE  /\ RowOf(o) \o RowOf(j) \o q \in Seq(Row)
         /\ Elems(RowOf(o) \o RowOf(j) \o q) = Elems(q) \cup ({j, o} \ {NoJob})
         /\ Distinct(q) /\ j \notin Elems(q) /\ o \notin Elems(q) /\ (j = o => j = NoJob)
              => Distinct(RowOf(o) \o RowOf(j) \o q)
         /\ \A t \in Topics : Cardinality(RowsOf(RowOf(o) \o RowOf(j) \o q, t))
                              <= Cardinality(RowsOf(q, t)) + One(j.t = t) + One(o.t = t)
<1> DEFINE p == RowOf(j) \o q
           all == RowOf(o) \o p
<1>1. RowOf(o) \in Seq(Row) /\ RowOf(j) \in Seq(Row)
  BY DEF RowOf, JobRow
<1>2. RowOf(o) \o RowOf(j) \o q = all
  BY <1>1, ConcatAssociative
<1>3. /\ p \in Seq(Row) /\ Elems(p) = Elems(q) \cup (IF j = NoJob THEN {} ELSE {j})
      /\ Distinct(q) /\ j \notin Elems(q) => Distinct(p)
      /\ \A t \in Topics : Cardinality(RowsOf(p, t)) <= Cardinality(RowsOf(q, t)) + One(j.t = t)
  BY BeforeRows, NoRow
<1> HIDE DEF p
<1>4. /\ all \in Seq(Row) /\ Elems(all) = Elems(p) \cup (IF o = NoJob THEN {} ELSE {o})
      /\ Distinct(p) /\ o \notin Elems(p) => Distinct(all)
      /\ \A t \in Topics : Cardinality(RowsOf(all, t)) <= Cardinality(RowsOf(p, t)) + One(o.t = t)
  BY <1>3, BeforeRows, NoRow
<1> HIDE DEF all
<1>5. Elems(all) = Elems(q) \cup ({j, o} \ {NoJob})
  BY <1>3, <1>4
<1>6. ASSUME Distinct(q), j \notin Elems(q), o \notin Elems(q), j = o => j = NoJob
      PROVE  Distinct(all)
  BY <1>3, <1>4, <1>6
<1>7. ASSUME NEW t \in Topics
      PROVE Cardinality(RowsOf(all, t)) <= Cardinality(RowsOf(q, t)) + One(j.t = t) + One(o.t = t)
  <2>1. /\ Cardinality(RowsOf(all, t)) \in Nat /\ Cardinality(RowsOf(p, t)) \in Nat
        /\ Cardinality(RowsOf(q, t)) \in Nat
    BY <1>3, <1>4, RowsFinite
  <2>2. One(j.t = t) \in Nat /\ One(o.t = t) \in Nat
    BY DEF One
  <2>3. Cardinality(RowsOf(p, t)) <= Cardinality(RowsOf(q, t)) + One(j.t = t)
    BY <1>3
  <2>4. Cardinality(RowsOf(all, t)) <= Cardinality(RowsOf(p, t)) + One(o.t = t)
    BY <1>4
  <2> QED BY <2>1, <2>2, <2>3, <2>4
<1> QED BY <1>2, <1>4, <1>5, <1>6, <1>7

\* The start after that: every row is pending, every status says so.
LEMMA RestartStep ==
  ASSUME JobsInv, Restart
  PROVE  JobsInv'
<1> DEFINE fresh == [pc |-> "claim", cancelled |-> FALSE, left |-> {}, dirty |-> {},
                     out |-> "none", seen |-> NoDigest]
<1>1. /\ process = "down" /\ process' = "up"
      /\ uq' = RowOf(orphan["u"]) \o RowOf(urun) \o uq
      /\ aq' = RowOf(orphan["a"]) \o RowOf(arun) \o aq
      /\ urun' = NoJob /\ arun' = NoJob /\ orphan' = [k \in {"u", "a"} |-> NoJob]
      /\ rstat' = [i \in Items |-> IF rstat[i] = "running" THEN "pending" ELSE rstat[i]]
      /\ topic' = [t \in Topics |->
                     [topic[t] EXCEPT !.ustatus = IF UPending(t) \/ t \in {urun.t, orphan["u"].t}
                                                   THEN "pending" ELSE @,
                                      !.rstatus = IF @ = "running" THEN "pending" ELSE @]]
      /\ worker' = [k \in Kinds |-> Launched(k)[k]]
      /\ UNCHANGED <<inst, lib, gone, version, member, verdict, snap, checks, thread, lost, stuck>>
  BY DEF Restart, ghosts
<1>2. /\ RowsType /\ QueueType /\ WorkType /\ CountInv /\ OnceInv /\ BusyInv /\ StopInv
      /\ StatusHonest /\ RouteInv /\ HeldInv /\ UnderstandingCatchesUp
      /\ topic \in [Topics -> TopicRow]
      /\ uq \in Seq(Row) /\ urun \in JobRow /\ aq \in Seq(Row) /\ arun \in JobRow
      /\ orphan["u"] \in JobRow /\ orphan["a"] \in JobRow
      /\ "u" \in Kinds /\ "a" \in Kinds /\ "r" \in Kinds
  BY DEF JobsInv, RowsType, QueueType, Kinds
<1>3. worker = [k \in Kinds |-> Idle] /\ worker["r"].pc = "off"
  <2>1. worker = [k \in Kinds |-> Idle]
    BY <1>1, <1>2 DEF StopInv
  <2> QED BY <1>2, <2>1 DEF Idle
<1>4. \A k \in Kinds : worker'[k] = fresh
  BY <1>1, <1>3 DEF Launched, Idle
<1>5. fresh \in UWorker /\ fresh \in AWorker /\ fresh \in RWorker
  BY FirstDigest DEF UWorker, AWorker, RWorker, NoDigest
<1>6. fresh.pc = "claim" /\ fresh.cancelled = FALSE /\ fresh.left = {} /\ fresh.dirty = {}
  OBVIOUS
<1> HIDE DEF fresh
<1>7. WorkType'
  BY <1>1, <1>2, <1>4, <1>5 DEF WorkType
<1>8. /\ NoJob \notin Row /\ NoJob \in JobRow /\ \A t \in Topics : NoJob.t # t
  BY NoRow DEF JobRow
<1>9. /\ uq' \in Seq(Row) /\ Elems(uq') = Elems(uq) \cup ({urun, orphan["u"]} \ {NoJob})
      /\ \A t \in Topics : Cardinality(RowsOf(uq', t))
                           <= Cardinality(RowsOf(uq, t)) + One(urun.t = t) + One(orphan["u"].t = t)
  <2> DEFINE o == orphan["u"]
             all == RowOf(o) \o RowOf(urun) \o uq
  <2>1. uq \in Seq(Row) /\ urun \in JobRow /\ o \in JobRow /\ uq' = all
    BY <1>1, <1>2
  <2> HIDE DEF o
  <2>2. /\ all \in Seq(Row) /\ Elems(all) = Elems(uq) \cup ({urun, o} \ {NoJob})
        /\ \A t \in Topics : Cardinality(RowsOf(all, t))
                             <= Cardinality(RowsOf(uq, t)) + One(urun.t = t) + One(o.t = t)
    BY <2>1, ResumedRows
  <2> HIDE DEF all
  <2> QED BY <2>1, <2>2 DEF o
<1>10. /\ aq' \in Seq(Row) /\ Elems(aq') = Elems(aq) \cup ({arun, orphan["a"]} \ {NoJob})
       /\ Distinct(aq')
  <2> DEFINE o == orphan["a"]
             all == RowOf(o) \o RowOf(arun) \o aq
  <2>1. /\ aq \in Seq(Row) /\ arun \in JobRow /\ o \in JobRow /\ aq' = all
        /\ Distinct(aq) /\ arun \notin Elems(aq) /\ o \notin Elems(aq) /\ (arun = o => arun = NoJob)
    BY <1>1, <1>2 DEF OnceInv
  <2> HIDE DEF o
  <2>2. /\ all \in Seq(Row) /\ Elems(all) = Elems(aq) \cup ({arun, o} \ {NoJob})
        /\ Distinct(all)
    BY <2>1, ResumedRows
  <2> HIDE DEF all
  <2> QED BY <2>1, <2>2 DEF o
<1>11. \A t \in Topics : UPending(t)' <=> UPending(t) \/ t \in {urun.t, orphan["u"].t}
  <2>1. \A t : UPending(t) <=> \E x \in Elems(uq) : x.t = t
    BY DEF UPending, Elems
  <2>2. \A t : UPending(t)' <=> \E x \in Elems(uq') : x.t = t
    BY DEF UPending, Elems
  <2> QED BY <1>8, <1>9, <2>1, <2>2
<1>12. ASSUME NEW t \in Topics
       PROVE  /\ topic'[t] \in TopicRow /\ topic'[t].rev = topic[t].rev /\ topic'[t].udigest = topic[t].udigest
              /\ topic'[t].ustatus = IF UPending(t) \/ t \in {urun.t, orphan["u"].t}
                                     THEN "pending" ELSE topic[t].ustatus
              /\ topic'[t].rstatus = IF topic[t].rstatus = "running" THEN "pending" ELSE topic[t].rstatus
  <2>1. topic[t] \in TopicRow
    BY <1>2
  <2> QED BY <1>1, <2>1 DEF TopicRow
<1>13. RowsType'
  <2>1. topic' \in [Topics -> TopicRow]
    BY <1>1, <1>12
  <2>2. rstat' \in [Items -> {"none", "pending", "running", "completed", "failed"}]
    BY <1>1, <1>2 DEF RowsType
  <2> QED BY <1>1, <1>2, <2>1, <2>2 DEF RowsType
<1>14. QueueType'
  BY <1>1, <1>8, <1>9, <1>10 DEF QueueType
<1>15. CountInv'
  <2> SUFFICES ASSUME NEW t \in Topics
               PROVE  Cardinality(RowsOf(uq', t)) + One(NoJob.t = t) + One(NoJob.t = t) <= 3
    BY <1>1 DEF CountInv
  <2>1. Cardinality(RowsOf(uq, t)) + One(urun.t = t) + One(orphan["u"].t = t) <= 3
    BY <1>2 DEF CountInv
  <2>2. /\ Cardinality(RowsOf(uq, t)) \in Nat /\ One(urun.t = t) \in Nat /\ One(orphan["u"].t = t) \in Nat
        /\ Cardinality(RowsOf(uq', t)) \in Nat /\ One(NoJob.t = t) = 0
    BY <1>2, <1>8, <1>9, RowsFinite DEF One
  <2>3. Cardinality(RowsOf(uq', t))
          <= Cardinality(RowsOf(uq, t)) + One(urun.t = t) + One(orphan["u"].t = t)
    BY <1>9
  <2> QED BY <2>1, <2>2, <2>3
<1>16. OnceInv'
  <2>1. NoJob \notin Elems(aq')
    <3>1. \A x \in Elems(aq) : x \in Row
      BY <1>2, LenProperties, ElementOfSeq DEF Elems
    <3> QED BY <1>8, <1>10, <3>1
  <2> QED BY <1>1, <1>10, <2>1 DEF OnceInv
<1>17. BusyInv'
  <2>1. \A i \in Items : rstat'[i] # "running"
    BY <1>1
  <2> QED BY <1>1, <1>2, <1>4, <1>6, <2>1 DEF BusyInv, UBusy, ABusy, RBusy
<1>18. StopInv'
  BY <1>1, <1>2, <1>4, <1>6 DEF StopInv
<1>19. StatusHonest'
  <2> SUFFICES ASSUME NEW t \in Topics
               PROVE  /\ topic'[t].ustatus = "pending" => UPending(t)'
                      /\ topic'[t].ustatus = "running" => t \in {urun'.t, orphan'["u"].t}
                      /\ topic'[t].ustatus \notin {"pending", "running"} => ~UPending(t)' /\ urun'.t # t
    BY DEF StatusHonest
  <2>1. CASE UPending(t) \/ t \in {urun.t, orphan["u"].t}
    BY <1>11, <1>12, <2>1
  <2>2. CASE ~(UPending(t) \/ t \in {urun.t, orphan["u"].t})
    <3>1. topic'[t].ustatus = topic[t].ustatus
      BY <1>12, <2>2
    <3>2. topic[t].ustatus \notin {"pending", "running"}
      BY <1>2, <2>2 DEF StatusHonest
    <3> QED BY <1>1, <1>8, <1>11, <2>2, <3>1, <3>2
  <2> QED BY <2>1, <2>2
<1>20. RouteInv'
  <2> SUFFICES ASSUME NEW t \in Topics
               PROVE  Awaited(t)' \/ t \in stuck' \/ (topic'[t].rstatus \in {"pending", "running"} <=> ABacked(t)')
    BY DEF RouteInv
  <2>1. Awaited(t)' <=> Awaited(t)
    BY <1>1, <1>12, CallsStay
  <2>2. topic'[t].rstatus \in {"pending", "running"} <=> topic[t].rstatus \in {"pending", "running"}
    BY <1>12
  <2>3. AJob(t)' = AJob(t) /\ AJob(t) # NoJob
    <3>1. AJob(t)' = AJob(t)
      BY <1>12 DEF AJob
    <3>2. AJob(t).t = t
      BY DEF AJob
    <3> QED BY <1>8, <3>1, <3>2
  <2>4. ABacked(t)' <=> ABacked(t)
    <3>1. ABacked(t) <=> AJob(t) \in {arun, orphan["a"]} \cup Elems(aq)
      BY Backed
    <3>2. ABacked(t)' <=> AJob(t)' \in {arun', orphan'["a"]} \cup Elems(aq')
      BY Backed
    <3>3. arun' = NoJob /\ orphan'["a"] = NoJob
      BY <1>1
    <3> QED BY <1>10, <2>3, <3>1, <3>2, <3>3
  <2> QED BY <1>1, <1>2, <2>1, <2>2, <2>4 DEF RouteInv
<1>21. HeldInv'
  BY <1>1, <1>2, <1>4, <1>6 DEF HeldInv
<1>22. \A t \in Topics : t \in Owed => t \in Owed'
  <2>1. \A c \in Clients : OwedBy(c)' = OwedBy(c)
    BY <1>1 DEF OwedBy
  <2>2. OwedByRouting = {}
    BY <1>3 DEF OwedByRouting
  <2> QED BY <2>1, <2>2 DEF Owed
<1>23. UnderstandingCatchesUp'
  <2> SUFFICES ASSUME NEW t \in Topics, topic'[t].ustatus \in {"current", "insufficient_evidence"}
               PROVE  topic'[t].udigest = Digest(t)' \/ t \in Owed' \cup lost'
    BY DEF UnderstandingCatchesUp
  <2>1. topic[t].ustatus \in {"current", "insufficient_evidence"} /\ topic'[t].udigest = topic[t].udigest
    BY <1>12
  <2>2. Digest(t)' = Digest(t)
    <3>1. UNCHANGED <<lib, version, member>> /\ topic'[t].rev = topic[t].rev
      BY <1>1, <1>12
    <3>2. LiveMembers(t)' = LiveMembers(t)
      BY <3>1 DEF LiveMembers, AllMembers
    <3> QED BY <3>1, <3>2 DEF Digest
  <2>3. topic[t].udigest = Digest(t) \/ t \in Owed \cup lost
    BY <1>2, <2>1 DEF UnderstandingCatchesUp
  <2> QED BY <1>1, <1>22, <2>1, <2>2, <2>3
<1>24. SeenInv'
  BY <1>2, <1>4, <1>6 DEF SeenInv
<1> QED BY <1>7, <1>13, <1>14, <1>15, <1>16, <1>17, <1>18, <1>19, <1>20, <1>21, <1>23, <1>24 DEF JobsInv

\* Nothing happens.
LEMMA JobsStutter ==
  ASSUME JobsInv, UNCHANGED vars
  PROVE  JobsInv'
<1>1. UNCHANGED <<inst, topic, lib, gone, version, member, verdict, moves, cand, snap, uq, urun, aq, arun,
                  orphan, rstat, worker, checks, thread, process, lost, stuck, spent>>
  BY DEF vars
<1>2. WorkType /\ BusyInv /\ StopInv /\ RowsType
  BY DEF JobsInv
<1>3. WorkType' /\ BusyInv' /\ StopInv'
  BY <1>1, <1>2 DEF WorkType, BusyInv, StopInv
<1>4. /\ snap' \in [Topics -> Digests]
      /\ \A t \in Topics : t \in Owed => t \in Owed'
  <2>1. \A c \in Clients : OwedBy(c)' = OwedBy(c)
    BY <1>1 DEF OwedBy
  <2>2. OwedByRouting' = OwedByRouting
    BY <1>1 DEF OwedByRouting, RStep
  <2> QED BY <1>1, <1>2, <2>1, <2>2 DEF Owed, RowsType
<1>5. \A t \in Topics : Awaited(t) => Awaited(t)'
  BY <1>1, CallsStay
<1> QED BY <1>1, <1>3, <1>4, <1>5, WorkOnly

-----------------------------------------------------------------------------
(* The jobs at first, and every step.                                        *)

LEMMA HeldDigests == NoDigest \in Digests /\ \A t \in Topics : HeldDigest(t) \in Digests
<1>1. ASSUME NEW t \in Topics PROVE HeldDigest(t) \in Digests
  <2>1. \A i \in Held(t) : i \in Items /\ <<i, 1>> \in Items \X Nat
    BY DEF Held
  <2>2. {<<i, 1>> : i \in Held(t)} \in SUBSET (Items \X Nat)
    BY <2>1
  <2> QED BY <2>2 DEF HeldDigest, Digests
<1> QED BY <1>1, FirstDigest

LEMMA JobsInit ==
  ASSUME Init
  PROVE  JobsInv
<1> DEFINE of(t) == IF t \in inst.made
                    THEN [rev |-> 1, udigest |-> HeldDigest(t), rstatus |-> "current",
                          ustatus |-> IF Held(t) = {} THEN "insufficient_evidence" ELSE "current"]
                    ELSE [rev |-> 0, ustatus |-> "idle", udigest |-> NoDigest, rstatus |-> "idle"]
<1>1. /\ inst \in Instances /\ topic = [t \in Topics |-> of(t)] /\ lib = inst.lib /\ gone = {}
      /\ version = [i \in Items |-> 1]
      /\ member = [t \in Topics |-> [i \in Items |->
                     IF <<t, i>> \in inst.held THEN [mode |-> "manual", move |-> 0] ELSE NoMember]]
      /\ verdict = [t \in Topics |-> [i \in Items |-> "none"]]
      /\ snap = [t \in Topics |-> IF Held(t) = {} THEN NoDigest ELSE HeldDigest(t)]
      /\ uq = << >> /\ urun = NoJob /\ aq = << >> /\ arun = NoJob
      /\ orphan = [k \in {"u", "a"} |-> NoJob]
      /\ rstat = [i \in Items |-> "none"]
      /\ worker = [k \in Kinds |-> Idle] /\ checks = [k \in Kinds |-> 0]
      /\ thread = [c \in Clients |-> << >>] /\ process = "up" /\ lost = {} /\ stuck = {}
  BY DEF Init
<1>2. /\ inst.lib \subseteq Items /\ inst.held \subseteq inst.made \X inst.lib
      /\ inst.held \subseteq Topics \X Items
  BY <1>1, TopicAssumption
<1>3. worker["u"] = Idle /\ worker["a"] = Idle /\ worker["r"] = Idle /\ Idle.pc = "off"
  BY <1>1 DEF Kinds, Idle
<1>4. ASSUME NEW t \in Topics
      PROVE  /\ topic[t] \in TopicRow /\ topic[t].ustatus \notin {"pending", "running"}
             /\ topic[t].rstatus \notin {"pending", "running"}
             /\ topic[t].ustatus \in {"current", "insufficient_evidence"} =>
                  topic[t].rev = 1 /\ topic[t].udigest = HeldDigest(t)
  <2>1. HeldDigest(t) \in Digests
    BY HeldDigests
  <2>2. topic[t] = of(t)
    BY <1>1
  <2> QED BY <2>1, <2>2, HeldDigests DEF TopicRow
<1>5. ASSUME NEW t \in Topics, NEW i \in Items
      PROVE  member[t][i].mode # "none" <=> <<t, i>> \in inst.held
  BY <1>1 DEF NoMember
<1>6. \A t \in Topics, i \in Items : member[t][i].mode # "none" => i \in lib
  BY <1>1, <1>2, <1>5
<1>7. ASSUME NEW t \in Topics, topic[t].rev = 1 PROVE Digest(t) = HeldDigest(t)
  <2>1. AllMembers(t) = Held(t)
    BY <1>5 DEF AllMembers, Held
  <2>2. LiveMembers(t) = Held(t)
    BY <1>6, <2>1 DEF LiveMembers, AllMembers
  <2>3. \A i \in Held(t) : version[i] = 1
    BY <1>1 DEF Held
  <2>4. {<<i, version[i]>> : i \in LiveMembers(t)} = {<<i, 1>> : i \in Held(t)}
    BY <2>2, <2>3
  <2> QED BY <1>7, <2>4 DEF Digest, HeldDigest
<1>8. RowsType
  <2>1. snap \in [Topics -> Digests]
    <3> QED BY <1>1, HeldDigests
  <2>2. topic \in [Topics -> TopicRow]
    BY <1>1, <1>4
  <2>3. rstat \in [Items -> {"none", "pending", "running", "completed", "failed"}]
    BY <1>1
  <2>4. verdict \in [Topics -> [Items -> {"none", "include", "exclude", "clear"}]]
    BY <1>1
  <2>5. version \in [Items -> Nat]
    BY <1>1
  <2> HIDE DEF of
  <2> QED BY <1>1, <1>2, <2>1, <2>2, <2>3, <2>4, <2>5 DEF RowsType
<1> HIDE DEF of
<1>9. QueueType
  <2>1. << >> \in Seq(Row)
    BY EmptySeq
  <2> QED BY <1>1, <2>1 DEF QueueType, JobRow
<1>10. WorkType
  <2>1. << >> \in Seq(Call)
    BY NoCalls
  <2> QED BY <1>1, <1>3, <2>1 DEF WorkType
<1>11. CountInv
  <2> SUFFICES ASSUME NEW t \in Topics
               PROVE  Cardinality(RowsOf(<< >>, t)) + One(NoJob.t = t) + One(NoJob.t = t) <= 3
    BY <1>1 DEF CountInv
  <2>1. << >> \in Seq(Row) /\ RowsOf(<< >>, t) = {}
    BY EmptySeq DEF RowsOf
  <2>2. Cardinality(RowsOf(<< >>, t)) = 0
    BY <2>1, RowsFinite
  <2>3. One(NoJob.t = t) = 0
    BY NoRow DEF One
  <2> QED BY <2>2, <2>3
<1>12. OnceInv
  BY <1>1 DEF OnceInv, Distinct, Elems
<1>13. BusyInv
  BY <1>1, <1>3 DEF BusyInv, UBusy, ABusy, RBusy
<1>14. StopInv
  BY <1>1, <1>3 DEF StopInv, Idle
<1>15. \A t \in Topics : ~UPending(t)
  BY <1>1 DEF UPending
<1>16. StatusHonest
  BY <1>1, <1>4, <1>15, NoRow DEF StatusHonest
<1>17. RouteInv
  <2> SUFFICES ASSUME NEW t \in Topics PROVE ~ABacked(t)
    BY <1>4 DEF RouteInv
  <2>1. AJob(t).t = t
    BY DEF AJob
  <2>2. AJob(t) # NoJob
    BY <2>1, NoRow
  <2> QED BY <1>1, <2>2 DEF ABacked
<1>18. HeldInv
  BY <1>3, <1>6 DEF HeldInv
<1>19. UnderstandingCatchesUp
  BY <1>4, <1>7 DEF UnderstandingCatchesUp
<1>20. SeenInv
  BY <1>3 DEF SeenInv
<1> QED BY <1>8, <1>9, <1>10, <1>11, <1>12, <1>13, <1>14, <1>16, <1>17, <1>18, <1>19, <1>20 DEF JobsInv

LEMMA JobsNext ==
  ASSUME JobsInv, MembershipType, [Next]_vars
  PROVE  JobsInv'
<1>1. CASE Requests
  <2>1. PICK c \in Clients :
          \/ \E t \in Topics :
               \/ Create(c, t) \/ UpdateCriteria(c, t)
               \/ RequestActivation(c, t) \/ RequestUnderstanding(c, t)
               \/ \E i \in Items :
                    \/ AddMember(c, t, i) \/ RemoveMember(c, t, i)
                    \/ Accept(c, t, i) \/ Reject(c, t, i) \/ UndoReview(c, t, i)
                    \/ \E s \in Topics : MoveMember(c, s, t, i)
          \/ \E k \in DOMAIN moves : UndoMove(c, k)
          \/ \E i \in Items :
               ReadTopics(c, i) \/ Touch(c, i) \/ Less(c, i) \/ QueueRouting(c, i)
    BY <1>1 DEF Requests
  <2>2. ASSUME NEW t \in Topics,
               \/ Create(c, t) \/ UpdateCriteria(c, t)
               \/ RequestActivation(c, t) \/ RequestUnderstanding(c, t)
        PROVE  JobsInv'
    BY <2>2, TopicRequests
  <2>3. ASSUME NEW t \in Topics, NEW i \in Items,
               \/ AddMember(c, t, i) \/ RemoveMember(c, t, i)
               \/ Accept(c, t, i) \/ Reject(c, t, i) \/ UndoReview(c, t, i)
        PROVE  JobsInv'
    BY <2>3, MemberRequests
  <2>4. ASSUME NEW i \in Items, NEW t \in Topics, NEW s \in Topics, MoveMember(c, s, t, i)
        PROVE  JobsInv'
    BY <2>4, MoveRequests
  <2>5. ASSUME NEW k \in DOMAIN moves, UndoMove(c, k) PROVE JobsInv'
    BY <2>5, MoveRequests
  <2>6. ASSUME NEW i \in Items,
               ReadTopics(c, i) \/ Touch(c, i) \/ Less(c, i) \/ QueueRouting(c, i)
        PROVE  JobsInv'
    BY <2>6, ItemRequests
  <2> QED BY <2>1, <2>2, <2>3, <2>4, <2>5, <2>6
<1>2. CASE Calls
  <2>1. PICK c \in Clients :
          \/ Removal(c) \/ NextRemoved(c) \/ CallQueueUnderstanding(c)
          \/ CallReadRevision(c) \/ CallQueueActivation(c) \/ CallMarkPending(c) \/ CallLaunch(c)
    BY <1>2 DEF Calls
  <2> QED BY <2>1, RemovalCall, NextRemovedCall, QueueUnderstandingCall, ReadRevisionCall,
             QueueActivationCall, MarkPendingCall, LaunchCall
<1>3. "u" \in Kinds /\ "a" \in Kinds /\ "r" \in Kinds
  BY DEF Kinds
<1>4. CASE UnderstandingSteps
  <2>1. CASE ClaimUnderstanding
    <3>1. CASE uq = << >> \/ worker["u"].cancelled
      BY <2>1, <3>1, UnderstandingWork
    <3>2. CASE ~(uq = << >> \/ worker["u"].cancelled)
      BY <2>1, <3>2, ClaimUnderstandingStep
    <3> QED BY <3>1, <3>2
  <2>2. CASE ReadInput \/ (\E answer \in Answers : Ask(answer)) \/ SaveSnapshot
    BY <2>2, UnderstandingWork, ReadInputStep
  <2>3. CASE FinishUnderstanding
    BY <2>3, FinishUnderstandingStep
  <2>4. CASE Retire("u") \/ Recheck("u")
    BY <1>3, <2>4, RetireStep, RecheckStep
  <2> QED BY <1>4, <2>1, <2>2, <2>3, <2>4 DEF UnderstandingSteps
<1>5. CASE ActivationSteps
  <2>1. CASE ClaimActivation
    <3>1. CASE aq = << >> \/ worker["a"].cancelled
      BY <2>1, <3>1, ActivationWork
    <3>2. CASE ~(aq = << >> \/ worker["a"].cancelled)
      BY <2>1, <3>2, ClaimActivationStep
    <3> QED BY <3>1, <3>2
  <2>2. CASE ReadLibrary \/ (\E i \in Items : Decide(i)) \/ (\E out \in {"none", "failed"} : EndScan(out))
    BY <2>2, ActivationWork
  <2>3. CASE FinishActivation
    BY <2>3, FinishActivationStep
  <2>4. CASE Retire("a") \/ Recheck("a")
    BY <1>3, <2>4, RetireStep, RecheckStep
  <2> QED BY <1>5, <2>1, <2>2, <2>3, <2>4 DEF ActivationSteps
<1>6. CASE RoutingSteps
  <2>1. CASE \/ ClaimRouting \/ (\E ts \in SUBSET Topics : Match(ts)) \/ FailRouting
             \/ (\E t \in Topics : Remember(t)) \/ FinishRouting
    BY <2>1, RoutingWork
  <2>2. CASE Join
    BY <2>2, JoinStep
  <2>3. CASE QueueDirty
    BY <2>3, QueueDirtyStep
  <2>4. CASE Retire("r") \/ Recheck("r")
    BY <1>3, <2>4, RetireStep, RecheckStep
  <2> QED BY <1>6, <2>1, <2>2, <2>3, <2>4 DEF RoutingSteps
<1>7. CASE Stop \/ End \/ Restart
  BY <1>7, StopStep, EndStep, RestartStep
<1>8. CASE UNCHANGED vars
  BY <1>8, JobsStutter
<1> QED BY <1>1, <1>2, <1>4, <1>5, <1>6, <1>7, <1>8 DEF Next

\* JobsInv is an invariant: the tables, the goroutines and the calls still to come
\* agree, through Shutdown, the launches it does not refuse, and every restart.
THEOREM JobsInvariant == Spec => []JobsInv
<1>1. Init => JobsInv
  BY JobsInit
<1>2. JobsInv /\ MembershipInv /\ [Next]_vars => JobsInv'
  BY JobsNext DEF MembershipInv
<1> QED BY <1>1, <1>2, MembershipInvariant, PTL DEF Spec

\* The status columns, the job rows and the goroutines agree, and a settled
\* understanding is of the present criteria, members and contents unless the queueing
\* of the next one was lost, or the library changed a member, which queues none, since
\* the topic was queued or read (QueueLivingTopicUnderstanding,
\* FinishLivingTopicUnderstanding, QueueLivingTopicActivation,
\* FinishLivingTopicActivation).
THEOREM JobsAreHonest == Spec => []JobsHonest
<1>1. ASSUME JobsInv, MembershipInv PROVE JobsHonest
  <2>1. /\ RowsType /\ QueueType /\ WorkType /\ CountInv /\ OnceInv /\ BusyInv /\ StopInv
        /\ StatusHonest /\ RouteInv /\ UnderstandingCatchesUp /\ MembershipType
    BY <1>1 DEF JobsInv, MembershipInv
  <2>2. \A t \in Topics : Cardinality({k \in DOMAIN uq : uq[k].t = t}) <= 3
    <3> SUFFICES ASSUME NEW t \in Topics PROVE Cardinality(RowsOf(uq, t)) <= 3
      BY DEF RowsOf
    <3>1. Cardinality(RowsOf(uq, t)) + One(urun.t = t) + One(orphan["u"].t = t) <= 3
      BY <2>1 DEF CountInv
    <3>2. /\ Cardinality(RowsOf(uq, t)) \in Nat
          /\ One(urun.t = t) \in Nat /\ One(orphan["u"].t = t) \in Nat
      BY <2>1, RowsFinite DEF QueueType, One
    <3> QED BY <3>1, <3>2
  <2>3. moves \in Seq([i : Items, from : Topics, to : Topics, source : [mode : Modes, move : Nat],
                       pre : BOOLEAN, undone : BOOLEAN])
    BY <2>1 DEF MembershipType, MoveRow, Member
  <2>4. LTTypeOK
    <3>1. /\ member \in [Topics -> [Items -> [mode : Modes, move : Nat]]]
          /\ cand \in [Topics -> [Items -> CandidateStates]]
      BY <2>1 DEF MembershipType, Member
    <3>2. /\ uq \in Seq(Row) /\ urun \in Row \cup {NoJob} /\ aq \in Seq(Row) /\ arun \in Row \cup {NoJob}
          /\ orphan \in [{"u", "a"} -> Row \cup {NoJob}]
      BY <2>1 DEF QueueType, JobRow
    <3>3. \A j, k \in DOMAIN aq : aq[j] = aq[k] => j = k
      BY <2>1 DEF OnceInv, Distinct
    <3>4. checks \in [Kinds -> Nat] /\ process \in {"up", "stopping", "down"}
      BY <2>1 DEF WorkType
    <3> QED BY <2>1, <2>2, <2>3, <3>1, <3>2, <3>3, <3>4 DEF LTTypeOK, RowsType, TopicRow
  <2>5. RoutingBacked
    <3>1. \A t \in Topics : Awaited(t) => t \in OwedActivation
      BY DEF Awaited, Awaits, Elems, OwedActivation
    <3> QED BY <2>1, <3>1 DEF RouteInv, RoutingBacked
  <2>6. RunningOwned
    BY <2>1 DEF RunningOwned, BusyInv, StopInv, UBusy, ABusy, RBusy
  <2> QED BY <2>1, <2>4, <2>5, <2>6 DEF JobsHonest
<1> QED BY <1>1, JobsInvariant, MembershipInvariant, PTL

=============================================================================
