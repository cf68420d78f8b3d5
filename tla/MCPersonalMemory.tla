-------------------------- MODULE MCPersonalMemory --------------------------
(***************************************************************************)
(* Two posts.  t1 and t3 are the same post in two sessions, t3 without a   *)
(* text.  t2 is another post whose evidence is captured again twice: first *)
(* with the text of t1, which makes the fingerprint ambiguous, then with   *)
(* the permalink of t1, which makes the strong aliases disagree.           *)
(***************************************************************************)
EXTENDS PersonalMemory, TLC

CONSTANTS t1, t2, t3, k1, k2, link, p1, p2, m1, m2, m3

MCEvidence ==
    t1 :> <<[strong |-> {k1, link}, print |-> p1]>>
    @@ t2 :> <<[strong |-> {k2}, print |-> p2], [strong |-> {k2}, print |-> p1],
               [strong |-> {k2, link}, print |-> p1]>>
    @@ t3 :> <<[strong |-> {k1}, print |-> NoText]>>

MCInstances ==
    {[rows |-> {t1, t2}, topic |-> FALSE, requests |-> 1],
     [rows |-> {t1, t3}, topic |-> FALSE, requests |-> 2],
     [rows |-> {t1}, topic |-> TRUE, requests |-> 1]}

ItemSymmetry == Permutations(Items)

MCEvidenceOf == [t \in Timelines |-> MCEvidence[t]]
=============================================================================
