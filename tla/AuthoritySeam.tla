---------------------------- MODULE AuthoritySeam ----------------------------
(***************************************************************************)
(* What the concurrent controller may rely on of the authority behind its  *)
(* seam (concurrentAuthorizationSeam): it opens at most once, closes for   *)
(* good, work moves only while it is open, and closing it invalidates the  *)
(* work that was claimed.  EvidenceAuthority implements this; the          *)
(* controller of ConcurrentSession is built on it.                         *)
(***************************************************************************)
CONSTANT Works

VARIABLES authority, ticket

seamVars == <<authority, ticket>>

TicketStates == {"none", "pending", "claimed", "completed", "cancelled", "invalidated"}

SeamTypeOK == /\ authority \in {"new", "open", "revoked"}
              /\ ticket \in [Works -> TicketStates]

SeamInit == authority = "new" /\ ticket = [w \in Works |-> "none"]

Authorize == authority = "new" /\ authority' = "open" /\ UNCHANGED ticket

\* A second revocation finds nothing claimed and changes nothing.
Revoke == /\ authority' = "revoked"
          /\ ticket' = [w \in Works |-> IF ticket[w] = "claimed" THEN "invalidated"
                                                               ELSE ticket[w]]

Dispatch(w) == /\ authority = "open" /\ ticket[w] = "none"
               /\ ticket' = [ticket EXCEPT ![w] = "pending"] /\ UNCHANGED authority

Claim(w) == /\ authority = "open" /\ ticket[w] = "pending"
            /\ ticket' = [ticket EXCEPT ![w] = "claimed"] /\ UNCHANGED authority

Complete(w) == /\ authority = "open" /\ ticket[w] = "claimed"
               /\ ticket' = [ticket EXCEPT ![w] = "completed"] /\ UNCHANGED authority

\* Cancelling needs no open authority: an invalidated ticket is cancelled too.
Cancel(w) == /\ ticket[w] \in {"pending", "claimed", "invalidated"}
             /\ ticket' = [ticket EXCEPT ![w] = "cancelled"] /\ UNCHANGED authority

SeamNext == \/ Authorize \/ Revoke
            \/ \E w \in Works : Dispatch(w) \/ Claim(w) \/ Complete(w) \/ Cancel(w)

SeamSpec == SeamInit /\ [][SeamNext]_seamVars
=============================================================================
