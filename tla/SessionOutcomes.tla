--------------------------- MODULE SessionOutcomes ---------------------------
(***************************************************************************)
(* What becomes of the sessions and of the accepted evidence of             *)
(* SessionPipeline.  Its history variables name the three places where the  *)
(* code gives up work without a word.                                       *)
(***************************************************************************)
EXTENDS SessionPipeline

-----------------------------------------------------------------------------
GivenUp(r) == r \in dropped \cup gone

\* An active session is in somebody's hands: a caller of startNext, a launch, a
\* worker, or a command whose expiry will fail it.  So no error path forgets to
\* call startNext, not after a failed follow-up or a re-evaluation.  Exceptions:
\* the process is ending or has ended, the session was cancelled (launches of
\* its runs are refused), and the work given up above.
SessionAttended ==
    \A s \in Sessions :
        /\ sess[s] \in ActiveSession /\ s \notin stale /\ ~ \E r \in RunsOf(s) : GivenUp(r)
        /\ spent["restarts"] = 0 /\ ~ shuttingDown /\ spent["cancels"] = 0
        => \/ \E c \in calls : c.r[1] = s
           \/ \E r \in RunsOf(s) : HasWorker(r) \/ \E k \in {1, 2} : cmd[<<r, k>>] \in OpenCommand

\* Accepted evidence is in somebody's hands until it is decided: a run in
\* reasoning has a worker or a launch, also after a restart (ResumePending-
\* Reasoning) or a failed follow-up, with the same exceptions but the restart.
EvidenceAttended ==
    \A r \in Runs :
        run[r] = "reasoning" /\ ~ GivenUp(r) /\ ~ shuttingDown /\ spent["cancels"] = 0
        => HasWorker(r) \/ \E c \in calls : c.r = r /\ c.k \in {"launch", "next_launch"}

NothingForgotten == SessionAttended /\ EvidenceAttended

\* Attended work ends, since some goroutine that can go on does: every session
\* gets an outcome and every accepted evidence a decision, with the exceptions
\* of NothingForgotten.
EverythingSettles ==
    /\ \A s \in Sessions :
          sess[s] \in ActiveSession ~>
              \/ sess[s] \notin ActiveSession
              \/ s \in stale \/ \E r \in RunsOf(s) : GivenUp(r)
              \/ spent["restarts"] > 0 \/ spent["cancels"] > 0
    /\ \A r \in Runs :
          run[r] = "reasoning" ~> run[r] # "reasoning" \/ GivenUp(r) \/ spent["cancels"] > 0

-----------------------------------------------------------------------------
(* Not kept by the code; their counterexamples are scenarios of the README.  *)

\* A fallback, a re-evaluation or a resumption is evaluated: no launch is lost
\* behind a worker that has not retired.
NoLaunchDropped == dropped = {}

\* No update is created with an X source while X is paused.
PauseRespected == stale = {}
=============================================================================
