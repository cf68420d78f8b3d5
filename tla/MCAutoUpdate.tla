---------------------------- MODULE MCAutoUpdate ----------------------------
(* Instances for TLC: callers that race past a limit, an adaptive          *)
(* scheduler across a generation window, and the first-run calibration.    *)
EXTENDS AutoUpdate, TLC

Good == [status |-> "completed", items |-> 1, limited |-> FALSE]
Empty == [status |-> "completed", items |-> 0, limited |-> FALSE]
Broken == [status |-> "failed", items |-> 0, limited |-> TRUE]
Failed == [status |-> "failed", items |-> 0, limited |-> FALSE]
Mixed == [status |-> "partial", items |-> 1, limited |-> TRUE]

MCInstances ==
  {[mode |-> "continuous", firstRun |-> "disabled", callers |-> {"loop", "now"},
    outcomes |-> {Good}, allowance |-> 1, time |-> 1, sessions |-> 2, disturbances |-> 0],
   [mode |-> "continuous", firstRun |-> "disabled", callers |-> {"now"},
    outcomes |-> {Good}, allowance |-> 3, time |-> 0, sessions |-> 3, disturbances |-> 0],
   [mode |-> "continuous", firstRun |-> "disabled", callers |-> {"now"},
    outcomes |-> {Good}, allowance |-> 1, time |-> 0, sessions |-> 2, disturbances |-> 0],
   [mode |-> "adaptive", firstRun |-> "disabled", callers |-> {"loop"},
    outcomes |-> {Good, Failed}, allowance |-> 2, time |-> 2, sessions |-> 2, disturbances |-> 0],
   [mode |-> "adaptive", firstRun |-> "disabled", callers |-> {"loop", "retry"},
    outcomes |-> {Good, Empty}, allowance |-> 1, time |-> 1, sessions |-> 2, disturbances |-> 0],
   [mode |-> "continuous", firstRun |-> "pending", callers |-> {"loop"},
    outcomes |-> {Mixed, Broken}, allowance |-> 1, time |-> 1, sessions |-> 2, disturbances |-> 1]}
=============================================================================
