-------------------------- MODULE MCSplitTransport --------------------------
(* Instances for TLC: pairs of actions that meet the hand-over of the       *)
(* profile, the exit of its owner, a cancellation or a close of the reader. *)
EXTENDS SplitTransport, TLC

MCActions == {"a", "b", "c"}
Kinds3(p, q, r) == ("a" :> p) @@ ("b" :> q) @@ ("c" :> r)

MCInstances ==
  {\* a source and a probe while the browser gives way
   [kind |-> Kinds3("source", "probe", "host"), first |-> "browser", modes |-> {"browser"},
    generations |-> 2, exits |-> 0, closes |-> 0, limit |-> 2, stop |-> FALSE],
   \* a post through the extension
   [kind |-> Kinds3("post", "unused", "host"), first |-> "browser", modes |-> {"reader"},
    generations |-> 2, exits |-> 0, closes |-> 0, limit |-> 2, stop |-> TRUE],
   \* posts in the reader, which is closed
   [kind |-> Kinds3("post", "post", "unused"), first |-> "headless", modes |-> {"reader"},
    generations |-> 2, exits |-> 0, closes |-> 1, limit |-> 2, stop |-> FALSE],
   \* a reader that is there from the start
   [kind |-> Kinds3("probe", "post", "unused"), first |-> "reader", modes |-> {},
    generations |-> 1, exits |-> 1, closes |-> 0, limit |-> 2, stop |-> FALSE],
   \* jobs and the reader of X
   [kind |-> Kinds3("cleanup", "xpost", "host"), first |-> "browser", modes |-> {"browser"},
    generations |-> 2, exits |-> 0, closes |-> 0, limit |-> 2, stop |-> FALSE],
   [kind |-> Kinds3("recapture", "probe", "unused"), first |-> "headless", modes |-> {"browser"},
    generations |-> 3, exits |-> 1, closes |-> 0, limit |-> 1, stop |-> FALSE]}
=============================================================================
