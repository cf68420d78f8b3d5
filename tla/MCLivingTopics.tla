--------------------------- MODULE MCLivingTopics ---------------------------
(***************************************************************************)
(* Small instances, one a question: changes against the understanding      *)
(* worker, without and with a crash; members that change or are retracted  *)
(* under it, and candidates retracted under a scan; criteria and reviews   *)
(* against the activation worker, without and with a crash; moves between  *)
(* two topics; posts routed while the process stops, while their items are *)
(* removed and while it crashes; both workers launched anew while the      *)
(* process stops.                                                          *)
(***************************************************************************)
EXTENDS LivingTopics, TLC

CONSTANTS t1, t2, i1, i2

Instance(ops, clients, made, items, held, answers, requests, crashes, stops) ==
    [ops |-> ops, clients |-> clients, made |-> made, lib |-> items, held |-> held,
     answers |-> answers, requests |-> requests, crashes |-> crashes, stops |-> stops,
     revisions |-> 2]

MCInstances ==
    {Instance({"add", "remove", "library", "refresh"}, {1, 2}, {t1}, {i1}, {}, Answers, 3, 0, 0),
     Instance({"add", "remove", "refresh"}, {1}, {t1}, {i1}, {}, Answers, 2, 1, 0),
     Instance({"add", "touch", "less", "refresh"}, {1, 2}, {t1}, {i1}, {<<t1, i1>>}, Answers, 3, 0, 0),
     Instance({"remove", "touch", "less"}, {1}, {t1}, {i1}, {<<t1, i1>>}, {"ready"}, 3, 1, 0),
     Instance({"activate", "review", "less"}, {1}, {t1}, {i1}, {}, {"ready"}, 3, 0, 0),
     Instance({"criteria", "activate"}, {1, 2}, {t1}, {}, {}, {"ready"}, 3, 0, 0),
     Instance({"criteria", "review"}, {1, 2}, {t1}, {i1}, {}, {"ready"}, 3, 0, 0),
     Instance({"activate", "review"}, {1, 2}, {t1}, {i1}, {}, {"ready"}, 3, 0, 0),
     Instance({"create", "criteria"}, {1}, {t1}, {}, {}, {"ready"}, 1, 1, 0),
     Instance({"add", "move", "undo", "remove"}, {1}, {t1, t2}, {i1}, {<<t1, i1>>}, {"ready"}, 3, 0, 0),
     Instance({"route"}, {1}, {t1}, {}, {}, {"ready"}, 2, 0, 1),
     Instance({"route", "library"}, {1, 2}, {t1}, {}, {}, {"ready"}, 2, 0, 0),
     Instance({"route"}, {1}, {t1}, {}, {}, {"ready"}, 1, 1, 0),
     Instance({"add", "refresh"}, {1}, {t1}, {i1}, {}, {"ready"}, 2, 0, 1),
     Instance({"criteria", "activate"}, {1}, {t1}, {}, {}, {"ready"}, 2, 0, 1)}

(* A member of an understood topic is kept, released or retracted. *)
MCDrifted == {Instance({"touch", "less"}, {1}, {t1}, {i1}, {<<t1, i1>>}, {"ready"}, 1, 0, 0)}
=============================================================================
