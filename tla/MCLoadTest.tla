----------------------------- MODULE MCLoadTest -----------------------------
(* Instance of LoadTest: one worker, then two; options of each refused kind. *)
EXTENDS LoadTest

Option(start, max, scenario, accounts) ==
  [local |-> TRUE, start |-> start, max |-> max, scenario |-> scenario,
   accounts |-> accounts]

MCOptions ==
  { Option(1, 2, "hot", 5), Option(2, 2, "spread", 2), Option(1, 1, "read", 3),
    Option(0, 2, "hot", 2), Option(2, 1, "hot", 2), Option(1, 1, "spread", 1),
    [Option(1, 1, "hot", 2) EXCEPT !.local = FALSE] }
=============================================================================
