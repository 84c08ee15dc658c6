----------------------------- MODULE MCDirector -----------------------------
(* A playbook of two sections for TLC: an assertion whose only command     *)
(* scores nothing and is the last before the next assertion, one with      *)
(* commands in all three phases, and one that sets its own passing score.  *)
EXTENDS Director

SmallPlaybook ==
    << << [pre |-> 0, cmds |-> <<[pass |-> 0, fail |-> -1]>>, post |-> 0, min |-> Unset],
          [pre |-> 1, cmds |-> <<[pass |-> 1, fail |-> -1], [pass |-> 2, fail |-> 0]>>,
           post |-> 1, min |-> Unset] >>,
       << [pre |-> 0, cmds |-> <<[pass |-> 1, fail |-> -1], [pass |-> 1, fail |-> -1]>>,
           post |-> 1, min |-> 0] >> >>

=============================================================================
