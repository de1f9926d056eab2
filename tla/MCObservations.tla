---------------------------- MODULE MCObservations ----------------------------
(* Two files, a readable definition, one that does not parse, and two      *)
(* recorders.                                                              *)
EXTENDS Observations, TLC

CONSTANTS laws, tests, a, broken, external, summary, r1, r2

(* A hard look at a file, a hard sequence of two commands, a comparison,   *)
(* and a soft command that may write.                                      *)
SmallLaws ==
  a :> <<[kind |-> "file", steps |-> 1, readOnly |-> TRUE, hard |-> TRUE],
         [kind |-> "command", steps |-> 2, readOnly |-> TRUE, hard |-> TRUE],
         [kind |-> "differential", steps |-> 2, readOnly |-> TRUE, hard |-> TRUE],
         [kind |-> "command", steps |-> 1, readOnly |-> FALSE, hard |-> FALSE]>>

OneKeyEach == (r1 :> {laws}) @@ (r2 :> {external, summary})

=============================================================================
