------------------------- MODULE MCFileTransaction -------------------------
(***************************************************************************)
(* Two transaction names over three files.  Contents are 0 (absent) and 1, *)
(* an outside edit writes 9.                                               *)
(***************************************************************************)
EXTENDS FileTransaction, TLC
CONSTANTS a, b, f1, f2, g1

MCTargets == (a :> <<f1, f2>>) @@ (b :> <<g1>>)
\* All the files start absent; a first transaction gives them contents.
MCInit == Init /\ file = [f \in Files |-> 0]
MCSpec == MCInit /\ [][Next]_vars
============================================================================
