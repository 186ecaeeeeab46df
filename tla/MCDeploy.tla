------------------------------- MODULE MCDeploy -------------------------------
(* Runs of the workflow for the same commit or for several: one whose      *)
(* message can be quoted, one that holds the generated files already, and  *)
(* one whose message ends the quotes.                                      *)
EXTENDS Deploy, TLC

AnyJob == Permutations(Jobs)
===============================================================================
