---------------------------- MODULE MCFailoverRoute ----------------------------
(* FailoverRoute on a small instance: four attempts, or three when the retry     *)
(* window of a recipient closes.                                                 *)
EXTENDS FailoverRoute, TLC

MCSymmetry == Permutations(Providers)

MCNext == Next /\ (over' # {} => Len(attempts') < AttemptBound)
MCSpec == Init /\ [][MCNext]_vars
================================================================================
