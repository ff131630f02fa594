------------------------------ MODULE MCSession ------------------------------
(* Instances of Session for TLC. *)
EXTENDS Session, TLC

\* Viewers are interchangeable, and so are detached event goroutines.
Symmetry == Permutations(Viewers) \cup Permutations(Tasks)
=============================================================================
