------------------------------- MODULE MCProxy -------------------------------
(* Instances of Proxy for TLC. *)
EXTENDS Proxy, TLC

\* Client addresses are interchangeable, and so are users.
Symmetry == Permutations(Addrs) \cup Permutations(Users)
=============================================================================
