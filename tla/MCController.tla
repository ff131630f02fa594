----------------------------- MODULE MCController -----------------------------
(* Instances of Controller for TLC. *)
EXTENDS Controller, TLC

\* Proxies are interchangeable, and so are clients.
Symmetry == Permutations(Proxies) \cup Permutations(Clients)
=============================================================================
