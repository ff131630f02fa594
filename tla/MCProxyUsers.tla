---------------------------- MODULE MCProxyUsers -----------------------------
(* Instances of ProxyUsers for TLC. *)
EXTENDS ProxyUsers, TLC

\* Hooks and sessions are interchangeable.
Symmetry == Permutations(Hooks) \cup Permutations(Sessions)
=============================================================================
