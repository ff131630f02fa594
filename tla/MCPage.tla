-------------------------------- MODULE MCPage --------------------------------
(* Instances of Page for TLC. *)
EXTENDS Page

CONSTANT a     \* a session

Url(t, k) == [type |-> t, key |-> k]

\* Every form of URL.
AllPlaces == Hashes
=============================================================================
