------------------------------ MODULE EventFeed ------------------------------
(***************************************************************************)
(* What a session promises to the people watching it: one shared, growing  *)
(* list of events, handed to every watcher from its first entry on, one    *)
(* entry at a time, with no entry skipped, repeated or moved.              *)
(*                                                                         *)
(* The list is a Go slice that is read without a lock.  An append makes    *)
(* the slice longer first and writes the new element second, so a reader   *)
(* may be handed an entry that has not been written yet: a Hole.           *)
(***************************************************************************)
EXTENDS Naturals, Sequences

CONSTANTS Readers, Items, Hole

VARIABLES
    feed,   \* the shared list of events
    got     \* got[r]: what reader r has been handed, in order

Init ==
    /\ feed = << >>
    /\ got = [r \in Readers |-> << >>]

\* The list gets one entry longer.
Reserve ==
    /\ feed' = Append(feed, Hole)
    /\ UNCHANGED got

\* The entry that was reserved is written, once.
Fill ==
    /\ \E i \in DOMAIN feed, e \in Items :
          /\ feed[i] = Hole
          /\ feed' = [feed EXCEPT ![i] = e]
    /\ UNCHANGED got

\* A reader is handed the entry after the last one it was handed.
Deliver(r) ==
    /\ Len(got[r]) < Len(feed)
    /\ got' = [got EXCEPT ![r] = Append(@, feed[Len(@) + 1])]
    /\ UNCHANGED feed

Next == Reserve \/ Fill \/ \E r \in Readers : Deliver(r)

Spec == Init /\ [][Next]_<<feed, got>>
=============================================================================
