---------------------------- MODULE MCSessionView ----------------------------
(* Instances of SessionView for TLC. *)
EXTENDS SessionView

CONSTANTS a, b      \* two sessions

Ev(s, n, t) == [id |-> <<s, n>>, type |-> t]

\* A session whose window is resized twice, and one without a start
\* event (its remote server could not be reached).
MCFeed ==
    [s \in {a, b} |->
        IF s = a THEN <<Ev(a, 1, "session-start"), Ev(a, 2, "window-resize"),
                        Ev(a, 3, "message"), Ev(a, 4, "window-resize"),
                        Ev(a, 5, "session-stop")>>
                 ELSE <<Ev(b, 1, "window-resize"), Ev(b, 2, "session-stop")>>]

MCEventIds == {a, b} \X (1..5)
=============================================================================
