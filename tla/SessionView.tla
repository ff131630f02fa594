------------------------------ MODULE SessionView ------------------------------
(***************************************************************************)
(* The player and what feeds it (run_session_from_socket,                  *)
(* get_session_from_socket, close_session_sockets and                      *)
(* replay_session_event_list in lib.js): a web socket over which the       *)
(* server sends a session event by event, each after the acknowledgement   *)
(* of the one before (send_latest_events, module Session), or a recording  *)
(* fetched as a whole.  When the page does which is the subject of module  *)
(* Page; here a session may be selected, and an answer may arrive, at any  *)
(* time.                                                                   *)
(***************************************************************************)
EXTENDS TerminalReader

CONSTANTS
    Sessions,        \* keys of sessions
    Feed,            \* the events of each session
    MaxSelections    \* bound on the selections the user makes

FeedEvents == UNION {{Feed[s][k] : k \in 1..Len(Feed[s])} : s \in Sessions}

\* An id identifies an event, and an event has a type when it arrives.
ASSUME FeedAssumption ==
    /\ Feed \in [Sessions -> Seq(TerminalEvent)]
    /\ \A e, f \in FeedEvents : e.id = f.id => e = f
    /\ \A e \in FeedEvents : e.type # "none"
    /\ MaxSelections \in Nat

VARIABLES
    sockets,     \* session sockets that are not closed (active_session_sockets)
    fetches,     \* recordings that were asked for and have not arrived
    lost,        \* the socket of the session on display broke
    selections   \* number of selections so far

vars == <<reader, sockets, fetches, lost, selections>>

\* "active" is what the list said of the session when it was selected; "got"
\* and "acked" count the messages received and acknowledged.
Socket ==
    [session : Sessions, active : BOOLEAN, state : {"connecting", "open", "unknown"},
     got : Nat, acked : Nat]

\* Every variable holds a value of its type; see TypeOK of the player.
SessionViewTypeOK ==
    /\ TypeOK
    /\ sockets \subseteq Socket
    /\ fetches \subseteq Sessions
    /\ lost \in BOOLEAN
    /\ selections \in 0..MaxSelections

Init ==
    /\ reader = NewReader
    /\ sockets = {}
    /\ fetches = {}
    /\ lost = FALSE
    /\ selections = 0

-----------------------------------------------------------------------------
\* close_session_sockets: a closed socket has no more events.
CloseSessionSockets == {}

NewSocket(s, active) ==
    [session |-> s, active |-> active, state |-> "connecting", got |-> 0, acked |-> 0]

\* get_session_from_socket
SelectSession(s, active) ==
    /\ selections < MaxSelections
    /\ selections' = selections + 1
    /\ sockets' = CloseSessionSockets \cup {NewSocket(s, active)}
    /\ reader' = Reset(reader)
    /\ lost' = FALSE
    /\ UNCHANGED fetches

\* socket.onopen
SocketOpens(k) ==
    /\ k.state = "connecting"
    /\ sockets' = (sockets \ {k}) \cup {[k EXCEPT !.state = "open"]}
    /\ reader' = IF k.active THEN SetSessionModeLive(reader)
                 ELSE Pause(SetSessionModeDisconnected(reader))
    /\ UNCHANGED <<fetches, lost, selections>>

\* socket.onmessage, up to the test for session-stop: the reader, and whether
\* "ack" was sent.
Loaded(k) == LoadEvents(reader, <<Feed[k.session][k.got + 1]>>)

Received(k) ==
    IF k.active
    THEN [reader |-> ProcessNextEvent(Loaded(k)), ack |-> RunsCallback(Loaded(k))]
    ELSE [reader |-> Loaded(k), ack |-> TRUE]

MessageArrives(k) ==
    /\ k.state = "open" /\ k.acked = k.got /\ k.got < Len(Feed[k.session])
    /\ LET r == Received(k)
       IN  IF Feed[k.session][k.got + 1].type = "session-stop"
           THEN /\ sockets' = sockets \ {k}
                /\ reader' = IF k.active THEN SetSessionModeDisconnected(r.reader)
                             ELSE Play(r.reader)
           ELSE /\ sockets' = (sockets \ {k}) \cup
                      {[k EXCEPT !.got = @ + 1, !.acked = IF r.ack THEN @ + 1 ELSE @]}
                /\ reader' = r.reader
    /\ UNCHANGED <<fetches, lost, selections>>

\* The server answers "could not find session", which is not JSON: onmessage
\* returns, and the server waits for another request.
SessionUnknown(k) ==
    /\ k.state = "open" /\ k.got = 0
    /\ sockets' = (sockets \ {k}) \cup {[k EXCEPT !.state = "unknown"]}
    /\ UNCHANGED <<reader, fetches, lost, selections>>

\* The connection breaks.  socket.onclose does nothing.
ConnectionLost(k) ==
    /\ sockets' = sockets \ {k}
    /\ lost' = TRUE
    /\ UNCHANGED <<reader, fetches, selections>>

\* fetch_session_json_and_update_link
FetchRecording(s) ==
    /\ selections < MaxSelections
    /\ selections' = selections + 1
    /\ fetches' = fetches \cup {s}
    /\ UNCHANGED <<reader, sockets, lost>>

\* replay_session_event_list leaves the start event out of the list - and the
\* session sockets as they are.
ReplayList(s) ==
    LET kept == {k \in 1..Len(Feed[s]) : Feed[s][k].type # "session-start"}
        place(k) == Cardinality({j \in kept : j <= k})
    IN  [i \in 1..Cardinality(kept) |-> Feed[s][CHOOSE k \in kept : place(k) = i]]

RecordingArrives(s) ==
    /\ s \in fetches
    /\ fetches' = fetches \ {s}
    /\ reader' = Play(LoadEvents(Reset(reader), ReplayList(s)))
    /\ UNCHANGED <<sockets, lost, selections>>

\* A handler of the player.
Player(A) == A /\ UNCHANGED <<sockets, fetches, lost, selections>>

Next ==
    \/ \E s \in Sessions, a \in BOOLEAN : SelectSession(s, a)
    \/ \E s \in Sessions : FetchRecording(s)
    \/ \E s \in Sessions : RecordingArrives(s)
    \/ \E k \in sockets : \/ SocketOpens(k)
                          \/ MessageArrives(k)
                          \/ SessionUnknown(k)
                          \/ ConnectionLost(k)
    \/ Player(TimerFires)
    \/ Player(UserActs)

Spec == Init /\ [][Next]_vars

\* Timers fire, sockets connect, and the server sends what it has recorded (the
\* liveness of the recording is Session's).  Nothing is assumed of the user or
\* of faults.
FairSpec ==
    /\ Spec
    /\ WF_vars(Player(TimerFires))
    /\ WF_vars(\E k \in sockets : SocketOpens(k))
    /\ WF_vars(\E k \in sockets : MessageArrives(k))

-----------------------------------------------------------------------------
\* The server's goroutine waits for the acknowledgement of every message.  It
\* does not get it only when a recording was opened over a live session and
\* paused: process_next_event then returns without its callback.  As long as the
\* session is displayed as live, no message is left unacknowledged (lib.js:149-156,
\* terminal_reader.js:648-687).
LiveIsAcked ==
    \A k \in sockets : k.acked # k.got => k.active /\ ~Live(reader)

\* action_event deletes the type of a window-resize, so moving back does not
\* restore an earlier size: unless the user dragged it, the terminal has the size
\* of the furthest window-resize that was reached, or its initial size
\* (terminal_reader.js:565-568).
RecordedType(id) == (CHOOSE e \in FeedEvents : e.id = id).type

SizeIsFurthest ==
    LET done == {k \in 1..Len(reader.events) :
                    /\ reader.events[k].type = "none"
                    /\ RecordedType(reader.events[k].id) = "window-resize"}
    IN  reader.size \in
            {Dragged, IF done = {} \/ IgnoreResize THEN InitialSize
                      ELSE reader.events[Max(done)].id}

\* A viewer cannot hold up the session it watches, whatever it does with the
\* player, pausing included: every message is answered until session-stop ends
\* the live display, or another selection, or the loss of the connection
\* (lib.js:137-170).
LiveComesToEnd ==
    Live(reader) ~> (~Live(reader) \/ lost \/ \E k \in sockets : k.state = "unknown")
=============================================================================
