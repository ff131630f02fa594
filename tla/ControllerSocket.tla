--------------------------- MODULE ControllerSocket ---------------------------
(***************************************************************************)
(* The socket of the controller (controller_socket.go), plain or TLS       *)
(* ("tcp") or a web socket ("web"), and the loop that serves the lines of  *)
(* a client (clientHandler in controller.go).  Handling a message is one   *)
(* step here; what it does is module Controller's and ProxyUsers's.        *)
(***************************************************************************)
EXTENDS Integers, FiniteSets

CONSTANTS
    Clients,    \* connections that may be made
    Hasty,      \* the clients that send a line before the last was answered
    MaxLines    \* bound on the lines a client has in flight

ASSUME SocketAssumption ==
    /\ Hasty \subseteq Clients /\ IsFiniteSet(Clients)
    /\ MaxLines \in Nat \ {0}

VARIABLES
    kind,     \* controller.SocketType
    loop,     \* where ListenAndServe is
    active,   \* socket.active
    clients,  \* socket.clients
    open,     \* the connections that are open
    pc,       \* where the goroutine of each client is
    lines,    \* the lines of a client that were not read yet
    asked,    \* the lines of a client that were not answered yet
    stop      \* where Stop is: "void" when it found the socket inactive

sock == <<loop, active, clients, stop>>
conn == <<open, pc, lines, asked>>
vars == <<kind, sock, conn>>

Init ==
    /\ kind \in {"tcp", "web"}
    /\ loop = "idle" /\ active = FALSE /\ clients = {} /\ stop = "idle"
    /\ open = {}
    /\ pc = [c \in Clients |-> "away"]
    /\ lines = [c \in Clients |-> 0]
    /\ asked = [c \in Clients |-> 0]

Goto(c, l) == pc' = [pc EXCEPT ![c] = l]

\* Nobody writes to a closed connection, and nobody is told what was lost with it.
CloseAll(S) ==
    /\ open' = open \ S
    /\ lines' = [c \in Clients |-> IF c \in S THEN 0 ELSE lines[c]]
    /\ asked' = [c \in Clients |-> IF c \in S THEN 0 ELSE asked[c]]

-----------------------------------------------------------------------------
(* ListenAndServe *)

\* The goroutine of Controller.Listen has its listener.
Listen ==
    /\ loop = "idle"
    /\ active' = TRUE
    /\ loop' = IF kind = "web" THEN "accept" ELSE "test"
    /\ UNCHANGED <<clients, stop, conn>>

\* A web client has its handler at once; a TCP client is put into the list first.
Accept(c) ==
    /\ loop = "accept" /\ pc[c] = "away"
    /\ open' = open \cup {c}
    /\ Goto(c, IF kind = "web" THEN "read" ELSE "accepted")
    /\ loop' = IF kind = "web" THEN "accept" ELSE "append"
    /\ UNCHANGED <<active, clients, stop, lines, asked>>

\* Under clientMutex; then the goroutine of the client is started.
AppendClient(c) ==
    /\ loop = "append" /\ pc[c] = "accepted"
    /\ clients' = clients \cup {c}
    /\ Goto(c, "read")
    /\ loop' = "test"
    /\ UNCHANGED <<active, stop, open, lines, asked>>

\* Faulty variant: the loop does not look at socket.active again.
TestNothing ==
    /\ loop = "test"
    /\ loop' = "accept"
    /\ UNCHANGED <<active, clients, stop, conn>>

\* for socket.active
Test ==
    /\ loop = "test"
    /\ loop' = IF active THEN "accept" ELSE "leave"
    /\ UNCHANGED <<active, clients, stop, conn>>

\* Accept of the listener fails: the loop is left.
AcceptFails ==
    /\ loop = "accept"
    /\ loop' = "leave"
    /\ UNCHANGED <<active, clients, stop, conn>>

\* The deferred Stop of a TCP socket; a web socket becomes inactive.
Leave ==
    /\ loop = "leave"
    /\ loop' = "done"
    /\ active' = FALSE
    /\ IF active THEN clients' = {} /\ CloseAll(clients)
                 ELSE UNCHANGED <<clients, open, lines, asked>>
    /\ UNCHANGED <<stop, pc>>

-----------------------------------------------------------------------------
(* A client, and clientHandler *)

\* A line is sent, alone or while others are in flight.
SendLine(c) ==
    /\ c \in open /\ asked[c] < MaxLines
    /\ asked[c] = 0 \/ c \in Hasty
    /\ lines' = [lines EXCEPT ![c] = @ + 1]
    /\ asked' = [asked EXCEPT ![c] = @ + 1]
    /\ UNCHANGED <<open, pc, sock>>

\* The client closes its connection.
Disconnect(c) ==
    /\ c \in open
    /\ CloseAll({c})
    /\ UNCHANGED <<pc, sock>>

\* Faulty variant: the web socket reads through a buffered reader as well.
ReadLineBuffered(c) ==
    /\ pc[c] = "read" /\ c \in open /\ lines[c] > 0
    /\ lines' = [lines EXCEPT ![c] = 0]
    /\ Goto(c, "handle")
    /\ UNCHANGED <<open, asked, sock>>

\* ReadLine.  Over TCP a buffered reader is made for every line, and lines it read
\* besides are gone with it; a web socket reads one message.
ReadLine(c) ==
    /\ pc[c] = "read" /\ c \in open /\ lines[c] > 0
    /\ \E n \in 1..lines[c] :
         /\ kind = "web" => n = 1
         /\ lines' = [lines EXCEPT ![c] = @ - n]
    /\ Goto(c, "handle")
    /\ UNCHANGED <<open, asked, sock>>

\* Faulty variant: a message that fails is echoed and answered as well.
AnswerTwice(c) ==
    /\ pc[c] = "handle" /\ c \in open
    /\ asked' = [asked EXCEPT ![c] = @ - 2]
    /\ Goto(c, "read")
    /\ UNCHANGED <<open, lines, sock>>

\* Faulty variant: the handler returns when a message fails, and stays connected.
AnswerLast(c) ==
    /\ pc[c] = "handle" /\ c \in open
    /\ asked' = [asked EXCEPT ![c] = @ - 1]
    /\ Goto(c, "gone")
    /\ UNCHANGED <<open, lines, sock>>

\* Verify and HandleMessage; whatever comes of it is sent back.
Answer(c) ==
    /\ pc[c] = "handle" /\ c \in open
    /\ asked' = [asked EXCEPT ![c] = @ - 1]
    /\ Goto(c, "read")
    /\ UNCHANGED <<open, lines, sock>>

\* The connection is closed: clientClose takes it out of the list.
HandlerEnds(c) ==
    /\ pc[c] \in {"read", "handle"} /\ c \notin open
    /\ clients' = clients \ {c}
    /\ Goto(c, "gone")
    /\ UNCHANGED <<loop, active, stop, open, lines, asked>>

-----------------------------------------------------------------------------
(* Stop *)

\* The listener of a TCP socket stays open; a web server is closed, but not the
\* connections it has handed over.
StopCall ==
    /\ stop = "idle"
    /\ active' = FALSE
    /\ stop' = IF ~active THEN "void" ELSE IF kind = "web" THEN "done" ELSE "clients"
    /\ loop' = IF active /\ kind = "web" /\ loop = "accept" THEN "leave" ELSE loop
    /\ UNCHANGED <<clients, conn>>

StopClients ==
    /\ stop = "clients"
    /\ stop' = "done"
    /\ clients' = {} /\ CloseAll(clients)
    /\ UNCHANGED <<loop, active, pc>>

-----------------------------------------------------------------------------
LoopStep == Test \/ Leave \/ \E c \in Clients : AppendClient(c)

HandlerStep(c) == ReadLine(c) \/ Answer(c) \/ HandlerEnds(c)

Next ==
    /\ \/ Listen \/ AcceptFails \/ LoopStep \/ StopCall \/ StopClients
       \/ \E c \in Clients :
             Accept(c) \/ SendLine(c) \/ Disconnect(c) \/ HandlerStep(c)
    /\ UNCHANGED kind

Spec == Init /\ [][Next]_vars

\* Goroutines run.  Nobody has to connect, to send a line or to call Stop.
FairSpec ==
    /\ Spec
    /\ WF_vars(LoopStep /\ UNCHANGED kind)
    /\ WF_vars(StopClients /\ UNCHANGED kind)
    /\ \A c \in Clients : WF_vars(HandlerStep(c) /\ UNCHANGED kind)

-----------------------------------------------------------------------------
\* Every variable holds a value of its type; no client gets more answers than it
\* sent lines (controller.go:74-99).
TypeOK ==
    /\ kind \in {"tcp", "web"}
    /\ loop \in {"idle", "accept", "append", "test", "leave", "done"}
    /\ active \in BOOLEAN
    /\ clients \subseteq Clients
    /\ open \subseteq Clients
    /\ pc \in [Clients -> {"away", "accepted", "read", "handle", "gone"}]
    /\ lines \in [Clients -> 0..MaxLines]
    /\ asked \in [Clients -> 0..MaxLines]
    /\ stop \in {"idle", "clients", "done", "void"}

\* No answer is missing unless lines were sent together over TCP: what a client
\* still waits for is in flight or being handled (controller_socket.go:64-67).
NoLineLost ==
    \A c \in open : kind = "web" \/ c \notin Hasty =>
        asked[c] = lines[c] + IF pc[c] = "handle" THEN 1 ELSE 0

\* A client that waits for every answer is answered, or its connection is closed
\* (controller.go:74-99).
LinesAnswered ==
    \A c \in Clients \ Hasty :
        asked[c] > 0 ~> asked[c] = 0

Served == {c \in Clients : pc[c] \notin {"away", "gone"}}

\* After a Stop that found a TCP socket active all its clients are gone at last, but
\* for one that connected to the listener, which stays open (controller_socket.go:130-142).
StopDisconnects ==
    kind = "tcp" /\ stop = "done" ~> [](Cardinality(Served) <= 1)
=============================================================================
