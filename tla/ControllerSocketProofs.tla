----------------------- MODULE ControllerSocketProofs -----------------------
(***************************************************************************)
(* Theorems about ControllerSocket: every client is answered once for each *)
(* line it sent, for any number of clients and of lines in flight.         *)
(***************************************************************************)
EXTENDS ControllerSocket, TLAPS

\* The lines of c that the goroutine of c still has to answer.
Owed(c) == lines[c] + IF pc[c] = "handle" THEN 1 ELSE 0

\* A connection begins with nothing sent and ends with nothing owed.
ClosedOK ==
    \A c \in Clients : /\ pc[c] \in {"away", "gone"} => c \notin open
                       /\ c \notin open => lines[c] = 0 /\ asked[c] = 0

\* What a client waits for covers what its goroutine has to answer; a client that
\* waits for every answer waits for one.
OwedOK ==
    \A c \in Clients : /\ c \in open => Owed(c) <= asked[c]
                       /\ c \notin Hasty => asked[c] <= 1

SocketInv == TypeOK /\ ClosedOK /\ OwedOK /\ NoLineLost

\* No connection is open at first.
LEMMA SocketInit == Init => SocketInv
  <1> SUFFICES ASSUME Init PROVE SocketInv
    OBVIOUS
  <1>1. 0 \in 0..MaxLines
    BY SocketAssumption
  <1>2. TypeOK
    BY <1>1 DEF Init, TypeOK
  <1>3. ClosedOK /\ OwedOK /\ NoLineLost
    BY DEF Init, ClosedOK, OwedOK, NoLineLost
  <1> QED BY <1>2, <1>3 DEF SocketInv

\* Closing connections settles what they are owed.
LEMMA ClosingOK ==
    ASSUME SocketInv, NEW S, CloseAll(S), UNCHANGED <<kind, pc>>
    PROVE  /\ open' \subseteq Clients
           /\ lines' \in [Clients -> 0..MaxLines] /\ asked' \in [Clients -> 0..MaxLines]
           /\ ClosedOK' /\ OwedOK' /\ NoLineLost'
  BY SocketAssumption
     DEF SocketInv, TypeOK, ClosedOK, OwedOK, NoLineLost, Owed, CloseAll

\* Every step keeps what is owed to whom.
LEMMA SocketStep == SocketInv /\ [Next]_vars => SocketInv'
  <1> SUFFICES ASSUME SocketInv, [Next]_vars PROVE SocketInv'
    OBVIOUS
  <1>0. TypeOK /\ ClosedOK /\ OwedOK /\ NoLineLost
    BY DEF SocketInv
  <1>1. CASE UNCHANGED vars
    BY <1>0, <1>1 DEF SocketInv, TypeOK, ClosedOK, OwedOK, NoLineLost, Owed, vars, sock, conn
  <1>2. ASSUME Listen \/ AcceptFails \/ Test \/ StopCall, UNCHANGED kind
        PROVE  SocketInv'
    BY <1>0, <1>2 DEF SocketInv, TypeOK, ClosedOK, OwedOK, NoLineLost, Owed, conn,
                      Listen, AcceptFails, Test, StopCall
  <1>3. ASSUME Leave \/ StopClients, UNCHANGED kind PROVE SocketInv'
    <2>1. /\ UNCHANGED pc
          /\ CloseAll(clients) \/ UNCHANGED <<open, lines, asked>>
          /\ loop' \in {loop, "done"} /\ active' \in BOOLEAN /\ clients' \subseteq clients
          /\ stop' \in {stop, "done"}
      BY <1>0, <1>3 DEF Leave, StopClients, TypeOK
    <2>2. ClosedOK' /\ OwedOK' /\ NoLineLost' /\ open' \subseteq Clients
          /\ lines' \in [Clients -> 0..MaxLines] /\ asked' \in [Clients -> 0..MaxLines]
      <3>1. CASE CloseAll(clients)
        BY <1>3, <2>1, <3>1, ClosingOK
      <3>2. CASE UNCHANGED <<open, lines, asked>>
        BY <1>0, <1>3, <2>1, <3>2 DEF TypeOK, ClosedOK, OwedOK, NoLineLost, Owed
      <3> QED BY <2>1, <3>1, <3>2
    <2> QED BY <1>0, <1>3, <2>1, <2>2 DEF SocketInv, TypeOK
  <1>4. ASSUME NEW c \in Clients, Accept(c) \/ AppendClient(c), UNCHANGED kind
        PROVE  SocketInv'
    BY <1>0, <1>4 DEF SocketInv, TypeOK, ClosedOK, OwedOK, NoLineLost, Owed,
                      Accept, AppendClient, Goto
  <1>5. ASSUME NEW c \in Clients, SendLine(c), UNCHANGED kind PROVE SocketInv'
    <2>1. lines[c] + 1 \in 0..MaxLines /\ asked[c] + 1 \in 0..MaxLines
      BY <1>0, <1>5, SocketAssumption DEF SendLine, TypeOK, OwedOK, Owed
    <2> QED BY <1>0, <1>5, <2>1, SocketAssumption
            DEF SocketInv, TypeOK, ClosedOK, OwedOK, NoLineLost, Owed, SendLine, sock
  <1>6. ASSUME NEW c \in Clients, Disconnect(c), UNCHANGED kind PROVE SocketInv'
    BY <1>0, <1>6, ClosingOK DEF SocketInv, TypeOK, Disconnect, sock
  <1>7. ASSUME NEW c \in Clients, ReadLine(c), UNCHANGED kind PROVE SocketInv'
    <2>1. PICK n \in 1..lines[c] : /\ kind = "web" => n = 1
                                   /\ lines' = [lines EXCEPT ![c] = lines[c] - n]
      BY <1>7 DEF ReadLine
    <2>2. c \notin Hasty => n = 1
      BY <1>0, <1>7, <2>1, SocketAssumption DEF ReadLine, TypeOK, OwedOK, Owed
    <2>3. lines[c] - n \in 0..MaxLines
      BY <1>0, <2>1, SocketAssumption DEF TypeOK
    <2> QED BY <1>0, <1>7, <2>1, <2>2, <2>3, SocketAssumption
            DEF SocketInv, TypeOK, ClosedOK, OwedOK, NoLineLost, Owed, ReadLine, Goto, sock
  <1>8. ASSUME NEW c \in Clients, Answer(c), UNCHANGED kind PROVE SocketInv'
    <2>1. asked[c] - 1 \in 0..MaxLines
      BY <1>0, <1>8, SocketAssumption DEF Answer, TypeOK, OwedOK, Owed
    <2> QED BY <1>0, <1>8, <2>1, SocketAssumption
            DEF SocketInv, TypeOK, ClosedOK, OwedOK, NoLineLost, Owed, Answer, Goto, sock
  <1>9. ASSUME NEW c \in Clients, HandlerEnds(c), UNCHANGED kind PROVE SocketInv'
    BY <1>0, <1>9 DEF SocketInv, TypeOK, ClosedOK, OwedOK, NoLineLost, Owed,
                      HandlerEnds, Goto
  <1> QED BY <1>1, <1>2, <1>3, <1>4, <1>5, <1>6, <1>7, <1>8, <1>9
          DEF Next, LoopStep, HandlerStep

\* What a client waits for is what it has in flight, with the line its goroutine
\* handles, from the first line to the last, whatever is closed when.
THEOREM SocketCorrect == Spec => []SocketInv
  BY SocketInit, SocketStep, PTL DEF Spec

\* Every variable of the socket holds a value of its type: in particular no client
\* gets more answers than it sent lines (clientHandler).
THEOREM SocketTypes == Spec => []TypeOK
  <1>1. SocketInv => TypeOK
    BY DEF SocketInv
  <1> QED BY <1>1, SocketCorrect, PTL

\* No line of a web client, nor of a client that waits for every answer, goes
\* unanswered: the buffered reader that is made for each line (readLine) loses only
\* what was sent together with it.
THEOREM LinesKept == Spec => []NoLineLost
  <1>1. SocketInv => NoLineLost
    BY DEF SocketInv
  <1> QED BY <1>1, SocketCorrect, PTL
=============================================================================
