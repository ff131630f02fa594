-------------------------------- MODULE Proxy --------------------------------
(***************************************************************************)
(* The listener of a proxy (StartProxy and Stop in proxy.go) and the       *)
(* tables in which it keeps its sessions.                                  *)
(*                                                                         *)
(* StartProxy runs in a goroutine of its own and may be called again after *)
(* Stop, so there may be several accept loops.  Sessions are numbered in   *)
(* the order in which their connections are accepted; what happens inside  *)
(* one is the module Session.                                              *)
(***************************************************************************)
EXTENDS Integers, Sequences, FiniteSets

CONSTANTS
    Addrs,        \* client addresses (host and port); they name the sessions
    Users,        \* user names
    NoUser,       \* the user of a session nobody has logged in to
    Loops,        \* calls of StartProxy
    NoLoop,       \* a nil listener
    Stoppers,     \* calls of Stop
    MaxSessions   \* bound on the number of connections

ASSUME ProxyAssumption ==
    /\ NoUser \notin Users
    /\ NoLoop \notin Loops
    /\ MaxSessions \in Nat

Sessions == 1..MaxSessions
Nil == 0                          \* no session
Current(a) == <<a, "">>           \* sess_key
Old(a) == <<a, "_old">>           \* sess_key + "_old"
Keys == Addrs \X {"", "_old"}

VARIABLES
    pc,            \* where each accept loop is
    sock,          \* the listener it opened: "none", "open" or "closed"
    cur,           \* the session of the connection it is working on
    running,       \* proxy.running
    listener,      \* proxy.listener: the loop that opened it, or NoLoop
    from,          \* the addresses of the connections accepted so far
    up,            \* the connections whose client is still there
    state,         \* of a session: "none", "new" (locked), "active", "ended"
    user,          \* session.user
    serving,       \* its HandleClientConn: "none", "dial", "on" or "over"
    allSessions,   \* [Keys -> session or Nil]
    userSessions,  \* [Users -> [Addrs -> session or Nil]]
    spc,           \* where each call of Stop is
    todo, seen,    \* the keys its range has to reach, and has reached
    due,           \* the active sessions its range found in the table
    crashed        \* a panic has ended the program

loopVars    == <<pc, sock, cur, running, listener>>
clientVars  == <<from, up>>
sessionVars == <<state, user, serving>>
tableVars   == <<allSessions, userSessions>>
stopVars    == <<spc, todo, seen, due>>
vars == <<loopVars, clientVars, sessionVars, tableVars, stopVars, crashed>>

Init ==
    /\ pc = [l \in Loops |-> "off"]
    /\ sock = [l \in Loops |-> "none"]
    /\ cur = [l \in Loops |-> Nil]
    /\ running = FALSE
    /\ listener = NoLoop
    /\ from = << >>
    /\ up = {}
    /\ state = [s \in Sessions |-> "none"]
    /\ user = [s \in Sessions |-> NoUser]
    /\ serving = [s \in Sessions |-> "none"]
    /\ allSessions = [k \in Keys |-> Nil]
    /\ userSessions = [u \in Users |-> [a \in Addrs |-> Nil]]
    /\ spc = [p \in Stoppers |-> "idle"]
    /\ todo = [p \in Stoppers |-> {}]
    /\ seen = [p \in Stoppers |-> {}]
    /\ due = [p \in Stoppers |-> {}]
    /\ crashed = FALSE

Goto(l, x) == pc' = [pc EXCEPT ![l] = x]

\* A panic nobody recovers from.
Panic ==
    /\ crashed' = TRUE
    /\ UNCHANGED <<loopVars, clientVars, sessionVars, tableVars, stopVars>>

-----------------------------------------------------------------------------
(* StartProxy *)

StartProxy(l) ==
    /\ pc[l] = "off"
    /\ Goto(l, "listen")
    /\ UNCHANGED <<sock, cur, running, listener, clientVars, sessionVars, tableVars,
                   stopVars, crashed>>

\* net.Listen fails, and the proxy panics, while the port is in use.
Listen(l) ==
    /\ pc[l] = "listen"
    /\ IF \E m \in Loops : sock[m] = "open" THEN Panic
       ELSE /\ sock' = [sock EXCEPT ![l] = "open"]
            /\ Goto(l, "publish")
            /\ UNCHANGED <<cur, running, listener, clientVars, sessionVars, tableVars,
                           stopVars, crashed>>

Publish(l) ==
    /\ pc[l] = "publish"
    /\ listener' = l
    /\ Goto(l, "flag")
    /\ UNCHANGED <<sock, cur, running, clientVars, sessionVars, tableVars, stopVars,
                   crashed>>

SetRunning(l) ==
    /\ pc[l] = "flag"
    /\ running' = TRUE
    /\ Goto(l, "test")
    /\ UNCHANGED <<sock, cur, listener, clientVars, sessionVars, tableVars, stopVars,
                   crashed>>

Test(l) ==
    /\ pc[l] = "test"
    /\ Goto(l, IF running THEN "accept" ELSE "ended")
    /\ UNCHANGED <<sock, cur, running, listener, clientVars, sessionVars, tableVars,
                   stopVars, crashed>>

\* TCP lets no client have two connections from one port at a time.
Accept(l, a) ==
    /\ pc[l] = "accept"
    /\ sock[l] = "open"
    /\ Len(from) < MaxSessions
    /\ \A s \in up : from[s] # a
    /\ from' = Append(from, a)
    /\ up' = up \cup {Len(from) + 1}
    /\ cur' = [cur EXCEPT ![l] = Len(from) + 1]
    /\ Goto(l, "insert")
    /\ UNCHANGED <<sock, running, listener, sessionVars, tableVars, stopVars, crashed>>

AcceptFails(l) ==
    /\ pc[l] = "accept"
    /\ sock[l] = "closed"
    /\ Goto(l, "test")
    /\ UNCHANGED <<sock, cur, running, listener, clientVars, sessionVars, tableVars,
                   stopVars, crashed>>

\* Faulty variant: the older session is not kept.
InsertOver(l) ==
    /\ pc[l] = "insert"
    /\ allSessions' = [allSessions EXCEPT ![Current(from[cur[l]])] = cur[l]]
    /\ state' = [state EXCEPT ![cur[l]] = "new"]
    /\ Goto(l, "handshake")
    /\ UNCHANGED <<sock, cur, running, listener, clientVars, user, serving,
                   userSessions, stopVars, crashed>>

\* The new session takes its key; a session found there is kept as "_old".  A
\* range of Stop need not reach a key that is deleted and made again under it,
\* and the runtime may notice that the map is written during the range.
Insert(l) ==
    LET a == from[cur[l]]
        prev == allSessions[Current(a)]
    IN  /\ pc[l] = "insert"
        /\ \/ /\ allSessions' = [allSessions EXCEPT
                     ![Current(a)] = cur[l],
                     ![Old(a)] = IF prev = Nil THEN @ ELSE prev]
              /\ state' = [state EXCEPT ![cur[l]] = "new"]
              /\ todo' = [p \in Stoppers |-> todo[p] \ {Current(a)}]
              /\ Goto(l, "handshake")
              /\ UNCHANGED <<sock, cur, running, listener, clientVars, user, serving,
                             userSessions, spc, seen, due, crashed>>
           \/ (\E p \in Stoppers : spc[p] = "range") /\ Panic

\* Faulty variant: the session is not given its user.
PasswordCallbackNoUser(l, u) ==
    /\ pc[l] = "handshake"
    /\ state' = [state EXCEPT ![allSessions[Current(from[cur[l]])]] = "active"]
    /\ \E next \in {"spawn", "test"} : Goto(l, next)
    /\ UNCHANGED <<sock, cur, running, listener, clientVars, user, serving, tableVars,
                   stopVars, crashed>>

\* The callback looks the session up by its key, fills it and unlocks it (twice
\* is a panic).  The handshake may still fail afterwards.
PasswordCallback(l, u) ==
    LET s == allSessions[Current(from[cur[l]])]
    IN  /\ pc[l] = "handshake"
        /\ IF state[s] # "new" THEN Panic
           ELSE /\ state' = [state EXCEPT ![s] = "active"]
                /\ user' = [user EXCEPT ![s] = u]
                /\ \E next \in {"spawn", "test"} : Goto(l, next)
                /\ UNCHANGED <<sock, cur, running, listener, clientVars, serving,
                               tableVars, stopVars, crashed>>

\* Faulty variant: the session is served although the handshake failed.
HandshakeFailsServed(l) ==
    /\ pc[l] = "handshake"
    /\ Goto(l, "spawn")
    /\ UNCHANGED <<sock, cur, running, listener, clientVars, sessionVars, tableVars,
                   stopVars, crashed>>

HandshakeFails(l) ==
    /\ pc[l] = "handshake"
    /\ Goto(l, "test")
    /\ UNCHANGED <<sock, cur, running, listener, clientVars, sessionVars, tableVars,
                   stopVars, crashed>>

\* go proxy.HandleClientConn(..., proxy.allSessions[sess_key])
Spawn(l) ==
    /\ pc[l] = "spawn"
    /\ serving' = [serving EXCEPT ![allSessions[Current(from[cur[l]])]] = "dial"]
    /\ Goto(l, "test")
    /\ UNCHANGED <<sock, cur, running, listener, clientVars, state, user, tableVars,
                   stopVars, crashed>>

-----------------------------------------------------------------------------
(* HandleClientConn, and the clients *)

\* AddSessionToUserList, once the remote server is reached.  The name of the
\* session is its client's address.
AddSessionToUserList(s) ==
    /\ serving[s] = "dial"
    /\ userSessions' = [userSessions EXCEPT ![user[s]][from[s]] = s]
    /\ serving' = [serving EXCEPT ![s] = "on"]
    /\ UNCHANGED <<loopVars, clientVars, state, user, allSessions, stopVars, crashed>>

\* End: only an active session changes.
Ended(s) == IF state[s] = "active" THEN "ended" ELSE state[s]

\* The remote server is not reached, or the last thread has stopped.
SessionOver(s) ==
    /\ serving[s] \in {"dial", "on"}
    /\ serving' = [serving EXCEPT ![s] = "over"]
    /\ state' = [state EXCEPT ![s] = Ended(s)]
    /\ UNCHANGED <<loopVars, clientVars, user, tableVars, stopVars, crashed>>

\* The client is gone and its port may be used again.
ClientLeaves(s) ==
    /\ s \in up
    /\ up' = up \ {s}
    /\ UNCHANGED <<loopVars, from, sessionVars, tableVars, stopVars, crashed>>

-----------------------------------------------------------------------------
(* Stop *)

StopCall(p) ==
    /\ spc[p] = "idle"
    /\ running' = FALSE
    /\ spc' = [spc EXCEPT ![p] = "close"]
    /\ UNCHANGED <<pc, sock, cur, listener, clientVars, sessionVars, tableVars, todo,
                   seen, due, crashed>>

InTable(s) == \E k \in Keys : allSessions[k] = s

\* Faulty variant: leaves the listener open.
StopKeepListening(p) ==
    /\ spc[p] = "close"
    /\ spc' = [spc EXCEPT ![p] = "range"]
    /\ UNCHANGED <<loopVars, clientVars, sessionVars, tableVars, todo, seen, due,
                   crashed>>

\* Without a listener this is a nil dereference.
StopClose(p) ==
    /\ spc[p] = "close"
    /\ IF listener = NoLoop THEN Panic
       ELSE /\ sock' = [sock EXCEPT ![listener] = "closed"]
            /\ spc' = [spc EXCEPT ![p] = "range"]
            /\ todo' = [todo EXCEPT ![p] = {k \in Keys : allSessions[k] # Nil}]
            /\ due' = [due EXCEPT ![p] = {s \in Sessions : state[s] = "active" /\ InTable(s)}]
            /\ UNCHANGED <<pc, cur, running, listener, clientVars, sessionVars,
                           tableVars, seen, crashed>>

\* The range reaches a key, in any order and at most once.
StopEnd(p, k) ==
    /\ spc[p] = "range"
    /\ allSessions[k] # Nil
    /\ k \notin seen[p]
    /\ seen' = [seen EXCEPT ![p] = @ \cup {k}]
    /\ state' = [state EXCEPT ![allSessions[k]] = Ended(allSessions[k])]
    /\ todo' = [todo EXCEPT ![p] = @ \ {k}]
    /\ UNCHANGED <<loopVars, clientVars, user, serving, tableVars, spc, due, crashed>>

\* Faulty variant: leaves after the first session.
StopReturnEarly(p) ==
    /\ spc[p] = "range"
    /\ spc' = [spc EXCEPT ![p] = "done"]
    /\ UNCHANGED <<loopVars, clientVars, sessionVars, tableVars, todo, seen, due,
                   crashed>>

StopReturn(p) ==
    /\ spc[p] = "range"
    /\ todo[p] = {}
    /\ spc' = [spc EXCEPT ![p] = "done"]
    /\ UNCHANGED <<loopVars, clientVars, sessionVars, tableVars, todo, seen, due,
                   crashed>>

-----------------------------------------------------------------------------
(* The specification *)

\* What an accept loop does by itself.
LoopStep(l) ==
    Listen(l) \/ Publish(l) \/ SetRunning(l) \/ Test(l) \/ AcceptFails(l) \/ Insert(l)
    \/ Spawn(l)

StopStep(p) == StopClose(p) \/ (\E k \in todo[p] : StopEnd(p, k)) \/ StopReturn(p)

Next ==
    /\ ~crashed
    /\ \/ \E l \in Loops :
             \/ LoopStep(l) \/ StartProxy(l) \/ HandshakeFails(l)
             \/ \E a \in Addrs : Accept(l, a)
             \/ \E u \in Users : PasswordCallback(l, u)
       \/ \E s \in Sessions :
             AddSessionToUserList(s) \/ SessionOver(s) \/ ClientLeaves(s)
       \/ \E p \in Stoppers :
             StopCall(p) \/ StopStep(p) \/ \E k \in Keys : StopEnd(p, k)

Spec == Init /\ [][Next]_vars

\* Goroutines run.  Nobody has to call StartProxy or Stop, to connect or to log
\* in, and a client may leave its handshake open for ever.
Fairness ==
    /\ \A l \in Loops : WF_vars(~crashed /\ LoopStep(l))
    /\ \A p \in Stoppers : WF_vars(~crashed /\ StopStep(p))

FairSpec == Spec /\ Fairness

-----------------------------------------------------------------------------
(* Safety *)

\* Every variable holds a value of its type, and a session that is active has
\* been given the user that logged in to it (proxy.go:113-128).
TypeOK ==
    /\ pc \in [Loops -> {"off", "listen", "publish", "flag", "test", "accept", "insert",
                         "handshake", "spawn", "ended"}]
    /\ sock \in [Loops -> {"none", "open", "closed"}]
    /\ cur \in [Loops -> Sessions \cup {Nil}]
    /\ running \in BOOLEAN
    /\ listener \in Loops \cup {NoLoop}
    /\ from \in Seq(Addrs) /\ Len(from) <= MaxSessions
    /\ up \subseteq DOMAIN from
    /\ state \in [Sessions -> {"none", "new", "active", "ended"}]
    /\ user \in [Sessions -> Users \cup {NoUser}]
    /\ serving \in [Sessions -> {"none", "dial", "on", "over"}]
    /\ allSessions \in [Keys -> Sessions \cup {Nil}]
    /\ userSessions \in [Users -> [Addrs -> Sessions \cup {Nil}]]
    /\ spc \in [Stoppers -> {"idle", "close", "range", "done"}]
    /\ todo \in [Stoppers -> SUBSET Keys]
    /\ seen \in [Stoppers -> SUBSET Keys]
    /\ due \in [Stoppers -> SUBSET Sessions]
    /\ crashed \in BOOLEAN
    /\ \A s \in Sessions : state[s] \in {"active", "ended"} => user[s] \in Users

\* The sessions of an address, and the newest of some sessions (or Nil).
SessionsOf(a) == {s \in DOMAIN from : from[s] = a /\ state[s] # "none"}
Newest(S) == IF S = {} THEN Nil ELSE CHOOSE s \in S : \A t \in S : t <= s

\* With one accept loop the table has, for every client address, the newest
\* session under the plain key and the one before it under "_old", whatever logins,
\* reuses of the port, ends of sessions and calls of Stop came in between
\* (proxy.go:149-158).
TableKeepsTwo ==
    \A a \in Addrs :
        /\ allSessions[Current(a)] = Newest(SessionsOf(a))
        /\ allSessions[Old(a)] = Newest(SessionsOf(a) \ {Newest(SessionsOf(a))})

\* With one accept loop a goroutine HandleClientConn never works on a session that
\* nobody logged in to: the session it is handed, looked up by key once more, is
\* the one the password callback filled (proxy.go:110-128, 168).
ServesLoggedIn == \A s \in Sessions : serving[s] # "none" => user[s] \in Users

\* When Stop has returned, the sessions that were active in the table when its
\* range began have been ended, unless their client's port was taken again
\* (proxy.go:172-178).
StopEndsSessions ==
    \A p \in Stoppers : spc[p] = "done" =>
        \A s \in due[p] : state[s] = "active" => s # Newest(SessionsOf(from[s]))

-----------------------------------------------------------------------------
(* Liveness *)

\* Once running stays false every accept loop ends, also one that an earlier Stop
\* missed, unless a client keeps its handshake open (proxy.go:143-148, 172-174).
StopEndsLoop ==
    (<>[]~running /\ \A l \in Loops : []<>(pc[l] # "handshake")) =>
        <>[](crashed \/ \A l \in Loops : pc[l] \in {"off", "ended"})
=============================================================================
