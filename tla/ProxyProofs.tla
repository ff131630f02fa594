----------------------------- MODULE ProxyProofs -----------------------------
(***************************************************************************)
(* Theorems about Proxy.  The types hold for any number of accept loops;   *)
(* what the tables keep holds when there is one, that is, when StartProxy  *)
(* is called once.                                                         *)
(***************************************************************************)
EXTENDS Proxy, TLAPS

\* StartProxy is called once.
OneLoop == \A l, m \in Loops : l = m

\* The session that a loop at work is about.
Working(l) == pc[l] \in {"insert", "handshake", "spawn"}
Found(l) == allSessions[Current(from[cur[l]])]

\* A loop at work has a connection, and from its insertion on its key has a session.
WorkOK ==
    \A l \in Loops : /\ Working(l) => cur[l] \in DOMAIN from
                     /\ pc[l] \in {"handshake", "spawn"} => Found(l) # Nil

ProxyInv == TypeOK /\ WorkOK

-----------------------------------------------------------------------------
(* Types *)

\* The keys of the table.
LEMMA KeyFacts ==
    /\ \A a \in Addrs : Current(a) \in Keys /\ Old(a) \in Keys
    /\ \A a, b \in Addrs : Current(a) # Old(b)
    /\ \A a, b \in Addrs : (Current(a) = Current(b) => a = b) /\ (Old(a) = Old(b) => a = b)
  BY DEF Current, Old, Keys

\* The addresses of the connections.
LEMMA FromFacts ==
    ASSUME TypeOK
    PROVE  /\ Len(from) \in Nat /\ DOMAIN from = 1..Len(from) /\ DOMAIN from \subseteq Sessions
           /\ \A s \in DOMAIN from : from[s] \in Addrs
           /\ Nil \notin Sessions
  BY ProxyAssumption DEF TypeOK, Sessions, Nil

\* No connection has been made at first.
LEMMA ProxyInit == Init => ProxyInv
  <1> SUFFICES ASSUME Init PROVE ProxyInv
    OBVIOUS
  <1>1. from \in Seq(Addrs) /\ Len(from) <= MaxSessions /\ up \subseteq DOMAIN from
    BY ProxyAssumption DEF Init
  <1>2. TypeOK
    BY <1>1 DEF Init, TypeOK
  <1>3. WorkOK
    BY DEF Init, WorkOK, Working
  <1> QED BY <1>2, <1>3 DEF ProxyInv

\* A step of an accept loop by itself.
LEMMA LoopTypes ==
    ASSUME ProxyInv, NEW l \in Loops, LoopStep(l) \/ StartProxy(l) \/ HandshakeFails(l)
    PROVE  ProxyInv'
  <1>0. TypeOK /\ WorkOK
    BY DEF ProxyInv
  <1> USE <1>0, FromFacts, KeyFacts DEF ProxyInv, TypeOK, WorkOK, Working, Found, Goto
  <1>1. CASE Panic
    BY <1>1 DEF Panic, loopVars, clientVars, sessionVars, tableVars, stopVars
  <1>2. CASE ~Panic /\ (Listen(l) \/ Publish(l) \/ SetRunning(l))
    <2> USE <1>2 DEF clientVars, sessionVars, tableVars, stopVars
    <2>1. CASE Listen(l)
      <3>1. /\ pc' = [pc EXCEPT ![l] = "publish"] /\ sock' = [sock EXCEPT ![l] = "open"]
            /\ UNCHANGED <<cur, running, listener, clientVars, sessionVars, tableVars,
                           stopVars, crashed>>
        BY <2>1 DEF Listen
      <3> QED BY <3>1
    <2>2. CASE Publish(l)
      BY <2>2 DEF Publish
    <2>3. CASE SetRunning(l)
      BY <2>3 DEF SetRunning
    <2> QED BY <2>1, <2>2, <2>3
  <1>3. CASE Test(l) \/ AcceptFails(l) \/ StartProxy(l) \/ HandshakeFails(l)
    <2> USE DEF clientVars, sessionVars, tableVars, stopVars
    <2>1. CASE Test(l)
      BY <2>1 DEF Test
    <2>2. CASE AcceptFails(l)
      BY <2>2 DEF AcceptFails
    <2>3. CASE StartProxy(l)
      BY <2>3 DEF StartProxy
    <2>4. CASE HandshakeFails(l)
      BY <2>4 DEF HandshakeFails
    <2> QED BY <1>3, <2>1, <2>2, <2>3, <2>4
  <1>4. CASE ~Panic /\ Insert(l)
    <2> DEFINE a == from[cur[l]]
    <2>1. cur[l] \in Sessions /\ cur[l] \in DOMAIN from /\ a \in Addrs /\ cur[l] # Nil
      BY <1>4 DEF Insert
    <2>2. /\ allSessions' = [allSessions EXCEPT
                ![Current(a)] = cur[l],
                ![Old(a)] = IF allSessions[Current(a)] = Nil THEN @ ELSE allSessions[Current(a)]]
          /\ state' = [state EXCEPT ![cur[l]] = "new"]
          /\ todo' = [p \in Stoppers |-> todo[p] \ {Current(a)}]
          /\ pc' = [pc EXCEPT ![l] = "handshake"]
          /\ UNCHANGED <<sock, cur, running, listener, from, up, user, serving,
                         userSessions, spc, seen, due, crashed>>
      BY <1>4 DEF Insert, clientVars
    <2>3. TypeOK'
      BY <2>1, <2>2
    <2>4. \A k \in Keys : allSessions[k] # Nil => allSessions'[k] # Nil
      BY <2>1, <2>2
    <2>5. Current(a) \in Keys /\ allSessions'[Current(a)] # Nil
      BY <2>1, <2>2
    <2>6. WorkOK'
      BY <2>1, <2>2, <2>4, <2>5
    <2> QED BY <2>3, <2>6
  <1>5. CASE Spawn(l)
    BY <1>5 DEF Spawn, clientVars, tableVars, stopVars
  <1> QED BY <1>1, <1>2, <1>3, <1>4, <1>5 DEF LoopStep

\* A connection and a login.
LEMMA ClientTypes ==
    ASSUME ProxyInv, NEW l \in Loops,
           (\E a \in Addrs : Accept(l, a)) \/ (\E u \in Users : PasswordCallback(l, u))
    PROVE  ProxyInv'
  <1>0. TypeOK /\ WorkOK
    BY DEF ProxyInv
  <1> USE <1>0, FromFacts, KeyFacts
  <1>1. ASSUME NEW a \in Addrs, Accept(l, a) PROVE ProxyInv'
    <2>1. /\ from' = Append(from, a) /\ Len(from') = Len(from) + 1
          /\ Len(from) + 1 \in Sessions
          /\ \A s \in DOMAIN from : s \in DOMAIN from' /\ from'[s] = from[s]
          /\ Len(from) + 1 \in DOMAIN from'
      <3>1. from \in Seq(Addrs) /\ Len(from) < MaxSessions /\ from' = Append(from, a)
        BY <1>1 DEF Accept, TypeOK
      <3>2. Len(from') = Len(from) + 1 /\ \A s \in 1..Len(from) : from'[s] = from[s]
        BY <3>1
      <3> QED BY <3>1, <3>2, ProxyAssumption DEF Sessions
    <2>2. TypeOK'
      BY <1>1, <2>1, ProxyAssumption
         DEF Accept, TypeOK, Goto, Sessions, sessionVars, tableVars, stopVars
    <2>3. WorkOK'
      BY <1>1, <2>1 DEF Accept, TypeOK, Goto, WorkOK, Working, Found, tableVars
    <2> QED BY <2>2, <2>3 DEF ProxyInv
  <1>2. ASSUME NEW u \in Users, PasswordCallback(l, u) PROVE ProxyInv'
    <2> USE DEF ProxyInv, TypeOK, WorkOK, Working, Found, Goto
    <2>1. CASE Panic
      BY <2>1 DEF Panic, loopVars, clientVars, sessionVars, tableVars, stopVars
    <2>2. CASE ~Panic
      <3> DEFINE s == Found(l)
      <3>1. s \in Sessions
        BY <1>2 DEF PasswordCallback
      <3>2. PICK next \in {"spawn", "test"} : pc' = [pc EXCEPT ![l] = next]
        BY <1>2, <2>2 DEF PasswordCallback
      <3>3. /\ pc[l] = "handshake"
            /\ state' = [state EXCEPT ![s] = "active"] /\ user' = [user EXCEPT ![s] = u]
            /\ UNCHANGED <<sock, cur, running, listener, from, up, serving, allSessions,
                           userSessions, spc, todo, seen, due, crashed>>
        BY <1>2, <2>2 DEF PasswordCallback, clientVars, tableVars, stopVars
      <3>4. /\ state' \in [Sessions -> {"none", "new", "active", "ended"}]
            /\ user' \in [Sessions -> Users \cup {NoUser}]
            /\ \A t \in Sessions : state'[t] \in {"active", "ended"} => user'[t] \in Users
        BY <3>1, <3>3
      <3>5. pc' \in [Loops -> {"off", "listen", "publish", "flag", "test", "accept", "insert",
                         "handshake", "spawn", "ended"}]
        BY <3>2
      <3>6. WorkOK'
        BY <3>2, <3>3
      <3> QED BY <3>3, <3>4, <3>5, <3>6
    <2> QED BY <2>1, <2>2
  <1> QED BY <1>1, <1>2

\* The sessions and the calls of Stop.
LEMMA OtherTypes ==
    ASSUME ProxyInv,
           \/ \E s \in Sessions : AddSessionToUserList(s) \/ SessionOver(s) \/ ClientLeaves(s)
           \/ \E p \in Stoppers : StopCall(p) \/ StopClose(p) \/ StopReturn(p)
                                  \/ \E k \in Keys : StopEnd(p, k)
    PROVE  ProxyInv'
  <1>0. TypeOK /\ WorkOK
    BY DEF ProxyInv
  <1> USE <1>0, FromFacts, KeyFacts
          DEF ProxyInv, TypeOK, WorkOK, Working, Found, Ended,
              loopVars, clientVars, sessionVars, tableVars, stopVars
  <1>1. ASSUME NEW s \in Sessions, AddSessionToUserList(s) PROVE ProxyInv'
    BY <1>1 DEF AddSessionToUserList
  <1>2. ASSUME NEW s \in Sessions, SessionOver(s) PROVE ProxyInv'
    <2>1. \A t \in Sessions : state'[t] \in {state[t], "ended"} /\ (state'[t] = "ended" => state[t] \in {"active", "ended"})
      BY <1>2 DEF SessionOver
    <2>2. state' \in [Sessions -> {"none", "new", "active", "ended"}]
      BY <1>2 DEF SessionOver
    <2> QED BY <1>2, <2>1, <2>2 DEF SessionOver
  <1>6. ASSUME NEW s \in Sessions, ClientLeaves(s) PROVE ProxyInv'
    BY <1>6 DEF ClientLeaves
  <1>3. ASSUME NEW p \in Stoppers, StopCall(p) \/ StopReturn(p) PROVE ProxyInv'
    <2>1. CASE StopCall(p)
      BY <2>1 DEF StopCall
    <2>2. CASE StopReturn(p)
      BY <2>2 DEF StopReturn
    <2> QED BY <1>3, <2>1, <2>2
  <1>4. ASSUME NEW p \in Stoppers, StopClose(p) PROVE ProxyInv'
    <2>1. CASE Panic
      BY <2>1 DEF Panic
    <2>2. CASE ~Panic
      <3>1. /\ sock' = [sock EXCEPT ![listener] = "closed"]
            /\ spc' = [spc EXCEPT ![p] = "range"]
            /\ todo' = [todo EXCEPT ![p] = {k \in Keys : allSessions[k] # Nil}]
            /\ due' = [due EXCEPT ![p] = {s \in Sessions : state[s] = "active" /\ InTable(s)}]
            /\ UNCHANGED <<pc, cur, running, listener, clientVars, sessionVars, tableVars,
                           seen, crashed>>
        BY <1>4, <2>2 DEF StopClose
      <3>2. todo' \in [Stoppers -> SUBSET Keys] /\ due' \in [Stoppers -> SUBSET Sessions]
        <4> DEFINE T == {k \in Keys : allSessions[k] # Nil}
                   D == {s \in Sessions : state[s] = "active" /\ InTable(s)}
        <4>1. T \in SUBSET Keys /\ D \in SUBSET Sessions
          OBVIOUS
        <4> HIDE DEF T, D
        <4>2. todo' = [todo EXCEPT ![p] = T] /\ due' = [due EXCEPT ![p] = D]
          BY <3>1 DEF T, D
        <4> QED BY <4>1, <4>2
      <3>3. sock' \in [Loops -> {"none", "open", "closed"}] /\ spc' \in [Stoppers -> {"idle", "close", "range", "done"}]
        BY <3>1
      <3> QED BY <3>1, <3>2, <3>3
    <2> QED BY <2>1, <2>2
  <1>5. ASSUME NEW p \in Stoppers, NEW k \in Keys, StopEnd(p, k) PROVE ProxyInv'
    BY <1>5 DEF StopEnd
  <1> QED BY <1>1, <1>2, <1>3, <1>4, <1>5, <1>6

\* Every step keeps the types.
LEMMA ProxyStep == ProxyInv /\ [Next]_vars => ProxyInv'
  <1> SUFFICES ASSUME ProxyInv, [Next]_vars PROVE ProxyInv'
    OBVIOUS
  <1>1. CASE UNCHANGED vars
    BY <1>1 DEF ProxyInv, TypeOK, WorkOK, Working, Found, vars,
                loopVars, clientVars, sessionVars, tableVars, stopVars
  <1>2. ASSUME NEW p \in Stoppers, StopStep(p), ~StopClose(p), ~StopReturn(p)
        PROVE  \E k \in Keys : StopEnd(p, k)
    BY <1>2 DEF StopStep, ProxyInv, TypeOK
  <1> QED BY <1>1, <1>2, LoopTypes, ClientTypes, OtherTypes DEF Next, StopStep

\* For any number of accept loops.
THEOREM ProxyCorrect == Spec => []ProxyInv
  BY ProxyInit, ProxyStep, PTL DEF Spec

\* Every variable of the proxy holds a value of its type, and a session is active only
\* with the user that logged in to it (PasswordCallback), however many loops accept.
THEOREM ProxyTypes == Spec => []TypeOK
  <1>1. ProxyInv => TypeOK
    BY DEF ProxyInv
  <1> QED BY <1>1, ProxyCorrect, PTL

-----------------------------------------------------------------------------
(* The tables, with one accept loop *)

\* The largest of S, or Nil when S is empty.
Tops(s, S) == IF S = {} THEN s = Nil ELSE s \in S /\ \A t \in S : t <= s

\* A session exists from its insertion on, a loop at work is about the last
\* connection, and every address has its two newest sessions in the table.
TableOK ==
    /\ \A s \in Sessions : state[s] # "none" <=>
         s \in DOMAIN from /\ ~\E l \in Loops : pc[l] = "insert" /\ cur[l] = s
    /\ \A l \in Loops : Working(l) => cur[l] = Len(from)
    /\ \A a \in Addrs : /\ Tops(allSessions[Current(a)], SessionsOf(a))
                        /\ Tops(allSessions[Old(a)], SessionsOf(a) \ {allSessions[Current(a)]})

\* Who has been served, or is about to be, is logged in.
ServedOK ==
    /\ ServesLoggedIn
    /\ \A l \in Loops : pc[l] = "spawn" => user[Found(l)] \in Users

\* A range of Stop has an active session under a plain key still before it.
RangeOK ==
    \A p \in Stoppers :
        /\ spc[p] = "done" => todo[p] = {}
        /\ spc[p] \in {"range", "done"} => \A s \in due[p] :
             state[s] = "active" /\ s \in DOMAIN from /\ allSessions[Current(from[s])] = s =>
                Current(from[s]) \in todo[p]
        /\ spc[p] \in {"range", "done"} => \A s \in due[p] : state[s] \in {"active", "ended"}

TablesInv == TableOK /\ ServedOK /\ RangeOK

\* Sessions are numbered.
LEMMA SessionNumbers == ASSUME TypeOK, NEW a \in Addrs PROVE SessionsOf(a) \in SUBSET Nat
  BY FromFacts DEF SessionsOf

\* The newest session is the one that tops the others.
LEMMA NewestTops ==
    ASSUME NEW S \in SUBSET Nat, NEW s, Tops(s, S)
    PROVE  s = Newest(S)
  <1>1. CASE S = {}
    BY <1>1 DEF Tops, Newest
  <1>2. CASE S # {}
    <2>1. \A r \in S : (\A t \in S : t <= r) => r = s
      <3>1. s \in S /\ s \in Nat /\ \A t \in S : t <= s
        BY <1>2 DEF Tops
      <3>2. ASSUME NEW r \in S, s <= r, r <= s PROVE r = s
        BY <3>1, <3>2
      <3> QED BY <3>1, <3>2
    <2> QED BY <1>2, <2>1 DEF Tops, Newest
  <1> QED BY <1>1, <1>2

\* Connections and sessions that nobody touches: the tables stay.
LEMMA TableFrame ==
    ASSUME ProxyInv, TableOK, UNCHANGED <<from, allSessions>>,
           \A s \in Sessions : state'[s] = "none" <=> state[s] = "none",
           \A l \in Loops : /\ Working(l)' => Working(l) /\ cur'[l] = cur[l]
                            /\ pc'[l] = "insert" <=> pc[l] = "insert"
    PROVE  TableOK'
  <1>1. \A a \in Addrs : SessionsOf(a)' = SessionsOf(a)
    BY FromFacts DEF ProxyInv, SessionsOf
  <1> QED BY <1>1 DEF TableOK, Working

\* A loop that inserts has a connection without a session.
LEMMA InsertFacts ==
    ASSUME ProxyInv, TableOK, NEW l \in Loops, pc[l] = "insert"
    PROVE  /\ cur[l] = Len(from) /\ cur[l] \in DOMAIN from /\ cur[l] \in Sessions
           /\ from[cur[l]] \in Addrs
           /\ state[cur[l]] = "none" /\ cur[l] # Nil
           /\ \A a \in Addrs : SessionsOf(a) \subseteq Nat /\ \A s \in SessionsOf(a) : s < cur[l]
  <1>1. /\ cur[l] = Len(from) /\ cur[l] \in DOMAIN from /\ cur[l] \in Sessions
        /\ from[cur[l]] \in Addrs /\ state[cur[l]] = "none" /\ cur[l] # Nil
    BY FromFacts DEF ProxyInv, WorkOK, Working, TableOK
  <1>2. ASSUME NEW a \in Addrs, NEW s \in SessionsOf(a) PROVE s \in Nat /\ s < cur[l]
    <2>1. s \in DOMAIN from /\ s # cur[l]
      BY <1>1 DEF SessionsOf
    <2> QED BY <1>1, <2>1, FromFacts DEF ProxyInv
  <1> QED BY <1>1, <1>2

\* An insertion moves the newest session of the address to "_old".
LEMMA InsertTables ==
    ASSUME OneLoop, ProxyInv, TablesInv, NEW l \in Loops, Insert(l), ~Panic
    PROVE  TablesInv'
  <1> DEFINE a == from[cur[l]]
             n == cur[l]
             prev == allSessions[Current(a)]
  <1>0. TypeOK /\ TableOK /\ ServedOK /\ RangeOK /\ \A m \in Loops : m = l
    BY DEF ProxyInv, TablesInv, OneLoop
  <1>1. /\ n = Len(from) /\ n \in DOMAIN from /\ n \in Sessions /\ a \in Addrs
        /\ state[n] = "none" /\ n # Nil
        /\ \A b \in Addrs : SessionsOf(b) \subseteq Nat /\ \A s \in SessionsOf(b) : s < n
    BY <1>0, InsertFacts DEF Insert
  <1>2. /\ allSessions' = [allSessions EXCEPT ![Current(a)] = n,
                                              ![Old(a)] = IF prev = Nil THEN @ ELSE prev]
        /\ state' = [state EXCEPT ![n] = "new"]
        /\ todo' = [p \in Stoppers |-> todo[p] \ {Current(a)}]
        /\ pc' = [pc EXCEPT ![l] = "handshake"]
        /\ UNCHANGED <<cur, from, user, serving, spc, due>>
    BY DEF Insert, clientVars, Goto
  <1>3. /\ allSessions'[Current(a)] = n
        /\ allSessions'[Old(a)] = IF prev = Nil THEN allSessions[Old(a)] ELSE prev
        /\ \A b \in Addrs : b # a => /\ allSessions'[Current(b)] = allSessions[Current(b)]
                                     /\ allSessions'[Old(b)] = allSessions[Old(b)]
    <2>1. allSessions \in [Keys -> Sessions \cup {Nil}]
      BY <1>0 DEF TypeOK
    <2> QED BY <1>1, <1>2, <2>1, KeyFacts
  <1>4. /\ \A b \in Addrs : SessionsOf(b)' = IF b = a THEN SessionsOf(b) \cup {n} ELSE SessionsOf(b)
        /\ n \notin SessionsOf(a)
    BY <1>0, <1>1, <1>2, FromFacts DEF SessionsOf, TypeOK
  <1>5. TableOK'
    <2>1. \A s \in Sessions : state'[s] # "none" <=>
            s \in DOMAIN from' /\ ~\E m \in Loops : pc'[m] = "insert" /\ cur'[m] = s
      BY <1>0, <1>1, <1>2 DEF TableOK, TypeOK, Insert
    <2>2. \A m \in Loops : Working(m)' => cur'[m] = Len(from')
      BY <1>0, <1>1, <1>2
    <2>3. ASSUME NEW b \in Addrs
          PROVE  /\ Tops(allSessions'[Current(b)], SessionsOf(b)')
                 /\ Tops(allSessions'[Old(b)], SessionsOf(b)' \ {allSessions'[Current(b)]})
      <3>1. CASE b # a
        BY <1>0, <1>3, <1>4, <3>1 DEF TableOK
      <3>2. CASE b = a
        <4>1. Tops(n, SessionsOf(a) \cup {n})
          BY <1>1 DEF Tops
        <4>2. (SessionsOf(a) \cup {n}) \ {n} = SessionsOf(a)
          BY <1>4
        <4>3. CASE prev = Nil
          <5>1. SessionsOf(a) = {}
            BY <1>0, <1>1, <4>3, FromFacts DEF TableOK, Tops, SessionsOf
          <5>2. allSessions[Old(a)] = Nil
            BY <1>0, <1>1, <5>1 DEF TableOK, Tops
          <5>3. Tops(Nil, SessionsOf(a))
            BY <5>1 DEF Tops
          <5>4. allSessions'[Old(b)] = Nil /\ allSessions'[Current(b)] = n /\ SessionsOf(b)' = SessionsOf(a) \cup {n}
            BY <1>3, <1>4, <3>2, <4>3, <5>2
          <5> QED BY <4>1, <4>2, <5>3, <5>4
        <4>4. CASE prev # Nil
          <5>1. Tops(prev, SessionsOf(a))
            BY <1>0, <1>1 DEF TableOK
          <5>2. allSessions'[Old(b)] = prev /\ allSessions'[Current(b)] = n /\ SessionsOf(b)' = SessionsOf(a) \cup {n}
            BY <1>3, <1>4, <3>2, <4>4
          <5> QED BY <4>1, <4>2, <5>1, <5>2
        <4> QED BY <4>3, <4>4
      <3> QED BY <3>1, <3>2
    <2> QED BY <2>1, <2>2, <2>3 DEF TableOK
  <1>6. ServedOK'
    BY <1>0, <1>2 DEF ServedOK, ServesLoggedIn, TypeOK
  <1>7. RangeOK'
    <2>1. ASSUME NEW p \in Stoppers, spc[p] \in {"range", "done"}, NEW s \in due[p]
          PROVE  /\ s \in Sessions /\ state'[s] \in {"active", "ended"}
                 /\ state'[s] = "active" /\ s \in DOMAIN from /\ allSessions'[Current(from[s])] = s =>
                      Current(from[s]) \in todo[p] \ {Current(a)}
      <3>1. s \in Sessions /\ state[s] \in {"active", "ended"} /\ s # n /\ state'[s] = state[s]
        BY <1>0, <1>1, <1>2, <2>1 DEF RangeOK, TypeOK
      <3>2. ASSUME state[s] = "active", s \in DOMAIN from, allSessions'[Current(from[s])] = s
            PROVE  Current(from[s]) \in todo[p] \ {Current(a)}
        <4>1. from[s] \in Addrs /\ from[s] # a
          BY <1>0, <1>3, <3>1, <3>2, FromFacts
        <4>2. allSessions[Current(from[s])] = s /\ Current(from[s]) # Current(a)
          BY <1>1, <1>3, <3>2, <4>1, KeyFacts
        <4> QED BY <1>0, <2>1, <3>2, <4>2 DEF RangeOK
      <3> QED BY <3>1, <3>2
    <2>2. \A p \in Stoppers : todo'[p] = todo[p] \ {Current(a)}
      BY <1>2
    <2>3. \A p \in Stoppers : spc[p] = "done" => todo'[p] = {}
      BY <1>0, <2>2 DEF RangeOK
    <2> QED BY <1>2, <2>1, <2>2, <2>3 DEF RangeOK
  <1> QED BY <1>5, <1>6, <1>7 DEF TablesInv

\* A connection has no session yet.
LEMMA AcceptTables ==
    ASSUME OneLoop, ProxyInv, TablesInv, NEW l \in Loops, NEW a \in Addrs, Accept(l, a)
    PROVE  TablesInv'
  <1>0. TypeOK /\ TableOK /\ ServedOK /\ RangeOK /\ \A m \in Loops : m = l
    BY DEF ProxyInv, TablesInv, OneLoop
  <1> DEFINE n == Len(from) + 1
  <1>1. /\ from' = Append(from, a) /\ n \in Sessions
        /\ DOMAIN from' = DOMAIN from \cup {n} /\ n \notin DOMAIN from /\ Len(from') = n
        /\ \A s \in DOMAIN from : from'[s] = from[s]
    <2>1. from \in Seq(Addrs) /\ Len(from) < MaxSessions /\ from' = Append(from, a)
      BY <1>0 DEF Accept, TypeOK
    <2>2. Len(from') = n /\ \A s \in 1..Len(from) : from'[s] = from[s]
      BY <2>1
    <2> QED BY <2>1, <2>2, ProxyAssumption DEF Sessions
  <1>2. /\ cur' = [cur EXCEPT ![l] = n] /\ pc' = [pc EXCEPT ![l] = "insert"] /\ pc[l] = "accept"
        /\ UNCHANGED <<state, user, serving, allSessions, spc, todo, due>>
    BY DEF Accept, Goto, sessionVars, tableVars, stopVars
  <1>3. state[n] = "none"
    BY <1>0, <1>1 DEF TableOK
  <1>4. \A b \in Addrs : SessionsOf(b)' = SessionsOf(b)
    BY <1>1, <1>2, <1>3 DEF SessionsOf
  <1>5. TableOK'
    <2>1. \A s \in Sessions : state'[s] # "none" <=>
            s \in DOMAIN from' /\ ~\E m \in Loops : pc'[m] = "insert" /\ cur'[m] = s
      <3>1. pc'[l] = "insert" /\ cur'[l] = n
        BY <1>0, <1>2 DEF TypeOK
      <3>2. \A s \in Sessions : (\E m \in Loops : pc'[m] = "insert" /\ cur'[m] = s) <=> s = n
        BY <1>0, <3>1
      <3>3. \A s \in Sessions : state[s] # "none" <=> s \in DOMAIN from
        BY <1>0, <1>2 DEF TableOK
      <3> QED BY <1>1, <1>2, <1>3, <3>2, <3>3
    <2>2. \A m \in Loops : Working(m)' => cur'[m] = Len(from')
      BY <1>0, <1>1, <1>2 DEF TypeOK
    <2>3. \A b \in Addrs : /\ Tops(allSessions'[Current(b)], SessionsOf(b)')
                           /\ Tops(allSessions'[Old(b)], SessionsOf(b)' \ {allSessions'[Current(b)]})
      BY <1>0, <1>2, <1>4 DEF TableOK
    <2> QED BY <2>1, <2>2, <2>3 DEF TableOK
  <1>6. ServedOK'
    BY <1>0, <1>2 DEF ServedOK, ServesLoggedIn, TypeOK
  <1>7. RangeOK'
    BY <1>0, <1>1, <1>2, <1>3 DEF RangeOK, TypeOK
  <1> QED BY <1>5, <1>6, <1>7 DEF TablesInv

\* A login is for the session under the plain key.
LEMMA LoginTables ==
    ASSUME OneLoop, ProxyInv, TablesInv, NEW l \in Loops, NEW u \in Users,
           PasswordCallback(l, u), ~Panic
    PROVE  TablesInv'
  <1> DEFINE s == Found(l)
  <1>0. TypeOK /\ WorkOK /\ TableOK /\ ServedOK /\ RangeOK /\ \A m \in Loops : m = l
    BY DEF ProxyInv, TablesInv, OneLoop
  <1>1. PICK next \in {"spawn", "test"} : pc' = [pc EXCEPT ![l] = next]
    BY DEF PasswordCallback, Goto
  <1>2. /\ pc[l] = "handshake" /\ state[s] = "new"
        /\ state' = [state EXCEPT ![s] = "active"] /\ user' = [user EXCEPT ![s] = u]
        /\ UNCHANGED <<cur, from, serving, allSessions, spc, todo, due>>
    BY DEF PasswordCallback, Found, clientVars, tableVars, stopVars
  <1>3. s \in Sessions
    BY <1>0, <1>2, KeyFacts, FromFacts DEF TypeOK, WorkOK, Working, Found
  <1>4. TableOK'
    <2>1. \A t \in Sessions : state'[t] = "none" <=> state[t] = "none"
      BY <1>0, <1>2, <1>3 DEF TypeOK
    <2>2. \A m \in Loops : /\ Working(m)' => Working(m) /\ cur'[m] = cur[m]
                           /\ pc'[m] = "insert" <=> pc[m] = "insert"
      BY <1>0, <1>1, <1>2 DEF Working, TypeOK
    <2> QED BY <1>0, <1>2, <2>1, <2>2, TableFrame
  <1>5. ServedOK'
    <2>1. \A t \in Sessions : user'[t] \in {user[t], u}
      BY <1>0, <1>2, <1>3 DEF TypeOK
    <2>2. user'[s] = u /\ Found(l)' = s
      BY <1>0, <1>2, <1>3 DEF TypeOK, Found
    <2> QED BY <1>0, <1>2, <2>1, <2>2 DEF ServedOK, ServesLoggedIn
  <1>6. RangeOK'
    BY <1>0, <1>2, <1>3 DEF RangeOK, TypeOK
  <1> QED BY <1>4, <1>5, <1>6 DEF TablesInv

\* The goroutine that serves the session is started for one that is logged in.
LEMMA SpawnTables ==
    ASSUME OneLoop, ProxyInv, TablesInv, NEW l \in Loops, Spawn(l)
    PROVE  TablesInv'
  <1>0. TypeOK /\ WorkOK /\ TableOK /\ ServedOK /\ RangeOK /\ \A m \in Loops : m = l
    BY DEF ProxyInv, TablesInv, OneLoop
  <1>1. /\ pc[l] = "spawn" /\ pc' = [pc EXCEPT ![l] = "test"]
        /\ serving' = [serving EXCEPT ![Found(l)] = "dial"]
        /\ UNCHANGED <<cur, from, state, user, allSessions, spc, todo, due>>
    BY DEF Spawn, Found, Goto, clientVars, tableVars, stopVars
  <1>2. TableOK'
    BY <1>0, <1>1, TableFrame DEF Working, TypeOK
  <1>3. ServedOK'
    BY <1>0, <1>1 DEF ServedOK, ServesLoggedIn, TypeOK
  <1>4. RangeOK'
    BY <1>0, <1>1 DEF RangeOK
  <1> QED BY <1>2, <1>3, <1>4 DEF TablesInv

\* The other steps of a loop leave the sessions and the tables alone.
LEMMA LoopTables ==
    ASSUME OneLoop, ProxyInv, TablesInv, NEW l \in Loops,
           \/ Panic \/ Listen(l) \/ Publish(l) \/ SetRunning(l) \/ Test(l) \/ AcceptFails(l)
           \/ StartProxy(l) \/ HandshakeFails(l)
    PROVE  TablesInv'
  <1>0. TypeOK /\ TableOK /\ ServedOK /\ RangeOK
    BY DEF ProxyInv, TablesInv
  <1>1. /\ UNCHANGED <<cur, from, state, user, serving, allSessions, spc, todo, due>>
        /\ \A m \in Loops : pc'[m] = pc[m] \/ (pc[m] # "insert" /\ pc'[m] \notin {"insert", "handshake", "spawn"})
    BY <1>0 DEF TypeOK, Panic, Listen, Publish, SetRunning, Test, AcceptFails, StartProxy,
                HandshakeFails, Goto, loopVars, clientVars, sessionVars, tableVars, stopVars
  <1>2. TableOK'
    BY <1>0, <1>1, TableFrame DEF Working
  <1>3. ServedOK'
    BY <1>0, <1>1 DEF ServedOK, ServesLoggedIn, Found
  <1>4. RangeOK'
    BY <1>0, <1>1 DEF RangeOK
  <1> QED BY <1>2, <1>3, <1>4 DEF TablesInv

\* What ends a session only makes an active one inactive.
LEMMA SessionTables ==
    ASSUME OneLoop, ProxyInv, TablesInv, NEW s \in Sessions,
           AddSessionToUserList(s) \/ SessionOver(s) \/ ClientLeaves(s)
    PROVE  TablesInv'
  <1>0. TypeOK /\ TableOK /\ ServedOK /\ RangeOK
    BY DEF ProxyInv, TablesInv
  <1>1. /\ UNCHANGED <<pc, cur, from, user, allSessions, spc, todo, due>>
        /\ \A t \in Sessions : state'[t] = state[t] \/ (state[t] = "active" /\ state'[t] = "ended")
        /\ \A t \in Sessions : serving'[t] # "none" => serving[t] # "none"
    BY <1>0 DEF TypeOK, AddSessionToUserList, SessionOver, ClientLeaves, Ended,
                loopVars, clientVars, sessionVars, tableVars, stopVars
  <1>2. TableOK'
    <2>1. \A t \in Sessions : state'[t] = "none" <=> state[t] = "none"
      BY <1>1
    <2> QED BY <1>0, <1>1, <2>1, TableFrame DEF Working
  <1>3. ServedOK'
    BY <1>0, <1>1 DEF ServedOK, ServesLoggedIn, Found
  <1>4. RangeOK'
    BY <1>0, <1>1 DEF RangeOK, TypeOK
  <1> QED BY <1>2, <1>3, <1>4 DEF TablesInv

\* A range ends what it reaches and leaves the rest in its way.
LEMMA StopTables ==
    ASSUME OneLoop, ProxyInv, TablesInv, NEW p \in Stoppers, ~Panic,
           StopCall(p) \/ StopClose(p) \/ StopReturn(p) \/ \E k \in Keys : StopEnd(p, k)
    PROVE  TablesInv'
  <1>0. TypeOK /\ TableOK /\ ServedOK /\ RangeOK
    BY DEF ProxyInv, TablesInv
  <1>1. /\ UNCHANGED <<pc, cur, from, user, serving, allSessions>>
        /\ \A t \in Sessions : state'[t] = state[t] \/ (state[t] = "active" /\ state'[t] = "ended")
    <2>1. ASSUME NEW k \in Keys, StopEnd(p, k)
          PROVE  \A t \in Sessions : state'[t] = state[t] \/ (state[t] = "active" /\ state'[t] = "ended")
      BY <1>0, <2>1 DEF TypeOK, StopEnd, Ended
    <2> QED BY <1>0, <2>1 DEF StopCall, StopClose, StopReturn, StopEnd,
                loopVars, clientVars, sessionVars, tableVars
  <1>2. TableOK'
    <2>1. \A t \in Sessions : state'[t] = "none" <=> state[t] = "none"
      BY <1>1
    <2> QED BY <1>0, <1>1, <2>1, TableFrame DEF Working
  <1>3. ServedOK'
    BY <1>0, <1>1 DEF ServedOK, ServesLoggedIn, Found
  <1>4. RangeOK'
    <2>1. CASE StopCall(p)
      BY <1>0, <1>1, <2>1 DEF RangeOK, TypeOK, StopCall, sessionVars
    <2>2. CASE StopReturn(p)
      BY <1>0, <1>1, <2>2 DEF RangeOK, TypeOK, StopReturn, sessionVars
    <2>3. CASE StopClose(p)
      <3> DEFINE T == {k \in Keys : allSessions[k] # Nil}
                 D == {s \in Sessions : state[s] = "active" /\ InTable(s)}
      <3>1. /\ spc' = [spc EXCEPT ![p] = "range"] /\ spc[p] = "close"
            /\ todo' = [todo EXCEPT ![p] = T] /\ due' = [due EXCEPT ![p] = D]
            /\ UNCHANGED state
        BY <2>3 DEF StopClose, sessionVars
      <3>2. \A s \in D : s \in DOMAIN from /\ allSessions[Current(from[s])] = s => Current(from[s]) \in T
        BY <1>0, FromFacts, KeyFacts
      <3>3. \A s \in D : s \in Sessions /\ state[s] = "active"
        OBVIOUS
      <3> HIDE DEF T, D
      <3> QED BY <1>0, <1>1, <3>1, <3>2, <3>3 DEF RangeOK, TypeOK
    <2>4. ASSUME NEW k \in Keys, StopEnd(p, k) PROVE RangeOK'
      <3>1. /\ spc[p] = "range" /\ allSessions[k] # Nil
            /\ state' = [state EXCEPT ![allSessions[k]] = Ended(allSessions[k])]
            /\ todo' = [todo EXCEPT ![p] = todo[p] \ {k}]
            /\ UNCHANGED <<spc, due>>
        BY <2>4 DEF StopEnd
      <3>2. allSessions[k] \in Sessions /\ state'[allSessions[k]] # "active"
        BY <1>0, <3>1 DEF TypeOK, Ended
      <3>3. ASSUME NEW q \in Stoppers, spc[q] \in {"range", "done"}, NEW s \in due[q]
            PROVE  /\ state'[s] \in {"active", "ended"}
                   /\ state'[s] = "active" /\ s \in DOMAIN from /\ allSessions[Current(from[s])] = s =>
                        Current(from[s]) \in todo'[q]
        <4>1. s \in Sessions /\ state[s] \in {"active", "ended"}
          BY <1>0, <3>3 DEF RangeOK, TypeOK
        <4>2. state'[s] = "active" => state[s] = "active" /\ s # allSessions[k]
          BY <1>1, <3>2, <4>1
        <4>3. \A x \in todo[q] : x # k => x \in todo'[q]
          BY <1>0, <3>1 DEF TypeOK
        <4> QED BY <1>0, <1>1, <3>3, <4>1, <4>2, <4>3 DEF RangeOK
      <3>4. \A q \in Stoppers : spc[q] = "done" => todo'[q] = {}
        BY <1>0, <3>1 DEF RangeOK, TypeOK
      <3> QED BY <1>1, <3>1, <3>3, <3>4 DEF RangeOK
    <2> QED BY <2>1, <2>2, <2>3, <2>4
  <1> QED BY <1>2, <1>3, <1>4 DEF TablesInv

\* The tables are empty at first.
LEMMA TablesInit == Init => TablesInv
  <1> SUFFICES ASSUME Init PROVE TablesInv
    OBVIOUS
  <1>1. DOMAIN from = {} /\ \A a \in Addrs : SessionsOf(a) = {}
    BY DEF Init, SessionsOf
  <1>2. \A a \in Addrs : allSessions[Current(a)] = Nil /\ allSessions[Old(a)] = Nil
    BY KeyFacts DEF Init
  <1>3. TableOK
    BY <1>1, <1>2 DEF Init, TableOK, Tops, Working
  <1>4. ServedOK /\ RangeOK
    BY DEF Init, ServedOK, ServesLoggedIn, RangeOK
  <1> QED BY <1>3, <1>4 DEF TablesInv

\* Every step keeps the tables.
LEMMA TablesStep == OneLoop /\ ProxyInv /\ TablesInv /\ [Next]_vars => TablesInv'
  <1> SUFFICES ASSUME OneLoop, ProxyInv, TablesInv, [Next]_vars PROVE TablesInv'
    OBVIOUS
  <1>1. CASE UNCHANGED vars
    <2>1. /\ UNCHANGED <<pc, cur, from, state, user, serving, allSessions, spc, todo, due>>
          /\ TableOK'
      BY <1>1, TableFrame DEF TablesInv, Working, vars, loopVars, clientVars, sessionVars,
                              tableVars, stopVars
    <2> QED BY <2>1 DEF TablesInv, ServedOK, ServesLoggedIn, Found, RangeOK
  <1>2. CASE Panic
    <2>1. /\ UNCHANGED <<pc, cur, from, state, user, serving, allSessions, spc, todo, due>>
          /\ TableOK'
      BY <1>2, TableFrame DEF TablesInv, Working, Panic, loopVars, clientVars, sessionVars,
                              tableVars, stopVars
    <2> QED BY <2>1 DEF TablesInv, ServedOK, ServesLoggedIn, Found, RangeOK
  <1>3. CASE ~Panic /\ Next
    <2>1. ASSUME NEW p \in Stoppers, StopStep(p)
          PROVE  StopClose(p) \/ StopReturn(p) \/ \E k \in Keys : StopEnd(p, k)
      BY <2>1 DEF StopStep, ProxyInv, TypeOK
    <2> QED BY <1>3, <2>1, InsertTables, AcceptTables, LoginTables, SpawnTables, LoopTables,
               SessionTables, StopTables
            DEF Next, LoopStep
  <1> QED BY <1>1, <1>2, <1>3

\* With one accept loop, for any number of addresses, connections and calls of Stop.
THEOREM TablesCorrect == ASSUME OneLoop PROVE Spec => []TablesInv
  <1>1. (Init => TablesInv) /\ (ProxyInv /\ TablesInv /\ [Next]_vars => TablesInv')
    BY TablesInit, TablesStep
  <1> QED BY <1>1, ProxyCorrect, PTL DEF Spec

\* The table keeps the newest session of every client address under the plain key
\* and the one before it under "_old", whatever logins, reuses of a port, ends of
\* sessions and calls of Stop come in between (StartProxy).
THEOREM TableKeeps == ASSUME OneLoop PROVE Spec => []TableKeepsTwo
  <1>1. TypeOK /\ TableOK => TableKeepsTwo
    <2> SUFFICES ASSUME TypeOK, TableOK, NEW a \in Addrs
                 PROVE  /\ allSessions[Current(a)] = Newest(SessionsOf(a))
                        /\ allSessions[Old(a)] = Newest(SessionsOf(a) \ {Newest(SessionsOf(a))})
      BY DEF TableKeepsTwo
    <2>1. SessionsOf(a) \in SUBSET Nat
      BY SessionNumbers
    <2>2. allSessions[Current(a)] = Newest(SessionsOf(a))
      BY <2>1, NewestTops DEF TableOK
    <2>3. SessionsOf(a) \ {allSessions[Current(a)]} \in SUBSET Nat
      BY <2>1
    <2> QED BY <2>2, <2>3, NewestTops DEF TableOK
  <1>2. ProxyInv /\ TablesInv => TableKeepsTwo
    BY <1>1 DEF ProxyInv, TablesInv
  <1> QED BY <1>2, ProxyCorrect, TablesCorrect, PTL

\* No goroutine HandleClientConn works on a session that nobody logged in to,
\* although the session is looked up by its key once more after the handshake.
THEOREM ServesOnlyLoggedIn == ASSUME OneLoop PROVE Spec => []ServesLoggedIn
  <1>1. TablesInv => ServesLoggedIn
    BY DEF TablesInv, ServedOK
  <1> QED BY <1>1, TablesCorrect, PTL

\* A call of Stop that has returned has ended every session that was active in the
\* table when its range began and that is still the newest of its address, although
\* the map is written, and sessions end, while the range goes on.
THEOREM StopEnds == ASSUME OneLoop PROVE Spec => []StopEndsSessions
  <1>1. ProxyInv /\ TablesInv => StopEndsSessions
    <2> SUFFICES ASSUME TypeOK, TableOK, RangeOK, NEW p \in Stoppers, spc[p] = "done",
                        NEW s \in due[p], state[s] = "active", s = Newest(SessionsOf(from[s]))
                 PROVE  FALSE
      BY DEF StopEndsSessions, ProxyInv, TablesInv
    <2>1. s \in Sessions /\ s \in DOMAIN from /\ from[s] \in Addrs
      BY FromFacts DEF TypeOK, TableOK
    <2>2. SessionsOf(from[s]) \in SUBSET Nat
      BY <2>1, SessionNumbers
    <2>3. allSessions[Current(from[s])] = s
      BY <2>1, <2>2, NewestTops DEF TableOK
    <2> QED BY <2>1, <2>3 DEF RangeOK
  <1> QED BY <1>1, ProxyCorrect, TablesCorrect, PTL
=============================================================================
