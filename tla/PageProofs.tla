------------------------------ MODULE PageProofs ------------------------------
(***************************************************************************)
(* Theorems about Page: that no poller is forgotten and only one socket    *)
(* polls for the active sessions, whatever the order of answers, changes   *)
(* of the URL and failures.                                                *)
(***************************************************************************)
EXTENDS Page, NatProofs

\* A socket that is not closed is registered if it is one of init_query_socket;
\* a socket with an interval is registered or closed.
ConnOK(c) ==
    /\ c \in Conn
    /\ c.kind = "play" => c.key \in Keys
    /\ c.kind = "query" /\ c.state # "closing" => c.tracked
    /\ c.interval => c.tracked \/ c.state = "closing"

Querying(c) == c.kind = "query" /\ c.state # "closing"

\* What the sockets of the page are like between two handlers.
ConnsOK(C) ==
    /\ IsFiniteSet(C)
    /\ \A c \in C : ConnOK(c)
    /\ \A c, d \in C : c.id = d.id => c = d
    /\ \A c, d \in C : Querying(c) /\ Querying(d) => c = d

NoQuery(C) == \A c \in C : ~Querying(c)

PageInv == TypeOK /\ ConnsOK(conns)

-----------------------------------------------------------------------------
(* Opening and closing sockets *)

\* There is an id for a new socket.
LEMMA NewIdIsNew ==
    ASSUME NEW C, ConnsOK(C)
    PROVE  NewId(C) \in Nat \ {0} /\ \A c \in C : c.id # NewId(C)
  <1> DEFINE n == Cardinality(C)
             S == {i \in 1..(n + 1) : \A c \in C : c.id # i}
             before == [c \in C |-> c.id - 1]
             Least(i) == /\ \A c \in C : c.id # i
                         /\ \A j \in 1..(i - 1) : \E c \in C : c.id = j
  <1>1. n \in Nat /\ IsFiniteSet(C) /\ \A c \in C : c.id \in Nat
    BY FS_CardinalityType DEF ConnsOK, ConnOK, Conn
  <1>2. PICK d \in 0..n : \A c \in C : before[c] # d
    <2> HIDE DEF before
    <2> QED BY <1>1, FreeNumber
  <1>3. d + 1 \in S
    BY <1>1, <1>2
  <1>4. S \in SUBSET Nat
    BY <1>1
  <1>5. PICK m \in S : \A i \in S : m <= i
    <2> HIDE DEF S
    <2> QED BY <1>3, <1>4, LeastExists
  <1>6. m \in 1..(n + 1) /\ Least(m)
    <2>1. ASSUME NEW j \in 1..(m - 1) PROVE \E c \in C : c.id = j
      <3>1. j \in 1..(n + 1) /\ ~(m <= j)
        BY <1>1, <1>5
      <3> QED BY <1>5, <3>1
    <2> QED BY <1>5, <2>1
  <1>7. NewId(C) = CHOOSE i \in 1..(n + 1) : Least(i)
    BY DEF NewId
  <1>8. NewId(C) \in 1..(n + 1) /\ Least(NewId(C))
    <2> HIDE DEF Least
    <2> QED BY <1>6, <1>7
  <1> QED BY <1>1, <1>8

\* A new socket: a second one that queries only if there is none yet.
LEMMA OpenKeeps ==
    ASSUME NEW C, ConnsOK(C), NEW kind \in Kinds, NEW key \in Keys \cup {NoKey},
           kind = "play" => key \in Keys, kind = "query" => NoQuery(C)
    PROVE  /\ ConnsOK(OpenConn(C, kind, key))
           /\ kind # "query" /\ NoQuery(C) => NoQuery(OpenConn(C, kind, key))
  <1> DEFINE d == [id |-> NewId(C), kind |-> kind, key |-> key, state |-> "connecting",
                   tracked |-> kind = "query", interval |-> FALSE, mail |-> <<>>]
  <1>1. OpenConn(C, kind, key) = C \cup {d}
    BY DEF OpenConn
  <1>2. <<>> \in Seq(Answer)
    BY EmptySeq
  <1>3. d \in Conn
    BY <1>2, NewIdIsNew DEF Conn
  <1>4. ConnOK(d) /\ (Querying(d) => kind = "query") /\ d.id = NewId(C)
    BY <1>3 DEF ConnOK, Querying
  <1> HIDE DEF d
  <1>5. IsFiniteSet(C \cup {d})
    BY FS_AddElement DEF ConnsOK
  <1>6. \A c \in C : c.id # d.id
    BY <1>4, NewIdIsNew
  <1>7. \A c, e \in C \cup {d} : Querying(c) /\ Querying(e) => c = e
    BY <1>4 DEF ConnsOK, NoQuery
  <1> QED BY <1>1, <1>4, <1>5, <1>6, <1>7 DEF ConnsOK, NoQuery

\* What close() and reset_timers_and_query_sockets leave of a socket.
LEMMA CloseForms ==
    ASSUME NEW c, ConnOK(c)
    PROVE  /\ ConnOK(CloseConn(c)) /\ CloseConn(c).id = c.id /\ ~Querying(CloseConn(c))
           /\ ConnOK(ResetConn(c)) /\ ResetConn(c).id = c.id /\ ~Querying(ResetConn(c))
  <1>0. <<>> \in Seq(Answer)
    BY EmptySeq
  <1>1. /\ ConnOK(CloseConn(c)) /\ CloseConn(c).id = c.id /\ ~Querying(CloseConn(c))
        /\ CloseConn(c).kind = c.kind /\ CloseConn(c).state = "closing"
    BY <1>0 DEF ConnOK, Conn, CloseConn, Querying
  <1> DEFINE d == IF c.tracked THEN [CloseConn(c) EXCEPT !.tracked = FALSE] ELSE c
  <1>2. /\ ConnOK(d) /\ d.id = c.id /\ ~Querying(d)
    BY <1>1 DEF ConnOK, Conn, Querying
  <1>3. ResetConn(c) = IF d.kind = "query" THEN [d EXCEPT !.interval = FALSE] ELSE d
    BY DEF ResetConn
  <1> HIDE DEF d
  <1>4. ConnOK(ResetConn(c)) /\ ResetConn(c).id = c.id /\ ~Querying(ResetConn(c))
    BY <1>2, <1>3 DEF ConnOK, Conn, Querying
  <1> QED BY <1>1, <1>4

\* After reset_timers_and_query_sockets nobody queries.
LEMMA ResetKeeps ==
    ASSUME NEW C, ConnsOK(C)
    PROVE  ConnsOK(ResetConns(C)) /\ NoQuery(ResetConns(C))
  <1> DEFINE D == {ResetConn(c) : c \in C}
  <1>1. IsFiniteSet(D)
    <2> DEFINE f == [c \in C |-> ResetConn(c)]
    <2>1. f \in Surjection(C, D)
      BY DEF Surjection
    <2> HIDE DEF f, D
    <2> QED BY <2>1, FS_Surjection DEF ConnsOK
  <1>2. ResetConns(C) \subseteq D
    BY DEF ResetConns, Used
  <1>3. IsFiniteSet(ResetConns(C))
    BY <1>1, <1>2, FS_Subset
  <1>4. \A d \in ResetConns(C) : \E c \in C : d = ResetConn(c)
    BY <1>2
  <1>5. \A c \in C : ConnOK(ResetConn(c)) /\ ResetConn(c).id = c.id /\ ~Querying(ResetConn(c))
    BY CloseForms DEF ConnsOK
  <1>6. NoQuery(ResetConns(C)) /\ \A d \in ResetConns(C) : ConnOK(d)
    BY <1>4, <1>5 DEF NoQuery
  <1>7. \A d, e \in ResetConns(C) : d.id = e.id => d = e
    BY <1>4, <1>5 DEF ConnsOK
  <1> QED BY <1>3, <1>6, <1>7 DEF ConnsOK, NoQuery

\* What happens to one socket happens to none of the others.
LEMMA ReplaceKeeps ==
    ASSUME ConnsOK(conns), NEW c \in conns, NEW d, ConnOK(d), d.id = c.id,
           Querying(d) => Querying(c)
    PROVE  ConnsOK(Replace(c, d))
  <1> DEFINE C == (conns \ {c}) \cup {d}
  <1>1. IsFiniteSet(C)
    BY FS_Subset, FS_AddElement DEF ConnsOK
  <1>2. Replace(c, d) \subseteq C
    BY DEF Replace, Used
  <1>3. IsFiniteSet(Replace(c, d))
    BY <1>1, <1>2, FS_Subset
  <1>4. /\ \A e \in C : ConnOK(e)
        /\ \A e, f \in C : e.id = f.id => e = f
        /\ \A e, f \in C : Querying(e) /\ Querying(f) => e = f
    BY DEF ConnsOK
  <1> QED BY <1>2, <1>3, <1>4 DEF ConnsOK

\* A socket that opens, asks or has an answer handled stays in order.
LEMMA AskForms ==
    ASSUME NEW c, ConnOK(c), TypeOK
    PROVE  /\ ConnOK(Ask(c))
           /\ \E m \in Seq(Answer) : Ask(c) = [c EXCEPT !.mail = m]
  <1>1. c.mail \in Seq(Answer)
    BY DEF ConnOK, Conn
  <1>2. PICK n \in Answer : Ask(c) = [c EXCEPT !.mail = Append(@, n)]
    <2> DEFINE n == [active |-> active,
                     ended |-> IF c.kind \in {"query", "play"} THEN {} ELSE ended]
    <2>1. active \subseteq Keys /\ ended \subseteq Keys
      BY DEF TypeOK
    <2>2. n \in Answer
      BY <2>1 DEF Answer
    <2>3. Ask(c) = [c EXCEPT !.mail = Append(@, n)]
      BY DEF Ask
    <2> QED BY <2>2, <2>3
  <1>3. Append(c.mail, n) \in Seq(Answer)
    BY <1>1
  <1>4. Ask(c) = [c EXCEPT !.mail = Append(c.mail, n)]
    BY <1>2
  <1> QED BY <1>3, <1>4 DEF ConnOK, Conn

\* The answer at the head, and the socket without it.
LEMMA DeliveredForms ==
    ASSUME NEW c, ConnOK(c), c.mail # <<>>
    PROVE  /\ ConnOK(Delivered(c)) /\ Delivered(c).id = c.id
           /\ Querying(Delivered(c)) => Querying(c)
           /\ Head(c.mail) \in Answer
  <1>1. c.mail \in Seq(Answer)
    BY DEF ConnOK, Conn
  <1>2. Tail(c.mail) \in Seq(Answer) /\ Head(c.mail) \in Answer
    BY <1>1
  <1> QED BY <1>2 DEF Delivered, ConnOK, Conn, Querying

-----------------------------------------------------------------------------
(* read_hashes *)

\* Whatever the URL says, at most one socket queries afterwards.
LEMMA HashKeeps ==
    ASSUME PageAssumption, NEW C, ConnsOK(C), NEW h \in Hashes, NEW alone \in BOOLEAN
    PROVE  ConnsOK(HashConns(C, h, alone))
  <1> DEFINE R == IF alone THEN C ELSE ResetConns(C)
  <1>1. ConnsOK(R) /\ (~alone => NoQuery(R))
    BY ResetKeeps
  <1>2. /\ h.key \in Keys \cup {NoKey}
        /\ h.type = "live" => h.key \in Keys
    BY DEF Hashes
  <1>3. /\ {"query", "play", "viewer-play", "viewer-list"} = Kinds
    BY DEF Kinds
  <1>4. HashConns(C, h, alone) =
            CASE h.type = "live" -> WithLists(OpenConn(R, "play", h.key), "query", alone)
              [] h.type = "signed-viewer" /\ h.key # NoKey ->
                    WithLists(OpenConn(R, "viewer-play", h.key), "viewer-list", alone)
              [] h.type = "signed-viewer" /\ h.key = NoKey -> WithLists(R, "viewer-list", alone)
              [] h.type = "signed-session" -> OpenConn(R, "viewer-play", NoKey)
              [] OTHER -> WithLists(R, "query", alone)
    BY DEF HashConns
  <1> HIDE DEF R
  <1>5. ASSUME NEW D, ConnsOK(D), ~alone => NoQuery(D), NEW kind \in {"query", "viewer-list"}
        PROVE  ConnsOK(WithLists(D, kind, alone))
    <2>1. CASE alone
      BY <1>5, <2>1 DEF WithLists
    <2>2. CASE ~alone
      <3>1. kind \in Kinds /\ kind # "play" /\ NoQuery(D)
        BY <1>3, <1>5, <2>2
      <3>2. ConnsOK(OpenConn(D, kind, NoKey))
        BY <1>5, <3>1, OpenKeeps
      <3> QED BY <2>2, <3>2 DEF WithLists
    <2> QED BY <2>1, <2>2
  <1>6. CASE h.type = "live"
    <2>1. /\ ConnsOK(OpenConn(R, "play", h.key))
          /\ ~alone => NoQuery(OpenConn(R, "play", h.key))
      BY <1>1, <1>2, <1>3, <1>6, OpenKeeps
    <2> QED BY <1>4, <1>5, <1>6, <2>1
  <1>7. CASE h.type = "signed-viewer" /\ h.key # NoKey
    <2>1. /\ ConnsOK(OpenConn(R, "viewer-play", h.key))
          /\ ~alone => NoQuery(OpenConn(R, "viewer-play", h.key))
      BY <1>1, <1>2, <1>3, OpenKeeps
    <2> QED BY <1>4, <1>5, <1>7, <2>1
  <1>8. CASE h.type = "signed-viewer" /\ h.key = NoKey
    BY <1>1, <1>4, <1>5, <1>8
  <1>9. CASE h.type = "signed-session"
    <2>1. ConnsOK(OpenConn(R, "viewer-play", NoKey))
      BY <1>1, <1>3, OpenKeeps
    <2> QED BY <1>4, <1>9, <2>1
  <1>10. CASE h.type \notin {"live", "signed-viewer", "signed-session"}
    <2>1. HashConns(C, h, alone) = WithLists(R, "query", alone)
      BY <1>4, <1>10
    <2> QED BY <1>1, <1>5, <2>1
  <1> QED BY <1>6, <1>7, <1>8, <1>9, <1>10

\* The requests for recordings.
LEMMA HashFetchesType ==
    ASSUME NEW F \in [Keys -> Nat], NEW h
    PROVE  HashFetches(F, h) \in [Keys -> Nat]
  BY DEF HashFetches

-----------------------------------------------------------------------------
(* The invariant *)

\* It holds when the page has been opened.
LEMMA PageInit ==
    ASSUME PageAssumption, Init PROVE PageInv
  <1>1. ConnsOK({})
    BY FS_EmptySet DEF ConnsOK
  <1>2. hash \in Hashes /\ standalone \in BOOLEAN
    BY DEF Init, PageAssumption
  <1>3. ConnsOK(conns)
    BY <1>1, <1>2, HashKeeps DEF Init
  <1>4. fetches \in [Keys -> Nat]
    BY HashFetchesType DEF Init
  <1>5. TypeOK
    <2>1. /\ conns \subseteq Conn
          /\ \A c, d \in conns : c.id = d.id => c = d
      BY <1>3 DEF ConnsOK, ConnOK
    <2>2. player \in [from : {"nothing"}, key : {NoKey}]
      BY DEF Init
    <2>3. active \subseteq Keys /\ ended \subseteq Keys \ active
      BY DEF Init
    <2>4. /\ navs = 0 /\ hashEvents = 0 /\ oldList = FALSE /\ links = {} /\ oldLinks = {}
          /\ MaxNavs \in Nat
      BY DEF Init, PageAssumption
    <2>5. navs \in 0..MaxNavs /\ hashEvents \in Nat
      BY <2>4
    <2> QED BY <1>2, <1>4, <2>1, <2>2, <2>3, <2>4, <2>5 DEF TypeOK
  <1> QED BY <1>3, <1>5 DEF PageInv

\* The links that an answer adds are links.
LEMMA LinkTypes ==
    ASSUME NEW to \in {"live", "replay", "viewer"}, NEW S \in SUBSET Keys
    PROVE  NewLinks(to, S) \subseteq Links
  BY DEF NewLinks, Links

\* The handlers of the location.
LEMMA LocationStep ==
    ASSUME PageAssumption, PageInv, (\E h \in Places : Navigate(h)) \/ HashChange
    PROVE  PageInv'
  <1>1. ASSUME NEW h \in Places, Navigate(h) PROVE PageInv'
    BY <1>1 DEF PageAssumption, PageInv, TypeOK, Navigate, lists, server, ConnsOK
  <1>2. CASE HashChange
    <2>1. ConnsOK(conns')
      BY <1>2, HashKeeps DEF HashChange, ReadHashes, PageInv, TypeOK
    <2>2. fetches' \in [Keys -> Nat]
      BY <1>2, HashFetchesType DEF HashChange, ReadHashes, PageInv, TypeOK
    <2>3. /\ conns' \subseteq Conn
          /\ \A c, d \in conns' : c.id = d.id => c = d
      BY <2>1 DEF ConnsOK, ConnOK
    <2>4. hashEvents' \in Nat
      BY <1>2 DEF HashChange, PageInv, TypeOK
    <2>5. UNCHANGED <<standalone, hash, oldList, player, links, oldLinks, active, ended, navs>>
      BY <1>2 DEF HashChange, lists, server
    <2> QED BY <2>1, <2>2, <2>3, <2>4, <2>5 DEF PageInv, TypeOK
  <1> QED BY <1>1, <1>2

\* A step that leaves the sockets in order, and the rest typed.
LEMMA RestTyped ==
    ASSUME PageInv, ConnsOK(conns'), UNCHANGED <<standalone, active, ended, navs>>,
           hash' \in Hashes, hashEvents' \in Nat, fetches' \in [Keys -> Nat], oldList' \in BOOLEAN,
           player' = player \/ player' \in [from : {"socket", "file"}, key : Keys],
           links' \subseteq Links, oldLinks' \subseteq Links
    PROVE  PageInv'
  <1>1. /\ conns' \subseteq Conn
        /\ \A c, d \in conns' : c.id = d.id => c = d
    BY DEF ConnsOK, ConnOK
  <1>2. player' \in [from : {"nothing"}, key : {NoKey}] \cup [from : {"socket", "file"}, key : Keys]
    BY DEF PageInv, TypeOK
  <1> QED BY <1>1, <1>2 DEF PageInv, TypeOK

\* Sockets open, poll, break and close.
LEMMA SocketStep ==
    ASSUME PageAssumption, PageInv, NEW c \in conns,
           ConnOpens(c) \/ Tick(c) \/ ListArrives(c) \/ ConnBreaks(c) \/ ConnCloses(c)
    PROVE  PageInv'
  <1>0. TypeOK /\ ConnsOK(conns) /\ ConnOK(c) /\ c \in Conn
    BY DEF PageInv, ConnsOK, ConnOK
  <1>1. PICK m \in Seq(Answer) : Ask(c) = [c EXCEPT !.mail = m]
    BY <1>0, AskForms
  <1>2. ConnOK(Ask(c)) /\ Ask(c).id = c.id /\ (Querying(Ask(c)) => Querying(c))
    BY <1>0, <1>1, AskForms DEF Conn, Querying
  <1>3. CASE ConnOpens(c)
    <2> DEFINE d == [Ask(c) EXCEPT !.state = "open",
                                   !.interval = c.kind \in {"query", "viewer-list"},
                                   !.tracked = @ \/ c.kind = "viewer-list"]
    <2>1. c.state = "connecting" /\ conns' = Replace(c, d)
      BY <1>3 DEF ConnOpens
    <2>2. ConnOK(d) /\ d.id = c.id /\ (Querying(d) => Querying(c))
      <3> DEFINE t == Ask(c).tracked \/ c.kind = "viewer-list"
                 i == c.kind \in {"query", "viewer-list"}
      <3>1. t \in BOOLEAN /\ i \in BOOLEAN /\ Ask(c) \in Conn
        BY <1>2 DEF ConnOK, Conn
      <3>2. t <=> c.tracked \/ c.kind = "viewer-list"
        BY <1>0, <1>1 DEF Conn
      <3>3. /\ d \in Conn /\ d.interval = i /\ d.tracked = t
            /\ d.id = c.id /\ d.kind = c.kind /\ d.key = c.key
        <4>1. Ask(c).id = c.id /\ Ask(c).kind = c.kind /\ Ask(c).key = c.key
          BY <1>0, <1>1 DEF Conn
        <4> HIDE DEF t, i
        <4>2. d = [Ask(c) EXCEPT !.state = "open", !.interval = i, !.tracked = t]
          BY Zenon DEF t, i
        <4> QED BY <3>1, <4>1, <4>2 DEF Conn
      <3> HIDE DEF d
      <3>4. /\ c.kind = "play" => c.key \in Keys
            /\ c.kind = "query" => c.tracked
        BY <1>0, <2>1 DEF ConnOK
      <3>5. c.state # "closing"
        BY <2>1
      <3>6. /\ d.kind = "query" => d.tracked
            /\ d.interval => d.tracked
        BY <3>2, <3>3, <3>4
      <3> QED BY <3>3, <3>4, <3>5, <3>6 DEF ConnOK, Querying
    <2> HIDE DEF d
    <2>3. ConnsOK(conns')
      BY <1>0, <2>1, <2>2, ReplaceKeeps
    <2>4. /\ oldList' \in BOOLEAN /\ links' = {}
          /\ UNCHANGED <<standalone, hash, hashEvents, fetches, player, oldLinks, active, ended, navs>>
      BY <1>3 DEF ConnOpens, server
    <2> QED BY <1>0, <2>3, <2>4, RestTyped DEF TypeOK
  <1>4. CASE Tick(c)
    <2>1. conns' = Replace(c, IF c.state = "open" THEN Ask(c) ELSE c)
      BY <1>4 DEF Tick
    <2>2. ConnsOK(conns')
      BY <1>0, <1>2, <2>1, ReplaceKeeps
    <2>3. /\ oldList' \in BOOLEAN /\ links' = {}
          /\ UNCHANGED <<standalone, hash, hashEvents, fetches, player, oldLinks, active, ended, navs>>
      BY <1>4 DEF Tick, server
    <2> QED BY <1>0, <2>2, <2>3, RestTyped DEF TypeOK
  <1>5. CASE ListArrives(c)
    <2>1. c.mail # <<>> /\ conns' = Replace(c, Delivered(c))
      BY <1>5 DEF ListArrives
    <2>2. ConnsOK(conns') /\ Head(c.mail) \in Answer
      BY <1>0, <2>1, DeliveredForms, ReplaceKeeps
    <2>3. Head(c.mail).active \subseteq Keys /\ Head(c.mail).ended \subseteq Keys
      BY <2>2 DEF Answer
    <2> DEFINE to == IF c.kind = "query" THEN "live" ELSE "viewer"
    <2>4. /\ links' = links \cup NewLinks(to, Head(c.mail).active)
          /\ oldLinks' = oldLinks \cup NewLinks(to, Head(c.mail).ended)
          /\ UNCHANGED <<standalone, hash, hashEvents, fetches, oldList, player, active, ended, navs>>
      BY <1>5 DEF ListArrives, server
    <2>5. to \in {"live", "replay", "viewer"}
      OBVIOUS
    <2> HIDE DEF to
    <2>6. links' \subseteq Links /\ oldLinks' \subseteq Links
      BY <1>0, <2>3, <2>4, <2>5, LinkTypes DEF TypeOK
    <2> QED BY <1>0, <2>2, <2>4, <2>6, RestTyped DEF TypeOK
  <1>6. CASE ConnBreaks(c)
    <2>1. conns' = Replace(c, CloseConn(c))
      BY <1>6 DEF ConnBreaks
    <2>2. ConnsOK(conns')
      BY <1>0, <2>1, CloseForms, ReplaceKeeps
    <2>3. UNCHANGED <<standalone, hash, hashEvents, fetches, oldList, player, links, oldLinks,
                      active, ended, navs>>
      BY <1>6 DEF ConnBreaks, lists, server
    <2> QED BY <1>0, <2>2, <2>3, RestTyped DEF TypeOK
  <1>7. CASE ConnCloses(c)
    <2>1. conns' = conns \ {c}
      BY <1>7 DEF ConnCloses
    <2>2. IsFiniteSet(conns \ {c})
      BY <1>0, FS_RemoveElement DEF ConnsOK
    <2>3. ConnsOK(conns')
      BY <1>0, <2>1, <2>2 DEF ConnsOK
    <2>4. UNCHANGED <<standalone, hash, hashEvents, fetches, oldList, player, links, oldLinks,
                      active, ended, navs>>
      BY <1>7 DEF ConnCloses, lists, server
    <2> QED BY <1>0, <2>3, <2>4, RestTyped DEF TypeOK
  <1> QED BY <1>3, <1>4, <1>5, <1>6, <1>7

\* The answer that a session was selected by.
LEMMA PlaySocketStep ==
    ASSUME PageAssumption, PageInv, NEW c \in conns, PlaySocketActs(c)
    PROVE  PageInv'
  <1>0. TypeOK /\ ConnsOK(conns) /\ ConnOK(c)
    BY DEF PageInv, ConnsOK
  <1> DEFINE d == CloseConn(Delivered(c))
  <1>1. c.mail # <<>>
    BY DEF PlaySocketActs, PlayArrives, FallBack, NothingToPlay
  <1>2. /\ ConnOK(Delivered(c)) /\ Delivered(c).id = c.id /\ Head(c.mail) \in Answer
        /\ Querying(Delivered(c)) => Querying(c)
    BY <1>0, <1>1, DeliveredForms
  <1>3. ConnOK(d) /\ d.id = c.id /\ ~Querying(d)
    BY <1>2, CloseForms
  <1> HIDE DEF d
  <1>4. ConnsOK(Replace(c, d)) /\ ConnsOK(Replace(c, Delivered(c)))
    BY <1>0, <1>2, <1>3, ReplaceKeeps
  <1>5. CASE PlayArrives(c)
    <2>1. /\ conns' = Replace(c, d)
          /\ UNCHANGED <<standalone, hash, hashEvents, fetches, oldList, links, oldLinks,
                         active, ended, navs>>
      BY <1>5 DEF PlayArrives, d, lists, server
    <2>2. PICK k \in Head(c.mail).active \cup Head(c.mail).ended :
               player' = [from |-> "socket", key |-> k]
      BY <1>5 DEF PlayArrives
    <2>3. k \in Keys
      BY <1>2, <2>2 DEF Answer
    <2>4. player' \in [from : {"socket", "file"}, key : Keys]
      BY <2>2, <2>3
    <2> QED BY <1>0, <1>4, <2>1, <2>4, RestTyped DEF TypeOK
  <1>6. CASE FallBack(c)
    <2> DEFINE h == [type |-> "replay", key |-> c.key]
    <2>1. h \in Hashes
      BY <1>0, <1>6 DEF FallBack, ConnOK, Hashes
    <2>2. /\ conns' = HashConns(Replace(c, d), h, FALSE)
          /\ fetches' = HashFetches(fetches, h)
          /\ hash' = h /\ hashEvents' = IF hash = h THEN hashEvents ELSE hashEvents + 1
          /\ UNCHANGED <<standalone, oldList, player, links, oldLinks, active, ended, navs>>
      BY <1>6 DEF FallBack, ReadHashes, d, lists, server
    <2> HIDE DEF h
    <2>3. ConnsOK(conns')
      BY <1>4, <2>1, <2>2, HashKeeps
    <2>4. fetches' \in [Keys -> Nat]
      BY <1>0, <2>2, HashFetchesType DEF TypeOK
    <2>5. hashEvents' \in Nat
      BY <1>0, <2>2 DEF TypeOK
    <2> QED BY <1>0, <2>1, <2>2, <2>3, <2>4, <2>5, RestTyped DEF TypeOK
  <1>7. CASE NothingToPlay(c)
    <2>1. /\ conns' = Replace(c, Delivered(c))
          /\ UNCHANGED <<standalone, hash, hashEvents, fetches, oldList, player, links, oldLinks,
                         active, ended, navs>>
      BY <1>7 DEF NothingToPlay, lists, server
    <2> QED BY <1>0, <1>4, <2>1, RestTyped DEF TypeOK
  <1> QED BY <1>5, <1>6, <1>7 DEF PlaySocketActs

\* Answers to other requests, and the server's sessions.
LEMMA ServerStep ==
    ASSUME PageInv, NEW k \in Keys,
           RecordingArrives(k) \/ FetchFails(k) \/ SessionStarts(k) \/ SessionEnds(k)
    PROVE  PageInv'
  <1>0. TypeOK /\ ConnsOK(conns) /\ fetches[k] \in Nat
    BY DEF PageInv, TypeOK
  <1>1. CASE RecordingArrives(k)
    BY <1>0, <1>1 DEF RecordingArrives, PageInv, TypeOK, lists, server
  <1>2. CASE FetchFails(k)
    BY <1>0, <1>2 DEF FetchFails, PageInv, TypeOK, lists, server
  <1>3. CASE SessionStarts(k)
    BY <1>0, <1>3 DEF SessionStarts, PageInv, TypeOK, lists
  <1>4. CASE SessionEnds(k)
    BY <1>0, <1>4 DEF SessionEnds, PageInv, TypeOK, lists
  <1> QED BY <1>1, <1>2, <1>3, <1>4

\* Every step keeps the invariant.
LEMMA PageStep ==
    ASSUME PageAssumption, PageInv, [Next]_vars PROVE PageInv'
  <1>1. CASE UNCHANGED vars
    BY <1>1 DEF vars, PageInv, TypeOK
  <1>2. CASE OldListArrives
    <2>1. oldLinks' \subseteq Links
      BY <1>2, LinkTypes DEF OldListArrives, PageInv, TypeOK
    <2> QED BY <1>2, <2>1, RestTyped DEF OldListArrives, PageInv, TypeOK, server
  <1> QED BY <1>1, <1>2, LocationStep, SocketStep, PlaySocketStep, ServerStep DEF Next

-----------------------------------------------------------------------------
(* Theorems *)

\* The invariant holds in every state.
THEOREM PageCorrect == Spec => []PageInv
  <1>1. Init => PageInv
    BY PageAssumption, PageInit
  <1>2. PageInv /\ [Next]_vars => PageInv'
    BY PageAssumption, PageStep
  <1> QED BY <1>1, <1>2, PTL DEF Spec

\* Values have their types, and the player is given sessions only (lib.js:280-295).
THEOREM PageTypes == Spec => []TypeOK
  <1>1. PageInv => TypeOK
    BY DEF PageInv
  <1> QED BY <1>1, PageCorrect, PTL

\* No poller can be forgotten (lib.js:65-97, 325-372).
THEOREM PollersAreTracked == Spec => []PollersTracked
  <1>1. PageInv => PollersTracked
    BY DEF PageInv, ConnsOK, ConnOK, PollersTracked
  <1> QED BY <1>1, PageCorrect, PTL

\* At most one socket asks for the list of active sessions (lib.js:96, 296-304).
THEOREM OneSocketQueries == Spec => []OneQuerySocket
  <1>1. PageInv => OneQuerySocket
    BY DEF PageInv, ConnsOK, Querying, OneQuerySocket
  <1> QED BY <1>1, PageCorrect, PTL
===============================================================================
