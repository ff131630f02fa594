--------------------------------- MODULE Page ---------------------------------
(***************************************************************************)
(* The web page around the player (lib.js, live.js, standalone.js).  The   *)
(* part of the URL after "#" says what to display.  Every change of it     *)
(* runs read_hashes, which closes the sockets that poll for lists of       *)
(* sessions and opens new ones, and asks for the session it names; the     *)
(* answers come later, in any order, while the user goes on.               *)
(*                                                                         *)
(* The player itself is module TerminalReader; here it is what was last    *)
(* put into it.  Handlers are atomic, as they are in a browser.  The proxy *)
(* answers public queries (PublicAccess, the default of MakeNewProxy), and *)
(* the secrets in the URLs are those of viewers it has.                    *)
(***************************************************************************)
EXTENDS Integers, FiniteSets, Sequences

CONSTANTS
    Keys,        \* keys of sessions
    NoKey,       \* no key in the URL
    Places,      \* the URLs the user goes to
    MaxNavs,     \* bound on the changes of the URL the user makes
    MaxMail      \* bound on the list requests under way on one socket

VARIABLES
    standalone,    \* standalone.html, or the page with the lists
    hash,          \* window.location.hash
    hashEvents,    \* hashchange events that are still to be handled
    conns,         \* web sockets that ask for lists
    fetches,       \* getJSON requests under way, for each recording
    oldList,       \* whether a request for the list of recordings is under way
    player,        \* what was last put into the player
    links,         \* links in the list of active sessions (#session_list)
    oldLinks,      \* links in the list of ended sessions (#old_session_list)
    active, ended, \* the server's sessions
    navs           \* changes of the URL so far

server == <<active, ended>>
lists  == <<links, oldLinks>>
vars   == <<standalone, hash, hashEvents, conns, fetches, oldList, player, links,
            oldLinks, active, ended, navs>>

\* #live&key, #replay&file, #signed-viewer&secret[/key], #signed-session&secret
Hashes ==
    [type : {"none", "signed-viewer", "signed-session"}, key : {NoKey}]
    \cup [type : {"live", "replay", "signed-viewer"}, key : Keys]

ASSUME PageAssumption ==
    /\ NoKey \notin Keys
    /\ Places \subseteq Hashes
    /\ MaxNavs \in Nat
    /\ MaxMail \in Nat \ {0}

\* The uses of list sockets: the list of active sessions (init_query_socket), and
\* list_session to play a session, to play a session of a viewer, and to list a
\* viewer's sessions.
Kinds == {"query", "play", "viewer-play", "viewer-list"}

\* What a list answer says: getAllSessionInfo and getUserSessionInfo.
Answer == [active : SUBSET Keys, ended : SUBSET Keys]

Conn ==
    [id : Nat \ {0}, kind : Kinds, key : Keys \cup {NoKey},
     state : {"connecting", "open", "closing"},
     tracked  : BOOLEAN,       \* in active_query_sockets
     interval : BOOLEAN,       \* its setInterval is running
     mail     : Seq(Answer)]   \* answers on their way to it

Links == [to : {"live", "replay", "viewer"}, key : Keys]

\* Every variable holds a value of its type; the player is given sessions only, and no
\* session that the list did not name (lib.js:280-295).
TypeOK ==
    /\ standalone \in BOOLEAN
    /\ hash \in Hashes
    /\ hashEvents \in Nat
    /\ conns \subseteq Conn
    /\ \A c, d \in conns : c.id = d.id => c = d
    /\ fetches \in [Keys -> Nat]
    /\ oldList \in BOOLEAN
    /\ player \in [from : {"nothing"}, key : {NoKey}] \cup [from : {"socket", "file"}, key : Keys]
    /\ links \subseteq Links /\ oldLinks \subseteq Links
    /\ active \subseteq Keys /\ ended \subseteq Keys \ active
    /\ navs \in 0..MaxNavs

-----------------------------------------------------------------------------
(* Opening and closing sockets. *)

NewId(C) ==
    CHOOSE i \in 1..(Cardinality(C) + 1) :
        /\ \A c \in C : c.id # i
        /\ \A j \in 1..(i - 1) : \E c \in C : c.id = j

\* init_query_socket registers its socket at once, list_session in onopen.
OpenConn(C, kind, key) ==
    C \cup {[id |-> NewId(C), kind |-> kind, key |-> key, state |-> "connecting",
             tracked |-> kind = "query", interval |-> FALSE, mail |-> <<>>]}

\* close(): nothing arrives any more, and onclose runs later.
CloseConn(c) == [c EXCEPT !.state = "closing", !.mail = <<>>]

\* A closed socket without an interval has nothing left to do.
Used(C) == {c \in C : c.state # "closing" \/ c.interval}

\* Faulty variant: the timers stop, and the sockets stay.
ResetConnTimer(c) == IF c.kind = "query" THEN [c EXCEPT !.interval = FALSE] ELSE c

\* reset_timers_and_query_sockets: close_query_sockets closes what is in
\* active_query_sockets, remove_timers stops the intervals in "timers", which
\* are those of init_query_socket.
ResetConn(c) ==
    LET d == IF c.tracked THEN [CloseConn(c) EXCEPT !.tracked = FALSE] ELSE c
    IN  IF d.kind = "query" THEN [d EXCEPT !.interval = FALSE] ELSE d

ResetConns(C) == Used({ResetConn(c) : c \in C})

\* read_hashes(alone) for the URL h: the sockets afterwards, and the recordings
\* that were asked for.
WithLists(C, kind, alone) == IF alone THEN C ELSE OpenConn(C, kind, NoKey)

HashConns(C, h, alone) ==
    LET R == IF alone THEN C ELSE ResetConns(C)
    IN  CASE h.type = "live" -> WithLists(OpenConn(R, "play", h.key), "query", alone)
          [] h.type = "signed-viewer" /\ h.key # NoKey ->
                WithLists(OpenConn(R, "viewer-play", h.key), "viewer-list", alone)
          [] h.type = "signed-viewer" /\ h.key = NoKey -> WithLists(R, "viewer-list", alone)
          [] h.type = "signed-session" -> OpenConn(R, "viewer-play", NoKey)
          [] OTHER -> WithLists(R, "query", alone)

HashFetches(F, h) ==
    [k \in Keys |-> IF h.type = "replay" /\ h.key = k THEN F[k] + 1 ELSE F[k]]

ReadHashes(C, h, alone) ==
    /\ conns' = HashConns(C, h, alone)
    /\ fetches' = HashFetches(fetches, h)

\* document.ready: read_hashes for the URL that was opened.
Init ==
    /\ standalone \in BOOLEAN
    /\ hash \in Places
    /\ hashEvents = 0
    /\ conns = HashConns({}, hash, standalone)
    /\ fetches = HashFetches([k \in Keys |-> 0], hash)
    /\ oldList = FALSE
    /\ player = [from |-> "nothing", key |-> NoKey]
    /\ links = {} /\ oldLinks = {}
    /\ active \in SUBSET Keys /\ ended \in SUBSET (Keys \ active)
    /\ navs = 0

Replace(c, d) == Used((conns \ {c}) \cup {d})

-----------------------------------------------------------------------------
(* The user and the location. *)

\* The user follows a link or edits the URL; hashchange is delivered later.
Navigate(h) ==
    /\ navs < MaxNavs /\ h # hash
    /\ navs' = navs + 1
    /\ hash' = h
    /\ hashEvents' = hashEvents + 1
    /\ UNCHANGED <<standalone, conns, fetches, oldList, player, lists, server>>

HashChange ==
    /\ hashEvents > 0
    /\ hashEvents' = hashEvents - 1
    /\ ReadHashes(conns, hash, standalone)
    /\ UNCHANGED <<standalone, hash, oldList, player, lists, server, navs>>

-----------------------------------------------------------------------------
(* Events of the sockets. *)

\* A request, which the server answers with its sessions of that moment.
Ask(c) == [c EXCEPT !.mail = Append(@, [active |-> active,
                                        ended |-> IF c.kind \in {"query", "play"} THEN {}
                                                  ELSE ended])]

\* Faulty variant: a socket that polls is not registered.
ConnOpensUnregistered(c) ==
    /\ c.state = "connecting"
    /\ conns' = Replace(c, [Ask(c) EXCEPT !.state = "open",
                                          !.interval = c.kind \in {"query", "viewer-list"}])
    /\ oldList' = (oldList \/ c.kind = "query")
    /\ links' = {}
    /\ UNCHANGED <<standalone, hash, hashEvents, fetches, player, oldLinks, server, navs>>

\* socket.onopen: a first request, and an interval for the sockets that poll
\* (run_timer runs its function once).
ConnOpens(c) ==
    /\ c.state = "connecting"
    /\ conns' = Replace(c, [Ask(c) EXCEPT !.state = "open",
                                          !.interval = c.kind \in {"query", "viewer-list"},
                                          !.tracked = @ \/ c.kind = "viewer-list"])
    /\ oldList' = (oldList \/ c.kind = "query")
    /\ links' = {}
    /\ UNCHANGED <<standalone, hash, hashEvents, fetches, player, oldLinks, server, navs>>

\* Faulty variant: the list is cleared and not asked for.
TickSilent(c) ==
    /\ c.interval
    /\ links' = {}
    /\ UNCHANGED <<standalone, hash, hashEvents, conns, fetches, oldList, player, oldLinks,
                   server, navs>>

\* The interval's function.  A socket that is closing drops what is sent.
Tick(c) ==
    /\ c.interval /\ Len(c.mail) < MaxMail
    /\ conns' = Replace(c, IF c.state = "open" THEN Ask(c) ELSE c)
    /\ oldList' = (oldList \/ c.kind = "query")
    /\ links' = {}
    /\ UNCHANGED <<standalone, hash, hashEvents, fetches, player, oldLinks, server, navs>>

Delivered(c) == [c EXCEPT !.mail = Tail(@)]

\* add_link_to_list: a link that is on the page stays where it is.
NewLinks(to, S) == {[to |-> to, key |-> k] : k \in S} \ (links \cup oldLinks)

\* add_session_to_list (init_query_socket) and add_viewer_session_to_list.
ListArrives(c) ==
    /\ c.kind \in {"query", "viewer-list"} /\ c.state = "open" /\ c.mail # <<>>
    /\ conns' = Replace(c, Delivered(c))
    /\ LET data == Head(c.mail)
           to == IF c.kind = "query" THEN "live" ELSE "viewer"
       IN  /\ links' = links \cup NewLinks(to, data.active)
           /\ oldLinks' = oldLinks \cup NewLinks(to, data.ended)
    /\ UNCHANGED <<standalone, hash, hashEvents, fetches, oldList, player, server, navs>>

\* Faulty variants: the first element of an empty list is played; the socket that
\* asked for the list stays open.
PlayArrivesUnchecked(c) ==
    /\ c.kind \in {"play", "viewer-play"} /\ c.state = "open" /\ c.mail # <<>>
    /\ player' = [from |-> "socket", key |-> c.key]
    /\ conns' = Replace(c, CloseConn(Delivered(c)))
    /\ UNCHANGED <<standalone, hash, hashEvents, fetches, oldList, lists, server, navs>>

PlayArrivesStaysOpen(c) ==
    /\ c.kind \in {"play", "viewer-play"} /\ c.state = "open" /\ c.mail # <<>>
    /\ LET data == Head(c.mail).active \cup Head(c.mail).ended
       IN  \E k \in data :
             /\ c.key \in data => k = c.key
             /\ player' = [from |-> "socket", key |-> k]
    /\ conns' = Replace(c, Delivered(c))
    /\ UNCHANGED <<standalone, hash, hashEvents, fetches, oldList, lists, server, navs>>

\* list_session with auto_play_item: the session that was named, or else the
\* first of the list, which comes out of a map in any order.
PlayArrives(c) ==
    /\ c.kind \in {"play", "viewer-play"} /\ c.state = "open" /\ c.mail # <<>>
    /\ LET data == Head(c.mail).active \cup Head(c.mail).ended
       IN  \E k \in data :
             /\ c.key \in data => k = c.key
             /\ player' = [from |-> "socket", key |-> k]
    /\ conns' = Replace(c, CloseConn(Delivered(c)))
    /\ UNCHANGED <<standalone, hash, hashEvents, fetches, oldList, lists, server, navs>>

\* The same with an empty list: no active session, so the recording is tried,
\* by a change of the URL and a call of read_hashes - as if the page had lists,
\* also on the standalone page.
FallBack(c) ==
    /\ c.kind = "play" /\ c.state = "open" /\ c.mail # <<>>
    /\ Head(c.mail).active = {}
    /\ LET h == [type |-> "replay", key |-> c.key]
       IN  /\ hash' = h
           /\ hashEvents' = IF hash = h THEN hashEvents ELSE hashEvents + 1
           /\ ReadHashes(Replace(c, CloseConn(Delivered(c))), h, FALSE)
    /\ UNCHANGED <<standalone, oldList, player, lists, server, navs>>

\* A viewer without sessions: nothing happens, and the socket stays.
NothingToPlay(c) ==
    /\ c.kind = "viewer-play" /\ c.state = "open" /\ c.mail # <<>>
    /\ Head(c.mail).active \cup Head(c.mail).ended = {}
    /\ conns' = Replace(c, Delivered(c))
    /\ UNCHANGED <<standalone, hash, hashEvents, fetches, oldList, player, lists, server, navs>>

\* The connection fails or the server goes away.
ConnBreaks(c) ==
    /\ c.state # "closing"
    /\ conns' = Replace(c, CloseConn(c))
    /\ UNCHANGED <<standalone, hash, hashEvents, fetches, oldList, player, lists, server, navs>>

\* socket.onclose: close_and_remove_timer_from_list
ConnCloses(c) ==
    /\ c.state = "closing"
    /\ conns' = conns \ {c}
    /\ UNCHANGED <<standalone, hash, hashEvents, fetches, oldList, player, lists, server, navs>>

-----------------------------------------------------------------------------
(* Answers to HTTP requests, and the server's sessions. *)

\* replay_session_event_list
RecordingArrives(k) ==
    /\ fetches[k] > 0 /\ k \in ended
    /\ fetches' = [fetches EXCEPT ![k] = @ - 1]
    /\ player' = [from |-> "file", key |-> k]
    /\ UNCHANGED <<standalone, hash, hashEvents, conns, oldList, lists, server, navs>>

\* getJSON has no handler for errors.
FetchFails(k) ==
    /\ fetches[k] > 0
    /\ fetches' = [fetches EXCEPT ![k] = @ - 1]
    /\ UNCHANGED <<standalone, hash, hashEvents, conns, oldList, player, lists, server, navs>>

\* update_old_session_list, add_old_session_to_list
OldListArrives ==
    /\ oldList
    /\ oldList' = FALSE
    /\ oldLinks' = oldLinks \cup NewLinks("replay", ended)
    /\ UNCHANGED <<standalone, hash, hashEvents, conns, fetches, player, links, server, navs>>

SessionStarts(k) ==
    /\ k \notin active \cup ended
    /\ active' = active \cup {k}
    /\ UNCHANGED <<standalone, hash, hashEvents, conns, fetches, oldList, player, lists, ended, navs>>

SessionEnds(k) ==
    /\ k \in active
    /\ active' = active \ {k}
    /\ ended' = ended \cup {k}
    /\ UNCHANGED <<standalone, hash, hashEvents, conns, fetches, oldList, player, lists, navs>>

PlaySocketActs(c) == PlayArrives(c) \/ FallBack(c) \/ NothingToPlay(c)

Next ==
    \/ \E h \in Places : Navigate(h)
    \/ HashChange
    \/ \E c \in conns : \/ ConnOpens(c)
                        \/ Tick(c)
                        \/ ListArrives(c)
                        \/ PlaySocketActs(c)
                        \/ ConnBreaks(c)
                        \/ ConnCloses(c)
    \/ \E k \in Keys : \/ RecordingArrives(k)
                       \/ FetchFails(k)
                       \/ SessionStarts(k)
                       \/ SessionEnds(k)
    \/ OldListArrives

Spec == Init /\ [][Next]_vars

\* Events are delivered, intervals tick and the server answers.  There is one
\* query socket at a time (OneQuerySocket); of the other kinds finitely many are
\* opened.  Nothing is assumed of the user, of faults and of the sessions.
FairSpec ==
    /\ Spec
    /\ WF_vars(HashChange)
    /\ WF_vars(\E c \in conns : ConnOpens(c))
    /\ WF_vars(\E c \in conns : ConnCloses(c))
    /\ WF_vars(\E c \in conns : PlaySocketActs(c))
    /\ WF_vars(\E c \in conns : c.kind = "query" /\ Tick(c))
    /\ WF_vars(\E c \in conns : c.kind = "query" /\ ListArrives(c))

-----------------------------------------------------------------------------
\* Every interval that polls belongs to a socket that the next change of the URL
\* closes (or that is closed, and about to stop it): no poller can be forgotten,
\* although list_session registers its socket only when it opens
\* (lib.js:65-97, 325-372).
PollersTracked ==
    \A c \in conns : c.interval => c.tracked \/ c.state = "closing"

\* init_query_socket registers its socket before it opens, so at most one of
\* these sockets is in use, also when a list answer and a hashchange event both
\* run read_hashes (lib.js:96, 296-304, 350-372).
OneQuerySocket ==
    \A c, d \in conns :
        /\ c.kind = "query" /\ c.state # "closing"
        /\ d.kind = "query" /\ d.state # "closing"
        => c = d

\* A link to a live session is dealt with: the session is played, or its recording
\* is tried, or the connection has failed.  The fall back changes the URL and runs
\* read_hashes twice, once directly and once for the hashchange event, and neither
\* leads back to where it came from (lib.js:278-306, 382-395).
AutoPlayEnds ==
    (\E c \in conns : c.kind = "play") ~> (\A c \in conns : c.kind # "play")

\* A session that goes on is found by the list: polling, answers that are out of
\* date and the clearing of the list at every poll notwithstanding, the link of
\* an active session is displayed as long as a query socket is open
\* (lib.js:84-97, 430-473, 509-545).
ActiveIsListed ==
    \A k \in Keys :
        (k \in active /\ \E c \in conns : c.kind = "query" /\ c.state = "open")
            ~> (\/ [to |-> "live", key |-> k] \in links
                \/ k \notin active
                \/ ~\E c \in conns : c.kind = "query" /\ c.state = "open")
=============================================================================
