-------------------------- MODULE SessionViewProofs --------------------------
(***************************************************************************)
(* Theorems about SessionView and the player it drives: what the screen    *)
(* shows, that a player with something to do has a timer, and that a live  *)
(* session's messages are answered.                                        *)
(***************************************************************************)
EXTENDS SessionView, NatProofs

\* The terminal shows the events up to n, the keystroke pane the last of them.
ShowsUpTo(r, n) ==
    /\ Len(r.terminal) = n
    /\ \A k \in 1..n : r.terminal[k] = r.events[k].id
    /\ Len(r.keystrokes) <= n
    /\ \A k \in 1..Len(r.keystrokes) :
          r.keystrokes[k] = r.events[n - Len(r.keystrokes) + k].id

\* The events are recorded events, some of them without their type; no window-resize
\* keeps its type at or before the event shown last, nor before one that lost its type.
EventsOK(r) ==
    /\ \A k \in 1..Len(r.events) :
          \E f \in FeedEvents : r.events[k].id = f.id /\ r.events[k].type \in {f.type, Acted(f).type}
    /\ \A k \in 1..r.index : r.events[k].type # "window-resize"
    /\ \A j, k \in 1..Len(r.events) :
          j < k /\ r.events[k].type = "none" => r.events[j].type # "window-resize"

Done(r) ==
    {k \in 1..Len(r.events) :
        r.events[k].type = "none" /\ RecordedType(r.events[k].id) = "window-resize"}

SizeOK(r) ==
    r.size \in {Dragged, IF Done(r) = {} \/ IgnoreResize THEN InitialSize
                         ELSE r.events[Max(Done(r))].id}

\* What a player is like between two handlers, whatever it displays.
PlayerOK(r) ==
    /\ r \in Reader /\ r.index <= Len(r.events) /\ r.buffer = <<>>
    /\ ShowsUpTo(r, r.index)
    /\ EventsOK(r)
    /\ SizeOK(r)

\* A player that has something to do has a timer.
TimerOK(r) ==
    ~r.paused /\ (r.index < Len(r.events) \/ (~Live(r) /\ Len(r.events) > 0)) => r.timers > 0

\* There is one socket at most.  While the session is displayed as live it is that
\* of a live session; an open socket of another session has a player that is paused
\* or has a timer; an unanswered message is one of a live session that is no longer
\* displayed.
SocketsOK ==
    /\ sockets \subseteq Socket
    /\ \A k, l \in sockets : k = l
    /\ \A k \in sockets :
          /\ k.state = "connecting" => k.got = 0 /\ k.acked = 0
          /\ Live(reader) => k.active
          /\ k.state = "open" /\ ~k.active => reader.paused \/ reader.timers > 0
          /\ k.acked # k.got => k.active /\ ~Live(reader)

ViewInv ==
    /\ PlayerOK(reader) /\ TimerOK(reader) /\ SocketsOK
    /\ fetches \subseteq Sessions /\ lost \in BOOLEAN /\ selections \in 0..MaxSelections

-----------------------------------------------------------------------------
(* Recorded events *)

\* The greatest of some positions.
LEMMA MaxIn ==
    ASSUME NEW n \in Nat, NEW S \in SUBSET (1..n), S # {}
    PROVE  Max(S) \in S /\ Max(S) \in 1..n /\ \A k \in S : k <= Max(S)
  <1>1. S \in SUBSET Nat /\ \A k \in S : k <= n
    OBVIOUS
  <1>2. PICK m \in S : \A k \in S : k <= m
    BY <1>1, GreatestExists
  <1>3. \A k \in S : m >= k
    BY <1>1, <1>2
  <1>4. Max(S) \in S /\ \A k \in S : Max(S) >= k
    BY <1>3 DEF Max
  <1> QED BY <1>1, <1>4

\* The type an event was recorded with.
LEMMA RecordedTypes ==
    ASSUME FeedAssumption, NEW f \in FeedEvents
    PROVE  RecordedType(f.id) = f.type /\ f.type # "none" /\ f \in TerminalEvent
  <1>1. PICK s \in Sessions : \E k \in 1..Len(Feed[s]) : f = Feed[s][k]
    BY DEF FeedEvents
  <1>2. PICK k \in 1..Len(Feed[s]) : f = Feed[s][k]
    BY <1>1
  <1>3. f \in TerminalEvent
    <2>1. Feed[s] \in Seq(TerminalEvent)
      BY DEF FeedAssumption
    <2> QED BY <1>2, <2>1, ElementOfSeq
  <1>4. (CHOOSE e \in FeedEvents : e.id = f.id) = f
    BY DEF FeedAssumption
  <1> QED BY <1>3, <1>4 DEF RecordedType, FeedAssumption

\* The types of the fields of a player.
LEMMA ReaderFields ==
    ASSUME NEW r \in Reader
    PROVE  /\ r.paused \in BOOLEAN /\ r.feed \in {"live", "old"} /\ r.events \in Seq(TerminalEvent)
           /\ r.index \in Nat /\ r.timers \in Nat /\ r.button \in {"play", "pause"}
           /\ r.buffer \in Seq(EventIds) /\ r.terminal \in Seq(EventIds)
           /\ r.keystrokes \in Seq(EventIds) /\ r.size \in EventIds \cup {InitialSize, Dragged}
           /\ Len(r.events) \in Nat /\ Len(r.terminal) \in Nat /\ Len(r.keystrokes) \in Nat
           /\ \A k \in 1..Len(r.events) : r.events[k] \in TerminalEvent
  <1>1. /\ r.paused \in BOOLEAN /\ r.feed \in {"live", "old"} /\ r.events \in Seq(TerminalEvent)
        /\ r.index \in Nat /\ r.timers \in Nat /\ r.button \in {"play", "pause"}
        /\ r.buffer \in Seq(EventIds) /\ r.terminal \in Seq(EventIds)
        /\ r.keystrokes \in Seq(EventIds) /\ r.size \in EventIds \cup {InitialSize, Dragged}
    BY DEF Reader
  <1>2. Len(r.events) \in Nat /\ Len(r.terminal) \in Nat /\ Len(r.keystrokes) \in Nat
    BY <1>1
  <1>3. \A k \in 1..Len(r.events) : r.events[k] \in TerminalEvent
    BY <1>1, ElementOfSeq
  <1> QED BY <1>1, <1>2, <1>3

\* The events that action_event has acted on.
LEMMA ActedTypes ==
    ASSUME NEW e \in TerminalEvent
    PROVE  /\ Acted(e) \in TerminalEvent /\ Acted(e).id = e.id
           /\ Acted(e).type # "window-resize"
           /\ e.type \notin {"session-start", "window-resize"} => Acted(e).type = e.type
           /\ e.type \in {"session-start", "window-resize"} => Acted(e).type = "none"
           /\ Acted(Acted(e)).type = Acted(e).type
  BY DEF Acted, DeletesType, TerminalEvent, EventTypes

\* The events among lo..hi that still resize the terminal, and their texts.
Resizes(r, lo, hi) == {k \in lo..hi : r.events[k].type = "window-resize"}
Texts(r, lo, hi) == [k \in 1..(hi - lo + 1) |-> r.events[lo + k - 1].id]

\* What action_event does to the player for the events lo..hi.
LEMMA ActFacts ==
    ASSUME NEW r \in Reader, NEW lo \in Nat \ {0}, NEW hi \in Nat, lo <= hi, hi <= Len(r.events)
    PROVE  LET a == ActionEvents(r, lo, hi)
           IN  /\ a \in Reader
               /\ a.paused = r.paused /\ a.feed = r.feed /\ a.index = r.index /\ a.timers = r.timers
               /\ a.terminal = r.terminal /\ a.keystrokes = r.keystrokes
               /\ a.buffer = r.buffer \o Texts(r, lo, hi) /\ Texts(r, lo, hi) \in Seq(EventIds)
               /\ Len(a.events) = Len(r.events)
               /\ \A k \in 1..Len(r.events) :
                     a.events[k] = IF k \in lo..hi THEN Acted(r.events[k]) ELSE r.events[k]
               /\ a.size = IF Resizes(r, lo, hi) = {} \/ IgnoreResize THEN r.size
                           ELSE r.events[Max(Resizes(r, lo, hi))].id
  <1> DEFINE a == ActionEvents(r, lo, hi)
             S == Resizes(r, lo, hi)
             texts == Texts(r, lo, hi)
             evs == [k \in 1..Len(r.events) |->
                        IF k \in lo..hi THEN Acted(r.events[k]) ELSE r.events[k]]
             q == [r EXCEPT !.buffer = @ \o texts, !.events = evs]
  <1>1. \A k \in 1..(hi - lo + 1) : lo + k - 1 \in 1..Len(r.events)
    BY ReaderFields
  <1>2. texts \in Seq(EventIds)
    <2>1. texts \in [1..(hi - lo + 1) -> EventIds] /\ hi - lo + 1 \in Nat
      BY <1>1, ReaderFields DEF TerminalEvent, Texts
    <2> QED BY <2>1
  <1>3. evs \in Seq(TerminalEvent) /\ Len(evs) = Len(r.events)
    <2>1. evs \in [1..Len(r.events) -> TerminalEvent] /\ Len(r.events) \in Nat
      BY ReaderFields, ActedTypes
    <2> QED BY <2>1
  <1>4. r.buffer \o texts \in Seq(EventIds)
    BY <1>2, ReaderFields
  <1>5. a = IF S = {} THEN q ELSE Resize(q, r.events[Max(S)].id)
    BY DEF ActionEvents, Resizes, Texts
  <1>6. S # {} => r.events[Max(S)].id \in EventIds
    <2>1. S \in SUBSET (1..Len(r.events)) /\ Len(r.events) \in Nat
      BY ReaderFields DEF Resizes
    <2>2. S # {} => Max(S) \in 1..Len(r.events)
      <3> HIDE DEF S
      <3> QED BY <2>1, MaxIn
    <2> QED BY <2>2, ReaderFields DEF TerminalEvent
  <1> HIDE DEF a, texts, evs, S
  <1>7. /\ q \in Reader
        /\ q.paused = r.paused /\ q.feed = r.feed /\ q.index = r.index /\ q.timers = r.timers
        /\ q.terminal = r.terminal /\ q.keystrokes = r.keystrokes /\ q.size = r.size
        /\ q.buffer = r.buffer \o texts /\ q.events = evs
    BY <1>3, <1>4 DEF Reader
  <1> HIDE DEF q
  <1>8. /\ a \in Reader
        /\ a.paused = q.paused /\ a.feed = q.feed /\ a.index = q.index /\ a.timers = q.timers
        /\ a.terminal = q.terminal /\ a.keystrokes = q.keystrokes
        /\ a.buffer = q.buffer /\ a.events = q.events
        /\ a.size = IF S = {} \/ IgnoreResize THEN q.size ELSE r.events[Max(S)].id
    BY <1>5, <1>6, <1>7 DEF Resize, ResizeByPixels, Reader
  <1>9. \A k \in 1..Len(r.events) :
            evs[k] = IF k \in lo..hi THEN Acted(r.events[k]) ELSE r.events[k]
    BY DEF evs
  <1> QED BY <1>2, <1>3, <1>7, <1>8, <1>9 DEF a, texts, S

\* What an event still has to do says how it was recorded.
LEMMA ResizeRecorded ==
    ASSUME FeedAssumption, NEW e \in TerminalEvent, NEW f \in FeedEvents,
           e.id = f.id, e.type \in {f.type, Acted(f).type}
    PROVE  /\ e.type = "window-resize" => RecordedType(e.id) = "window-resize"
           /\ Acted(e).type = "none" /\ RecordedType(e.id) = "window-resize"
                => e.type = "none" \/ e.type = "window-resize"
           /\ Acted(e).type \in {f.type, Acted(f).type}
  <1>1. RecordedType(e.id) = f.type /\ f.type # "none" /\ f \in TerminalEvent
    BY RecordedTypes
  <1> QED BY <1>1, ActedTypes DEF Acted, DeletesType

\* Acting on the events lo..hi leaves the others alone, and every window-resize
\* among them lies behind those that were reached before.
LEMMA ActKeeps ==
    ASSUME FeedAssumption, NEW r \in Reader, EventsOK(r), SizeOK(r), r.index <= Len(r.events),
           NEW lo \in Nat \ {0}, NEW hi \in Nat, lo <= hi, hi <= Len(r.events),
           lo = 1 \/ lo = r.index + 1, NEW a, a = ActionEvents(r, lo, hi)
    PROVE  /\ EventsOK(a) /\ SizeOK(a)
           /\ \A k \in 1..hi : a.events[k].type # "window-resize"
           /\ \A k \in 1..Len(r.events) : a.events[k].id = r.events[k].id
  <1> DEFINE n == Len(r.events)
             S == Resizes(r, lo, hi)
  <1>1. /\ a \in Reader /\ a.index = r.index /\ Len(a.events) = n
        /\ \A k \in 1..n : a.events[k] = IF k \in lo..hi THEN Acted(r.events[k]) ELSE r.events[k]
        /\ a.size = IF S = {} \/ IgnoreResize THEN r.size ELSE r.events[Max(S)].id
    BY ActFacts
  <1>2. /\ n \in Nat /\ r.index \in Nat /\ lo..hi \subseteq 1..n
        /\ \A k \in 1..n : r.events[k] \in TerminalEvent
    BY ReaderFields
  <1>3. \A k \in 1..n : a.events[k].id = r.events[k].id
    BY <1>1, <1>2, ActedTypes
  <1>4. \A k \in 1..n : a.events[k].type = "window-resize" =>
             r.events[k].type = "window-resize" /\ k \notin lo..hi
    BY <1>1, <1>2, ActedTypes
  <1>5. ASSUME NEW k \in 1..hi PROVE a.events[k].type # "window-resize"
    <2>1. CASE k \in lo..hi
      BY <1>2, <1>4, <2>1
    <2>2. CASE k \notin lo..hi
      BY <1>2, <1>4, <2>2 DEF EventsOK
    <2> QED BY <2>1, <2>2
  <1>6. ASSUME NEW k \in 1..n
        PROVE  \E f \in FeedEvents : /\ a.events[k].id = f.id
                                      /\ a.events[k].type \in {f.type, Acted(f).type}
    <2>1. PICK f \in FeedEvents : r.events[k].id = f.id /\ r.events[k].type \in {f.type, Acted(f).type}
      BY DEF EventsOK
    <2>2. Acted(r.events[k]).type \in {f.type, Acted(f).type}
      BY <1>2, <2>1, ResizeRecorded
    <2> QED BY <1>1, <1>3, <2>1, <2>2
  <1>7. \A k \in 1..a.index : a.events[k].type # "window-resize"
    BY <1>1, <1>2, <1>4 DEF EventsOK
  <1>8. ASSUME NEW j \in 1..n, NEW k \in 1..n, j < k, a.events[k].type = "none"
        PROVE  a.events[j].type # "window-resize"
    <2>1. CASE k <= hi
      BY <1>5, <1>8, <2>1
    <2>2. CASE ~(k <= hi)
      <3>1. k \notin lo..hi /\ r.events[k].type = "none"
        BY <1>1, <1>8, <2>2
      <3> QED BY <1>4, <1>8, <3>1 DEF EventsOK
    <2> QED BY <2>1, <2>2
  <1>9. EventsOK(a)
    BY <1>1, <1>6, <1>7, <1>8 DEF EventsOK
  <1>10. \A k \in 1..n : k \in Done(a) <=> k \in Done(r) \/ k \in S
    <2> SUFFICES ASSUME NEW k \in 1..n PROVE k \in Done(a) <=> k \in Done(r) \/ k \in S
      OBVIOUS
    <2>1. PICK f \in FeedEvents : r.events[k].id = f.id /\ r.events[k].type \in {f.type, Acted(f).type}
      BY DEF EventsOK
    <2>2. /\ r.events[k].type = "window-resize" => RecordedType(r.events[k].id) = "window-resize"
          /\ Acted(r.events[k]).type = "none" /\ RecordedType(r.events[k].id) = "window-resize"
                => r.events[k].type = "none" \/ r.events[k].type = "window-resize"
      BY <1>2, <2>1, ResizeRecorded
    <2>3. /\ k \in Done(a) <=> a.events[k].type = "none" /\ RecordedType(r.events[k].id) = "window-resize"
          /\ k \in Done(r) <=> r.events[k].type = "none" /\ RecordedType(r.events[k].id) = "window-resize"
      BY <1>1, <1>3 DEF Done
    <2>4. CASE k \in lo..hi
      <3>1. /\ r.events[k].type = "window-resize" => a.events[k].type = "none"
            /\ r.events[k].type = "none" => a.events[k].type = "none"
            /\ a.events[k].type = Acted(r.events[k]).type
        BY <1>1, <1>2, <2>4, ActedTypes
      <3> QED BY <2>2, <2>3, <2>4, <3>1 DEF Resizes
    <2>5. CASE k \notin lo..hi
      BY <1>1, <2>3, <2>5 DEF Resizes
    <2> QED BY <2>4, <2>5
  <1>11. Done(a) = Done(r) \cup S
    <2>1. Done(a) \subseteq 1..n /\ Done(r) \subseteq 1..n /\ S \subseteq 1..n
      BY <1>1, <1>2 DEF Done, Resizes
    <2> HIDE DEF S
    <2> QED BY <1>10, <2>1
  <1>12. \A d \in Done(r), k \in S : d < k
    <2> SUFFICES ASSUME NEW d \in Done(r), NEW k \in S PROVE d < k
      OBVIOUS
    <2>1. d \in 1..n /\ k \in 1..n /\ r.events[d].type = "none" /\ r.events[k].type = "window-resize"
      BY <1>2 DEF Done, Resizes
    <2>2. ~(k < d) /\ k # d
      BY <2>1 DEF EventsOK
    <2> QED BY <1>2, <2>1, <2>2
  <1>13. SizeOK(a)
    <2>1. Done(r) \in SUBSET (1..n) /\ S \in SUBSET (1..n)
      BY <1>2 DEF Done, Resizes
    <2> HIDE DEF S, n
    <2>2. CASE IgnoreResize
      BY <1>1, <2>2 DEF SizeOK
    <2>3. CASE ~IgnoreResize /\ S = {}
      <3>1. Done(r) # {} => Max(Done(r)) \in 1..n
        BY <1>2, <2>1, MaxIn
      <3>2. Done(a) = Done(r) /\ a.size = r.size
        BY <1>1, <1>11, <2>3
      <3> QED BY <1>3, <2>3, <3>1, <3>2 DEF SizeOK
    <2>4. CASE ~IgnoreResize /\ S # {}
      <3>1. Max(S) \in S /\ Max(S) \in 1..n /\ \A k \in S : k <= Max(S)
        BY <1>2, <2>1, <2>4, MaxIn
      <3>2. Done(a) \in SUBSET (1..n) /\ Done(a) # {}
        BY <1>11, <2>1, <2>4
      <3>3. Max(Done(a)) \in Done(a) /\ Max(Done(a)) \in 1..n /\ \A k \in Done(a) : k <= Max(Done(a))
        BY <1>2, <3>2, MaxIn
      <3>4. Max(S) <= Max(Done(a))
        BY <1>11, <3>1, <3>3
      <3>5. Max(Done(a)) \in S
        <4>1. Max(Done(a)) \in Done(r) => Max(Done(a)) < Max(S)
          BY <1>12, <3>1
        <4> QED BY <1>2, <1>11, <3>1, <3>3, <3>4, <4>1
      <3>6. Max(Done(a)) = Max(S)
        BY <1>2, <3>1, <3>3, <3>4, <3>5
      <3>7. a.size = a.events[Max(Done(a))].id
        BY <1>1, <1>3, <2>4, <3>1, <3>6
      <3> QED BY <3>2, <3>7, <2>4 DEF SizeOK
    <2> QED BY <2>2, <2>3, <2>4
  <1> QED BY <1>3, <1>5, <1>9, <1>13

-----------------------------------------------------------------------------
(* Writing to the screen *)

\* Two sequences, one behind the other.
LEMMA ConcatForms ==
    ASSUME NEW s \in Seq(EventIds), NEW t \in Seq(EventIds)
    PROVE  /\ s \o t \in Seq(EventIds) /\ Len(s \o t) = Len(s) + Len(t)
           /\ \A k \in 1..Len(s) : (s \o t)[k] = s[k]
           /\ \A k \in 1..Len(t) : (s \o t)[Len(s) + k] = t[k]
  OBVIOUS

\* A position is one of the first m, or of the next n.
LEMMA Position ==
    ASSUME NEW m \in Nat, NEW n \in Nat, NEW k \in 1..(m + n)
    PROVE  k \in 1..m \/ \E j \in 1..n : k = m + j
  <1>1. CASE k <= m
    BY <1>1
  <1>2. CASE ~(k <= m)
    <2>1. k - m \in 1..n /\ k = m + (k - m)
      BY <1>2
    <2> QED BY <2>1
  <1> QED BY <1>1, <1>2

\* The texts of lo..hi behind those up to lo - 1.
LEMMA WriteShows ==
    ASSUME NEW r \in Reader, NEW lo \in Nat \ {0}, NEW hi \in Nat, lo <= hi, hi <= Len(r.events),
           ShowsUpTo(r, lo - 1), NEW w,
           \A k \in 1..Len(r.events) : w.events[k].id = r.events[k].id,
           w.terminal = r.terminal \o Texts(r, lo, hi),
           w.keystrokes = r.keystrokes \o Texts(r, lo, hi)
    PROVE  ShowsUpTo(w, hi)
  <1> DEFINE m == Len(r.keystrokes)
             t == Texts(r, lo, hi)
             n == hi - lo + 1
             l == lo - 1
  <1>1. /\ n \in Nat /\ l \in Nat /\ l + n = hi /\ m \in Nat /\ m <= l
        /\ \A k \in 1..l : k \in 1..Len(r.events)
        /\ \A k \in 1..n : l + k \in 1..Len(r.events)
    <2>1. Len(r.events) \in Nat /\ m \in Nat /\ m <= l
      BY ReaderFields DEF ShowsUpTo
    <2>2. n \in Nat /\ l \in Nat /\ l + n = hi
      OBVIOUS
    <2> HIDE DEF n, l, m
    <2> QED BY <2>1, <2>2
  <1>2. t \in Seq(EventIds) /\ Len(t) = n /\ \A k \in 1..n : t[k] = r.events[l + k].id
    <2>1. t \in Seq(EventIds)
      BY ActFacts
    <2>2. \A k \in 1..n : lo + k - 1 = l + k
      OBVIOUS
    <2> QED BY <1>1, <2>1, <2>2 DEF Texts
  <1>3. /\ r.terminal \in Seq(EventIds) /\ r.keystrokes \in Seq(EventIds) /\ Len(r.terminal) = l
        /\ \A k \in 1..l : r.terminal[k] = r.events[k].id
        /\ \A k \in 1..m : r.keystrokes[k] = r.events[l - m + k].id
    BY ReaderFields DEF ShowsUpTo
  <1>4. w.terminal = r.terminal \o t /\ w.keystrokes = r.keystrokes \o t
    OBVIOUS
  <1> HIDE DEF t, n, l, m
  <1>5. /\ Len(w.terminal) = l + n
        /\ \A k \in 1..l : w.terminal[k] = r.terminal[k]
        /\ \A k \in 1..n : w.terminal[l + k] = t[k]
    <2>1. /\ Len(r.terminal \o t) = l + n
          /\ \A k \in 1..l : (r.terminal \o t)[k] = r.terminal[k]
          /\ \A k \in 1..n : (r.terminal \o t)[l + k] = t[k]
      BY <1>2, <1>3, ConcatForms
    <2> QED BY <1>4, <2>1
  <1>6. /\ Len(w.keystrokes) = m + n
        /\ \A k \in 1..m : w.keystrokes[k] = r.keystrokes[k]
        /\ \A k \in 1..n : w.keystrokes[m + k] = t[k]
    <2>1. Len(r.keystrokes) = m
      BY DEF m
    <2>2. /\ Len(r.keystrokes \o t) = m + n
          /\ \A k \in 1..m : (r.keystrokes \o t)[k] = r.keystrokes[k]
          /\ \A k \in 1..n : (r.keystrokes \o t)[m + k] = t[k]
      BY <1>2, <1>3, <2>1, ConcatForms
    <2> QED BY <1>4, <2>2
  <1>7. ASSUME NEW k \in 1..(l + n) PROVE w.terminal[k] = w.events[k].id
    <2>1. CASE k \in 1..l
      BY <1>1, <1>3, <1>5, <2>1
    <2>2. CASE \E j \in 1..n : k = l + j
      <3>1. PICK j \in 1..n : k = l + j
        BY <2>2
      <3>2. w.events[l + j].id = r.events[l + j].id
        BY <1>1, <3>1
      <3> QED BY <1>2, <1>5, <3>1, <3>2
    <2>3. k \in 1..l \/ \E j \in 1..n : k = l + j
      BY <1>1, Position
    <2> QED BY <2>1, <2>2, <2>3
  <1>8. ASSUME NEW k \in 1..(m + n)
        PROVE  w.keystrokes[k] = w.events[(l + n) - (m + n) + k].id
    <2>1. CASE k \in 1..m
      <3>1. l - m + k \in 1..l /\ (l + n) - (m + n) + k = l - m + k
        BY <1>1, <2>1
      <3> QED BY <1>1, <1>3, <1>6, <2>1, <3>1
    <2>2. CASE \E j \in 1..n : k = m + j
      <3>1. PICK j \in 1..n : k = m + j
        BY <2>2
      <3>2. (l + n) - (m + n) + k = l + j
        BY <1>1, <3>1
      <3>3. w.events[l + j].id = r.events[l + j].id
        BY <1>1, <3>1
      <3> QED BY <1>2, <1>6, <3>1, <3>2, <3>3
    <2>3. k \in 1..m \/ \E j \in 1..n : k = m + j
      BY <1>1, Position
    <2> QED BY <2>1, <2>2, <2>3
  <1>9. m + n <= l + n /\ l + n = hi
    BY <1>1
  <1> QED BY <1>5, <1>6, <1>7, <1>8, <1>9 DEF ShowsUpTo

\* A player whose screen and position do not change stays good.
LEMMA PlayerFrame ==
    ASSUME NEW r, PlayerOK(r), NEW q \in Reader, q.events = r.events, q.index = r.index,
           q.buffer = r.buffer, q.terminal = r.terminal, q.keystrokes = r.keystrokes, q.size = r.size
    PROVE  PlayerOK(q)
  <1>1. Done(q) = Done(r)
    BY DEF Done
  <1>2. EventsOK(q) /\ SizeOK(q)
    BY <1>1 DEF PlayerOK, EventsOK, SizeOK
  <1>3. ShowsUpTo(q, q.index)
    BY DEF PlayerOK, ShowsUpTo
  <1> QED BY <1>2, <1>3 DEF PlayerOK

\* The events lo..hi are shown: process_next_event, next and move_to_event.
LEMMA ShowKeeps ==
    ASSUME FeedAssumption, NEW r \in Reader, r.buffer = <<>>, EventsOK(r), SizeOK(r),
           r.index <= Len(r.events), NEW lo \in Nat \ {0}, NEW hi \in Nat, lo <= hi,
           hi <= Len(r.events), lo = 1 \/ lo = r.index + 1, ShowsUpTo(r, lo - 1)
    PROVE  LET w == [WriteBuffers(ActionEvents(r, lo, hi)) EXCEPT !.index = hi]
           IN  /\ PlayerOK(w)
               /\ w.paused = r.paused /\ w.feed = r.feed /\ w.timers = r.timers /\ w.index = hi
               /\ Len(w.events) = Len(r.events)
  <1> DEFINE a == ActionEvents(r, lo, hi)
             t == Texts(r, lo, hi)
             w == [WriteBuffers(a) EXCEPT !.index = hi]
  <1>1. /\ a \in Reader
        /\ a.paused = r.paused /\ a.feed = r.feed /\ a.timers = r.timers
        /\ a.terminal = r.terminal /\ a.keystrokes = r.keystrokes
        /\ a.buffer = r.buffer \o t /\ t \in Seq(EventIds) /\ Len(a.events) = Len(r.events)
    <2>1. /\ a \in Reader
          /\ a.paused = r.paused /\ a.feed = r.feed /\ a.timers = r.timers
          /\ a.terminal = r.terminal /\ a.keystrokes = r.keystrokes /\ Len(a.events) = Len(r.events)
      BY ActFacts DEF a
    <2>2. a.buffer = r.buffer \o t /\ t \in Seq(EventIds)
      BY ActFacts DEF a, t
    <2> QED BY <2>1, <2>2
  <1>2. /\ EventsOK(a) /\ SizeOK(a)
        /\ \A k \in 1..hi : a.events[k].type # "window-resize"
        /\ \A k \in 1..Len(r.events) : a.events[k].id = r.events[k].id
    BY ActKeeps
  <1> HIDE DEF a, t
  <1>3. a.buffer = t
    BY <1>1, EmptySeq, ConcatEmptySeq
  <1>4. /\ r.terminal \o t \in Seq(EventIds) /\ r.keystrokes \o t \in Seq(EventIds)
        /\ <<>> \in Seq(EventIds)
    BY <1>1, ReaderFields, EmptySeq
  <1>5. /\ w \in Reader
        /\ w.paused = r.paused /\ w.feed = r.feed /\ w.timers = r.timers /\ w.index = hi
        /\ w.events = a.events /\ w.size = a.size /\ w.buffer = <<>>
        /\ w.terminal = r.terminal \o t /\ w.keystrokes = r.keystrokes \o t
    BY <1>1, <1>3, <1>4 DEF WriteBuffers, WriteTerminalBuffer, WriteKeystrokeBuffer, Reader
  <1> HIDE DEF w
  <1>6. ShowsUpTo(w, hi)
    <2>1. /\ \A k \in 1..Len(r.events) : w.events[k].id = r.events[k].id
          /\ w.terminal = r.terminal \o Texts(r, lo, hi)
          /\ w.keystrokes = r.keystrokes \o Texts(r, lo, hi)
      BY <1>2, <1>5 DEF t
    <2> QED BY <2>1, WriteShows
  <1>7. EventsOK(w)
    BY <1>2, <1>5 DEF EventsOK
  <1>8. Done(w) = Done(a)
    BY <1>5 DEF Done
  <1>9. SizeOK(w)
    BY <1>2, <1>5, <1>8 DEF SizeOK
  <1>10. PlayerOK(w) /\ Len(w.events) = Len(r.events)
    BY <1>1, <1>5, <1>6, <1>7, <1>9 DEF PlayerOK
  <1> QED BY <1>5, <1>10 DEF w, a

-----------------------------------------------------------------------------
(* The methods of the player *)

\* Pausing, playing and the mode do not touch the screen.
LEMMA ModeKeeps ==
    ASSUME NEW r, PlayerOK(r)
    PROVE  /\ PlayerOK(Pause(r)) /\ Pause(r).paused /\ Pause(r).feed = r.feed
           /\ PlayerOK(Play(r)) /\ ~Play(r).paused /\ Play(r).timers > 0 /\ Play(r).feed = r.feed
           /\ PlayerOK(SetSessionModeLive(r)) /\ Live(SetSessionModeLive(r))
           /\ TimerOK(r) => TimerOK(SetSessionModeLive(r))
           /\ PlayerOK(SetSessionModeDisconnected(r)) /\ ~Live(SetSessionModeDisconnected(r))
           /\ SetSessionModeDisconnected(r).timers = r.timers
           /\ SetSessionModeDisconnected(r).paused = r.paused
  <1>0. r \in Reader /\ r.timers \in Nat
    BY ReaderFields DEF PlayerOK
  <1> DEFINE Same(q) == /\ q.events = r.events /\ q.index = r.index /\ q.buffer = r.buffer
                        /\ q.terminal = r.terminal /\ q.keystrokes = r.keystrokes /\ q.size = r.size
  <1>1. /\ Pause(r) \in Reader /\ Same(Pause(r)) /\ Pause(r).paused /\ Pause(r).feed = r.feed
    BY <1>0 DEF Pause, ResetTimeout, ShowPlay, Reader
  <1>2. /\ Play(r) \in Reader /\ Same(Play(r)) /\ ~Play(r).paused /\ Play(r).feed = r.feed
        /\ Play(r).timers > 0
    <2> DEFINE q == [ShowPause(r) EXCEPT !.paused = FALSE]
    <2>1. q \in Reader /\ Same(q) /\ ~q.paused /\ q.feed = r.feed /\ q.timers = r.timers
      BY <1>0 DEF ShowPause, Reader
    <2>2. Play(r) = [q EXCEPT !.timers = @ + 1]
      BY DEF Play, ResumeWithNewDelay, StartTimerForNextEvent
    <2> HIDE DEF q
    <2>3. Play(r).timers = r.timers + 1
      BY <2>1, <2>2 DEF Reader
    <2>4. r.timers + 1 \in Nat /\ r.timers + 1 > 0
      BY <1>0
    <2>5. Play(r) \in Reader
      <3>1. q.timers + 1 \in Nat
        BY <2>1, <2>4
      <3> QED BY <2>1, <2>2, <3>1 DEF Reader
    <2>6. Same(Play(r)) /\ ~Play(r).paused /\ Play(r).feed = r.feed
      <3>1. /\ Play(r).events = q.events /\ Play(r).index = q.index
            /\ Play(r).buffer = q.buffer /\ Play(r).terminal = q.terminal
            /\ Play(r).keystrokes = q.keystrokes /\ Play(r).size = q.size
            /\ Play(r).paused = q.paused /\ Play(r).feed = q.feed
        BY <2>1, <2>2 DEF Reader
      <3> QED BY <2>1, <3>1
    <2> QED BY <2>3, <2>4, <2>5, <2>6
  <1>3. /\ SetSessionModeLive(r) \in Reader /\ Same(SetSessionModeLive(r))
        /\ Live(SetSessionModeLive(r)) /\ SetSessionModeLive(r).paused = r.paused
        /\ SetSessionModeLive(r).timers = r.timers
    BY <1>0 DEF SetSessionModeLive, Reader, Live
  <1>4. /\ SetSessionModeDisconnected(r) \in Reader /\ Same(SetSessionModeDisconnected(r))
        /\ ~Live(SetSessionModeDisconnected(r))
        /\ SetSessionModeDisconnected(r).timers = r.timers
        /\ SetSessionModeDisconnected(r).paused = r.paused
    BY <1>0 DEF SetSessionModeDisconnected, Reader, Live
  <1>5. /\ PlayerOK(Pause(r)) /\ PlayerOK(Play(r))
        /\ PlayerOK(SetSessionModeLive(r)) /\ PlayerOK(SetSessionModeDisconnected(r))
    BY <1>1, <1>2, <1>3, <1>4, PlayerFrame
  <1>6. TimerOK(r) => TimerOK(SetSessionModeLive(r))
    BY <1>3 DEF TimerOK
  <1> QED BY <1>1, <1>2, <1>3, <1>4, <1>5, <1>6

\* A player without events is good.
LEMMA EmptyPlayer ==
    ASSUME NEW q \in Reader, q.events = <<>>, q.index = 0, q.buffer = <<>>, q.terminal = <<>>,
           q.keystrokes = <<>>, q.size = InitialSize \/ q.size = Dragged
    PROVE  PlayerOK(q) /\ TimerOK(q)
  <1>1. Len(q.events) = 0 /\ Len(q.terminal) = 0 /\ Len(q.keystrokes) = 0 /\ 1..0 = {}
    OBVIOUS
  <1>2. Done(q) = {}
    BY <1>1 DEF Done
  <1>3. EventsOK(q) /\ ShowsUpTo(q, q.index) /\ SizeOK(q)
    BY <1>1, <1>2 DEF EventsOK, ShowsUpTo, SizeOK
  <1> QED BY <1>1, <1>3 DEF PlayerOK, TimerOK

\* reset() leaves no events and an empty screen.
LEMMA ResetKeeps ==
    ASSUME NEW r, PlayerOK(r)
    PROVE  /\ PlayerOK(Reset(r)) /\ TimerOK(Reset(r)) /\ ~Live(Reset(r))
           /\ Reset(r).timers = r.timers
  <1>1. r \in Reader /\ <<>> \in Seq(EventIds) /\ <<>> \in Seq(TerminalEvent)
    BY EmptySeq DEF PlayerOK
  <1>2. IgnoreResize => r.size \in {InitialSize, Dragged}
    BY DEF PlayerOK, SizeOK
  <1>3. /\ Reset(r) \in Reader /\ Reset(r).events = <<>> /\ Reset(r).index = 0
        /\ Reset(r).buffer = <<>> /\ Reset(r).terminal = <<>> /\ Reset(r).keystrokes = <<>>
        /\ Reset(r).size = IF IgnoreResize THEN r.size ELSE InitialSize
        /\ Reset(r).feed = "old" /\ Reset(r).timers = r.timers
    BY <1>1 DEF Reset, ResetSession, ResetTimeout, ClearEvents, ClearBuffers, Resize, ResizeByPixels,
                Reader
  <1>4. ~Live(Reset(r))
    BY <1>3 DEF Live
  <1> QED BY <1>2, <1>3, <1>4, EmptyPlayer

\* load_events puts new events behind those there are.
LEMMA LoadKeeps ==
    ASSUME FeedAssumption, NEW r, PlayerOK(r), NEW evs \in Seq(FeedEvents)
    PROVE  LET q == LoadEvents(r, evs)
           IN  /\ PlayerOK(q) /\ Len(q.events) = Len(r.events) + Len(evs)
               /\ q.paused = r.paused /\ q.feed = r.feed /\ q.timers = r.timers /\ q.index = r.index
  <1> DEFINE q == LoadEvents(r, evs)
             n == Len(r.events)
             m == Len(evs)
  <1>0. /\ r \in Reader /\ r.events \in Seq(TerminalEvent) /\ n \in Nat /\ m \in Nat
        /\ r.index \in Nat /\ r.index <= n
        /\ Len(r.keystrokes) \in Nat
    BY ReaderFields DEF PlayerOK
  <1>1. \A f \in FeedEvents : f \in TerminalEvent /\ f.type # "none"
    BY RecordedTypes
  <1>2. evs \in Seq(TerminalEvent) /\ \A k \in 1..m : evs[k] \in FeedEvents
    <2>1. \A k \in 1..m : evs[k] \in FeedEvents
      BY ElementOfSeq
    <2>2. evs \in [1..m -> TerminalEvent]
      BY <1>1, <2>1
    <2> QED BY <1>0, <2>1, <2>2
  <1>3. /\ r.events \o evs \in Seq(TerminalEvent) /\ Len(r.events \o evs) = n + m
        /\ \A k \in 1..n : (r.events \o evs)[k] = r.events[k]
        /\ \A k \in 1..(n + m) : k > n => k - n \in 1..m /\ (r.events \o evs)[k] = evs[k - n]
    BY <1>0, <1>2
  <1>4. /\ q \in Reader /\ q.events = r.events \o evs
        /\ q.paused = r.paused /\ q.feed = r.feed /\ q.timers = r.timers /\ q.index = r.index
        /\ q.buffer = r.buffer /\ q.terminal = r.terminal /\ q.keystrokes = r.keystrokes
        /\ q.size = r.size
    BY <1>0, <1>3 DEF LoadEvents, Reader
  <1> HIDE DEF q
  <1>5. /\ Len(q.events) = n + m /\ \A k \in 1..n : q.events[k] = r.events[k] /\ k \in 1..(n + m)
        /\ \A k \in 1..(n + m) : k \notin 1..n => q.events[k] \in FeedEvents
    BY <1>0, <1>2, <1>3, <1>4
  <1>6. ShowsUpTo(q, q.index)
    <2>1. \A k \in 1..r.index : k \in 1..n
      BY <1>0
    <2>2. \A k \in 1..Len(r.keystrokes) : Len(r.keystrokes) <= r.index =>
              r.index - Len(r.keystrokes) + k \in 1..n
      BY <1>0
    <2> QED BY <1>4, <1>5, <2>1, <2>2 DEF PlayerOK, ShowsUpTo
  <1>7. EventsOK(q)
    <2>1. ASSUME NEW k \in 1..(n + m)
          PROVE  \E f \in FeedEvents : /\ q.events[k].id = f.id
                                        /\ q.events[k].type \in {f.type, Acted(f).type}
      BY <1>5 DEF PlayerOK, EventsOK
    <2>2. ASSUME NEW k \in 1..r.index PROVE q.events[k].type # "window-resize"
      <3>1. k \in 1..n
        BY <1>0
      <3> QED BY <1>5, <3>1 DEF PlayerOK, EventsOK
    <2>3. ASSUME NEW j \in 1..(n + m), NEW k \in 1..(n + m), j < k, q.events[k].type = "none"
          PROVE  q.events[j].type # "window-resize"
      <3>1. k \in 1..n
        BY <1>1, <1>5, <2>3
      <3>2. j \in 1..n
        BY <1>0, <2>3, <3>1
      <3> QED BY <1>5, <2>3, <3>1, <3>2 DEF PlayerOK, EventsOK
    <2> QED BY <1>4, <1>5, <2>1, <2>2, <2>3 DEF EventsOK
  <1>8. SizeOK(q)
    <2>1. Done(q) = Done(r)
      <3>1. \A k \in 1..(n + m) : q.events[k].type = "none" => k \in 1..n
        BY <1>1, <1>5
      <3> QED BY <1>5, <3>1 DEF Done
    <2>2. Done(r) # {} => Max(Done(r)) \in 1..n
      <3>1. Done(r) \in SUBSET (1..n)
        BY DEF Done
      <3> QED BY <1>0, <3>1, MaxIn
    <2> QED BY <1>4, <1>5, <2>1, <2>2 DEF PlayerOK, SizeOK
  <1>9. q.index <= Len(q.events)
    BY <1>0, <1>4, <1>5
  <1>10. PlayerOK(q)
    BY <1>4, <1>6, <1>7, <1>8, <1>9 DEF PlayerOK
  <1> QED BY <1>4, <1>5, <1>10 DEF q

\* process_next_event: whatever the player does, it has a timer afterwards if there is
\* something left to do.
LEMMA ProcessKeeps ==
    ASSUME FeedAssumption, NEW r, PlayerOK(r)
    PROVE  LET q == ProcessNextEvent(r)
           IN  /\ PlayerOK(q) /\ TimerOK(q) /\ q.feed = r.feed
               /\ ~Live(r) => q.paused \/ q.timers > 0
               /\ ~r.paused /\ r.index < Len(r.events) => q.timers > 0
               /\ r.paused => q.paused
  <1> DEFINE q == ProcessNextEvent(r)
             i == r.index + 1
  <1>0. /\ r \in Reader /\ r.index \in Nat /\ r.timers \in Nat /\ Len(r.events) \in Nat
        /\ r.index <= Len(r.events)
    BY ReaderFields DEF PlayerOK
  <1>1. CASE r.paused /\ ~Live(r)
    BY <1>1 DEF ProcessNextEvent, TimerOK
  <1>2. CASE ~(r.paused /\ ~Live(r)) /\ r.index < Len(r.events)
    <2> DEFINE a == ActionEvents(r, i, i)
    <2>0. i \in Nat \ {0} /\ i <= i /\ i <= Len(r.events) /\ i - 1 = r.index
      BY <1>0, <1>2
    <2>1. /\ a \in Reader /\ a.paused = r.paused /\ a.feed = r.feed /\ a.index = r.index
          /\ a.timers = r.timers /\ a.terminal = r.terminal /\ a.keystrokes = r.keystrokes
          /\ Len(a.events) = Len(r.events)
      BY <1>0, <2>0, ActFacts
    <2>2. /\ EventsOK(a) /\ SizeOK(a)
          /\ \A k \in 1..Len(r.events) : a.events[k].id = r.events[k].id
      BY <1>0, <2>0, ActKeeps DEF PlayerOK
    <2>3. CASE r.paused
      <3>1. q = ClearBuffers(a)
        BY <1>2, <2>3 DEF ProcessNextEvent
      <3>2. <<>> \in Seq(EventIds)
        BY EmptySeq
      <3> HIDE DEF a, q
      <3>3. /\ q \in Reader /\ q.paused = a.paused /\ q.feed = a.feed /\ q.index = a.index
            /\ q.timers = a.timers /\ q.terminal = a.terminal /\ q.keystrokes = a.keystrokes
            /\ q.events = a.events /\ q.size = a.size /\ q.buffer = <<>>
        BY <2>1, <3>1, <3>2 DEF ClearBuffers, Reader
      <3>4. Done(q) = Done(a)
        BY <3>3 DEF Done
      <3>5. EventsOK(q) /\ SizeOK(q)
        BY <2>2, <3>3, <3>4 DEF EventsOK, SizeOK
      <3>6. ShowsUpTo(q, q.index)
        <4>1. \A k \in 1..r.index : k \in 1..Len(r.events)
          BY <1>0
        <4>2. Len(r.keystrokes) \in Nat
          BY <1>0, ReaderFields
        <4>3. \A k \in 1..Len(r.keystrokes) : Len(r.keystrokes) <= r.index =>
                  r.index - Len(r.keystrokes) + k \in 1..Len(r.events)
          BY <1>0, <4>2
        <4>4. /\ q.terminal = r.terminal /\ q.keystrokes = r.keystrokes /\ q.index = r.index
              /\ \A k \in 1..Len(r.events) : q.events[k].id = r.events[k].id
          BY <2>1, <2>2, <3>3
        <4>5. ShowsUpTo(r, r.index)
          BY DEF PlayerOK
        <4>6. \A k \in 1..r.index : q.terminal[k] = q.events[k].id
          BY <4>1, <4>4, <4>5 DEF ShowsUpTo
        <4>7. \A k \in 1..Len(r.keystrokes) :
                  q.keystrokes[k] = q.events[r.index - Len(r.keystrokes) + k].id
          BY <4>3, <4>4, <4>5 DEF ShowsUpTo
        <4> QED BY <4>4, <4>5, <4>6, <4>7 DEF ShowsUpTo
      <3>7. PlayerOK(q)
        BY <1>0, <2>1, <3>3, <3>5, <3>6 DEF PlayerOK
      <3> QED BY <2>1, <2>3, <3>3, <3>7 DEF TimerOK, q
    <2>4. CASE ~r.paused
      <3> DEFINE w == [WriteBuffers(a) EXCEPT !.index = i]
      <3>1. /\ PlayerOK(w) /\ w.paused = r.paused /\ w.feed = r.feed /\ w.timers = r.timers
            /\ w.index = i /\ Len(w.events) = Len(r.events)
        <4>1. /\ r.buffer = <<>> /\ EventsOK(r) /\ SizeOK(r) /\ r.index <= Len(r.events)
              /\ ShowsUpTo(r, i - 1) /\ i = r.index + 1
          BY <2>0 DEF PlayerOK
        <4> HIDE DEF i
        <4> QED BY <1>0, <2>0, <4>1, ShowKeeps
      <3>2. WriteBuffers(a).index = r.index /\ WriteBuffers(a).timers = r.timers
            /\ DOMAIN WriteBuffers(a) = DOMAIN r
        <4> HIDE DEF a
        <4> QED BY <1>0, <2>1 DEF WriteBuffers, WriteTerminalBuffer, WriteKeystrokeBuffer, Reader
      <3>3. q = Advance(WriteBuffers(a))
        BY <1>2, <2>4 DEF ProcessNextEvent
      <3>4. q = [w EXCEPT !.timers = @ + 1]
        <4> HIDE DEF a
        <4> QED BY <1>0, <3>2, <3>3 DEF Advance, StartTimerForNextEvent, Reader
      <3>5. r.timers + 1 \in Nat /\ r.timers + 1 > 0 /\ w \in Reader
        BY <1>0, <3>1 DEF PlayerOK
      <3> HIDE DEF w, q
      <3>6. /\ q \in Reader /\ q.paused = w.paused /\ q.feed = w.feed /\ q.index = w.index
            /\ q.timers > 0 /\ q.terminal = w.terminal /\ q.keystrokes = w.keystrokes
            /\ q.events = w.events /\ q.size = w.size /\ q.buffer = w.buffer
        BY <3>1, <3>4, <3>5 DEF Reader
      <3>7. PlayerOK(q)
        BY <3>1, <3>6, PlayerFrame
      <3> QED BY <2>4, <3>1, <3>6, <3>7 DEF TimerOK, q
    <2> QED BY <2>3, <2>4
  <1>3. CASE ~r.paused /\ ~(r.index < Len(r.events)) /\ Live(r)
    BY <1>0, <1>3 DEF ProcessNextEvent, TimerOK
  <1>4. CASE ~r.paused /\ ~(r.index < Len(r.events)) /\ ~Live(r)
    <2>1. q = Pause(r)
      BY <1>4 DEF ProcessNextEvent
    <2> QED BY <1>4, <2>1, ModeKeeps DEF TimerOK
  <1>5. r.paused /\ Live(r) /\ ~(r.index < Len(r.events)) => q = r
    BY DEF ProcessNextEvent
  <1>6. CASE r.paused /\ Live(r) /\ ~(r.index < Len(r.events))
    BY <1>5, <1>6 DEF TimerOK
  <1> QED BY <1>1, <1>2, <1>3, <1>4, <1>6

\* What a handler of the player keeps.
HandlerOK(r, q) ==
    /\ PlayerOK(q) /\ TimerOK(q) /\ q.feed = r.feed
    /\ ~Live(r) /\ (r.paused \/ r.timers > 0) => q.paused \/ q.timers > 0

\* next
LEMMA NextKeeps ==
    ASSUME FeedAssumption, NEW r, PlayerOK(r), TimerOK(r)
    PROVE  HandlerOK(r, NextEvent(r))
  <1> DEFINE q == NextEvent(r)
             i == r.index + 1
  <1>0. /\ r \in Reader /\ r.index \in Nat /\ r.timers \in Nat /\ Len(r.events) \in Nat
    BY ReaderFields DEF PlayerOK
  <1>1. CASE r.index >= Len(r.events)
    BY <1>1 DEF NextEvent, HandlerOK
  <1>2. CASE ~(r.index >= Len(r.events)) /\ ~r.paused
    <2>1. q = ProcessNextEvent(r)
      BY <1>2 DEF NextEvent
    <2> QED BY <2>1, ProcessKeeps DEF HandlerOK
  <1>3. CASE ~(r.index >= Len(r.events)) /\ r.paused
    <2> DEFINE a == ActionEvents(r, i, i)
               w == [WriteBuffers(a) EXCEPT !.index = i]
    <2>0. i \in Nat \ {0} /\ i <= i /\ i <= Len(r.events) /\ i - 1 = r.index
      BY <1>0, <1>3
    <2>1. /\ a \in Reader /\ a.index = r.index
      BY <1>0, <2>0, ActFacts
    <2>2. /\ PlayerOK(w) /\ w.paused = r.paused /\ w.feed = r.feed /\ w.timers = r.timers
      <3>1. /\ r.buffer = <<>> /\ EventsOK(r) /\ SizeOK(r) /\ r.index <= Len(r.events)
            /\ ShowsUpTo(r, i - 1) /\ i = r.index + 1
        BY <2>0 DEF PlayerOK
      <3> HIDE DEF i
      <3> QED BY <1>0, <2>0, <3>1, ShowKeeps
    <2>3. WriteBuffers(a).index = r.index
      <3> HIDE DEF a
      <3> QED BY <2>1 DEF WriteBuffers, WriteTerminalBuffer, WriteKeystrokeBuffer, Reader
    <2>4. q = [WriteBuffers(a) EXCEPT !.index = @ + 1]
      BY <1>3 DEF NextEvent
    <2>5. q = w
      <3> HIDE DEF a
      <3> QED BY <2>3, <2>4
    <2> HIDE DEF w, q
    <2> QED BY <1>3, <2>2, <2>5 DEF HandlerOK, TimerOK, q
  <1> QED BY <1>1, <1>2, <1>3

\* move_to_event
LEMMA MoveKeeps ==
    ASSUME FeedAssumption, NEW r, PlayerOK(r), TimerOK(r), NEW id \in Int
    PROVE  HandlerOK(r, MoveToEvent(r, id))
  <1> DEFINE q == MoveToEvent(r, id)
             forward == id > r.index
             start == [Pause(r) EXCEPT !.terminal = IF forward THEN @ ELSE <<>>,
                                       !.keystrokes = <<>>]
             lo == IF forward THEN r.index + 1 ELSE 1
             hi == id + 1
             w == [WriteBuffers(ActionEvents(start, lo, hi)) EXCEPT !.index = hi]
  <1>0. /\ r \in Reader /\ r.index \in Nat /\ r.timers \in Nat /\ Len(r.events) \in Nat
        /\ r.index <= Len(r.events) /\ Len(r.terminal) = r.index
        /\ r.buffer = <<>> /\ EventsOK(r) /\ SizeOK(r) /\ ShowsUpTo(r, r.index)
    BY ReaderFields DEF PlayerOK, ShowsUpTo
  <1>1. CASE id < 0 \/ id > Len(r.events) - 1 \/ id = r.index
    <2>1. q = r
      BY <1>1 DEF MoveToEvent
    <2> QED BY <2>1 DEF HandlerOK
  <1>2. CASE ~(id < 0 \/ id > Len(r.events) - 1 \/ id = r.index)
    <2>1. q = w
      BY <1>2 DEF MoveToEvent
    <2>2. /\ lo \in Nat \ {0} /\ hi \in Nat /\ lo <= hi /\ hi <= Len(r.events)
          /\ lo = 1 \/ lo = r.index + 1
          /\ forward => lo - 1 = r.index
          /\ ~forward => lo - 1 = 0
      BY <1>0, <1>2
    <2>3. Pause(r) = [r EXCEPT !.paused = TRUE, !.button = "play"]
      BY <1>0 DEF Pause, ResetTimeout, ShowPlay, Reader
    <2>4. /\ <<>> \in Seq(EventIds) /\ Len(<<>>) = 0 /\ 1..0 = {}
      BY EmptySeq
    <2>5. /\ start \in Reader /\ start.paused /\ start.feed = r.feed /\ start.timers = r.timers
          /\ start.events = r.events /\ start.index = r.index /\ start.size = r.size
          /\ start.buffer = <<>> /\ start.keystrokes = <<>>
          /\ start.terminal = IF forward THEN r.terminal ELSE <<>>
      BY <1>0, <2>3, <2>4 DEF Reader
    <2> HIDE DEF start
    <2>6. Done(start) = Done(r)
      BY <2>5 DEF Done
    <2>7. EventsOK(start) /\ SizeOK(start)
      BY <1>0, <2>5, <2>6 DEF EventsOK, SizeOK
    <2>8. ShowsUpTo(start, lo - 1)
      <3>1. CASE forward
        <4>1. start.terminal = r.terminal /\ lo - 1 = r.index
          BY <2>2, <2>5, <3>1
        <4> HIDE DEF lo, forward
        <4> QED BY <1>0, <2>4, <2>5, <4>1 DEF ShowsUpTo
      <3>2. CASE ~forward
        <4>1. start.terminal = <<>> /\ lo - 1 = 0
          BY <2>2, <2>5, <3>2
        <4> HIDE DEF lo, forward
        <4> QED BY <2>4, <2>5, <4>1 DEF ShowsUpTo
      <3> QED BY <3>1, <3>2
    <2>9. /\ PlayerOK(w) /\ w.paused = start.paused /\ w.feed = start.feed /\ w.timers = start.timers
      <3>1. /\ start.index <= Len(start.events) /\ hi <= Len(start.events)
            /\ lo = 1 \/ lo = start.index + 1
        BY <1>0, <2>2, <2>5
      <3>2. lo \in Nat \ {0} /\ hi \in Nat /\ lo <= hi
        BY <2>2
      <3>3. start \in Reader /\ start.buffer = <<>>
        BY <2>5
      <3> HIDE DEF lo, hi, forward
      <3> QED BY <2>7, <2>8, <3>1, <3>2, <3>3, ShowKeeps
    <2> HIDE DEF w
    <2> QED BY <2>1, <2>5, <2>9 DEF HandlerOK, TimerOK
  <1> QED BY <1>1, <1>2

\* A handler may leave the player alone, pause it or play.
LEMMA HandlerModes ==
    ASSUME NEW r, PlayerOK(r), TimerOK(r)
    PROVE  HandlerOK(r, r) /\ HandlerOK(r, Pause(r)) /\ HandlerOK(r, Play(r))
  BY ModeKeeps DEF HandlerOK, TimerOK

\* Whatever the user does with the player.
LEMMA UserKeeps ==
    ASSUME FeedAssumption, PlayerOK(reader), TimerOK(reader), UserActs
    PROVE  HandlerOK(reader, reader')
  <1>0. /\ reader \in Reader /\ reader.index \in Nat /\ Len(reader.events) \in Nat
    BY ReaderFields DEF PlayerOK
  <1>1. CASE TogglePlayPause
    BY <1>1, HandlerModes DEF TogglePlayPause
  <1>2. CASE ClickSpeed
    <2>1. CASE reader.paused
      BY <1>2, <2>1, HandlerModes DEF ClickSpeed, ChangeSpeed
    <2>2. CASE ~reader.paused
      <3>1. reader' = Play(Pause(reader))
        BY <1>2, <2>2 DEF ClickSpeed, ChangeSpeed
      <3>2. PlayerOK(Pause(reader)) /\ TimerOK(Pause(reader)) /\ Pause(reader).feed = reader.feed
        BY ModeKeeps DEF TimerOK
      <3>3. /\ PlayerOK(Play(Pause(reader))) /\ Play(Pause(reader)).timers > 0
            /\ Play(Pause(reader)).feed = reader.feed
        BY <3>2, ModeKeeps
      <3> QED BY <3>1, <3>3 DEF HandlerOK, TimerOK
    <2> QED BY <2>1, <2>2
  <1>3. CASE ClickNext
    BY <1>3, NextKeeps DEF ClickNext
  <1>4. CASE ClickPrev
    <2>1. reader.index - 2 \in Int /\ 0 \in Int
      BY <1>0
    <2>2. Max({0, reader.index - 2}) \in {0, reader.index - 2}
      <3>1. \E x \in {0, reader.index - 2} : \A y \in {0, reader.index - 2} : x >= y
        <4>1. CASE reader.index - 2 >= 0
          BY <2>1, <4>1
        <4>2. CASE ~(reader.index - 2 >= 0)
          BY <2>1, <4>2
        <4> QED BY <4>1, <4>2
      <3> QED BY <3>1 DEF Max
    <2>3. Max({0, reader.index - 2}) \in Int
      BY <2>1, <2>2
    <2> QED BY <1>4, <2>3, MoveKeeps DEF ClickPrev
  <1>5. CASE ClickToStart
    BY <1>5, MoveKeeps DEF ClickToStart
  <1>6. CASE ClickToEnd
    <2>1. Len(reader.events) - 1 \in Int
      BY <1>0
    <2> QED BY <1>6, <2>1, MoveKeeps DEF ClickToEnd
  <1>7. CASE Seek
    <2>1. PICK id \in 0..Len(reader.events) : reader' = MoveToEvent(reader, id)
      BY <1>7 DEF Seek
    <2>2. id \in Int
      BY <1>0
    <2> QED BY <2>1, <2>2, MoveKeeps
  <1>8. CASE FocusIndexBox
    BY <1>8, HandlerModes DEF FocusIndexBox
  <1>9. CASE DragCorner
    <2>1. reader' = [reader EXCEPT !.size = Dragged]
      BY <1>9 DEF DragCorner, ResizeByPixels
    <2>2. /\ reader' \in Reader /\ reader'.size = Dragged
          /\ reader'.events = reader.events /\ reader'.index = reader.index
          /\ reader'.buffer = reader.buffer /\ reader'.terminal = reader.terminal
          /\ reader'.keystrokes = reader.keystrokes
          /\ reader'.paused = reader.paused /\ reader'.feed = reader.feed
          /\ reader'.timers = reader.timers
      BY <1>0, <2>1 DEF Reader
    <2>3. ShowsUpTo(reader', reader'.index) /\ EventsOK(reader') /\ SizeOK(reader')
      BY <2>2 DEF PlayerOK, ShowsUpTo, EventsOK, SizeOK
    <2>4. PlayerOK(reader')
      BY <2>2, <2>3 DEF PlayerOK
    <2> QED BY <2>2, <2>4 DEF HandlerOK, TimerOK, Live
  <1> QED BY <1>1, <1>2, <1>3, <1>4, <1>5, <1>6, <1>7, <1>8, <1>9 DEF UserActs

\* A timer fires.
LEMMA TimerKeeps ==
    ASSUME FeedAssumption, PlayerOK(reader), TimerFires
    PROVE  HandlerOK(reader, reader')
  <1> DEFINE r == [reader EXCEPT !.timers = @ - 1]
  <1>1. reader \in Reader /\ reader.timers \in Nat /\ reader.timers > 0
    BY ReaderFields DEF PlayerOK, TimerFires
  <1>2. reader.timers - 1 \in Nat
    BY <1>1
  <1>3. /\ r \in Reader /\ r.events = reader.events /\ r.index = reader.index
        /\ r.buffer = reader.buffer /\ r.terminal = reader.terminal
        /\ r.keystrokes = reader.keystrokes /\ r.size = reader.size /\ r.feed = reader.feed
    BY <1>1, <1>2 DEF Reader
  <1>4. reader' = ProcessNextEvent(r)
    BY DEF TimerFires
  <1> HIDE DEF r
  <1>5. PlayerOK(r)
    BY <1>3, PlayerFrame
  <1>6. Live(r) <=> Live(reader)
    BY <1>3 DEF Live
  <1> QED BY <1>3, <1>4, <1>5, <1>6, ProcessKeeps DEF HandlerOK

-----------------------------------------------------------------------------
(* The invariant *)

\* It holds before the first selection.
LEMMA ViewInit ==
    ASSUME FeedAssumption, Init PROVE ViewInv
  <1>1. <<>> \in Seq(EventIds) /\ <<>> \in Seq(TerminalEvent)
    BY EmptySeq
  <1>2. /\ reader \in Reader /\ reader.events = <<>> /\ reader.index = 0 /\ reader.buffer = <<>>
        /\ reader.terminal = <<>> /\ reader.keystrokes = <<>> /\ reader.size = InitialSize
    BY <1>1 DEF Init, NewReader, Reader
  <1>3. PlayerOK(reader) /\ TimerOK(reader)
    BY <1>2, EmptyPlayer
  <1>4. SocketsOK
    BY DEF Init, SocketsOK
  <1>5. fetches = {} /\ lost = FALSE /\ selections = 0 /\ MaxSelections \in Nat
    BY DEF Init, FeedAssumption
  <1>6. selections \in 0..MaxSelections
    BY <1>5
  <1> QED BY <1>3, <1>4, <1>5, <1>6 DEF ViewInv

\* A handler of the player leaves the sockets in order.
LEMMA HandlerStep ==
    ASSUME ViewInv, HandlerOK(reader, reader'), UNCHANGED <<sockets, fetches, lost, selections>>
    PROVE  ViewInv'
  <1>1. Live(reader') <=> Live(reader)
    BY DEF HandlerOK, Live
  <1>2. SocketsOK'
    BY <1>1 DEF ViewInv, SocketsOK, HandlerOK
  <1> QED BY <1>2 DEF ViewInv, HandlerOK

\* A recording is a sequence of recorded events.
LEMMA ReplayListType ==
    ASSUME FeedAssumption, NEW s \in Sessions
    PROVE  ReplayList(s) \in Seq(FeedEvents)
  <1> DEFINE kept == {k \in 1..Len(Feed[s]) : Feed[s][k].type # "session-start"}
             place(k) == Cardinality({j \in kept : j <= k})
             n == Cardinality(kept)
  <1>0. Feed[s] \in Seq(TerminalEvent) /\ Len(Feed[s]) \in Nat
    BY DEF FeedAssumption
  <1>1. kept \in SUBSET Nat /\ kept \subseteq 1..Len(Feed[s])
    BY <1>0
  <1>2. IsFiniteSet(kept)
    <2>1. 1 \in Int /\ Len(Feed[s]) \in Int
      BY <1>0
    <2>2. IsFiniteSet(1..Len(Feed[s]))
      BY <2>1, FS_Interval
    <2> HIDE DEF kept
    <2> QED BY <1>1, <2>2, FS_Subset
  <1>3. \A k \in kept : Feed[s][k] \in FeedEvents
    BY <1>1 DEF FeedEvents
  <1>4. ReplayList(s) = [i \in 1..n |-> Feed[s][CHOOSE k \in kept : place(k) = i]]
    BY DEF ReplayList
  <1> HIDE DEF kept
  <1>5. n \in Nat
    BY <1>2, FS_CardinalityType
  <1>6. ASSUME NEW i \in 1..n PROVE (CHOOSE k \in kept : place(k) = i) \in kept
    <2>1. \E k \in kept : place(k) = i
      BY <1>1, <1>2, PlaceExists
    <2> HIDE DEF place
    <2> QED BY <2>1
  <1> HIDE DEF n, place
  <1>7. ReplayList(s) \in [1..n -> FeedEvents]
    BY <1>3, <1>4, <1>6
  <1> QED BY <1>5, <1>7

\* A session is selected; the sockets of the others are closed.
LEMMA SelectStep ==
    ASSUME FeedAssumption, ViewInv, NEW s \in Sessions, NEW active \in BOOLEAN,
           SelectSession(s, active)
    PROVE  ViewInv'
  <1>1. PlayerOK(reader') /\ TimerOK(reader') /\ ~Live(reader')
    BY ResetKeeps DEF ViewInv, SelectSession
  <1>2. sockets' = {NewSocket(s, active)}
    BY DEF SelectSession, CloseSessionSockets
  <1>3. NewSocket(s, active) \in Socket
    BY DEF NewSocket, Socket
  <1>4. /\ NewSocket(s, active).state = "connecting"
        /\ NewSocket(s, active).got = 0 /\ NewSocket(s, active).acked = 0
    BY DEF NewSocket
  <1>5. SocketsOK'
    BY <1>1, <1>2, <1>3, <1>4 DEF SocketsOK
  <1>6. fetches' \subseteq Sessions /\ lost' \in BOOLEAN
    BY DEF SelectSession, ViewInv
  <1>7. selections' = selections + 1 /\ selections < MaxSelections
        /\ selections \in 0..MaxSelections /\ MaxSelections \in Nat
    BY DEF SelectSession, ViewInv, FeedAssumption
  <1>8. selections' \in 0..MaxSelections
    BY <1>7
  <1> QED BY <1>1, <1>5, <1>6, <1>8 DEF ViewInv

\* A socket connects.
LEMMA OpensStep ==
    ASSUME FeedAssumption, ViewInv, NEW k \in sockets, SocketOpens(k)
    PROVE  ViewInv'
  <1> DEFINE l == [k EXCEPT !.state = "open"]
  <1>1. k \in Socket /\ sockets = {k} /\ k.got = 0 /\ k.acked = 0 /\ sockets' = {l}
    BY DEF ViewInv, SocketsOK, SocketOpens
  <1>2. l \in Socket /\ l.got = 0 /\ l.acked = 0 /\ l.state = "open" /\ l.active = k.active
    BY <1>1 DEF Socket
  <1>3. PlayerOK(reader) /\ TimerOK(reader)
    BY DEF ViewInv
  <1> HIDE DEF l
  <1>4. CASE k.active
    <2>1. PlayerOK(reader') /\ TimerOK(reader') /\ Live(reader')
      BY <1>3, <1>4, ModeKeeps DEF SocketOpens
    <2>2. SocketsOK'
      BY <1>1, <1>2, <1>4 DEF SocketsOK
    <2> QED BY <2>1, <2>2 DEF ViewInv, SocketOpens
  <1>5. CASE ~k.active
    <2> DEFINE r == SetSessionModeDisconnected(reader)
    <2>1. PlayerOK(r) /\ ~Live(r)
      BY <1>3, ModeKeeps
    <2>2. reader' = Pause(r)
      BY <1>5 DEF SocketOpens
    <2> HIDE DEF r
    <2>3. PlayerOK(reader') /\ reader'.paused /\ reader'.feed = r.feed
      BY <2>1, <2>2, ModeKeeps
    <2>4. ~Live(reader') /\ TimerOK(reader')
      BY <2>1, <2>3 DEF Live, TimerOK
    <2>5. SocketsOK'
      BY <1>1, <1>2, <2>3, <2>4 DEF SocketsOK
    <2> QED BY <2>3, <2>4, <2>5 DEF ViewInv, SocketOpens
  <1> QED BY <1>4, <1>5

\* A message of the session arrives.
LEMMA MessageStep ==
    ASSUME FeedAssumption, ViewInv, NEW k \in sockets, MessageArrives(k)
    PROVE  ViewInv'
  <1> DEFINE f == Feed[k.session][k.got + 1]
             d == Loaded(k)
             r == Received(k)
  <1>0. /\ PlayerOK(reader) /\ TimerOK(reader) /\ SocketsOK /\ k \in Socket /\ sockets = {k}
        /\ k.state = "open" /\ k.acked = k.got /\ k.got < Len(Feed[k.session])
        /\ k.session \in Sessions /\ k.got \in Nat
        /\ reader \in Reader /\ reader.index \in Nat /\ Len(reader.events) \in Nat
        /\ reader.index <= Len(reader.events)
    <2>1. k \in Socket /\ sockets = {k} /\ PlayerOK(reader)
      BY DEF ViewInv, SocketsOK
    <2> QED BY <2>1, ReaderFields DEF ViewInv, MessageArrives, Socket, PlayerOK
  <1>1. f \in FeedEvents
    <2>1. k.got + 1 \in 1..Len(Feed[k.session])
      <3>1. Len(Feed[k.session]) \in Nat
        BY <1>0 DEF FeedAssumption
      <3> QED BY <1>0, <3>1
    <2> QED BY <1>0, <2>1 DEF FeedEvents
  <1>2. <<f>> \in Seq(FeedEvents) /\ Len(<<f>>) = 1 /\ d = LoadEvents(reader, <<f>>)
    BY <1>1 DEF Loaded
  <1>3. /\ PlayerOK(d) /\ d.paused = reader.paused /\ d.feed = reader.feed
        /\ d.timers = reader.timers /\ d.index < Len(d.events)
    <2> HIDE DEF f
    <2>1. /\ PlayerOK(d) /\ d.paused = reader.paused /\ d.feed = reader.feed
          /\ d.timers = reader.timers /\ d.index = reader.index
          /\ Len(d.events) = Len(reader.events) + Len(<<f>>)
      BY <1>0, <1>2, LoadKeeps
    <2>2. d.index < Len(d.events)
      BY <1>0, <2>1
    <2> QED BY <2>1, <2>2
  <1>4. Live(d) <=> Live(reader)
    BY <1>3 DEF Live
  <1> HIDE DEF d
  <1>5. CASE k.active
    <2> DEFINE q == ProcessNextEvent(d)
    <2>1. /\ PlayerOK(q) /\ TimerOK(q) /\ q.feed = d.feed
          /\ ~d.paused => q.timers > 0
          /\ d.paused => q.paused
      BY <1>3, ProcessKeeps
    <2>2. r = [reader |-> q, ack |-> RunsCallback(d)]
      BY <1>5 DEF Received, d
    <2>3. RunsCallback(d) <=> (~reader.paused \/ Live(reader))
      BY <1>3, <1>4 DEF RunsCallback
    <2> HIDE DEF q
    <2>4. Live(q) <=> Live(reader)
      BY <1>3, <2>1 DEF Live
    <2>5. CASE f.type = "session-stop"
      <3>1. sockets' = {} /\ reader' = SetSessionModeDisconnected(q)
        BY <1>0, <1>5, <2>2, <2>5 DEF MessageArrives
      <3>2. /\ PlayerOK(reader') /\ reader'.paused = q.paused /\ reader'.timers = q.timers
        BY <2>1, <3>1, ModeKeeps
      <3>3. TimerOK(reader')
        BY <1>3, <2>1, <3>2 DEF TimerOK
      <3> QED BY <3>1, <3>2, <3>3 DEF ViewInv, SocketsOK, MessageArrives
    <2>6. CASE f.type # "session-stop"
      <3> DEFINE l == [k EXCEPT !.got = @ + 1, !.acked = IF RunsCallback(d) THEN @ + 1 ELSE @]
      <3>1. sockets' = {l} /\ reader' = q
        BY <1>0, <2>2, <2>6 DEF MessageArrives
      <3>2. /\ l \in Socket /\ l.state = "open" /\ l.active
            /\ l.acked # l.got => ~RunsCallback(d)
        <4>1. k.got + 1 \in Nat /\ k.acked + 1 \in Nat
          BY <1>0
        <4> QED BY <1>0, <1>5, <4>1 DEF Socket
      <3> HIDE DEF l
      <3>3. SocketsOK'
        BY <2>3, <2>4, <3>1, <3>2 DEF SocketsOK
      <3> QED BY <2>1, <3>1, <3>3 DEF ViewInv, MessageArrives
    <2> QED BY <2>5, <2>6
  <1>6. CASE ~k.active
    <2>1. r = [reader |-> d, ack |-> TRUE]
      BY <1>6 DEF Received, d
    <2>2. ~Live(reader) /\ (reader.paused \/ reader.timers > 0)
      BY <1>0, <1>6 DEF SocketsOK
    <2>3. TimerOK(d) /\ ~Live(d)
      BY <1>3, <1>4, <2>2 DEF TimerOK
    <2>4. CASE f.type = "session-stop"
      <3>1. sockets' = {} /\ reader' = Play(d)
        BY <1>0, <1>6, <2>1, <2>4 DEF MessageArrives
      <3>2. PlayerOK(reader') /\ TimerOK(reader')
        BY <1>3, <3>1, ModeKeeps DEF TimerOK
      <3> QED BY <3>1, <3>2 DEF ViewInv, SocketsOK, MessageArrives
    <2>5. CASE f.type # "session-stop"
      <3> DEFINE l == [k EXCEPT !.got = @ + 1, !.acked = @ + 1]
      <3>1. sockets' = {l} /\ reader' = d
        BY <1>0, <2>1, <2>5 DEF MessageArrives
      <3>2. /\ l \in Socket /\ l.state = "open" /\ l.active = k.active /\ l.acked = l.got
        <4>1. k.got + 1 \in Nat
          BY <1>0
        <4> QED BY <1>0, <4>1 DEF Socket
      <3> HIDE DEF l
      <3>3. SocketsOK'
        BY <1>3, <2>2, <2>3, <3>1, <3>2 DEF SocketsOK
      <3> QED BY <1>3, <2>3, <3>1, <3>3 DEF ViewInv, MessageArrives
    <2> QED BY <2>4, <2>5
  <1> QED BY <1>5, <1>6

\* A session is unknown, or its connection is lost.
LEMMA FaultStep ==
    ASSUME ViewInv, NEW k \in sockets, SessionUnknown(k) \/ ConnectionLost(k)
    PROVE  ViewInv'
  <1>0. SocketsOK /\ k \in Socket /\ sockets = {k}
    BY DEF ViewInv, SocketsOK
  <1>1. CASE SessionUnknown(k)
    <2> DEFINE l == [k EXCEPT !.state = "unknown"]
    <2>1. sockets' = {l} /\ UNCHANGED <<reader, fetches, lost, selections>>
      BY <1>0, <1>1 DEF SessionUnknown
    <2>2. /\ l \in Socket /\ l.state = "unknown" /\ l.active = k.active
          /\ l.acked = k.acked /\ l.got = k.got
      BY <1>0 DEF Socket
    <2> HIDE DEF l
    <2>3. SocketsOK'
      BY <1>0, <2>1, <2>2 DEF SocketsOK
    <2> QED BY <2>1, <2>3 DEF ViewInv
  <1>2. CASE ConnectionLost(k)
    <2>1. sockets' = {} /\ UNCHANGED <<reader, fetches, selections>> /\ lost' = TRUE
      BY <1>0, <1>2 DEF ConnectionLost
    <2> QED BY <2>1 DEF ViewInv, SocketsOK
  <1> QED BY <1>1, <1>2

\* A recording replaces what is displayed, whatever the sockets do.
LEMMA RecordingStep ==
    ASSUME FeedAssumption, ViewInv, NEW s \in Sessions, RecordingArrives(s)
    PROVE  ViewInv'
  <1> DEFINE r == Reset(reader)
             d == LoadEvents(r, ReplayList(s))
  <1>1. PlayerOK(r) /\ ~Live(r)
    BY ResetKeeps DEF ViewInv
  <1> HIDE DEF r
  <1>2. PlayerOK(d) /\ d.feed = r.feed
    BY <1>1, ReplayListType, LoadKeeps
  <1>3. reader' = Play(d)
    BY DEF RecordingArrives, d, r
  <1> HIDE DEF d
  <1>4. PlayerOK(reader') /\ reader'.timers > 0 /\ reader'.feed = d.feed
    BY <1>2, <1>3, ModeKeeps
  <1>5. TimerOK(reader') /\ ~Live(reader')
    BY <1>1, <1>2, <1>4 DEF TimerOK, Live
  <1>6. SocketsOK'
    BY <1>4, <1>5 DEF ViewInv, SocketsOK, RecordingArrives
  <1> QED BY <1>4, <1>5, <1>6 DEF ViewInv, RecordingArrives

\* Every step keeps the invariant.
LEMMA ViewStep ==
    ASSUME FeedAssumption, ViewInv, [Next]_vars PROVE ViewInv'
  <1>1. ASSUME NEW s \in Sessions, FetchRecording(s) PROVE ViewInv'
    BY <1>1 DEF FetchRecording, ViewInv, SocketsOK, FeedAssumption
  <1>2. CASE Player(TimerFires)
    BY <1>2, TimerKeeps, HandlerStep DEF Player, ViewInv
  <1>3. CASE Player(UserActs)
    BY <1>3, UserKeeps, HandlerStep DEF Player, ViewInv
  <1>4. CASE UNCHANGED vars
    BY <1>4 DEF vars, ViewInv, SocketsOK
  <1> QED BY <1>1, <1>2, <1>3, <1>4, SelectStep, OpensStep, MessageStep, FaultStep, RecordingStep
          DEF Next

-----------------------------------------------------------------------------
(* Theorems *)

\* The invariant holds in every state: the player is in order between any two of
\* its handlers, and so are the sockets that feed it (terminal_reader.js:427-854,
\* lib.js:96-175, 760-773).
THEOREM ViewCorrect == Spec => []ViewInv
  <1>1. Init => ViewInv
    BY FeedAssumption, ViewInit
  <1>2. ViewInv /\ [Next]_vars => ViewInv'
    BY FeedAssumption, ViewStep
  <1> QED BY <1>1, <1>2, PTL DEF Spec

\* Every variable keeps its type, and no more events count as shown than there are
\* (terminal_reader.js:420-425, 655-660).
THEOREM ViewTypes == Spec => []SessionViewTypeOK
  <1>1. ViewInv => SessionViewTypeOK
    BY DEF ViewInv, PlayerOK, SocketsOK, SessionViewTypeOK, TypeOK
  <1> QED BY <1>1, ViewCorrect, PTL

\* Whatever is sent, selected, sought and paused, the terminal displays the first
\* event_index events and the keystroke pane a run of them that ends there
\* (process_next_event, next and move_to_event, terminal_reader.js:641-854).
THEOREM ScreenShows == Spec => []ScreenIsPrefix
  <1>1. ASSUME ViewInv PROVE ScreenIsPrefix
    <2>1. ShowsUpTo(reader, reader.index)
      BY <1>1 DEF ViewInv, PlayerOK
    <2>2. TerminalIsPrefix
      BY <2>1 DEF ShowsUpTo, TerminalIsPrefix
    <2>3. KeystrokesAreRun
      BY <2>1 DEF ShowsUpTo, KeystrokesAreRun
    <2> QED BY <2>2, <2>3 DEF ScreenIsPrefix
  <1> QED BY <1>1, ViewCorrect, PTL

\* A player that is not paused and has something to do has a timer: no order of
\* clicks, old timers, messages and recordings leaves it standing
\* (terminal_reader.js:427-456, 641-689, 767-782; lib.js:137-170).
THEOREM NeverStalled == Spec => []NotStalled
  <1>1. ViewInv => NotStalled
    BY DEF ViewInv, TimerOK, NotStalled
  <1> QED BY <1>1, ViewCorrect, PTL

\* While a session is displayed as live, every message of it is acknowledged, so
\* its viewer does not hold up the server's sender (lib.js:149-156,
\* terminal_reader.js:648-687).
THEOREM LiveAcked == Spec => []LiveIsAcked
  <1>1. ViewInv => LiveIsAcked
    BY DEF ViewInv, SocketsOK, LiveIsAcked
  <1> QED BY <1>1, ViewCorrect, PTL

\* The terminal has the size of the furthest window-resize that was reached, also
\* after moving back, unless the user dragged it (terminal_reader.js:565-568).
THEOREM SizeFollows == Spec => []SizeIsFurthest
  <1>1. ASSUME ViewInv PROVE SizeIsFurthest
    <2>1. SizeOK(reader)
      BY <1>1 DEF ViewInv, PlayerOK
    <2> QED BY <2>1 DEF SizeOK, Done, SizeIsFurthest
  <1> QED BY <1>1, ViewCorrect, PTL
=============================================================================
