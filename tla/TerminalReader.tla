---------------------------- MODULE TerminalReader ----------------------------
(***************************************************************************)
(* The player of the web page (class TerminalReader, terminal_reader.js).  *)
(* It keeps a list of events and the number of events shown so far, and    *)
(* shows the next one whenever a timer fires, the user asks for it, or a   *)
(* live session's message arrives.                                         *)
(*                                                                         *)
(* The object is the record "reader", and a method is an operator from     *)
(* records to records, so that a handler that calls several methods is one *)
(* step, as it is in a browser.  Delays and speeds are left out: a timer   *)
(* that has been started fires at some later time.  The code never cancels *)
(* one (clearTimeout is commented out in reset_timeout), so the timers     *)
(* that are still to fire are a number that methods only add to.           *)
(*                                                                         *)
(* What the terminal and the keystroke pane display is the sequence of the *)
(* ids of the events whose text was written to them, the events without    *)
(* text included.  Both buffers of the code are filled, written and        *)
(* cleared together and are one here.                                      *)
(***************************************************************************)
EXTENDS Integers, Sequences, FiniteSetsExt

CONSTANTS
    EventIds,      \* identities of recorded events
    IgnoreResize,  \* disable_resize() was called (standalone.js)
    InitialSize,   \* size of an unused terminal (initial_width, initial_height)
    Dragged,       \* a size the user gave it
    MaxTimers      \* bound on the pending timers when the user starts one more

ASSUME ReaderAssumption ==
    /\ IgnoreResize \in BOOLEAN
    /\ InitialSize \notin EventIds
    /\ Dragged \notin EventIds \cup {InitialSize}
    /\ MaxTimers \in Nat \ {0}

VARIABLE reader

\* "none" is an event whose type action_event has deleted.
EventTypes == {"session-start", "window-resize", "message", "session-stop", "none"}

TerminalEvent == [id : EventIds, type : EventTypes]

Reader ==
    [paused     : BOOLEAN,
     feed       : {"live", "old"},       \* #session.feed_type; .live goes with it
     events     : Seq(TerminalEvent),
     index      : Nat,                   \* #event_index: the events shown
     timers     : Nat,                   \* timeouts that are still to fire
     button     : {"play", "pause"},     \* the class of the play/pause button
     buffer     : Seq(EventIds),         \* #terminal_buffer, #keystroke_buffer
     terminal   : Seq(EventIds),
     keystrokes : Seq(EventIds),
     size       : EventIds \cup {InitialSize, Dragged}]

\* A reader after initialize, with the button as build_reader makes it.
NewReader ==
    [paused |-> TRUE, feed |-> "old", events |-> <<>>, index |-> 0, timers |-> 0,
     button |-> "pause", buffer |-> <<>>, terminal |-> <<>>, keystrokes |-> <<>>,
     size |-> InitialSize]

-----------------------------------------------------------------------------
(* Methods. *)

Live(r) == r.feed = "live"    \* is_live

ShowPlay(r) == [r EXCEPT !.button = "play"]

ShowPause(r) == [r EXCEPT !.button = "pause"]

StartTimerForNextEvent(r) == [r EXCEPT !.timers = @ + 1]

ResumeWithNewDelay(r) == StartTimerForNextEvent(r)

\* reset_timeout forgets the timer, and does not cancel it.
ResetTimeout(r) == r

Pause(r) == ResetTimeout(ShowPlay([r EXCEPT !.paused = TRUE]))

Play(r) == ResumeWithNewDelay([ShowPause(r) EXCEPT !.paused = FALSE])

\* change_speed_to_new_val
ChangeSpeed(r) == IF r.paused THEN r ELSE Play(Pause(r))

SetSessionModeLive(r) == [r EXCEPT !.feed = "live"]

SetSessionModeDisconnected(r) == [r EXCEPT !.feed = "old"]

LoadEvents(r, evs) == [r EXCEPT !.events = @ \o evs]

ResizeByPixels(r, size) == [r EXCEPT !.size = size]

Resize(r, size) == IF IgnoreResize THEN r ELSE ResizeByPixels(r, size)

ResetSession(r) == [r EXCEPT !.feed = "old"]

\* Faulty variant: what a paused live session has not written stays.
ClearBuffersNot(r) == r

ClearBuffers(r) == [r EXCEPT !.buffer = <<>>]

\* Faulty variant: the position is kept.
ClearEventsOnly(r) == [r EXCEPT !.events = <<>>]

ClearEvents(r) == [r EXCEPT !.events = <<>>, !.index = 0]

\* The button keeps its class and the timers go on.
Reset(r) ==
    LET q == ResetSession(ResetTimeout([r EXCEPT !.paused = FALSE]))
    IN  ClearBuffers(Resize(ClearEvents([q EXCEPT !.terminal = <<>>, !.keystrokes = <<>>]),
                            InitialSize))

\* Faulty variant: a window-resize keeps its type.
DeletesTypeOfStart(e) == e.type = "session-start"

\* action_event deletes the type of these after it has used it.
DeletesType(e) == e.type \in {"session-start", "window-resize"}

Acted(e) == [id |-> e.id, type |-> IF DeletesType(e) THEN "none" ELSE e.type]

\* action_event for the events lo..hi, in that order.
ActionEvents(r, lo, hi) ==
    LET resizes == {k \in lo..hi : r.events[k].type = "window-resize"}
        acted == [r EXCEPT
           !.buffer = @ \o [k \in 1..(hi - lo + 1) |-> r.events[lo + k - 1].id],
           !.events = [k \in 1..Len(@) |-> IF k \in lo..hi THEN Acted(@[k]) ELSE @[k]]]
    IN  IF resizes = {} THEN acted ELSE Resize(acted, r.events[Max(resizes)].id)

WriteKeystrokeBuffer(r) == [r EXCEPT !.keystrokes = @ \o r.buffer]

WriteTerminalBuffer(r) == [r EXCEPT !.terminal = @ \o r.buffer, !.buffer = <<>>]

\* What there is in the buffers is written, and they are empty.
WriteBuffers(r) == WriteTerminalBuffer(WriteKeystrokeBuffer(r))

\* Faulty variants: a timer only when there is an event, and none at all.
AdvanceWithinList(r) ==
    [r EXCEPT !.timers = IF r.index + 1 < Len(r.events) THEN @ + 1 ELSE @,
              !.index = @ + 1]

AdvanceOnly(r) == [r EXCEPT !.index = @ + 1]

\* internal_callback of process_next_event
Advance(r) == [StartTimerForNextEvent(r) EXCEPT !.index = @ + 1]

ProcessNextEvent(r) ==
    IF r.paused /\ ~Live(r) THEN r
    ELSE IF r.index < Len(r.events)
         THEN LET acted == ActionEvents(r, r.index + 1, r.index + 1)
              IN  IF r.paused THEN ClearBuffers(acted) ELSE Advance(WriteBuffers(acted))
    ELSE IF Live(r) THEN r ELSE Pause(r)

\* Faulty variant: a paused player does not call back.
RunsCallbackPlaying(r) == ~r.paused

\* Whether process_next_event runs its callback.
RunsCallback(r) == (~r.paused \/ Live(r)) /\ (r.index < Len(r.events) \/ Live(r))

\* next
NextEvent(r) ==
    IF r.index >= Len(r.events) THEN r
    ELSE IF r.paused
         THEN [WriteBuffers(ActionEvents(r, r.index + 1, r.index + 1)) EXCEPT !.index = @ + 1]
         ELSE ProcessNextEvent(r)

\* move_to_event; "id" counts from 0.  A move back plays everything again.
MoveToEvent(r, id) ==
    IF id < 0 \/ id > Len(r.events) - 1 \/ id = r.index THEN r
    ELSE LET forward == id > r.index
             start == [Pause(r) EXCEPT !.terminal = IF forward THEN @ ELSE <<>>,
                                       !.keystrokes = <<>>]
         IN  [WriteBuffers(ActionEvents(start, IF forward THEN r.index + 1 ELSE 1, id + 1))
                EXCEPT !.index = id + 1]

-----------------------------------------------------------------------------
(* The handlers that build_reader installs, and the timers. *)

TogglePlayPause ==
    /\ reader' = IF reader.button = "play" THEN Play(reader) ELSE Pause(reader)
    /\ reader'.timers <= MaxTimers

ClickSpeed ==      \* slower, faster
    /\ reader' = ChangeSpeed(reader)
    /\ reader'.timers <= MaxTimers

ClickNext ==
    /\ reader' = NextEvent(reader)
    /\ reader'.timers <= MaxTimers

ClickPrev == reader' = MoveToEvent(reader, Max({0, reader.index - 2}))

ClickToStart == reader' = MoveToEvent(reader, 0)

ClickToEnd == reader' = MoveToEvent(reader, Len(reader.events) - 1)

\* The slider, whose maximum is the number of events, and the index box.
Seek == \E id \in 0..Len(reader.events) : reader' = MoveToEvent(reader, id)

FocusIndexBox == reader' = Pause(reader)

\* The user drags the terminal's corner; the standalone page does the same when its
\* window is resized.
DragCorner == reader' = ResizeByPixels(reader, Dragged)

TimerFires ==
    /\ reader.timers > 0
    /\ reader' = ProcessNextEvent([reader EXCEPT !.timers = @ - 1])

UserActs ==
    \/ TogglePlayPause
    \/ ClickSpeed
    \/ ClickNext
    \/ ClickPrev
    \/ ClickToStart
    \/ ClickToEnd
    \/ Seek
    \/ FocusIndexBox
    \/ DragCorner

-----------------------------------------------------------------------------
(* Properties of the player, for whoever drives it. *)

\* Every field holds a value of its type, and no more events count as shown than there
\* are (terminal_reader.js:420-425, 655-660, 795, 848).
TypeOK == reader \in Reader /\ reader.index <= Len(reader.events)

TerminalIsPrefix ==
    /\ Len(reader.terminal) = reader.index
    /\ \A k \in 1..Len(reader.terminal) : reader.terminal[k] = reader.events[k].id

KeystrokesAreRun ==
    LET n == Len(reader.keystrokes)
    IN  /\ n <= reader.index
        /\ \A k \in 1..n : reader.keystrokes[k] = reader.events[reader.index - n + k].id

\* However the user seeks, pauses and steps, and whichever old timers fire in
\* between, the terminal displays the text of exactly the first event_index
\* events of the list: each once, in order (process_next_event, next and
\* move_to_event agree with each other on what has been shown).  move_to_event
\* empties the keystroke pane also when it moves forward; what the pane displays
\* is nevertheless a run without gaps that ends with the event shown last
\* (terminal_reader.js:641-689, 784-803, 814-854).
ScreenIsPrefix == TerminalIsPrefix /\ KeystrokesAreRun

\* A player that is not paused and has something left to do - events to show or,
\* after the last event of a session that is not live, pausing itself - has a
\* timer to do it with, although no handler knows which timers are still to fire
\* (terminal_reader.js:427-456, 767-782).
NotStalled ==
    ~reader.paused /\ (reader.index < Len(reader.events)
                       \/ (~Live(reader) /\ Len(reader.events) > 0))
        => reader.timers > 0

\* Playing comes to an end: the player shows every event or is paused
\* (terminal_reader.js:641-689).
PlaysToEnd ==
    (~reader.paused /\ reader.index < Len(reader.events))
        ~> (reader.paused \/ reader.index = Len(reader.events))
=============================================================================
