------------------------------- MODULE Session -------------------------------
(***************************************************************************)
(* One proxied SSH session (session.go, events.go), the goroutine that     *)
(* serves its client (HandleClientConn in proxy.go) and the web socket     *)
(* goroutines that play it live to browsers (playSession in web.go).       *)
(*                                                                         *)
(* The goroutines share the session's counters, its event list, its log    *)
(* file and the list of signal channels of the viewers.  Only some of the  *)
(* accesses are under a mutex; every access that is not is a step of its   *)
(* own here.                                                               *)
(***************************************************************************)
EXTENDS Integers, Sequences, FiniteSets

CONSTANTS
    Main,           \* the goroutine of HandleClientConn
    Handlers,       \* the goroutines it starts (HandleChannels, handleRequests)
    Children,       \* activations these start: forwardChannel, forwardRequest,
                    \* copyChannel, bidirectionalChannelClone, handleRequests
    Tasks,          \* detached "go session.HandleEvent(...)" goroutines
    Stoppers,       \* goroutines that call ProxyContext.Stop
    Viewers,        \* web socket goroutines in playSession
    Listener,       \* the accept loop, which creates the session locked
    NoOne,          \* no goroutine; a nil channel
    ScanThreshold,  \* 10 in the code: shorter sessions are renamed to .scan
    LogFaults       \* whether opening, writing or renaming the log may fail

Workers == Handlers \cup Children
Threads == {Main} \cup Workers                 \* counted by thread_count
Agents  == Threads \cup Tasks \cup Stoppers    \* may call HandleEvent

ASSUME FiniteAssumption ==
    /\ IsFiniteSet(Handlers)
    /\ IsFiniteSet(Children)

ASSUME DistinctAssumption ==
    /\ Main \notin Workers \cup Tasks \cup Stoppers
    /\ Handlers \cap Children = {}
    /\ Workers \cap (Tasks \cup Stoppers) = {}
    /\ Tasks \cap Stoppers = {}
    /\ Viewers \cap Agents = {}
    /\ Listener \notin Agents \cup Viewers
    /\ NoOne \notin Agents \cup Viewers \cup {Listener}

ASSUME ParameterAssumption ==
    /\ ScanThreshold \in Nat
    /\ LogFaults \in BOOLEAN

VARIABLES
    pc,            \* where each goroutine is
    ev,            \* the type of the event it is handling, or "none"
    it,            \* its position in the range over msg_signal
    mutex,         \* holder of session.mutex
    thread_count,
    active,        \* session.active
    proxy_active,  \* proxy.active, as the session finds it when it looks
    remote,        \* session.remote_conn: "none", "up" or "down"
    events,        \* session.events
    log_fd,        \* "nil", "open" or "closed"
    log,           \* what has been written to the log file
    filename,      \* session.filename: how many ".scan" have been added to it
    disk,          \* the file names that exist
    session_list,  \* the file names in .session_list, in order
    arrays,        \* the backing arrays msg_signal has had
    msg_signal,    \* the slice header: which array, how long
    vpc,           \* where each viewer's goroutine is in playSession
    conn,          \* whether the viewer's web socket is still up
    last,          \* last_event_index
    target,        \* new_event_index
    received       \* the events each browser has acknowledged

goVars     == <<pc, ev, it>>
stateVars  == <<thread_count, active, proxy_active, remote>>
logVars    == <<log_fd, log>>
fileVars   == <<filename, disk, session_list>>
signalVars == <<arrays, msg_signal>>
viewVars   == <<vpc, conn, last, target, received>>
vars == <<goVars, mutex, stateVars, events, logVars, fileVars, signalVars, viewVars>>

EventTypes == {"session-start", "session-stop", "new-request", "new-message"}
Event(t, a) == [type |-> t, by |-> a]
Event0 == Event("none", NoOne)        \* a list entry not written yet
LogOpen == Event("[", NoOne)
LogClose == Event("]", NoOne)
AllEvents == [type : EventTypes, by : Agents]

\* A range over msg_signal: what it sends, the slice header it copied, the next
\* index and the element loaded from it.
RangeAt(sig, arr, len, pos, cur) ==
    [sig |-> sig, arr |-> arr, len |-> len, pos |-> pos, cur |-> cur]
NoRange == RangeAt("none", 1, 0, 1, NoOne)

Goto(a, l) == pc' = [pc EXCEPT ![a] = l]

\* Lock(a) and Unlock are sync.Mutex; Free is a Lock and Unlock around one step.
Free == mutex = NoOne /\ UNCHANGED mutex
Lock(a) == mutex = NoOne /\ mutex' = a
Unlock == mutex' = NoOne

Init ==
    /\ pc = [a \in Agents |-> IF a = Main THEN "auth" ELSE "idle"]
    /\ ev = [a \in Agents |-> "none"]
    /\ it = [a \in Agents |-> NoRange]
    /\ mutex = Listener
    /\ thread_count = 0
    /\ active = FALSE
    /\ proxy_active = FALSE
    /\ remote = "none"
    /\ events = << >>
    /\ log_fd = "nil"
    /\ log = << >>
    /\ filename = 0
    /\ disk = {}
    /\ session_list = << >>
    /\ arrays = << << >> >>
    /\ msg_signal = [arr |-> 1, len |-> 0]
    /\ vpc = [v \in Viewers |-> "away"]
    /\ conn = [v \in Viewers |-> TRUE]
    /\ last = [v \in Viewers |-> 0]
    /\ target = [v \in Viewers |-> 0]
    /\ received = [v \in Viewers |-> << >>]

-----------------------------------------------------------------------------
(* HandleClientConn and the threads it starts *)

\* PasswordCallback accepts the client: the session's fields are set and the
\* mutex the accept loop took is released.
AuthOK ==
    /\ pc[Main] = "auth"
    /\ Goto(Main, "mark_start")
    /\ active' = TRUE
    /\ thread_count' = 0
    /\ msg_signal' = [arr |-> 1, len |-> 0]
    /\ filename' = 0
    /\ Unlock
    /\ UNCHANGED <<ev, it, proxy_active, remote, events, logVars, disk,
                   session_list, arrays, viewVars>>

\* The handshake fails: the accept loop goes on, the session stays locked.
AuthFail ==
    /\ pc[Main] = "auth"
    /\ Goto(Main, "refused")
    /\ UNCHANGED <<ev, it, mutex, stateVars, events, logVars, fileVars,
                   signalVars, viewVars>>

\* Faulty variant: only HandleClientConn counts itself.
MarkThreadStartedUncounted(a) ==
    /\ pc[a] = "mark_start"
    /\ Free
    /\ thread_count' = IF a = Main THEN thread_count + 1 ELSE thread_count
    /\ Goto(a, IF a = Main THEN "open_log" ELSE "loop")
    /\ UNCHANGED <<ev, it, active, proxy_active, remote, events, logVars,
                   fileVars, signalVars, viewVars>>

MarkThreadStarted(a) ==
    /\ pc[a] = "mark_start"
    /\ Free
    /\ thread_count' = thread_count + 1
    /\ Goto(a, IF a = Main THEN "open_log" ELSE "loop")
    /\ UNCHANGED <<ev, it, active, proxy_active, remote, events, logVars,
                   fileVars, signalVars, viewVars>>

\* Faulty variant: compares with zero instead of one.
MarkThreadStoppedLate(a) ==
    /\ pc[a] = "mark_stop"
    /\ thread_count' = thread_count - 1
    /\ IF thread_count' < 0
       THEN Lock(a) /\ Goto(a, "end_check")
       ELSE Free /\ Goto(a, "done")
    /\ UNCHANGED <<ev, it, active, proxy_active, remote, events, logVars,
                   fileVars, signalVars, viewVars>>

\* The last thread calls End with the mutex held.
MarkThreadStopped(a) ==
    /\ pc[a] = "mark_stop"
    /\ thread_count' = thread_count - 1
    /\ IF thread_count' < 1
       THEN Lock(a) /\ Goto(a, "end_check")
       ELSE Free /\ Goto(a, "done")
    /\ UNCHANGED <<ev, it, active, proxy_active, remote, events, logVars,
                   fileVars, signalVars, viewVars>>

\* initializeLog: a failed open leaves a nil file.  Once the name carries the
\* folder twice (see RenameLog) its directory need not exist.
OpenLog ==
    /\ pc[Main] = "open_log"
    /\ Free
    /\ \/ log_fd' = "open" /\ disk' = disk \cup {filename}
       \/ /\ LogFaults \/ filename > 0
          /\ UNCHANGED <<log_fd, disk>>
    /\ Goto(Main, "write_open")
    /\ UNCHANGED <<ev, it, stateVars, events, log, filename, session_list,
                   signalVars, viewVars>>

\* appendToLog, under log_mutex: a failed write closes the file, a write to a
\* nil or closed file is dropped.
AppendToLog(entry) ==
    \/ log_fd = "open" /\ log' = Append(log, entry) /\ UNCHANGED log_fd
    \/ LogFaults /\ log_fd = "open" /\ log_fd' = "closed" /\ UNCHANGED log
    \/ log_fd # "open" /\ UNCHANGED logVars

WriteOpen ==
    /\ pc[Main] = "write_open"
    /\ AppendToLog(LogOpen)
    /\ Goto(Main, "dial")
    /\ UNCHANGED <<ev, it, mutex, stateVars, events, fileVars, signalVars, viewVars>>

\* net.DialTimeout or ssh.NewClientConn fails: no start event is recorded.
DialFails ==
    /\ pc[Main] = "dial"
    /\ Goto(Main, "mark_stop")
    /\ UNCHANGED <<ev, it, mutex, stateVars, events, logVars, fileVars,
                   signalVars, viewVars>>

DialSucceeds ==
    /\ pc[Main] = "dial"
    /\ Free
    /\ remote' = "up"
    /\ ev' = [ev EXCEPT ![Main] = "session-start"]
    /\ Goto(Main, "add")
    /\ UNCHANGED <<it, thread_count, active, proxy_active, events, logVars,
                   fileVars, signalVars, viewVars>>

\* Traffic waits until the proxy is active; then the handlers are started.
Poll ==
    /\ pc[Main] = "poll"
    /\ proxy_active
    /\ pc' = [a \in Agents |-> IF a = Main THEN "wait"
                               ELSE IF a \in Handlers THEN "mark_start"
                               ELSE pc[a]]
    /\ UNCHANGED <<ev, it, mutex, stateVars, events, logVars, fileVars,
                   signalVars, viewVars>>

\* Faulty variant: does not wait for the connection to shut down.
ShutdownNotAwaited ==
    /\ pc[Main] = "wait"
    /\ Goto(Main, "mark_stop")
    /\ UNCHANGED <<ev, it, mutex, stateVars, events, logVars, fileVars,
                   signalVars, viewVars>>

\* <-shutdown_err: remote_conn.Wait() has returned.
ShutdownSeen ==
    /\ pc[Main] = "wait"
    /\ remote = "down"
    /\ Goto(Main, "mark_stop")
    /\ UNCHANGED <<ev, it, mutex, stateVars, events, logVars, fileVars,
                   signalVars, viewVars>>

\* A thread starts another counted activation.
SpawnChild(w, c) ==
    /\ pc[w] = "loop"
    /\ pc[c] = "idle"
    /\ Goto(c, "mark_start")
    /\ UNCHANGED <<ev, it, mutex, stateVars, events, logVars, fileVars,
                   signalVars, viewVars>>

\* forwardChannel and forwardRequest each handle one event themselves.
ChildEvent(c) ==
    /\ pc[c] = "loop"
    /\ \A i \in DOMAIN events : events[i] # Event("new-request", c)
    /\ ev' = [ev EXCEPT ![c] = "new-request"]
    /\ Goto(c, "add")
    /\ UNCHANGED <<it, mutex, stateVars, events, logVars, fileVars,
                   signalVars, viewVars>>

\* channelWrapper.Read (and a window resize) hands its event to a goroutine
\* of its own, which no counter knows of.
SpawnTask(w, t) ==
    /\ pc[w] = "loop"
    /\ pc[t] = "idle"
    /\ ev' = [ev EXCEPT ![t] = "new-message"]
    /\ Goto(t, "add")
    /\ UNCHANGED <<it, mutex, stateVars, events, logVars, fileVars,
                   signalVars, viewVars>>

\* The thread's channel or connection is closed.  HandleChannels closes the
\* connection it forwards to, which may be the remote one.  (A forwardRequest
\* returns to its caller; the model lets the caller go on meanwhile.)
WorkerReturn(w) ==
    /\ pc[w] = "loop"
    /\ \/ UNCHANGED remote
       \/ w \in Handlers /\ remote' = "down"
    /\ Goto(w, "mark_stop")
    /\ UNCHANGED <<ev, it, mutex, thread_count, active, proxy_active, events,
                   logVars, fileVars, signalVars, viewVars>>

-----------------------------------------------------------------------------
(* HandleEvent: AddEvent, LogEvent, signalNewMessage *)

\* Faulty variant: appends without event_mutex.
AddEventUnlocked(a) ==
    /\ pc[a] = "add"
    /\ events' = Append(events, Event0)
    /\ Goto(a, "store")
    /\ UNCHANGED <<ev, it, mutex, stateVars, logVars, fileVars, signalVars, viewVars>>

\* append, under event_mutex, in the order the compiler stores: first the
\* length, then the element.  Readers hold no lock and may come in between.
AddEvent(a) ==
    /\ pc[a] = "add"
    /\ \A b \in Agents : pc[b] # "store"
    /\ events' = Append(events, Event0)
    /\ Goto(a, "store")
    /\ UNCHANGED <<ev, it, mutex, stateVars, logVars, fileVars, signalVars, viewVars>>

StoreEvent(a) ==
    /\ pc[a] = "store"
    /\ events' = [events EXCEPT ![Len(events)] = Event(ev[a], a)]
    /\ Goto(a, "log")
    /\ UNCHANGED <<ev, it, mutex, stateVars, logVars, fileVars, signalVars, viewVars>>

\* Faulty variant: logs the last event of the list instead of its own.
LogEventLast(a) ==
    /\ pc[a] = "log"
    /\ AppendToLog(events[Len(events)])
    /\ Goto(a, "range")
    /\ UNCHANGED <<ev, it, mutex, stateVars, events, fileVars, signalVars, viewVars>>

LogEvent(a) ==
    /\ pc[a] = "log"
    /\ AppendToLog(Event(ev[a], a))
    /\ Goto(a, "range")
    /\ UNCHANGED <<ev, it, mutex, stateVars, events, fileVars, signalVars, viewVars>>

\* Faulty variant: the range stops one short.
StartRangeShort(a) ==
    /\ pc[a] \in {"range", "range_end"}
    /\ it' = [it EXCEPT ![a] = RangeAt(IF pc[a] = "range" THEN "NEW" ELSE "END",
                                     msg_signal.arr, msg_signal.len - 1, 1, NoOne)]
    /\ Goto(a, "load")
    /\ UNCHANGED <<ev, mutex, stateVars, events, logVars, fileVars, signalVars, viewVars>>

\* sendSignalToClients: range copies the slice header once ...
StartRange(a) ==
    /\ pc[a] \in {"range", "range_end"}
    /\ it' = [it EXCEPT ![a] = RangeAt(IF pc[a] = "range" THEN "NEW" ELSE "END",
                                     msg_signal.arr, msg_signal.len, 1, NoOne)]
    /\ Goto(a, "load")
    /\ UNCHANGED <<ev, mutex, stateVars, events, logVars, fileVars, signalVars, viewVars>>

\* ... and loads each element from the shared array when it comes to it.
LoadSignal(a) ==
    /\ pc[a] = "load"
    /\ it[a].pos <= it[a].len
    /\ it' = [it EXCEPT ![a] = RangeAt(@.sig, @.arr, @.len, @.pos, arrays[@.arr][@.pos])]
    /\ Goto(a, "send")
    /\ UNCHANGED <<ev, mutex, stateVars, events, logVars, fileVars, signalVars, viewVars>>

\* The viewer's goroutine is at "<-client_signal".
Ready(v) == vpc[v] = "play" /\ last[v] = target[v]

\* An unbuffered send: it blocks until the viewer receives, for ever when the
\* element is a nil channel.
SendSignal(a) ==
    /\ pc[a] = "send"
    /\ it[a].cur \in Viewers
    /\ Ready(it[a].cur)
    /\ vpc' = [vpc EXCEPT ![it[a].cur] = IF it[a].sig = "NEW" THEN "woken" ELSE "leaving"]
    /\ it' = [it EXCEPT ![a] = RangeAt(@.sig, @.arr, @.len, @.pos + 1, NoOne)]
    /\ Goto(a, "load")
    /\ UNCHANGED <<ev, mutex, stateVars, events, logVars, fileVars, signalVars,
                   conn, last, target, received>>

\* Where HandleEvent and signalSessionEnd return to.
AfterRange(a) ==
    IF it[a].sig = "END" THEN "bracket"
    ELSE IF ev[a] = "session-stop" THEN "range_end"
    ELSE IF a = Main THEN "poll"
    ELSE IF a \in Workers THEN "loop"
    ELSE "done"

EndRange(a) ==
    /\ pc[a] = "load"
    /\ it[a].pos > it[a].len
    /\ Goto(a, AfterRange(a))
    /\ ev' = [ev EXCEPT ![a] = IF @ = "session-stop" THEN @ ELSE "none"]
    /\ it' = [it EXCEPT ![a] = NoRange]
    /\ UNCHANGED <<mutex, stateVars, events, logVars, fileVars, signalVars, viewVars>>

-----------------------------------------------------------------------------
(* SessionContext.End, called by the last thread or by ProxyContext.Stop *)

StopCall(s) ==
    /\ pc[s] = "idle"
    /\ Goto(s, "end_check")
    /\ UNCHANGED <<ev, it, mutex, stateVars, events, logVars, fileVars,
                   signalVars, viewVars>>

\* End returns: a thread releases the mutex in markThreadStopped, Stop has none.
Return(a) ==
    /\ Goto(a, "done")
    /\ IF a \in Threads THEN Unlock ELSE UNCHANGED mutex

EndCheck(a) ==
    /\ pc[a] = "end_check"
    /\ IF active THEN Goto(a, "end_set") /\ UNCHANGED mutex ELSE Return(a)
    /\ UNCHANGED <<ev, it, stateVars, events, logVars, fileVars, signalVars, viewVars>>

\* Faulty variant: the session stays active.
EndSetActive(a) ==
    /\ pc[a] = "end_set"
    /\ ev' = [ev EXCEPT ![a] = "session-stop"]
    /\ Goto(a, "add")
    /\ UNCHANGED <<it, mutex, stateVars, events, logVars, fileVars, signalVars, viewVars>>

EndSet(a) ==
    /\ pc[a] = "end_set"
    /\ active' = FALSE
    /\ ev' = [ev EXCEPT ![a] = "session-stop"]
    /\ Goto(a, "add")
    /\ UNCHANGED <<it, mutex, thread_count, proxy_active, remote, events, logVars,
                   fileVars, signalVars, viewVars>>

\* finalizeLog, in three steps: the bracket, the close, the rename.
CloseBracket(a) ==
    /\ pc[a] = "bracket"
    /\ AppendToLog(LogClose)
    /\ Goto(a, "close")
    /\ UNCHANGED <<ev, it, mutex, stateVars, events, fileVars, signalVars, viewVars>>

CloseLog(a) ==
    /\ pc[a] = "close"
    /\ log_fd' = IF log_fd = "nil" THEN "nil" ELSE "closed"
    /\ Goto(a, "rename")
    /\ UNCHANGED <<ev, it, mutex, stateVars, events, log, fileVars, signalVars, viewVars>>

\* Faulty variant: the session keeps its old name.
RenameLogSilently(a) ==
    /\ pc[a] = "rename"
    /\ disk' = IF Len(events) < ScanThreshold /\ filename \in disk
               THEN (disk \ {filename}) \cup {filename + 1}
               ELSE disk
    /\ Goto(a, "list")
    /\ UNCHANGED <<ev, it, mutex, stateVars, events, logVars, filename,
                   session_list, signalVars, viewVars>>

\* A short session gets the new name whether or not os.Rename succeeds.  The new
\* name includes the folder, so the path of a second rename need not exist.
RenameLog(a) ==
    /\ pc[a] = "rename"
    /\ IF Len(events) < ScanThreshold
       THEN /\ filename' = filename + 1
            /\ \/ filename \in disk /\ disk' = (disk \ {filename}) \cup {filename + 1}
               \/ /\ filename \notin disk \/ LogFaults \/ filename > 0
                  /\ UNCHANGED disk
       ELSE UNCHANGED <<filename, disk>>
    /\ Goto(a, "list")
    /\ UNCHANGED <<ev, it, mutex, stateVars, events, logVars, session_list,
                   signalVars, viewVars>>

AddSessionToSessionList(a) ==
    /\ pc[a] = "list"
    /\ session_list' = Append(session_list, filename)
    /\ Goto(a, "disconnect")
    /\ UNCHANGED <<ev, it, mutex, stateVars, events, logVars, filename, disk,
                   signalVars, viewVars>>

CloseRemote(a) ==
    /\ pc[a] = "disconnect"
    /\ remote' = IF remote = "none" THEN "none" ELSE "down"
    /\ ev' = [ev EXCEPT ![a] = "none"]
    /\ Return(a)
    /\ UNCHANGED <<it, thread_count, active, proxy_active, events, logVars,
                   fileVars, signalVars, viewVars>>

-----------------------------------------------------------------------------
(* playSession *)

\* A browser asks for the session: the number of events is read first, the
\* signal is made afterwards.
Attach(v) ==
    /\ vpc[v] = "away"
    /\ vpc' = [vpc EXCEPT ![v] = "enter"]
    /\ target' = [target EXCEPT ![v] = Len(events)]
    /\ UNCHANGED <<goVars, mutex, stateVars, events, logVars, fileVars,
                   signalVars, conn, last, received>>

\* What append makes of the backing array when it is full.
Grow(arr) == [i \in 1..(IF arr = << >> THEN 1 ELSE 2 * Len(arr)) |->
                IF i <= Len(arr) THEN arr[i] ELSE NoOne]

\* MakeNewSignal: append under the mutex, the length before the element.
MakeNewSignal(v) ==
    LET old == arrays[msg_signal.arr]
        full == msg_signal.len = Len(old)
    IN  /\ vpc[v] = "enter"
        /\ Lock(v)
        /\ arrays' = IF full THEN Append(arrays, Grow(old)) ELSE arrays
        /\ msg_signal' = [arr |-> IF full THEN Len(arrays) + 1 ELSE msg_signal.arr,
                          len |-> msg_signal.len + 1]
        /\ vpc' = [vpc EXCEPT ![v] = "slot"]
        /\ UNCHANGED <<goVars, stateVars, events, logVars, fileVars, conn, last,
                       target, received>>

StoreSignal(v) ==
    /\ vpc[v] = "slot"
    /\ arrays' = [arrays EXCEPT ![msg_signal.arr][msg_signal.len] = v]
    /\ vpc' = [vpc EXCEPT ![v] = "play"]
    /\ Unlock
    /\ UNCHANGED <<goVars, stateVars, events, logVars, fileVars, msg_signal, conn,
                   last, target, received>>

\* Faulty variant: sends the newest event of the batch each time.
SendEventNewest(v) ==
    /\ vpc[v] = "play"
    /\ last[v] < target[v]
    /\ conn[v]
    /\ received' = [received EXCEPT ![v] = Append(@, events[target[v]])]
    /\ last' = [last EXCEPT ![v] = @ + 1]
    /\ UNCHANGED <<goVars, mutex, stateVars, events, logVars, fileVars, signalVars,
                   vpc, conn, target>>

\* send_latest_events: one event is written and acknowledged.  (An answer other
\* than "ack" makes the server write the same event again.)
SendEvent(v) ==
    /\ vpc[v] = "play"
    /\ last[v] < target[v]
    /\ conn[v]
    /\ received' = [received EXCEPT ![v] = Append(@, events[last[v] + 1])]
    /\ last' = [last EXCEPT ![v] = @ + 1]
    /\ UNCHANGED <<goVars, mutex, stateVars, events, logVars, fileVars, signalVars,
                   vpc, conn, target>>

\* Faulty variant: leaves playSession without its RemoveSignal.
SkipAndLeave(v) ==
    /\ vpc[v] = "play"
    /\ last[v] < target[v]
    /\ ~conn[v]
    /\ vpc' = [vpc EXCEPT ![v] = "gone"]
    /\ UNCHANGED <<goVars, mutex, stateVars, events, logVars, fileVars, signalVars,
                   last, conn, target, received>>

\* The web socket is gone: every read fails and the loop runs over the rest.
SkipEvents(v) ==
    /\ vpc[v] = "play"
    /\ last[v] < target[v]
    /\ ~conn[v]
    /\ last' = [last EXCEPT ![v] = target[v]]
    /\ UNCHANGED <<goVars, mutex, stateVars, events, logVars, fileVars, signalVars,
                   vpc, conn, target, received>>

\* SIGNAL_NEW_MESSAGE has been received.
ReadLength(v) ==
    /\ vpc[v] = "woken"
    /\ target' = [target EXCEPT ![v] = Len(events)]
    /\ vpc' = [vpc EXCEPT ![v] = "play"]
    /\ UNCHANGED <<goVars, mutex, stateVars, events, logVars, fileVars, signalVars,
                   conn, last, received>>

\* Faulty variant: drops the last element without moving it.
RemoveSignalLast(v) ==
    /\ vpc[v] = "leaving"
    /\ Free
    /\ msg_signal' = [arr |-> msg_signal.arr, len |-> msg_signal.len - 1]
    /\ vpc' = [vpc EXCEPT ![v] = "gone"]
    /\ UNCHANGED <<goVars, stateVars, events, logVars, fileVars, arrays, conn, last,
                   target, received>>

\* RemoveSignal: the last element takes the place of the first one that is v's.
RemoveSignal(v) ==
    LET arr == arrays[msg_signal.arr]
        here == {i \in 1..msg_signal.len : arr[i] = v}
    IN  /\ vpc[v] = "leaving"
        /\ Free
        /\ IF here = {} THEN UNCHANGED signalVars
           ELSE \E i \in here :
                  /\ \A j \in here : i <= j
                  /\ arrays' = [arrays EXCEPT ![msg_signal.arr][i] = arr[msg_signal.len]]
                  /\ msg_signal' = [arr |-> msg_signal.arr, len |-> msg_signal.len - 1]
        /\ vpc' = [vpc EXCEPT ![v] = "gone"]
        /\ UNCHANGED <<goVars, stateVars, events, logVars, fileVars, conn, last,
                       target, received>>

-----------------------------------------------------------------------------
(* The environment *)

RemoteDown ==
    /\ remote = "up"
    /\ remote' = "down"
    /\ UNCHANGED <<goVars, mutex, thread_count, active, proxy_active, events,
                   logVars, fileVars, signalVars, viewVars>>

\* ProxyContext.Activate and Deactivate.  The session looks at proxy.active in its
\* polling loop only, so a change made earlier is the same as one made there.
SetActive ==
    /\ pc[Main] = "poll"
    /\ proxy_active' = ~proxy_active
    /\ UNCHANGED <<goVars, mutex, thread_count, active, remote, events, logVars,
                   fileVars, signalVars, viewVars>>

\* The browser closes its web socket, which the server notices when it next
\* reads an answer, and only then.
Hangup(v) ==
    /\ conn[v]
    /\ vpc[v] = "play"
    /\ last[v] < target[v]
    /\ conn' = [conn EXCEPT ![v] = FALSE]
    /\ UNCHANGED <<goVars, mutex, stateVars, events, logVars, fileVars, signalVars,
                   vpc, last, target, received>>

-----------------------------------------------------------------------------
(* The specification *)

\* The steps a goroutine takes by itself once it is running.
HandleEventStep(a) ==
    \/ AddEvent(a) \/ StoreEvent(a) \/ LogEvent(a)
    \/ StartRange(a) \/ LoadSignal(a) \/ SendSignal(a) \/ EndRange(a)

EndStep(a) ==
    \/ EndCheck(a) \/ EndSet(a)
    \/ CloseBracket(a) \/ CloseLog(a) \/ RenameLog(a)
    \/ AddSessionToSessionList(a) \/ CloseRemote(a)

ThreadStep(a) == MarkThreadStarted(a) \/ MarkThreadStopped(a)

MainStep == OpenLog \/ WriteOpen \/ Poll \/ ShutdownSeen

ViewerStep(v) ==
    \/ MakeNewSignal(v) \/ StoreSignal(v) \/ SendEvent(v) \/ SkipEvents(v)
    \/ ReadLength(v) \/ RemoveSignal(v)

\* What clients, the remote server, browsers and operators decide.
Environment ==
    \/ AuthOK \/ AuthFail \/ DialFails \/ DialSucceeds
    \/ RemoteDown \/ SetActive
    \/ \E w \in Workers, c \in Children : SpawnChild(w, c)
    \/ \E w \in Workers, t \in Tasks : SpawnTask(w, t)
    \/ \E c \in Children : ChildEvent(c)
    \/ \E w \in Workers : WorkerReturn(w)
    \/ \E s \in Stoppers : StopCall(s)
    \/ \E v \in Viewers : Attach(v) \/ Hangup(v)

Next ==
    \/ \E a \in Agents : HandleEventStep(a) \/ EndStep(a)
    \/ \E a \in Threads : ThreadStep(a)
    \/ MainStep
    \/ \E v \in Viewers : ViewerStep(v)
    \/ Environment

Spec == Init /\ [][Next]_vars

\* Goroutines run; a browser acknowledges or hangs up; a dead connection makes
\* the threads that read from it return.  The dial may hang for ever, and nobody
\* has to connect, send, activate the proxy or stop it.
Fairness ==
    /\ \A a \in Agents : WF_vars(HandleEventStep(a)) /\ WF_vars(EndStep(a))
    /\ \A a \in Threads : WF_vars(ThreadStep(a))
    /\ WF_vars(MainStep)
    /\ \A v \in Viewers : WF_vars(ViewerStep(v))
    /\ \A w \in Workers : WF_vars(remote = "down" /\ WorkerReturn(w))

FairSpec == Spec /\ Fairness

-----------------------------------------------------------------------------
(* Types *)

HandlingPcs == {"add", "store", "log", "range", "load", "send"}
EndPcs == {"end_check", "end_set", "range_end", "bracket", "close", "rename",
           "list", "disconnect"}
RunningPcs == {"open_log", "write_open", "dial", "poll", "wait", "loop", "mark_stop"}
OutsidePcs == {"auth", "refused", "idle", "mark_start", "done"}

Slots == Viewers \cup {NoOne}

GoTypes ==
    /\ pc \in [Agents -> HandlingPcs \cup EndPcs \cup RunningPcs \cup OutsidePcs]
    /\ ev \in [Agents -> EventTypes \cup {"none"}]
    /\ it \in [Agents -> [sig : {"none", "NEW", "END"}, arr : Nat, len : Nat,
                          pos : Nat, cur : Slots]]

StateTypes ==
    /\ mutex \in Agents \cup Viewers \cup {Listener, NoOne}
    /\ thread_count \in Int
    /\ active \in BOOLEAN
    /\ proxy_active \in BOOLEAN
    /\ remote \in {"none", "up", "down"}

RecordTypes ==
    /\ events \in Seq(AllEvents \cup {Event0})
    /\ log_fd \in {"nil", "open", "closed"}
    /\ log \in Seq(AllEvents \cup {LogOpen, LogClose})

FileTypes ==
    /\ filename \in Nat
    /\ disk \in SUBSET Nat
    /\ session_list \in Seq(Nat)

SignalTypes ==
    /\ arrays \in Seq(Seq(Slots))
    /\ msg_signal \in [arr : Nat, len : Nat]

ViewTypes ==
    /\ vpc \in [Viewers -> {"away", "enter", "slot", "play", "woken", "leaving", "gone"}]
    /\ conn \in [Viewers -> BOOLEAN]
    /\ last \in [Viewers -> Nat]
    /\ target \in [Viewers -> Nat]
    /\ received \in [Viewers -> Seq(AllEvents \cup {Event0})]

\* Every variable of the session holds a value of its Go type; in particular no
\* entry of the log is one that was not written yet.
TypeOK == GoTypes /\ StateTypes /\ RecordTypes /\ FileTypes /\ SignalTypes /\ ViewTypes

-----------------------------------------------------------------------------
(* Safety *)

\* The goroutine is in SessionContext.End.
Ending(a) == pc[a] \in EndPcs \/ (pc[a] \in HandlingPcs /\ ev[a] = "session-stop")

\* The goroutine is between markThreadStarted and markThreadStopped.
Counted(a) == pc[a] \in RunningPcs \/ (pc[a] \in HandlingPcs /\ ev[a] # "session-stop")

\* thread_count is exactly the number of threads that are between
\* markThreadStarted and markThreadStopped (session.go:309-344): it can neither
\* drop to zero under a running thread nor stay up after the last one.
ThreadCountExact == thread_count = Cardinality({a \in Threads : Counted(a)})

\* However often the count of threads drops to zero, and even when Stop ends the
\* session at the same time, the session's own threads record session-stop at
\* most once (End checks session.active with the mutex held, session.go:317-343).
ThreadsRecordOneStop ==
    \A i, j \in DOMAIN events :
        (/\ events[i].type = "session-stop" /\ events[i].by \in Threads
         /\ events[j].type = "session-stop" /\ events[j].by \in Threads) => i = j

Recorded(l, e) == \E i \in DOMAIN l : l[i] = e

\* The log file follows the list in memory: an event is written to the file only
\* after it is in session.events, and at most once (HandleEvent, events.go:88-105).
LogFollowsMemory ==
    \A i \in DOMAIN log : log[i].type \in EventTypes =>
        /\ Recorded(events, log[i])
        /\ \A j \in DOMAIN log : log[j] = log[i] => i = j

Watching(v) == vpc[v] \in {"play", "woken", "leaving"}

\* A viewer that is playing the session is in msg_signal until its own
\* RemoveSignal, whoever else joins or leaves (append into a shared backing
\* array, swap-removal in place: session.go:415-433).
WatchersRegistered ==
    \A v \in Viewers : Watching(v) =>
        \E i \in 1..msg_signal.len : arrays[msg_signal.arr][i] = v

\* No thread ends the session under an open remote connection: the last
\* markThreadStopped comes after HandleClientConn saw the shutdown or never got a
\* connection (session.go:337-344, proxy.go:375-388, 431).
StopsAfterShutdown == (\E a \in Threads : Ending(a)) => remote # "up"

\* A replay that the browser's list offers (it hides names ending in .scan,
\* lib.js:806) is a file that exists, under the name listed.
OfferedReplayExists ==
    \A i \in DOMAIN session_list : session_list[i] = 0 => 0 \in disk

\* What a viewer is sent refines the abstract feed: a gap-free, in-order prefix
\* of session.events, whatever the interleaving of AddEvent, the signals and
\* send_latest_events (web.go:112-136, 185-213).
Feed == INSTANCE EventFeed WITH Readers <- Viewers, Items <- AllEvents,
                                Hole <- Event0, feed <- events, got <- received
FeedSpec == Feed!Spec

-----------------------------------------------------------------------------
(* Liveness *)

\* No goroutine read a slice between the two stores of an append: none is
\* blocked on a nil channel, no browser was sent an unwritten event.
NoTornRead ==
    /\ \A a \in Agents : pc[a] = "send" => it[a].cur # NoOne
    /\ \A v \in Viewers : ~Recorded(received[v], Event0)

\* A session that does not wait for activation for ever, and whose remote side is
\* gone or was never reached, is ended and listed for replay, whatever its viewers
\* do.
SessionEnds ==
    ([]NoTornRead /\ []<>(pc[Main] # "poll")) =>
        ((remote = "down" \/ pc[Main] = "mark_stop") ~> session_list # << >>)

\* Nobody keeps session.mutex for ever, although End sends to every viewer on an
\* unbuffered channel while holding it (session.go:295, 341).
MutexReleased ==
    []NoTornRead => ((mutex \in Agents \cup Viewers) ~> mutex = NoOne)

\* A browser that is watching when the session stops is sent the session-stop
\* event before its goroutine leaves, unless it hangs up.
StopReachesWatchers ==
    []NoTornRead =>
        \A v \in Viewers :
            (/\ vpc[v] \in {"play", "woken"}
             /\ \E a \in Agents : pc[a] = "add" /\ ev[a] = "session-stop")
            ~> (~conn[v] \/ \E i \in DOMAIN received[v] : received[v][i].type = "session-stop")

-----------------------------------------------------------------------------
(* What the documentation says and the code does not do *)

\* README.md: every event is "also written to disk in JSON".  A log file that
\* has been closed is a JSON array: the bracket, the start event (the only one
\* written without a leading comma), the other events, the bracket.
LogIsJSON ==
    (log_fd = "closed" /\ log # << >>) =>
        /\ log[1] = LogOpen
        /\ \A i \in DOMAIN log : (log[i].type = "session-start") <=> (i = 2 /\ Len(log) > 2)
        /\ \A i \in DOMAIN log : (log[i] = LogClose) <=> (i = Len(log))
=============================================================================
