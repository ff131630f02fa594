---------------------------- MODULE SessionProofs ----------------------------
(***************************************************************************)
(* Theorems about Session, for every number of threads, tasks, stoppers    *)
(* and viewers.                                                            *)
(***************************************************************************)
EXTENDS Session, TLAPS, SequenceTheorems, FiniteSetTheorems

USE DEF Workers, Threads, Agents

-----------------------------------------------------------------------------
(* Sequences *)

\* What append does to a slice.
LEMMA AppendFacts ==
    ASSUME NEW S, NEW s \in Seq(S), NEW e \in S
    PROVE  /\ Append(s, e) \in Seq(S)
           /\ Len(Append(s, e)) = Len(s) + 1
           /\ \A i \in 1..Len(s) : Append(s, e)[i] = s[i]
           /\ Append(s, e)[Len(s) + 1] = e
  OBVIOUS

\* What an assignment to an element of a slice does; outside the slice, nothing.
LEMMA ReplaceFacts ==
    ASSUME NEW S, NEW s \in Seq(S), NEW k, NEW e \in S
    PROVE  /\ [s EXCEPT ![k] = e] \in Seq(S)
           /\ Len([s EXCEPT ![k] = e]) = Len(s)
           /\ \A i \in 1..Len(s) : i # k => [s EXCEPT ![k] = e][i] = s[i]
  <1>1. CASE k \in 1..Len(s)
    BY <1>1, ExceptSeq
  <1>2. CASE k \notin 1..Len(s)
    <2>1. s \in [1..Len(s) -> S] /\ DOMAIN s = 1..Len(s)
      BY LenProperties
    <2>2. [s EXCEPT ![k] = e] = s
      BY <1>2, <2>1
    <2> QED BY <2>2
  <1> QED BY <1>1, <1>2

-----------------------------------------------------------------------------
(* Who writes what *)

USE DEF Next, HandleEventStep, EndStep, ThreadStep, MainStep, ViewerStep, Environment,
        AddEvent, StoreEvent, LogEvent, StartRange, LoadSignal, SendSignal, EndRange,
        EndCheck, EndSet, CloseBracket, CloseLog, RenameLog, AddSessionToSessionList,
        CloseRemote, MarkThreadStarted, MarkThreadStopped, OpenLog, WriteOpen, Poll,
        ShutdownSeen, AuthOK, AuthFail, DialFails, DialSucceeds, RemoteDown, SetActive,
        SpawnChild, SpawnTask, ChildEvent, WorkerReturn, StopCall, Attach, MakeNewSignal,
        StoreSignal, SendEvent, SkipEvents, ReadLength, RemoveSignal, Hangup, vars

\* msg_signal: the password callback, MakeNewSignal and RemoveSignal.
LEMMA SignalFrame ==
    [Next]_vars =>
        \/ UNCHANGED signalVars
        \/ AuthOK
        \/ \E v \in Viewers : MakeNewSignal(v) \/ StoreSignal(v) \/ RemoveSignal(v)
  OBVIOUS

\* The event list: AddEvent.
LEMMA EventsFrame ==
    [Next]_vars =>
        \/ UNCHANGED events
        \/ \E a \in Agents : AddEvent(a) \/ StoreEvent(a)
  OBVIOUS

\* The log file: initializeLog, LogEvent and finalizeLog.
LEMMA LogFrame ==
    [Next]_vars =>
        \/ UNCHANGED logVars
        \/ OpenLog \/ WriteOpen
        \/ \E a \in Agents : LogEvent(a) \/ CloseBracket(a) \/ CloseLog(a)
  OBVIOUS

\* File names: initializeLog, finalizeLog, AddSessionToSessionList.
LEMMA FileFrame ==
    [Next]_vars =>
        \/ UNCHANGED fileVars
        \/ AuthOK \/ OpenLog
        \/ \E a \in Agents : RenameLog(a) \/ AddSessionToSessionList(a)
  BY DEF fileVars

\* A viewer: its own goroutine, its browser, and whoever signals it.
LEMMA ViewFrame ==
    [Next]_vars =>
        \/ UNCHANGED viewVars
        \/ \E a \in Agents : SendSignal(a)
        \/ \E v \in Viewers : ViewerStep(v) \/ Attach(v) \/ Hangup(v)
  OBVIOUS

\* The range of a goroutine over msg_signal: that goroutine.
LEMMA RangeFrame ==
    [Next]_vars =>
        \/ UNCHANGED it
        \/ \E a \in Agents : StartRange(a) \/ LoadSignal(a) \/ SendSignal(a) \/ EndRange(a)
  BY DEF goVars

HIDE DEF Next, HandleEventStep, EndStep, ThreadStep, MainStep, ViewerStep, Environment,
         AddEvent, StoreEvent, LogEvent, StartRange, LoadSignal, SendSignal, EndRange,
         EndCheck, EndSet, CloseBracket, CloseLog, RenameLog, AddSessionToSessionList,
         CloseRemote, MarkThreadStarted, MarkThreadStopped, OpenLog, WriteOpen, Poll,
         ShutdownSeen, AuthOK, AuthFail, DialFails, DialSucceeds, RemoteDown, SetActive,
         SpawnChild, SpawnTask, ChildEvent, WorkerReturn, StopCall, Attach, MakeNewSignal,
         StoreSignal, SendEvent, SkipEvents, ReadLength, RemoveSignal, Hangup, vars

-----------------------------------------------------------------------------
(* The base invariant *)

\* A slice header, the session's or the copy a range works on, lies within the
\* array it points to.
SlicesOK ==
    /\ msg_signal.arr \in 1..Len(arrays)
    /\ msg_signal.len <= Len(arrays[msg_signal.arr])
    /\ \A a \in Agents : /\ it[a].arr \in 1..Len(arrays)
                         /\ it[a].len <= Len(arrays[it[a].arr])
                         /\ it[a].pos >= 1

\* A viewer reads no event beyond the end of the list, and what it has been sent
\* is what it has read, until it hangs up.
CursorsOK ==
    \A v \in Viewers : /\ last[v] <= target[v]
                       /\ target[v] <= Len(events)
                       /\ conn[v] => Len(received[v]) = last[v]

\* What End does after its HandleEvent.
ClosingPcs == {"range_end", "bracket", "close", "rename", "list", "disconnect"}

\* A goroutine in HandleEvent has an event, and in the rest of End that event is
\* session-stop.
EventOf(a) ==
    /\ pc[a] \in HandlingPcs => ev[a] \in EventTypes
    /\ pc[a] \in ClosingPcs => ev[a] = "session-stop"
    /\ pc[a] \in {"load", "send"} /\ it[a].sig = "END" => ev[a] = "session-stop"

\* The goroutine that is storing its event owns the last entry of the list, which
\* is unwritten.
HandlingOK ==
    /\ \A a \in Agents : EventOf(a)
    /\ \A a \in Agents : pc[a] = "store" => Len(events) > 0 /\ events[Len(events)] = Event0
    /\ \A a, b \in Agents : pc[a] = "store" /\ pc[b] = "store" => a = b

BaseInv == TypeOK /\ SlicesOK /\ CursorsOK /\ HandlingOK

\* The base invariant holds at first.
LEMMA BaseInit == Init => BaseInv
  <1> SUFFICES ASSUME Init PROVE BaseInv
    OBVIOUS
  <1> USE DEF Init
  <1>0. StateTypes
    <2>1. mutex \in Agents \cup Viewers \cup {Listener, NoOne} /\ remote \in {"none", "up", "down"}
      OBVIOUS
    <2>2. thread_count \in Int
      OBVIOUS
    <2>3. active \in BOOLEAN /\ proxy_active \in BOOLEAN
      OBVIOUS
    <2> QED BY <2>1, <2>2, <2>3 DEF StateTypes
  <1>1. GoTypes
    <2>1. pc \in [Agents -> OutsidePcs]
      BY DEF OutsidePcs
    <2>2. NoRange \in [sig : {"none", "NEW", "END"}, arr : Nat, len : Nat, pos : Nat, cur : Slots]
      BY DEF NoRange, RangeAt, Slots
    <2> QED BY <2>1, <2>2 DEF GoTypes
  <1>2. RecordTypes /\ FileTypes /\ ViewTypes
    BY DEF RecordTypes, FileTypes, ViewTypes
  <1>3. << >> \in Seq(Slots) /\ arrays \in Seq(Seq(Slots)) /\ Len(arrays) = 1 /\ arrays[1] = << >>
    OBVIOUS
  <1>4. SignalTypes /\ SlicesOK
    BY <1>3 DEF SignalTypes, SlicesOK, NoRange, RangeAt
  <1>5. CursorsOK
    BY DEF CursorsOK
  <1>6. HandlingOK
    BY DEF HandlingOK, EventOf, HandlingPcs, ClosingPcs
  <1> QED BY <1>0, <1>1, <1>2, <1>4, <1>5, <1>6 DEF BaseInv, TypeOK

\* The signal list keeps its types.
LEMMA SignalStep == BaseInv /\ [Next]_vars => SignalTypes'
  <1> SUFFICES ASSUME BaseInv, [Next]_vars PROVE SignalTypes'
    OBVIOUS
  <1> USE DEF SignalTypes
  <1>0. SignalTypes /\ SlicesOK
    BY DEF BaseInv, TypeOK
  <1>1. CASE UNCHANGED signalVars
    BY <1>0, <1>1 DEF signalVars
  <1>2. CASE AuthOK
    BY <1>0, <1>2 DEF AuthOK
  <1>3. ASSUME NEW v \in Viewers, MakeNewSignal(v) PROVE SignalTypes'
    <2>1. arrays[msg_signal.arr] \in Seq(Slots)
      BY <1>0 DEF SlicesOK
    <2>2. Grow(arrays[msg_signal.arr]) \in Seq(Slots)
      BY <2>1 DEF Grow, Slots
    <2>3. Append(arrays, Grow(arrays[msg_signal.arr])) \in Seq(Seq(Slots))
      BY <1>0, <2>2, AppendFacts
    <2> QED BY <1>0, <1>3, <2>3 DEF MakeNewSignal
  <1>4. ASSUME NEW v \in Viewers, StoreSignal(v) PROVE SignalTypes'
    <2>1. arrays[msg_signal.arr] \in Seq(Slots)
      BY <1>0 DEF SlicesOK
    <2>2. [arrays[msg_signal.arr] EXCEPT ![msg_signal.len] = v] \in Seq(Slots)
      BY <2>1, ReplaceFacts DEF Slots
    <2> QED BY <1>0, <1>4, <2>2, ReplaceFacts DEF StoreSignal
  <1>5. ASSUME NEW v \in Viewers, RemoveSignal(v) PROVE SignalTypes'
    <2> DEFINE arr == arrays[msg_signal.arr]
               here == {i \in 1..msg_signal.len : arr[i] = v}
    <2>1. CASE here = {}
      BY <1>0, <1>5, <2>1 DEF RemoveSignal, signalVars
    <2>2. ASSUME NEW i \in here,
                 arrays' = [arrays EXCEPT ![msg_signal.arr][i] = arr[msg_signal.len]],
                 msg_signal' = [arr |-> msg_signal.arr, len |-> msg_signal.len - 1]
          PROVE  SignalTypes'
      <3>1. arr \in Seq(Slots)
        BY <1>0 DEF SlicesOK
      <3>2. msg_signal.len \in 1..Len(arr)
        BY <1>0 DEF SlicesOK
      <3>3. arr[msg_signal.len] \in Slots
        BY <3>1, <3>2
      <3>4. [arr EXCEPT ![i] = arr[msg_signal.len]] \in Seq(Slots)
        BY <3>1, <3>3, ReplaceFacts
      <3>5. arrays' = [arrays EXCEPT ![msg_signal.arr] = [arr EXCEPT ![i] = arr[msg_signal.len]]]
        BY <2>2
      <3> QED BY <1>0, <2>2, <3>2, <3>4, <3>5, ReplaceFacts
    <2> QED BY <1>5, <2>1, <2>2 DEF RemoveSignal
  <1> QED BY <1>1, <1>2, <1>3, <1>4, <1>5, SignalFrame

\* appendToLog keeps the log a sequence of entries.
LEMMA AppendToLogTypes ==
    ASSUME RecordTypes, NEW e \in AllEvents \cup {LogOpen, LogClose}, AppendToLog(e)
    PROVE  log_fd' \in {"nil", "open", "closed"}
           /\ log' \in Seq(AllEvents \cup {LogOpen, LogClose})
  <1>1. Append(log, e) \in Seq(AllEvents \cup {LogOpen, LogClose})
    BY AppendFacts DEF RecordTypes
  <1> QED BY <1>1 DEF RecordTypes, AppendToLog, logVars

\* The events and the log keep their types.
LEMMA RecordStep == BaseInv /\ [Next]_vars => RecordTypes'
  <1> SUFFICES ASSUME BaseInv, [Next]_vars PROVE RecordTypes'
    OBVIOUS
  <1>0. RecordTypes /\ HandlingOK
    BY DEF BaseInv, TypeOK
  <1>1. \A a \in Agents : pc[a] \in HandlingPcs => Event(ev[a], a) \in AllEvents
    BY <1>0 DEF HandlingOK, EventOf, AllEvents, Event
  <1>2. events' \in Seq(AllEvents \cup {Event0})
    <2>1. CASE UNCHANGED events
      BY <1>0, <2>1 DEF RecordTypes
    <2>2. ASSUME NEW a \in Agents, AddEvent(a) PROVE events' \in Seq(AllEvents \cup {Event0})
      BY <1>0, <2>2, AppendFacts DEF RecordTypes, AddEvent
    <2>3. ASSUME NEW a \in Agents, StoreEvent(a) PROVE events' \in Seq(AllEvents \cup {Event0})
      <3>1. Event(ev[a], a) \in AllEvents \cup {Event0}
        BY <1>1, <2>3 DEF StoreEvent, HandlingPcs
      <3> QED BY <1>0, <2>3, <3>1, ReplaceFacts DEF RecordTypes, StoreEvent
    <2> QED BY <2>1, <2>2, <2>3, EventsFrame
  <1>3. log_fd' \in {"nil", "open", "closed"} /\ log' \in Seq(AllEvents \cup {LogOpen, LogClose})
    <2>1. CASE UNCHANGED logVars
      BY <1>0, <2>1 DEF RecordTypes, logVars
    <2>2. CASE OpenLog
      BY <1>0, <2>2 DEF RecordTypes, OpenLog
    <2>3. CASE WriteOpen
      BY <1>0, <2>3, AppendToLogTypes DEF WriteOpen
    <2>4. CASE \E a \in Agents : LogEvent(a)
      BY <1>0, <1>1, <2>4, AppendToLogTypes DEF LogEvent, HandlingPcs
    <2>5. CASE \E a \in Agents : CloseBracket(a)
      BY <1>0, <2>5, AppendToLogTypes DEF CloseBracket
    <2>6. CASE \E a \in Agents : CloseLog(a)
      BY <1>0, <2>6 DEF RecordTypes, CloseLog
    <2> QED BY <2>1, <2>2, <2>3, <2>4, <2>5, <2>6, LogFrame
  <1> QED BY <1>2, <1>3 DEF RecordTypes

\* The file names keep their types.
LEMMA FileStep == BaseInv /\ [Next]_vars => FileTypes'
  <1> SUFFICES ASSUME BaseInv, [Next]_vars PROVE FileTypes'
    OBVIOUS
  <1> USE DEF FileTypes
  <1>0. FileTypes
    BY DEF BaseInv, TypeOK
  <1>1. CASE UNCHANGED fileVars
    BY <1>0, <1>1 DEF fileVars
  <1>2. CASE AuthOK
    BY <1>0, <1>2 DEF AuthOK
  <1>3. CASE OpenLog
    BY <1>0, <1>3 DEF OpenLog
  <1>4. CASE \E a \in Agents : RenameLog(a)
    <2>1. disk' \in {disk, (disk \ {filename}) \cup {filename + 1}}
      BY <1>4 DEF RenameLog
    <2>2. filename' \in {filename, filename + 1} /\ UNCHANGED session_list
      BY <1>4 DEF RenameLog
    <2> QED BY <1>0, <2>1, <2>2
  <1>5. CASE \E a \in Agents : AddSessionToSessionList(a)
    BY <1>0, <1>5, AppendFacts DEF AddSessionToSessionList
  <1> QED BY <1>1, <1>2, <1>3, <1>4, <1>5, FileFrame

\* The fields of the session keep their types.
LEMMA StateStep == BaseInv /\ [Next]_vars => StateTypes'
  <1> SUFFICES ASSUME BaseInv, [Next]_vars PROVE StateTypes'
    OBVIOUS
  <1> USE DEF StateTypes, Free, Lock, Unlock, Return, stateVars
  <1>0. StateTypes
    BY DEF BaseInv, TypeOK
  <1>1. ASSUME NEW a \in Agents, HandleEventStep(a) PROVE StateTypes'
    BY <1>0, <1>1 DEF HandleEventStep, AddEvent, StoreEvent, LogEvent, StartRange,
                      LoadSignal, SendSignal, EndRange
  <1>2. ASSUME NEW a \in Agents, EndStep(a) PROVE StateTypes'
    BY <1>0, <1>2 DEF EndStep, EndCheck, EndSet, CloseBracket, CloseLog, RenameLog,
                      AddSessionToSessionList, CloseRemote
  <1>3. ASSUME NEW a \in Threads, ThreadStep(a) PROVE StateTypes'
    BY <1>0, <1>3 DEF ThreadStep, MarkThreadStarted, MarkThreadStopped
  <1>4. CASE MainStep
    BY <1>0, <1>4 DEF MainStep, OpenLog, WriteOpen, Poll, ShutdownSeen
  <1>5. ASSUME NEW v \in Viewers, ViewerStep(v) PROVE StateTypes'
    BY <1>0, <1>5 DEF ViewerStep, MakeNewSignal, StoreSignal, SendEvent, SkipEvents,
                      ReadLength, RemoveSignal
  <1>6. CASE Environment
    <2>1. CASE SetActive
      <3>1. proxy_active' \in BOOLEAN
        BY <2>1 DEF SetActive
      <3> QED BY <1>0, <2>1, <3>1 DEF SetActive
    <2>2. CASE AuthOK
      <3>1. active' \in BOOLEAN
        BY <2>2 DEF AuthOK
      <3> QED BY <1>0, <2>2, <3>1 DEF AuthOK
    <2>3. CASE DialSucceeds \/ RemoteDown \/ \E w \in Workers : WorkerReturn(w)
      BY <1>0, <2>3 DEF DialSucceeds, RemoteDown, WorkerReturn
    <2>4. CASE \/ AuthFail \/ DialFails
               \/ \E w \in Workers, c \in Children : SpawnChild(w, c)
               \/ \E w \in Workers, t \in Tasks : SpawnTask(w, t)
               \/ \E c \in Children : ChildEvent(c)
               \/ \E s \in Stoppers : StopCall(s)
               \/ \E v \in Viewers : Attach(v) \/ Hangup(v)
      <3>1. UNCHANGED <<mutex, stateVars>>
        BY <2>4 DEF AuthFail, DialFails, SpawnChild, SpawnTask, ChildEvent, StopCall,
                    Attach, Hangup
      <3> QED BY <1>0, <3>1
    <2> QED BY <1>6, <2>1, <2>2, <2>3, <2>4 DEF Environment
  <1>7. CASE UNCHANGED vars
    BY <1>0, <1>7 DEF vars
  <1> QED BY <1>1, <1>2, <1>3, <1>4, <1>5, <1>6, <1>7 DEF Next

\* The viewers' variables keep their types.
LEMMA ViewStep == BaseInv /\ [Next]_vars => ViewTypes'
  <1> SUFFICES ASSUME BaseInv, [Next]_vars PROVE ViewTypes'
    OBVIOUS
  <1> USE DEF ViewTypes
  <1>0. ViewTypes /\ RecordTypes /\ CursorsOK
    BY DEF BaseInv, TypeOK
  <1>1. CASE UNCHANGED viewVars
    BY <1>0, <1>1 DEF viewVars
  <1>2. ASSUME NEW a \in Agents, SendSignal(a) PROVE ViewTypes'
    BY <1>0, <1>2 DEF SendSignal
  <1>3. ASSUME NEW v \in Viewers, MakeNewSignal(v) \/ StoreSignal(v) \/ RemoveSignal(v)
        PROVE  ViewTypes'
    BY <1>0, <1>3 DEF MakeNewSignal, StoreSignal, RemoveSignal
  <1>4. ASSUME NEW v \in Viewers, SendEvent(v) PROVE ViewTypes'
    <2>1. events[last[v] + 1] \in AllEvents \cup {Event0}
      BY <1>0, <1>4 DEF SendEvent, RecordTypes, CursorsOK
    <2>2. Append(received[v], events[last[v] + 1]) \in Seq(AllEvents \cup {Event0})
      BY <1>0, <2>1, AppendFacts
    <2> QED BY <1>0, <1>4, <2>2 DEF SendEvent
  <1>5. ASSUME NEW v \in Viewers, SkipEvents(v) PROVE ViewTypes'
    BY <1>0, <1>5 DEF SkipEvents
  <1>6. ASSUME NEW v \in Viewers, ReadLength(v) \/ Attach(v) PROVE ViewTypes'
    <2>1. Len(events) \in Nat
      BY <1>0 DEF RecordTypes
    <2> QED BY <1>0, <1>6, <2>1 DEF ReadLength, Attach
  <1>7. ASSUME NEW v \in Viewers, Hangup(v) PROVE ViewTypes'
    BY <1>0, <1>7 DEF Hangup
  <1> QED BY <1>1, <1>2, <1>3, <1>4, <1>5, <1>6, <1>7, ViewFrame DEF ViewerStep

\* The goroutines' variables keep their types.
LEMMA GoStep == BaseInv /\ [Next]_vars => GoTypes'
  <1> SUFFICES ASSUME BaseInv, [Next]_vars PROVE GoTypes'
    OBVIOUS
  <1> DEFINE Pcs == HandlingPcs \cup EndPcs \cup RunningPcs \cup OutsidePcs
             Evs == EventTypes \cup {"none"}
             Its == [sig : {"none", "NEW", "END"}, arr : Nat, len : Nat, pos : Nat, cur : Slots]
  <1>0. GoTypes /\ SignalTypes /\ SlicesOK
    BY DEF BaseInv, TypeOK
  <1>1. pc' \in [Agents -> Pcs] /\ ev' \in [Agents -> Evs]
    <2> SUFFICES pc' \in [Agents -> Pcs] /\ ev' \in [Agents -> Evs]
      OBVIOUS
    <2> USE DEF GoTypes, HandlingPcs, EndPcs, RunningPcs, OutsidePcs, EventTypes, Goto, Return
    <2>1. ASSUME NEW a \in Agents, HandleEventStep(a)
          PROVE  pc' \in [Agents -> Pcs] /\ ev' \in [Agents -> Evs]
      <3>1. CASE AddEvent(a) \/ StoreEvent(a) \/ LogEvent(a)
        BY <1>0, <3>1 DEF AddEvent, StoreEvent, LogEvent
      <3>2. CASE StartRange(a) \/ LoadSignal(a) \/ SendSignal(a)
        BY <1>0, <3>2 DEF StartRange, LoadSignal, SendSignal
      <3>3. CASE EndRange(a)
        BY <1>0, <3>3 DEF EndRange, AfterRange
      <3> QED BY <2>1, <3>1, <3>2, <3>3 DEF HandleEventStep
    <2>2. ASSUME NEW a \in Agents, EndStep(a)
          PROVE  pc' \in [Agents -> Pcs] /\ ev' \in [Agents -> Evs]
      BY <1>0, <2>2 DEF EndStep, EndCheck, EndSet, CloseBracket, CloseLog, RenameLog,
                        AddSessionToSessionList, CloseRemote
    <2>3. ASSUME NEW a \in Threads, ThreadStep(a)
          PROVE  pc' \in [Agents -> Pcs] /\ ev' \in [Agents -> Evs]
      BY <1>0, <2>3 DEF ThreadStep, MarkThreadStarted, MarkThreadStopped
    <2>4. CASE MainStep
      BY <1>0, <2>4 DEF MainStep, OpenLog, WriteOpen, Poll, ShutdownSeen
    <2>5. ASSUME NEW v \in Viewers, ViewerStep(v)
          PROVE  pc' \in [Agents -> Pcs] /\ ev' \in [Agents -> Evs]
      BY <1>0, <2>5 DEF ViewerStep, MakeNewSignal, StoreSignal, SendEvent, SkipEvents,
                        ReadLength, RemoveSignal, goVars
    <2>6. CASE Environment
      <3>1. CASE AuthOK \/ AuthFail \/ DialFails \/ DialSucceeds
        BY <1>0, <3>1 DEF AuthOK, AuthFail, DialFails, DialSucceeds, goVars
      <3>2. CASE \/ \E w \in Workers, c \in Children : SpawnChild(w, c)
                 \/ \E w \in Workers, t \in Tasks : SpawnTask(w, t)
        BY <1>0, <3>2 DEF SpawnChild, SpawnTask, goVars
      <3>3. CASE \/ \E c \in Children : ChildEvent(c)
                 \/ \E w \in Workers : WorkerReturn(w)
                 \/ \E s \in Stoppers : StopCall(s)
        BY <1>0, <3>3 DEF ChildEvent, WorkerReturn, StopCall, goVars
      <3>4. CASE RemoteDown \/ SetActive \/ \E v \in Viewers : Attach(v) \/ Hangup(v)
        BY <1>0, <3>4 DEF RemoteDown, SetActive, Attach, Hangup, goVars
      <3> QED BY <2>6, <3>1, <3>2, <3>3, <3>4 DEF Environment
    <2>7. CASE UNCHANGED vars
      BY <1>0, <2>7 DEF vars, goVars
    <2> QED BY <2>1, <2>2, <2>3, <2>4, <2>5, <2>6, <2>7 DEF Next
  <1>2. it' \in [Agents -> Its]
    <2> USE DEF GoTypes, RangeAt, Slots
    <2>1. CASE UNCHANGED it
      BY <1>0, <2>1
    <2>2. ASSUME NEW a \in Agents, StartRange(a) PROVE it' \in [Agents -> Its]
      BY <1>0, <2>2 DEF StartRange, SignalTypes
    <2>3. ASSUME NEW a \in Agents, LoadSignal(a) PROVE it' \in [Agents -> Its]
      <3>1. arrays[it[a].arr] \in Seq(Slots)
        BY <1>0 DEF SignalTypes, SlicesOK
      <3>2. arrays[it[a].arr][it[a].pos] \in Slots
        BY <1>0, <2>3, <3>1 DEF LoadSignal, SlicesOK
      <3> QED BY <1>0, <2>3, <3>2 DEF LoadSignal
    <2>4. ASSUME NEW a \in Agents, SendSignal(a) PROVE it' \in [Agents -> Its]
      BY <1>0, <2>4 DEF SendSignal
    <2>5. ASSUME NEW a \in Agents, EndRange(a) PROVE it' \in [Agents -> Its]
      BY <1>0, <2>5 DEF EndRange, NoRange
    <2> QED BY <2>1, <2>2, <2>3, <2>4, <2>5, RangeFrame
  <1> QED BY <1>1, <1>2 DEF GoTypes

\* A full backing array is replaced by one with room for one more.
LEMMA GrowFacts ==
    ASSUME NEW arr \in Seq(Slots)
    PROVE  Grow(arr) \in Seq(Slots) /\ Len(Grow(arr)) >= Len(arr) + 1
  <1>1. CASE arr = << >>
    BY <1>1 DEF Grow, Slots
  <1>2. CASE arr # << >>
    <2>1. Len(arr) \in Nat /\ Len(arr) >= 1
      BY <1>2, EmptySeq
    <2> QED BY <1>2, <2>1 DEF Grow, Slots
  <1> QED BY <1>1, <1>2

\* Backing arrays are added and written to, never shortened.
ArraysKept ==
    /\ Len(arrays') \in Nat
    /\ Len(arrays') >= Len(arrays)
    /\ \A k \in 1..Len(arrays) : Len(arrays'[k]) = Len(arrays[k])

\* The backing arrays hold viewers or nothing.
LEMMA ArraysTypes ==
    ASSUME BaseInv
    PROVE  /\ arrays \in Seq(Seq(Slots)) /\ Len(arrays) \in Nat
           /\ \A k \in 1..Len(arrays) : arrays[k] \in Seq(Slots) /\ Len(arrays[k]) \in Nat
  BY DEF BaseInv, TypeOK, SignalTypes

\* RemoveSignal in the two forms it takes.
LEMMA RemoveForms ==
    ASSUME BaseInv, NEW v \in Viewers, RemoveSignal(v)
    PROVE  \/ UNCHANGED signalVars
           \/ \E i \in 1..msg_signal.len :
                 /\ arrays[msg_signal.arr][i] = v
                 /\ arrays' = [arrays EXCEPT ![msg_signal.arr] =
                        [arrays[msg_signal.arr] EXCEPT ![i] = arrays[msg_signal.arr][msg_signal.len]]]
                 /\ msg_signal' = [arr |-> msg_signal.arr, len |-> msg_signal.len - 1]
  BY DEF RemoveSignal

\* No step drops a backing array or shortens one.
LEMMA ArraysStep == ASSUME BaseInv, [Next]_vars PROVE ArraysKept
  <1> USE DEF ArraysKept
  <1>1. SlicesOK /\ SignalTypes
    BY DEF BaseInv, TypeOK
  <1>2. CASE UNCHANGED arrays
    BY <1>2, ArraysTypes
  <1>3. ASSUME NEW arr \in Seq(Slots), arrays' = Append(arrays, arr) PROVE ArraysKept
    BY <1>3, ArraysTypes, AppendFacts
  <1>4. ASSUME NEW k \in 1..Len(arrays), NEW i, NEW e \in Slots,
               arrays' = [arrays EXCEPT ![k] = [arrays[k] EXCEPT ![i] = e]]
        PROVE  ArraysKept
    BY <1>4, ArraysTypes, ReplaceFacts
  <1>5. ASSUME NEW v \in Viewers, MakeNewSignal(v) PROVE ArraysKept
    <2>1. Grow(arrays[msg_signal.arr]) \in Seq(Slots)
      BY <1>1, ArraysTypes, GrowFacts DEF SlicesOK
    <2> QED BY <1>2, <1>3, <1>5, <2>1 DEF MakeNewSignal
  <1>6. ASSUME NEW v \in Viewers, StoreSignal(v) PROVE ArraysKept
    <2>1. v \in Slots /\ msg_signal.arr \in 1..Len(arrays)
      BY <1>1 DEF Slots, SlicesOK
    <2>2. arrays' = [arrays EXCEPT ![msg_signal.arr] = [arrays[msg_signal.arr] EXCEPT ![msg_signal.len] = v]]
      BY <1>6 DEF StoreSignal
    <2> QED BY <1>4, <2>1, <2>2
  <1>7. ASSUME NEW v \in Viewers, RemoveSignal(v) PROVE ArraysKept
    <2>1. CASE UNCHANGED signalVars
      BY <1>2, <2>1 DEF signalVars
    <2>2. ASSUME NEW i \in 1..msg_signal.len,
                 arrays' = [arrays EXCEPT ![msg_signal.arr] =
                     [arrays[msg_signal.arr] EXCEPT ![i] = arrays[msg_signal.arr][msg_signal.len]]]
          PROVE  ArraysKept
      <3>1. /\ msg_signal.arr \in 1..Len(arrays)
            /\ msg_signal.len \in 1..Len(arrays[msg_signal.arr])
        BY <1>1, ArraysTypes DEF SlicesOK, SignalTypes
      <3>2. arrays[msg_signal.arr][msg_signal.len] \in Slots
        BY <3>1, ArraysTypes
      <3> QED BY <1>4, <2>2, <3>1, <3>2
    <2> QED BY <1>7, <2>1, <2>2, RemoveForms
  <1>8. AuthOK => ArraysKept
    BY <1>2 DEF AuthOK
  <1> QED BY <1>2, <1>5, <1>6, <1>7, <1>8, SignalFrame DEF signalVars

\* Every slice header still lies within its array.
LEMMA SlicesStep == BaseInv /\ [Next]_vars => SlicesOK'
  <1> SUFFICES ASSUME BaseInv, [Next]_vars PROVE SlicesOK'
    OBVIOUS
  <1>1. SlicesOK /\ SignalTypes /\ GoTypes /\ ArraysKept
    BY ArraysStep DEF BaseInv, TypeOK
  <1> DEFINE HeaderOK(m) == m.arr \in 1..Len(arrays') /\ m.len <= Len(arrays'[m.arr])
  <1>2. HeaderOK(msg_signal) /\ \A a \in Agents : HeaderOK(it[a])
    <2>1. ASSUME NEW k \in 1..Len(arrays), NEW n, n <= Len(arrays[k])
          PROVE  k \in 1..Len(arrays') /\ n <= Len(arrays'[k])
      BY <1>1, <2>1, ArraysTypes DEF ArraysKept
    <2> QED BY <1>1, <2>1 DEF SlicesOK
  <1>3. HeaderOK(msg_signal')
    <2>1. CASE UNCHANGED signalVars
      BY <1>2, <2>1 DEF signalVars
    <2>2. CASE AuthOK
      <3>1. 1 \in 1..Len(arrays)
        BY <1>1, ArraysTypes DEF SlicesOK
      <3>2. 1 \in 1..Len(arrays') /\ 0 <= Len(arrays'[1])
        BY <1>1, <3>1, ArraysTypes DEF ArraysKept
      <3> QED BY <2>2, <3>2 DEF AuthOK
    <2>3. ASSUME NEW v \in Viewers, MakeNewSignal(v) PROVE HeaderOK(msg_signal')
      <3> DEFINE old == arrays[msg_signal.arr]
      <3>1. old \in Seq(Slots) /\ Len(old) \in Nat /\ msg_signal.len \in Nat
        BY <1>1, ArraysTypes DEF SlicesOK, SignalTypes
      <3>2. CASE msg_signal.len = Len(old)
        <4>1. arrays' = Append(arrays, Grow(old)) /\ msg_signal' = [arr |-> Len(arrays) + 1, len |-> msg_signal.len + 1]
          BY <2>3, <3>2 DEF MakeNewSignal
        <4>2. Grow(old) \in Seq(Slots) /\ Len(Grow(old)) >= msg_signal.len + 1
          BY <3>1, <3>2, GrowFacts
        <4>3. Len(arrays') = Len(arrays) + 1 /\ arrays'[Len(arrays) + 1] = Grow(old)
          BY <4>1, <4>2, ArraysTypes, AppendFacts
        <4> QED BY <4>1, <4>2, <4>3, ArraysTypes
      <3>3. CASE msg_signal.len # Len(old)
        BY <1>1, <1>2, <2>3, <3>1, <3>3 DEF MakeNewSignal, SlicesOK
      <3> QED BY <3>2, <3>3
    <2>4. ASSUME NEW v \in Viewers, StoreSignal(v) PROVE HeaderOK(msg_signal')
      BY <1>2, <2>4 DEF StoreSignal
    <2>5. ASSUME NEW v \in Viewers, RemoveSignal(v) PROVE HeaderOK(msg_signal')
      <3>1. Len(arrays'[msg_signal.arr]) \in Nat /\ msg_signal.len \in Nat
        BY <1>1, ArraysTypes DEF SlicesOK, ArraysKept, SignalTypes
      <3>2. HeaderOK([arr |-> msg_signal.arr, len |-> msg_signal.len - 1])
        BY <1>2, <3>1
      <3>3. msg_signal' \in {msg_signal, [arr |-> msg_signal.arr, len |-> msg_signal.len - 1]}
        BY <2>5, RemoveForms DEF signalVars
      <3> QED BY <1>2, <3>2, <3>3
    <2> QED BY <2>1, <2>2, <2>3, <2>4, <2>5, SignalFrame
  <1>4. \A a \in Agents : HeaderOK(it'[a]) /\ it'[a].pos >= 1
    <2> USE DEF GoTypes, RangeAt
    <2>0. \A a \in Agents : it[a].pos \in Nat /\ it[a].pos >= 1
      BY <1>1 DEF SlicesOK
    <2>1. CASE UNCHANGED it
      BY <1>2, <2>0, <2>1
    <2>2. ASSUME NEW a \in Agents, StartRange(a) PROVE <1>4
      BY <1>1, <1>2, <2>0, <2>2 DEF StartRange
    <2>3. ASSUME NEW a \in Agents, LoadSignal(a) PROVE <1>4
      BY <1>1, <1>2, <2>0, <2>3 DEF LoadSignal
    <2>4. ASSUME NEW a \in Agents, SendSignal(a) PROVE <1>4
      BY <1>1, <1>2, <2>0, <2>4 DEF SendSignal
    <2>5. ASSUME NEW a \in Agents, EndRange(a) PROVE <1>4
      <3>1. HeaderOK(NoRange) /\ NoRange.pos >= 1
        BY <1>1, ArraysTypes DEF NoRange, SlicesOK, ArraysKept
      <3> QED BY <1>1, <1>2, <2>0, <2>5, <3>1 DEF EndRange
    <2> QED BY <2>1, <2>2, <2>3, <2>4, <2>5, RangeFrame
  <1> QED BY <1>3, <1>4 DEF SlicesOK

\* The event list is only appended to, and its last entry written.
LEMMA EventsStep ==
    ASSUME BaseInv, [Next]_vars
    PROVE  Len(events) \in Nat /\ Len(events') \in Nat /\ Len(events') >= Len(events)
  <1>1. events \in Seq(AllEvents \cup {Event0}) /\ Len(events) \in Nat
    BY DEF BaseInv, TypeOK, RecordTypes
  <1>2. events' \in Seq(AllEvents \cup {Event0}) /\ Len(events') \in Nat
    BY RecordStep DEF RecordTypes
  <1>3. ASSUME NEW a \in Agents, AddEvent(a) PROVE Len(events') >= Len(events)
    BY <1>1, <1>3, AppendFacts DEF AddEvent
  <1>4. ASSUME NEW a \in Agents, StoreEvent(a) PROVE Len(events') >= Len(events)
    BY <1>1, <1>4 DEF StoreEvent
  <1> QED BY <1>1, <1>2, <1>3, <1>4, EventsFrame

\* No viewer gets ahead of the list.
LEMMA CursorsStep == BaseInv /\ [Next]_vars => CursorsOK'
  <1> SUFFICES ASSUME BaseInv, [Next]_vars PROVE CursorsOK'
    OBVIOUS
  <1>0. ViewTypes /\ CursorsOK /\ Len(events) \in Nat /\ Len(events') \in Nat /\ Len(events') >= Len(events)
    BY EventsStep DEF BaseInv, TypeOK
  <1> USE DEF ViewTypes, CursorsOK
  <1>1. CASE UNCHANGED <<last, target, conn, received>>
    BY <1>0, <1>1
  <1>2. ASSUME NEW v \in Viewers, SendEvent(v) PROVE CursorsOK'
    <2>1. Len(received'[v]) = Len(received[v]) + 1
      BY <1>0, <1>2 DEF SendEvent
    <2>2. \A u \in Viewers : u # v => received'[u] = received[u] /\ last'[u] = last[u]
      BY <1>0, <1>2 DEF SendEvent
    <2>3. last'[v] = last[v] + 1 /\ last[v] < target[v] /\ UNCHANGED <<conn, target>> /\ conn[v]
      BY <1>0, <1>2 DEF SendEvent
    <2> QED BY <1>0, <2>1, <2>2, <2>3
  <1>3. ASSUME NEW v \in Viewers, SkipEvents(v) PROVE CursorsOK'
    BY <1>0, <1>3 DEF SkipEvents
  <1>4. ASSUME NEW v \in Viewers, ReadLength(v) \/ Attach(v) PROVE CursorsOK'
    <2>1. UNCHANGED <<last, conn, received, events>> /\ target' = [target EXCEPT ![v] = Len(events)]
      BY <1>4 DEF ReadLength, Attach
    <2>2. last[v] <= Len(events)
      BY <1>0
    <2> QED BY <1>0, <2>1, <2>2
  <1>5. ASSUME NEW v \in Viewers, Hangup(v) PROVE CursorsOK'
    <2>1. \A u \in Viewers : conn'[u] => conn[u]
      BY <1>0, <1>5 DEF Hangup
    <2>2. UNCHANGED <<last, target, received>>
      BY <1>5 DEF Hangup
    <2> QED BY <1>0, <2>1, <2>2
  <1>6. ASSUME NEW v \in Viewers, MakeNewSignal(v) \/ StoreSignal(v) \/ RemoveSignal(v)
        PROVE  UNCHANGED <<last, target, conn, received>>
    BY <1>6 DEF MakeNewSignal, StoreSignal, RemoveSignal
  <1>7. ASSUME NEW a \in Agents, SendSignal(a) PROVE UNCHANGED <<last, target, conn, received>>
    BY <1>7 DEF SendSignal
  <1> QED BY <1>1, <1>2, <1>3, <1>4, <1>5, <1>6, <1>7, ViewFrame DEF ViewerStep, viewVars

\* Every step of a goroutine keeps its event and its place in step.
LEMMA EventOfStep ==
    ASSUME BaseInv, [Next]_vars, NEW b \in Agents
    PROVE  EventOf(b)'
  <1>0. GoTypes /\ EventOf(b)
    BY DEF BaseInv, TypeOK, HandlingOK
  <1> USE DEF GoTypes, EventOf, HandlingPcs, ClosingPcs, EventTypes, Goto, Return
  <1>1. ASSUME NEW a \in Agents, AddEvent(a) \/ StoreEvent(a) \/ LogEvent(a) PROVE EventOf(b)'
    BY <1>0, <1>1 DEF AddEvent, StoreEvent, LogEvent
  <1>2. ASSUME NEW a \in Agents, StartRange(a) PROVE EventOf(b)'
    BY <1>0, <1>2 DEF StartRange, RangeAt
  <1>3. ASSUME NEW a \in Agents, LoadSignal(a) \/ SendSignal(a) PROVE EventOf(b)'
    BY <1>0, <1>3 DEF LoadSignal, SendSignal, RangeAt
  <1>4. ASSUME NEW a \in Agents, EndRange(a) PROVE EventOf(b)'
    BY <1>0, <1>4 DEF EndRange, AfterRange, NoRange, RangeAt
  <1>5. ASSUME NEW a \in Agents, EndStep(a) PROVE EventOf(b)'
    BY <1>0, <1>5 DEF EndStep, EndCheck, EndSet, CloseBracket, CloseLog, RenameLog,
                      AddSessionToSessionList, CloseRemote
  <1>6. ASSUME NEW a \in Threads, ThreadStep(a) PROVE EventOf(b)'
    BY <1>0, <1>6 DEF ThreadStep, MarkThreadStarted, MarkThreadStopped
  <1>7. CASE MainStep
    BY <1>0, <1>7 DEF MainStep, OpenLog, WriteOpen, Poll, ShutdownSeen
  <1>8. ASSUME NEW v \in Viewers, ViewerStep(v) PROVE EventOf(b)'
    BY <1>0, <1>8 DEF ViewerStep, MakeNewSignal, StoreSignal, SendEvent, SkipEvents,
                      ReadLength, RemoveSignal, goVars
  <1>9. CASE Environment
    BY <1>0, <1>9 DEF Environment, AuthOK, AuthFail, DialFails, DialSucceeds, RemoteDown,
                      SetActive, SpawnChild, SpawnTask, ChildEvent, WorkerReturn,
                      StopCall, Attach, Hangup, goVars
  <1>10. CASE UNCHANGED vars
    BY <1>0, <1>10 DEF vars, goVars
  <1> QED BY <1>1, <1>2, <1>3, <1>4, <1>5, <1>6, <1>7, <1>8, <1>9, <1>10 DEF Next, HandleEventStep

\* Only AddEvent enters "store".
LEMMA StoreFrame ==
    ASSUME BaseInv, [Next]_vars
    PROVE  \/ \E a \in Agents : AddEvent(a) \/ StoreEvent(a)
           \/ UNCHANGED events /\ \A b \in Agents : pc'[b] = "store" => pc[b] = "store"
  <1>0. GoTypes
    BY DEF BaseInv, TypeOK
  <1> DEFINE Stays == \A b \in Agents : pc'[b] = "store" => pc[b] = "store"
  <1> USE DEF GoTypes, Goto, Return
  <1>1. ASSUME NEW a \in Agents, HandleEventStep(a), ~AddEvent(a) PROVE Stays
    BY <1>0, <1>1 DEF HandleEventStep, StoreEvent, LogEvent, StartRange, LoadSignal,
                      SendSignal, EndRange, AfterRange
  <1>2. ASSUME NEW a \in Agents, EndStep(a) PROVE Stays
    BY <1>0, <1>2 DEF EndStep, EndCheck, EndSet, CloseBracket, CloseLog, RenameLog,
                      AddSessionToSessionList, CloseRemote
  <1>3. ASSUME NEW a \in Threads, ThreadStep(a) PROVE Stays
    BY <1>0, <1>3 DEF ThreadStep, MarkThreadStarted, MarkThreadStopped
  <1>4. CASE MainStep
    BY <1>0, <1>4 DEF MainStep, OpenLog, WriteOpen, Poll, ShutdownSeen
  <1>5. ASSUME NEW v \in Viewers, ViewerStep(v) PROVE Stays
    BY <1>0, <1>5 DEF ViewerStep, MakeNewSignal, StoreSignal, SendEvent, SkipEvents,
                      ReadLength, RemoveSignal, goVars
  <1>6. CASE Environment
    BY <1>0, <1>6 DEF Environment, AuthOK, AuthFail, DialFails, DialSucceeds, RemoteDown,
                      SetActive, SpawnChild, SpawnTask, ChildEvent, WorkerReturn,
                      StopCall, Attach, Hangup, goVars
  <1>7. CASE UNCHANGED vars
    BY <1>0, <1>7 DEF vars, goVars
  <1> QED BY <1>1, <1>2, <1>3, <1>4, <1>5, <1>6, <1>7, EventsFrame DEF Next

\* Whoever handles an event still has one.
LEMMA HandlingStep == BaseInv /\ [Next]_vars => HandlingOK'
  <1> SUFFICES ASSUME BaseInv, [Next]_vars PROVE HandlingOK'
    OBVIOUS
  <1>0. GoTypes /\ HandlingOK /\ events \in Seq(AllEvents \cup {Event0}) /\ Len(events) \in Nat
    BY DEF BaseInv, TypeOK, RecordTypes
  <1>1. \A b \in Agents : EventOf(b)'
    BY EventOfStep
  <1> USE DEF GoTypes, HandlingOK, Goto
  <1>2. ASSUME NEW a \in Agents, AddEvent(a) PROVE HandlingOK'
    <2>1. Len(events') > 0 /\ events'[Len(events')] = Event0
      BY <1>0, <1>2, AppendFacts DEF AddEvent
    <2> QED BY <1>0, <1>1, <1>2, <2>1 DEF AddEvent
  <1>3. ASSUME NEW a \in Agents, StoreEvent(a) PROVE HandlingOK'
    BY <1>0, <1>1, <1>3 DEF StoreEvent
  <1>4. CASE UNCHANGED events /\ \A b \in Agents : pc'[b] = "store" => pc[b] = "store"
    BY <1>0, <1>1, <1>4
  <1> QED BY <1>2, <1>3, <1>4, StoreFrame

\* The base invariant holds: every variable keeps its type (TypeOK), every slice
\* header lies within its array, every viewer reads within the event list, and a
\* goroutine that handles an event has one.
THEOREM BaseCorrect == Spec => []BaseInv
  <1>1. Init => BaseInv
    BY BaseInit
  <1>2. BaseInv /\ [Next]_vars => BaseInv'
    BY GoStep, StateStep, RecordStep, FileStep, SignalStep, ViewStep, SlicesStep,
       CursorsStep, HandlingStep DEF BaseInv, TypeOK
  <1> QED BY <1>1, <1>2, PTL DEF Spec

\* Type correctness of the session, for any number of goroutines and viewers.
THEOREM TypeCorrect == Spec => []TypeOK
  <1>1. BaseInv => TypeOK
    BY DEF BaseInv
  <1> QED BY <1>1, BaseCorrect, PTL

-----------------------------------------------------------------------------
(* Refinement of EventFeed *)

\* The first state is one of the abstract feed.
LEMMA FeedInit == Init => Feed!Init
  BY DEF Init, Feed!Init

\* Every step is one of the abstract feed or none.
LEMMA FeedStep == BaseInv /\ [Next]_vars => [Feed!Next]_<<events, received>>
  <1> SUFFICES ASSUME BaseInv, [Next]_vars PROVE Feed!Next \/ UNCHANGED <<events, received>>
    OBVIOUS
  <1>0. RecordTypes /\ ViewTypes /\ CursorsOK /\ HandlingOK
    BY DEF BaseInv, TypeOK
  <1>1. ASSUME NEW a \in Agents, AddEvent(a) PROVE Feed!Reserve
    BY <1>1 DEF AddEvent, Feed!Reserve, viewVars
  <1>2. ASSUME NEW a \in Agents, StoreEvent(a) PROVE Feed!Fill
    <2>1. Len(events) \in DOMAIN events /\ events[Len(events)] = Event0
      BY <1>0, <1>2 DEF StoreEvent, HandlingOK, RecordTypes
    <2>2. Event(ev[a], a) \in AllEvents
      BY <1>0, <1>2 DEF StoreEvent, HandlingOK, EventOf, HandlingPcs, AllEvents, Event
    <2> QED BY <1>2, <2>1, <2>2 DEF StoreEvent, Feed!Fill, viewVars
  <1>3. ASSUME NEW v \in Viewers, SendEvent(v) PROVE Feed!Deliver(v)
    <2>1. Len(received[v]) = last[v] /\ last[v] < Len(events)
      BY <1>0, <1>3 DEF SendEvent, CursorsOK, ViewTypes, RecordTypes
    <2> QED BY <1>3, <2>1 DEF SendEvent, Feed!Deliver
  <1>4. ASSUME NEW v \in Viewers, \/ MakeNewSignal(v) \/ StoreSignal(v) \/ SkipEvents(v)
                                  \/ ReadLength(v) \/ RemoveSignal(v) \/ Attach(v) \/ Hangup(v)
        PROVE  UNCHANGED <<events, received>>
    BY <1>4 DEF MakeNewSignal, StoreSignal, SkipEvents, ReadLength, RemoveSignal, Attach, Hangup
  <1>5. ASSUME NEW a \in Agents, SendSignal(a) PROVE UNCHANGED <<events, received>>
    BY <1>5 DEF SendSignal
  <1> QED BY <1>1, <1>2, <1>3, <1>4, <1>5, EventsFrame, ViewFrame
          DEF Feed!Next, ViewerStep, viewVars

\* What each browser is sent implements the abstract feed (EventFeed): a gap-free
\* prefix of the session's event list in its order, for any number of goroutines
\* appending and any number of viewers joining, leaving and hanging up.
THEOREM FeedImplemented == Spec => FeedSpec
  <1> QED BY BaseCorrect, FeedInit, FeedStep, PTL DEF Spec, FeedSpec, Feed!Spec

-----------------------------------------------------------------------------
(* One session-stop from the threads *)

\* Whoever is between Lock and Unlock holds the mutex: a thread in End, a viewer
\* in MakeNewSignal, the accept loop before the password is accepted.
MutexOK ==
    /\ \A a \in Threads : Ending(a) => mutex = a
    /\ \A v \in Viewers : vpc[v] = "slot" => mutex = v
    /\ pc[Main] \in {"auth", "refused"} => mutex = Listener

\* The accept loop holds the mutex at first.
LEMMA MutexInit == Init => MutexOK
  BY DistinctAssumption DEF Init, MutexOK, Ending, EndPcs, HandlingPcs

\* Every step keeps the mutex with whoever is inside.
LEMMA MutexStep == BaseInv /\ MutexOK /\ [Next]_vars => MutexOK'
  <1> SUFFICES ASSUME BaseInv, MutexOK, [Next]_vars PROVE MutexOK'
    OBVIOUS
  <1>0. GoTypes /\ StateTypes /\ ViewTypes /\ \A a \in Agents : EventOf(a)
    BY DEF BaseInv, TypeOK, HandlingOK
  <1> USE DistinctAssumption
      DEF MutexOK, Ending, EndPcs, HandlingPcs, GoTypes, ViewTypes, Goto, Lock, Unlock, Free, Return
  <1>1. ASSUME NEW a \in Agents, AddEvent(a) \/ StoreEvent(a) \/ LogEvent(a) \/ LoadSignal(a)
        PROVE  MutexOK'
    BY <1>0, <1>1 DEF AddEvent, StoreEvent, LogEvent, LoadSignal, viewVars
  <1>2. ASSUME NEW a \in Agents, StartRange(a) PROVE MutexOK'
    BY <1>0, <1>2 DEF StartRange, viewVars, EventOf, ClosingPcs
  <1>3. ASSUME NEW a \in Agents, SendSignal(a) PROVE MutexOK'
    BY <1>0, <1>3 DEF SendSignal
  <1>4. ASSUME NEW a \in Agents, EndRange(a) PROVE MutexOK'
    BY <1>0, <1>4 DEF EndRange, AfterRange, viewVars, EventOf
  <1>5. ASSUME NEW a \in Agents, EndCheck(a) PROVE MutexOK'
    <2>1. CASE Goto(a, "end_set") /\ UNCHANGED <<mutex, ev, vpc>> /\ pc[a] = "end_check"
      BY <1>0, <2>1
    <2>2. CASE Return(a) /\ UNCHANGED <<ev, vpc>> /\ pc[a] = "end_check"
      BY <1>0, <2>2
    <2> QED BY <1>5, <2>1, <2>2 DEF EndCheck, viewVars
  <1>6. ASSUME NEW a \in Agents, EndSet(a) PROVE MutexOK'
    BY <1>0, <1>6 DEF EndSet, viewVars
  <1>7. ASSUME NEW a \in Agents, \/ CloseBracket(a) \/ CloseLog(a) \/ RenameLog(a)
                                 \/ AddSessionToSessionList(a)
        PROVE  MutexOK'
    BY <1>0, <1>7 DEF CloseBracket, CloseLog, RenameLog, AddSessionToSessionList, viewVars
  <1>8. ASSUME NEW a \in Agents, CloseRemote(a) PROVE MutexOK'
    BY <1>0, <1>8 DEF CloseRemote, viewVars
  <1>9. ASSUME NEW a \in Threads, ThreadStep(a) PROVE MutexOK'
    <2>1. CASE MarkThreadStarted(a)
      BY <1>0, <2>1 DEF MarkThreadStarted, viewVars
    <2>2. CASE MarkThreadStopped(a)
      BY <1>0, <2>2 DEF MarkThreadStopped, viewVars
    <2> QED BY <1>9, <2>1, <2>2 DEF ThreadStep
  <1>10. CASE MainStep
    BY <1>0, <1>10 DEF MainStep, OpenLog, WriteOpen, Poll, ShutdownSeen, viewVars
  <1>11. ASSUME NEW v \in Viewers, ViewerStep(v) PROVE MutexOK'
    <2>1. UNCHANGED <<pc, ev>>
      BY <1>11 DEF ViewerStep, MakeNewSignal, StoreSignal, SendEvent, SkipEvents,
                   ReadLength, RemoveSignal, goVars
    <2>2. CASE MakeNewSignal(v)
      BY <1>0, <2>1, <2>2 DEF MakeNewSignal
    <2>3. CASE StoreSignal(v)
      BY <1>0, <2>1, <2>3 DEF StoreSignal
    <2>4. CASE SendEvent(v) \/ SkipEvents(v) \/ ReadLength(v) \/ RemoveSignal(v)
      BY <1>0, <2>1, <2>4 DEF SendEvent, SkipEvents, ReadLength, RemoveSignal
    <2> QED BY <1>11, <2>2, <2>3, <2>4 DEF ViewerStep
  <1>12. CASE AuthOK \/ AuthFail
    BY <1>0, <1>12 DEF AuthOK, AuthFail, viewVars
  <1>13. CASE Environment /\ ~AuthOK /\ ~AuthFail
    <2>1. CASE DialFails \/ DialSucceeds
      BY <1>0, <2>1 DEF DialFails, DialSucceeds, viewVars
    <2>2. CASE RemoteDown \/ SetActive
      BY <1>0, <2>2 DEF RemoteDown, SetActive, goVars, viewVars
    <2>3. ASSUME NEW w \in Workers, NEW b \in Children \cup Tasks,
                 SpawnChild(w, b) \/ SpawnTask(w, b)
          PROVE  MutexOK'
      BY <1>0, <2>3 DEF SpawnChild, SpawnTask, viewVars
    <2>4. ASSUME NEW c \in Children, ChildEvent(c) PROVE MutexOK'
      BY <1>0, <2>4 DEF ChildEvent, viewVars
    <2>5. ASSUME NEW w \in Workers, WorkerReturn(w) PROVE MutexOK'
      BY <1>0, <2>5 DEF WorkerReturn, viewVars
    <2>6. ASSUME NEW s \in Stoppers, StopCall(s) PROVE MutexOK'
      BY <1>0, <2>6 DEF StopCall, viewVars
    <2>7. ASSUME NEW v \in Viewers, Attach(v) \/ Hangup(v) PROVE MutexOK'
      BY <1>0, <2>7 DEF Attach, Hangup, goVars
    <2> QED BY <1>13, <2>1, <2>2, <2>3, <2>4, <2>5, <2>6, <2>7 DEF Environment
  <1>14. CASE UNCHANGED vars
    BY <1>0, <1>14 DEF vars, goVars, viewVars
  <1> QED BY <1>1, <1>2, <1>3, <1>4, <1>5, <1>6, <1>7, <1>8, <1>9, <1>10, <1>11, <1>12,
             <1>13, <1>14 DEF Next, HandleEventStep, EndStep

\* A thread has recorded session-stop.
ThreadStop(e) == e.type = "session-stop" /\ e.by \in Threads
StopRecorded == \E i \in DOMAIN events : ThreadStop(events[i])

\* A thread in End, before and after it has recorded session-stop.
Deciding(a) == pc[a] = "end_set" \/ (pc[a] \in {"add", "store"} /\ ev[a] = "session-stop")
Decided(a) == pc[a] \in ClosingPcs \/ (pc[a] \in HandlingPcs /\ ev[a] = "session-stop")

\* session.active tells whether a thread may still record session-stop, and no
\* second thread is on its way to it.
StopOK ==
    /\ StopRecorded => ~active /\ pc[Main] # "auth"
    /\ \A a \in Threads : Decided(a) => ~active
    /\ \A a \in Threads : Deciding(a) => ~StopRecorded
    /\ ThreadsRecordOneStop

\* Nobody has stopped the session at first.
LEMMA StopInit == Init => StopOK
  BY DEF Init, StopOK, StopRecorded, Decided, Deciding, ClosingPcs, HandlingPcs, ThreadsRecordOneStop

\* Who writes session.active: the password callback and End.
LEMMA ActiveFrame ==
    [Next]_vars => \/ UNCHANGED active
                   \/ AuthOK
                   \/ \E a \in Agents : EndSet(a)
  BY DEF Next, HandleEventStep, EndStep, ThreadStep, MainStep, ViewerStep, Environment,
         AddEvent, StoreEvent, LogEvent, StartRange, LoadSignal, SendSignal, EndRange,
         EndCheck, CloseBracket, CloseLog, RenameLog, AddSessionToSessionList,
         CloseRemote, MarkThreadStarted, MarkThreadStopped, OpenLog, WriteOpen, Poll,
         ShutdownSeen, AuthFail, DialFails, DialSucceeds, RemoteDown, SetActive,
         SpawnChild, SpawnTask, ChildEvent, WorkerReturn, StopCall, Attach, MakeNewSignal,
         StoreSignal, SendEvent, SkipEvents, ReadLength, RemoveSignal, Hangup, vars, stateVars

\* How a thread gets to be Deciding or Decided.
LEMMA DecidingFrame ==
    ASSUME BaseInv, [Next]_vars, NEW b \in Threads
    PROVE  /\ Deciding(b)' => Deciding(b) \/ (EndCheck(b) /\ active /\ UNCHANGED events)
           /\ Decided(b)' => Decided(b) \/ EndSet(b)
           /\ pc'[Main] = "auth" => pc[Main] = "auth"
  <1>0. GoTypes /\ \A a \in Agents : EventOf(a)
    BY DEF BaseInv, TypeOK, HandlingOK
  <1> DEFINE P == /\ Deciding(b)' => Deciding(b) \/ (EndCheck(b) /\ active /\ UNCHANGED events)
                  /\ Decided(b)' => Decided(b) \/ EndSet(b)
                  /\ pc'[Main] = "auth" => pc[Main] = "auth"
  <1> USE DistinctAssumption DEF Deciding, Decided, ClosingPcs, HandlingPcs, GoTypes, Goto, Return
  <1>1. ASSUME NEW a \in Agents, AddEvent(a) \/ StoreEvent(a) \/ LogEvent(a) PROVE P
    BY <1>0, <1>1 DEF AddEvent, StoreEvent, LogEvent
  <1>2. ASSUME NEW a \in Agents, StartRange(a) \/ LoadSignal(a) \/ SendSignal(a) PROVE P
    BY <1>0, <1>2 DEF StartRange, LoadSignal, SendSignal
  <1>3. ASSUME NEW a \in Agents, EndRange(a) PROVE P
    BY <1>0, <1>3 DEF EndRange, AfterRange, EventOf
  <1>4. ASSUME NEW a \in Agents, EndCheck(a) PROVE P
    <2>1. CASE a = b /\ active
      BY <1>0, <1>4, <2>1 DEF EndCheck
    <2>2. CASE a # b \/ ~active
      BY <1>0, <1>4, <2>2 DEF EndCheck
    <2> QED BY <2>1, <2>2
  <1>5. ASSUME NEW a \in Agents, EndSet(a) PROVE P
    <2>1. CASE a = b
      BY <1>0, <1>5, <2>1 DEF EndSet
    <2>2. CASE a # b
      BY <1>0, <1>5, <2>2 DEF EndSet
    <2> QED BY <2>1, <2>2
  <1>6. ASSUME NEW a \in Agents, \/ CloseBracket(a) \/ CloseLog(a) \/ RenameLog(a)
                                 \/ AddSessionToSessionList(a) \/ CloseRemote(a)
        PROVE  P
    BY <1>0, <1>6 DEF CloseBracket, CloseLog, RenameLog, AddSessionToSessionList, CloseRemote
  <1>7. ASSUME NEW a \in Threads, ThreadStep(a) PROVE P
    BY <1>0, <1>7 DEF ThreadStep, MarkThreadStarted, MarkThreadStopped
  <1>8. CASE MainStep
    BY <1>0, <1>8 DEF MainStep, OpenLog, WriteOpen, Poll, ShutdownSeen
  <1>9. ASSUME NEW v \in Viewers, ViewerStep(v) PROVE P
    BY <1>0, <1>9 DEF ViewerStep, MakeNewSignal, StoreSignal, SendEvent, SkipEvents,
                      ReadLength, RemoveSignal, goVars
  <1>10. CASE Environment
    BY <1>0, <1>10 DEF Environment, AuthOK, AuthFail, DialFails, DialSucceeds, RemoteDown,
                       SetActive, SpawnChild, SpawnTask, ChildEvent, WorkerReturn,
                       StopCall, Attach, Hangup, goVars
  <1>11. CASE UNCHANGED vars
    BY <1>0, <1>11 DEF vars, goVars
  <1> QED BY <1>1, <1>2, <1>3, <1>4, <1>5, <1>6, <1>7, <1>8, <1>9, <1>10, <1>11
          DEF Next, HandleEventStep, EndStep

\* The list gains a thread's session-stop only when a thread stores it.
LEMMA StopRecordedStep ==
    ASSUME BaseInv, StopOK, [Next]_vars
    PROVE  /\ ThreadsRecordOneStop'
           /\ StopRecorded' => \/ StopRecorded
                              \/ \E a \in Threads : StoreEvent(a) /\ ev[a] = "session-stop"
  <1>0. /\ events \in Seq(AllEvents \cup {Event0}) /\ Len(events) \in Nat
        /\ DOMAIN events = 1..Len(events)
        /\ ThreadsRecordOneStop
    BY DEF BaseInv, TypeOK, RecordTypes, StopOK
  <1>1. ThreadsRecordOneStop <=> \A i, j \in DOMAIN events : ThreadStop(events[i]) /\ ThreadStop(events[j]) => i = j
    BY DEF ThreadsRecordOneStop, ThreadStop
  <1>2. ThreadsRecordOneStop' <=> \A i, j \in DOMAIN events' : ThreadStop(events'[i]) /\ ThreadStop(events'[j]) => i = j
    BY DEF ThreadsRecordOneStop, ThreadStop
  <1>3. CASE UNCHANGED events
    BY <1>0, <1>3 DEF ThreadsRecordOneStop, StopRecorded
  <1>4. ASSUME NEW a \in Agents, AddEvent(a) PROVE ThreadsRecordOneStop' /\ (StopRecorded' => StopRecorded)
    <2>1. /\ DOMAIN events' = 1..(Len(events) + 1)
          /\ \A i \in 1..Len(events) : events'[i] = events[i]
          /\ events'[Len(events) + 1] = Event0
      BY <1>0, <1>4, AppendFacts DEF AddEvent
    <2>2. ~ThreadStop(events'[Len(events) + 1])
      BY <2>1 DEF ThreadStop, Event0, Event
    <2>3. \A i \in DOMAIN events' : ThreadStop(events'[i]) => i \in DOMAIN events /\ ThreadStop(events[i])
      BY <1>0, <2>1, <2>2
    <2> QED BY <1>0, <1>1, <1>2, <2>3 DEF StopRecorded
  <1>5. ASSUME NEW a \in Agents, StoreEvent(a)
        PROVE  /\ ThreadsRecordOneStop'
               /\ StopRecorded' => StopRecorded \/ (a \in Threads /\ ev[a] = "session-stop")
    <2>1. /\ DOMAIN events' = DOMAIN events
          /\ \A i \in DOMAIN events : i # Len(events) => events'[i] = events[i]
          /\ Len(events) \in DOMAIN events => events'[Len(events)] = Event(ev[a], a)
      BY <1>0, <1>5 DEF StoreEvent
    <2>2. CASE a \in Threads /\ ev[a] = "session-stop"
      <3>1. ~StopRecorded
        BY <1>5, <2>2 DEF StoreEvent, StopOK, Deciding
      <3>2. \A i \in DOMAIN events' : ThreadStop(events'[i]) => i = Len(events)
        BY <2>1, <3>1 DEF StopRecorded
      <3> QED BY <1>2, <2>2, <3>2
    <2>3. CASE ~(a \in Threads /\ ev[a] = "session-stop")
      <3>1. ~ThreadStop(Event(ev[a], a))
        BY <2>3 DEF ThreadStop, Event
      <3>2. \A i \in DOMAIN events' : ThreadStop(events'[i]) => i \in DOMAIN events /\ ThreadStop(events[i])
        BY <2>1, <3>1
      <3> QED BY <1>0, <1>1, <1>2, <3>2 DEF StopRecorded
    <2> QED BY <2>2, <2>3
  <1> QED BY <1>3, <1>4, <1>5, EventsFrame DEF StopRecorded

\* session.active still tells whether a thread may record session-stop.
LEMMA StopStep == BaseInv /\ MutexOK /\ StopOK /\ [Next]_vars => StopOK'
  <1> SUFFICES ASSUME BaseInv, MutexOK, StopOK, [Next]_vars PROVE StopOK'
    OBVIOUS
  <1>0. GoTypes /\ StateTypes
    BY DEF BaseInv, TypeOK
  \* A thread in End and the accept loop before authentication exclude each other.
  <1>1. \A a \in Threads : Deciding(a) \/ Decided(a) =>
           mutex = a /\ pc[Main] # "auth" /\ \A b \in Threads : Deciding(b) \/ Decided(b) => a = b
    BY DistinctAssumption DEF MutexOK, Deciding, Decided, Ending, EndPcs, HandlingPcs, ClosingPcs
  <1>2. ~active /\ pc[Main] # "auth" => ~active'
    BY ActiveFrame DEF AuthOK, EndSet
  <1>3. StopRecorded' => ~active' /\ pc'[Main] # "auth"
    <2>1. CASE StopRecorded
      BY <1>2, <2>1, DecidingFrame DEF StopOK
    <2>2. ASSUME NEW a \in Threads, StoreEvent(a), ev[a] = "session-stop"
          PROVE  ~active' /\ pc'[Main] # "auth"
      <3>1. Decided(a)
        BY <2>2 DEF StoreEvent, Decided, HandlingPcs
      <3> QED BY <1>1, <1>2, <3>1, DecidingFrame DEF StopOK
    <2> QED BY <2>1, <2>2, StopRecordedStep
  <1>4. ASSUME NEW b \in Threads, Decided(b)' PROVE ~active'
    <2>1. CASE Decided(b)
      BY <1>1, <1>2, <2>1 DEF StopOK
    <2>2. CASE EndSet(b)
      BY <2>2 DEF EndSet
    <2> QED BY <1>4, <2>1, <2>2, DecidingFrame
  <1>5. ASSUME NEW b \in Threads, Deciding(b)' PROVE ~StopRecorded'
    <2>1. CASE Deciding(b)
      <3>1. ASSUME NEW a \in Threads, StoreEvent(a), ev[a] = "session-stop" PROVE FALSE
        <4>1. a = b
          BY <1>1, <2>1, <3>1 DEF StoreEvent, Decided, HandlingPcs
        <4>2. pc'[b] = "log"
          BY <1>0, <3>1, <4>1 DEF StoreEvent, Goto, GoTypes
        <4> QED BY <1>5, <4>2 DEF Deciding
      <3> QED BY <2>1, <3>1, StopRecordedStep DEF StopOK
    <2>2. CASE EndCheck(b) /\ active /\ UNCHANGED events
      BY <2>2 DEF StopOK, StopRecorded
    <2> QED BY <1>5, <2>1, <2>2, DecidingFrame
  <1> QED BY <1>3, <1>4, <1>5, StopRecordedStep DEF StopOK

\* The session's threads record session-stop at most once, for any number of
\* threads whose count drops to zero any number of times and any number of
\* concurrent calls of Stop.
THEOREM OneStop == Spec => []ThreadsRecordOneStop
  <1>1. Init => BaseInv /\ MutexOK /\ StopOK
    BY BaseInit, MutexInit, StopInit
  <1>2. BaseInv /\ MutexOK /\ StopOK /\ [Next]_vars => (MutexOK /\ StopOK)'
    BY MutexStep, StopStep
  <1>3. StopOK => ThreadsRecordOneStop
    BY DEF StopOK
  <1> QED BY <1>1, <1>2, <1>3, BaseCorrect, PTL DEF Spec

-----------------------------------------------------------------------------
(* The count of the threads *)

\* HandleClientConn has not started its handlers yet.
Early ==
    \/ pc[Main] \in {"auth", "refused", "mark_start", "open_log", "write_open", "dial", "poll"}
    \/ pc[Main] \in HandlingPcs /\ ev[Main] # "session-stop"

\* Until then no other thread exists, and the connection to the remote server is
\* closed before HandleClientConn leaves "wait".
MainOK ==
    /\ Early => \A w \in Workers : pc[w] = "idle"
    /\ remote = "up" =>
         pc[Main] \in {"poll", "wait"} \/ (pc[Main] \in HandlingPcs /\ ev[Main] # "session-stop")

CountedThreads == {a \in Threads : Counted(a)}


\* No thread is counted at first.
LEMMA MainInit == Init => MainOK /\ ThreadCountExact /\ StopsAfterShutdown
  <1> SUFFICES ASSUME Init PROVE MainOK /\ ThreadCountExact /\ StopsAfterShutdown
    OBVIOUS
  <1>1. MainOK
    BY DistinctAssumption DEF Init, MainOK
  <1>2. \A a \in Threads : ~Counted(a) /\ ~Ending(a)
    BY DEF Init, Counted, Ending, RunningPcs, HandlingPcs, EndPcs
  <1>3. CountedThreads = {}
    BY <1>2 DEF CountedThreads
  <1>4. ThreadCountExact
    BY <1>3, FS_EmptySet DEF Init, ThreadCountExact, CountedThreads
  <1>5. StopsAfterShutdown
    BY <1>2 DEF StopsAfterShutdown
  <1> QED BY <1>1, <1>4, <1>5

\* A goroutine moves by itself, or is started, or stays where it is.
LEMMA AgentFrame ==
    ASSUME BaseInv, [Next]_vars, NEW b \in Agents
    PROVE  \/ pc'[b] = pc[b] /\ ev'[b] = ev[b]
           \/ HandleEventStep(b) \/ EndStep(b)
           \/ b \in Threads /\ ThreadStep(b)
           \/ b = Main /\ (OpenLog \/ WriteOpen \/ ShutdownSeen \/ AuthOK \/ AuthFail
                           \/ DialFails \/ DialSucceeds)
           \/ Poll /\ b \in {Main} \cup Handlers
           \/ b \in Children /\ (\E w \in Workers : SpawnChild(w, b))
           \/ b \in Tasks /\ (\E w \in Workers : SpawnTask(w, b))
           \/ b \in Children /\ ChildEvent(b)
           \/ b \in Workers /\ WorkerReturn(b)
           \/ b \in Stoppers /\ StopCall(b)
  <1>0. GoTypes
    BY DEF BaseInv, TypeOK
  <1> DEFINE Stays == pc'[b] = pc[b] /\ ev'[b] = ev[b]
  <1> USE DEF GoTypes, Goto, Return
  <1>1. ASSUME NEW a \in Agents, HandleEventStep(a), a # b PROVE Stays
    BY <1>0, <1>1 DEF HandleEventStep, AddEvent, StoreEvent, LogEvent, StartRange,
                      LoadSignal, SendSignal, EndRange
  <1>2. ASSUME NEW a \in Agents, EndStep(a), a # b PROVE Stays
    BY <1>0, <1>2 DEF EndStep, EndCheck, EndSet, CloseBracket, CloseLog, RenameLog,
                      AddSessionToSessionList, CloseRemote
  <1>3. ASSUME NEW a \in Threads, ThreadStep(a), a # b PROVE Stays
    BY <1>0, <1>3 DEF ThreadStep, MarkThreadStarted, MarkThreadStopped
  <1>4. ASSUME OpenLog \/ WriteOpen \/ ShutdownSeen \/ AuthOK \/ AuthFail \/ DialFails
               \/ DialSucceeds,
               b # Main
        PROVE  Stays
    BY <1>0, <1>4 DEF OpenLog, WriteOpen, ShutdownSeen, AuthOK, AuthFail, DialFails,
                      DialSucceeds
  <1>5. ASSUME Poll, b \notin {Main} \cup Handlers PROVE Stays
    BY <1>0, <1>5 DEF Poll
  <1>6. ASSUME NEW w \in Workers, NEW c \in Children, SpawnChild(w, c), c # b PROVE Stays
    BY <1>0, <1>6 DEF SpawnChild
  <1>7. ASSUME NEW w \in Workers, NEW t \in Tasks, SpawnTask(w, t), t # b PROVE Stays
    BY <1>0, <1>7 DEF SpawnTask
  <1>8. ASSUME NEW c \in Agents, ChildEvent(c) \/ WorkerReturn(c) \/ StopCall(c), c # b
        PROVE  Stays
    BY <1>0, <1>8 DEF ChildEvent, WorkerReturn, StopCall
  <1>9. ASSUME \/ RemoteDown \/ SetActive \/ UNCHANGED vars
               \/ \E v \in Viewers : Attach(v) \/ Hangup(v) \/ ViewerStep(v)
        PROVE  Stays
    BY <1>9 DEF RemoteDown, SetActive, Attach, Hangup, ViewerStep, MakeNewSignal,
                StoreSignal, SendEvent, SkipEvents, ReadLength, RemoveSignal, goVars, vars
  <1> QED BY <1>1, <1>2, <1>3, <1>4, <1>5, <1>6, <1>7, <1>8, <1>9
          DEF Next, MainStep, Environment

\* Where a thread goes when HandleEvent has signalled the viewers.
LEMMA AfterRangeFacts ==
    ASSUME BaseInv, NEW b \in Threads, EndRange(b)
    PROVE  /\ ev[b] = "session-stop" => pc'[b] \in {"bracket", "range_end"}
           /\ ev[b] # "session-stop" => pc'[b] = IF b = Main THEN "poll" ELSE "loop"
           /\ ev'[b] = IF ev[b] = "session-stop" THEN ev[b] ELSE "none"
           /\ pc[b] \in HandlingPcs
  <1>0. GoTypes /\ EventOf(b) /\ b \in Agents
    BY DEF BaseInv, TypeOK, HandlingOK
  <1>1. /\ pc'[b] = AfterRange(b) /\ pc[b] = "load"
        /\ ev'[b] = IF ev[b] = "session-stop" THEN ev[b] ELSE "none"
    BY <1>0 DEF EndRange, Goto, GoTypes
  <1>2. CASE ev[b] = "session-stop"
    BY <1>1, <1>2 DEF AfterRange, HandlingPcs
  <1>3. CASE ev[b] # "session-stop"
    <2>1. it[b].sig # "END"
      BY <1>0, <1>1, <1>3 DEF EventOf
    <2>2. AfterRange(b) = IF b = Main THEN "poll" ELSE "loop"
      BY <1>3, <2>1, DistinctAssumption DEF AfterRange
    <2> QED BY <1>1, <1>3, <2>2 DEF HandlingPcs
  <1> QED BY <1>2, <1>3

\* Only markThreadStarted and markThreadStopped make a thread counted and uncounted.
LEMMA CountedFrame ==
    ASSUME BaseInv, MainOK, [Next]_vars, NEW b \in Threads
    PROVE  (Counted(b)' <=> Counted(b)) \/ MarkThreadStarted(b) \/ MarkThreadStopped(b)
  <1>0. GoTypes /\ EventOf(b) /\ b \in Agents
    BY DEF BaseInv, TypeOK, HandlingOK
  <1> DEFINE Same == Counted(b)' <=> Counted(b)
  <1> USE <1>0, DistinctAssumption DEF Counted, HandlingPcs, RunningPcs, GoTypes, Goto
  <1>1. CASE pc'[b] = pc[b] /\ ev'[b] = ev[b]
    BY <1>1
  <1>2. CASE HandleEventStep(b)
    <2>1. CASE AddEvent(b) \/ StoreEvent(b) \/ LogEvent(b) \/ LoadSignal(b) \/ SendSignal(b)
      BY <2>1 DEF AddEvent, StoreEvent, LogEvent, LoadSignal, SendSignal
    <2>2. CASE StartRange(b)
      BY <2>2 DEF StartRange, EventOf, ClosingPcs
    <2>3. CASE EndRange(b)
      BY <2>3, AfterRangeFacts
    <2> QED BY <1>2, <2>1, <2>2, <2>3 DEF HandleEventStep
  <1>3. CASE EndStep(b)
    BY <1>3 DEF EndStep, EndCheck, EndSet, CloseBracket, CloseLog, RenameLog,
                AddSessionToSessionList, CloseRemote, Return
  <1>4. CASE b = Main /\ (OpenLog \/ WriteOpen \/ ShutdownSeen \/ AuthOK \/ AuthFail
                          \/ DialFails \/ DialSucceeds)
    BY <1>4 DEF OpenLog, WriteOpen, ShutdownSeen, AuthOK, AuthFail, DialFails, DialSucceeds
  <1>5. CASE Poll /\ b \in {Main} \cup Handlers
    BY <1>5 DEF Poll, MainOK, Early
  <1>6. CASE \E w \in Workers : SpawnChild(w, b)
    BY <1>6 DEF SpawnChild
  <1>7. CASE ChildEvent(b) \/ WorkerReturn(b)
    BY <1>7 DEF ChildEvent, WorkerReturn
  <1> QED BY <1>1, <1>2, <1>3, <1>4, <1>5, <1>6, <1>7, AgentFrame DEF ThreadStep

\* Who writes thread_count.
LEMMA CountFrame ==
    [Next]_vars => \/ UNCHANGED thread_count
                   \/ AuthOK
                   \/ \E a \in Threads : MarkThreadStarted(a) \/ MarkThreadStopped(a)
  BY DEF Next, HandleEventStep, EndStep, ThreadStep, MainStep, ViewerStep, Environment,
         AddEvent, StoreEvent, LogEvent, StartRange, LoadSignal, SendSignal, EndRange,
         EndCheck, EndSet, CloseBracket, CloseLog, RenameLog, AddSessionToSessionList,
         CloseRemote, OpenLog, WriteOpen, Poll,
         ShutdownSeen, AuthFail, DialFails, DialSucceeds, RemoteDown, SetActive,
         SpawnChild, SpawnTask, ChildEvent, WorkerReturn, StopCall, Attach, MakeNewSignal,
         StoreSignal, SendEvent, SkipEvents, ReadLength, RemoveSignal, Hangup, vars, stateVars

\* Who writes remote_conn.
LEMMA RemoteFrame ==
    [Next]_vars => remote' = remote \/ remote' # "up" \/ DialSucceeds
  BY DEF Next, HandleEventStep, EndStep, ThreadStep, MainStep, ViewerStep, Environment,
         AddEvent, StoreEvent, LogEvent, StartRange, LoadSignal, SendSignal, EndRange,
         EndCheck, EndSet, CloseBracket, CloseLog, RenameLog, AddSessionToSessionList,
         CloseRemote, MarkThreadStarted, MarkThreadStopped, OpenLog, WriteOpen, Poll,
         ShutdownSeen, AuthOK, AuthFail, DialFails, RemoteDown, SetActive,
         SpawnChild, SpawnTask, ChildEvent, WorkerReturn, StopCall, Attach, MakeNewSignal,
         StoreSignal, SendEvent, SkipEvents, ReadLength, RemoveSignal, Hangup, vars, stateVars

\* No thread exists before HandleClientConn starts it.
LEMMA MainStepOK == BaseInv /\ MainOK /\ [Next]_vars => MainOK'
  <1> SUFFICES ASSUME BaseInv, MainOK, [Next]_vars PROVE MainOK'
    OBVIOUS
  <1>0. GoTypes /\ EventOf(Main) /\ Main \in Agents
    BY DEF BaseInv, TypeOK, HandlingOK
  <1> USE <1>0, DistinctAssumption DEF MainOK, HandlingPcs, GoTypes, Goto
  <1> DEFINE Connected == pc[Main] \in {"poll", "wait"} \/ (pc[Main] \in HandlingPcs /\ ev[Main] # "session-stop")
  \* A step of the goroutine of HandleClientConn.
  <1>1. /\ Early' => Early /\ ~Poll
        /\ Connected => Connected' \/ remote = "down"
        /\ DialSucceeds => Connected'
    <2> DEFINE P == /\ Early' => Early /\ ~Poll
                    /\ Connected => Connected' \/ remote = "down"
                    /\ DialSucceeds => Connected'
    <2>1. CASE pc'[Main] = pc[Main] /\ ev'[Main] = ev[Main]
      BY <2>1 DEF Early, Poll, DialSucceeds
    <2>2. CASE HandleEventStep(Main)
      <3>1. CASE AddEvent(Main) \/ StoreEvent(Main) \/ LogEvent(Main) \/ LoadSignal(Main)
                 \/ SendSignal(Main)
        BY <3>1 DEF Early, Poll, DialSucceeds, AddEvent, StoreEvent, LogEvent, LoadSignal, SendSignal
      <3>2. CASE StartRange(Main)
        BY <3>2 DEF Early, Poll, DialSucceeds, StartRange, EventOf, ClosingPcs
      <3>3. CASE EndRange(Main)
        BY <3>3, AfterRangeFacts DEF Early, Poll, DialSucceeds, EndRange
      <3> QED BY <2>2, <3>1, <3>2, <3>3 DEF HandleEventStep
    <2>3. CASE EndStep(Main)
      BY <2>3 DEF Early, Poll, DialSucceeds, EndStep, EndCheck, EndSet, CloseBracket, CloseLog,
                  RenameLog, AddSessionToSessionList, CloseRemote, Return
    <2>4. CASE ThreadStep(Main)
      BY <2>4 DEF Early, Poll, DialSucceeds, ThreadStep, MarkThreadStarted, MarkThreadStopped
    <2>5. CASE OpenLog \/ WriteOpen \/ ShutdownSeen \/ AuthOK \/ AuthFail \/ DialFails
               \/ DialSucceeds
      BY <2>5 DEF Early, Poll, OpenLog, WriteOpen, ShutdownSeen, AuthOK, AuthFail, DialFails,
                  DialSucceeds
    <2>6. CASE Poll
      BY <2>6 DEF Early, Poll, DialSucceeds
    <2> QED BY <2>1, <2>2, <2>3, <2>4, <2>5, <2>6, AgentFrame
  <1>2. ASSUME Early', NEW w \in Workers PROVE pc'[w] = "idle"
    <2>1. Early /\ ~Poll /\ pc[w] = "idle" /\ \A x \in Workers : pc[x] = "idle"
      BY <1>1, <1>2
    <2> QED BY <2>1, AgentFrame
            DEF HandleEventStep, AddEvent, StoreEvent, LogEvent, StartRange, LoadSignal,
                SendSignal, EndRange, EndStep, EndCheck, EndSet, CloseBracket, CloseLog,
                RenameLog, AddSessionToSessionList, CloseRemote, ThreadStep,
                MarkThreadStarted, MarkThreadStopped, SpawnChild, ChildEvent, WorkerReturn
  <1>3. ASSUME remote' = "up" PROVE Connected'
    BY <1>1, <1>3, RemoteFrame
  <1> QED BY <1>2, <1>3

\* The threads are finitely many.
LEMMA ThreadsFinite == IsFiniteSet(Threads)
  <1>1. IsFiniteSet(Handlers \cup Children)
    BY FiniteAssumption, FS_Union
  <1>2. IsFiniteSet({Main})
    BY FS_Singleton
  <1> QED BY <1>1, <1>2, FS_Union

\* The count follows the threads that start and stop.
LEMMA CountStep ==
    ASSUME BaseInv, MainOK, ThreadCountExact, [Next]_vars
    PROVE  ThreadCountExact'
  <1> DEFINE C == CountedThreads
  <1>0. /\ GoTypes
        /\ IsFiniteSet(C) /\ thread_count = Cardinality(C)
        /\ ThreadCountExact' <=> thread_count' = Cardinality(C')
    <2>1. IsFiniteSet(C)
      BY ThreadsFinite, FS_Subset DEF CountedThreads
    <2> QED BY <2>1 DEF BaseInv, TypeOK, ThreadCountExact, CountedThreads
  <1>1. ASSUME NEW a \in Threads, MarkThreadStarted(a) PROVE ThreadCountExact'
    <2>1. ~Counted(a) /\ Counted(a)' /\ thread_count' = thread_count + 1
      BY <1>0, <1>1 DEF MarkThreadStarted, Counted, RunningPcs, HandlingPcs, GoTypes, Goto
    <2>2. \A b \in Threads : b # a => (Counted(b)' <=> Counted(b))
      BY <1>0, <1>1 DEF MarkThreadStarted, Counted, GoTypes, Goto
    <2>3. C' = C \cup {a} /\ a \notin C
      BY <2>1, <2>2 DEF CountedThreads
    <2> QED BY <1>0, <2>1, <2>3, FS_AddElement
  <1>2. ASSUME NEW a \in Threads, MarkThreadStopped(a) PROVE ThreadCountExact'
    <2>1. Counted(a) /\ ~Counted(a)' /\ thread_count' = thread_count - 1
      BY <1>0, <1>2 DEF MarkThreadStopped, Counted, RunningPcs, HandlingPcs, GoTypes, Goto
    <2>2. \A b \in Threads : b # a => (Counted(b)' <=> Counted(b))
      BY <1>0, <1>2 DEF MarkThreadStopped, Counted, GoTypes, Goto
    <2>3. C' = C \ {a} /\ a \in C
      BY <2>1, <2>2 DEF CountedThreads
    <2> QED BY <1>0, <2>1, <2>3, FS_RemoveElement
  <1>3. CASE ~\E a \in Threads : MarkThreadStarted(a) \/ MarkThreadStopped(a)
    <2>1. C' = C
      BY <1>3, CountedFrame DEF CountedThreads
    <2>2. CASE UNCHANGED thread_count
      BY <1>0, <2>1, <2>2
    <2>3. CASE AuthOK
      <3>1. \A a \in Threads : ~Counted(a)
        BY <2>3 DEF AuthOK, MainOK, Early, Counted, RunningPcs, HandlingPcs
      <3>2. C = {}
        BY <3>1 DEF CountedThreads
      <3> QED BY <1>0, <2>1, <2>3, <3>2, FS_EmptySet DEF AuthOK
    <2> QED BY <1>3, <2>2, <2>3, CountFrame
  <1> QED BY <1>1, <1>2, <1>3

\* How a thread gets into End.
LEMMA EndingFrame ==
    ASSUME BaseInv, MainOK, [Next]_vars, NEW b \in Threads, Ending(b)', ~Ending(b)
    PROVE  MarkThreadStopped(b) /\ thread_count' < 1
  <1>0. GoTypes /\ EventOf(b) /\ b \in Agents
    BY DEF BaseInv, TypeOK, HandlingOK
  <1> USE <1>0, DistinctAssumption DEF Ending, EndPcs, HandlingPcs, GoTypes, Goto
  <1>1. CASE pc'[b] = pc[b] /\ ev'[b] = ev[b]
    BY <1>1
  <1>2. CASE HandleEventStep(b)
    <2>1. CASE AddEvent(b) \/ StoreEvent(b) \/ LogEvent(b) \/ LoadSignal(b) \/ SendSignal(b)
      BY <2>1 DEF AddEvent, StoreEvent, LogEvent, LoadSignal, SendSignal
    <2>2. CASE StartRange(b)
      BY <2>2 DEF StartRange, EventOf, ClosingPcs
    <2>3. CASE EndRange(b)
      BY <2>3, AfterRangeFacts
    <2> QED BY <1>2, <2>1, <2>2, <2>3 DEF HandleEventStep
  <1>3. CASE EndStep(b)
    BY <1>3 DEF EndStep, EndCheck, EndSet, CloseBracket, CloseLog, RenameLog,
                AddSessionToSessionList, CloseRemote, Return
  <1>4. CASE b = Main /\ (OpenLog \/ WriteOpen \/ ShutdownSeen \/ AuthOK \/ AuthFail
                          \/ DialFails \/ DialSucceeds)
    BY <1>4 DEF OpenLog, WriteOpen, ShutdownSeen, AuthOK, AuthFail, DialFails, DialSucceeds
  <1>5. CASE Poll /\ b \in {Main} \cup Handlers
    BY <1>5 DEF Poll
  <1>6. CASE \E w \in Workers : SpawnChild(w, b)
    BY <1>6 DEF SpawnChild
  <1>7. CASE ChildEvent(b) \/ WorkerReturn(b)
    BY <1>7 DEF ChildEvent, WorkerReturn
  <1>8. CASE ThreadStep(b)
    BY <1>8 DEF ThreadStep, MarkThreadStarted, MarkThreadStopped
  <1> QED BY <1>1, <1>2, <1>3, <1>4, <1>5, <1>6, <1>7, <1>8, AgentFrame

\* A thread enters End only when HandleClientConn is counted no more.
LEMMA ShutdownStep ==
    ASSUME BaseInv, MainOK, ThreadCountExact, StopsAfterShutdown, [Next]_vars
    PROVE  StopsAfterShutdown'
  <1> SUFFICES ASSUME NEW a \in Threads, Ending(a)', remote' = "up" PROVE FALSE
    BY DEF StopsAfterShutdown
  <1>0. GoTypes /\ Main \in Agents
    BY DEF BaseInv, TypeOK
  <1>1. CASE remote = "up" /\ Ending(a)
    BY <1>1 DEF StopsAfterShutdown
  <1>2. CASE remote = "up" /\ ~Ending(a)
    <2>1. MarkThreadStopped(a) /\ thread_count' < 1
      BY <1>2, EndingFrame
    <2>2. Counted(a) /\ pc[a] = "mark_stop" /\ thread_count' = thread_count - 1
      BY <2>1 DEF MarkThreadStopped, Counted, RunningPcs
    <2>3. Counted(Main) /\ a # Main
      BY <1>2, <2>2 DEF MainOK, Counted, RunningPcs, HandlingPcs
    <2>4. {a, Main} \subseteq CountedThreads /\ IsFiniteSet(CountedThreads)
      BY <2>2, <2>3, ThreadsFinite, FS_Subset DEF CountedThreads
    <2>5. Cardinality({a, Main}) = 2
      <3>1. IsFiniteSet({a}) /\ Cardinality({a}) = 1
        BY FS_Singleton
      <3>2. Cardinality({a} \cup {Main}) = 2
        BY <2>3, <3>1, FS_AddElement
      <3>3. {a} \cup {Main} = {a, Main}
        OBVIOUS
      <3> QED BY <3>2, <3>3
    <2>6. Cardinality(CountedThreads) >= 2
      BY <2>4, <2>5, FS_Subset, FS_CardinalityType
    <2>7. thread_count = Cardinality(CountedThreads) /\ Cardinality(CountedThreads) \in Nat
      BY <2>4, FS_CardinalityType DEF ThreadCountExact, CountedThreads
    <2> QED BY <2>1, <2>2, <2>6, <2>7
  <1>3. CASE remote # "up"
    <2>1. DialSucceeds
      BY <1>3, RemoteFrame
    <2>2. /\ pc[Main] = "dial" /\ pc'[Main] = "add" /\ ev'[Main] = "session-start"
          /\ \A w \in Workers : pc'[w] = pc[w] /\ pc[w] = "idle"
      BY <1>0, <2>1, DistinctAssumption DEF DialSucceeds, Goto, GoTypes, MainOK, Early
    <2> QED BY <2>2 DEF Ending, EndPcs, HandlingPcs
  <1> QED BY <1>1, <1>2, <1>3

\* What the count of threads and the connection satisfy together.
CountInv == MainOK /\ ThreadCountExact /\ StopsAfterShutdown

\* For any number of threads.
THEOREM CountCorrect == Spec => []CountInv
  <1>1. Init => CountInv
    BY MainInit DEF CountInv
  <1>2. BaseInv /\ CountInv /\ [Next]_vars => CountInv'
    BY MainStepOK, CountStep, ShutdownStep DEF CountInv
  <1> QED BY <1>1, <1>2, BaseCorrect, PTL DEF Spec

\* thread_count is the number of the threads between markThreadStarted and
\* markThreadStopped, however many there are and in whatever order they come and go.
THEOREM CountExact == Spec => []ThreadCountExact
  <1>1. CountInv => ThreadCountExact
    BY DEF CountInv
  <1> QED BY <1>1, CountCorrect, PTL

\* No thread ends the session while the connection to the remote server is open: the
\* goroutine of HandleClientConn is counted until it has seen it closed.
THEOREM ShutdownFirst == Spec => []StopsAfterShutdown
  <1>1. CountInv => StopsAfterShutdown
    BY DEF CountInv
  <1> QED BY <1>1, CountCorrect, PTL

\* Before the password is accepted, the log opened, the remote server reached.
OpenedPcs == {"auth", "refused", "mark_start", "open_log"}
StartPcs == {"auth", "mark_start", "open_log", "write_open", "dial"}

\* HandleClientConn goes forward.
LEMMA MainForward ==
    ASSUME BaseInv, [Next]_vars
    PROVE  /\ pc'[Main] \in {"auth", "refused"} => pc[Main] \in {"auth", "refused"}
           /\ pc'[Main] \in OpenedPcs => pc[Main] \in OpenedPcs
           /\ pc'[Main] \in StartPcs => pc[Main] \in StartPcs
           /\ pc'[Main] \notin OpenedPcs => pc[Main] \notin OpenedPcs \/ OpenLog
  <1>0. GoTypes /\ Main \in Agents
    BY DEF BaseInv, TypeOK
  <1> USE <1>0 DEF GoTypes, Goto, OpenedPcs, StartPcs
  <1>1. CASE pc'[Main] = pc[Main]
    BY <1>1
  <1>2. CASE HandleEventStep(Main)
    BY <1>2 DEF HandleEventStep, AddEvent, StoreEvent, LogEvent, StartRange, LoadSignal,
                SendSignal, EndRange, AfterRange
  <1>3. CASE EndStep(Main) \/ ThreadStep(Main)
    BY <1>3 DEF EndStep, EndCheck, EndSet, CloseBracket, CloseLog, RenameLog,
                AddSessionToSessionList, CloseRemote, Return, ThreadStep,
                MarkThreadStarted, MarkThreadStopped
  <1>4. CASE \/ OpenLog \/ WriteOpen \/ ShutdownSeen \/ AuthOK \/ AuthFail \/ DialFails
             \/ DialSucceeds \/ Poll
    BY <1>4 DEF OpenLog, WriteOpen, ShutdownSeen, AuthOK, AuthFail, DialFails,
                DialSucceeds, Poll
  <1> QED BY <1>1, <1>2, <1>3, <1>4, AgentFrame, DistinctAssumption

-----------------------------------------------------------------------------
(* The list of signals *)

\* The signal of a viewer is among the first n.
Registered(v, n) == \E i \in 1..n : arrays[msg_signal.arr][i] = v

\* Between the two stores of an append the last place is nobody's, and before the
\* password is accepted, which empties the list, nobody is in it.
WatchOK ==
    /\ pc[Main] \in {"auth", "refused"} => \A v \in Viewers : vpc[v] \in {"away", "enter"}
    /\ \A v \in Viewers : Watching(v) => Registered(v, msg_signal.len)
    /\ \A u, v \in Viewers : vpc[u] = "slot" /\ Watching(v) => Registered(v, msg_signal.len - 1)
    /\ \A u \in Viewers : vpc[u] = "slot" => msg_signal.len > 0

\* Nobody watches at first.
LEMMA WatchInit == Init => WatchOK
  BY DEF Init, WatchOK, Watching

\* What the viewers' goroutines do to vpc.
LEMMA WatchFrame ==
    ASSUME BaseInv, [Next]_vars, NEW w \in Viewers
    PROVE  /\ Watching(w)' => Watching(w) \/ StoreSignal(w)
           /\ vpc'[w] = "slot" => vpc[w] = "slot" \/ MakeNewSignal(w)
           /\ vpc'[w] \notin {"away", "enter"} =>
                 vpc[w] \notin {"away", "enter"} \/ MakeNewSignal(w)
           /\ Watching(w)' => ~RemoveSignal(w)
  <1>0. ViewTypes
    BY DEF BaseInv, TypeOK
  <1> DEFINE P == /\ Watching(w)' => Watching(w) \/ StoreSignal(w)
                  /\ vpc'[w] = "slot" => vpc[w] = "slot" \/ MakeNewSignal(w)
                  /\ vpc'[w] \notin {"away", "enter"} =>
                        vpc[w] \notin {"away", "enter"} \/ MakeNewSignal(w)
                  /\ Watching(w)' => ~RemoveSignal(w)
  <1> USE <1>0 DEF Watching, ViewTypes
  <1>1. CASE UNCHANGED viewVars
    BY <1>1 DEF viewVars, RemoveSignal
  <1>2. ASSUME NEW a \in Agents, SendSignal(a) PROVE P
    BY <1>2 DEF SendSignal, Ready, RemoveSignal
  <1>3. ASSUME NEW v \in Viewers, v # w, ViewerStep(v) \/ Attach(v) \/ Hangup(v) PROVE P
    BY <1>3 DEF ViewerStep, MakeNewSignal, StoreSignal, SendEvent, SkipEvents, ReadLength,
                RemoveSignal, Attach, Hangup
  <1>4. CASE ViewerStep(w) \/ Attach(w) \/ Hangup(w)
    <2>1. CASE MakeNewSignal(w) \/ StoreSignal(w)
      BY <2>1 DEF MakeNewSignal, StoreSignal, RemoveSignal
    <2>2. CASE SendEvent(w) \/ SkipEvents(w) \/ ReadLength(w) \/ RemoveSignal(w) \/ Attach(w)
               \/ Hangup(w)
      BY <2>2 DEF SendEvent, SkipEvents, ReadLength, RemoveSignal, Attach, Hangup
    <2> QED BY <1>4, <2>1, <2>2 DEF ViewerStep
  <1> QED BY <1>1, <1>2, <1>3, <1>4, ViewFrame

\* MakeNewSignal and RemoveSignal leave everybody else in the list.
LEMMA WatchStep == BaseInv /\ MutexOK /\ WatchOK /\ [Next]_vars => WatchOK'
  <1> SUFFICES ASSUME BaseInv, MutexOK, WatchOK, [Next]_vars PROVE WatchOK'
    OBVIOUS
  <1>0. /\ SignalTypes /\ SlicesOK /\ ViewTypes /\ GoTypes
        /\ arrays \in Seq(Seq(Slots))
        /\ msg_signal.arr \in 1..Len(arrays)
        /\ msg_signal.len \in Nat
        /\ arrays[msg_signal.arr] \in Seq(Slots)
        /\ Len(arrays[msg_signal.arr]) \in Nat
    BY ArraysTypes DEF BaseInv, TypeOK, SlicesOK, SignalTypes
  <1> DEFINE head == arrays[msg_signal.arr]
  \* Nobody enters the list before the password is accepted.
  <1>1. ASSUME pc'[Main] \in {"auth", "refused"}, NEW v \in Viewers
        PROVE  vpc'[v] \in {"away", "enter"}
    <2>1. pc[Main] \in {"auth", "refused"}
      BY <1>1, MainForward
    <2>2. vpc[v] \in {"away", "enter"} /\ mutex = Listener
      BY <2>1 DEF WatchOK, MutexOK
    <2>3. ~MakeNewSignal(v)
      BY <2>2, DistinctAssumption DEF MakeNewSignal, Lock
    <2> QED BY <2>2, <2>3, WatchFrame
  \* The list stays.
  <1>2. CASE UNCHANGED signalVars
    <2>2. ASSUME NEW v \in Viewers, MakeNewSignal(v) PROVE FALSE
      BY <1>0, <1>2, <2>2 DEF MakeNewSignal, signalVars, SignalTypes
    <2>3. ASSUME NEW v \in Viewers, Watching(v)' PROVE Registered(v, msg_signal.len)'
      <3>1. CASE Watching(v)
        BY <1>2, <3>1 DEF WatchOK, Registered, signalVars
      <3>2. CASE StoreSignal(v)
        <4>1. arrays' = [arrays EXCEPT ![msg_signal.arr] = [head EXCEPT ![msg_signal.len] = v]]
          BY <3>2 DEF StoreSignal
        <4>2. msg_signal.len \in 1..Len(head)
          BY <1>0, <3>2 DEF StoreSignal, SlicesOK, WatchOK
        <4> QED BY <1>0, <1>2, <4>1, <4>2 DEF Registered, signalVars
      <3> QED BY <2>3, <3>1, <3>2, WatchFrame
    <2>4. ASSUME NEW u \in Viewers, NEW v \in Viewers, vpc'[u] = "slot", Watching(v)'
          PROVE  Registered(v, msg_signal.len - 1)'
      <3>1. vpc[u] = "slot"
        BY <2>2, <2>4, WatchFrame
      <3>2. ~StoreSignal(v)
        BY <1>0, <2>4, <3>1, DistinctAssumption DEF MutexOK, StoreSignal, ViewTypes
      <3> QED BY <1>2, <2>4, <3>1, <3>2, WatchFrame DEF WatchOK, Registered, signalVars
    <2>5. ASSUME NEW u \in Viewers, vpc'[u] = "slot" PROVE msg_signal'.len > 0
      BY <1>2, <2>2, <2>5, WatchFrame DEF WatchOK, signalVars
    <2> QED BY <1>1, <2>3, <2>4, <2>5 DEF WatchOK
  <1>3. CASE AuthOK
    <2>1. \A v \in Viewers : vpc'[v] \in {"away", "enter"}
      BY <1>3 DEF AuthOK, WatchOK, viewVars
    <2> QED BY <1>1, <2>1 DEF WatchOK, Watching
  <1>4. ASSUME NEW u \in Viewers, MakeNewSignal(u) PROVE WatchOK'
    <2>1. /\ msg_signal'.len = msg_signal.len + 1
          /\ \A i \in 1..msg_signal.len : arrays'[msg_signal'.arr][i] = head[i]
      <3>1. CASE msg_signal.len = Len(head)
        <4>1. /\ arrays' = Append(arrays, Grow(head))
              /\ msg_signal' = [arr |-> Len(arrays) + 1, len |-> msg_signal.len + 1]
          BY <1>4, <3>1 DEF MakeNewSignal
        <4>2. Grow(head) \in Seq(Slots)
          BY <1>0, GrowFacts
        <4>3. arrays'[Len(arrays) + 1] = Grow(head)
          BY <1>0, <4>1, <4>2, AppendFacts
        <4>4. \A i \in 1..Len(head) : Grow(head)[i] = head[i]
          BY <1>0, EmptySeq DEF Grow
        <4> QED BY <3>1, <4>1, <4>3, <4>4
      <3>2. CASE msg_signal.len # Len(head)
        BY <1>4, <3>2 DEF MakeNewSignal
      <3> QED BY <3>1, <3>2
    <2>2. \A v \in Viewers : Watching(v)' => Watching(v)
      BY <1>0, <1>4, WatchFrame, DistinctAssumption DEF MakeNewSignal, StoreSignal, MutexOK, Lock
    <2>3. ASSUME NEW v \in Viewers, Watching(v)'
          PROVE  Registered(v, msg_signal.len)' /\ Registered(v, msg_signal.len - 1)'
      <3>1. PICK i \in 1..msg_signal.len : head[i] = v
        BY <2>2, <2>3 DEF WatchOK, Registered
      <3>2. /\ arrays'[msg_signal'.arr][i] = v
            /\ i \in 1..msg_signal'.len /\ i \in 1..(msg_signal'.len - 1)
        BY <1>0, <2>1, <3>1
      <3> QED BY <3>2 DEF Registered
    <2> QED BY <1>0, <1>1, <2>1, <2>3 DEF WatchOK
  <1>5. ASSUME NEW u \in Viewers, StoreSignal(u) PROVE WatchOK'
    <2>1. /\ arrays' = [arrays EXCEPT ![msg_signal.arr] = [head EXCEPT ![msg_signal.len] = u]]
          /\ UNCHANGED msg_signal /\ vpc[u] = "slot" /\ vpc'[u] = "play"
      BY <1>0, <1>5 DEF StoreSignal, ViewTypes
    <2>2. \A i \in 1..(msg_signal.len - 1) : arrays'[msg_signal.arr][i] = head[i]
      BY <1>0, <2>1
    <2>3. \A v \in Viewers : Watching(v)' => v = u \/ Watching(v)
      BY WatchFrame, <1>5 DEF StoreSignal, MutexOK
    <2>4. ASSUME NEW v \in Viewers, v # u, Watching(v)' PROVE Registered(v, msg_signal.len)'
      <3>1. PICK i \in 1..(msg_signal.len - 1) : head[i] = v
        BY <2>1, <2>3, <2>4 DEF WatchOK, Registered
      <3>2. arrays'[msg_signal'.arr][i] = v /\ i \in 1..msg_signal'.len
        BY <1>0, <2>1, <2>2, <3>1
      <3> QED BY <3>2 DEF Registered
    <2>5. Registered(u, msg_signal.len)'
      <3>1. msg_signal.len \in 1..Len(head)
        BY <1>0, <1>5 DEF StoreSignal, SlicesOK, WatchOK
      <3> QED BY <1>0, <2>1, <3>1 DEF Registered
    <2>6. \A v \in Viewers : vpc'[v] # "slot"
      <3>1. ASSUME NEW v \in Viewers, vpc'[v] = "slot" PROVE FALSE
        <4>1. vpc[v] = "slot" \/ MakeNewSignal(v)
          BY <3>1, WatchFrame
        <4>2. ~MakeNewSignal(v)
          BY <2>1, DistinctAssumption DEF MakeNewSignal, MutexOK, Lock
        <4> QED BY <2>1, <3>1, <4>1, <4>2 DEF MutexOK
      <3> QED BY <3>1
    <2> QED BY <1>1, <2>4, <2>5, <2>6 DEF WatchOK
  <1>6. ASSUME NEW u \in Viewers, RemoveSignal(u) PROVE WatchOK'
    <2>1. \A v \in Viewers : vpc[v] # "slot" /\ vpc'[v] # "slot"
      <3>1. ASSUME NEW v \in Viewers PROVE vpc[v] # "slot" /\ vpc'[v] # "slot"
        <4>1. vpc[v] # "slot"
          BY <1>6, DistinctAssumption DEF RemoveSignal, Free, MutexOK
        <4>2. ~MakeNewSignal(v)
          BY <1>0, <1>6, DistinctAssumption DEF RemoveSignal, Free, MakeNewSignal, Lock
        <4> QED BY <4>1, <4>2, WatchFrame
      <3> QED BY <3>1
    <2>2. ASSUME NEW v \in Viewers, Watching(v)' PROVE v # u /\ Watching(v)
      <3>1. Watching(v) /\ ~RemoveSignal(v)
        BY <2>1, <2>2, WatchFrame DEF StoreSignal
      <3> QED BY <1>6, <3>1
    <2>3. ASSUME NEW v \in Viewers, Watching(v)' PROVE Registered(v, msg_signal.len)'
      <3>1. Registered(v, msg_signal.len) /\ v # u
        BY <2>2, <2>3 DEF WatchOK
      <3>2. CASE UNCHANGED signalVars
        BY <3>1, <3>2 DEF Registered, signalVars
      <3>3. ASSUME NEW i \in 1..msg_signal.len,
                   head[i] = u,
                   arrays' = [arrays EXCEPT ![msg_signal.arr] =
                                 [head EXCEPT ![i] = head[msg_signal.len]]],
                   msg_signal' = [arr |-> msg_signal.arr, len |-> msg_signal.len - 1]
            PROVE  Registered(v, msg_signal.len)'
        <4>1. PICK j \in 1..msg_signal.len : head[j] = v
          BY <3>1 DEF Registered
        <4>2. j # i /\ msg_signal.len <= Len(head)
          BY <1>0, <3>1, <3>3, <4>1 DEF SlicesOK
        <4>3. arrays'[msg_signal.arr] = [head EXCEPT ![i] = head[msg_signal.len]]
          <5>1. msg_signal.arr \in DOMAIN arrays
            BY <1>0 DEF SlicesOK
          <5> HIDE DEF head
          <5> QED BY <3>3, <5>1
        <4>4. CASE j = msg_signal.len
          <5>1. msg_signal'.arr = msg_signal.arr /\ msg_signal'.len = msg_signal.len - 1
            BY <3>3
          <5>2. i \in 1..(msg_signal.len - 1) /\ i \in 1..Len(head)
            BY <1>0, <3>3, <4>1, <4>2, <4>4
          <5>3. [head EXCEPT ![i] = head[msg_signal.len]][i] = v
            BY <1>0, <4>1, <4>4, <5>2
          <5>4. arrays'[msg_signal'.arr][i] = v /\ i \in 1..msg_signal'.len
            BY <4>3, <5>1, <5>2, <5>3
          <5> QED BY <5>4 DEF Registered
        <4>5. CASE j # msg_signal.len
          <5>1. arrays'[msg_signal'.arr][j] = v /\ j \in 1..msg_signal'.len
            BY <1>0, <3>3, <4>1, <4>2, <4>3, <4>5
          <5> QED BY <5>1 DEF Registered
        <4> QED BY <4>4, <4>5
      <3> QED BY <1>6, <3>2, <3>3, RemoveForms
    <2> QED BY <1>1, <2>1, <2>3 DEF WatchOK
  <1> QED BY <1>2, <1>3, <1>4, <1>5, <1>6, SignalFrame

\* A viewer that plays the session is in msg_signal until it removes itself, for any
\* number of viewers that join and leave: appends go into an array that ranges of
\* signalNewMessage still read, and RemoveSignal moves another viewer's signal.
THEOREM WatchersStay == Spec => []WatchersRegistered
  <1>1. Init => MutexOK /\ WatchOK
    BY MutexInit, WatchInit
  <1>2. BaseInv /\ MutexOK /\ WatchOK /\ [Next]_vars => (MutexOK /\ WatchOK)'
    BY MutexStep, WatchStep
  <1>3. WatchOK => WatchersRegistered
    BY DEF WatchOK, WatchersRegistered, Registered
  <1> QED BY <1>1, <1>2, <1>3, BaseCorrect, PTL DEF Spec

-----------------------------------------------------------------------------
(* The log follows the list *)

\* An event of the goroutine is in the list.
EventOfAgent(a) == \E i \in DOMAIN events : events[i].by = a

\* Nobody comes with an event that was recorded before: neither HandleClientConn and
\* the goroutines that handle one event, nor (StopOK) a thread with session-stop.
FreshOK ==
    /\ pc[Main] \in StartPcs => ~EventOfAgent(Main)
    /\ \A t \in Tasks \cup Stoppers :
         pc[t] \in {"idle", "end_check", "end_set"} => ~EventOfAgent(t)
    /\ \A a \in Agents :
         /\ pc[a] \in {"add", "store"} => ~Recorded(events, Event(ev[a], a))
         /\ pc[a] = "log" => Recorded(events, Event(ev[a], a)) /\ ~Recorded(log, Event(ev[a], a))

\* Nothing is recorded at first.
LEMMA FreshInit == Init => FreshOK /\ LogFollowsMemory
  BY DistinctAssumption DEF Init, FreshOK, EventOfAgent, LogFollowsMemory

\* What becomes of the list of events.
LEMMA RecordedStep ==
    ASSUME BaseInv, [Next]_vars
    PROVE  /\ \A e : e # Event0 /\ Recorded(events, e) => Recorded(events', e)
           /\ \A e : e # Event0 /\ Recorded(events', e) =>
                 Recorded(events, e) \/ \E a \in Agents : StoreEvent(a) /\ e = Event(ev[a], a)
           /\ \A b \in Agents : EventOfAgent(b)' => EventOfAgent(b) \/ StoreEvent(b)
           /\ \A a \in Agents : StoreEvent(a) => Recorded(events', Event(ev[a], a))
  <1>0. /\ events \in Seq(AllEvents \cup {Event0}) /\ Len(events) \in Nat
        /\ DOMAIN events = 1..Len(events)
        /\ HandlingOK
    BY DEF BaseInv, TypeOK, RecordTypes
  <1>1. CASE UNCHANGED events
    <2>1. ASSUME NEW a \in Agents, StoreEvent(a) PROVE FALSE
      <3>1. /\ Len(events) \in DOMAIN events /\ events[Len(events)] = Event0
            /\ events'[Len(events)] = Event(ev[a], a) /\ ev[a] \in EventTypes
        BY <1>0, <2>1 DEF StoreEvent, HandlingOK, EventOf, HandlingPcs
      <3>2. Event(ev[a], a) # Event0
        BY <3>1 DEF Event, Event0, EventTypes
      <3> QED BY <1>1, <3>1, <3>2
    <2> QED BY <1>1, <2>1 DEF Recorded, EventOfAgent
  <1>2. ASSUME NEW c \in Agents, AddEvent(c)
        PROVE  /\ \A e : e # Event0 => (Recorded(events, e) <=> Recorded(events', e))
               /\ \A b \in Agents : EventOfAgent(b)' => EventOfAgent(b)
               /\ \A a \in Agents : ~StoreEvent(a)
    <2>1. /\ DOMAIN events' = 1..(Len(events) + 1)
          /\ \A i \in DOMAIN events : events'[i] = events[i]
          /\ events'[Len(events) + 1] = Event0
      BY <1>0, <1>2, AppendFacts DEF AddEvent
    <2>2. \A i \in DOMAIN events' : i \in DOMAIN events \/ i = Len(events) + 1
      BY <1>0, <2>1
    <2>3. \A b \in Agents : Event0.by # b
      BY DistinctAssumption DEF Event0, Event
    <2>4. \A a \in Agents : ~StoreEvent(a)
      BY <1>2 DEF AddEvent, StoreEvent
    <2> QED BY <1>0, <2>1, <2>2, <2>3, <2>4 DEF Recorded, EventOfAgent
  <1>3. ASSUME NEW c \in Agents, StoreEvent(c)
        PROVE  /\ \A e : e # Event0 /\ Recorded(events, e) => Recorded(events', e)
               /\ \A e : Recorded(events', e) => Recorded(events, e) \/ e = Event(ev[c], c)
               /\ \A b \in Agents : EventOfAgent(b)' => EventOfAgent(b) \/ b = c
               /\ \A a \in Agents : StoreEvent(a) => a = c
               /\ Recorded(events', Event(ev[c], c))
    <2>1. /\ Len(events) \in DOMAIN events /\ events[Len(events)] = Event0
          /\ DOMAIN events' = DOMAIN events
          /\ \A i \in DOMAIN events : i # Len(events) => events'[i] = events[i]
          /\ events'[Len(events)] = Event(ev[c], c)
      BY <1>0, <1>3 DEF StoreEvent, HandlingOK
    <2>2. \A a \in Agents : StoreEvent(a) => a = c
      BY <1>0, <1>3 DEF StoreEvent, HandlingOK
    <2>3. Event(ev[c], c).by = c
      BY DEF Event
    <2> QED BY <2>1, <2>2, <2>3 DEF Recorded, EventOfAgent
  <1> QED BY <1>1, <1>2, <1>3, EventsFrame

\* What becomes of the log.
LEMMA LoggedStep ==
    ASSUME BaseInv, [Next]_vars
    PROVE  \/ \A i \in DOMAIN log' : log'[i].type \in EventTypes =>
                 i \in DOMAIN log /\ log'[i] = log[i]
           \/ \E a \in Agents : /\ LogEvent(a)
                                /\ Len(log) \in Nat /\ DOMAIN log = 1..Len(log)
                                /\ DOMAIN log' = 1..(Len(log) + 1)
                                /\ log'[Len(log) + 1] = Event(ev[a], a)
                                /\ \A i \in DOMAIN log : log'[i] = log[i]
  <1>0. /\ log \in Seq(AllEvents \cup {LogOpen, LogClose})
        /\ Len(log) \in Nat /\ DOMAIN log = 1..Len(log)
    BY DEF BaseInv, TypeOK, RecordTypes
  <1>1. ASSUME UNCHANGED log
        PROVE  \A i \in DOMAIN log' : i \in DOMAIN log /\ log'[i] = log[i]
    BY <1>1
  <1>2. ASSUME NEW e \in AllEvents \cup {LogOpen, LogClose}, log' = Append(log, e)
        PROVE  /\ DOMAIN log' = 1..(Len(log) + 1) /\ log'[Len(log) + 1] = e
               /\ \A i \in DOMAIN log : log'[i] = log[i]
    BY <1>0, <1>2, AppendFacts
  <1>3. ASSUME NEW e \in {LogOpen, LogClose}, log' = Append(log, e)
        PROVE  \A i \in DOMAIN log' : log'[i].type \in EventTypes =>
                  i \in DOMAIN log /\ log'[i] = log[i]
    <2>1. e.type \notin EventTypes
      BY DEF LogOpen, LogClose, Event, EventTypes
    <2> QED BY <1>0, <1>2, <1>3, <2>1
  <1>4. ASSUME NEW a \in Agents, LogEvent(a), ~UNCHANGED log
        PROVE  log' = Append(log, Event(ev[a], a)) /\ Event(ev[a], a) \in AllEvents
    <2>1. ev[a] \in EventTypes
      BY <1>4 DEF LogEvent, BaseInv, HandlingOK, EventOf, HandlingPcs
    <2> QED BY <1>4, <2>1 DEF LogEvent, AppendToLog, logVars, Event, AllEvents
  <1>5. ASSUME OpenLog \/ WriteOpen \/ (\E a \in Agents : CloseBracket(a) \/ CloseLog(a)),
               ~UNCHANGED log
        PROVE  \E e \in {LogOpen, LogClose} : log' = Append(log, e)
    BY <1>5 DEF OpenLog, WriteOpen, CloseBracket, CloseLog, AppendToLog, logVars
  <1> QED BY <1>0, <1>1, <1>2, <1>3, <1>4, <1>5, LogFrame DEF logVars

\* How a goroutine comes to write an event, and to log it.
LEMMA WritingFrame ==
    ASSUME BaseInv, [Next]_vars, NEW b \in Agents
    PROVE  /\ pc'[b] \in {"add", "store"} =>
                \/ pc[b] \in {"add", "store"} /\ ev'[b] = ev[b] /\ ~StoreEvent(b)
                \/ b = Main /\ pc[b] = "dial"
                \/ b \in Tasks /\ pc[b] = "idle"
                \/ ~StoreEvent(b) /\ \A i \in DOMAIN events : events[i] # Event(ev'[b], b)
                \/ EndSet(b) /\ ev'[b] = "session-stop"
           /\ pc'[b] = "log" =>
                /\ ev'[b] = ev[b]
                /\ (pc[b] = "log" /\ ~LogEvent(b)) \/ StoreEvent(b)
           /\ b \notin Threads /\ pc'[b] \in {"idle", "end_check", "end_set"} =>
                pc[b] \in {"idle", "end_check", "end_set"}
  <1>0. GoTypes
    BY DEF BaseInv, TypeOK
  <1> DEFINE P == /\ pc'[b] \in {"add", "store"} =>
                       \/ pc[b] \in {"add", "store"} /\ ev'[b] = ev[b] /\ ~StoreEvent(b)
                       \/ b = Main /\ pc[b] = "dial"
                       \/ b \in Tasks /\ pc[b] = "idle"
                       \/ ~StoreEvent(b) /\ \A i \in DOMAIN events : events[i] # Event(ev'[b], b)
                       \/ EndSet(b) /\ ev'[b] = "session-stop"
                  /\ pc'[b] = "log" =>
                       /\ ev'[b] = ev[b]
                       /\ (pc[b] = "log" /\ ~LogEvent(b)) \/ StoreEvent(b)
                  /\ b \notin Threads /\ pc'[b] \in {"idle", "end_check", "end_set"} =>
                       pc[b] \in {"idle", "end_check", "end_set"}
  <1> USE <1>0 DEF GoTypes, Goto, Return
  <1>1. CASE pc'[b] = pc[b] /\ ev'[b] = ev[b]
    BY <1>1 DEF StoreEvent, LogEvent
  <1>2. CASE AddEvent(b) \/ StoreEvent(b) \/ LogEvent(b)
    BY <1>2 DEF AddEvent, StoreEvent, LogEvent
  <1>3. CASE StartRange(b) \/ LoadSignal(b) \/ SendSignal(b) \/ EndRange(b)
    BY <1>3 DEF StartRange, LoadSignal, SendSignal, EndRange, AfterRange
  <1>4. CASE EndCheck(b) \/ EndSet(b)
    BY <1>4 DEF EndCheck, EndSet
  <1>5. CASE \/ CloseBracket(b) \/ CloseLog(b) \/ RenameLog(b)
             \/ AddSessionToSessionList(b) \/ CloseRemote(b)
    BY <1>5 DEF CloseBracket, CloseLog, RenameLog, AddSessionToSessionList, CloseRemote
  <1>6. CASE b \in Threads /\ ThreadStep(b)
    BY <1>6 DEF ThreadStep, MarkThreadStarted, MarkThreadStopped
  <1>7. CASE b = Main /\ (OpenLog \/ WriteOpen \/ ShutdownSeen \/ AuthOK \/ AuthFail
                          \/ DialFails \/ DialSucceeds)
    BY <1>7 DEF OpenLog, WriteOpen, ShutdownSeen, AuthOK, AuthFail, DialFails, DialSucceeds
  <1>8. CASE Poll /\ b \in {Main} \cup Handlers
    BY <1>8 DEF Poll
  <1>9. CASE b \in Children /\ \E w \in Workers : SpawnChild(w, b)
    BY <1>9 DEF SpawnChild
  <1>10. CASE b \in Tasks /\ \E w \in Workers : SpawnTask(w, b)
    BY <1>10 DEF SpawnTask
  <1>11. CASE b \in Children /\ ChildEvent(b)
    BY <1>11 DEF ChildEvent, StoreEvent
  <1>12. CASE (b \in Workers /\ WorkerReturn(b)) \/ StopCall(b)
    BY <1>12 DEF WorkerReturn, StopCall
  <1> QED BY <1>1, <1>2, <1>3, <1>4, <1>5, <1>6, <1>7, <1>8, <1>9, <1>10, <1>11, <1>12,
             AgentFrame DEF HandleEventStep, EndStep

\* Nobody comes with an event that was recorded before.
LEMMA FreshStep ==
    ASSUME BaseInv, StopOK, FreshOK, LogFollowsMemory, [Next]_vars
    PROVE  (FreshOK /\ LogFollowsMemory)'
  <1>0. /\ GoTypes
        /\ \A a \in Agents : \A t : Event(t, a) # Event0
        /\ \A a, b \in Agents : \A t, u : Event(t, a) = Event(u, b) => a = b
        /\ \A e : e.type \in EventTypes => e # Event0
    BY DistinctAssumption DEF BaseInv, TypeOK, Event, Event0, EventTypes
  \* Nothing new of b is in the list unless b stores it.
  <1>1. ASSUME NEW b \in Agents, ~EventOfAgent(b), pc[b] # "store" PROVE ~EventOfAgent(b)'
    BY <1>1, RecordedStep DEF StoreEvent
  <1>2. ASSUME NEW b \in Agents, NEW t, ~StoreEvent(b), Recorded(events', Event(t, b))
        PROVE  Recorded(events, Event(t, b))
    BY <1>0, <1>2, RecordedStep
  <1>3. ASSUME pc'[Main] \in StartPcs PROVE ~EventOfAgent(Main)'
    BY <1>1, <1>3, MainForward DEF StartPcs, FreshOK
  <1>4. ASSUME NEW t \in Tasks \cup Stoppers, pc'[t] \in {"idle", "end_check", "end_set"}
        PROVE  ~EventOfAgent(t)'
    <2>1. t \in Agents /\ pc[t] \in {"idle", "end_check", "end_set"}
      BY <1>4, WritingFrame, DistinctAssumption
    <2> QED BY <1>1, <2>1 DEF FreshOK
  <1>5. ASSUME NEW b \in Agents, pc'[b] \in {"add", "store"}, Recorded(events', Event(ev'[b], b))
        PROVE  FALSE
    <2>1. EventOfAgent(b) <=> \E t : Recorded(events, Event(t, b))
      <3>1. ASSUME NEW i \in DOMAIN events, events[i].by = b PROVE \E t : Recorded(events, Event(t, b))
        <4>1. events[i] \in AllEvents \cup {Event0}
          BY <3>1 DEF BaseInv, TypeOK, RecordTypes
        <4>2. events[i] = Event(events[i].type, b)
          BY <3>1, <4>1 DEF AllEvents, Event0, Event
        <4> QED BY <3>1, <4>2 DEF Recorded
      <3> QED BY <3>1 DEF EventOfAgent, Recorded, Event
    <2>2. CASE pc[b] \in {"add", "store"} /\ ev'[b] = ev[b] /\ ~StoreEvent(b)
      BY <1>2, <1>5, <2>2 DEF FreshOK
    <2>3. CASE b = Main /\ pc[b] = "dial"
      BY <1>2, <1>5, <2>1, <2>3 DEF StoreEvent, FreshOK, StartPcs
    <2>4. CASE b \in Tasks /\ pc[b] = "idle"
      BY <1>2, <1>5, <2>1, <2>4 DEF StoreEvent, FreshOK
    <2>5. CASE (\A i \in DOMAIN events : events[i] # Event(ev'[b], b)) /\ ~StoreEvent(b)
      BY <1>2, <1>5, <2>5 DEF Recorded
    <2>6. CASE EndSet(b) /\ ev'[b] = "session-stop"
      <3>1. pc[b] = "end_set" /\ Recorded(events, Event("session-stop", b))
        BY <1>2, <1>5, <2>6 DEF EndSet, StoreEvent
      <3>2. CASE b \in Threads
        BY <3>1, <3>2 DEF StopOK, Deciding, StopRecorded, ThreadStop, Recorded, Event
      <3>3. CASE b \notin Threads
        BY <2>1, <3>1, <3>3 DEF FreshOK
      <3> QED BY <3>2, <3>3
    <2> QED BY <1>5, <2>2, <2>3, <2>4, <2>5, <2>6, WritingFrame
  <1>6. ASSUME NEW b \in Agents, pc'[b] = "log"
        PROVE  Recorded(events', Event(ev'[b], b)) /\ ~Recorded(log', Event(ev'[b], b))
    <2>1. ev'[b] = ev[b] /\ ((pc[b] = "log" /\ ~LogEvent(b)) \/ StoreEvent(b))
      BY <1>6, WritingFrame
    <2>2. ev[b] \in EventTypes
      BY <2>1 DEF StoreEvent, BaseInv, HandlingOK, EventOf, HandlingPcs
    <2>3. Recorded(events', Event(ev[b], b))
      BY <1>0, <2>1, RecordedStep DEF FreshOK
    <2>4. ~Recorded(log, Event(ev[b], b))
      <3>1. CASE pc[b] = "log"
        BY <3>1 DEF FreshOK
      <3>2. CASE StoreEvent(b)
        <4>1. ~Recorded(events, Event(ev[b], b))
          BY <3>2 DEF StoreEvent, FreshOK
        <4> QED BY <2>2, <4>1 DEF LogFollowsMemory, Recorded, Event
      <3> QED BY <2>1, <3>1, <3>2
    <2>5. ~LogEvent(b)
      BY <2>1 DEF StoreEvent, LogEvent
    <2>6. Event(ev[b], b).type \in EventTypes
      BY <2>2 DEF Event
    <2>7. ~Recorded(log', Event(ev[b], b))
      BY <1>0, <2>4, <2>5, <2>6, LoggedStep DEF Recorded
    <2> QED BY <2>1, <2>3, <2>7
  <1>7. LogFollowsMemory'
    <2>1. CASE \A i \in DOMAIN log' : log'[i].type \in EventTypes => i \in DOMAIN log /\ log'[i] = log[i]
      BY <1>0, <2>1, RecordedStep DEF LogFollowsMemory
    <2>2. ASSUME NEW a \in Agents, LogEvent(a), Len(log) \in Nat, DOMAIN log = 1..Len(log),
                 DOMAIN log' = 1..(Len(log) + 1),
                 log'[Len(log) + 1] = Event(ev[a], a),
                 \A i \in DOMAIN log : log'[i] = log[i]
          PROVE  LogFollowsMemory'
      <3> DEFINE e == Event(ev[a], a)
      <3>1. Recorded(events, e) /\ ~Recorded(log, e)
        BY <2>2 DEF LogEvent, FreshOK
      <3>2. Recorded(events', e)
        BY <1>0, <3>1, RecordedStep
      <3>3. \A i \in DOMAIN log' : i \in DOMAIN log \/ i = Len(log) + 1
        BY <2>2
      <3>4. \A i \in DOMAIN log' : log'[i].type \in EventTypes => Recorded(events', log'[i])
        BY <1>0, <2>2, <3>2, <3>3, RecordedStep DEF LogFollowsMemory
      <3>5. \A i, j \in DOMAIN log' : log'[i].type \in EventTypes /\ log'[j] = log'[i] => i = j
        BY <2>2, <3>1, <3>3 DEF LogFollowsMemory, Recorded
      <3> QED BY <3>4, <3>5 DEF LogFollowsMemory
    <2> QED BY <2>1, <2>2, LoggedStep
  <1> QED BY <1>3, <1>4, <1>5, <1>6, <1>7 DEF FreshOK

\* The log file never holds an event that is not in session.events, nor one twice,
\* for any number of goroutines that record events at once and whatever writes fail.
THEOREM LogFollows == Spec => []LogFollowsMemory
  <1>1. Init => MutexOK /\ StopOK /\ FreshOK /\ LogFollowsMemory
    BY MutexInit, StopInit, FreshInit
  <1>2. BaseInv /\ MutexOK /\ StopOK /\ FreshOK /\ LogFollowsMemory /\ [Next]_vars
           => (MutexOK /\ StopOK /\ FreshOK /\ LogFollowsMemory)'
    BY MutexStep, StopStep, FreshStep
  <1> QED BY <1>1, <1>2, BaseCorrect, PTL DEF Spec

-----------------------------------------------------------------------------
(* The replay that is offered *)

\* HandleClientConn has been through initializeLog.
PastOpen == pc[Main] \notin OpenedPcs

\* Calls of Stop that have recorded their event, or need not.
StopsSpent == {s \in Stoppers : pc[s] \notin {"idle", "end_check", "end_set", "add"}}

ListsName(n) == \E i \in DOMAIN session_list : session_list[i] = n

\* Before the log is opened only calls of Stop record events, too few for a session
\* that keeps its name; afterwards the file of that name exists.
ReplayOK ==
    /\ pc[Main] \in {"auth", "refused"} =>
         /\ ~active
         /\ session_list = << >>
         /\ \A a \in Agents : pc[a] \in {"auth", "refused", "idle", "end_check", "done"}
    /\ ~PastOpen => \A t \in Tasks : pc[t] = "idle"
    /\ ~PastOpen => Len(events) <= Cardinality(StopsSpent)
    /\ filename = 0 /\ PastOpen => 0 \in disk
    /\ ListsName(0) \/ (filename = 0 /\ \E a \in Agents : pc[a] = "list") =>
         PastOpen /\ filename = 0 /\ Len(events) >= ScanThreshold

\* Nothing is recorded or listed at first.
LEMMA ReplayInit == IsFiniteSet(Stoppers) /\ Init => ReplayOK
  <1> SUFFICES ASSUME IsFiniteSet(Stoppers), Init PROVE ReplayOK
    OBVIOUS
  <1>1. IsFiniteSet(StopsSpent)
    BY FS_Subset DEF StopsSpent
  <1>2. Cardinality(StopsSpent) \in Nat
    BY <1>1, FS_CardinalityType
  <1>3. pc[Main] = "auth" /\ ~PastOpen /\ ~ListsName(0) /\ Len(events) = 0
    BY DEF Init, PastOpen, OpenedPcs, ListsName
  <1>4. \A a \in Agents : pc[a] \in {"auth", "idle"} /\ (a # Main => pc[a] = "idle")
    BY DEF Init
  <1>5. \A t \in Tasks : pc[t] = "idle"
    BY <1>4, DistinctAssumption
  <1>6. ~active /\ session_list = << >> /\ (\A a \in Agents : pc[a] # "list")
    BY <1>4 DEF Init
  <1> QED BY <1>2, <1>3, <1>4, <1>5, <1>6 DEF ReplayOK

\* Who may do what before the log is opened.
LEMMA BeforeOpen ==
    ASSUME BaseInv, MainOK, ReplayOK, [Next]_vars
    PROVE  /\ PastOpen => PastOpen'
           /\ ~PastOpen => \A a \in Agents : AddEvent(a) => a \in Stoppers
           /\ ~PastOpen' => \A t \in Tasks : pc'[t] = "idle"
           /\ \A s \in Stoppers : s \in StopsSpent => pc'[s] \notin {"idle", "end_check", "end_set", "add"}
  <1>0. GoTypes
    BY DEF BaseInv, TypeOK
  <1>1. PastOpen => PastOpen'
    BY MainForward DEF PastOpen
  <1>2. ~PastOpen => \A w \in Workers : pc[w] = "idle"
    BY DEF PastOpen, OpenedPcs, MainOK, Early
  <1>3. ASSUME ~PastOpen, NEW a \in Agents, AddEvent(a) PROVE a \in Stoppers
    BY <1>2, <1>3 DEF PastOpen, OpenedPcs, AddEvent, ReplayOK
  <1>4. ASSUME ~PastOpen', NEW t \in Tasks PROVE pc'[t] = "idle"
    <2>1. pc[t] = "idle" /\ t \in Agents /\ t \notin Threads \cup Stoppers
      BY <1>1, <1>4, DistinctAssumption DEF ReplayOK
    <2>2. ~\E w \in Workers : SpawnTask(w, t)
      BY <1>1, <1>2, <1>4 DEF SpawnTask
    <2> QED BY <2>1, <2>2, AgentFrame, DistinctAssumption
            DEF HandleEventStep, AddEvent, StoreEvent, LogEvent, StartRange, LoadSignal,
                SendSignal, EndRange, EndStep, EndCheck, EndSet, CloseBracket, CloseLog,
                RenameLog, AddSessionToSessionList, CloseRemote
  <1>5. ASSUME NEW s \in Stoppers, s \in StopsSpent
        PROVE  pc'[s] \notin {"idle", "end_check", "end_set", "add"}
    <2> USE <1>0 DEF GoTypes, Goto, Return
    <2>1. s \in Agents /\ s \notin Threads \cup Tasks /\ pc[s] \notin {"idle", "end_check", "end_set", "add"}
      BY <1>5, DistinctAssumption DEF StopsSpent
    <2>2. CASE HandleEventStep(s)
      BY <2>1, <2>2 DEF HandleEventStep, AddEvent, StoreEvent, LogEvent, StartRange,
                        LoadSignal, SendSignal, EndRange, AfterRange
    <2>3. CASE EndStep(s)
      BY <2>1, <2>3 DEF EndStep, EndCheck, EndSet, CloseBracket, CloseLog, RenameLog,
                        AddSessionToSessionList, CloseRemote
    <2>4. ~StopCall(s)
      BY <2>1 DEF StopCall
    <2> QED BY <2>1, <2>2, <2>3, <2>4, AgentFrame, DistinctAssumption
  <1> QED BY <1>1, <1>3, <1>4, <1>5

\* How a goroutine comes to AddSessionToSessionList.
LEMMA ListFrame ==
    ASSUME BaseInv, [Next]_vars, NEW a \in Agents, pc'[a] = "list"
    PROVE  pc[a] = "list" \/ RenameLog(a)
  <1>0. GoTypes
    BY DEF BaseInv, TypeOK
  <1> USE <1>0 DEF GoTypes, Goto, Return
  <1>1. CASE HandleEventStep(a)
    BY <1>1 DEF HandleEventStep, AddEvent, StoreEvent, LogEvent, StartRange, LoadSignal,
                SendSignal, EndRange, AfterRange
  <1>2. CASE EndStep(a)
    BY <1>2 DEF EndStep, EndCheck, EndSet, CloseBracket, CloseLog, AddSessionToSessionList,
                CloseRemote
  <1>3. CASE \/ OpenLog \/ WriteOpen \/ ShutdownSeen \/ AuthOK \/ AuthFail \/ DialFails
             \/ DialSucceeds \/ Poll \/ ThreadStep(a)
    BY <1>3 DEF OpenLog, WriteOpen, ShutdownSeen, AuthOK, AuthFail, DialFails, DialSucceeds,
                Poll, ThreadStep, MarkThreadStarted, MarkThreadStopped
  <1>4. CASE (\E w \in Workers : SpawnChild(w, a) \/ SpawnTask(w, a)) \/ ChildEvent(a)
             \/ WorkerReturn(a) \/ StopCall(a)
    BY <1>4 DEF SpawnChild, SpawnTask, ChildEvent, WorkerReturn, StopCall
  <1> QED BY <1>1, <1>2, <1>3, <1>4, AgentFrame

\* The number of events before the log is opened.
LEMMA FewEvents ==
    ASSUME BaseInv, MainOK, ReplayOK, [Next]_vars, IsFiniteSet(Stoppers), ~PastOpen'
    PROVE  Len(events') <= Cardinality(StopsSpent)'
  <1> DEFINE S == StopsSpent
  <1>0. /\ GoTypes /\ events \in Seq(AllEvents \cup {Event0}) /\ Len(events) \in Nat
        /\ ~PastOpen /\ Len(events) <= Cardinality(S)
    BY BeforeOpen DEF BaseInv, TypeOK, RecordTypes, ReplayOK
  <1>1. /\ IsFiniteSet(S) /\ IsFiniteSet(S') /\ S \subseteq S'
        /\ Cardinality(S) \in Nat /\ Cardinality(S') \in Nat
        /\ Cardinality(S) <= Cardinality(S')
    <2>1. IsFiniteSet(S) /\ IsFiniteSet(S')
      BY FS_Subset DEF StopsSpent
    <2>2. S \subseteq S'
      BY BeforeOpen DEF StopsSpent
    <2> QED BY <2>1, <2>2, FS_Subset, FS_CardinalityType
  <1>2. CASE UNCHANGED events
    BY <1>0, <1>1, <1>2
  <1>3. ASSUME NEW a \in Agents, AddEvent(a) PROVE Len(events') <= Cardinality(S')
    <2>1. a \in Stoppers /\ Len(events') = Len(events) + 1
      BY <1>0, <1>3, BeforeOpen, AppendFacts DEF AddEvent
    <2>2. a \notin S /\ a \in S'
      BY <1>0, <1>3, <2>1 DEF AddEvent, StopsSpent, GoTypes, Goto
    <2>3. Cardinality(S \cup {a}) = Cardinality(S) + 1 /\ IsFiniteSet(S \cup {a})
      BY <1>1, <2>2, FS_AddElement
    <2>4. Cardinality(S \cup {a}) <= Cardinality(S')
      BY <1>1, <2>2, <2>3, FS_Subset
    <2> QED BY <1>0, <1>1, <2>1, <2>3, <2>4
  <1>4. ASSUME NEW a \in Agents, StoreEvent(a) PROVE Len(events') <= Cardinality(S')
    <2>1. Len(events') = Len(events)
      BY <1>0, <1>4 DEF StoreEvent
    <2> QED BY <1>0, <1>1, <2>1
  <1> QED BY <1>2, <1>3, <1>4, EventsFrame

\* The list of sessions, the name and the files.
LEMMA ReplayStep ==
    ASSUME ~LogFaults, IsFiniteSet(Stoppers), Cardinality(Stoppers) < ScanThreshold,
           BaseInv, MainOK, ReplayOK, [Next]_vars
    PROVE  ReplayOK'
  <1>0. /\ GoTypes /\ FileTypes /\ Len(events) \in Nat /\ ScanThreshold \in Nat
        /\ DOMAIN session_list = 1..Len(session_list) /\ Len(session_list) \in Nat
        /\ MainOK' /\ Main \in Agents
    BY MainStepOK, ParameterAssumption DEF BaseInv, TypeOK, RecordTypes, FileTypes
  <1>1. ASSUME pc'[Main] \in {"auth", "refused"}
        PROVE  /\ ~active' /\ session_list' = << >>
               /\ \A a \in Agents : pc'[a] \in {"auth", "refused", "idle", "end_check", "done"}
    <2>1. /\ pc[Main] \in {"auth", "refused"}
          /\ ~active /\ session_list = << >>
          /\ \A a \in Agents : pc[a] \in {"auth", "refused", "idle", "end_check", "done"}
      BY <1>1, MainForward DEF ReplayOK
    <2>2. ~AuthOK
      BY <1>0, <1>1 DEF AuthOK, Goto, GoTypes
    <2>3. ~active'
      BY <2>1, <2>2, ActiveFrame DEF EndSet
    <2>4. session_list' = << >>
      BY <2>1, <2>2, FileFrame DEF fileVars, OpenLog, RenameLog, AddSessionToSessionList
    <2>5. ASSUME NEW a \in Agents
          PROVE  pc'[a] \in {"auth", "refused", "idle", "end_check", "done"}
      <3>1. CASE a \in Threads
        BY <1>0, <1>1, <3>1 DEF MainOK, Early
      <3>2. CASE a \in Tasks
        BY <1>1, <3>2, BeforeOpen DEF PastOpen, OpenedPcs
      <3>3. CASE a \in Stoppers
        <4> USE <1>0 DEF GoTypes, Goto, Return
        <4>1. CASE EndStep(a)
          BY <2>1, <4>1 DEF EndStep, EndCheck, EndSet, CloseBracket, CloseLog, RenameLog,
                            AddSessionToSessionList, CloseRemote
        <4>2. CASE StopCall(a)
          BY <4>2 DEF StopCall
        <4>3. ~HandleEventStep(a)
          BY <2>1 DEF HandleEventStep, AddEvent, StoreEvent, LogEvent, StartRange, LoadSignal,
                      SendSignal, EndRange
        <4> QED BY <2>1, <3>3, <4>1, <4>2, <4>3, AgentFrame, DistinctAssumption
      <3> QED BY <3>1, <3>2, <3>3
    <2> QED BY <2>3, <2>4, <2>5
  <1>2. ~PastOpen => Len(events) < ScanThreshold
    <2>1. Cardinality(StopsSpent) <= Cardinality(Stoppers)
      BY FS_Subset DEF StopsSpent
    <2>2. Cardinality(StopsSpent) \in Nat /\ Cardinality(Stoppers) \in Nat
      BY FS_Subset, FS_CardinalityType DEF StopsSpent
    <2> QED BY <1>0, <2>1, <2>2 DEF ReplayOK
  <1>3. ASSUME filename' = 0, PastOpen' PROVE 0 \in disk'
    <2>1. CASE UNCHANGED fileVars /\ ~OpenLog
      BY <1>3, <2>1, MainForward DEF fileVars, ReplayOK, PastOpen
    <2>2. CASE OpenLog
      BY <1>3, <2>2 DEF OpenLog
    <2>3. CASE AuthOK
      BY <1>0, <1>3, <2>3 DEF AuthOK, PastOpen, OpenedPcs, Goto, GoTypes
    <2>4. ASSUME NEW a \in Agents, RenameLog(a) PROVE 0 \in disk'
      <3>1. UNCHANGED <<filename, disk>> /\ ~OpenLog
        <4>1. ~OpenLog
          BY <1>0, <2>4 DEF RenameLog, OpenLog, Goto, GoTypes
        <4> QED BY <1>0, <1>3, <2>4, <4>1 DEF RenameLog, FileTypes
      <3> QED BY <1>3, <3>1, MainForward DEF ReplayOK, PastOpen
    <2>5. ASSUME NEW a \in Agents, AddSessionToSessionList(a) PROVE 0 \in disk'
      <3>1. UNCHANGED <<filename, disk>> /\ ~OpenLog
        BY <1>0, <2>5 DEF AddSessionToSessionList, OpenLog, Goto, GoTypes
      <3> QED BY <1>3, <3>1, MainForward DEF ReplayOK, PastOpen
    <2> QED BY <2>1, <2>2, <2>3, <2>4, <2>5, FileFrame
  \* A name that is kept once is kept for good.
  <1>4. PastOpen /\ filename = 0 /\ Len(events) >= ScanThreshold =>
           PastOpen' /\ filename' = 0 /\ Len(events') >= ScanThreshold
    <2> SUFFICES ASSUME PastOpen, filename = 0, Len(events) >= ScanThreshold
                 PROVE  PastOpen' /\ filename' = 0 /\ Len(events') >= ScanThreshold
      OBVIOUS
    <2>1. Len(events') \in Nat /\ Len(events') >= Len(events)
      BY EventsStep
    <2>2. filename' = 0
      BY <1>0, FileFrame DEF fileVars, AuthOK, OpenLog, RenameLog, AddSessionToSessionList
    <2> QED BY <1>0, <2>1, <2>2, BeforeOpen
  <1>5. ASSUME ListsName(0)' \/ (filename' = 0 /\ \E a \in Agents : pc'[a] = "list")
        PROVE  PastOpen' /\ filename' = 0 /\ Len(events') >= ScanThreshold
    <2>1. CASE ListsName(0) \/ (filename = 0 /\ \E a \in Agents : pc[a] = "list")
      BY <1>4, <2>1 DEF ReplayOK
    <2>2. CASE ~(ListsName(0) \/ (filename = 0 /\ \E a \in Agents : pc[a] = "list"))
      <3>1. ~ListsName(0)'
        <4>1. CASE UNCHANGED session_list
          BY <2>2, <4>1 DEF ListsName
        <4>2. ASSUME NEW a \in Agents, AddSessionToSessionList(a) PROVE ~ListsName(0)'
          <5>1. session_list' = Append(session_list, filename) /\ filename # 0
            BY <2>2, <4>2 DEF AddSessionToSessionList
          <5> QED BY <1>0, <2>2, <5>1, AppendFacts DEF ListsName, FileTypes
        <4> QED BY <4>1, <4>2, FileFrame DEF fileVars, AuthOK, OpenLog, RenameLog
      <3>2. PICK a \in Agents : pc'[a] = "list" /\ filename' = 0
        BY <1>5, <3>1
      <3>3. CASE RenameLog(a)
        BY <1>0, <1>2, <1>4, <3>2, <3>3 DEF RenameLog, FileTypes
      <3>4. CASE pc[a] = "list"
        <4>1. filename # 0
          BY <2>2, <3>4
        <4>2. AuthOK
          BY <1>0, <3>2, <4>1, FileFrame
             DEF fileVars, OpenLog, RenameLog, AddSessionToSessionList, FileTypes
        <4> QED BY <3>4, <4>2 DEF AuthOK, ReplayOK
      <3> QED BY <3>2, <3>3, <3>4, ListFrame
    <2> QED BY <2>1, <2>2
  <1> QED BY <1>1, <1>3, <1>5, BeforeOpen, FewEvents DEF ReplayOK

\* A replay under a name that the browser's list shows is a file that exists: if no
\* file operation fails and fewer calls of Stop overlap than a session needs events
\* to keep its name.  (With as many as that, they alone could give the session its
\* ten events before initializeLog has made the file.)
THEOREM ReplayExists ==
    ASSUME ~LogFaults, IsFiniteSet(Stoppers), Cardinality(Stoppers) < ScanThreshold
    PROVE  Spec => []OfferedReplayExists
  <1>1. Init => MainOK /\ ReplayOK
    BY MainInit, ReplayInit
  <1>2. BaseInv /\ MainOK /\ ReplayOK /\ [Next]_vars => (MainOK /\ ReplayOK)'
    BY MainStepOK, ReplayStep
  <1>3. ReplayOK => OfferedReplayExists
    BY DEF ReplayOK, OfferedReplayExists, ListsName
  <1> QED BY <1>1, <1>2, <1>3, BaseCorrect, PTL DEF Spec
=============================================================================
