------------------------------ MODULE Controller ------------------------------
(***************************************************************************)
(* The controller (controller.go) and the requests of its clients          *)
(* (controller_messages.go): proxies are created, started, stopped and     *)
(* destroyed by the goroutines of several clients, the configuration is    *)
(* written to a file without the controller's mutex, and a controller that *)
(* died is loaded from it.                                                 *)
(*                                                                         *)
(* What happens inside StartProxy and Stop of a proxy is module Proxy's;   *)
(* one step stands for each here, and a proxy runs when its listener is    *)
(* open.  Requests on the users of a proxy are module ProxyUsers's; the    *)
(* requests that only read leave this state alone.                         *)
(***************************************************************************)
EXTENDS Integers, FiniteSets

CONSTANTS
    Clients,      \* connections to the controller's socket
    Proxies,      \* proxies that may be created
    NoProxy,      \* no proxy
    MaxStarts,    \* bound on the goroutines that start one proxy
    MaxCrashes    \* bound on the deaths of the program

ASSUME ControllerAssumption ==
    /\ IsFiniteSet(Proxies) /\ NoProxy \notin Proxies
    /\ MaxStarts \in Nat \ {0}
    /\ MaxCrashes \in Nat

VARIABLES
    up,         \* the program runs
    crashes,    \* how often it died
    table,      \* controller.Proxies
    counter,    \* controller.ProxyCounter
    made,       \* the proxies that have been made
    listener,   \* proxy.listener of each proxy: "nil", "open" or "closed"
    starts,     \* goroutines "go proxy.StartProxy()" that do not listen yet
    late,       \* proxies that were being started when they were destroyed
    pc,         \* where the goroutine of each client is
    id, ptr,    \* the proxy_id and the proxy it works with
    sweep,      \* the proxies StopProxies has still to stop
    save, snap, \* where WriteControllerConfigToFile is, and what it has read
    file        \* the configuration file

mem   == <<table, counter, made>>
proxy == <<listener, starts, late>>
conn  == <<pc, id, ptr>>
disk  == <<save, snap, file>>
vars  == <<up, crashes, mem, proxy, conn, sweep, disk>>

Ids == 0..Cardinality(Proxies)

Tables == UNION {[S -> Proxies] : S \in SUBSET Ids}

Configs == [table : Tables, counter : Ids]

NoConfig == [table |-> <<>>, counter |-> 0]

\* Where the mutex is held: DestroyProxy keeps it while it stops the proxy, and
\* StopProxies until it has stopped them all.
Holding == {"destroying", "deleting"}

MutexFree == sweep = {} /\ \A c \in Clients : pc[c] \notin Holding

Init ==
    /\ up = TRUE /\ crashes = 0
    /\ table = <<>> /\ counter = 0 /\ made = {}
    /\ listener = [p \in Proxies |-> "nil"]
    /\ starts = [p \in Proxies |-> 0]
    /\ late = {}
    /\ pc = [c \in Clients |-> "idle"]
    /\ id = [c \in Clients |-> 0] /\ ptr = [c \in Clients |-> NoProxy]
    /\ sweep = {}
    /\ save = "idle" /\ snap = NoConfig
    /\ file = [state |-> "none"]

-----------------------------------------------------------------------------
(* The death of the program, and LoadControllerConfigFromFile. *)

\* A process without requests, goroutines and listeners, with the configuration c.
NewProcess(c) ==
    /\ table' = c.table /\ counter' = c.counter
    /\ listener' = [p \in Proxies |-> "nil"]
    /\ starts' = [p \in Proxies |-> 0]
    /\ late' = {}
    /\ pc' = [d \in Clients |-> "idle"]
    /\ id' = [d \in Clients |-> 0] /\ ptr' = [d \in Clients |-> NoProxy]
    /\ sweep' = {}
    /\ save' = "idle" /\ snap' = NoConfig
    /\ UNCHANGED <<made, file>>

\* The process is killed, or a goroutine panics: AddProxy finds no proxy to set the
\* logger of, Stop finds no listener, StartProxy finds its port in use.  A guard of
\* SetLog, StopProxy, StopOne or ProxyListens that fails is such a panic.
Die ==
    /\ up /\ crashes < MaxCrashes
    /\ up' = FALSE
    /\ crashes' = crashes + 1
    /\ NewProcess(NoConfig)

\* A file that was not written to its end is an error.  No proxy is started.
Load ==
    /\ ~up /\ file.state = "full"
    /\ up' = TRUE
    /\ NewProcess(file.config)
    /\ UNCHANGED crashes

-----------------------------------------------------------------------------
(* WriteControllerConfigToFile, without the mutex: the fields are read in the
   order of their declaration, the table entry by entry. *)

SaveBegins ==
    /\ save = "idle"
    /\ snap' = [table |-> table, counter |-> 0]
    /\ save' = "proxies"
    /\ UNCHANGED file

\* An entry that came or went meanwhile is read or not.
SaveProxies ==
    /\ save = "proxies"
    /\ \E S \in SUBSET (DOMAIN table \cup DOMAIN snap.table) :
         /\ DOMAIN table \cap DOMAIN snap.table \subseteq S
         /\ snap' = [table |-> [i \in S |-> IF i \in DOMAIN table THEN table[i]
                                                                  ELSE snap.table[i]],
                     counter |-> 0]
    /\ save' = "counter"
    /\ UNCHANGED file

\* Faulty variant: the counter is a field that is not exported.
SaveCounterNot ==
    /\ save = "counter"
    /\ save' = "truncate"
    /\ UNCHANGED <<snap, file>>

\* Faulty variant: the id of the next proxy but one is saved.
SaveCounterNext ==
    /\ save = "counter"
    /\ snap' = [table |-> snap.table, counter |-> counter + 1]
    /\ save' = "truncate"
    /\ UNCHANGED file

SaveCounter ==
    /\ save = "counter"
    /\ snap' = [table |-> snap.table, counter |-> counter]
    /\ save' = "truncate"
    /\ UNCHANGED file

\* os.WriteFile truncates the file before it writes.
SaveTruncates ==
    /\ save = "truncate"
    /\ file' = [state |-> "partial"]
    /\ save' = "write"
    /\ UNCHANGED snap

SaveWrites ==
    /\ save = "write"
    /\ file' = [state |-> "full", config |-> snap]
    /\ save' = "idle"
    /\ snap' = NoConfig

SaveStep == SaveBegins \/ SaveProxies \/ SaveCounter \/ SaveTruncates \/ SaveWrites

-----------------------------------------------------------------------------
(* The requests.  One that is refused, and one that only reads, is no step. *)

Put(t, i, p) == [j \in DOMAIN t \cup {i} |-> IF j = i THEN p ELSE t[j]]

Without(t, i) == [j \in DOMAIN t \ {i} |-> t[j]]

\* The goroutine of c goes on at l with the proxy p, which has the id i.
Goto(c, l, i, p) ==
    /\ pc' = [pc EXCEPT ![c] = l]
    /\ id' = [id EXCEPT ![c] = i]
    /\ ptr' = [ptr EXCEPT ![c] = p]

Return(c) == Goto(c, "idle", 0, NoProxy)

\* Faulty variant: the new id is the number of proxies there are.
GetNextProxyIDByLen(c) ==
    /\ pc[c] = "idle" /\ MutexFree
    /\ \E p \in Proxies \ made :
         /\ made' = made \cup {p}
         /\ Goto(c, "insert", Cardinality(DOMAIN table), p)
    /\ counter' = counter + 1
    /\ UNCHANGED <<table, proxy, sweep>>

\* AddExistingProxy: GetNextProxyID, under the mutex ...
GetNextProxyID(c) ==
    /\ pc[c] = "idle" /\ MutexFree
    /\ \E p \in Proxies \ made :
         /\ made' = made \cup {p}
         /\ Goto(c, "insert", counter, p)
    /\ counter' = counter + 1
    /\ UNCHANGED <<table, proxy, sweep>>

\* ... and the insertion, under the mutex again.
InsertProxy(c) ==
    /\ pc[c] = "insert" /\ MutexFree
    /\ table' = Put(table, id[c], ptr[c])
    /\ Goto(c, "setlog", id[c], ptr[c])
    /\ UNCHANGED <<counter, made, proxy, sweep>>

\* AddProxy sets the logger of controller.Proxies[proxy_id], if it is there.
SetLog(c) ==
    /\ pc[c] = "setlog" /\ id[c] \in DOMAIN table
    /\ Return(c)
    /\ UNCHANGED <<mem, proxy, sweep>>

\* StartProxy and StopProxy look the proxy up (GetProxy) and leave the mutex.
GetProxy(c, next) ==
    /\ pc[c] = "idle" /\ MutexFree
    /\ \E i \in DOMAIN table : Goto(c, next, 0, table[i])
    /\ UNCHANGED <<mem, proxy, sweep>>

\* go proxy.StartProxy()
SpawnStart(c) ==
    /\ pc[c] = "start" /\ starts[ptr[c]] < MaxStarts
    /\ starts' = [starts EXCEPT ![ptr[c]] = @ + 1]
    /\ Return(c)
    /\ UNCHANGED <<mem, listener, late, sweep>>

\* The goroutine of StartProxy gets its port.
ProxyListens(p) ==
    /\ starts[p] > 0 /\ listener[p] # "open"
    /\ starts' = [starts EXCEPT ![p] = @ - 1]
    /\ listener' = [listener EXCEPT ![p] = "open"]
    /\ UNCHANGED <<mem, late, conn, sweep>>

StopProxy(c) ==
    /\ pc[c] = "stop" /\ listener[ptr[c]] # "nil"
    /\ listener' = [listener EXCEPT ![ptr[c]] = "closed"]
    /\ Return(c)
    /\ UNCHANGED <<mem, starts, late, sweep>>

\* DestroyProxy
DestroyLocks(c) ==
    /\ pc[c] = "idle" /\ MutexFree
    /\ \E i \in DOMAIN table : Goto(c, "destroying", i, table[i])
    /\ UNCHANGED <<mem, proxy, sweep>>

\* Somebody is about to start the proxy.
StartUnderWay(p) == starts[p] > 0 \/ \E c \in Clients : pc[c] = "start" /\ ptr[c] = p

Late(p) == IF StartUnderWay(p) THEN late \cup {p} ELSE late

\* Faulty variant: the proxy is not stopped.
DestroyStopsNot(c) ==
    /\ pc[c] = "destroying"
    /\ late' = Late(ptr[c])
    /\ Goto(c, "deleting", id[c], ptr[c])
    /\ UNCHANGED <<mem, listener, starts, sweep>>

DestroyStops(c) ==
    /\ pc[c] = "destroying"
    /\ listener' = [listener EXCEPT ![ptr[c]] = IF @ = "open" THEN "closed" ELSE @]
    /\ late' = Late(ptr[c])
    /\ Goto(c, "deleting", id[c], ptr[c])
    /\ UNCHANGED <<mem, starts, sweep>>

DestroyDeletes(c) ==
    /\ pc[c] = "deleting"
    /\ table' = Without(table, id[c])
    /\ Return(c)
    /\ UNCHANGED <<counter, made, proxy, sweep>>

\* StopProxies, when the controller is stopped; in any order.
StopProxies ==
    /\ MutexFree
    /\ sweep' = {table[i] : i \in DOMAIN table}
    /\ UNCHANGED <<mem, proxy, conn>>

StopOne(p) ==
    /\ p \in sweep /\ listener[p] # "nil"
    /\ listener' = [listener EXCEPT ![p] = "closed"]
    /\ sweep' = sweep \ {p}
    /\ UNCHANGED <<mem, starts, late, conn>>

\* What a goroutine does once its request has begun.
Proceeds(c) ==
    \/ InsertProxy(c)
    \/ SetLog(c)
    \/ SpawnStart(c)
    \/ StopProxy(c)
    \/ DestroyStops(c)
    \/ DestroyDeletes(c)

RequestStep ==
    \/ \E c \in Clients : \/ GetNextProxyID(c)
                          \/ GetProxy(c, "start")
                          \/ GetProxy(c, "stop")
                          \/ DestroyLocks(c)
                          \/ Proceeds(c)
    \/ \E p \in Proxies : ProxyListens(p) \/ StopOne(p)
    \/ StopProxies

Next ==
    \/ Die
    \/ Load
    \/ up /\ SaveStep /\ UNCHANGED <<up, crashes, mem, proxy, conn, sweep>>
    \/ up /\ RequestStep /\ UNCHANGED <<up, crashes, disk>>

Spec == Init /\ [][Next]_vars

-----------------------------------------------------------------------------
\* Every variable holds a value of its type; no more ids are given out or saved than
\* proxies were made (controller.go:283-289).
TypeOK ==
    /\ up \in BOOLEAN
    /\ crashes \in 0..MaxCrashes
    /\ table \in Tables /\ counter \in Ids
    /\ made \subseteq Proxies
    /\ listener \in [Proxies -> {"nil", "open", "closed"}]
    /\ starts \in [Proxies -> 0..MaxStarts]
    /\ late \subseteq Proxies
    /\ pc \in [Clients -> {"idle", "insert", "setlog", "start", "stop"} \cup Holding]
    /\ id \in [Clients -> Ids] /\ ptr \in [Clients -> Proxies \cup {NoProxy}]
    /\ sweep \subseteq Proxies
    /\ save \in {"idle", "proxies", "counter", "truncate", "write"}
    /\ snap \in Configs
    /\ file \in [state : {"none", "partial"}] \cup [state : {"full"}, config : Configs]

\* A file that could be written to its end names no id that the loaded controller
\* would give out again, whatever was created while the configuration was being
\* collected: the counter is read after the table (controller.go:46-47,
\* 151-171).
SavedIdsAreUsed ==
    file.state = "full" => \A i \in DOMAIN file.config.table : i < file.config.counter

\* Requests of several clients, crashes and reloads never put a second proxy under
\* an id: what is in the table under an id stays until DestroyProxy removes it
\* (controller.go:177-195, 283-289, 372-378).
IdsAreStable ==
    [][up /\ up' => \A i \in DOMAIN table \cap DOMAIN table' : table'[i] = table[i]]_vars

\* A proxy that was destroyed does not run, unless a start was under way when it
\* was destroyed: "go proxy.StartProxy()" may come after DestroyProxy has looked
\* (controller.go:304-317, 381-387).
DestroyedIsStopped ==
    \A p \in made : listener[p] = "open" =>
        p \in late \/ \E i \in DOMAIN table : table[i] = p
=============================================================================
