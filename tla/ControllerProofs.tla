--------------------------- MODULE ControllerProofs ---------------------------
(***************************************************************************)
(* Theorems about Controller: no id is given out twice, in one process or  *)
(* after a reload, and a destroyed proxy does not run.                     *)
(***************************************************************************)
EXTENDS Controller, FiniteSetTheorems, SequenceTheorems, TLAPS

Pcs == {"idle", "insert", "setlog", "start", "stop"} \cup Holding

\* The types that the argument about ids needs.
IdTypes ==
    /\ counter \in Nat
    /\ pc \in [Clients -> Pcs]
    /\ id \in [Clients -> Nat]

\* The ids of a table are below a counter.
Below(t, n) == \A i \in DOMAIN t : i \in Nat /\ i < n

TableOK == Below(table, counter)

\* A goroutine that is about to insert a proxy has an id of its own, which is not in
\* the table yet.
PendingOK ==
    /\ \A c \in Clients :
         pc[c] = "insert" => id[c] < counter /\ id[c] \notin DOMAIN table
    /\ \A c, d \in Clients :
         pc[c] = "insert" /\ pc[d] = "insert" /\ id[c] = id[d] => c = d

\* Before the counter is read, what was collected is below the counter of the
\* controller, which only grows; afterwards below the one that was read.
SnapOK ==
    /\ snap.counter \in Nat
    /\ save \in {"proxies", "counter"} => Below(snap.table, counter)
    /\ save \in {"truncate", "write"} => Below(snap.table, snap.counter)

FileOK ==
    file.state = "full" =>
        file.config.counter \in Nat /\ Below(file.config.table, file.config.counter)

IdInv == IdTypes /\ TableOK /\ PendingOK /\ SnapOK /\ FileOK

-----------------------------------------------------------------------------
\* A process that has just begun, empty or from a configuration with its ids below
\* its counter.
LEMMA NewProcessIds ==
    ASSUME NEW c, NewProcess(c), c.counter \in Nat, Below(c.table, c.counter), FileOK
    PROVE  IdInv'
<1>1. IdTypes'
  BY DEF NewProcess, IdTypes, Pcs
<1>2. TableOK'
  BY DEF NewProcess, TableOK, Below
<1>3. PendingOK'
  BY DEF NewProcess, PendingOK
<1>4. SnapOK'
  BY DEF NewProcess, SnapOK, NoConfig
<1>5. FileOK'
  BY DEF NewProcess, FileOK, Below
<1> QED BY <1>1, <1>2, <1>3, <1>4, <1>5 DEF IdInv

\* An empty configuration has no ids.
LEMMA EmptyIds == NoConfig.counter \in Nat /\ Below(NoConfig.table, NoConfig.counter)
  BY DEF NoConfig, Below

\* The invariant holds of a new controller.
LEMMA InitIds == Init => IdInv
<1> SUFFICES ASSUME Init PROVE IdInv
  OBVIOUS
<1>1. IdTypes
  BY DEF Init, IdTypes, Pcs
<1>2. TableOK
  BY DEF Init, TableOK, Below
<1>3. PendingOK
  BY DEF Init, PendingOK
<1>4. SnapOK
  BY DEF Init, SnapOK, NoConfig
<1>5. FileOK
  BY DEF Init, FileOK
<1> QED BY <1>1, <1>2, <1>3, <1>4, <1>5 DEF IdInv

\* The save reads the controller and changes nothing of it.
LEMMA SaveIds ==
    ASSUME IdInv, SaveStep, UNCHANGED <<mem, conn>>
    PROVE  IdInv'
<1> USE DEF IdInv
<1>1. IdTypes' /\ TableOK' /\ PendingOK'
  BY DEF IdTypes, TableOK, Below, PendingOK, mem, conn
<1>2. SnapOK' /\ FileOK'
  <2>1. CASE SaveBegins
    BY <2>1 DEF SaveBegins, SnapOK, FileOK, TableOK, Below, mem
  <2>2. CASE SaveProxies
    <3>1. PICK S \in SUBSET (DOMAIN table \cup DOMAIN snap.table) :
            snap' = [table |-> [i \in S |-> IF i \in DOMAIN table THEN table[i]
                                                                  ELSE snap.table[i]],
                     counter |-> 0]
      BY <2>2 DEF SaveProxies
    <3>2. DOMAIN snap'.table = S /\ snap'.counter = 0
      BY <3>1
    <3>3. Below(snap'.table, counter)
      BY <2>2, <3>2 DEF SaveProxies, SnapOK, TableOK, Below
    <3> QED BY <2>2, <3>2, <3>3 DEF SaveProxies, SnapOK, FileOK, Below, mem
  <2>3. CASE SaveCounter
    BY <2>3 DEF SaveCounter, SnapOK, FileOK, IdTypes, Below, mem
  <2>4. CASE SaveTruncates
    BY <2>4 DEF SaveTruncates, SnapOK, FileOK, Below
  <2>5. CASE SaveWrites
    BY <2>5 DEF SaveWrites, SnapOK, FileOK, NoConfig, Below
  <2> QED BY <2>1, <2>2, <2>3, <2>4, <2>5 DEF SaveStep
<1> QED BY <1>1, <1>2

\* Requests, which give out ids and change the table, but no file.
LEMMA RequestIds ==
    ASSUME IdInv, RequestStep, UNCHANGED disk
    PROVE  IdInv'
<1> USE DEF IdInv
<1>1. ASSUME NEW c \in Clients, GetNextProxyID(c)
      PROVE  IdInv'
  <2>1. PICK p \in Proxies \ made : Goto(c, "insert", counter, p)
    BY <1>1 DEF GetNextProxyID
  <2>2. counter' = counter + 1 /\ table' = table
    BY <1>1 DEF GetNextProxyID
  <2>3. IdTypes'
    BY <2>1, <2>2 DEF Goto, IdTypes, Pcs
  <2>4. TableOK'
    BY <2>2 DEF TableOK, Below, IdTypes
  <2>5. PendingOK'
    BY <2>1, <2>2 DEF Goto, PendingOK, TableOK, Below, IdTypes
  <2>6. SnapOK' /\ FileOK'
    BY <2>2 DEF disk, SnapOK, FileOK, Below, IdTypes
  <2> QED BY <2>3, <2>4, <2>5, <2>6
<1>2. ASSUME NEW c \in Clients, InsertProxy(c)
      PROVE  IdInv'
  <2>1. /\ counter' = counter
        /\ DOMAIN table' = DOMAIN table \cup {id[c]}
        /\ pc[c] = "insert"
        /\ Goto(c, "setlog", id[c], ptr[c])
    BY <1>2 DEF InsertProxy, Put
  <2>2. IdTypes'
    BY <2>1 DEF Goto, IdTypes, Pcs
  <2>3. TableOK'
    BY <2>1 DEF TableOK, Below, PendingOK, IdTypes
  <2>4. PendingOK'
    BY <2>1 DEF Goto, PendingOK, IdTypes
  <2>5. SnapOK' /\ FileOK'
    BY <2>1 DEF disk, SnapOK, FileOK, Below
  <2> QED BY <2>2, <2>3, <2>4, <2>5
<1>3. ASSUME NEW c \in Clients, NEW l \in Pcs \ {"insert"}, NEW i \in Nat, NEW p,
             Goto(c, l, i, p), counter' = counter, DOMAIN table' \subseteq DOMAIN table
      PROVE  IdInv'
  <2>1. IdTypes'
    BY <1>3 DEF Goto, IdTypes
  <2>2. TableOK'
    BY <1>3 DEF TableOK, Below
  <2>3. PendingOK'
    BY <1>3 DEF Goto, PendingOK, IdTypes
  <2>4. SnapOK' /\ FileOK'
    BY <1>3 DEF disk, SnapOK, FileOK, Below
  <2> QED BY <2>1, <2>2, <2>3, <2>4
<1>4. ASSUME NEW c \in Clients,
             \/ SetLog(c) \/ SpawnStart(c) \/ StopProxy(c) \/ DestroyDeletes(c)
      PROVE  IdInv'
  BY <1>3, <1>4 DEF SetLog, SpawnStart, StopProxy, DestroyDeletes, Without, Return, mem, Pcs
<1>5. ASSUME NEW c \in Clients, GetProxy(c, "start") \/ GetProxy(c, "stop")
      PROVE  IdInv'
  BY <1>3, <1>5 DEF GetProxy, mem, Pcs
<1>6. ASSUME NEW c \in Clients, DestroyLocks(c) \/ DestroyStops(c)
      PROVE  IdInv'
  BY <1>3, <1>6 DEF DestroyLocks, DestroyStops, mem, Pcs, Holding, TableOK, Below, IdTypes
<1>7. ASSUME UNCHANGED <<mem, conn>>
      PROVE  IdInv'
  BY <1>7 DEF mem, conn, disk, IdTypes, TableOK, PendingOK, SnapOK, FileOK, Below
<1>8. ASSUME NEW p \in Proxies, ProxyListens(p) \/ StopOne(p)
      PROVE  IdInv'
  BY <1>7, <1>8 DEF ProxyListens, StopOne
<1>9. CASE StopProxies
  BY <1>7, <1>9 DEF StopProxies
<1> QED BY <1>1, <1>2, <1>4, <1>5, <1>6, <1>8, <1>9 DEF RequestStep, Proceeds

\* Every step keeps it, the death of the program and a reload included.
LEMMA NextIds == IdInv /\ [Next]_vars => IdInv'
<1> SUFFICES ASSUME IdInv, [Next]_vars PROVE IdInv'
  OBVIOUS
<1>1. CASE Die
  BY <1>1, NewProcessIds, EmptyIds DEF Die, IdInv
<1>2. CASE Load
  BY <1>2, NewProcessIds DEF Load, IdInv, FileOK
<1>3. CASE up /\ SaveStep /\ UNCHANGED <<up, crashes, mem, proxy, conn, sweep>>
  BY <1>3, SaveIds
<1>4. CASE up /\ RequestStep /\ UNCHANGED <<up, crashes, disk>>
  BY <1>4, RequestIds
<1>5. CASE UNCHANGED vars
  BY <1>5 DEF vars, mem, conn, disk, IdInv, IdTypes, TableOK, PendingOK, SnapOK, FileOK, Below
<1> QED BY <1>1, <1>2, <1>3, <1>4, <1>5 DEF Next

\* The ids of the table, of the goroutines and of the files are below their counters
\* for ever.
THEOREM IdsCorrect == Spec => []IdInv
  BY InitIds, NextIds, PTL DEF Spec

\* A complete configuration file names no id that the controller loaded from it would
\* give out again, for any number of clients, proxies, deaths and reloads
\* (WriteControllerConfigToFile, GetNextProxyID).
THEOREM SavedIdsUsed == Spec => []SavedIdsAreUsed
<1>1. IdInv => SavedIdsAreUsed
  BY DEF IdInv, FileOK, Below, SavedIdsAreUsed
<1> QED BY <1>1, IdsCorrect, PTL

\* No step of a running controller puts a proxy under an id that another one has: ids
\* are taken and proxies inserted in two critical sections, but every goroutine that
\* is about to insert one has an id of its own (AddExistingProxy).
THEOREM IdsStable == Spec => IdsAreStable
<1>1. IdInv /\ [Next]_vars =>
        [up /\ up' => \A i \in DOMAIN table \cap DOMAIN table' : table'[i] = table[i]]_vars
  <2> SUFFICES ASSUME IdInv, Next, up, up', NEW i \in DOMAIN table \cap DOMAIN table'
               PROVE  table'[i] = table[i]
    OBVIOUS
  <2>1. ~Die /\ ~Load
    BY DEF Die, Load
  <2>2. CASE SaveStep /\ UNCHANGED <<up, crashes, mem, proxy, conn, sweep>>
    BY <2>2 DEF mem
  <2>3. CASE RequestStep
    <3>1. ASSUME NEW c \in Clients, InsertProxy(c)
          PROVE  table'[i] = table[i]
      BY <3>1 DEF InsertProxy, Put, IdInv, PendingOK
    <3>2. ASSUME NEW c \in Clients, DestroyDeletes(c)
          PROVE  table'[i] = table[i]
      BY <3>2 DEF DestroyDeletes, Without
    <3>3. ASSUME NEW c \in Clients,
                 \/ GetNextProxyID(c) \/ GetProxy(c, "start") \/ GetProxy(c, "stop")
                 \/ DestroyLocks(c) \/ SetLog(c) \/ SpawnStart(c) \/ StopProxy(c)
                 \/ DestroyStops(c)
          PROVE  table' = table
      BY <3>3 DEF GetNextProxyID, GetProxy, DestroyLocks, SetLog, SpawnStart, StopProxy,
                  DestroyStops, mem
    <3>4. ASSUME NEW p \in Proxies, ProxyListens(p) \/ StopOne(p)
          PROVE  table' = table
      BY <3>4 DEF ProxyListens, StopOne, mem
    <3>5. StopProxies => table' = table
      BY DEF StopProxies, mem
    <3> QED BY <2>3, <3>1, <3>2, <3>3, <3>4, <3>5 DEF RequestStep, Proceeds
  <2> QED BY <2>1, <2>2, <2>3 DEF Next
<1> QED BY <1>1, IdsCorrect, PTL DEF Spec, IdsAreStable

-----------------------------------------------------------------------------
(* A destroyed proxy does not run. *)

Listed(p) == \E i \in DOMAIN table : table[i] = p

Active(p) == listener[p] = "open" \/ StartUnderWay(p)

RunTypes ==
    /\ made \subseteq Proxies
    /\ DOMAIN ptr = Clients
    /\ listener \in [Proxies -> {"nil", "open", "closed"}]
    /\ starts \in [Proxies -> Nat]

\* DestroyProxy has the mutex for itself, and works with the proxy that is in the
\* table under its id.
HolderOK ==
    /\ \A c, d \in Clients : pc[c] \in Holding /\ pc[d] \in Holding => c = d
    /\ \A c \in Clients : pc[c] \in Holding => id[c] \in DOMAIN table /\ table[id[c]] = ptr[c]

\* A proxy that runs or is being started is in the table; the one that is about to be
\* deleted does neither.  In both cases unless it was being started when it was
\* destroyed.
ActiveOK == \A p \in Proxies : Active(p) => p \in late \/ Listed(p)

DeletingOK ==
    \A p \in Proxies, c \in Clients :
        pc[c] = "deleting" /\ ptr[c] = p /\ Active(p) => p \in late

RunInv == RunTypes /\ HolderOK /\ ActiveOK /\ DeletingOK

\* Nothing runs in a process that has just begun, empty or loaded.
LEMMA NewProcessRuns ==
    ASSUME NEW c, NewProcess(c), RunTypes
    PROVE  RunInv'
<1>1. RunTypes'
  BY DEF NewProcess, RunTypes
<1>2. HolderOK'
  BY DEF NewProcess, HolderOK, Holding
<1>3. \A p \in Proxies : ~Active(p)'
  BY DEF NewProcess, Active, StartUnderWay
<1> QED BY <1>1, <1>2, <1>3 DEF RunInv, ActiveOK, DeletingOK

\* It holds at the beginning.
LEMMA InitRuns == Init => RunInv
<1> SUFFICES ASSUME Init PROVE RunInv
  OBVIOUS
<1>1. RunTypes
  BY DEF Init, RunTypes
<1>2. HolderOK
  BY DEF Init, HolderOK, Holding
<1>3. \A p \in Proxies : ~Active(p)
  BY DEF Init, Active, StartUnderWay
<1> QED BY <1>1, <1>2, <1>3 DEF RunInv, ActiveOK, DeletingOK

\* A goroutine goes on outside of DestroyProxy while the table keeps its proxies and
\* nothing that did not run or was being started begins to.
LEMMA QuietRuns ==
    ASSUME IdInv, RunInv, RunTypes',
           NEW c \in Clients, NEW l \in Pcs \ Holding, NEW i, NEW q, Goto(c, l, i, q),
           \A j \in DOMAIN table : j \in DOMAIN table' /\ table'[j] = table[j],
           \A p \in Proxies : Active(p)' => Active(p), late' = late
    PROVE  RunInv'
<1>1. HolderOK'
  BY DEF RunInv, RunTypes, HolderOK, Goto, IdInv, IdTypes
<1>2. ActiveOK'
  BY DEF RunInv, ActiveOK, Listed
<1>3. DeletingOK'
  BY DEF RunInv, DeletingOK, Goto, RunTypes, IdInv, IdTypes, Holding
<1> QED BY <1>1, <1>2, <1>3 DEF RunInv

\* The steps of the requests.
LEMMA RequestRuns ==
    ASSUME IdInv, RunInv, RequestStep
    PROVE  RunInv'
<1> USE DEF RunInv
<1>1. ASSUME NEW c \in Clients, GetNextProxyID(c)
      PROVE  RunInv'
  <2>1. PICK p \in Proxies \ made : made' = made \cup {p} /\ Goto(c, "insert", counter, p)
    BY <1>1 DEF GetNextProxyID
  <2>2. RunTypes'
    BY <1>1, <2>1 DEF GetNextProxyID, RunTypes, Goto, proxy
  <2>3. \A q \in Proxies : Active(q)' => Active(q)
    BY <1>1, <2>1 DEF GetNextProxyID, Active, StartUnderWay, Goto, proxy, IdInv, IdTypes,
                      RunTypes
  <2> QED BY <1>1, <2>1, <2>2, <2>3, QuietRuns DEF GetNextProxyID, proxy, Pcs, Holding
<1>2. ASSUME NEW c \in Clients, InsertProxy(c)
      PROVE  RunInv'
  <2>1. Goto(c, "setlog", id[c], ptr[c])
    BY <1>2 DEF InsertProxy
  <2>2. RunTypes'
    BY <1>2, <2>1 DEF InsertProxy, RunTypes, Goto, proxy
  <2>3. \A q \in Proxies : Active(q)' => Active(q)
    BY <1>2, <2>1 DEF InsertProxy, Active, StartUnderWay, Goto, proxy, IdInv, IdTypes, RunTypes
  <2>4. \A j \in DOMAIN table : j \in DOMAIN table' /\ table'[j] = table[j]
    BY <1>2 DEF InsertProxy, Put, IdInv, PendingOK
  <2> QED BY <1>2, <2>1, <2>2, <2>3, <2>4, QuietRuns DEF InsertProxy, proxy, Pcs, Holding
<1>3. ASSUME NEW c \in Clients, SetLog(c) \/ SpawnStart(c) \/ StopProxy(c)
      PROVE  RunInv'
  <2>1. Goto(c, "idle", 0, NoProxy) /\ late' = late /\ table' = table
    BY <1>3 DEF SetLog, SpawnStart, StopProxy, Return, mem, proxy
  <2>2. RunTypes'
    BY <1>3, <2>1 DEF SetLog, SpawnStart, StopProxy, RunTypes, Goto, mem, proxy
  <2>3. ASSUME NEW q \in Proxies, Active(q)' PROVE Active(q)
    BY <1>3, <2>1, <2>3 DEF SetLog, SpawnStart, StopProxy, Active, StartUnderWay, Goto, proxy,
                            IdInv, IdTypes, RunTypes
  <2> QED BY <2>1, <2>2, <2>3, QuietRuns DEF Pcs, Holding
<1>4. ASSUME NEW c \in Clients, GetProxy(c, "start") \/ GetProxy(c, "stop")
      PROVE  RunInv'
  <2>1. PICK l \in {"start", "stop"}, i \in DOMAIN table : Goto(c, l, 0, table[i])
    BY <1>4 DEF GetProxy
  <2>2. /\ UNCHANGED <<mem, proxy>>
        /\ \A d \in Clients : pc[d] \notin Holding
    BY <1>4 DEF GetProxy, MutexFree
  <2>3. RunTypes'
    BY <2>1, <2>2 DEF RunTypes, Goto, mem, proxy
  <2>4. \A d \in Clients : pc'[d] \notin Holding
    BY <2>1, <2>2 DEF Goto, Holding, IdInv, IdTypes
  <2>5. \A p \in Proxies : Active(p)' => Active(p) \/ p = table[i]
    BY <2>1, <2>2 DEF Active, StartUnderWay, Goto, proxy, IdInv, IdTypes, RunTypes
  <2>6. ActiveOK'
    BY <2>2, <2>5 DEF ActiveOK, Listed, mem, proxy
  <2> QED BY <2>3, <2>4, <2>6 DEF HolderOK, DeletingOK, Holding
<1>5. ASSUME NEW c \in Clients, DestroyLocks(c)
      PROVE  RunInv'
  <2>1. PICK i \in DOMAIN table : Goto(c, "destroying", i, table[i])
    BY <1>5 DEF DestroyLocks
  <2>2. /\ UNCHANGED <<mem, proxy>>
        /\ \A d \in Clients : pc[d] \notin Holding
    BY <1>5 DEF DestroyLocks, MutexFree
  <2>3. RunTypes'
    BY <2>1, <2>2 DEF RunTypes, Goto, mem, proxy
  <2>4. HolderOK'
    BY <2>1, <2>2 DEF HolderOK, Goto, mem, IdInv, IdTypes, RunTypes
  <2>5. \A p \in Proxies : Active(p)' => Active(p)
    BY <2>1, <2>2 DEF Active, StartUnderWay, Goto, proxy, IdInv, IdTypes, RunTypes
  <2>6. ActiveOK'
    BY <2>2, <2>5 DEF ActiveOK, Listed, mem, proxy
  <2>7. DeletingOK'
    BY <2>1, <2>2 DEF DeletingOK, Goto, Holding, IdInv, IdTypes
  <2> QED BY <2>3, <2>4, <2>6, <2>7
<1>6. ASSUME NEW c \in Clients, DestroyStops(c)
      PROVE  RunInv'
  <2>1. /\ pc[c] = "destroying" /\ Goto(c, "deleting", id[c], ptr[c])
        /\ UNCHANGED <<mem, starts>>
        /\ late' = Late(ptr[c])
        /\ listener' = [listener EXCEPT ![ptr[c]] = IF @ = "open" THEN "closed" ELSE @]
    BY <1>6 DEF DestroyStops
  <2>2. RunTypes'
    BY <2>1 DEF RunTypes, Goto, mem
  <2>3. HolderOK'
    BY <2>1 DEF HolderOK, Goto, mem, IdInv, IdTypes, RunTypes, Holding
  <2>4. \A p \in Proxies : StartUnderWay(p)' => StartUnderWay(p)
    BY <2>1 DEF StartUnderWay, Goto, IdInv, IdTypes, RunTypes
  <2>5. \A p \in Proxies : /\ Active(p)' => Active(p)
                           /\ p = ptr[c] => listener'[p] # "open"
    BY <2>1, <2>4 DEF Active, RunTypes
  <2>6. late \subseteq late' /\ (StartUnderWay(ptr[c]) => ptr[c] \in late')
    BY <2>1 DEF Late
  <2>7. ActiveOK'
    BY <2>1, <2>5, <2>6 DEF ActiveOK, Listed, mem
  <2>8. ASSUME NEW p \in Proxies, NEW d \in Clients,
               pc'[d] = "deleting", ptr'[d] = p, Active(p)'
        PROVE  p \in late'
    <3>1. d = c
      BY <2>1, <2>8 DEF HolderOK, Goto, Holding, IdInv, IdTypes
    <3>2. p = ptr[c]
      BY <2>1, <2>8, <3>1 DEF Goto, RunTypes
    <3> QED BY <2>4, <2>5, <2>6, <2>8, <3>2 DEF Active
  <2> QED BY <2>2, <2>3, <2>7, <2>8 DEF DeletingOK
<1>7. ASSUME NEW c \in Clients, DestroyDeletes(c)
      PROVE  RunInv'
  <2>1. /\ pc[c] = "deleting" /\ Goto(c, "idle", 0, NoProxy)
        /\ UNCHANGED <<made, proxy>>
        /\ table' = Without(table, id[c])
    BY <1>7 DEF DestroyDeletes, Return
  <2>2. RunTypes'
    BY <2>1 DEF RunTypes, Goto, proxy
  <2>3. \A d \in Clients : pc'[d] \notin Holding
    BY <2>1 DEF HolderOK, Goto, Holding, IdInv, IdTypes
  <2>4. ASSUME NEW p \in Proxies, Active(p)'
        PROVE  p \in late' \/ Listed(p)'
    <3>1. Active(p) /\ late' = late
      BY <2>1, <2>4 DEF Active, StartUnderWay, Goto, proxy, IdInv, IdTypes, RunTypes
    <3>2. CASE p = ptr[c]
      BY <2>1, <3>1, <3>2 DEF DeletingOK
    <3>3. CASE p # ptr[c]
      <4>1. p \in late \/ \E i \in DOMAIN table : table[i] = p
        BY <3>1 DEF ActiveOK, Listed
      <4>2. table[id[c]] = ptr[c]
        BY <2>1 DEF HolderOK, Holding
      <4> QED BY <2>1, <3>1, <3>3, <4>1, <4>2 DEF Listed, Without
    <3> QED BY <3>2, <3>3
  <2> QED BY <2>2, <2>3, <2>4 DEF HolderOK, ActiveOK, DeletingOK, Holding
<1>8. ASSUME NEW p \in Proxies, ProxyListens(p)
      PROVE  RunInv'
  <2>1. RunTypes' /\ UNCHANGED <<mem, conn, late>>
    BY <1>8 DEF ProxyListens, RunTypes, mem, conn
  <2>2. \A q \in Proxies : Active(q)' => Active(q)
    BY <1>8 DEF ProxyListens, Active, StartUnderWay, conn, RunTypes
  <2> QED BY <2>1, <2>2 DEF HolderOK, ActiveOK, DeletingOK, Listed, mem, conn
<1>9. ASSUME NEW p \in Proxies, StopOne(p)
      PROVE  RunInv'
  <2>1. RunTypes' /\ UNCHANGED <<mem, conn, late>>
    BY <1>9 DEF StopOne, RunTypes, mem, conn
  <2>2. \A q \in Proxies : Active(q)' => Active(q)
    BY <1>9 DEF StopOne, Active, StartUnderWay, conn, RunTypes
  <2> QED BY <2>1, <2>2 DEF HolderOK, ActiveOK, DeletingOK, Listed, mem, conn
<1>10. CASE StopProxies
  BY <1>10 DEF StopProxies, mem, proxy, conn, RunTypes, HolderOK, ActiveOK, DeletingOK, Listed,
               Active, StartUnderWay
<1> QED BY <1>1, <1>2, <1>3, <1>4, <1>5, <1>6, <1>7, <1>8, <1>9, <1>10
        DEF RequestStep, Proceeds

\* Every step keeps the invariant.
LEMMA NextRuns == IdInv /\ RunInv /\ [Next]_vars => RunInv'
<1> SUFFICES ASSUME IdInv, RunInv, [Next]_vars PROVE RunInv'
  OBVIOUS
<1>1. CASE Die
  BY <1>1, NewProcessRuns DEF Die, RunInv
<1>2. CASE Load
  BY <1>2, NewProcessRuns DEF Load, RunInv
<1>3. CASE UNCHANGED <<mem, proxy, conn>>
  BY <1>3 DEF mem, proxy, conn, RunInv, RunTypes, HolderOK, ActiveOK, DeletingOK, Listed, Active,
              StartUnderWay
<1>4. CASE up /\ SaveStep /\ UNCHANGED <<up, crashes, mem, proxy, conn, sweep>>
  BY <1>3, <1>4
<1>5. CASE up /\ RequestStep /\ UNCHANGED <<up, crashes, disk>>
  BY <1>5, RequestRuns
<1>6. CASE UNCHANGED vars
  BY <1>3, <1>6 DEF vars
<1> QED BY <1>1, <1>2, <1>4, <1>5, <1>6 DEF Next

\* A proxy that was destroyed does not listen, unless a goroutine was about to start it
\* when DestroyProxy looked at it, for any number of clients and proxies.
THEOREM DestroyedStopped == Spec => []DestroyedIsStopped
<1>1. Spec => []RunInv
  BY InitRuns, NextRuns, IdsCorrect, PTL DEF Spec
<1>2. RunInv => DestroyedIsStopped
  BY DEF RunInv, RunTypes, ActiveOK, Active, Listed, DestroyedIsStopped
<1> QED BY <1>1, <1>2, PTL

-----------------------------------------------------------------------------
(* Types. *)

\* A counter, of the controller, of a save or of a file, is at most the number of the
\* proxies that were made.
CountOK ==
    /\ made \subseteq Proxies
    /\ counter <= Cardinality(made)
    /\ snap.counter <= Cardinality(made)
    /\ file.state = "full" => file.config.counter <= Cardinality(made)

\* A goroutine that uses its proxy has one.
PtrOK == \A c \in Clients : pc[c] \notin {"idle", "setlog"} => ptr[c] \in Proxies

TypeInv == TypeOK /\ CountOK /\ PtrOK

\* The number of the proxies that were made is within bounds, and grows by one.
LEMMA Counting ==
    ASSUME made \subseteq Proxies
    PROVE  /\ Cardinality(made) \in Nat /\ Cardinality(made) <= Cardinality(Proxies)
           /\ Cardinality(Proxies) \in Nat
           /\ \A p \in Proxies \ made : Cardinality(made \cup {p}) = Cardinality(made) + 1
<1>1. IsFiniteSet(Proxies) /\ IsFiniteSet(made) /\ Cardinality(made) <= Cardinality(Proxies)
  BY ControllerAssumption, FS_Subset
<1>2. Cardinality(made) \in Nat /\ Cardinality(Proxies) \in Nat
  BY <1>1, FS_CardinalityType
<1>3. ASSUME NEW p \in Proxies \ made
      PROVE  Cardinality(made \cup {p}) = Cardinality(made) + 1
  BY <1>1, FS_AddElement
<1> QED BY <1>1, <1>2, <1>3

\* What it is to be a table.
LEMMA TableType ==
    ASSUME NEW t
    PROVE  t \in Tables <=> DOMAIN t \subseteq Ids /\ t \in [DOMAIN t -> Proxies]
  BY DEF Tables

\* The empty configuration.
LEMMA EmptyType == NoConfig \in Configs
<1>1. 0 \in Ids
  BY ControllerAssumption, FS_CardinalityType DEF Ids
<1>2. <<>> \in Tables
  <2>1. <<>> \in Seq(Proxies) /\ Len(<<>>) = 0
    OBVIOUS
  <2>2. <<>> \in [1..0 -> Proxies]
    BY <2>1, LenProperties
  <2>3. <<>> \in [{} -> Proxies] /\ {} \in SUBSET Ids
    BY <2>2
  <2> QED BY <2>3 DEF Tables
<1> QED BY <1>1, <1>2 DEF NoConfig, Configs

\* It holds at the beginning.
LEMMA InitTypes == Init => TypeInv
<1> SUFFICES ASSUME Init PROVE TypeInv
  OBVIOUS
<1>1. 0 \in Ids /\ <<>> \in Tables
  BY EmptyType DEF NoConfig, Configs
<1>2. TypeOK
  BY <1>1, EmptyType, ControllerAssumption DEF Init, TypeOK
<1>3. CountOK
  BY FS_EmptySet DEF Init, CountOK, NoConfig
<1>4. PtrOK
  BY DEF Init, PtrOK
<1> QED BY <1>2, <1>3, <1>4 DEF TypeInv

\* A process that has just begun.
LEMMA NewProcessTypes ==
    ASSUME TypeInv, NEW c \in Configs, NewProcess(c), c.counter <= Cardinality(made),
           up' \in BOOLEAN, crashes' \in 0..MaxCrashes
    PROVE  TypeInv'
<1>1. 0 \in Ids
  BY EmptyType DEF NoConfig, Configs
<1>2. TypeOK'
  BY <1>1, EmptyType, ControllerAssumption DEF NewProcess, TypeInv, TypeOK, Configs
<1>3. CountOK'
  BY Counting DEF NewProcess, TypeInv, CountOK, NoConfig
<1>4. PtrOK'
  BY DEF NewProcess, PtrOK
<1> QED BY <1>2, <1>3, <1>4 DEF TypeInv

\* The save.
LEMMA SaveTypes ==
    ASSUME TypeInv, SaveStep, UNCHANGED <<up, crashes, mem, proxy, conn, sweep>>
    PROVE  TypeInv'
<1> USE DEF TypeInv
<1>1. PtrOK'
  BY DEF PtrOK, conn
<1>2. /\ snap' \in Configs /\ snap'.counter <= Cardinality(made)
      /\ save' \in {"idle", "proxies", "counter", "truncate", "write"}
  <2>1. 0 \in Ids /\ Cardinality(made) \in Nat
    BY EmptyType, Counting DEF NoConfig, Configs, CountOK
  <2>2. CASE SaveBegins
    BY <2>1, <2>2 DEF SaveBegins, TypeOK, Configs
  <2>3. CASE SaveProxies
    <3>1. PICK S \in SUBSET (DOMAIN table \cup DOMAIN snap.table) :
            snap' = [table |-> [i \in S |-> IF i \in DOMAIN table THEN table[i]
                                                                  ELSE snap.table[i]],
                     counter |-> 0]
      BY <2>3 DEF SaveProxies
    <3>2. /\ DOMAIN table \subseteq Ids /\ table \in [DOMAIN table -> Proxies]
          /\ DOMAIN snap.table \subseteq Ids /\ snap.table \in [DOMAIN snap.table -> Proxies]
      BY TableType DEF TypeOK, Configs
    <3>3. [i \in S |-> IF i \in DOMAIN table THEN table[i] ELSE snap.table[i]] \in Tables
      BY <3>2, TableType
    <3> QED BY <2>1, <2>3, <3>1, <3>3 DEF SaveProxies, Configs
  <2>4. CASE SaveCounter
    BY <2>4 DEF SaveCounter, TypeOK, Configs, CountOK
  <2>5. CASE SaveTruncates
    BY <2>5 DEF SaveTruncates, TypeOK, CountOK
  <2>6. CASE SaveWrites
    BY <2>1, <2>6, EmptyType DEF SaveWrites, NoConfig
  <2> QED BY <2>2, <2>3, <2>4, <2>5, <2>6 DEF SaveStep
<1>3. /\ file' \in [state : {"none", "partial"}] \cup [state : {"full"}, config : Configs]
      /\ file'.state = "full" => file'.config.counter <= Cardinality(made)
  BY DEF SaveStep, SaveBegins, SaveProxies, SaveCounter, SaveTruncates, SaveWrites, TypeOK, CountOK
<1>4. TypeOK'
  BY <1>2, <1>3 DEF TypeOK, mem, proxy, conn
<1>5. CountOK'
  BY <1>2, <1>3 DEF CountOK, mem
<1> QED BY <1>1, <1>4, <1>5

\* The requests.
LEMMA RequestTypes ==
    ASSUME TypeInv, RequestStep, UNCHANGED <<up, crashes, disk>>
    PROVE  TypeInv'
<1> USE DEF TypeInv
<1>1. ASSUME NEW c \in Clients, GetNextProxyID(c)
      PROVE  TypeInv'
  <2>1. PICK p \in Proxies \ made : made' = made \cup {p} /\ Goto(c, "insert", counter, p)
    BY <1>1 DEF GetNextProxyID
  <2>2. counter' = counter + 1 /\ UNCHANGED <<table, proxy, sweep>>
    BY <1>1 DEF GetNextProxyID
  <2>3. /\ Cardinality(made') = Cardinality(made) + 1 /\ made' \subseteq Proxies
        /\ Cardinality(made) \in Nat
    BY <2>1, Counting DEF CountOK
  <2>4. CountOK'
    BY <2>2, <2>3 DEF CountOK, disk, TypeOK, Ids, Configs
  <2>5. Cardinality(made') <= Cardinality(Proxies) /\ Cardinality(Proxies) \in Nat
    <3>1. IsFiniteSet(Proxies)
      BY ControllerAssumption
    <3> QED BY <2>3, <3>1, FS_Subset, FS_CardinalityType
  <2>6. counter' \in Ids
    BY <2>2, <2>3, <2>4, <2>5 DEF CountOK, TypeOK, Ids
  <2>7. TypeOK'
    BY <2>1, <2>2, <2>3, <2>6 DEF TypeOK, Goto, proxy, disk
  <2>8. PtrOK'
    BY <2>1 DEF PtrOK, Goto, TypeOK
  <2> QED BY <2>4, <2>7, <2>8
<1>2. ASSUME NEW c \in Clients, InsertProxy(c)
      PROVE  TypeInv'
  <2>1. /\ Goto(c, "setlog", id[c], ptr[c]) /\ pc[c] = "insert"
        /\ table' = Put(table, id[c], ptr[c])
        /\ UNCHANGED <<counter, made, proxy, sweep>>
    BY <1>2 DEF InsertProxy
  <2>2. table' \in Tables
    <3>1. DOMAIN table \subseteq Ids /\ table \in [DOMAIN table -> Proxies]
      BY TableType DEF TypeOK
    <3>2. id[c] \in Ids /\ ptr[c] \in Proxies
      BY <2>1 DEF TypeOK, PtrOK
    <3> QED BY <2>1, <3>1, <3>2, TableType DEF Put
  <2>3. TypeOK'
    BY <2>1, <2>2 DEF TypeOK, Goto, proxy, disk
  <2>4. CountOK' /\ PtrOK'
    BY <2>1 DEF CountOK, PtrOK, Goto, TypeOK, disk
  <2> QED BY <2>3, <2>4
<1>3. ASSUME NEW c \in Clients, DestroyDeletes(c)
      PROVE  TypeInv'
  <2>1. /\ Goto(c, "idle", 0, NoProxy) /\ table' = Without(table, id[c])
        /\ UNCHANGED <<counter, made, proxy, sweep>>
    BY <1>3 DEF DestroyDeletes, Return
  <2>2. table' \in Tables
    <3>1. DOMAIN table \subseteq Ids /\ table \in [DOMAIN table -> Proxies]
      BY TableType DEF TypeOK
    <3> QED BY <2>1, <3>1, TableType DEF Without
  <2>3. 0 \in Ids
    BY EmptyType DEF NoConfig, Configs
  <2>4. TypeOK'
    BY <2>1, <2>2, <2>3 DEF TypeOK, Goto, proxy, disk
  <2>5. CountOK' /\ PtrOK'
    BY <2>1 DEF CountOK, PtrOK, Goto, TypeOK, disk
  <2> QED BY <2>4, <2>5
<1>4. ASSUME NEW c \in Clients, NEW l, NEW i \in Ids, NEW p, Goto(c, l, i, p),
             \/ l = "idle" /\ p = NoProxy
             \/ l \in {"start", "stop"} \cup Holding /\ p \in Proxies,
             UNCHANGED <<mem, sweep>>, late' \subseteq Proxies,
             listener' \in [Proxies -> {"nil", "open", "closed"}],
             starts' \in [Proxies -> 0..MaxStarts]
      PROVE  TypeInv'
  <2>1. TypeOK'
    BY <1>4 DEF TypeOK, Goto, mem, disk
  <2>2. CountOK' /\ PtrOK'
    BY <1>4 DEF CountOK, PtrOK, Goto, TypeOK, mem, disk
  <2> QED BY <2>1, <2>2
<1>5. ASSUME NEW c \in Clients, SetLog(c) \/ SpawnStart(c) \/ StopProxy(c)
      PROVE  TypeInv'
  <2>1. 0 \in Ids
    BY EmptyType DEF NoConfig, Configs
  <2>2. listener' \in [Proxies -> {"nil", "open", "closed"}]
    BY <1>5 DEF SetLog, SpawnStart, StopProxy, proxy, TypeOK
  <2>3. starts' \in [Proxies -> 0..MaxStarts]
    BY <1>5, ControllerAssumption DEF SetLog, SpawnStart, StopProxy, proxy, TypeOK
  <2> QED BY <1>4, <1>5, <2>1, <2>2, <2>3 DEF SetLog, SpawnStart, StopProxy, Return, mem, proxy, TypeOK
<1>6. ASSUME NEW c \in Clients, NEW i \in DOMAIN table, NEW j \in {0, i},
             NEW l \in {"start", "stop"} \cup Holding,
             Goto(c, l, j, table[i]), UNCHANGED <<mem, proxy, sweep>>
      PROVE  TypeInv'
  <2>1. j \in Ids /\ table[i] \in Proxies
    BY TableType, EmptyType DEF TypeOK, NoConfig, Configs
  <2> QED BY <1>4, <1>6, <2>1 DEF proxy, TypeOK
<1>7. ASSUME NEW c \in Clients,
             GetProxy(c, "start") \/ GetProxy(c, "stop") \/ DestroyLocks(c)
      PROVE  TypeInv'
  BY <1>6, <1>7 DEF GetProxy, DestroyLocks, Holding
<1>8. ASSUME NEW c \in Clients, DestroyStops(c)
      PROVE  TypeInv'
  <2>1. id[c] \in Ids /\ ptr[c] \in Proxies
    BY <1>8 DEF DestroyStops, TypeOK, PtrOK
  <2>2. late' \subseteq Proxies
    BY <1>8, <2>1 DEF DestroyStops, Late, TypeOK
  <2>3. listener' \in [Proxies -> {"nil", "open", "closed"}]
    BY <1>8 DEF DestroyStops, TypeOK
  <2> QED BY <1>4, <1>8, <2>1, <2>2, <2>3 DEF DestroyStops, Holding, TypeOK
<1>9. ASSUME UNCHANGED <<mem, conn, late>>, sweep' \subseteq Proxies,
             listener' \in [Proxies -> {"nil", "open", "closed"}],
             starts' \in [Proxies -> 0..MaxStarts]
      PROVE  TypeInv'
  BY <1>9 DEF TypeOK, CountOK, PtrOK, mem, conn, disk
<1>10. ASSUME NEW p \in Proxies, ProxyListens(p)
       PROVE  TypeInv'
  <2>1. starts' \in [Proxies -> 0..MaxStarts]
    BY <1>10, ControllerAssumption DEF ProxyListens, TypeOK
  <2>2. listener' \in [Proxies -> {"nil", "open", "closed"}]
    BY <1>10 DEF ProxyListens, TypeOK
  <2> QED BY <1>9, <1>10, <2>1, <2>2 DEF ProxyListens, TypeOK
<1>11. ASSUME NEW p \in Proxies, StopOne(p)
       PROVE  TypeInv'
  BY <1>9, <1>11 DEF StopOne, TypeOK
<1>12. CASE StopProxies
  <2>1. sweep' \subseteq Proxies
    BY <1>12, TableType DEF StopProxies, TypeOK
  <2> QED BY <1>9, <1>12, <2>1 DEF StopProxies, proxy, TypeOK
<1> QED BY <1>1, <1>2, <1>3, <1>5, <1>7, <1>8, <1>10, <1>11, <1>12 DEF RequestStep, Proceeds

\* Every step keeps the types.
LEMMA NextTypes == TypeInv /\ [Next]_vars => TypeInv'
<1> SUFFICES ASSUME TypeInv, [Next]_vars PROVE TypeInv'
  OBVIOUS
<1>1. CASE Die
  <2>1. NoConfig.counter <= Cardinality(made)
    BY Counting DEF NoConfig, TypeInv, CountOK
  <2>2. crashes' \in 0..MaxCrashes
    BY <1>1, ControllerAssumption DEF Die, TypeInv, TypeOK
  <2> QED BY <1>1, <2>1, <2>2, EmptyType, NewProcessTypes DEF Die
<1>2. CASE Load
  <2>1. file.config \in Configs /\ file.config.counter <= Cardinality(made)
    BY <1>2 DEF Load, TypeInv, TypeOK, CountOK
  <2> QED BY <1>2, <2>1, NewProcessTypes DEF Load, TypeInv, TypeOK
<1>3. CASE up /\ SaveStep /\ UNCHANGED <<up, crashes, mem, proxy, conn, sweep>>
  BY <1>3, SaveTypes
<1>4. CASE up /\ RequestStep /\ UNCHANGED <<up, crashes, disk>>
  BY <1>4, RequestTypes
<1>5. CASE UNCHANGED vars
  BY <1>5 DEF vars, mem, proxy, conn, disk, TypeInv, TypeOK, CountOK, PtrOK
<1> QED BY <1>1, <1>2, <1>3, <1>4, <1>5 DEF Next

\* Every variable keeps its type, for any number of clients, proxies and deaths: the
\* counters stay within the ids because each counts proxies that were made
\* (GetNextProxyID, WriteControllerConfigToFile).
THEOREM ControllerTypes == Spec => []TypeOK
<1>1. TypeInv => TypeOK
  BY DEF TypeInv
<1> QED BY <1>1, InitTypes, NextTypes, PTL DEF Spec
=============================================================================
