----------------------------- MODULE ProxyUsers ------------------------------
(***************************************************************************)
(* The users of a proxy and their hooks (proxy.go), how the controller     *)
(* hands out keys for hooks (controller.go) and how running sessions use   *)
(* them (events.go, channelWrapper.Read in session.go).                    *)
(*                                                                         *)
(* Event callbacks and channel filters are kept by the same code in two    *)
(* lists; a hook stands for either.  A hook list is a Go slice: a header   *)
(* over a backing array.  A login copies the user, and with it the header, *)
(* not the array.                                                          *)
(***************************************************************************)
EXTENDS Integers, Sequences, FiniteSets

CONSTANTS
    Names,                 \* user names
    Passwords, Blank,      \* passwords, among them the empty one
    Hooks, NoHook,         \* pointers to hooks, and nil
    Sessions,
    RequireValidPassword,
    MaxUsers               \* bound on the ProxyUser objects made

ASSUME UsersAssumption ==
    /\ Blank \in Passwords
    /\ NoHook \notin Hooks
    /\ RequireValidPassword \in BOOLEAN
    /\ MaxUsers \in Nat

VARIABLES
    Users,        \* proxy.Users: [name and password -> object or 0]
    lists,        \* lists[o]: the hook list of the ProxyUser object o, a header
    arrays,       \* the backing arrays; 0 is the array of a nil slice
    registry,     \* controller.EventCallbacks and channelFilters: keys and hooks
    installed,    \* the object each hook was added to and not removed from, or 0
    fresh,        \* the hooks that were not added yet
    sess,         \* the user of a session: the object copied and the header
    forwarded,    \* the hooks applied to the data last forwarded ...
    recorded      \* ... and to the data recorded for it

userVars == <<Users, lists, arrays, registry, installed, fresh>>
dataVars == <<forwarded, recorded>>
vars == <<userVars, sess, dataVars>>

Keys == Names \X Passwords                     \* buildProxyUserKey
Slice(a, n) == [arr |-> a, len |-> n]
NilSlice == Slice(0, 0)
Cells(a) == IF a = 0 THEN << >> ELSE arrays[a]
View(l) == [i \in 1..l.len |-> Cells(l.arr)[i]]
NoSession == [obj |-> -1, list |-> NilSlice]

Init ==
    /\ Users = [k \in Keys |-> 0]
    /\ lists = << >>
    /\ arrays = << >>
    /\ registry = {}
    /\ installed = [h \in Hooks |-> 0]
    /\ fresh = Hooks
    /\ sess = [s \in Sessions |-> NoSession]
    /\ forwarded = [s \in Sessions |-> << >>]
    /\ recorded = [s \in Sessions |-> << >>]

-----------------------------------------------------------------------------
(* Users *)

\* The exact user, else the one with the same name and a blank password; 0: none.
GetProxyUser(n, p) == IF Users[<<n, p>>] # 0 THEN Users[<<n, p>>] ELSE Users[<<n, Blank>>]

AddProxyUser(n, p) ==
    /\ Len(lists) < MaxUsers
    /\ lists' = Append(lists, NilSlice)
    /\ Users' = [Users EXCEPT ![<<n, p>>] = Len(lists) + 1]
    /\ UNCHANGED <<arrays, registry, installed, fresh, sess, dataVars>>

RemoveProxyUser(n, p) ==
    /\ Users[<<n, p>>] # 0
    /\ Users' = [Users EXCEPT ![<<n, p>>] = 0]
    /\ UNCHANGED <<lists, arrays, registry, installed, fresh, sess, dataVars>>

\* Somebody logs in.  A proxy that knows the user copies it; one without users,
\* or one that does not insist on a password, makes a default user.
AuthenticateUser(s, n, p) ==
    LET o == GetProxyUser(n, p)
    IN  /\ sess[s] = NoSession
        /\ o # 0 \/ ~RequireValidPassword \/ \A k \in Keys : Users[k] = 0
        /\ sess' = [sess EXCEPT ![s] =
                      [obj |-> o, list |-> IF o = 0 THEN NilSlice ELSE lists[o]]]
        /\ UNCHANGED <<userVars, dataVars>>

-----------------------------------------------------------------------------
(* Hooks *)

\* Faulty variant: the list gets longer, the array does not.
AppendHookNoGrow(o, h) ==
    /\ lists' = [lists EXCEPT ![o] = Slice(lists[o].arr, lists[o].len + 1)]
    /\ UNCHANGED arrays

\* append: in place while the array has room, else in a new and larger array.
AppendHook(o, h) ==
    LET old == Cells(lists[o].arr)
        n == lists[o].len
    IN  IF n < Len(old)
        THEN /\ arrays' = [arrays EXCEPT ![lists[o].arr][n + 1] = h]
             /\ lists' = [lists EXCEPT ![o] = Slice(lists[o].arr, n + 1)]
        ELSE /\ arrays' = Append(arrays, [i \in 1..(IF n = 0 THEN 1 ELSE 2 * n) |->
                                IF i <= n THEN old[i] ELSE IF i = n + 1 THEN h ELSE NoHook])
             /\ lists' = [lists EXCEPT ![o] = Slice(Len(arrays) + 1, n + 1)]

\* Faulty variant: a key is the position in the list, taken or not.
NewKeyByIndex(n, p, i) == [name |-> n, pass |-> p, index |-> i, dots |-> 0]

\* A key is made of the position in the list, with dots added until it is new.
NewKey(n, p, i) ==
    LET key(d) == [name |-> n, pass |-> p, index |-> i, dots |-> d]
        free == {d \in 0..Cardinality(registry) : \A r \in registry : r.key # key(d)}
    IN  key(CHOOSE d \in free : \A e \in free : d <= e)

AddHookToUser(n, p, h) ==
    LET o == GetProxyUser(n, p)
    IN  /\ h \in fresh
        /\ o # 0
        /\ AppendHook(o, h)
        /\ registry' = registry \cup {[key |-> NewKey(n, p, lists[o].len), hook |-> h]}
        /\ installed' = [installed EXCEPT ![h] = o]
        /\ fresh' = fresh \ {h}
        /\ UNCHANGED <<Users, sess, dataVars>>

\* Faulty variant: shortens the list without moving its last element.
RemoveHookTail(o, h) ==
    /\ lists' = [lists EXCEPT ![o].len = @ - 1]
    /\ UNCHANGED arrays

\* Faulty variant: clears the element that becomes free.
RemoveHookClear(o, h) ==
    LET l == lists[o]
    IN  \E i \in 1..l.len :
            /\ View(l)[i] = h
            /\ arrays' = [arrays EXCEPT ![l.arr][i] = arrays[l.arr][l.len],
                                        ![l.arr][l.len] = NoHook]
            /\ lists' = [lists EXCEPT ![o] = Slice(l.arr, l.len - 1)]

\* RemoveEventCallback, RemoveChannelFilter: the last element takes the place.
RemoveHook(o, h) ==
    LET l == lists[o]
    IN  \E i \in 1..l.len :
            /\ View(l)[i] = h
            /\ arrays' = [arrays EXCEPT ![l.arr][i] = arrays[l.arr][l.len]]
            /\ lists' = [lists EXCEPT ![o] = Slice(l.arr, l.len - 1)]

\* Removal from the user found under a name and a password, which need not be
\* the user that has the hook: then nothing is removed.
RemoveHookFromUser(n, p, h) ==
    LET o == GetProxyUser(n, p)
    IN  /\ IF o # 0 /\ \E i \in 1..lists[o].len : View(lists[o])[i] = h
           THEN RemoveHook(o, h) /\ installed' = [installed EXCEPT ![h] = 0]
           ELSE UNCHANGED <<lists, arrays, installed>>
        /\ UNCHANGED <<Users, fresh, sess, dataVars>>

\* By key: the key is forgotten in any case.
RemoveHookFromUserByKey(n, p, r) ==
    /\ r \in registry
    /\ registry' = registry \ {r}
    /\ RemoveHookFromUser(n, p, r.hook)

\* By pointer: the controller keeps the key.
RemoveHookFromUserDirectly(n, p, h) ==
    /\ h \in Hooks \ fresh
    /\ RemoveHookFromUser(n, p, h)
    /\ UNCHANGED registry

-----------------------------------------------------------------------------
(* Sessions *)

\* channelWrapper.Read: the filters work on a copy that is recorded; the buffer
\* that is forwarded is the one that was read.
Read(s) ==
    /\ sess[s] # NoSession
    /\ recorded' = [recorded EXCEPT ![s] = View(sess[s].list)]
    /\ forwarded' = [forwarded EXCEPT ![s] = << >>]
    /\ UNCHANGED <<userVars, sess>>

Next ==
    \/ \E n \in Names, p \in Passwords :
          \/ AddProxyUser(n, p) \/ RemoveProxyUser(n, p)
          \/ \E h \in Hooks : AddHookToUser(n, p, h) \/ RemoveHookFromUserDirectly(n, p, h)
          \/ \E r \in registry : RemoveHookFromUserByKey(n, p, r)
          \/ \E s \in Sessions : AuthenticateUser(s, n, p)
    \/ \E s \in Sessions : Read(s)

Spec == Init /\ [][Next]_vars

-----------------------------------------------------------------------------
(* Safety *)

Headers == {lists[o] : o \in DOMAIN lists} \cup {sess[s].list : s \in Sessions}

\* Every variable holds a value of its type; in particular every header, also one
\* that a login copied long ago, lies within its array.
TypeOK ==
    /\ Users \in [Keys -> 0..Len(lists)]
    /\ installed \in [Hooks -> 0..Len(lists)]
    /\ fresh \subseteq Hooks
    /\ \A r \in registry : r.hook \in Hooks \ fresh
    /\ \A l \in Headers : l.arr \in 0..Len(arrays) /\ l.len \in 0..Len(Cells(l.arr))

\* A session that runs never meets a nil pointer in its copy of the list, whatever
\* is removed from and added to the array below it (proxy.go:618-654,
\* events.go:90-98, session.go:456-459).
SessionsSeeHooks ==
    \A s \in Sessions : \A i \in 1..sess[s].list.len : View(sess[s].list)[i] \in Hooks

\* The list of a user is exactly the hooks that were added to it and not removed,
\* each once, although users that were copied and users that are gone share its
\* arrays (proxy.go:618-654).
ListsExact ==
    \A o \in DOMAIN lists :
        /\ {View(lists[o])[i] : i \in 1..lists[o].len} = {h \in Hooks : installed[h] = o}
        /\ lists[o].len = Cardinality({h \in Hooks : installed[h] = o})

\* No key is handed out for a second hook while the first holds it, although
\* positions are used again after a removal (controller.go:412-419, 577-584).
KeysDistinct == \A r, t \in registry : r.key = t.key => r = t

-----------------------------------------------------------------------------
(* What the documentation says and the code does not do *)

\* proxy.go: channel filters "receive data as an argument and return modified data
\* on the other end".  What is forwarded is what the filters returned.
FilteredIsForwarded == \A s \in Sessions : forwarded[s] = recorded[s]
=============================================================================
