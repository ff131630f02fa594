-------------------------- MODULE ProxyUsersProofs --------------------------
(***************************************************************************)
(* Theorems about ProxyUsers: what the slices of hooks keep although users *)
(* and sessions share the arrays below them, and that keys are new.        *)
(***************************************************************************)
EXTENDS ProxyUsers, NatProofs

Slots == Hooks \cup {NoHook}
Header == [arr : Nat, len : Nat]

\* A slice header lies within its array, and what it covers are hooks.
HeaderIn(l, arrs) ==
    /\ l \in Header
    /\ l.arr \in 0..Len(arrs)
    /\ l.arr = 0 => l.len = 0
    /\ l.arr # 0 => l.len <= Len(arrs[l.arr]) /\ \A i \in 1..l.len : arrs[l.arr][i] \in Hooks

BaseOK ==
    /\ lists \in Seq(Header)
    /\ arrays \in Seq(Seq(Slots))
    /\ sess \in [Sessions -> [obj : Int, list : Header]]
    /\ Users \in [Keys -> 0..Len(lists)]
    /\ installed \in [Hooks -> 0..Len(lists)]
    /\ fresh \subseteq Hooks
    /\ \A h \in fresh : installed[h] = 0
    /\ \A r \in registry : r.hook \in Hooks \ fresh

\* The headers of the users and those that logins copied.
HeadersOK ==
    /\ \A o \in DOMAIN lists : HeaderIn(lists[o], arrays)
    /\ \A s \in Sessions : HeaderIn(sess[s].list, arrays)

\* No two users write to one array.
OwnersOK ==
    \A o, p \in DOMAIN lists : o # p /\ lists[o].arr = lists[p].arr => lists[o].arr = 0

Installed(o) == {h \in Hooks : installed[h] = o}

\* A list holds the hooks that are installed in it, each once.
ListOK(o) ==
    /\ \A i \in 1..lists[o].len : installed[arrays[lists[o].arr][i]] = o
    /\ \A h \in Installed(o) : \E i \in 1..lists[o].len : arrays[lists[o].arr][i] = h
    /\ \A i, j \in 1..lists[o].len : arrays[lists[o].arr][i] = arrays[lists[o].arr][j] => i = j
    /\ IsFiniteSet(Installed(o)) /\ lists[o].len = Cardinality(Installed(o))

KeysOK == IsFiniteSet(registry) /\ KeysDistinct

UsersInv ==
    BaseOK /\ HeadersOK /\ OwnersOK /\ (\A o \in DOMAIN lists : ListOK(o)) /\ KeysOK

-----------------------------------------------------------------------------
(* Slices *)

\* The lists and the arrays.
LEMMA SliceFacts ==
    ASSUME BaseOK
    PROVE  /\ Len(lists) \in Nat /\ DOMAIN lists = 1..Len(lists)
           /\ Len(arrays) \in Nat /\ DOMAIN arrays = 1..Len(arrays)
           /\ \A o \in DOMAIN lists : lists[o] \in Header /\ lists[o].arr \in Nat /\ lists[o].len \in Nat
           /\ \A k \in 1..Len(arrays) : arrays[k] \in Seq(Slots) /\ Len(arrays[k]) \in Nat
  <1>1. lists \in Seq(Header) /\ arrays \in Seq(Seq(Slots))
    BY DEF BaseOK
  <1>2. Len(lists) \in Nat /\ DOMAIN lists = 1..Len(lists)
    BY <1>1
  <1>3. Len(arrays) \in Nat /\ DOMAIN arrays = 1..Len(arrays)
    BY <1>1
  <1>4. \A o \in DOMAIN lists : lists[o] \in Header
    BY <1>1, <1>2, ElementOfSeq
  <1>5. \A l \in Header : l.arr \in Nat /\ l.len \in Nat
    BY DEF Header
  <1>6. \A k \in 1..Len(arrays) : arrays[k] \in Seq(Slots)
    BY <1>1, <1>3, ElementOfSeq
  <1>7. \A t \in Seq(Slots) : Len(t) \in Nat
    OBVIOUS
  <1> QED BY <1>2, <1>3, <1>4, <1>5, <1>6, <1>7

\* What becomes of the arrays when a hook is added or removed: none is dropped or
\* shortened, and hooks only are written.
ArraysChange ==
    /\ arrays' \in Seq(Seq(Slots))
    /\ Len(arrays') \in Nat /\ Len(arrays) <= Len(arrays')
    /\ \A k \in 1..Len(arrays) :
          /\ Len(arrays'[k]) = Len(arrays[k])
          /\ \A i \in 1..Len(arrays[k]) : arrays'[k][i] = arrays[k][i] \/ arrays'[k][i] \in Hooks

\* A header stays good.
LEMMA HeaderKept ==
    ASSUME BaseOK, ArraysChange, NEW l, HeaderIn(l, arrays)
    PROVE  HeaderIn(l, arrays')
  <1>1. CASE l.arr = 0
    BY <1>1, SliceFacts DEF HeaderIn, ArraysChange
  <1>2. CASE l.arr # 0
    <2>1. l.arr \in 1..Len(arrays) /\ l.len \in Nat
      BY <1>2, SliceFacts DEF HeaderIn, Header
    <2>2. l.arr \in 0..Len(arrays') /\ Len(arrays'[l.arr]) = Len(arrays[l.arr])
      BY <2>1, SliceFacts DEF ArraysChange
    <2>3. \A i \in 1..l.len : i \in 1..Len(arrays[l.arr])
      BY <1>2, <2>1, SliceFacts DEF HeaderIn
    <2> QED BY <1>2, <2>1, <2>2, <2>3 DEF HeaderIn, ArraysChange
  <1> QED BY <1>1, <1>2

\* A function on 1..m is a sequence of length m.
LEMMA FunctionIsSeq ==
    ASSUME NEW S, NEW m \in Nat, NEW f \in [1..m -> S]
    PROVE  f \in Seq(S) /\ Len(f) = m
  OBVIOUS

\* One array is written.
LEMMA ReplaceArray ==
    ASSUME BaseOK, NEW b \in 1..Len(arrays), NEW new \in Seq(Slots),
           arrays' = [arrays EXCEPT ![b] = new]
    PROVE  /\ arrays' \in Seq(Seq(Slots)) /\ Len(arrays') = Len(arrays) /\ arrays'[b] = new
           /\ \A k \in 1..Len(arrays) : k # b => arrays'[k] = arrays[k]
  <1>1. arrays \in Seq(Seq(Slots))
    BY DEF BaseOK
  <1>2. arrays' \in Seq(Seq(Slots)) /\ Len(arrays') = Len(arrays)
    BY <1>1, ExceptSeq
  <1>3. \A k \in 1..Len(arrays) : arrays'[k] = IF k = b THEN new ELSE arrays[k]
    BY <1>1, ExceptSeq
  <1> QED BY <1>2, <1>3

\* append writes behind what the list covers, in its array or in a new one.
LEMMA AppendForms ==
    ASSUME BaseOK, HeadersOK, NEW o \in DOMAIN lists, NEW h \in Hooks, AppendHook(o, h)
    PROVE  \E a \in Nat :
             /\ (a = lists[o].arr /\ a # 0) \/ a = Len(arrays) + 1
             /\ lists' = [lists EXCEPT ![o] = Slice(a, lists[o].len + 1)]
             /\ ArraysChange /\ a \in 1..Len(arrays') /\ lists[o].len + 1 <= Len(arrays'[a])
             /\ \A k \in 1..Len(arrays) : k # a => arrays'[k] = arrays[k]
             /\ \A i \in 1..lists[o].len : arrays'[a][i] = arrays[lists[o].arr][i]
             /\ arrays'[a][lists[o].len + 1] = h
  <1> DEFINE b == lists[o].arr
             n == lists[o].len
             old == Cells(b)
  <1>0. /\ b \in Nat /\ n \in Nat /\ Len(arrays) \in Nat
        /\ HeaderIn(lists[o], arrays) /\ b \in 0..Len(arrays)
        /\ \A k \in 1..Len(arrays) : arrays[k] \in Seq(Slots) /\ Len(arrays[k]) \in Nat
    BY SliceFacts DEF HeadersOK, HeaderIn
  <1>1. /\ old \in Seq(Slots) /\ Len(old) \in Nat
        /\ b = 0 => old = << >> /\ n = 0
        /\ b # 0 => old = arrays[b] /\ n <= Len(old) /\ b \in 1..Len(arrays)
    BY <1>0, EmptySeq DEF Cells, HeaderIn
  <1>2. CASE n < Len(old)
    <2>1. b # 0 /\ b \in 1..Len(arrays) /\ old = arrays[b]
      BY <1>0, <1>1, <1>2
    <2>2. /\ arrays' = [arrays EXCEPT ![b] = [old EXCEPT ![n + 1] = h]]
          /\ lists' = [lists EXCEPT ![o] = Slice(b, n + 1)]
      BY <1>2, <2>1 DEF AppendHook
    <2>3. n + 1 \in 1..Len(old) /\ h \in Slots
      BY <1>0, <1>1, <1>2 DEF Slots
    <2> DEFINE new == [old EXCEPT ![n + 1] = h]
    <2>4. /\ new \in Seq(Slots) /\ Len(new) = Len(old) /\ new[n + 1] = h
          /\ \A i \in 1..Len(old) : i # n + 1 => new[i] = old[i]
      BY <1>1, <2>3, ExceptSeq
    <2> HIDE DEF new
    <2>5. arrays' = [arrays EXCEPT ![b] = new]
      BY <2>2 DEF new
    <2>6. /\ arrays' \in Seq(Seq(Slots)) /\ Len(arrays') = Len(arrays) /\ arrays'[b] = new
          /\ \A k \in 1..Len(arrays) : k # b => arrays'[k] = arrays[k]
      BY <2>1, <2>4, <2>5, ReplaceArray
    <2>7. ArraysChange
      <3>1. \A i \in 1..Len(old) : new[i] = old[i] \/ new[i] \in Hooks
        BY <2>4
      <3>2. ASSUME NEW k \in 1..Len(arrays)
            PROVE  /\ Len(arrays'[k]) = Len(arrays[k])
                   /\ \A i \in 1..Len(arrays[k]) :
                         arrays'[k][i] = arrays[k][i] \/ arrays'[k][i] \in Hooks
        <4>1. CASE k = b
          BY <2>1, <2>4, <2>6, <3>1, <4>1
        <4>2. CASE k # b
          BY <2>6, <4>2
        <4> QED BY <4>1, <4>2
      <3>3. Len(arrays') \in Nat /\ Len(arrays) <= Len(arrays')
        BY <1>0, <2>6
      <3>4. arrays' \in Seq(Seq(Slots))
        BY <2>6
      <3> QED BY <3>2, <3>3, <3>4, Zenon DEF ArraysChange
    <2>8. \A i \in 1..n : i \in 1..Len(old) /\ i # n + 1
      BY <1>0, <1>1
    <2>9. n + 1 <= Len(arrays'[b]) /\ b \in 1..Len(arrays')
      BY <2>1, <2>3, <2>4, <2>6
    <2>10. /\ \A i \in 1..n : arrays'[b][i] = arrays[b][i]
           /\ arrays'[b][n + 1] = h
      BY <2>1, <2>4, <2>6, <2>8
    <2> QED BY <1>0, <2>1, <2>2, <2>6, <2>7, <2>9, <2>10
  <1>3. CASE ~(n < Len(old))
    <2> DEFINE m == IF n = 0 THEN 1 ELSE 2 * n
               new == [i \in 1..m |-> IF i <= n THEN old[i] ELSE IF i = n + 1 THEN h ELSE NoHook]
               a == Len(arrays) + 1
    <2>1. /\ arrays' = Append(arrays, new)
          /\ lists' = [lists EXCEPT ![o] = Slice(a, n + 1)]
      BY <1>3 DEF AppendHook
    <2>2. /\ m \in Nat /\ n + 1 <= m /\ n + 1 \in 1..m /\ n <= Len(old)
          /\ \A i \in 1..n : i \in 1..m /\ i \in 1..Len(old)
      BY <1>0, <1>1
    <2>3. \A i \in 1..n : old[i] \in Slots
      BY <1>1, <2>2, ElementOfSeq
    <2>4. new \in Seq(Slots) /\ Len(new) = m
      <3>1. h \in Slots /\ NoHook \in Slots
        BY DEF Slots
      <3>2. \A i \in 1..m : i <= n => i \in 1..n
        BY <1>0, <2>2
      <3>3. new \in [1..m -> Slots]
        BY <2>3, <3>1, <3>2
      <3>4. m \in Nat
        BY <2>2
      <3> HIDE DEF new, m
      <3> QED BY <3>3, <3>4, FunctionIsSeq
    <2>5. new[n + 1] = h /\ \A i \in 1..n : new[i] = old[i]
      BY <1>0, <2>2
    <2> HIDE DEF new
    <2>6. /\ arrays' \in Seq(Seq(Slots)) /\ Len(arrays') = a /\ arrays'[a] = new
          /\ \A k \in 1..Len(arrays) : arrays'[k] = arrays[k]
      BY <2>1, <2>4, AppendProperties DEF BaseOK
    <2>7. ArraysChange
      BY <1>0, <2>6 DEF ArraysChange
    <2>8. \A i \in 1..n : arrays'[a][i] = arrays[b][i]
      BY <1>0, <1>1, <2>5, <2>6
    <2>9. a \in Nat /\ a \in 1..Len(arrays') /\ n + 1 <= Len(arrays'[a]) /\ arrays'[a][n + 1] = h
      <3>1. a \in Nat /\ a \in 1..a
        BY <1>0
      <3> HIDE DEF a, m, n
      <3> QED BY <2>2, <2>4, <2>5, <2>6, <3>1
    <2> QED BY <2>1, <2>6, <2>7, <2>8, <2>9
  <1> QED BY <1>2, <1>3

\* Removal puts the last hook into the place of the one that goes.
LEMMA RemoveForms ==
    ASSUME BaseOK, HeadersOK, NEW o \in DOMAIN lists, NEW h, RemoveHook(o, h)
    PROVE  \E i \in 1..lists[o].len :
             LET a == lists[o].arr
                 n == lists[o].len
             IN  /\ a \in 1..Len(arrays) /\ n \in 1..Len(arrays[a])
                 /\ arrays[a][i] = h
                 /\ lists' = [lists EXCEPT ![o] = Slice(a, n - 1)]
                 /\ ArraysChange
                 /\ \A k \in 1..Len(arrays) : k # a => arrays'[k] = arrays[k]
                 /\ \A j \in 1..(n - 1) : arrays'[a][j] = IF j = i THEN arrays[a][n] ELSE arrays[a][j]
  <1> DEFINE a == lists[o].arr
             n == lists[o].len
  <1>0. /\ a \in Nat /\ n \in Nat /\ Len(arrays) \in Nat
        /\ HeaderIn(lists[o], arrays) /\ a \in 0..Len(arrays)
        /\ \A k \in 1..Len(arrays) : arrays[k] \in Seq(Slots) /\ Len(arrays[k]) \in Nat
    BY SliceFacts DEF HeadersOK, HeaderIn
  <1>1. PICK i \in 1..n : /\ View(lists[o])[i] = h
                          /\ arrays' = [arrays EXCEPT ![a][i] = arrays[a][n]]
                          /\ lists' = [lists EXCEPT ![o] = Slice(a, n - 1)]
    BY DEF RemoveHook
  <1>2. a # 0 /\ a \in 1..Len(arrays) /\ n \in 1..Len(arrays[a]) /\ i \in 1..Len(arrays[a])
    BY <1>0, <1>1 DEF HeaderIn
  <1>3. arrays[a][i] = h /\ arrays[a][n] \in Hooks /\ arrays[a][n] \in Slots
    BY <1>0, <1>1, <1>2 DEF View, Cells, HeaderIn, Slots
  <1> DEFINE new == [arrays[a] EXCEPT ![i] = arrays[a][n]]
  <1>4. /\ new \in Seq(Slots) /\ Len(new) = Len(arrays[a]) /\ new[i] = arrays[a][n]
        /\ \A j \in 1..Len(arrays[a]) : j # i => new[j] = arrays[a][j]
    BY <1>0, <1>2, <1>3, ExceptSeq
  <1>5. arrays' = [arrays EXCEPT ![a] = new]
    BY <1>1
  <1> HIDE DEF new
  <1>6. /\ arrays' \in Seq(Seq(Slots)) /\ Len(arrays') = Len(arrays) /\ arrays'[a] = new
        /\ \A k \in 1..Len(arrays) : k # a => arrays'[k] = arrays[k]
    BY <1>2, <1>4, <1>5, ReplaceArray
  <1>7. ArraysChange
    <2>1. \A j \in 1..Len(arrays[a]) : new[j] = arrays[a][j] \/ new[j] \in Hooks
      BY <1>3, <1>4
    <2>2. ASSUME NEW k \in 1..Len(arrays)
          PROVE  /\ Len(arrays'[k]) = Len(arrays[k])
                 /\ \A j \in 1..Len(arrays[k]) :
                       arrays'[k][j] = arrays[k][j] \/ arrays'[k][j] \in Hooks
      <3>1. CASE k = a
        BY <1>4, <1>6, <2>1, <3>1
      <3>2. CASE k # a
        BY <1>6, <3>2
      <3> QED BY <3>1, <3>2
    <2> QED BY <1>0, <1>6, <2>2 DEF ArraysChange
  <1>8. \A j \in 1..(n - 1) : arrays'[a][j] = IF j = i THEN arrays[a][n] ELSE arrays[a][j]
    BY <1>0, <1>2, <1>4, <1>6
  <1> QED BY <1>1, <1>2, <1>3, <1>6, <1>7, <1>8

-----------------------------------------------------------------------------
(* What a change of one list keeps *)

\* The headers stay good when one of them is replaced by a good one.
LEMMA HeadersKept ==
    ASSUME BaseOK, HeadersOK, ArraysChange, NEW o \in DOMAIN lists, NEW l,
           HeaderIn(l, arrays'), lists' = [lists EXCEPT ![o] = l], UNCHANGED sess
    PROVE  /\ HeadersOK' /\ lists' \in Seq(Header) /\ Len(lists') = Len(lists)
           /\ DOMAIN lists' = DOMAIN lists
           /\ \A p \in DOMAIN lists : lists'[p] = IF p = o THEN l ELSE lists[p]
  <1>1. l \in Header /\ lists \in Seq(Header) /\ o \in 1..Len(lists)
    BY SliceFacts DEF HeaderIn, BaseOK
  <1>2. lists' \in Seq(Header) /\ Len(lists') = Len(lists)
    BY <1>1, ExceptSeq
  <1>3. DOMAIN lists' = DOMAIN lists
    BY <1>2, SliceFacts
  <1>4. \A p \in DOMAIN lists : lists'[p] = IF p = o THEN l ELSE lists[p]
    BY <1>1, SliceFacts, ExceptSeq
  <1>5. ASSUME NEW p \in DOMAIN lists PROVE HeaderIn(lists'[p], arrays')
    BY <1>4, HeaderKept DEF HeadersOK
  <1>6. ASSUME NEW s \in Sessions PROVE HeaderIn(sess'[s].list, arrays')
    BY HeaderKept DEF HeadersOK
  <1>7. HeadersOK'
    BY <1>3, <1>5, <1>6 DEF HeadersOK
  <1> QED BY <1>2, <1>3, <1>4, <1>7

\* A list keeps what it holds when neither what is installed in it nor the array
\* below what it covers changes.
LEMMA ListKept ==
    ASSUME NEW p, ListOK(p), lists'[p] = lists[p],
           \A i \in 1..lists[p].len : arrays'[lists[p].arr][i] = arrays[lists[p].arr][i],
           \A g \in Hooks : installed'[g] = p <=> installed[g] = p,
           \A i \in 1..lists[p].len : arrays[lists[p].arr][i] \in Hooks
    PROVE  ListOK(p)'
  <1>1. Installed(p)' = Installed(p)
    BY DEF Installed
  <1> QED BY <1>1 DEF ListOK

\* So it does when nothing changes.
LEMMA ListSame ==
    ASSUME NEW p, ListOK(p), lists'[p] = lists[p], UNCHANGED <<arrays, installed>>
    PROVE  ListOK(p)'
  <1>1. Installed(p)' = Installed(p)
    BY DEF Installed
  <1> QED BY <1>1 DEF ListOK

\* Adding a hook keeps the lists exact and apart.
LEMMA AddHookKeeps ==
    ASSUME BaseOK, HeadersOK, OwnersOK, \A p \in DOMAIN lists : ListOK(p),
           NEW o \in DOMAIN lists, NEW h \in fresh, AppendHook(o, h),
           installed' = [installed EXCEPT ![h] = o], fresh' = fresh \ {h}, UNCHANGED <<Users, sess>>
    PROVE  /\ HeadersOK' /\ OwnersOK' /\ \A p \in DOMAIN lists' : ListOK(p)'
           /\ lists' \in Seq(Header) /\ Len(lists') = Len(lists) /\ arrays' \in Seq(Seq(Slots))
  <1> DEFINE n == lists[o].len
  <1>0. /\ h \in Hooks /\ installed[h] = 0 /\ installed \in [Hooks -> 0..Len(lists)]
        /\ o \in 1..Len(lists) /\ n \in Nat /\ HeaderIn(lists[o], arrays) /\ ListOK(o)
        /\ Len(lists) \in Nat /\ Len(arrays) \in Nat
    BY SliceFacts DEF BaseOK, HeadersOK
  <1>1. PICK a \in Nat :
             /\ (a = lists[o].arr /\ a # 0) \/ a = Len(arrays) + 1
             /\ lists' = [lists EXCEPT ![o] = Slice(a, lists[o].len + 1)]
             /\ ArraysChange /\ a \in 1..Len(arrays') /\ lists[o].len + 1 <= Len(arrays'[a])
             /\ \A k \in 1..Len(arrays) : k # a => arrays'[k] = arrays[k]
             /\ \A i \in 1..lists[o].len : arrays'[a][i] = arrays[lists[o].arr][i]
             /\ arrays'[a][lists[o].len + 1] = h
    BY <1>0, AppendForms
  <1> DEFINE l == Slice(a, n + 1)
  <1>2. l.arr = a /\ l.len = n + 1 /\ l \in Header
    BY <1>0 DEF Slice, Header
  <1> HIDE DEF l
  <1>3. \A i \in 1..n : /\ lists[o].arr # 0 /\ arrays[lists[o].arr][i] \in Hooks
                        /\ arrays'[a][i] = arrays[lists[o].arr][i]
    <2>1. n # 0 => lists[o].arr # 0
      BY <1>0 DEF HeaderIn
    <2>2. lists[o].arr # 0 => \A i \in 1..n : arrays[lists[o].arr][i] \in Hooks
      BY <1>0 DEF HeaderIn
    <2>3. \A i \in 1..n : n # 0
      BY <1>0
    <2> QED BY <1>1, <2>1, <2>2, <2>3
  <1>4. \A i \in 1..(n + 1) : i \in 1..n \/ i = n + 1
    BY <1>0
  <1>5. HeaderIn(l, arrays')
    <2>1. \A i \in 1..(n + 1) : arrays'[a][i] \in Hooks
      BY <1>0, <1>1, <1>3, <1>4
    <2>2. a \in 0..Len(arrays') /\ a # 0 /\ n + 1 <= Len(arrays'[a])
      BY <1>1 DEF ArraysChange
    <2> QED BY <1>2, <2>1, <2>2 DEF HeaderIn
  <1>6. lists' = [lists EXCEPT ![o] = l] /\ UNCHANGED sess
    BY <1>1 DEF l
  <1>7. /\ HeadersOK' /\ lists' \in Seq(Header) /\ Len(lists') = Len(lists)
        /\ DOMAIN lists' = DOMAIN lists
        /\ \A p \in DOMAIN lists : lists'[p] = IF p = o THEN l ELSE lists[p]
    BY <1>1, <1>5, <1>6, HeadersKept
  <1>8. \A p \in DOMAIN lists : p # o /\ lists[p].arr # 0 =>
             lists[p].arr # a /\ lists[p].arr \in 1..Len(arrays)
    <2> SUFFICES ASSUME NEW p \in DOMAIN lists, p # o, lists[p].arr # 0
                 PROVE  lists[p].arr # a /\ lists[p].arr \in 1..Len(arrays)
      OBVIOUS
    <2>1. lists[p].arr \in 1..Len(arrays)
      BY <1>0, SliceFacts DEF HeadersOK, HeaderIn
    <2>2. lists[p].arr # lists[o].arr
      BY <1>0, SliceFacts DEF OwnersOK
    <2>3. lists[p].arr # Len(arrays) + 1
      BY <1>0, <2>1
    <2> QED BY <1>1, <2>1, <2>2, <2>3
  <1>9. OwnersOK'
    <2> SUFFICES ASSUME NEW p \in DOMAIN lists, NEW q \in DOMAIN lists, p # q,
                        lists'[p].arr = lists'[q].arr
                 PROVE  lists'[p].arr = 0
      BY <1>7 DEF OwnersOK
    <2>1. CASE p # o /\ q # o
      BY <1>7, <2>1 DEF OwnersOK
    <2>2. CASE p = o
      BY <1>1, <1>2, <1>7, <1>8, <2>2
    <2>3. CASE q = o
      BY <1>1, <1>2, <1>7, <1>8, <2>3
    <2> QED BY <2>1, <2>2, <2>3
  <1>10. ASSUME NEW p \in DOMAIN lists, p # o PROVE ListOK(p)'
    <2>1. lists'[p] = lists[p] /\ ListOK(p) /\ HeaderIn(lists[p], arrays)
      BY <1>7, <1>10 DEF HeadersOK
    <2>2. p \in 1..Len(lists) /\ p # 0
      BY SliceFacts
    <2>3. \A i \in 1..lists[p].len : lists[p].arr # 0 /\ arrays[lists[p].arr][i] \in Hooks
      <3>1. lists[p].len \in Nat
        BY SliceFacts
      <3>2. CASE lists[p].arr = 0
        BY <2>1, <3>1, <3>2 DEF HeaderIn
      <3>3. CASE lists[p].arr # 0
        BY <2>1, <3>3 DEF HeaderIn
      <3> QED BY <3>2, <3>3
    <2>4. \A i \in 1..lists[p].len : arrays'[lists[p].arr][i] = arrays[lists[p].arr][i]
      BY <1>1, <1>8, <1>10, <2>3
    <2>5. \A g \in Hooks : installed'[g] = p <=> installed[g] = p
      BY <1>0, <1>10, <2>2
    <2> QED BY <2>1, <2>3, <2>4, <2>5, ListKept
  <1>11. ListOK(o)'
    <2>1. lists'[o].arr = a /\ lists'[o].len = n + 1
      BY <1>2, <1>7
    <2>2. Installed(o)' = Installed(o) \cup {h} /\ h \notin Installed(o)
      BY <1>0 DEF Installed
    <2>3. /\ \A i \in 1..n : installed[arrays[lists[o].arr][i]] = o
          /\ \A g \in Installed(o) : \E i \in 1..n : arrays[lists[o].arr][i] = g
          /\ \A i, j \in 1..n : arrays[lists[o].arr][i] = arrays[lists[o].arr][j] => i = j
          /\ IsFiniteSet(Installed(o)) /\ n = Cardinality(Installed(o))
      BY <1>0 DEF ListOK
    <2>4. /\ \A i \in 1..n : arrays'[a][i] \in Installed(o)
          /\ \A g \in Installed(o) : \E i \in 1..n : arrays'[a][i] = g
          /\ \A i, j \in 1..n : arrays'[a][i] = arrays'[a][j] => i = j
          /\ arrays'[a][n + 1] = h
      BY <1>1, <1>3, <2>3 DEF Installed
    <2>5. IsFiniteSet(Installed(o)') /\ n + 1 = Cardinality(Installed(o)')
      BY <2>2, <2>3, FS_AddElement
    <2>6. \A i \in 1..(n + 1) : installed'[arrays'[a][i]] = o
      BY <1>4, <2>2, <2>4 DEF Installed
    <2>7. \A g \in Installed(o)' : \E i \in 1..(n + 1) : arrays'[a][i] = g
      <3>1. \A i \in 1..n : i \in 1..(n + 1)
        BY <1>0
      <3>2. n + 1 \in 1..(n + 1)
        BY <1>0
      <3> QED BY <2>2, <2>4, <3>1, <3>2
    <2>8. \A i, j \in 1..(n + 1) : arrays'[a][i] = arrays'[a][j] => i = j
      BY <1>4, <2>2, <2>4
    <2> QED BY <2>1, <2>5, <2>6, <2>7, <2>8 DEF ListOK
  <1>12. arrays' \in Seq(Seq(Slots))
    BY <1>1 DEF ArraysChange
  <1> QED BY <1>7, <1>9, <1>10, <1>11, <1>12

\* Removing a hook that a list holds keeps the lists exact and apart.
LEMMA RemoveHookKeeps ==
    ASSUME BaseOK, HeadersOK, OwnersOK, \A p \in DOMAIN lists : ListOK(p),
           NEW o \in DOMAIN lists, NEW h \in Hooks, RemoveHook(o, h),
           installed' = [installed EXCEPT ![h] = 0], UNCHANGED <<Users, fresh, sess>>
    PROVE  /\ HeadersOK' /\ OwnersOK' /\ \A p \in DOMAIN lists' : ListOK(p)'
           /\ lists' \in Seq(Header) /\ Len(lists') = Len(lists) /\ arrays' \in Seq(Seq(Slots))
  <1> DEFINE n == lists[o].len
             a == lists[o].arr
  <1>0. /\ installed \in [Hooks -> 0..Len(lists)] /\ a \in Nat
        /\ o \in 1..Len(lists) /\ n \in Nat /\ HeaderIn(lists[o], arrays) /\ ListOK(o)
        /\ Len(lists) \in Nat /\ Len(arrays) \in Nat
    BY SliceFacts DEF BaseOK, HeadersOK
  <1>1. PICK i \in 1..n :
             /\ a \in 1..Len(arrays) /\ n \in 1..Len(arrays[a])
             /\ arrays[a][i] = h
             /\ lists' = [lists EXCEPT ![o] = Slice(a, n - 1)]
             /\ ArraysChange
             /\ \A k \in 1..Len(arrays) : k # a => arrays'[k] = arrays[k]
             /\ \A j \in 1..(n - 1) : arrays'[a][j] = IF j = i THEN arrays[a][n] ELSE arrays[a][j]
    BY RemoveForms
  <1> DEFINE l == Slice(a, n - 1)
  <1>2. l.arr = a /\ l.len = n - 1 /\ l \in Header
    BY <1>0, <1>1 DEF Slice, Header
  <1> HIDE DEF l
  <1>3. /\ \A j \in 1..n : arrays[a][j] \in Hooks
        /\ n \in 1..n /\ \A j \in 1..(n - 1) : j \in 1..n /\ j # n
        /\ \A j \in 1..n : j # n => j \in 1..(n - 1)
    <2>1. \A j \in 1..n : arrays[a][j] \in Hooks
      BY <1>0, <1>1 DEF HeaderIn
    <2>2. n > 0
      BY <1>0, <1>1
    <2> HIDE DEF n, a
    <2> QED BY <1>0, <2>1, <2>2
  <1>4. HeaderIn(l, arrays')
    <2>1. \A j \in 1..(n - 1) : arrays'[a][j] \in Hooks
      BY <1>1, <1>3
    <2>2. a \in 0..Len(arrays') /\ a # 0 /\ n - 1 <= Len(arrays'[a])
      <3>1. Len(arrays'[a]) = Len(arrays[a]) /\ Len(arrays[a]) \in Nat
        BY <1>1, SliceFacts DEF ArraysChange
      <3>2. Len(arrays') \in Nat /\ Len(arrays) <= Len(arrays')
        BY <1>1 DEF ArraysChange
      <3> QED BY <1>0, <1>1, <3>1, <3>2
    <2> QED BY <1>2, <2>1, <2>2 DEF HeaderIn
  <1>6. lists' = [lists EXCEPT ![o] = l] /\ UNCHANGED sess
    BY <1>1 DEF l
  <1>7. /\ HeadersOK' /\ lists' \in Seq(Header) /\ Len(lists') = Len(lists)
        /\ DOMAIN lists' = DOMAIN lists
        /\ \A p \in DOMAIN lists : lists'[p] = IF p = o THEN l ELSE lists[p]
    BY <1>1, <1>4, <1>6, HeadersKept
  <1>8. OwnersOK'
    BY <1>2, <1>7 DEF OwnersOK
  <1>9. installed[h] = o
    BY <1>0, <1>1 DEF ListOK
  <1>10. ASSUME NEW p \in DOMAIN lists, p # o PROVE ListOK(p)'
    <2>1. lists'[p] = lists[p] /\ ListOK(p) /\ HeaderIn(lists[p], arrays)
      BY <1>7, <1>10 DEF HeadersOK
    <2>2. p \in 1..Len(lists) /\ p # 0
      BY SliceFacts
    <2>3. \A j \in 1..lists[p].len : lists[p].arr # 0 /\ arrays[lists[p].arr][j] \in Hooks
      <3>1. lists[p].len \in Nat
        BY SliceFacts
      <3>2. CASE lists[p].arr = 0
        BY <2>1, <3>1, <3>2 DEF HeaderIn
      <3>3. CASE lists[p].arr # 0
        BY <2>1, <3>3 DEF HeaderIn
      <3> QED BY <3>2, <3>3
    <2>4. lists[p].arr # 0 => lists[p].arr # a /\ lists[p].arr \in 1..Len(arrays)
      BY <1>0, <1>10, <2>1, SliceFacts DEF OwnersOK, HeaderIn
    <2>5. \A j \in 1..lists[p].len : arrays'[lists[p].arr][j] = arrays[lists[p].arr][j]
      BY <1>1, <2>3, <2>4
    <2>6. \A g \in Hooks : installed'[g] = p <=> installed[g] = p
      BY <1>0, <1>9, <1>10, <2>2
    <2> QED BY <2>1, <2>3, <2>5, <2>6, ListKept
  <1>11. ListOK(o)'
    <2>1. lists'[o].arr = a /\ lists'[o].len = n - 1
      BY <1>2, <1>7
    <2>2. o # 0 /\ Installed(o)' = Installed(o) \ {h} /\ h \in Installed(o)
      BY <1>0, <1>9 DEF Installed
    <2>3. /\ \A j \in 1..n : arrays[a][j] \in Installed(o)
          /\ \A g \in Installed(o) : \E j \in 1..n : arrays[a][j] = g
          /\ \A j, k \in 1..n : arrays[a][j] = arrays[a][k] => j = k
          /\ IsFiniteSet(Installed(o)) /\ n = Cardinality(Installed(o))
      BY <1>0, <1>3 DEF ListOK, Installed
    <2>4. IsFiniteSet(Installed(o)') /\ n - 1 = Cardinality(Installed(o)')
      BY <2>2, <2>3, FS_RemoveElement
    <2>5. ASSUME NEW j \in 1..(n - 1) PROVE arrays'[a][j] \in Installed(o)'
      <3>1. CASE j = i
        BY <1>1, <1>3, <2>2, <2>3, <3>1
      <3>2. CASE j # i
        BY <1>1, <1>3, <2>2, <2>3, <3>2
      <3> QED BY <3>1, <3>2
    <2>6. \A g \in Installed(o)' : \E j \in 1..(n - 1) : arrays'[a][j] = g
      <3> SUFFICES ASSUME NEW g \in Installed(o), g # h
                   PROVE  \E j \in 1..(n - 1) : arrays'[a][j] = g
        BY <2>2
      <3>1. PICK j \in 1..n : arrays[a][j] = g
        BY <2>3
      <3>2. j # i
        BY <1>1, <3>1
      <3>3. CASE j = n
        BY <1>1, <1>3, <3>1, <3>2, <3>3
      <3>4. CASE j # n
        BY <1>1, <1>3, <3>1, <3>2, <3>4
      <3> QED BY <3>3, <3>4
    <2>7. \A j, k \in 1..(n - 1) : arrays'[a][j] = arrays'[a][k] => j = k
      BY <1>1, <1>3, <2>3
    <2>8. \A j \in 1..(n - 1) : installed'[arrays'[a][j]] = o
      BY <2>5 DEF Installed
    <2> QED BY <2>1, <2>4, <2>6, <2>7, <2>8 DEF ListOK
  <1>12. arrays' \in Seq(Seq(Slots))
    BY <1>1 DEF ArraysChange
  <1> QED BY <1>7, <1>8, <1>10, <1>11, <1>12

\* The key made for a hook is not in the registry.
LEMMA NewKeyIsNew ==
    ASSUME IsFiniteSet(registry), NEW n, NEW p, NEW i
    PROVE  \A r \in registry : r.key # NewKey(n, p, i)
  <1> DEFINE key(d) == [name |-> n, pass |-> p, index |-> i, dots |-> d]
             free == {d \in 0..Cardinality(registry) : \A r \in registry : r.key # key(d)}
             dots == [r \in registry |-> r.key.dots]
  <1>1. Cardinality(registry) \in Nat
    BY FS_CardinalityType
  <1>2. PICK d \in 0..Cardinality(registry) : \A r \in registry : dots[r] # d
    <2> HIDE DEF dots
    <2> QED BY FreeNumber
  <1>3. d \in free
    BY <1>2
  <1>4. free \in SUBSET Nat
    BY <1>1
  <1> HIDE DEF free
  <1>5. \E m \in free : \A e \in free : m <= e
    BY <1>3, <1>4, LeastExists
  <1>6. (CHOOSE m \in free : \A e \in free : m <= e) \in free
    BY <1>5
  <1>7. NewKey(n, p, i) = key(CHOOSE m \in free : \A e \in free : m <= e)
    BY DEF NewKey, free
  <1> HIDE DEF key
  <1> QED BY <1>6, <1>7 DEF free

\* What a login finds is a user, or none.
LEMMA FoundUser ==
    ASSUME BaseOK, UsersAssumption, NEW n \in Names, NEW p \in Passwords
    PROVE  GetProxyUser(n, p) \in 0..Len(lists)
  BY DEF BaseOK, UsersAssumption, Keys, GetProxyUser

-----------------------------------------------------------------------------
(* The invariant *)

\* It holds before the first user.
LEMMA UsersInit ==
    ASSUME UsersAssumption, Init PROVE UsersInv
  <1>1. lists \in Seq(Header) /\ Len(lists) = 0 /\ DOMAIN lists = {}
    BY EmptySeq DEF Init
  <1>2. arrays \in Seq(Seq(Slots)) /\ Len(arrays) = 0
    BY EmptySeq DEF Init
  <1>3. NilSlice \in Header /\ HeaderIn(NilSlice, arrays)
    BY <1>2 DEF NilSlice, Slice, Header, HeaderIn
  <1>4. sess \in [Sessions -> [obj : Int, list : Header]]
    BY <1>3 DEF Init, NoSession
  <1>5. BaseOK
    BY <1>1, <1>2, <1>4 DEF Init, BaseOK
  <1>6. HeadersOK
    BY <1>1, <1>3 DEF Init, HeadersOK, NoSession
  <1>7. KeysOK
    BY FS_EmptySet DEF Init, KeysOK, KeysDistinct
  <1> QED BY <1>1, <1>5, <1>6, <1>7 DEF UsersInv, OwnersOK

\* A new user has a list of its own, which is empty.
LEMMA AddUserStep ==
    ASSUME UsersInv, NEW n \in Names, NEW p \in Passwords, AddProxyUser(n, p)
    PROVE  UsersInv'
  <1> DEFINE o == Len(lists) + 1
  <1>0. BaseOK /\ HeadersOK /\ OwnersOK /\ (\A q \in DOMAIN lists : ListOK(q)) /\ KeysOK
    BY DEF UsersInv
  <1>1. NilSlice \in Header /\ NilSlice.arr = 0 /\ NilSlice.len = 0
    BY DEF NilSlice, Slice, Header
  <1>2. /\ lists' = Append(lists, NilSlice) /\ lists \in Seq(Header) /\ Len(lists) \in Nat
        /\ DOMAIN lists = 1..Len(lists)
        /\ UNCHANGED <<arrays, registry, installed, fresh, sess>>
        /\ Users' = [Users EXCEPT ![<<n, p>>] = o]
    BY <1>0, SliceFacts DEF AddProxyUser, BaseOK
  <1>3. /\ lists' \in Seq(Header) /\ Len(lists') = o /\ lists'[o] = NilSlice
        /\ \A q \in DOMAIN lists : lists'[q] = lists[q]
        /\ DOMAIN lists' = 1..o
    BY <1>1, <1>2, AppendProperties
  <1>4. \A q \in DOMAIN lists' : q \in DOMAIN lists \/ q = o
    BY <1>2, <1>3
  <1>5. BaseOK'
    <2>1. 0..Len(lists) \subseteq 0..Len(lists') /\ o \in 0..Len(lists')
      BY <1>2, <1>3
    <2>2. Users' \in [Keys -> 0..Len(lists')]
      BY <1>0, <1>2, <2>1 DEF BaseOK
    <2>3. installed' \in [Hooks -> 0..Len(lists')]
      BY <1>0, <1>2, <2>1 DEF BaseOK
    <2> QED BY <1>0, <1>2, <1>3, <2>2, <2>3 DEF BaseOK
  <1>6. HeadersOK'
    <2>1. HeaderIn(NilSlice, arrays)
      BY <1>0, <1>1, SliceFacts DEF HeaderIn
    <2> QED BY <1>0, <1>2, <1>3, <1>4, <2>1 DEF HeadersOK
  <1>7. OwnersOK'
    <2> SUFFICES ASSUME NEW q \in DOMAIN lists', NEW t \in DOMAIN lists', q # t,
                        lists'[q].arr = lists'[t].arr
                 PROVE  lists'[q].arr = 0
      BY DEF OwnersOK
    <2>1. CASE q = o \/ t = o
      BY <1>1, <1>3, <2>1
    <2>2. CASE q # o /\ t # o
      BY <1>0, <1>3, <1>4, <2>2 DEF OwnersOK
    <2> QED BY <2>1, <2>2
  <1>8. ASSUME NEW q \in DOMAIN lists' PROVE ListOK(q)'
    <2>1. CASE q = o
      <3>1. Installed(q)' = {}
        <4>1. q \notin 0..Len(lists)
          BY <1>2, <2>1
        <4>2. \A h \in Hooks : installed'[h] # q
          BY <1>0, <1>2, <4>1 DEF BaseOK
        <4> QED BY <4>2 DEF Installed
      <3>2. lists'[q].len = 0 /\ IsFiniteSet(Installed(q)') /\ Cardinality(Installed(q)') = 0
        BY <1>1, <1>3, <2>1, <3>1, FS_EmptySet
      <3>3. 1..lists'[q].len = {}
        BY <3>2
      <3>4. Installed(q)' = {} /\ IsFiniteSet(Installed(q)') /\ lists'[q].len = Cardinality(Installed(q)')
        BY <2>1, <3>1, <3>2
      <3> QED BY <3>3, <3>4 DEF ListOK
    <2>2. CASE q # o
      <3>1. q \in DOMAIN lists /\ lists'[q] = lists[q] /\ ListOK(q)
        BY <1>0, <1>3, <1>4, <2>2
      <3> QED BY <1>2, <3>1, ListSame
    <2> QED BY <2>1, <2>2
  <1>9. KeysOK'
    BY <1>0, <1>2 DEF KeysOK, KeysDistinct
  <1> QED BY <1>5, <1>6, <1>7, <1>8, <1>9 DEF UsersInv

\* A session gets a copy of a good header.
LEMMA AuthenticateStep ==
    ASSUME UsersAssumption, UsersInv, NEW s \in Sessions, NEW n \in Names, NEW p \in Passwords,
           AuthenticateUser(s, n, p)
    PROVE  UsersInv'
  <1> DEFINE o == GetProxyUser(n, p)
             l == IF o = 0 THEN NilSlice ELSE lists[o]
  <1>0. BaseOK /\ HeadersOK
    BY DEF UsersInv
  <1>1. o \in 0..Len(lists) /\ Len(lists) \in Nat /\ DOMAIN lists = 1..Len(lists) /\ o \in Int
    BY <1>0, FoundUser, SliceFacts
  <1>2. HeaderIn(NilSlice, arrays)
    BY <1>0, SliceFacts DEF NilSlice, Slice, Header, HeaderIn
  <1>3. HeaderIn(l, arrays) /\ l \in Header
    BY <1>0, <1>1, <1>2 DEF HeadersOK, HeaderIn
  <1>4. sess' = [sess EXCEPT ![s] = [obj |-> o, list |-> l]] /\ UNCHANGED userVars
    BY DEF AuthenticateUser
  <1> HIDE DEF o, l
  <1>5. sess' \in [Sessions -> [obj : Int, list : Header]]
    BY <1>0, <1>1, <1>3, <1>4 DEF BaseOK
  <1>6. \A t \in Sessions : sess'[t].list = IF t = s THEN l ELSE sess[t].list
    BY <1>0, <1>4 DEF BaseOK
  <1>7. BaseOK'
    BY <1>0, <1>4, <1>5 DEF BaseOK, userVars
  <1>8. HeadersOK'
    BY <1>0, <1>3, <1>4, <1>6 DEF HeadersOK, userVars
  <1>9. OwnersOK' /\ KeysOK'
    BY <1>4 DEF UsersInv, userVars, OwnersOK, KeysOK, KeysDistinct
  <1>10. \A q \in DOMAIN lists' : ListOK(q)'
    BY <1>4, ListSame DEF UsersInv, userVars
  <1> QED BY <1>7, <1>8, <1>9, <1>10 DEF UsersInv

\* A hook is added, under a key that nobody has.
LEMMA AddHookStep ==
    ASSUME UsersAssumption, UsersInv, NEW n \in Names, NEW p \in Passwords, NEW h \in Hooks,
           AddHookToUser(n, p, h)
    PROVE  UsersInv'
  <1> DEFINE o == GetProxyUser(n, p)
             k == NewKey(n, p, lists[o].len)
  <1>0. BaseOK /\ HeadersOK /\ OwnersOK /\ (\A q \in DOMAIN lists : ListOK(q)) /\ KeysOK
    BY DEF UsersInv
  <1>1. /\ o \in DOMAIN lists /\ h \in fresh /\ AppendHook(o, h)
        /\ registry' = registry \cup {[key |-> k, hook |-> h]}
        /\ installed' = [installed EXCEPT ![h] = o] /\ fresh' = fresh \ {h}
        /\ UNCHANGED <<Users, sess>>
    BY <1>0, FoundUser, SliceFacts DEF AddHookToUser
  <1>2. o \in 0..Len(lists)
    BY <1>0, FoundUser
  <1>3. \A r \in registry : r.key # k
    BY <1>0, NewKeyIsNew DEF KeysOK
  <1> HIDE DEF o, k
  <1>4. /\ HeadersOK' /\ OwnersOK' /\ \A q \in DOMAIN lists' : ListOK(q)'
        /\ lists' \in Seq(Header) /\ Len(lists') = Len(lists) /\ arrays' \in Seq(Seq(Slots))
    BY <1>0, <1>1, AddHookKeeps
  <1>5. BaseOK'
    <2>1. installed' \in [Hooks -> 0..Len(lists')] /\ fresh' \subseteq Hooks
      BY <1>0, <1>1, <1>2, <1>4 DEF BaseOK
    <2>2. \A g \in fresh' : installed'[g] = 0
      BY <1>0, <1>1 DEF BaseOK
    <2>3. \A r \in registry' : r.hook \in Hooks \ fresh'
      BY <1>0, <1>1 DEF BaseOK
    <2> QED BY <1>0, <1>1, <1>4, <2>1, <2>2, <2>3 DEF BaseOK
  <1>6. KeysOK'
    <2>1. IsFiniteSet(registry')
      BY <1>0, <1>1, FS_AddElement DEF KeysOK
    <2>2. KeysDistinct'
      BY <1>0, <1>1, <1>3 DEF KeysOK, KeysDistinct
    <2> QED BY <2>1, <2>2 DEF KeysOK
  <1> QED BY <1>4, <1>5, <1>6 DEF UsersInv

\* A hook is removed from the user that is found, if that one has it.
LEMMA RemoveHookStep ==
    ASSUME UsersAssumption, UsersInv, NEW n \in Names, NEW p \in Passwords, NEW h \in Hooks \ fresh,
           RemoveHookFromUser(n, p, h), NEW gone, registry' = registry \ gone
    PROVE  UsersInv'
  <1> DEFINE o == GetProxyUser(n, p)
  <1>0. BaseOK /\ HeadersOK /\ OwnersOK /\ (\A q \in DOMAIN lists : ListOK(q)) /\ KeysOK
    BY DEF UsersInv
  <1>1. KeysOK'
    <2>1. IsFiniteSet(registry')
      BY <1>0, FS_Subset DEF KeysOK
    <2>2. KeysDistinct'
      BY <1>0 DEF KeysOK, KeysDistinct
    <2> QED BY <2>1, <2>2 DEF KeysOK
  <1>2. UNCHANGED <<Users, fresh, sess>>
    BY DEF RemoveHookFromUser
  <1>3. CASE RemoveHook(o, h) /\ installed' = [installed EXCEPT ![h] = 0] /\ o # 0
    <2>1. o \in DOMAIN lists
      BY <1>0, <1>3, FoundUser, SliceFacts
    <2>2. /\ HeadersOK' /\ OwnersOK' /\ \A q \in DOMAIN lists' : ListOK(q)'
          /\ lists' \in Seq(Header) /\ Len(lists') = Len(lists) /\ arrays' \in Seq(Seq(Slots))
      BY <1>0, <1>2, <1>3, <2>1, RemoveHookKeeps
    <2>3. /\ installed' \in [Hooks -> 0..Len(lists')]
          /\ \A g \in fresh' : installed'[g] = 0
      <3>1. Len(lists) \in Nat
        BY <1>0, SliceFacts
      <3> QED BY <1>0, <1>2, <1>3, <2>2, <3>1 DEF BaseOK
    <2>4. BaseOK'
      BY <1>0, <1>2, <2>2, <2>3 DEF BaseOK
    <2> QED BY <1>1, <2>2, <2>4 DEF UsersInv
  <1>4. CASE UNCHANGED <<lists, arrays, installed>>
    <2>1. BaseOK'
      BY <1>0, <1>2, <1>4 DEF BaseOK
    <2>2. HeadersOK' /\ OwnersOK'
      BY <1>0, <1>2, <1>4 DEF HeadersOK, OwnersOK
    <2>3. \A q \in DOMAIN lists' : ListOK(q)'
      BY <1>0, <1>4, ListSame
    <2> QED BY <1>1, <2>1, <2>2, <2>3 DEF UsersInv
  <1> QED BY <1>3, <1>4 DEF RemoveHookFromUser

\* The invariant says nothing of what is forwarded and recorded.
LEMMA UsersStutter ==
    ASSUME UsersInv, UNCHANGED <<userVars, sess>> PROVE UsersInv'
  <1>1. UNCHANGED <<Users, lists, arrays, registry, installed, fresh, sess>>
    BY DEF userVars
  <1>2. BaseOK' /\ HeadersOK'
    BY <1>1 DEF UsersInv, BaseOK, HeadersOK
  <1>3. OwnersOK' /\ KeysOK'
    BY <1>1 DEF UsersInv, OwnersOK, KeysOK, KeysDistinct
  <1>4. \A q \in DOMAIN lists' : ListOK(q)'
    BY <1>1, ListSame DEF UsersInv
  <1> QED BY <1>2, <1>3, <1>4 DEF UsersInv

\* Every step keeps the invariant.
LEMMA UsersStep ==
    ASSUME UsersAssumption, UsersInv, [Next]_vars PROVE UsersInv'
  <1>1. ASSUME NEW n \in Names, NEW p \in Passwords, AddProxyUser(n, p) PROVE UsersInv'
    BY <1>1, AddUserStep
  <1>2. ASSUME NEW n \in Names, NEW p \in Passwords, RemoveProxyUser(n, p) PROVE UsersInv'
    <2>1. /\ Users' = [Users EXCEPT ![<<n, p>>] = 0]
          /\ UNCHANGED <<lists, arrays, registry, installed, fresh, sess>>
      BY <1>2 DEF RemoveProxyUser
    <2>2. Users' \in [Keys -> 0..Len(lists)]
      <3>1. Len(lists) \in Nat
        BY SliceFacts DEF UsersInv
      <3>2. 0 \in 0..Len(lists) /\ Users \in [Keys -> 0..Len(lists)]
        BY <3>1 DEF UsersInv, BaseOK
      <3> QED BY <2>1, <3>2
    <2>3. BaseOK' /\ HeadersOK'
      BY <2>1, <2>2 DEF UsersInv, BaseOK, HeadersOK
    <2>4. OwnersOK' /\ KeysOK'
      BY <2>1 DEF UsersInv, OwnersOK, KeysOK, KeysDistinct
    <2>5. \A q \in DOMAIN lists' : ListOK(q)'
      BY <2>1, ListSame DEF UsersInv
    <2> QED BY <2>3, <2>4, <2>5 DEF UsersInv
  <1>3. ASSUME NEW n \in Names, NEW p \in Passwords, NEW h \in Hooks, AddHookToUser(n, p, h)
        PROVE  UsersInv'
    BY <1>3, AddHookStep
  <1>4. ASSUME NEW n \in Names, NEW p \in Passwords, NEW h \in Hooks, RemoveHookFromUserDirectly(n, p, h)
        PROVE  UsersInv'
    <2>1. h \in Hooks \ fresh /\ RemoveHookFromUser(n, p, h) /\ registry' = registry
      BY <1>4 DEF RemoveHookFromUserDirectly
    <2>2. registry' = registry \ {}
      BY <2>1
    <2> QED BY <2>1, <2>2, RemoveHookStep
  <1>5. ASSUME NEW n \in Names, NEW p \in Passwords, NEW r \in registry, RemoveHookFromUserByKey(n, p, r)
        PROVE  UsersInv'
    <2>1. r.hook \in Hooks \ fresh
      BY DEF UsersInv, BaseOK
    <2>2. RemoveHookFromUser(n, p, r.hook) /\ registry' = registry \ {r}
      BY <1>5 DEF RemoveHookFromUserByKey
    <2> QED BY <2>1, <2>2, RemoveHookStep
  <1>6. ASSUME NEW s \in Sessions, NEW n \in Names, NEW p \in Passwords, AuthenticateUser(s, n, p)
        PROVE  UsersInv'
    BY <1>6, AuthenticateStep
  <1>7. ASSUME NEW s \in Sessions, Read(s) PROVE UsersInv'
    BY <1>7, UsersStutter DEF Read
  <1>8. CASE UNCHANGED vars
    BY <1>8, UsersStutter DEF vars
  <1> QED BY <1>1, <1>2, <1>3, <1>4, <1>5, <1>6, <1>7, <1>8 DEF Next

-----------------------------------------------------------------------------
(* Theorems *)

\* The invariant holds in every state.
THEOREM UsersCorrect == Spec => []UsersInv
  <1>1. Init => UsersInv
    BY UsersAssumption, UsersInit
  <1>2. UsersInv /\ [Next]_vars => UsersInv'
    BY UsersAssumption, UsersStep
  <1> QED BY <1>1, <1>2, PTL DEF Spec

\* Every header lies within its array.
THEOREM UsersTypes == Spec => []TypeOK
  <1>1. ASSUME UsersInv PROVE TypeOK
    <2>1. BaseOK /\ HeadersOK
      BY <1>1 DEF UsersInv
    <2>2. ASSUME NEW l, HeaderIn(l, arrays)
          PROVE  l.arr \in 0..Len(arrays) /\ l.len \in 0..Len(Cells(l.arr))
      <3>1. l.arr \in 0..Len(arrays) /\ l.len \in Nat /\ Len(arrays) \in Nat
        BY <2>1, <2>2, SliceFacts DEF HeaderIn, Header
      <3>2. CASE l.arr = 0
        BY <2>2, <3>1, <3>2, EmptySeq DEF HeaderIn, Cells
      <3>3. CASE l.arr # 0
        <4>1. l.arr \in 1..Len(arrays) /\ Len(arrays[l.arr]) \in Nat
          BY <2>1, <3>1, <3>3, SliceFacts
        <4> QED BY <2>2, <3>1, <3>3, <4>1 DEF HeaderIn, Cells
      <3> QED BY <3>1, <3>2, <3>3
    <2>3. \A l \in Headers : HeaderIn(l, arrays)
      BY <2>1 DEF Headers, HeadersOK
    <2> QED BY <2>1, <2>2, <2>3 DEF TypeOK, BaseOK
  <1> QED BY <1>1, UsersCorrect, PTL

\* What a list shows lies in its array.
LEMMA ViewFacts ==
    ASSUME NEW l, HeaderIn(l, arrays)
    PROVE  \A i \in 1..l.len : /\ View(l)[i] = arrays[l.arr][i]
                               /\ View(l)[i] \in Hooks
  <1>1. l.len \in Nat
    BY DEF HeaderIn, Header
  <1>2. CASE l.arr = 0
    BY <1>1, <1>2 DEF HeaderIn
  <1>3. CASE l.arr # 0
    BY <1>3 DEF HeaderIn, View, Cells
  <1> QED BY <1>2, <1>3

\* A running session never meets a nil pointer in its copy of a list (proxy.go:618-654).
THEOREM SessionsSee == Spec => []SessionsSeeHooks
  <1>1. ASSUME UsersInv PROVE SessionsSeeHooks
    BY <1>1, ViewFacts DEF UsersInv, HeadersOK, SessionsSeeHooks
  <1> QED BY <1>1, UsersCorrect, PTL

\* The list of a user is exactly the hooks that were added and not removed.
THEOREM ListsAreExact == Spec => []ListsExact
  <1>1. ASSUME UsersInv PROVE ListsExact
    <2> SUFFICES ASSUME NEW o \in DOMAIN lists
                 PROVE  /\ {View(lists[o])[i] : i \in 1..lists[o].len} = Installed(o)
                        /\ lists[o].len = Cardinality(Installed(o))
      BY DEF ListsExact, Installed
    <2>1. HeaderIn(lists[o], arrays) /\ ListOK(o)
      BY <1>1 DEF UsersInv, HeadersOK
    <2>2. \A i \in 1..lists[o].len : View(lists[o])[i] \in Installed(o)
      BY <2>1, ViewFacts DEF ListOK, Installed
    <2>3. \A h \in Installed(o) : \E i \in 1..lists[o].len : View(lists[o])[i] = h
      BY <2>1, ViewFacts DEF ListOK
    <2> QED BY <2>1, <2>2, <2>3 DEF ListOK
  <1> QED BY <1>1, UsersCorrect, PTL

\* No two hooks have one key, although positions come back (controller.go:412-419).
THEOREM KeysAreNew == Spec => []KeysDistinct
  <1>1. UsersInv => KeysDistinct
    BY DEF UsersInv, KeysOK
  <1> QED BY <1>1, UsersCorrect, PTL
=============================================================================
