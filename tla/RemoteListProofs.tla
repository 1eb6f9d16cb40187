-------------------------- MODULE RemoteListProofs --------------------------
(* Machine-checked theorems about RemoteList. *)
EXTENDS RemoteList, SequenceLemmas

-----------------------------------------------------------------------------
(* Lists of entries.                                                       *)

Own(l) == \A i \in DOMAIN l : ToSet(l[i].addrs) \subseteq {l[i].host}

\* A list that a client may be given.
Usable(l) == l \in Seq(Item) /\ Len(l) \in 1 .. MaxEntries /\ Own(l)

Index == [primary : Nat, secondary : Nat]
Names(l, ix) == ix \in [primary : 0 .. Len(l) - 1, secondary : 0 .. MaxAddresses - 1]

\* An address list is short, and what a resolver answers is an address list.
LEMMA AddressLists ==
    /\ <<>> \in AddressList
    /\ \A a \in AddressList : a = <<>> \/ (Len(a) \in 1 .. MaxAddresses /\ a # <<>>)
    /\ \A h \in Host : \A a \in Answers[h] :
         a \in AddressList /\ a # <<>> /\ Len(a) \in 1 .. MaxAddresses /\ ToSet(a) \subseteq {h}
<1>1. ASSUME NEW h \in Host, NEW a \in Answers[h]
      PROVE  a # <<>> /\ Len(a) \in 1 .. MaxAddresses /\ ToSet(a) \subseteq {h}
  <2>1. PICK n \in 1 .. MaxAddresses : a = [i \in 1 .. n |-> h]
    BY DEF Answers
  <2>2. n \in Nat /\ n > 0
    BY <2>1
  <2>3. a \in Seq({h}) /\ Len(a) = n /\ DOMAIN a = 1 .. n
    BY <2>1, <2>2
  <2>4. ToSet(a) \subseteq {h}
    BY <2>1, <2>3 DEF ToSet
  <2>5. a # <<>>
    BY <2>2, <2>3
  <2> QED BY <2>1, <2>3, <2>4, <2>5
<1>2. \A h \in Host : \A a \in Answers[h] : a \in AddressList
  BY DEF AddressList
<1>3. \A a \in AddressList : a = <<>> \/ \E h \in Host : a \in Answers[h]
  BY DEF AddressList
<1>4. <<>> \in AddressList
  BY DEF AddressList
<1> QED BY <1>1, <1>2, <1>3, <1>4

\* The entries of a list have their types.
LEMMA EntryType ==
    ASSUME NEW l \in Seq(Item), NEW i \in 1 .. Len(l)
    PROVE  /\ l[i] \in Item /\ l[i].host \in Host /\ l[i].addrs \in AddressList
           /\ DOMAIN l = 1 .. Len(l)
<1>1. l[i] \in Item /\ DOMAIN l = 1 .. Len(l)
  OBVIOUS
<1> QED BY <1>1 DEF Item

\* One entry's addresses replaced.
SetAddrs(l, i, addrs) == [l EXCEPT ![i].addrs = addrs]

LEMMA SetAddresses ==
    ASSUME NEW l, Usable(l), NEW i \in 1 .. Len(l), NEW addrs \in AddressList,
           ToSet(addrs) \subseteq {l[i].host},
           NEW m, m = SetAddrs(l, i, addrs)
    PROVE  /\ Usable(m) /\ Len(m) = Len(l)
           /\ \A k \in 1 .. Len(l) : m[k].name = l[k].name /\ m[k].host = l[k].host
           /\ \A k \in 1 .. Len(l) : k # i => m[k].addrs = l[k].addrs
           /\ m[i].addrs = addrs
<1> DEFINE e == [l[i] EXCEPT !.addrs = addrs]
           n == Len(l)
<1>1. n \in Nat /\ n \in 1 .. MaxEntries /\ DOMAIN l = 1 .. n /\ l \in [1 .. n -> Item]
  BY DEF Usable
<1>2. e \in Item /\ e.addrs = addrs /\ e.host = l[i].host /\ e.name = l[i].name
  <2>1. l[i] \in Item
    BY <1>1
  <2> QED BY <2>1 DEF Item
<1>4. m = [l EXCEPT ![i] = e]
  BY DEF e, SetAddrs
<1> HIDE DEF e
<1>3. m \in [1 .. n -> Item] /\ m[i] = e /\ \A k \in 1 .. n : k # i => m[k] = l[k]
  <2> HIDE DEF n
  <2> QED BY <1>1, <1>2, <1>4
<1>5. m \in Seq(Item) /\ Len(m) = n /\ DOMAIN m = 1 .. n
  <2> HIDE DEF n
  <2> QED BY <1>1, <1>3
<1>6. Own(m)
  BY <1>1, <1>2, <1>3, <1>5 DEF Own, Usable
<1> QED BY <1>1, <1>2, <1>3, <1>4, <1>5, <1>6 DEF Usable

\* An entry may lose its addresses.
LEMMA ResetUsable ==
    ASSUME NEW l, Usable(l), NEW ix, Names(l, ix)
    PROVE  Usable(ResetItem(l, ix)) /\ Len(ResetItem(l, ix)) = Len(l)
<1>1. CASE options.caching
  BY <1>1 DEF ResetItem
<1>2. CASE ~options.caching
  <2> DEFINE i == ix.primary + 1
  <2>1. i \in 1 .. Len(l)
    BY DEF Names, Usable
  <2>2. <<>> \in AddressList /\ ToSet(<<>>) \subseteq {l[i].host}
    BY AddressLists DEF ToSet
  <2> DEFINE m == ResetItem(l, ix)
             none == <<>>
  <2>3. m = SetAddrs(l, i, none)
    BY <1>2 DEF ResetItem, SetAddrs
  <2>4. none \in AddressList /\ ToSet(none) \subseteq {l[i].host}
    BY <2>2
  <2> HIDE DEF i, m, none
  <2>5. Usable(m) /\ Len(m) = Len(l)
    BY <2>1, <2>3, <2>4, SetAddresses
  <2> QED BY <2>5 DEF m
<1> QED BY <1>1, <1>2

\* An entry has a bounded number of addresses.
LEMMA SecondaryShort ==
    ASSUME NEW l, Usable(l), NEW i \in Nat
    PROVE  SecondaryLength(l, i) \in 0 .. MaxAddresses
<1>1. CASE i < Len(l)
  <2>1. i + 1 \in 1 .. Len(l) /\ l \in Seq(Item)
    BY <1>1 DEF Usable
  <2>2. l[i + 1].addrs \in AddressList
    BY <2>1, EntryType
  <2>3. Len(l[i + 1].addrs) \in 0 .. MaxAddresses
    <3>1. CASE l[i + 1].addrs = <<>>
      BY <3>1, BoundAssumption
    <3>2. CASE l[i + 1].addrs # <<>>
      BY <2>2, <3>2, AddressLists
    <3> QED BY <3>1, <3>2
  <2> QED BY <1>1, <2>3 DEF SecondaryLength
<1>2. CASE ~(i < Len(l))
  BY <1>2, BoundAssumption DEF SecondaryLength
<1> QED BY <1>1, <1>2

\* RemoteList::next() leaves a list that can be used, and an index into it.
LEMMA NextUsable ==
    ASSUME NEW l, Usable(l), NEW ix, Names(l, ix)
    PROVE  /\ Usable(NextRemote(l, ix).list) /\ Names(NextRemote(l, ix).list, NextRemote(l, ix).index)
           /\ Len(NextRemote(l, ix).list) = Len(l)
           /\ options.caching => NextRemote(l, ix).list = l
<1> DEFINE n == Len(l)
           m == SecondaryLength(l, ix.primary)
           ix2 == Increment(ix, n, m)
<1>1. n \in Nat /\ n >= 1
  BY DEF Usable
<1>2. ix.primary \in 0 .. n - 1 /\ ix.secondary \in 0 .. MaxAddresses - 1
  BY DEF Names
<1>3. m \in 0 .. MaxAddresses
  BY SMTT(30), <1>1, <1>2, SecondaryShort
<1>4. Names(l, ix2)
  <2> HIDE DEF n, m
  <2>1. CASE ix.secondary + 1 < m
    <3>1. ix2 = [ix EXCEPT !.secondary = @ + 1]
      BY <2>1 DEF Increment
    <3>2. ix.secondary + 1 \in 0 .. MaxAddresses - 1
      BY <1>2, <1>3, <2>1, BoundAssumption
    <3> QED BY <3>1, <3>2 DEF Names
  <2>2. CASE ~(ix.secondary + 1 < m)
    <3> DEFINE p == IF ix.primary + 1 >= n THEN 0 ELSE ix.primary + 1
    <3>1. ix2 = [primary |-> p, secondary |-> 0]
      BY <2>2 DEF Increment
    <3>2. p \in 0 .. n - 1 /\ 0 \in 0 .. MaxAddresses - 1
      BY <1>1, <1>2, BoundAssumption
    <3> HIDE DEF p
    <3> QED BY <3>1, <3>2 DEF Names, n
  <2> QED BY <2>1, <2>2
<1> HIDE DEF ix2, m, n
<1>5. NextRemote(l, ix) = [list |-> ResetItem(l, ix2), index |-> ix2]
  BY DEF NextRemote, ix2, m, n
<1>6. Usable(ResetItem(l, ix2)) /\ Len(ResetItem(l, ix2)) = Len(l)
  BY <1>4, ResetUsable
<1>7. Names(ResetItem(l, ix2), ix2)
  BY <1>4, <1>6 DEF Names
<1>8. options.caching => ResetItem(l, ix2) = l
  BY DEF ResetItem
<1> QED BY <1>5, <1>6, <1>7, <1>8

-----------------------------------------------------------------------------
(* Pruning.                                                                *)

\* r is what the first i entries of l leave.
Left(l, i, r) ==
    /\ r \in Seq(Item) /\ Len(r) <= i
    /\ \A j \in 1 .. Len(r) : \E k \in 1 .. i : r[j] = l[k] /\ Cached(l[k])
    /\ \A k \in 1 .. i : Cached(l[k]) => \E j \in 1 .. Len(r) : r[j] = l[k]

\* One more entry.
LEMMA LeftNext ==
    ASSUME NEW l \in Seq(Item), NEW i \in 1 .. Len(l), NEW r, Left(l, i - 1, r)
    PROVE  Left(l, i, IF Cached(l[i]) THEN Append(r, l[i]) ELSE r)
<1>1. r \in Seq(Item) /\ Len(r) \in Nat /\ Len(r) <= i - 1 /\ i \in Nat /\ i >= 1
  BY DEF Left
<1>2. \A k \in 1 .. i : k \in 1 .. i - 1 \/ k = i
  BY <1>1
<1>3. \A k \in 1 .. i - 1 : k \in 1 .. i
  BY <1>1
<1>4. CASE ~Cached(l[i])
  <2>1. Len(r) <= i
    BY <1>1
  <2>2. \A j \in 1 .. Len(r) : \E k \in 1 .. i : r[j] = l[k] /\ Cached(l[k])
    BY <1>3 DEF Left
  <2>3. \A k \in 1 .. i : Cached(l[k]) => \E j \in 1 .. Len(r) : r[j] = l[k]
    BY <1>2, <1>4 DEF Left
  <2> QED BY <1>1, <1>4, <2>1, <2>2, <2>3 DEF Left
<1>5. CASE Cached(l[i])
  <2> DEFINE e == l[i]
             m == Len(r)
             u == Append(r, e)
  <2>1. e \in Item
    OBVIOUS
  <2> HIDE DEF e
  <2>2. /\ u \in Seq(Item) /\ Len(u) = m + 1 /\ u[m + 1] = e
        /\ \A j \in 1 .. m : u[j] = r[j]
    BY <1>1, <2>1
  <2> HIDE DEF u
  <2>3. /\ \A j \in 1 .. m + 1 : j \in 1 .. m \/ j = m + 1
        /\ \A j \in 1 .. m : j \in 1 .. m + 1
        /\ m + 1 \in 1 .. m + 1 /\ m + 1 <= i
    <3> HIDE DEF m
    <3> QED BY <1>1 DEF m
  <2> HIDE DEF m
  <2>4. \A j \in 1 .. m + 1 : \E k \in 1 .. i : u[j] = l[k] /\ Cached(l[k])
    <3> TAKE j \in 1 .. m + 1
    <3>1. CASE j \in 1 .. m
      <4>1. PICK k \in 1 .. i - 1 : r[j] = l[k] /\ Cached(l[k])
        BY <3>1 DEF Left, m
      <4> QED BY <1>3, <2>2, <3>1, <4>1
    <3>2. CASE j = m + 1
      BY <1>5, <2>2, <3>2 DEF e
    <3> QED BY <2>3, <3>1, <3>2
  <2>5. \A k \in 1 .. i : Cached(l[k]) => \E j \in 1 .. m + 1 : u[j] = l[k]
    <3> SUFFICES ASSUME NEW k \in 1 .. i, Cached(l[k])
                 PROVE  \E j \in 1 .. m + 1 : u[j] = l[k]
      OBVIOUS
    <3>1. CASE k \in 1 .. i - 1
      <4>1. PICK j \in 1 .. m : r[j] = l[k]
        BY <3>1 DEF Left, m
      <4> QED BY <2>2, <2>3, <4>1
    <3>2. CASE k = i
      BY <2>2, <2>3, <3>2 DEF e
    <3> QED BY <1>2, <3>1, <3>2
  <2>6. Left(l, i, u)
    BY <2>2, <2>3, <2>4, <2>5 DEF Left
  <2> QED BY <1>5, <2>6 DEF u, e
<1> QED BY <1>4, <1>5

\* prune_uncached() keeps the entries that have addresses, and only these.
LEMMA PruneKeeps ==
    ASSUME NEW l \in Seq(Item)
    PROVE  Left(l, Len(l), Prune(l))
<1> DEFINE n == Len(l)
           S == Seq(Item)
           Eq(g) == g = [i \in 0 .. n |-> IF i = 0 THEN <<>>
                                          ELSE IF Cached(l[i]) THEN Append(g[i - 1], l[i])
                                               ELSE g[i - 1]]
           kept == CHOOSE g : Eq(g)
           step == [i \in 1 .. n |-> [r \in S |-> IF Cached(l[i]) THEN Append(r, l[i]) ELSE r]]
<1>1. n \in Nat /\ <<>> \in S /\ \A i \in 1 .. n : l[i] \in Item
  OBVIOUS
<1>2. Prune(l) = kept[n]
  BY DEF Prune
<1>3. \A i \in 1 .. n, r \in S : Append(r, l[i]) \in S
  BY <1>1
<1> HIDE DEF n, S
<1>4. \E g : Eq(g)
  <2>1. step \in [1 .. n -> [S -> S]]
    BY <1>3
  <2>2. \A i \in 1 .. n, r \in S :
          step[i][r] = IF Cached(l[i]) THEN Append(r, l[i]) ELSE r
    OBVIOUS
  <2> HIDE DEF step
  <2>3. PICK f \in [0 .. n -> S] : Steps(f, <<>>, step, n)
    BY <1>1, <2>1, Recursion
  <2>4. ASSUME NEW i \in 0 .. n
        PROVE  f[i] = IF i = 0 THEN <<>>
                      ELSE IF Cached(l[i]) THEN Append(f[i - 1], l[i]) ELSE f[i - 1]
    <3>1. CASE i = 0
      BY <2>3, <3>1 DEF Steps
    <3>2. CASE i # 0
      <4>1. i \in 1 .. n /\ i - 1 \in 0 .. n
        BY <1>1, <3>2
      <4>2. f[i - 1] \in S
        BY <4>1
      <4>3. f[i] = step[i][f[i - 1]]
        BY <2>3, <4>1 DEF Steps
      <4> QED BY <2>2, <3>2, <4>1, <4>2, <4>3
    <3> QED BY <3>1, <3>2
  <2>5. f = [i \in 0 .. n |-> f[i]]
    OBVIOUS
  <2>6. Eq(f)
    BY <2>4, <2>5
  <2> QED BY <2>6
<1>5. Eq(kept)
  BY <1>4
<1> HIDE DEF kept
<1>6. \A i \in 0 .. n : kept[i] = IF i = 0 THEN <<>>
                                  ELSE IF Cached(l[i]) THEN Append(kept[i - 1], l[i])
                                       ELSE kept[i - 1]
  BY <1>5
<1> HIDE DEF Eq
<1> DEFINE Good == {i \in 0 .. n : Left(l, i, kept[i])}
<1>7. 0 \in Good
  <2>1. 0 \in 0 .. n
    BY <1>1
  <2>2. kept[0] = <<>>
    BY <1>6, <2>1
  <2>3. Left(l, 0, <<>>)
    <3>1. <<>> \in Seq(Item) /\ Len(<<>>) = 0 /\ 1 .. 0 = {}
      OBVIOUS
    <3> QED BY <3>1 DEF Left
  <2> QED BY <2>1, <2>2, <2>3
<1>8. ASSUME NEW i \in 1 .. n, i - 1 \in Good PROVE i \in Good
  <2>1. i \in 0 .. n /\ i # 0
    BY <1>1
  <2>2. kept[i] = IF Cached(l[i]) THEN Append(kept[i - 1], l[i]) ELSE kept[i - 1]
    BY <1>6, <2>1
  <2>3. Left(l, i - 1, kept[i - 1])
    BY <1>8
  <2>4. i \in 1 .. Len(l)
    BY DEF n
  <2>5. Left(l, i, kept[i])
    BY <2>2, <2>3, <2>4, LeftNext
  <2> QED BY <2>1, <2>5
<1>9. Good = 0 .. n
  <2>1. Good \subseteq 0 .. n
    OBVIOUS
  <2> HIDE DEF Good
  <2> QED BY <1>1, <1>7, <1>8, <2>1, UpTo
<1>10. n \in 0 .. n
  BY <1>1
<1> QED BY <1>2, <1>9, <1>10 DEF n

\* Of a list with an address, a list that can be used is left.
LEMMA PruneUsable ==
    ASSUME NEW l, Usable(l), NEW k \in 1 .. Len(l), Cached(l[k])
    PROVE  /\ Usable(Prune(l))
           /\ \A j \in DOMAIN Prune(l) : Cached(Prune(l)[j])
           /\ \A i \in DOMAIN l : Cached(l[i]) =>
                \E j \in DOMAIN Prune(l) : Prune(l)[j].name = l[i].name
<1> DEFINE r == Prune(l)
<1>1. l \in Seq(Item) /\ Len(l) \in 1 .. MaxEntries /\ DOMAIN l = 1 .. Len(l)
  BY DEF Usable
<1>2. Left(l, Len(l), r)
  BY <1>1, PruneKeeps
<1> HIDE DEF r
<1>3. r \in Seq(Item) /\ Len(r) <= Len(l) /\ DOMAIN r = 1 .. Len(r) /\ Len(r) \in Nat
  BY <1>2 DEF Left
<1>4. Len(r) \in 1 .. MaxEntries
  <2>1. PICK j \in 1 .. Len(r) : r[j] = l[k]
    BY <1>2 DEF Left
  <2>2. Len(r) >= 1
    BY <1>3, <2>1
  <2>3. Len(l) \in 1 .. MaxEntries /\ Len(r) \in Nat /\ Len(r) <= Len(l)
    BY <1>1, <1>3
  <2> DEFINE a == Len(r)
             b == Len(l)
  <2> HIDE DEF a, b
  <2>4. a \in 1 .. MaxEntries
    <3>1. b \in 1 .. MaxEntries /\ a \in Nat /\ a <= b /\ a >= 1
      BY <2>2, <2>3 DEF a, b
    <3> QED BY <3>1, BoundAssumption
  <2> QED BY <2>4 DEF a
<1>5. Own(r)
  <2> SUFFICES ASSUME NEW j \in DOMAIN r PROVE ToSet(r[j].addrs) \subseteq {r[j].host}
    BY DEF Own
  <2>1. PICK i \in 1 .. Len(l) : r[j] = l[i]
    BY <1>2, <1>3 DEF Left
  <2> QED BY <1>1, <2>1 DEF Usable, Own
<1>6. \A j \in DOMAIN r : Cached(r[j])
  BY <1>2, <1>3 DEF Left
<1>7. \A i \in DOMAIN l : Cached(l[i]) => \E j \in DOMAIN r : r[j].name = l[i].name
  BY <1>1, <1>2, <1>3 DEF Left
<1> QED BY <1>3, <1>4, <1>5, <1>6, <1>7 DEF Usable, r

-----------------------------------------------------------------------------
(* PreResolve.                                                             *)

\* The least of some numbers is one of them.
LEMMA MinIs ==
    ASSUME NEW T \in SUBSET Nat, T # {}
    PROVE  Min(T) \in T /\ \A x \in T : Min(T) <= x
<1>1. \E m \in T : \A x \in T : m <= x
  BY LeastNumber
<1> QED BY <1>1 DEF Min

Stop(l, i) == Min({k \in i .. Len(l) : SameHost(l, k) = {}} \cup {Len(l) + 1})

Known(l, i) ==
    [k \in DOMAIN l |->
       IF k \in i .. Stop(l, i) - 1 /\ ~Cached(l[k])
       THEN [l[k] EXCEPT !.addrs = l[Min(SameHost(l, k))].addrs] ELSE l[k]]

\* Entries before the first to be resolved share the addresses of their hosts.
LEMMA KnownUsable ==
    ASSUME NEW l, Usable(l), NEW i \in 1 .. Len(l) + 1
    PROVE  /\ Stop(l, i) \in i .. Len(l) + 1
           /\ Usable(Known(l, i)) /\ Len(Known(l, i)) = Len(l)
           /\ \A k \in 1 .. Len(l) :
                /\ Known(l, i)[k].name = l[k].name
                /\ Cached(l[k]) => Cached(Known(l, i)[k])
           /\ (\A k \in 1 .. Len(l) : ~Cached(l[k])) => Known(l, i) = l
<1> DEFINE n == Len(l)
           T == {k \in i .. n : SameHost(l, k) = {}} \cup {n + 1}
           stop == Stop(l, i)
           m == Known(l, i)
<1>1. l \in [1 .. n -> Item] /\ n \in Nat /\ n \in 1 .. MaxEntries /\ DOMAIN l = 1 .. n
      /\ i \in 1 .. n + 1
  BY DEF Usable
<1>2. stop \in T /\ \A k \in T : stop <= k
  <2>1. T \in SUBSET Nat /\ T # {}
    <3> HIDE DEF n
    <3> QED BY <1>1
  <2>2. stop = Min(T)
    BY DEF Stop
  <2> HIDE DEF T, stop
  <2> QED BY <2>1, <2>2, MinIs
<1> HIDE DEF n
<1>3. stop \in i .. n + 1
  <2> HIDE DEF stop
  <2> QED BY <1>1, <1>2
<1>4. ASSUME NEW k \in i .. stop - 1
      PROVE  /\ k \in 1 .. n /\ SameHost(l, k) \in SUBSET (1 .. n)
             /\ SameHost(l, k) # {}
             /\ Min(SameHost(l, k)) \in 1 .. n
             /\ l[Min(SameHost(l, k))].host = l[k].host /\ Cached(l[Min(SameHost(l, k))])
  <2> HIDE DEF stop
  <2>1. k \in i .. n /\ ~(stop <= k) /\ k \in 1 .. n
    BY <1>1, <1>3
  <2>2. SameHost(l, k) # {}
    BY <1>2, <2>1
  <2>3. SameHost(l, k) \in SUBSET (1 .. n)
    BY <1>1 DEF SameHost
  <2>4. Min(SameHost(l, k)) \in SameHost(l, k)
    BY <1>1, <2>2, <2>3, MinIs
  <2> QED BY <2>1, <2>2, <2>3, <2>4 DEF SameHost
<1>5. m = [k \in 1 .. n |->
             IF k \in i .. stop - 1 /\ ~Cached(l[k])
             THEN [l[k] EXCEPT !.addrs = l[Min(SameHost(l, k))].addrs] ELSE l[k]]
  BY <1>1 DEF Known
<1> HIDE DEF m, stop
<1>6. ASSUME NEW k \in 1 .. n
      PROVE  /\ m[k] \in Item /\ m[k].name = l[k].name
             /\ Cached(l[k]) => Cached(m[k])
             /\ ToSet(m[k].addrs) \subseteq {m[k].host}
  <2>1. l[k] \in Item /\ ToSet(l[k].addrs) \subseteq {l[k].host}
    BY <1>1 DEF Usable, Own
  <2>2. CASE k \in i .. stop - 1 /\ ~Cached(l[k])
    <3> DEFINE j == Min(SameHost(l, k))
    <3>1. j \in 1 .. n /\ l[j].host = l[k].host /\ l[j] \in Item
          /\ ToSet(l[j].addrs) \subseteq {l[j].host}
      BY <1>1, <1>4, <2>2 DEF Usable, Own
    <3> HIDE DEF j
    <3>2. m[k] = [l[k] EXCEPT !.addrs = l[j].addrs]
      BY <1>5, <2>2 DEF j
    <3>3. m[k] \in Item /\ m[k].name = l[k].name /\ m[k].host = l[k].host
          /\ m[k].addrs = l[j].addrs
      BY <2>1, <3>1, <3>2 DEF Item
    <3> QED BY <2>2, <3>1, <3>3
  <2>3. CASE ~(k \in i .. stop - 1 /\ ~Cached(l[k]))
    BY <1>5, <2>1, <2>3
  <2> QED BY <2>2, <2>3
<1>7. m \in Seq(Item) /\ Len(m) = n /\ DOMAIN m = 1 .. n
  <2>1. m \in [1 .. n -> Item]
    BY <1>5, <1>6
  <2> QED BY <1>1, <2>1
<1>8. Usable(m)
  BY <1>1, <1>6, <1>7 DEF Usable, Own
<1>9. (\A k \in 1 .. n : ~Cached(l[k])) => m = l
  <2> SUFFICES ASSUME \A k \in 1 .. n : ~Cached(l[k]) PROVE m = l
    OBVIOUS
  <2>1. \A k \in 1 .. n : SameHost(l, k) = {}
    BY <1>1 DEF SameHost
  <2>2. \A k \in 1 .. n : k \notin i .. stop - 1
    BY <1>4, <2>1
  <2>3. \A k \in 1 .. n : m[k] = l[k]
    BY <1>5, <2>2
  <2>4. m = [k \in 1 .. n |-> m[k]]
    BY <1>5
  <2> QED BY <1>1, <2>3, <2>4
<1> QED BY <1>3, <1>6, <1>7, <1>8, <1>9 DEF n, m, stop

-----------------------------------------------------------------------------
(* The invariant.                                                          *)

Inv == TypeOK /\ EndpointDefined /\ OwnAddresses /\ (pre # 0 => options.caching)

\* The entries, the index into them, and the client.
Sound ==
    /\ Usable(list) /\ Names(list, index) /\ client \in Client /\ client.phase # "thrown"

\* The invariant, as the lemmas need it, before a step and after.
LEMMA InvIs ==
    Inv <=> /\ Sound /\ options \in Options /\ pre \in 0 .. Len(list)
            /\ reconnects \in 0 .. MaxReconnects /\ (pre # 0 => options.caching)
<1>1. ASSUME Inv PROVE Usable(list) /\ Names(list, index)
  <2>1. list \in Seq(Item) /\ Len(list) <= MaxEntries /\ Len(list) \in Nat
    BY <1>1 DEF Inv, TypeOK
  <2>2. index.primary \in 0 .. Len(list) - 1
    BY <1>1 DEF Inv, TypeOK
  <2>3. Len(list) \in 1 .. MaxEntries
    <3> DEFINE n == Len(list)
    <3>1. n \in Nat /\ n <= MaxEntries
      BY <2>1
    <3>2. n >= 1
      <4>1. index.primary \in 0 .. n - 1
        BY <2>2
      <4> HIDE DEF n
      <4> QED BY <3>1, <4>1
    <3> HIDE DEF n
    <3>3. n \in 1 .. MaxEntries
      BY <3>1, <3>2, BoundAssumption
    <3> QED BY <3>3 DEF n
  <2> QED BY <1>1, <2>1, <2>3 DEF Inv, OwnAddresses, Own, Usable, Names, TypeOK
<1>2. ASSUME Sound
      PROVE  /\ list \in Seq(Item) /\ Len(list) <= MaxEntries /\ OwnAddresses
  <2>1. OwnAddresses
    BY <1>2 DEF Sound, Usable, Own, OwnAddresses
  <2>2. list \in Seq(Item) /\ Len(list) \in 1 .. MaxEntries
    BY <1>2 DEF Sound, Usable
  <2>3. Len(list) <= MaxEntries
    BY <2>2
  <2> QED BY <2>1, <2>2, <2>3
<1> QED BY <1>1, <1>2 DEF Inv, Sound, Names, TypeOK, EndpointDefined

\* The same after a step.
LEMMA InvIsNext ==
    Inv' <=> (/\ Sound /\ options \in Options /\ pre \in 0 .. Len(list)
              /\ reconnects \in 0 .. MaxReconnects /\ (pre # 0 => options.caching))'
  BY InvIs, PTL

\* A new client has an entry to contact.
LEMMA NewClientSound ==
    ASSUME NEW l, NEW ix, Usable(l), Names(l, ix), NewClient(l, ix)
    PROVE  Sound' /\ Len(list') = Len(l) /\ (options.caching => list' = l)
<1> DEFINE next == IF client.phase # "none" /\ ~client.reached THEN NextRemote(l, ix)
                   ELSE [list |-> l, index |-> ix]
<1>1. /\ list' = next.list /\ index' = next.index
      /\ client' = [phase |-> TransportStart(next.list, next.index),
                    reached |-> FALSE, restart |-> FALSE]
  BY DEF NewClient
<1>2. /\ Usable(next.list) /\ Names(next.list, next.index) /\ Len(next.list) = Len(l)
      /\ options.caching => next.list = l
  <2>1. CASE client.phase # "none" /\ ~client.reached
    BY <2>1, NextUsable
  <2>2. CASE ~(client.phase # "none" /\ ~client.reached)
    BY <2>2
  <2> QED BY <2>1, <2>2
<1> HIDE DEF next
<1>3. TransportStart(next.list, next.index) \in {"contacting", "resolving"}
  <2> DEFINE n == Len(next.list)
             p == next.index.primary
  <2>1. p \in 0 .. n - 1 /\ n \in Nat
    BY <1>2 DEF Usable, Names
  <2> HIDE DEF n, p
  <2>2. ~(p >= n)
    BY <2>1
  <2> QED BY <2>2 DEF TransportStart, n, p
<1>4. client' \in Client /\ client'.phase # "thrown"
  BY <1>1, <1>3 DEF Client, Phase
<1> QED BY <1>1, <1>2, <1>4 DEF Sound

\* It holds at first, and every step keeps it and prunes right.
LEMMA InvInit == Init => Inv
<1> SUFFICES ASSUME Init PROVE Inv
  OBVIOUS
<1>0. PICK n \in 1 .. MaxEntries :
        \E host \in [1 .. n -> Host] :
          list = [i \in 1 .. n |-> [name |-> i, host |-> host[i], addrs |-> <<>>]]
  BY DEF Init
<1>1. PICK host \in [1 .. n -> Host] :
        list = [i \in 1 .. n |-> [name |-> i, host |-> host[i], addrs |-> <<>>]]
  BY <1>0
<1>2. MaxEntries \in Nat /\ MaxAddresses \in Nat \ {0} /\ n \in Nat
  BY BoundAssumption
<1>3. \A i \in 1 .. n : list[i] \in Item /\ list[i].addrs = <<>>
  <2> TAKE i \in 1 .. n
  <2>1. i \in 1 .. MaxEntries /\ host[i] \in Host
    BY <1>2
  <2>2. list[i] = [name |-> i, host |-> host[i], addrs |-> <<>>]
    BY <1>1
  <2> QED BY <2>1, <2>2, AddressLists DEF Item
<1>4. list \in [1 .. n -> Item]
  BY <1>1, <1>3
<1>5. list \in Seq(Item) /\ Len(list) = n /\ DOMAIN list = 1 .. n
  BY <1>2, <1>4
<1>6. Usable(list)
  <2>1. ToSet(<<>>) = {}
    BY DEF ToSet
  <2>2. Own(list)
    BY <1>3, <1>5, <2>1 DEF Own
  <2> QED BY <1>5, <2>2 DEF Usable
<1>7. Names(list, index)
  <2>1. 0 \in 0 .. n - 1 /\ 0 \in 0 .. MaxAddresses - 1
    BY <1>2
  <2> QED BY <1>5, <2>1 DEF Names, Init, AtStart
<1>8. client \in Client /\ client.phase # "thrown"
  BY DEF Init, Client, Phase
<1>9. pre \in 0 .. Len(list) /\ (pre # 0 => options.caching)
  BY <1>2, <1>5 DEF Init
<1>10. options \in Options /\ reconnects \in 0 .. MaxReconnects
  BY BoundAssumption DEF Init
<1> QED BY <1>6, <1>7, <1>8, <1>9, <1>10, InvIs DEF Sound

\* What pruning l may leave.
Pruned(l, r) ==
    \/ \A k \in DOMAIN r : ~Cached(r[k]) /\ Len(r) = Len(l)
    \/ /\ \A k \in DOMAIN r : Cached(r[k])
       /\ \A k \in DOMAIN l : Cached(l[k]) =>
            \E j \in DOMAIN r : r[j].name = l[k].name

\* PreResolve::next() leaves a usable list, and at its end a pruned one.
LEMMA PreNextSound ==
    ASSUME NEW l, Usable(l), NEW i \in 1 .. Len(l) + 1, Len(l) = Len(list), Sound,
           options.caching, PreNext(l, i)
    PROVE  /\ Sound' /\ pre' \in 0 .. Len(list')
           /\ pre' = 0 => Pruned(l, list')
<1> DEFINE stop == Stop(l, i)
           known == Known(l, i)
           some == \E k \in DOMAIN l : Cached(l[k])
<1>1. IF stop <= Len(l)
      THEN pre' = stop /\ list' = known /\ UNCHANGED <<index, client>>
      ELSE /\ pre' = 0
           /\ IF some THEN \E kept \in {Prune(known)} : NewClient(kept, IndexAfterPrune)
              ELSE NewClient(known, index)
  BY DEF PreNext, Stop, Known
<1>2. l \in Seq(Item) /\ DOMAIN l = 1 .. Len(l) /\ Len(l) \in Nat
  BY DEF Usable
<1>3. /\ stop \in i .. Len(l) + 1
      /\ Usable(known) /\ Len(known) = Len(l)
      /\ \A k \in 1 .. Len(l) :
           known[k].name = l[k].name /\ (Cached(l[k]) => Cached(known[k]))
      /\ (\A k \in 1 .. Len(l) : ~Cached(l[k])) => known = l
  BY KnownUsable
<1>4. DOMAIN known = 1 .. Len(l)
  BY <1>3 DEF Usable
<1>5. Names(known, index)
  BY <1>3 DEF Sound, Names
<1> HIDE DEF stop, known
<1>6. CASE stop <= Len(l)
  <2>1. pre' = stop /\ list' = known /\ index' = index /\ client' = client
    BY <1>1, <1>6
  <2>2. stop \in 1 .. Len(l)
    BY <1>2, <1>3, <1>6
  <2>3. Sound'
    BY <1>3, <1>5, <2>1 DEF Sound
  <2> QED BY <1>3, <2>1, <2>2, <2>3
<1>7. CASE ~(stop <= Len(l)) /\ ~some
  <2>1. pre' = 0 /\ NewClient(known, index)
    BY <1>1, <1>7
  <2>2. Sound' /\ Len(list') = Len(known) /\ list' = known
    BY <1>3, <1>5, <2>1, NewClientSound
  <2>3. known = l
    BY <1>2, <1>3, <1>7
  <2>4. Pruned(l, list')
    BY <1>7, <2>2, <2>3 DEF Pruned
  <2>5. pre' \in 0 .. Len(list')
    BY <1>2, <2>1, <2>2, <2>3
  <2> QED BY <2>1, <2>2, <2>4, <2>5
<1>8. CASE ~(stop <= Len(l)) /\ some
  <2> DEFINE r == Prune(known)
  <2>1. pre' = 0 /\ NewClient(r, AtStart)
    BY <1>1, <1>8 DEF IndexAfterPrune
  <2>2. PICK k \in 1 .. Len(l) : Cached(l[k])
    BY <1>2, <1>8
  <2>3. /\ Usable(r)
        /\ \A j \in DOMAIN r : Cached(r[j])
        /\ \A h \in DOMAIN known : Cached(known[h]) =>
             \E j \in DOMAIN r : r[j].name = known[h].name
    <3>1. k \in 1 .. Len(known) /\ Cached(known[k])
      BY <1>3, <2>2
    <3> QED BY <1>3, <3>1, PruneUsable
  <2> HIDE DEF r
  <2>4. Len(r) \in 1 .. MaxEntries
    BY <2>3 DEF Usable
  <2>5. Names(r, AtStart)
    <3>1. 0 \in 0 .. Len(r) - 1 /\ 0 \in 0 .. MaxAddresses - 1
      BY <2>4, BoundAssumption
    <3> QED BY <3>1 DEF Names, AtStart
  <2>6. Sound' /\ Len(list') = Len(r) /\ list' = r
    BY <2>1, <2>3, <2>5, NewClientSound
  <2>7. Pruned(l, list')
    BY <1>2, <1>3, <1>4, <2>3, <2>6 DEF Pruned
  <2>8. pre' \in 0 .. Len(list')
    BY <2>1, <2>4, <2>6
  <2> QED BY <2>1, <2>6, <2>7, <2>8
<1> QED BY <1>6, <1>7, <1>8

\* A pre-resolve that ends leaves what PrunedRight says.
PruneStep == pre # 0 /\ pre' = 0 => Pruned(list, list')

\* The pre-resolve gets its addresses.
LEMMA PreResolveCallbackKeeps ==
    ASSUME Inv, PreResolveCallback
    PROVE  Inv' /\ PruneStep
<1>1. /\ Sound /\ options \in Options /\ pre \in 0 .. Len(list)
      /\ reconnects \in 0 .. MaxReconnects /\ (pre # 0 => options.caching)
  BY InvIs
<1>2. pre # 0 /\ options' = options /\ reconnects' = reconnects
  BY DEF PreResolveCallback
<1>3. PICK addrs \in Answers[list[pre].host] \cup {list[pre].addrs} :
        PreNext(SetAddrs(list, pre, addrs), pre + 1)
  BY DEF PreResolveCallback, SetAddrs
<1>4. list \in Seq(Item) /\ Len(list) \in Nat /\ Usable(list) /\ DOMAIN list = 1 .. Len(list)
  BY <1>1 DEF Sound, Usable
<1>5. pre \in 1 .. Len(list)
  BY <1>1, <1>2, <1>4
<1>6. list[pre].host \in Host /\ list[pre].addrs \in AddressList
      /\ ToSet(list[pre].addrs) \subseteq {list[pre].host}
  BY <1>4, <1>5, EntryType DEF Usable, Own
<1>7. /\ addrs \in AddressList /\ ToSet(addrs) \subseteq {list[pre].host}
      /\ Cached(list[pre]) => addrs # <<>>
  <2>1. CASE addrs \in Answers[list[pre].host]
    BY <1>6, <2>1, AddressLists
  <2>2. CASE addrs = list[pre].addrs
    BY <1>6, <2>2 DEF Cached
  <2> QED BY <2>1, <2>2
<1> DEFINE l == SetAddrs(list, pre, addrs)
<1>8. l = SetAddrs(list, pre, addrs)
  OBVIOUS
<1> HIDE DEF l
<1>9. /\ Usable(l) /\ Len(l) = Len(list)
      /\ \A k \in 1 .. Len(list) : l[k].name = list[k].name /\ l[k].host = list[k].host
      /\ \A k \in 1 .. Len(list) : k # pre => l[k].addrs = list[k].addrs
      /\ l[pre].addrs = addrs
  BY <1>4, <1>5, <1>7, <1>8, SetAddresses
<1>10. pre + 1 \in 1 .. Len(l) + 1
  BY <1>5, <1>9
<1>11. Sound' /\ pre' \in 0 .. Len(list') /\ (pre' = 0 => Pruned(l, list'))
  <2>1. PreNext(l, pre + 1) /\ options.caching
    BY <1>1, <1>2, <1>3, <1>8
  <2> QED BY <1>1, <1>9, <1>10, <2>1, PreNextSound
<1>12. Inv'
  BY <1>1, <1>2, <1>11, InvIsNext
<1>13. \A k \in DOMAIN list : k \in DOMAIN l /\ l[k].name = list[k].name
                            /\ (Cached(list[k]) => Cached(l[k]))
  <2>1. DOMAIN l = 1 .. Len(list)
    BY <1>9 DEF Usable
  <2> QED BY <1>4, <1>7, <1>9, <2>1 DEF Cached
<1>14. Pruned(l, list') => Pruned(list, list')
  BY <1>9, <1>13 DEF Pruned
<1> QED BY <1>11, <1>12, <1>14 DEF PruneStep

\* A client's transport gets its addresses, and goes back to the first of them.
LEMMA ResolveCallbackKeeps ==
    ASSUME Inv, ResolveCallback
    PROVE  Inv'
<1>1. /\ Sound /\ options \in Options /\ pre \in 0 .. Len(list)
      /\ reconnects \in 0 .. MaxReconnects /\ (pre # 0 => options.caching)
  BY InvIs
<1> DEFINE i == index.primary + 1
           ix == [index EXCEPT !.secondary = 0]
<1>2. PICK addrs \in Answers[list[i].host] :
        /\ list' = SetAddrs(list, i, addrs)
        /\ index' = ix
        /\ client' = [client EXCEPT !.phase =
                        IF EndpointAvailable(list', ix) THEN "contacting" ELSE "thrown"]
  BY DEF ResolveCallback, SetAddrs, Current, SecondaryReset
<1>3. pre' = pre /\ options' = options /\ reconnects' = reconnects
  BY DEF ResolveCallback
<1>4. list \in Seq(Item) /\ Len(list) \in Nat /\ Usable(list)
  BY <1>1 DEF Sound, Usable
<1>5. /\ index \in [primary : 0 .. Len(list) - 1, secondary : 0 .. MaxAddresses - 1]
      /\ i \in 1 .. Len(list) /\ index.primary \in Nat /\ index.primary < Len(list)
  BY <1>1, <1>4 DEF Sound, Names
<1>6. ix.primary = index.primary /\ ix.secondary = 0 /\ 0 \in 0 .. MaxAddresses - 1
  BY <1>5, BoundAssumption
<1>7. ix \in [primary : 0 .. Len(list) - 1, secondary : 0 .. MaxAddresses - 1]
  BY <1>5, <1>6
<1> HIDE DEF i, ix
<1>8. /\ addrs \in AddressList /\ addrs # <<>> /\ Len(addrs) \in 1 .. MaxAddresses
      /\ ToSet(addrs) \subseteq {list[i].host}
  BY <1>4, <1>5, EntryType, AddressLists
<1>9. Usable(list') /\ Len(list') = Len(list) /\ list'[i].addrs = addrs
  BY <1>2, <1>4, <1>5, <1>8, SetAddresses
<1>10. Names(list', index')
  BY <1>2, <1>7, <1>9 DEF Names
<1>11. EndpointAvailable(list', ix)
  <2>1. SecondaryLength(list', index.primary) = Len(addrs)
    BY <1>5, <1>9 DEF SecondaryLength, i
  <2>2. 0 < Len(addrs)
    BY <1>8
  <2> QED BY <1>6, <2>1, <2>2 DEF EndpointAvailable
<1>12. client' \in Client /\ client'.phase # "thrown"
  <2>1. client' = [client EXCEPT !.phase = "contacting"] /\ client \in Client
    BY <1>1, <1>2, <1>11 DEF Sound
  <2> QED BY <2>1 DEF Client, Phase
<1> QED BY <1>1, <1>3, <1>9, <1>10, <1>12, InvIsNext DEF Sound

\* queue_restart() may clear the addresses of the entry in use.
LEMMA QueueRestartKeeps ==
    ASSUME Inv, NEW phase \in Phase, phase # "thrown", QueueRestart(phase),
           UNCHANGED <<options, index, pre>>, reconnects' \in 0 .. MaxReconnects
    PROVE  Inv'
<1>1. /\ Sound /\ options \in Options /\ pre \in 0 .. Len(list)
      /\ (pre # 0 => options.caching)
  BY InvIs
<1>2. /\ list' = ResetItem(list, index)
      /\ client' = [client EXCEPT !.phase = phase, !.restart = TRUE]
      /\ options' = options /\ index' = index /\ pre' = pre
  BY DEF QueueRestart, ResetCacheItem
<1>3. Usable(list') /\ Len(list') = Len(list)
  BY <1>1, <1>2, ResetUsable DEF Sound
<1>4. Names(list', index')
  BY <1>1, <1>2, <1>3 DEF Sound, Names
<1>5. client' \in Client /\ client'.phase # "thrown"
  <2>1. client \in Client
    BY <1>1 DEF Sound
  <2> QED BY <1>2, <2>1 DEF Client
<1> QED BY <1>1, <1>2, <1>3, <1>4, <1>5, InvIsNext DEF Sound

\* A client is replaced.
LEMMA NewClientKeeps ==
    ASSUME Inv, NewClient(list, index), UNCHANGED <<options, pre, reconnects>>
    PROVE  Inv'
<1>1. /\ Sound /\ options \in Options /\ pre \in 0 .. Len(list)
      /\ reconnects \in 0 .. MaxReconnects /\ (pre # 0 => options.caching)
  BY InvIs
<1>2. Sound' /\ Len(list') = Len(list)
  BY <1>1, NewClientSound DEF Sound
<1> QED BY <1>1, <1>2, InvIsNext

\* Every step.
LEMMA InvNext == Inv /\ [Next]_vars => Inv' /\ PruneStep
<1> SUFFICES ASSUME Inv, [Next]_vars PROVE Inv' /\ PruneStep
  OBVIOUS
<1>0. /\ client \in Client /\ reconnects \in 0 .. MaxReconnects
      /\ client.phase # "thrown" /\ client.phase \in Phase
  BY DEF Inv, TypeOK, EndpointDefined, Client
<1>1. CASE PreResolveCallback
  BY <1>1, PreResolveCallbackKeeps
<1>2. CASE ResolveCallback
  <2>1. pre' = pre
    BY <1>2 DEF ResolveCallback
  <2> QED BY <1>2, <2>1, ResolveCallbackKeeps DEF PruneStep
<1>3. CASE Connect
  <2>1. /\ client' = [client EXCEPT !.phase = "connected", !.reached = TRUE]
        /\ options' = options /\ list' = list /\ index' = index /\ pre' = pre
        /\ reconnects' = reconnects
    BY <1>3 DEF Connect
  <2>2. client' \in Client /\ client'.phase # "thrown"
    BY <1>0, <2>1 DEF Client, Phase
  <2> QED BY <2>1, <2>2 DEF Inv, TypeOK, EndpointDefined, OwnAddresses, PruneStep
<1>4. CASE ClientProtoTerminate
  <2>1. QueueRestart("ended") /\ UNCHANGED <<options, index, pre, reconnects>>
    BY <1>4 DEF ClientProtoTerminate
  <2>2. "ended" \in Phase /\ "ended" # "thrown"
    BY DEF Phase
  <2> QED BY <1>0, <2>1, <2>2, QueueRestartKeeps DEF PruneStep
<1>5. CASE Reconnect
  <2>1. /\ QueueRestart(client.phase) /\ UNCHANGED <<options, index, pre>>
        /\ reconnects' = reconnects + 1 /\ reconnects < MaxReconnects
    BY <1>5 DEF Reconnect
  <2>2. reconnects' \in 0 .. MaxReconnects
    BY <1>0, <2>1, BoundAssumption
  <2> QED BY <1>0, <2>1, <2>2, QueueRestartKeeps DEF PruneStep
<1>6. CASE RestartWaitCallback
  BY <1>6, NewClientKeeps DEF RestartWaitCallback, PruneStep
<1>7. CASE ServerPollCallback
  BY <1>7, NewClientKeeps DEF ServerPollCallback, PruneStep
<1>8. CASE UNCHANGED vars
  BY <1>8 DEF vars, Inv, TypeOK, EndpointDefined, OwnAddresses, PruneStep
<1> QED BY <1>1, <1>2, <1>3, <1>4, <1>5, <1>6, <1>7, <1>8 DEF Next

\* The invariant under all that follows.
THEOREM Invariant == Spec => []Inv
<1>1. Inv /\ [Next]_vars => Inv'
  BY InvNext
<1> QED BY <1>1, InvInit, PTL DEF Spec

\* Every variable of the remote list keeps its type; above all, the index always
\* names an entry, and there always is one, however the list is pruned.
THEOREM TypeCorrect == Spec => []TypeOK
<1>1. Inv => TypeOK
  BY DEF Inv
<1> QED BY <1>1, Invariant, PTL

\* A transport that asks for its endpoint gets one: nothing throws remote_list_error.
THEOREM AlwaysAnEndpoint == Spec => []EndpointDefined
<1>1. Inv => EndpointDefined
  BY DEF Inv
<1> QED BY <1>1, Invariant, PTL

\* An entry's addresses are of its own host, whichever resolvers are at work.
THEOREM AddressesAreOwn == Spec => []OwnAddresses
<1>1. Inv => OwnAddresses
  BY DEF Inv
<1> QED BY <1>1, Invariant, PTL

\* A pre-resolve leaves the entries with addresses and no others, or all if none has any.
THEOREM PrunesRight == Spec => PrunedRight
<1>1. Inv /\ [Next]_vars => PruneStep
  BY InvNext
<1>2. Inv /\ [Next]_vars =>
        [pre # 0 /\ pre' = 0 =>
         \/ \A i \in DOMAIN list' : ~Cached(list'[i]) /\ Len(list') = Len(list)
         \/ /\ \A i \in DOMAIN list' : Cached(list'[i])
            /\ \A i \in DOMAIN list : Cached(list[i]) =>
                 \E j \in DOMAIN list' : list'[j].name = list[i].name]_vars
  BY <1>1 DEF PruneStep, Pruned
<1> QED BY <1>2, Invariant, PTL DEF Spec, PrunedRight

=============================================================================
