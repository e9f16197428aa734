--------------------------- MODULE PluginListProofs ---------------------------
(***************************************************************************)
(* What the plugins of all lists hold on to, proved for any number of      *)
(* lists, plugins and segments, for every configuration string, and for    *)
(* whatever subset of the processes does not start or breaks on the way.   *)
(*                                                                         *)
(* The properties count places in lists; a removal moves all plugins       *)
(* behind it to other places.  The invariant therefore knows a plugin by   *)
(* its list and its name, and the last lemmas go from names to places.     *)
(* What is parsed out of a configuration does not matter to that: any name *)
(* with any options is added, or removed.                                  *)
(*                                                                         *)
(* That the parser finds the names and options that were written is proved *)
(* last, for configurations of any length: where each entry begins in the  *)
(* string, what the parser reads from there, and that the list is what the *)
(* entries before have made of it.                                         *)
(***************************************************************************)
EXTENDS PluginList, FiniteSetTheorems, FunctionTheorems, SequenceTheorems,
        WellFoundedInduction, TLAPS

-----------------------------------------------------------------------------
(* Lists of plugins. *)

IsPlugin(p) ==
  /\ p = [name |-> p.name, options |-> p.options, flags |-> p.flags,
          shm |-> p.shm, channel |-> p.channel, opened |-> p.opened]
  /\ p.name \in Installed
  /\ p.shm \in Segments \cup {NoSegment}
  /\ p.channel \in BOOLEAN /\ p.opened \in BOOLEAN

IsSequence(s) == Len(s) \in Nat /\ s = [i \in 1..Len(s) |-> s[i]]

(* No plugin is listed twice. *)
Distinct(s) == \A i, j \in 1..Len(s) : s[i].name = s[j].name => i = j

(* All plugins of a list that have a segment have the same. *)
OneSegment(s) ==
  \A i, j \in 1..Len(s) : s[i].shm # NoSegment /\ s[j].shm # NoSegment => s[i].shm = s[j].shm

(* A process is only started once there is a segment for it. *)
Reached(s) == \A i \in 1..Len(s) : s[i].channel => s[i].shm # NoSegment

IsList(s) ==
  /\ IsSequence(s) /\ \A i \in 1..Len(s) : IsPlugin(s[i])
  /\ Distinct(s) /\ OneSegment(s) /\ Reached(s)

(* The plugins of a list are at the places from 1 to its length. *)
LEMMA ListDomain ==
  ASSUME NEW s, IsList(s)
  PROVE  DOMAIN s = 1..Len(s) /\ ToSet(s) = {s[i] : i \in 1..Len(s)}
<1>1. DOMAIN s = 1..Len(s)
  <2>1. s = [i \in 1..Len(s) |-> s[i]]
    BY DEF IsList, IsSequence
  <2> QED
    BY <2>1
<1> QED
  BY <1>1 DEF ToSet

LEMMA PlaceFound ==
  ASSUME NEW s, NEW name, IsList(s), Has(s, name)
  PROVE  /\ Place(s, name) \in 1..Len(s)
         /\ s[Place(s, name)].name = name
         /\ \A i \in 1..Len(s) : s[i].name = name => i = Place(s, name)
<1>1. \E i \in DOMAIN s : s[i].name = name
  BY DEF Has
<1>2. Place(s, name) \in DOMAIN s /\ s[Place(s, name)].name = name
  BY <1>1 DEF Place
<1> QED
  BY <1>2, ListDomain DEF IsList, Distinct

(* Without removes the plugin of that name and leaves all others. *)
LEMMA WithoutIsList ==
  ASSUME NEW s, NEW name, IsList(s), Has(s, name)
  PROVE  /\ IsList(Without(s, name))
         /\ ToSet(Without(s, name)) = {p \in ToSet(s) : p.name # name}
<1> DEFINE k == Place(s, name)
           n == Len(s)
           w == [i \in 1..n - 1 |-> IF i < k THEN s[i] ELSE s[i + 1]]
<1>1. n \in Nat /\ s = [i \in 1..n |-> s[i]] /\ k \in 1..n
  BY PlaceFound DEF IsList, IsSequence
<1>2. s[k].name = name /\ \A i \in 1..n : s[i].name = name => i = k
  BY PlaceFound
<1> HIDE DEF k
<1>3. Without(s, name) = w
  <2> DEFINE S == {s[i] : i \in 1..n}
  <2>1. s \in Seq(S)
    <3>1. s \in [1..n -> S]
      BY <1>1
    <3> HIDE DEF S
    <3> QED
      BY <1>1, <3>1
  <2>2. Without(s, name) = SubSeq(s, 1, k - 1) \o SubSeq(s, k + 1, n)
    BY DEF Without, RemoveAt, k
  <2>3. 1 \in Int /\ k - 1 \in Int /\ k + 1 \in Int /\ n \in Int /\ k \in Int
    BY <1>1
  <2>4. 1 <= k /\ k <= n
    BY <1>1
  <2>5. /\ SubSeq(s, 1, k - 1) = [i \in 1..k - 1 |-> s[i]]
        /\ SubSeq(s, k + 1, n) = [i \in 1..n - k |-> s[i + k]]
    <3> HIDE DEF n, S
    <3> QED
      BY <2>1, <2>3, <2>4
  <2> DEFINE A == [i \in 1..k - 1 |-> s[i]]
             B == [i \in 1..n - k |-> s[i + k]]
  <2>6. /\ A \in Seq(S) /\ Len(A) = k - 1 /\ B \in Seq(S) /\ Len(B) = n - k
        /\ k - 1 \in Nat /\ n - k \in Nat
    <3>1. k - 1 \in Nat /\ n - k \in Nat
      BY <2>3, <2>4
    <3>2. A \in [1..k - 1 -> S] /\ B \in [1..n - k -> S]
      <4>1. \A i \in 1..k - 1 : i \in 1..n
        BY <2>3, <2>4
      <4>2. \A i \in 1..n - k : i + k \in 1..n
        BY <2>3, <2>4
      <4> HIDE DEF n
      <4> QED
        BY <4>1, <4>2
    <3> HIDE DEF A, B, S, n
    <3> QED
      BY <3>1, <3>2
  <2>7. /\ A \o B \in Seq(S) /\ Len(A \o B) = n - 1
        /\ \A i \in 1..n - 1 : (A \o B)[i] = IF i <= k - 1 THEN A[i] ELSE B[i - (k - 1)]
    <3> HIDE DEF A, B, S, n
    <3>1. /\ A \o B \in Seq(S) /\ Len(A \o B) = Len(A) + Len(B)
          /\ \A i \in 1..Len(A) + Len(B) :
               (A \o B)[i] = IF i <= Len(A) THEN A[i] ELSE B[i - Len(A)]
      BY <2>6, ConcatProperties
    <3>2. Len(A) + Len(B) = n - 1 /\ Len(A) = k - 1
      BY <2>3, <2>6
    <3> QED
      BY <3>1, <3>2
  <2>8. \A i \in 1..n - 1 : (IF i <= k - 1 THEN A[i] ELSE B[i - (k - 1)]) = w[i]
    <3> HIDE DEF n, S
    <3> QED
      BY <2>3, <2>4
  <2>9. w = [i \in 1..n - 1 |-> (A \o B)[i]]
    BY <2>7, <2>8
  <2>10. A \o B = [i \in 1..n - 1 |-> (A \o B)[i]]
    <3> HIDE DEF A, B, n, S
    <3>1. \A c \in Seq(S) : c = [i \in 1..Len(c) |-> c[i]]
      OBVIOUS
    <3> QED
      BY <2>7, <3>1, Zenon
  <2> QED
    BY <2>2, <2>5, <2>9, <2>10
<1>4. Len(w) = n - 1
  BY <1>1
<1> DEFINE to == [i \in 1..n - 1 |-> IF i < k THEN i ELSE i + 1]
<1>5. /\ to \in [1..n - 1 -> (1..n) \ {k}]
      /\ \A i, j \in 1..n - 1 : to[i] = to[j] => i = j
      /\ \A j \in (1..n) \ {k} : \E i \in 1..n - 1 : to[i] = j
  <2>1. \A j \in (1..n) \ {k} : (IF j < k THEN j ELSE j - 1) \in 1..n - 1
    BY <1>1
  <2>2. \A j \in (1..n) \ {k} : to[IF j < k THEN j ELSE j - 1] = j
    BY <1>1, <2>1
  <2>3. /\ to \in [1..n - 1 -> (1..n) \ {k}]
        /\ \A i, j \in 1..n - 1 : to[i] = to[j] => i = j
    BY <1>1
  <2> QED
    BY <2>1, <2>2, <2>3
<1>6. \A i \in 1..n - 1 : w[i] = s[to[i]]
  BY <1>1
<1> HIDE DEF w, to, n
<1>7. IsList(w)
  <2>1. IsSequence(w)
    BY <1>1, <1>4 DEF w, IsSequence
  <2>2. \A i \in 1..Len(w) : IsPlugin(w[i])
    BY <1>4, <1>5, <1>6 DEF IsList, n
  <2>3. Distinct(w)
    <3>1. \A i, j \in 1..n : s[i].name = s[j].name => i = j
      BY DEF IsList, Distinct, n
    <3>2. \A i, j \in 1..n - 1 : w[i].name = w[j].name => to[i] = to[j]
      BY <1>5, <1>6, <3>1
    <3> QED
      BY <1>4, <1>5, <3>2 DEF Distinct
  <2>4. OneSegment(w) /\ Reached(w)
    <3>1. /\ \A i, j \in 1..n :
               s[i].shm # NoSegment /\ s[j].shm # NoSegment => s[i].shm = s[j].shm
          /\ \A i \in 1..n : s[i].channel => s[i].shm # NoSegment
      BY DEF IsList, OneSegment, Reached, n
    <3>2. \A i \in 1..n - 1 : to[i] \in 1..n /\ w[i] = s[to[i]]
      BY <1>5, <1>6
    <3> QED
      BY <1>4, <3>1, <3>2 DEF OneSegment, Reached
  <2> QED
    BY <2>1, <2>2, <2>3, <2>4 DEF IsList
<1>8. ToSet(w) = {p \in ToSet(s) : p.name # name}
  <2>1. ToSet(w) = {w[i] : i \in 1..n - 1} /\ ToSet(s) = {s[i] : i \in 1..n}
    BY <1>4, <1>7, ListDomain DEF n
  <2>2. ASSUME NEW i \in 1..n - 1
        PROVE  w[i] \in ToSet(s) /\ w[i].name # name
    BY <1>2, <1>5, <1>6, <2>1
  <2>3. ASSUME NEW j \in 1..n, s[j].name # name
        PROVE  s[j] \in ToSet(w)
    BY <1>2, <1>5, <1>6, <2>1, <2>3
  <2> QED
    BY <2>1, <2>2, <2>3
<1> QED
  BY <1>3, <1>7, <1>8

LEMMA NewIsPlugin ==
  ASSUME NEW name \in Installed, NEW options, NEW flags
  PROVE  LET p == NewPlugin(name, options, flags)
         IN  IsPlugin(p) /\ p.name = name /\ p.shm = NoSegment /\ ~p.channel /\ ~p.opened
BY DEF NewPlugin, IsPlugin

(* A list that is added to has one new plugin more, or is as it was. *)
LEMMA AddIsList ==
  ASSUME NEW s, NEW name, NEW options, NEW flags, IsList(s)
  PROVE  /\ IsList(PluginAdd(s, name, options, flags))
         /\ \/ PluginAdd(s, name, options, flags) = s
            \/ /\ name \in Installed
               /\ \A p \in ToSet(s) : p.name # name
               /\ ToSet(PluginAdd(s, name, options, flags)) =
                    ToSet(s) \cup {NewPlugin(name, options, flags)}
<1> SUFFICES ASSUME ~Has(s, name), name \in Installed
             PROVE  /\ IsList(PluginAdd(s, name, options, flags))
                    /\ \A p \in ToSet(s) : p.name # name
                    /\ ToSet(PluginAdd(s, name, options, flags)) =
                         ToSet(s) \cup {NewPlugin(name, options, flags)}
  BY DEF PluginAdd
<1> DEFINE new == NewPlugin(name, options, flags)
           n == Len(s)
           a == [i \in 1..n + 1 |-> IF i = 1 THEN new ELSE s[i - 1]]
<1>1. n \in Nat /\ s = [i \in 1..n |-> s[i]]
  BY DEF IsList, IsSequence
<1>2. IsPlugin(new) /\ new.name = name /\ new.shm = NoSegment /\ ~new.channel /\ ~new.opened
  BY NewIsPlugin
<1>3. \A i \in 1..n : s[i].name # name
  BY ListDomain DEF Has
<1> HIDE DEF new
<1>4. PluginAdd(s, name, options, flags) = a
  <2>1. PluginAdd(s, name, options, flags) = <<new>> \o s
    BY DEF PluginAdd, new
  <2>2. s \in Seq({s[i] : i \in 1..n} \cup {new}) /\ <<new>> \in Seq({s[i] : i \in 1..n} \cup {new})
    <3> DEFINE S == {s[i] : i \in 1..n} \cup {new}
    <3>1. s \in [1..n -> S] /\ new \in S
      BY <1>1
    <3> HIDE DEF S
    <3>2. s \in Seq(S) /\ <<new>> \in Seq(S)
      BY <1>1, <3>1
    <3> QED
      BY <3>2 DEF S
  <2> QED
    BY <1>1, <2>1, <2>2
<1>5. Len(a) = n + 1
  BY <1>1
<1>6. /\ a[1] = new
      /\ \A i \in 2..n + 1 : a[i] = s[i - 1] /\ i - 1 \in 1..n
      /\ \A i \in 1..n : a[i + 1] = s[i] /\ i + 1 \in 1..n + 1
      /\ \A i \in 1..n + 1 : i = 1 \/ i \in 2..n + 1
  BY <1>1
<1>7. IsSequence(a)
  BY <1>1, <1>5 DEF IsSequence
<1> HIDE DEF a, n
<1>8. IsList(a)
  <2>1. \A i \in 1..Len(a) : IsPlugin(a[i])
    BY <1>2, <1>5, <1>6 DEF IsList, n
  <2>2. Distinct(a)
    <3> SUFFICES ASSUME NEW i \in 1..n + 1, NEW j \in 1..n + 1, a[i].name = a[j].name
                 PROVE  i = j
      BY <1>5 DEF Distinct
    <3>1. CASE i = 1 /\ j = 1
      BY <3>1
    <3>2. CASE i = 1 /\ j \in 2..n + 1
      BY <1>2, <1>3, <1>6, <3>2
    <3>3. CASE j = 1 /\ i \in 2..n + 1
      BY <1>2, <1>3, <1>6, <3>3
    <3>4. CASE i \in 2..n + 1 /\ j \in 2..n + 1
      <4>1. \A g, h \in 1..n : s[g].name = s[h].name => g = h
        BY DEF IsList, Distinct, n
      <4>2. i - 1 \in 1..n /\ j - 1 \in 1..n /\ s[i - 1].name = s[j - 1].name
        BY <1>6, <3>4
      <4>3. i - 1 = j - 1
        BY <4>1, <4>2
      <4> QED
        BY <4>3, <3>4, <1>1
    <3> QED
      BY <1>6, <3>1, <3>2, <3>3, <3>4
  <2>3. OneSegment(a)
    <3>1. \A i \in 1..n + 1 : a[i].shm # NoSegment => a[i] = s[i - 1] /\ i - 1 \in 1..n
      BY <1>2, <1>6
    <3>2. \A i, j \in 1..n : s[i].shm # NoSegment /\ s[j].shm # NoSegment => s[i].shm = s[j].shm
      BY DEF IsList, OneSegment, n
    <3> QED
      BY <1>5, <3>1, <3>2 DEF OneSegment
  <2>4. Reached(a)
    BY <1>2, <1>5, <1>6 DEF IsList, Reached, n
  <2> QED
    BY <1>7, <2>1, <2>2, <2>3, <2>4 DEF IsList
<1>9. ToSet(a) = ToSet(s) \cup {new}
  <2>1. ToSet(a) = {a[i] : i \in 1..n + 1} /\ ToSet(s) = {s[i] : i \in 1..n}
    BY <1>5, <1>8, ListDomain DEF n
  <2>2. \A i \in 1..n + 1 : a[i] \in ToSet(s) \cup {new}
    BY <1>6, <2>1
  <2>3. \A i \in 1..n : s[i] \in ToSet(a)
    BY <1>6, <2>1
  <2>4. new \in ToSet(a)
    BY <1>1, <1>6, <2>1
  <2> QED
    BY <2>1, <2>2, <2>3, <2>4
<1>10. \A p \in ToSet(s) : p.name # name
  BY <1>3, ListDomain DEF n
<1> QED
  BY <1>4, <1>8, <1>9, <1>10 DEF new

(* The plugins that are installed, none of them in use. *)
LEMMA DefaultsAreList ==
  ASSUME NEW order \in SetToSeqs(Installed), NEW flags
  PROVE  LET d == [i \in DOMAIN order |-> NewPlugin(order[i], NoOptions, flags)]
         IN  /\ IsList(d)
             /\ \A p \in ToSet(d) : p.shm = NoSegment /\ ~p.channel /\ ~p.opened
<1> DEFINE n == Cardinality(Installed)
           d == [i \in DOMAIN order |-> NewPlugin(order[i], NoOptions, flags)]
<1>1. n \in Nat
  BY InstalledAssumption, FS_CardinalityType
<1>2. order \in [1..n -> Installed] /\ \A i, j \in 1..n : i # j => order[i] # order[j]
  BY DEF SetToSeqs
<1> HIDE DEF n
<1>3. d = [i \in 1..n |-> NewPlugin(order[i], NoOptions, flags)] /\ Len(d) = n
  BY <1>1, <1>2
<1>4. \A i \in 1..n : /\ IsPlugin(d[i]) /\ d[i].name = order[i]
                      /\ d[i].shm = NoSegment /\ ~d[i].channel /\ ~d[i].opened
  BY <1>2, NewIsPlugin
<1>7. Len(d) = n
  BY <1>3
<1> HIDE DEF d
<1>5. IsList(d)
  <2>1. IsSequence(d)
    BY <1>1, <1>3 DEF IsSequence
  <2>2. Distinct(d)
    <3>1. \A i, j \in 1..n : d[i].name = d[j].name => order[i] = order[j]
      BY <1>4
    <3> QED
      BY <1>2, <1>7, <3>1 DEF Distinct
  <2>3. OneSegment(d) /\ Reached(d)
    BY <1>3, <1>4 DEF OneSegment, Reached
  <2> QED
    BY <1>3, <1>4, <2>1, <2>2, <2>3 DEF IsList
<1>6. \A p \in ToSet(d) : p.shm = NoSegment /\ ~p.channel /\ ~p.opened
  <2>1. ToSet(d) = {d[i] : i \in 1..n}
    BY <1>5, <1>7, ListDomain
  <2> QED
    BY <1>4, <2>1
<1> QED
  BY <1>5, <1>6 DEF d

(* A set of numbers has a smallest one. *)
LEMMA Smallest ==
  ASSUME NEW T, T \subseteq Nat, T # {}
  PROVE  \E i \in T : \A j \in T : i <= j
<1> DEFINE Less == {ss \in Nat \X Nat : ss[1] < ss[2]}
<1>1. IsWellFoundedOn(Less, Nat)
  BY NatLessThanWellFounded, Zenon DEF OpToRel
<1>2. \A i, j \in T : <<j, i>> \in Less <=> j < i
  OBVIOUS
<1> HIDE DEF Less
<1>3. \E i \in T : \A j \in T : ~(<<j, i>> \in Less)
  BY <1>1, WFMin
<1>4. \A i, j \in T : ~(j < i) => i <= j
  OBVIOUS
<1> QED
  BY <1>2, <1>3, <1>4

(* The segment of the first plugin that has one is that of all. *)
LEMMA SharedByAll ==
  ASSUME NEW s, IsList(s)
  PROVE  /\ Shared(s) \in Segments \cup {NoSegment}
         /\ \A p \in ToSet(s) : p.shm \in {Shared(s), NoSegment}
         /\ Shared(s) # NoSegment => \E p \in ToSet(s) : p.shm = Shared(s)
<1> DEFINE having == {i \in DOMAIN s : s[i].shm # NoSegment}
           first == CHOOSE i \in having : \A j \in having : i <= j
<1>1. DOMAIN s = 1..Len(s) /\ ToSet(s) = {s[i] : i \in 1..Len(s)} /\ Len(s) \in Nat
  BY ListDomain DEF IsList, IsSequence
<1>2. CASE having = {}
  <2>1. Shared(s) = NoSegment
    BY <1>2 DEF Shared
  <2> QED
    BY <1>1, <1>2, <2>1
<1>3. CASE having # {}
  <2>1. having \subseteq Nat
    BY <1>1
  <2>2. \E i \in having : \A j \in having : i <= j
    <3> HIDE DEF having
    <3> QED
      BY <1>3, <2>1, Smallest
  <2>3. first \in having
    BY <2>2
  <2>4. Shared(s) = s[first].shm
    BY <1>3 DEF Shared
  <2> HIDE DEF first
  <2>5. \A i \in 1..Len(s) : s[i].shm \in {NoSegment, s[first].shm}
    BY <2>3, <1>1 DEF IsList, OneSegment
  <2>6. s[first].shm \in Segments /\ s[first] \in ToSet(s)
    BY <2>3, <1>1 DEF IsList, IsPlugin
  <2> QED
    BY <1>1, <2>4, <2>5, <2>6
<1> QED
  BY <1>2, <1>3

-----------------------------------------------------------------------------
(* What the plugins of a list have in common. *)

LEMMA Members ==
  ASSUME NEW s, IsList(s)
  PROVE  /\ \A p \in ToSet(s) : IsPlugin(p) /\ (p.channel => p.shm # NoSegment)
         /\ \A p, q \in ToSet(s) : p.name = q.name => p = q
<1>1. DOMAIN s = 1..Len(s) /\ ToSet(s) = {s[i] : i \in 1..Len(s)}
  BY ListDomain
<1>2. \A i \in 1..Len(s) : IsPlugin(s[i]) /\ (s[i].channel => s[i].shm # NoSegment)
  BY DEF IsList, Reached
<1>3. \A i, j \in 1..Len(s) : s[i].name = s[j].name => s[i] = s[j]
  BY DEF IsList, Distinct
<1> QED
  BY <1>1, <1>2, <1>3

LEMMA EmptyIsList == IsList(<<>>) /\ ToSet(<<>>) = {}
<1>1. Len(<<>>) = 0 /\ <<>> = [i \in 1..0 |-> <<>>[i]]
  OBVIOUS
<1>2. IsList(<<>>)
  BY <1>1 DEF IsList, IsSequence, Distinct, OneSegment, Reached
<1> QED
  BY <1>1, <1>2, ListDomain

-----------------------------------------------------------------------------
(* The inductive invariant.  A plugin that is listed is known by its list  *)
(* and its name, which stay the same when its place changes.               *)

(* Who refers to a segment, *)
Holders(lists, s) ==
  {x \in Lists \X Installed : \E p \in ToSet(lists[x[1]]) : p.name = x[2] /\ p.shm = s}

(* has a process, *)
Running(lists) ==
  {x \in Lists \X Installed : \E p \in ToSet(lists[x[1]]) : p.name = x[2] /\ p.channel}

(* and the lists in which a library is in use. *)
Openers(lists, name) ==
  {l \in Lists : \E p \in ToSet(lists[l]) : p.name = name /\ p.opened}

ListsTyped ==
  /\ list = [l \in Lists |-> list[l]]
  /\ \A l \in Lists : IsList(list[l])

ParserTyped ==
  \/ parser = Idle
  \/ /\ parser = [list |-> parser.list, pos |-> parser.pos, last |-> parser.last,
                  flags |-> parser.flags]
     /\ parser.list \in Lists

SegmentsHeld ==
  /\ rc = [s \in DOMAIN rc |-> rc[s]] /\ DOMAIN rc \subseteq Segments
  /\ \A l \in Lists : \A p \in ToSet(list[l]) : p.shm \in DOMAIN rc \cup {NoSegment}
  /\ \A s \in DOMAIN rc : rc[s] \in Nat \ {0} /\ rc[s] = Cardinality(Holders(list, s))

ProcessesRun == processes = Running(list)

LibrariesUsed ==
  /\ handles \in [Installed -> Nat]
  /\ \A name \in Installed : Cardinality(Openers(list, name)) <= handles[name]

Inv == ListsTyped /\ ParserTyped /\ SegmentsHeld /\ ProcessesRun /\ LibrariesUsed

LEMMA Finite ==
  ASSUME NEW lists
  PROVE  /\ \A s : IsFiniteSet(Holders(lists, s))
         /\ \A name : IsFiniteSet(Openers(lists, name))
<1>1. IsFiniteSet(Lists \X Installed)
  BY ListsAssumption, InstalledAssumption, FS_Product
<1>2. \A s : Holders(lists, s) \in SUBSET (Lists \X Installed)
  BY DEF Holders
<1>3. \A name : Openers(lists, name) \in SUBSET Lists
  BY DEF Openers
<1> QED
  BY <1>1, <1>2, <1>3, ListsAssumption, FS_Subset

(* Both sets consist of pairs, and what is in them is said by a pair. *)
LEMMA Pairs ==
  ASSUME NEW lists, NEW k \in Lists, NEW name \in Installed
  PROVE  /\ \A s : <<k, name>> \in Holders(lists, s) <=>
                 \E p \in ToSet(lists[k]) : p.name = name /\ p.shm = s
         /\ <<k, name>> \in Running(lists) <=>
                 \E p \in ToSet(lists[k]) : p.name = name /\ p.channel
BY DEF Holders, Running

LEMMA SamePairs ==
  ASSUME NEW S, NEW T, S \subseteq Lists \X Installed, T \subseteq Lists \X Installed,
         \A k \in Lists, name \in Installed : <<k, name>> \in S <=> <<k, name>> \in T
  PROVE  S = T
OBVIOUS

LEMMA InvInit == Init => Inv
<1> SUFFICES ASSUME Init PROVE Inv
  OBVIOUS
<1>1. \A l \in Lists : list[l] = <<>>
  BY DEF Init
<1>2. ListsTyped
  BY <1>1, EmptyIsList DEF Init, ListsTyped
<1>3. ParserTyped
  BY DEF Init, ParserTyped
<1>4. \A l \in Lists : ToSet(list[l]) = {}
  BY <1>1, EmptyIsList
<1>5. SegmentsHeld
  <2>1. DOMAIN rc = {} /\ rc = [s \in {} |-> rc[s]]
    BY DEF Init
  <2> QED
    BY <1>4, <2>1 DEF SegmentsHeld
<1>6. ProcessesRun
  BY <1>4 DEF Init, ProcessesRun, Running
<1>7. LibrariesUsed
  <2>1. \A name : Openers(list, name) = {}
    BY <1>4 DEF Openers
  <2> QED
    BY <2>1, FS_EmptySet DEF Init, LibrariesUsed
<1> QED
  BY <1>2, <1>3, <1>5, <1>6, <1>7 DEF Inv

(* Adding plugins that are not in use yet takes and gives up nothing. *)
LEMMA NothingTaken ==
  ASSUME Inv, NEW l \in Lists, NEW new, IsList(new),
         list' = [list EXCEPT ![l] = new],
         \A p \in ToSet(list[l]) : p \in ToSet(new),
         \A p \in ToSet(new) :
           p \in ToSet(list[l]) \/ (p.shm = NoSegment /\ ~p.channel /\ ~p.opened),
         UNCHANGED <<rc, processes, handles>>
  PROVE  ListsTyped' /\ SegmentsHeld' /\ ProcessesRun' /\ LibrariesUsed'
<1>1. /\ list'[l] = new
      /\ \A k \in Lists : k # l => list'[k] = list[k]
      /\ list' = [k \in Lists |-> list'[k]]
  BY DEF Inv, ListsTyped
<1>2. ListsTyped'
  BY <1>1 DEF Inv, ListsTyped
<1>3. \A k \in Lists : /\ \A p \in ToSet(list[k]) : p \in ToSet(list'[k])
                       /\ \A p \in ToSet(list'[k]) :
                            p \in ToSet(list[k])
                              \/ (p.shm = NoSegment /\ ~p.channel /\ ~p.opened)
  BY <1>1
<1>4. \A s : s # NoSegment => Holders(list', s) = Holders(list, s)
  BY <1>3 DEF Holders
<1>5. Running(list') = Running(list)
  BY <1>3 DEF Running
<1>6. \A name : Openers(list', name) = Openers(list, name)
  BY <1>3 DEF Openers
<1>7. SegmentsHeld'
  <2>1. rc' = rc /\ NoSegment \notin DOMAIN rc
    BY SegmentsAssumption DEF Inv, SegmentsHeld
  <2> QED
    BY <1>3, <1>4, <2>1 DEF Inv, SegmentsHeld
<1>8. ProcessesRun' /\ LibrariesUsed'
  BY <1>5, <1>6 DEF Inv, ProcessesRun, LibrariesUsed
<1> QED
  BY <1>2, <1>7, <1>8

(* A plugin that is removed takes with it what it held, and no more. *)
LEMMA RemoveKeeps ==
  ASSUME Inv, NEW l \in Lists, NEW name, PluginRemove(l, name)
  PROVE  ListsTyped' /\ SegmentsHeld' /\ ProcessesRun' /\ LibrariesUsed'
<1>1. CASE ~Has(list[l], name)
  <2>1. UNCHANGED <<list, rc, processes, handles>>
    BY <1>1 DEF PluginRemove
  <2> QED
    BY <2>1 DEF Inv, ListsTyped, SegmentsHeld, ProcessesRun, LibrariesUsed
<1>2. CASE Has(list[l], name)
  <2> DEFINE old == list[l]
             new == Without(old, name)
             plugin == old[Place(old, name)]
  <2>1. /\ list' = [list EXCEPT ![l] = new]
        /\ processes' = processes \ {<<l, name>>}
        /\ rc' = Unreferenced(rc, plugin.shm)
        /\ handles' = IF plugin.opened THEN [handles EXCEPT ![name] = @ - 1] ELSE handles
    BY <1>2 DEF PluginRemove
  <2>2. IsList(old)
    BY DEF Inv, ListsTyped
  <2>3. IsList(new) /\ ToSet(new) = {p \in ToSet(old) : p.name # name}
    BY <1>2, <2>2, WithoutIsList
  <2>4. /\ plugin \in ToSet(old) /\ plugin.name = name
        /\ \A p \in ToSet(old) : p.name = name => p = plugin
    BY <1>2, <2>2, PlaceFound, ListDomain, Members
  <2>5. IsPlugin(plugin) /\ name \in Installed /\ plugin.shm \in DOMAIN rc \cup {NoSegment}
    BY <2>2, <2>4, Members DEF IsPlugin, Inv, SegmentsHeld
  <2> HIDE DEF new, plugin
  <2>6. /\ list'[l] = new
        /\ \A k \in Lists : k # l => list'[k] = list[k]
        /\ list' = [k \in Lists |-> list'[k]]
    BY <2>1 DEF Inv, ListsTyped
  <2>7. ListsTyped'
    BY <2>3, <2>6 DEF Inv, ListsTyped
  <2> HIDE DEF old
  <2>8. \A k \in Lists : ToSet(list'[k]) = IF k = l THEN {p \in ToSet(old) : p.name # name}
                                           ELSE ToSet(list[k])
    BY <2>3, <2>6
  <2>9. \A s : Holders(list', s) = IF s = plugin.shm THEN Holders(list, s) \ {<<l, name>>}
                                   ELSE Holders(list, s)
    <3> TAKE s
    <3> DEFINE T == IF s = plugin.shm THEN Holders(list, s) \ {<<l, name>>} ELSE Holders(list, s)
    <3>1. Holders(list', s) \subseteq Lists \X Installed /\ T \subseteq Lists \X Installed
      BY DEF Holders
    <3>2. ASSUME NEW k \in Lists, NEW n \in Installed
          PROVE  <<k, n>> \in Holders(list', s) <=> <<k, n>> \in T
      <4> DEFINE Held(p) == p.name = n /\ p.shm = s
      <4>4. /\ <<k, n>> \in Holders(list', s) <=> \E p \in ToSet(list'[k]) : Held(p)
            /\ <<k, n>> \in Holders(list, s) <=> \E p \in ToSet(list[k]) : Held(p)
        BY Pairs
      <4>1. CASE k # l
        <5>1. ToSet(list'[k]) = ToSet(list[k]) /\ <<k, n>> # <<l, name>>
          BY <2>8, <4>1
        <5> QED
          BY <4>4, <5>1
      <4>2. CASE k = l /\ n # name
        <5>1. ToSet(list'[k]) = {p \in ToSet(list[k]) : p.name # name} /\ <<k, n>> # <<l, name>>
          BY <2>8, <4>2 DEF old
        <5> QED
          BY <4>2, <4>4, <5>1
      <4>3. CASE k = l /\ n = name
        <5>1. ToSet(list'[k]) = {p \in ToSet(list[k]) : p.name # name} /\ <<k, n>> = <<l, name>>
          BY <2>8, <4>3 DEF old
        <5>2. <<k, n>> \notin Holders(list', s)
          BY <4>3, <4>4, <5>1
        <5>3. s # plugin.shm => <<k, n>> \notin Holders(list, s)
          BY <2>4, <4>3, <4>4 DEF old
        <5> QED
          BY <5>1, <5>2, <5>3
      <4> QED
        BY <4>1, <4>2, <4>3
    <3> HIDE DEF T
    <3>3. Holders(list', s) = T
      BY <3>1, <3>2, SamePairs
    <3> QED
      BY <3>3 DEF T
  <2>10. <<l, name>> \in Holders(list, plugin.shm)
    BY <2>4, <2>5 DEF Holders, old
  <2>11. \A t : Openers(list', t) = IF t = name THEN Openers(list, t) \ {l}
                                    ELSE Openers(list, t)
    BY <2>4, <2>8 DEF Openers, old
  <2>12. l \in Openers(list, name) <=> plugin.opened
    BY <2>4 DEF Openers, old
  <2>13. SegmentsHeld'
    <3>1. CASE plugin.shm = NoSegment
      <4>1. rc' = rc /\ NoSegment \notin DOMAIN rc
        BY <2>1, <3>1, SegmentsAssumption DEF Unreferenced, Inv, SegmentsHeld
      <4>2. \A s \in DOMAIN rc : Holders(list', s) = Holders(list, s)
        BY <2>9, <3>1, <4>1
      <4>3. \A k \in Lists : \A p \in ToSet(list'[k]) : p.shm \in DOMAIN rc \cup {NoSegment}
        BY <2>8 DEF Inv, SegmentsHeld, old
      <4> QED
        BY <4>1, <4>2, <4>3 DEF Inv, SegmentsHeld
    <3>2. CASE plugin.shm # NoSegment
      <4> DEFINE g == plugin.shm
      <4>1. g \in DOMAIN rc /\ rc[g] \in Nat \ {0} /\ rc[g] = Cardinality(Holders(list, g))
        BY <2>5, <3>2 DEF Inv, SegmentsHeld
      <4>2. Cardinality(Holders(list', g)) = rc[g] - 1
        BY <2>9, <2>10, <4>1, Finite, FS_RemoveElement
      <4>3. CASE rc[g] = 1
        <5>1. rc' = [s \in DOMAIN rc \ {g} |-> rc[s]]
          BY <2>1, <3>2, <4>3 DEF Unreferenced
        <5>2. Holders(list', g) = {}
          BY <4>2, <4>3, Finite, FS_EmptySet
        <5>3. \A k \in Lists : \A p \in ToSet(list'[k]) :
                 p.shm \in DOMAIN rc \cup {NoSegment} /\ p.shm # g
          <6> TAKE k \in Lists
          <6> TAKE p \in ToSet(list'[k])
          <6>1. IsPlugin(p)
            BY <2>7, Members DEF ListsTyped
          <6>2. p.shm # g
            <7>1. p.name \in Installed
              BY <6>1 DEF IsPlugin
            <7>2. <<k, p.name>> \notin Holders(list', g)
              BY <5>2
            <7> HIDE DEF g
            <7> QED
              BY <7>1, <7>2, Pairs
          <6>3. p \in ToSet(list[k])
            BY <2>8 DEF old
          <6> QED
            BY <6>2, <6>3 DEF Inv, SegmentsHeld
        <5>4. \A s \in DOMAIN rc \ {g} : Holders(list', s) = Holders(list, s)
          BY <2>9
        <5>5. /\ DOMAIN rc' = DOMAIN rc \ {g}
              /\ \A s \in DOMAIN rc \ {g} : rc'[s] = rc[s]
              /\ rc' = [s \in DOMAIN rc' |-> rc'[s]]
          BY <5>1
        <5> HIDE DEF g
        <5> QED
          BY <5>3, <5>4, <5>5 DEF Inv, SegmentsHeld
      <4>4. CASE rc[g] # 1
        <5>1. rc' = [rc EXCEPT ![g] = @ - 1]
          BY <2>1, <3>2, <4>4 DEF Unreferenced
        <5>2. /\ DOMAIN rc' = DOMAIN rc /\ rc' = [s \in DOMAIN rc' |-> rc'[s]]
              /\ rc'[g] = rc[g] - 1 /\ \A s \in DOMAIN rc \ {g} : rc'[s] = rc[s]
          BY <4>1, <5>1 DEF Inv, SegmentsHeld
        <5>3. rc'[g] \in Nat \ {0} /\ rc'[g] = Cardinality(Holders(list', g))
          BY <4>1, <4>2, <4>4, <5>2
        <5>4. \A s \in DOMAIN rc \ {g} : Holders(list', s) = Holders(list, s)
          BY <2>9
        <5>5. \A k \in Lists : \A p \in ToSet(list'[k]) : p.shm \in DOMAIN rc \cup {NoSegment}
          BY <2>8 DEF Inv, SegmentsHeld, old
        <5> HIDE DEF g
        <5> QED
          BY <5>2, <5>3, <5>4, <5>5 DEF Inv, SegmentsHeld
      <4> QED
        BY <4>3, <4>4
    <3> QED
      BY <3>1, <3>2
  <2>14. ProcessesRun'
    <3>1. ASSUME NEW k \in Lists, NEW n \in Installed
          PROVE  <<k, n>> \in Running(list') <=> <<k, n>> \in Running(list) \ {<<l, name>>}
      <4>4. /\ <<k, n>> \in Running(list') <=>
                  \E p \in ToSet(list'[k]) : p.name = n /\ p.channel
            /\ <<k, n>> \in Running(list) <=>
                  \E p \in ToSet(list[k]) : p.name = n /\ p.channel
        BY Pairs
      <4>1. CASE k # l
        <5>1. ToSet(list'[k]) = ToSet(list[k]) /\ <<k, n>> # <<l, name>>
          BY <2>8, <4>1
        <5> QED
          BY <4>4, <5>1
      <4>2. CASE k = l /\ n # name
        <5>1. ToSet(list'[k]) = {p \in ToSet(list[k]) : p.name # name} /\ <<k, n>> # <<l, name>>
          BY <2>8, <4>2 DEF old
        <5> QED
          BY <4>2, <4>4, <5>1
      <4>3. CASE k = l /\ n = name
        <5>1. ToSet(list'[k]) = {p \in ToSet(list[k]) : p.name # name} /\ <<k, n>> = <<l, name>>
          BY <2>8, <4>3 DEF old
        <5> QED
          BY <4>3, <4>4, <5>1
      <4> QED
        BY <4>1, <4>2, <4>3
    <3>2. Running(list') \subseteq Lists \X Installed /\ Running(list) \subseteq Lists \X Installed
      BY DEF Running
    <3>3. Running(list') = Running(list) \ {<<l, name>>}
      BY <3>1, <3>2, SamePairs
    <3> QED
      BY <2>1, <3>3 DEF Inv, ProcessesRun
  <2>15. LibrariesUsed'
    <3>1. handles \in [Installed -> Nat]
          /\ \A t \in Installed : Cardinality(Openers(list, t)) <= handles[t]
      BY DEF Inv, LibrariesUsed
    <3>2. \A t : Cardinality(Openers(list, t)) \in Nat
      BY Finite, FS_CardinalityType
    <3>3. Cardinality(Openers(list', name)) =
            IF plugin.opened THEN Cardinality(Openers(list, name)) - 1
            ELSE Cardinality(Openers(list, name))
      BY <2>11, <2>12, Finite, FS_RemoveElement
    <3>4. CASE plugin.opened
      <4>1. Cardinality(Openers(list, name)) # 0
        BY <2>12, <3>4, Finite, FS_EmptySet
      <4>2. handles' = [handles EXCEPT ![name] = @ - 1]
        BY <2>1, <3>4
      <4>3. handles[name] \in Nat /\ handles[name] - 1 \in Nat
        BY <2>5, <3>1, <3>2, <4>1
      <4>4. handles' \in [Installed -> Nat]
        BY <2>5, <3>1, <4>2, <4>3
      <4>5. \A t \in Installed : Cardinality(Openers(list', t)) <= handles'[t]
        BY <2>5, <2>11, <3>1, <3>2, <3>3, <3>4, <4>2, <4>3
      <4> QED
        BY <4>4, <4>5 DEF LibrariesUsed
    <3>5. CASE ~plugin.opened
      <4>1. handles' = handles
        BY <2>1, <3>5
      <4>2. \A t \in Installed : Cardinality(Openers(list', t)) = Cardinality(Openers(list, t))
        BY <2>11, <3>3, <3>5
      <4> QED
        BY <3>1, <4>1, <4>2 DEF LibrariesUsed
    <3> QED
      BY <3>4, <3>5
  <2> QED
    BY <2>7, <2>13, <2>14, <2>15
<1> QED
  BY <1>1, <1>2

-----------------------------------------------------------------------------
(* EXTRACTOR_extract. *)

(* One plugin. *)
LEMMA EquippedPlugin ==
  ASSUME NEW p, IsPlugin(p), NEW segment \in Segments \cup {NoSegment},
         NEW started \in BOOLEAN, p.channel => p.shm # NoSegment,
         OutOfProcess(p) => segment # NoSegment,
         p.shm \in {segment, NoSegment}
  PROVE  LET q == Equipped(p, segment, started)
         IN  /\ IsPlugin(q) /\ q.name = p.name /\ q.opened = p.opened /\ q.flags = p.flags
             /\ q.shm \in {p.shm, segment} /\ (q.channel => q.shm # NoSegment)
             /\ p.shm = segment => q.shm = segment
             /\ OutOfProcess(p) => q.shm = segment
<1>1. CASE ~OutOfProcess(p) \/ p.channel
  <2>1. Equipped(p, segment, started) = p
    BY <1>1 DEF Equipped
  <2> QED
    BY <2>1, <1>1
<1>2. CASE OutOfProcess(p) /\ ~p.channel
  <2> DEFINE q == Equipped(p, segment, started)
  <2>1. q = [p EXCEPT !.shm = segment, !.channel = started]
    <3>1. (IF p.shm = NoSegment THEN segment ELSE p.shm) = segment
      OBVIOUS
    <3>2. q = [p EXCEPT !.shm = IF @ = NoSegment THEN segment ELSE @, !.channel = started]
      BY <1>2 DEF Equipped
    <3> QED
      BY <3>1, <3>2 DEF IsPlugin
  <2>2. q = [name |-> p.name, options |-> p.options, flags |-> p.flags,
             shm |-> segment, channel |-> started, opened |-> p.opened]
    BY <2>1 DEF IsPlugin
  <2> HIDE DEF q
  <2>3. IsPlugin(q)
    BY <2>2 DEF IsPlugin
  <2> QED
    BY <1>2, <2>2, <2>3 DEF q
<1> QED
  BY <1>1, <1>2

LEMMA LoadedPlugin ==
  ASSUME NEW p, IsPlugin(p)
  PROVE  LET q == Loaded(p)
         IN  /\ IsPlugin(q) /\ q.name = p.name /\ q.shm = p.shm /\ q.channel = p.channel
             /\ q.opened => p.opened \/ (~OutOfProcess(p) /\ p.name \in Loadable)
<1> DEFINE q == Loaded(p)
<1>1. CASE OutOfProcess(p)
  BY <1>1 DEF Loaded
<1>2. CASE ~OutOfProcess(p) /\ p.name \in Loadable
  <2>1. q = [p EXCEPT !.opened = TRUE]
    BY <1>2 DEF Loaded
  <2>2. q = [name |-> p.name, options |-> p.options, flags |-> p.flags,
             shm |-> p.shm, channel |-> p.channel, opened |-> TRUE]
    BY <2>1 DEF IsPlugin
  <2> HIDE DEF q
  <2>3. IsPlugin(q)
    BY <2>2 DEF IsPlugin
  <2> QED
    BY <1>2, <2>2, <2>3 DEF q
<1>3. CASE ~OutOfProcess(p) /\ p.name \notin Loadable
  <2>1. q = [p EXCEPT !.flags = "disabled"]
    BY <1>3 DEF Loaded
  <2>2. q = [name |-> p.name, options |-> p.options, flags |-> "disabled",
             shm |-> p.shm, channel |-> p.channel, opened |-> p.opened]
    BY <2>1 DEF IsPlugin
  <2> HIDE DEF q
  <2>3. IsPlugin(q)
    BY <2>2 DEF IsPlugin
  <2> QED
    BY <1>3, <2>2, <2>3 DEF q
<1> QED
  BY <1>1, <1>2, <1>3

(* A whole list. *)
LEMMA LeftIsList ==
  ASSUME NEW all, IsList(all), NEW segment \in Segments \cup {NoSegment},
         NEW started, NEW broken, NEW done,
         \A i \in 1..Len(all) : OutOfProcess(all[i]) => segment # NoSegment,
         \A i \in 1..Len(all) : all[i].shm \in {segment, NoSegment}
  PROVE  LET ready == Ready(all, segment, started)
             after == After(ready, broken)
             left  == Left(after, done)
         IN  /\ IsList(left) /\ Len(left) = Len(all) /\ DOMAIN ready = 1..Len(all)
             /\ \A i \in 1..Len(all) :
                  /\ left[i].name = all[i].name /\ left[i].shm = ready[i].shm
                  /\ left[i].channel = after[i].channel
                  /\ ready[i].shm \in {all[i].shm, segment}
                  /\ all[i].shm = segment => ready[i].shm = segment
                  /\ OutOfProcess(all[i]) => ready[i].shm = segment
                  /\ left[i].opened =>
                       \/ all[i].opened
                       \/ i <= done /\ ~OutOfProcess(all[i]) /\ all[i].name \in Loadable
<1> DEFINE ready == Ready(all, segment, started)
           after == After(ready, broken)
           left  == Left(after, done)
           n     == Len(all)
<1>1. DOMAIN all = 1..n /\ n \in Nat
  BY ListDomain DEF IsList, IsSequence
<1>2. /\ ready = [i \in 1..n |-> Equipped(all[i], segment, i \in started)]
      /\ after = [i \in 1..n |-> IF i \in broken THEN [ready[i] EXCEPT !.channel = FALSE]
                                 ELSE ready[i]]
      /\ left = [i \in 1..n |-> IF i <= done THEN Loaded(after[i]) ELSE after[i]]
  BY <1>1 DEF Ready, After, Left
<1> HIDE DEF ready, after, left
<1>3. ASSUME NEW i \in 1..n
      PROVE  /\ IsPlugin(ready[i]) /\ ready[i].name = all[i].name
             /\ ready[i].opened = all[i].opened /\ ready[i].flags = all[i].flags
             /\ ready[i].shm \in {all[i].shm, segment}
             /\ ready[i].channel => ready[i].shm # NoSegment
             /\ all[i].shm = segment => ready[i].shm = segment
             /\ OutOfProcess(all[i]) => ready[i].shm = segment
  <2>1. IsPlugin(all[i]) /\ (all[i].channel => all[i].shm # NoSegment)
    BY DEF IsList, Reached
  <2>2. ready[i] = Equipped(all[i], segment, i \in started) /\ (i \in started) \in BOOLEAN
    BY <1>2
  <2>3. OutOfProcess(all[i]) => segment # NoSegment
    OBVIOUS
  <2>4. all[i].shm \in {segment, NoSegment}
    OBVIOUS
  <2> DEFINE p == all[i]
             st == i \in started
             q == Equipped(p, segment, st)
  <2>5. IsPlugin(p) /\ st \in BOOLEAN /\ (p.channel => p.shm # NoSegment)
        /\ (OutOfProcess(p) => segment # NoSegment) /\ p.shm \in {segment, NoSegment}
    BY <2>1, <2>3, <2>4
  <2>6. /\ IsPlugin(q) /\ q.name = p.name /\ q.opened = p.opened /\ q.flags = p.flags
        /\ q.shm \in {p.shm, segment} /\ (q.channel => q.shm # NoSegment)
        /\ p.shm = segment => q.shm = segment
        /\ OutOfProcess(p) => q.shm = segment
    <3> HIDE DEF p, st
    <3> QED
      BY <2>5, EquippedPlugin
  <2> HIDE DEF q
  <2> QED
    BY <2>2, <2>6 DEF q
<1>4. ASSUME NEW i \in 1..n
      PROVE  /\ IsPlugin(after[i]) /\ after[i].name = ready[i].name
             /\ after[i].opened = ready[i].opened /\ after[i].flags = ready[i].flags
             /\ after[i].shm = ready[i].shm /\ (after[i].channel => ready[i].channel)
  <2>1. CASE i \in broken
    <3>1. after[i] = [ready[i] EXCEPT !.channel = FALSE]
      BY <1>2, <2>1
    <3>2. after[i] = [name |-> ready[i].name, options |-> ready[i].options,
                      flags |-> ready[i].flags, shm |-> ready[i].shm, channel |-> FALSE,
                      opened |-> ready[i].opened]
      <4>1. IsPlugin(ready[i])
        BY <1>3
      <4> QED
        BY <3>1, <4>1 DEF IsPlugin
    <3>3. IsPlugin(after[i])
      <4>1. IsPlugin(ready[i])
        BY <1>3
      <4> QED
        BY <3>2, <4>1 DEF IsPlugin
    <3> QED
      BY <3>2, <3>3
  <2>2. CASE i \notin broken
    BY <1>2, <1>3, <2>2
  <2> QED
    BY <2>1, <2>2
<1>5. ASSUME NEW i \in 1..n
      PROVE  /\ IsPlugin(left[i]) /\ left[i].name = all[i].name
             /\ left[i].shm = ready[i].shm /\ left[i].channel = after[i].channel
             /\ left[i].opened =>
                  \/ all[i].opened
                  \/ i <= done /\ ~OutOfProcess(all[i]) /\ all[i].name \in Loadable
  <2>1. CASE i <= done
    <3>1. left[i] = Loaded(after[i])
      BY <1>2, <2>1
    <3>2. IsPlugin(after[i])
      BY <1>4
    <3>3. /\ IsPlugin(left[i]) /\ left[i].name = after[i].name /\ left[i].shm = after[i].shm
          /\ left[i].channel = after[i].channel
          /\ left[i].opened =>
               after[i].opened \/ (~OutOfProcess(after[i]) /\ after[i].name \in Loadable)
      BY <3>1, <3>2, LoadedPlugin
    <3>4. OutOfProcess(after[i]) <=> OutOfProcess(all[i])
      BY <1>3, <1>4 DEF OutOfProcess
    <3> QED
      BY <1>3, <1>4, <2>1, <3>3, <3>4
  <2>2. CASE ~(i <= done)
    <3>1. left[i] = after[i]
      BY <1>2, <2>2
    <3> QED
      BY <1>3, <1>4, <3>1
  <2> QED
    BY <2>1, <2>2
<1>6. Len(left) = n /\ IsSequence(left) /\ DOMAIN ready = 1..n
  BY <1>1, <1>2 DEF IsSequence
<1>7. IsList(left)
  <2>1. \A i, j \in 1..n : all[i].name = all[j].name => i = j
    BY DEF IsList, Distinct
  <2>2. Distinct(left)
    BY <1>5, <1>6, <2>1 DEF Distinct
  <2>3. \A i \in 1..n : left[i].shm \in {segment, NoSegment}
    BY <1>3, <1>5
  <2>4. OneSegment(left)
    BY <1>6, <2>3 DEF OneSegment
  <2>5. Reached(left)
    BY <1>3, <1>4, <1>5, <1>6 DEF Reached
  <2> QED
    BY <1>5, <1>6, <2>2, <2>4, <2>5 DEF IsList
<1> HIDE DEF n
<1>8. \A i \in 1..n :
        /\ left[i].name = all[i].name /\ left[i].shm = ready[i].shm
        /\ left[i].channel = after[i].channel
        /\ ready[i].shm \in {all[i].shm, segment}
        /\ all[i].shm = segment => ready[i].shm = segment
        /\ OutOfProcess(all[i]) => ready[i].shm = segment
        /\ left[i].opened =>
             \/ all[i].opened
             \/ i <= done /\ ~OutOfProcess(all[i]) /\ all[i].name \in Loadable
  BY <1>3, <1>5
<1> QED
  BY <1>6, <1>7, <1>8 DEF n, ready, after, left

(* The places of the plugins that are given a reference, their lists and   *)
(* names, and what the counter goes up by.                                 *)
Referring(all, ready, segment, l, new, keys, fresh) ==
  /\ IsList(all) /\ DOMAIN ready = 1..Len(all)
  /\ \A i \in 1..Len(all) : all[i].shm = segment => ready[i].shm = segment
  /\ new \in SUBSET (1..Len(all))
  /\ \A i \in 1..Len(all) : i \in new <=> ready[i].shm = segment /\ all[i].shm # segment
  /\ \A key : key \in keys <=> \E i \in new : key = <<l, all[i].name>>
  /\ fresh = References(ready, segment) - References(all, segment)

LEMMA FreshReferences ==
  ASSUME NEW all, NEW ready, NEW segment, NEW l, NEW new, NEW keys, NEW fresh,
         Referring(all, ready, segment, l, new, keys, fresh)
  PROVE  /\ fresh \in Nat /\ (fresh = 0 => new = {})
         /\ IsFiniteSet(keys) /\ Cardinality(keys) = fresh
<1> USE DEF Referring
<1> DEFINE n     == Len(all)
           had   == {i \in DOMAIN all : all[i].shm = segment}
           have  == {i \in DOMAIN ready : ready[i].shm = segment}
           f     == [i \in new |-> <<l, all[i].name>>]
<1>1. DOMAIN all = 1..n /\ n \in Nat /\ \A i, j \in 1..n : all[i].name = all[j].name => i = j
  BY ListDomain DEF IsList, IsSequence, Distinct
<1>2. IsFiniteSet(1..n)
  BY <1>1, FS_Interval, 1 \in Int, n \in Int
<1>3. /\ have \in SUBSET (1..n) /\ had \in SUBSET (1..n) /\ new \in SUBSET (1..n)
      /\ new = have \ had /\ have \cap had = had
  BY <1>1
<1>4. f \in Bijection(new, keys)
  <2>1. f \in [new -> keys] /\ \A k \in keys : \E i \in new : f[i] = k
    OBVIOUS
  <2>2. \A i, j \in new : f[i] = f[j] => i = j
    BY <1>1
  <2> QED
    BY <2>1, <2>2 DEF Bijection, Injection, Surjection, IsInjective
<1>5. fresh = Cardinality(have) - Cardinality(had)
  BY DEF References
<1> HIDE DEF had, have, f, n
<1>6. IsFiniteSet(have) /\ IsFiniteSet(had) /\ IsFiniteSet(new)
  BY <1>2, <1>3, FS_Subset
<1>7. Cardinality(new) = Cardinality(have) - Cardinality(had)
  BY <1>3, <1>6, FS_Difference
<1>8. Cardinality(new) \in Nat /\ (Cardinality(new) = 0 => new = {})
  BY <1>6, FS_CardinalityType, FS_EmptySet
<1>9. IsFiniteSet(keys) /\ Cardinality(keys) = Cardinality(new)
  <2>1. ExistsBijection(new, keys)
    BY <1>4 DEF ExistsBijection
  <2> QED
    BY <1>6, <2>1, FS_Bijection
<1> QED
  BY <1>5, <1>7, <1>8, <1>9

LEMMA ExtractKeeps ==
  ASSUME Inv, NEW l \in Lists, Extract(l)
  PROVE  ListsTyped' /\ SegmentsHeld' /\ ProcessesRun' /\ LibrariesUsed'
<1> DEFINE all == list[l]
<1>1. PICK segment \in Chosen(all), started \in SUBSET DOMAIN all, broken \in SUBSET DOMAIN all,
           done \in 0..Len(all) : ExtractWith(l, segment, started, broken, done)
  BY DEF Extract
<1> DEFINE ready == Ready(all, segment, started)
           after == After(ready, broken)
           left  == Left(after, done)
           n     == Len(all)
           fresh == References(ready, segment) - References(all, segment)
<1>2. IsList(all) /\ DOMAIN all = 1..n /\ ToSet(all) = {all[i] : i \in 1..n}
  BY ListDomain DEF Inv, ListsTyped
<1>3. /\ segment \in Segments \cup {NoSegment}
      /\ \A i \in 1..n : OutOfProcess(all[i]) => segment # NoSegment
      /\ \A i \in 1..n : all[i].shm \in {segment, NoSegment}
      /\ \/ segment = NoSegment
         \/ segment \in DOMAIN rc
         \/ (/\ \E i \in 1..n : OutOfProcess(all[i])
             /\ \A i \in 1..n : all[i].shm = NoSegment)
  <2>1. /\ Shared(all) \in Segments \cup {NoSegment}
        /\ \A i \in 1..n : all[i].shm \in {Shared(all), NoSegment}
        /\ Shared(all) # NoSegment => \E i \in 1..n : all[i].shm = Shared(all)
    BY <1>2, SharedByAll
  <2>2. \A i \in 1..n : all[i].shm \in DOMAIN rc \cup {NoSegment}
    BY <1>2 DEF Inv, SegmentsHeld
  <2>3. CASE Shared(all) # NoSegment
    <3>1. segment = Shared(all)
      BY <2>3 DEF Chosen
    <3>2. segment \in DOMAIN rc
      BY <2>1, <2>2, <2>3, <3>1
    <3> QED
      BY <2>1, <2>3, <3>1, <3>2
  <2>4. CASE Shared(all) = NoSegment /\ \E i \in 1..n : OutOfProcess(all[i])
    <3>1. segment \in Segments
      BY <1>2, <2>4 DEF Chosen
    <3> QED
      BY <2>1, <2>4, <3>1, SegmentsAssumption
  <2>5. CASE Shared(all) = NoSegment /\ ~\E i \in 1..n : OutOfProcess(all[i])
    <3>1. segment = NoSegment
      BY <1>2, <2>5 DEF Chosen
    <3> QED
      BY <2>1, <2>5, <3>1
  <2> QED
    BY <2>3, <2>4, <2>5
<1>4. /\ IsList(left) /\ Len(left) = n /\ DOMAIN ready = 1..n
      /\ \A i \in 1..n :
           /\ left[i].name = all[i].name /\ left[i].shm = ready[i].shm
           /\ left[i].channel = after[i].channel
           /\ ready[i].shm \in {all[i].shm, segment}
           /\ all[i].shm = segment => ready[i].shm = segment
           /\ OutOfProcess(all[i]) => ready[i].shm = segment
           /\ left[i].opened =>
                \/ all[i].opened
                \/ i <= done /\ ~OutOfProcess(all[i]) /\ all[i].name \in Loadable
  BY ZenonT(40), <1>2, <1>3, LeftIsList
<1>5. ToSet(left) = {left[i] : i \in 1..n}
  BY <1>4, ListDomain
<1>6. /\ list' = [list EXCEPT ![l] = left]
      /\ processes' = {p \in processes : p[1] # l}
                        \cup {<<l, all[i].name>> : i \in {j \in 1..n : after[j].channel}}
      /\ rc' = IF segment = NoSegment THEN rc
               ELSE [s \in DOMAIN rc \cup {segment} |->
                       (IF s \in DOMAIN rc THEN rc[s] ELSE 0)
                       + (IF s = segment THEN fresh ELSE 0)]
      /\ handles' = [name \in Installed |->
                       handles[name] + (IF Opened(SubSeq(all, 1, done), name) THEN 1 ELSE 0)]
  BY <1>1, <1>2 DEF ExtractWith
<1>7. n \in Nat /\ \A i \in 1..n : all[i].name \in Installed
  BY <1>2 DEF IsList, IsSequence, IsPlugin
<1> DEFINE new  == {i \in 1..n : ready[i].shm = segment /\ all[i].shm # segment}
           keys == {<<l, all[i].name>> : i \in new}
<1>8. fresh \in Nat /\ (fresh = 0 => new = {}) /\ IsFiniteSet(keys) /\ Cardinality(keys) = fresh
  <2> HIDE DEF ready, all
  <2>1. DOMAIN ready = 1..Len(all)
        /\ \A i \in 1..Len(all) : all[i].shm = segment => ready[i].shm = segment
    BY <1>4
  <2>2. /\ new \in SUBSET (1..Len(all))
        /\ \A i \in 1..Len(all) : i \in new <=> ready[i].shm = segment /\ all[i].shm # segment
        /\ \A key : key \in keys <=> \E i \in new : key = <<l, all[i].name>>
        /\ fresh = References(ready, segment) - References(all, segment)
    OBVIOUS
  <2> HIDE DEF new, keys, fresh, n
  <2>3. Referring(all, ready, segment, l, new, keys, fresh)
    BY <1>2, <2>1, <2>2 DEF Referring
  <2> QED
    BY <2>3, FreshReferences
<1> HIDE DEF ready, after, left, fresh
<1>9. /\ list'[l] = left
      /\ \A k \in Lists : k # l => list'[k] = list[k]
      /\ list' = [k \in Lists |-> list'[k]]
  BY <1>6 DEF Inv, ListsTyped
<1>10. ListsTyped'
  BY <1>4, <1>9 DEF Inv, ListsTyped
<1>11. \A k \in Lists, name \in Installed :
         /\ \A s : <<k, name>> \in Holders(list, s) <=>
              \E p \in ToSet(list[k]) : p.name = name /\ p.shm = s
         /\ \A s : <<k, name>> \in Holders(list', s) <=>
              \E p \in ToSet(list'[k]) : p.name = name /\ p.shm = s
         /\ <<k, name>> \in Running(list) <=>
              \E p \in ToSet(list[k]) : p.name = name /\ p.channel
         /\ <<k, name>> \in Running(list') <=>
              \E p \in ToSet(list'[k]) : p.name = name /\ p.channel
  <2> TAKE k \in Lists, name \in Installed
  <2> QED
    BY SMTT(30), Pairs
<1>12. \A name \in Installed :
         /\ \A s : <<l, name>> \in Holders(list, s) <=>
              \E i \in 1..n : all[i].name = name /\ all[i].shm = s
         /\ \A s : <<l, name>> \in Holders(list', s) <=>
              \E i \in 1..n : all[i].name = name /\ ready[i].shm = s
         /\ <<l, name>> \in Running(list') <=>
              \E i \in 1..n : all[i].name = name /\ after[i].channel
         /\ \A k \in Lists \ {l} :
              /\ \A s : <<k, name>> \in Holders(list', s) <=> <<k, name>> \in Holders(list, s)
              /\ <<k, name>> \in Running(list') <=> <<k, name>> \in Running(list)
  <2> TAKE name \in Installed
  <2>1. \A s : <<l, name>> \in Holders(list, s) <=>
          \E i \in 1..n : all[i].name = name /\ all[i].shm = s
    BY <1>2, <1>11
  <2>2. ToSet(list'[l]) = {left[i] : i \in 1..n}
    BY <1>5, <1>9
  <2>3. \A s : <<l, name>> \in Holders(list', s) <=>
          \E i \in 1..n : all[i].name = name /\ ready[i].shm = s
    <3>1. \A i \in 1..n : left[i].name = all[i].name /\ left[i].shm = ready[i].shm
      BY <1>4
    <3>2. \A s : <<l, name>> \in Holders(list', s) <=>
            \E p \in ToSet(list'[l]) : p.name = name /\ p.shm = s
      BY <1>11
    <3> QED
      BY SMTT(30), <2>2, <3>1, <3>2
  <2>4. <<l, name>> \in Running(list') <=> \E i \in 1..n : all[i].name = name /\ after[i].channel
    BY SMTT(30), <1>4, <1>11, <2>2
  <2>5. ASSUME NEW k \in Lists \ {l}
        PROVE  /\ \A s : <<k, name>> \in Holders(list', s) <=> <<k, name>> \in Holders(list, s)
               /\ <<k, name>> \in Running(list') <=> <<k, name>> \in Running(list)
    <3>1. list'[k] = list[k]
      BY <1>9
    <3> QED
      BY <1>11, <3>1
  <2> QED
    BY <2>1, <2>3, <2>4, <2>5
<1>13. \A s : s # segment /\ s # NoSegment => Holders(list', s) = Holders(list, s)
  <2> SUFFICES ASSUME NEW s, s # segment, s # NoSegment
               PROVE  Holders(list', s) = Holders(list, s)
    OBVIOUS
  <2>1. \A i \in 1..n : ready[i].shm = s <=> all[i].shm = s
    BY <1>3, <1>4
  <2>2. ASSUME NEW k \in Lists, NEW name \in Installed
        PROVE  <<k, name>> \in Holders(list', s) <=> <<k, name>> \in Holders(list, s)
    <3>1. CASE k = l
      BY <1>12, <2>1, <3>1
    <3>2. CASE k # l
      BY <1>12, <3>2
    <3> QED
      BY <3>1, <3>2
  <2>3. /\ Holders(list', s) \subseteq Lists \X Installed
        /\ Holders(list, s) \subseteq Lists \X Installed
    BY DEF Holders
  <2> QED
    BY <2>2, <2>3, SamePairs
<1>14. /\ Holders(list', segment) = Holders(list, segment) \cup keys
       /\ Holders(list, segment) \cap keys = {}
  <2>1. \A i, j \in 1..n : all[i].name = all[j].name => i = j
    BY <1>2 DEF IsList, Distinct
  <2>2. keys \subseteq Lists \X Installed /\ Holders(list', segment) \subseteq Lists \X Installed
        /\ Holders(list, segment) \subseteq Lists \X Installed
    BY <1>7 DEF Holders
  <2>3. \A name \in Installed : <<l, name>> \in keys <=>
          \E i \in 1..n : all[i].name = name /\ ready[i].shm = segment /\ all[i].shm # segment
    OBVIOUS
  <2>4. \A k \in Lists \ {l}, name \in Installed : <<k, name>> \notin keys
    OBVIOUS
  <2> HIDE DEF keys, new
  <2>5. ASSUME NEW k \in Lists, NEW name \in Installed
        PROVE  /\ <<k, name>> \in Holders(list', segment) <=>
                    <<k, name>> \in Holders(list, segment) \cup keys
               /\ ~(<<k, name>> \in Holders(list, segment) /\ <<k, name>> \in keys)
    <3>1. CASE k = l
      <4>1. /\ <<l, name>> \in Holders(list, segment) <=>
                  \E i \in 1..n : all[i].name = name /\ all[i].shm = segment
            /\ <<l, name>> \in Holders(list', segment) <=>
                  \E i \in 1..n : all[i].name = name /\ ready[i].shm = segment
            /\ <<l, name>> \in keys <=>
                  \E i \in 1..n : all[i].name = name /\ ready[i].shm = segment
                                   /\ all[i].shm # segment
        BY SMTT(30), <1>12, <2>3
      <4>2. \A i \in 1..n : all[i].shm = segment => ready[i].shm = segment
        BY <1>4
      <4> QED
        BY <2>1, <3>1, <4>1, <4>2
    <3>2. CASE k # l
      <4>1. /\ <<k, name>> \in Holders(list', segment) <=> <<k, name>> \in Holders(list, segment)
            /\ <<k, name>> \notin keys
        BY <1>12, <2>4, <3>2
      <4> QED
        BY <4>1
    <3> QED
      BY <3>1, <3>2
  <2>6. Holders(list', segment) = Holders(list, segment) \cup keys
    BY <2>2, <2>5, SamePairs
  <2> QED
    BY <2>2, <2>5, <2>6
<1>15. SegmentsHeld'
  <2>1. CASE segment = NoSegment
    <3>1. rc' = rc /\ NoSegment \notin DOMAIN rc
      BY <1>6, <2>1, SegmentsAssumption DEF Inv, SegmentsHeld
    <3>2. \A s \in DOMAIN rc : Holders(list', s) = Holders(list, s)
      BY <1>13, <2>1, <3>1
    <3>3. \A p \in ToSet(left) : p.shm = NoSegment
      BY <1>3, <1>4, <1>5, <2>1
    <3>4. \A k \in Lists : \A p \in ToSet(list'[k]) : p.shm \in DOMAIN rc \cup {NoSegment}
      BY <1>9, <3>3 DEF Inv, SegmentsHeld
    <3> QED
      BY <3>1, <3>2, <3>4 DEF Inv, SegmentsHeld
  <2>2. CASE segment # NoSegment
    <3>1. /\ DOMAIN rc' = DOMAIN rc \cup {segment}
          /\ rc' = [s \in DOMAIN rc' |-> rc'[s]]
          /\ rc'[segment] = (IF segment \in DOMAIN rc THEN rc[segment] ELSE 0) + fresh
          /\ \A s \in DOMAIN rc : rc[s] \in Nat
      BY <1>6, <2>2 DEF Inv, SegmentsHeld
    <3>2. \A s \in DOMAIN rc \ {segment} : rc'[s] = rc[s]
      BY <1>6, <2>2, <3>1
    <3>3. \A p \in ToSet(left) : p.shm \in {segment, NoSegment}
      BY <1>3, <1>4, <1>5
    <3>4. \A k \in Lists : \A p \in ToSet(list'[k]) : p.shm \in DOMAIN rc' \cup {NoSegment}
      BY <1>9, <3>1, <3>3 DEF Inv, SegmentsHeld
    <3>5. Cardinality(Holders(list', segment)) = Cardinality(Holders(list, segment)) + fresh
      <4>1. IsFiniteSet(Holders(list, segment)) /\ Cardinality({}) = 0
        BY Finite, FS_EmptySet
      <4>2. Cardinality(Holders(list, segment)) \in Nat
        BY <4>1, FS_CardinalityType
      <4> HIDE DEF keys
      <4>3. Cardinality(Holders(list, segment) \cup keys) =
              Cardinality(Holders(list, segment)) + Cardinality(keys)
              - Cardinality(Holders(list, segment) \cap keys)
        BY <1>8, <4>1, FS_Union
      <4>4. /\ Cardinality(keys) = fresh /\ fresh \in Nat
            /\ Cardinality(Holders(list, segment) \cap keys) = 0
            /\ Cardinality(Holders(list', segment)) = Cardinality(Holders(list, segment) \cup keys)
        BY <1>8, <1>14, <4>1
      <4> QED
        BY <4>2, <4>3, <4>4
    <3>6. rc'[segment] \in Nat \ {0} /\ rc'[segment] = Cardinality(Holders(list', segment))
      <4>1. CASE segment \in DOMAIN rc
        <5>1. rc[segment] \in Nat \ {0} /\ rc[segment] = Cardinality(Holders(list, segment))
          BY <4>1 DEF Inv, SegmentsHeld
        <5> QED
          BY <1>8, <3>1, <3>5, <4>1, <5>1
      <4>2. CASE segment \notin DOMAIN rc
        <5>1. Holders(list, segment) = {}
          <6>1. \A k \in Lists : \A p \in ToSet(list[k]) : p.shm # segment
            BY <2>2, <4>2 DEF Inv, SegmentsHeld
          <6> QED
            BY <6>1 DEF Holders
        <5>2. new # {}
          BY <1>3, <1>4, <2>2, <4>2
        <5>3. Cardinality(Holders(list, segment)) = 0
          BY <5>1, FS_EmptySet
        <5> HIDE DEF new, keys
        <5> QED
          BY <1>8, <3>1, <3>5, <4>2, <5>2, <5>3
      <4> QED
        BY <4>1, <4>2
    <3>7. \A s \in DOMAIN rc \ {segment} : Holders(list', s) = Holders(list, s)
      <4>1. NoSegment \notin DOMAIN rc
        BY SegmentsAssumption DEF Inv, SegmentsHeld
      <4> QED
        BY <1>13, <4>1
    <3>8. segment \in Segments
      BY <1>3, <2>2
    <3> HIDE DEF new, keys
    <3>9. \A s \in DOMAIN rc' : rc'[s] \in Nat \ {0} /\ rc'[s] = Cardinality(Holders(list', s))
      <4> TAKE s \in DOMAIN rc'
      <4>1. CASE s = segment
        BY <3>6, <4>1
      <4>2. CASE s # segment
        <5>1. s \in DOMAIN rc \ {segment}
          BY <3>1, <4>2
        <5> QED
          BY <3>2, <3>7, <5>1 DEF Inv, SegmentsHeld
      <4> QED
        BY <4>1, <4>2
    <3>10. DOMAIN rc' \subseteq Segments
      BY <3>1, <3>8 DEF Inv, SegmentsHeld
    <3> QED
      BY <3>1, <3>4, <3>9, <3>10 DEF SegmentsHeld
  <2> QED
    BY <2>1, <2>2
<1>16. ProcessesRun'
  <2>1. processes = Running(list) /\ Running(list) \subseteq Lists \X Installed
        /\ Running(list') \subseteq Lists \X Installed
    BY DEF Inv, ProcessesRun, Running
  <2>2. processes' \subseteq Lists \X Installed
    BY <1>6, <1>7, <2>1
  <2>3. ASSUME NEW k \in Lists, NEW name \in Installed
        PROVE  <<k, name>> \in processes' <=> <<k, name>> \in Running(list')
    <3>1. CASE k = l
      <4>1. <<k, name>> \in processes' <=> \E i \in 1..n : all[i].name = name /\ after[i].channel
        BY <1>6, <3>1
      <4> QED
        BY <1>12, <3>1, <4>1
    <3>2. CASE k # l
      <4>1. <<k, name>> \in processes' <=> <<k, name>> \in processes
        BY <1>6, <3>2
      <4> QED
        BY <1>12, <2>1, <3>2, <4>1
    <3> QED
      BY <3>1, <3>2
  <2>4. processes' = Running(list')
    BY <2>1, <2>2, <2>3, SamePairs
  <2> QED
    BY <2>4 DEF ProcessesRun
<1>17. LibrariesUsed'
  <2>1. handles \in [Installed -> Nat]
        /\ \A t \in Installed : Cardinality(Openers(list, t)) <= handles[t]
    BY DEF Inv, LibrariesUsed
  <2>2. handles' = [name \in Installed |->
                      handles[name] + (IF Opened(SubSeq(all, 1, done), name) THEN 1 ELSE 0)]
    BY <1>6
  <2>3. handles' \in [Installed -> Nat]
    BY <2>1, <2>2
  <2>4. ASSUME NEW name \in Installed
        PROVE  Cardinality(Openers(list', name)) <= handles'[name]
    <3>1. /\ IsFiniteSet(Openers(list, name)) /\ Cardinality(Openers(list, name)) \in Nat
          /\ IsFiniteSet(Openers(list', name)) /\ Cardinality(Openers(list', name)) \in Nat
      BY Finite, FS_CardinalityType
    <3>2. CASE Opened(SubSeq(all, 1, done), name)
      <4>1. Openers(list', name) \in SUBSET (Openers(list, name) \cup {l})
        BY <1>9 DEF Openers
      <4>2. /\ IsFiniteSet(Openers(list, name) \cup {l})
            /\ Cardinality(Openers(list, name) \cup {l}) <= Cardinality(Openers(list, name)) + 1
        <5> DEFINE used == Openers(list, name)
        <5> HIDE DEF used
        <5>1. IsFiniteSet(used) /\ Cardinality(used) \in Nat
          BY <3>1 DEF used
        <5>2. /\ IsFiniteSet(used \cup {l})
              /\ Cardinality(used \cup {l}) =
                   IF l \in used THEN Cardinality(used) ELSE Cardinality(used) + 1
          BY <5>1, FS_AddElement, Zenon
        <5> QED
          BY <3>1, <5>1, <5>2 DEF used
      <4>3. Cardinality(Openers(list, name) \cup {l}) \in Nat
        BY <4>2, FS_CardinalityType
      <4>4. Cardinality(Openers(list', name)) <= Cardinality(Openers(list, name) \cup {l})
        BY <4>1, <4>2, FS_Subset
      <4>5. handles'[name] = handles[name] + 1 /\ handles[name] \in Nat
        BY <2>1, <2>2, <3>2
      <4> QED
        BY <2>1, <3>1, <4>2, <4>3, <4>4, <4>5
    <3>3. CASE ~Opened(SubSeq(all, 1, done), name)
      <4>1. \A i \in 1..n : i <= done /\ all[i].name = name =>
              ~(~OutOfProcess(all[i]) /\ all[i].name \in Loadable)
        <5> SUFFICES ASSUME NEW i \in 1..n, i <= done, all[i].name = name,
                            ~OutOfProcess(all[i]), name \in Loadable
                     PROVE  FALSE
          OBVIOUS
        <5> DEFINE run == SubSeq(all, 1, done)
        <5>1. \A j \in 1..done : all[j] \in ToSet(all)
          BY <1>2, <1>7
        <5>2. /\ run \in Seq(ToSet(all))
              /\ Len(run) = IF 1 <= done THEN done - 1 + 1 ELSE 0
              /\ \A j \in 1..done - 1 + 1 : run[j] = all[1 + j - 1]
          <6>1. 1 \in Int /\ done \in Int
            OBVIOUS
          <6> HIDE DEF all
          <6> QED
            BY <5>1, <6>1, SubSeqProperties
        <5>3. i \in 1..done - 1 + 1 /\ 1 + i - 1 = i /\ 1 <= done /\ done - 1 + 1 = done
          BY <1>7
        <5> HIDE DEF run, all
        <5>4. Len(run) = done /\ run[i] = all[i] /\ DOMAIN run = 1..Len(run)
          BY <5>2, <5>3
        <5>5. i \in DOMAIN run
          BY <5>3, <5>4
        <5> QED
          BY <3>3, <5>4, <5>5 DEF Opened, run
      <4>2. l \in Openers(list', name) => l \in Openers(list, name)
        <5>1. (\E p \in ToSet(list'[l]) : p.name = name /\ p.opened)
                => \E i \in 1..n : left[i].name = name /\ left[i].opened
          BY <1>5, <1>9
        <5>2. (\E i \in 1..n : left[i].name = name /\ left[i].opened)
                => \E i \in 1..n : all[i].name = name /\ all[i].opened
          BY <1>4, <4>1
        <5>3. (\E i \in 1..n : all[i].name = name /\ all[i].opened)
                => \E p \in ToSet(list[l]) : p.name = name /\ p.opened
          BY <1>2
        <5> QED
          BY <5>1, <5>2, <5>3 DEF Openers
      <4>3. Openers(list', name) \in SUBSET Openers(list, name)
        BY <1>9, <4>2 DEF Openers
      <4>4. Cardinality(Openers(list', name)) <= Cardinality(Openers(list, name))
        BY <3>1, <4>3, FS_Subset
      <4>5. handles'[name] = handles[name] + 0 /\ handles[name] \in Nat
        BY <2>1, <2>2, <3>3
      <4> QED
        BY <2>1, <3>1, <4>4, <4>5
    <3> QED
      BY <3>2, <3>3
  <2> QED
    BY <2>3, <2>4 DEF LibrariesUsed
<1> QED
  BY <1>10, <1>15, <1>16, <1>17

-----------------------------------------------------------------------------
(* EXTRACTOR_plugin_add_config: wherever an entry ends, it adds or removes *)
(* one plugin.                                                             *)
LEMMA EntryKeeps ==
  ASSUME Inv, ParseEntry
  PROVE  Inv'
<1> DEFINE l == parser.list
<1>1. l \in Lists /\ parser = [list |-> parser.list, pos |-> parser.pos, last |-> parser.last,
                               flags |-> parser.flags]
  BY DEF Inv, ParserTyped, ParseEntry, Resting
<1>2. ParserTyped'
  <2>1. parser' = [parser EXCEPT !.pos = EntryEnd + 1, !.last = EntryEnd + 1]
    BY DEF ParseEntry
  <2>2. parser' = [list |-> parser.list, pos |-> EntryEnd + 1, last |-> EntryEnd + 1,
                   flags |-> parser.flags]
    BY <1>1, <2>1
  <2>3. /\ parser' = [list |-> parser'.list, pos |-> parser'.pos, last |-> parser'.last,
                      flags |-> parser'.flags]
        /\ parser'.list \in Lists
    BY <1>1, <2>2
  <2> QED
    BY <2>3 DEF ParserTyped
<1>3. ListsTyped' /\ SegmentsHeld' /\ ProcessesRun' /\ LibrariesUsed'
  <2>1. \/ \E name : PluginRemove(l, name)
        \/ /\ \E name, options : list' = [list EXCEPT ![l] =
                                            PluginAdd(@, name, options, parser.flags)]
           /\ UNCHANGED <<rc, processes, handles>>
    BY DEF ParseEntry
  <2> HIDE DEF l
  <2>2. CASE \E name : PluginRemove(l, name)
    BY <1>1, <2>2, RemoveKeeps DEF l
  <2>3. ASSUME NEW name, NEW options,
               list' = [list EXCEPT ![l] = PluginAdd(list[l], name, options, parser.flags)],
               UNCHANGED <<rc, processes, handles>>
        PROVE  ListsTyped' /\ SegmentsHeld' /\ ProcessesRun' /\ LibrariesUsed'
    <3> DEFINE new == PluginAdd(list[l], name, options, parser.flags)
    <3>1. l \in Lists /\ IsList(list[l])
      BY <1>1 DEF Inv, ListsTyped, l
    <3>2. IsList(new)
      BY <3>1, AddIsList
    <3>3. /\ \A p \in ToSet(list[l]) : p \in ToSet(new)
          /\ \A p \in ToSet(new) :
               p \in ToSet(list[l]) \/ (p.shm = NoSegment /\ ~p.channel /\ ~p.opened)
      BY <3>1, AddIsList, NewIsPlugin
    <3> HIDE DEF new
    <3>4. list' = [list EXCEPT ![l] = new]
      BY <2>3 DEF new
    <3> QED
      BY <2>3, <3>1, <3>2, <3>3, <3>4, NothingTaken
  <2> QED
    BY <1>1, <2>1, <2>2, <2>3 DEF Inv, ListsTyped
<1> QED
  BY <1>2, <1>3 DEF Inv

LEMMA AddPluginKeeps ==
  ASSUME Inv, NEW l \in Lists, NEW name, NEW flags, AddPlugin(l, name, flags)
  PROVE  ListsTyped' /\ SegmentsHeld' /\ ProcessesRun' /\ LibrariesUsed'
<1> DEFINE new == PluginAdd(list[l], name, NoOptions, flags)
<1>1. IsList(list[l])
  BY DEF Inv, ListsTyped
<1>2. IsList(new)
  BY <1>1, AddIsList
<1>3. /\ \A p \in ToSet(list[l]) : p \in ToSet(new)
      /\ \A p \in ToSet(new) :
           p \in ToSet(list[l]) \/ (p.shm = NoSegment /\ ~p.channel /\ ~p.opened)
  BY <1>1, AddIsList, NewIsPlugin
<1>4. list' = [list EXCEPT ![l] = new] /\ UNCHANGED <<rc, processes, handles>>
  BY DEF AddPlugin, Inv, ListsTyped
<1> HIDE DEF new
<1> QED
  BY <1>2, <1>3, <1>4, NothingTaken

LEMMA AddDefaultsKeeps ==
  ASSUME Inv, NEW l \in Lists, NEW flags, AddDefaults(l, flags)
  PROVE  ListsTyped' /\ SegmentsHeld' /\ ProcessesRun' /\ LibrariesUsed'
<1>1. PICK order \in SetToSeqs(Installed) :
        list' = [list EXCEPT ![l] = [i \in DOMAIN order |-> NewPlugin(order[i], NoOptions, flags)]]
  BY DEF AddDefaults
<1> DEFINE new == [i \in DOMAIN order |-> NewPlugin(order[i], NoOptions, flags)]
<1>2. IsList(new) /\ \A p \in ToSet(new) : p.shm = NoSegment /\ ~p.channel /\ ~p.opened
  BY DefaultsAreList
<1>3. ToSet(list[l]) = {} /\ UNCHANGED <<rc, processes, handles>>
  BY EmptyIsList DEF AddDefaults
<1>4. list' = [list EXCEPT ![l] = new]
  BY <1>1
<1> HIDE DEF new
<1> QED
  BY <1>2, <1>3, <1>4, NothingTaken

LEMMA InvNext == Inv /\ [Next]_vars => Inv'
<1> SUFFICES ASSUME Inv, [Next]_vars PROVE Inv'
  OBVIOUS
<1> DEFINE Kept == ListsTyped' /\ SegmentsHeld' /\ ProcessesRun' /\ LibrariesUsed'
<1>1. ASSUME NEW l \in Lists, NEW name, RemovePlugin(l, name) PROVE Inv'
  <2>1. Kept
    BY <1>1, RemoveKeeps DEF RemovePlugin
  <2>2. parser' = parser
    BY <1>1 DEF RemovePlugin, config
  <2> QED
    BY <2>1, <2>2 DEF Inv, ParserTyped
<1>2. ASSUME NEW l \in Lists, NEW name, NEW flags, AddPlugin(l, name, flags) PROVE Inv'
  <2>1. Kept
    BY <1>2, AddPluginKeeps
  <2>2. parser' = parser
    BY <1>2 DEF AddPlugin, config
  <2> QED
    BY <2>1, <2>2 DEF Inv, ParserTyped
<1>3. ASSUME NEW l \in Lists, NEW flags, AddDefaults(l, flags) PROVE Inv'
  <2>1. Kept
    BY <1>3, AddDefaultsKeeps
  <2>2. parser' = parser
    BY <1>3 DEF AddDefaults, config
  <2> QED
    BY <2>1, <2>2 DEF Inv, ParserTyped
<1>4. ASSUME NEW l \in Lists, NEW flags, AddConfig(l, flags) PROVE Inv'
  <2>1. UNCHANGED <<list, rc, processes, handles>>
        /\ parser' = [list |-> l, pos |-> 0, last |-> 0, flags |-> flags]
    BY <1>4 DEF AddConfig
  <2>2. ParserTyped'
    BY <2>1 DEF ParserTyped
  <2> QED
    BY <2>1, <2>2 DEF Inv, ListsTyped, SegmentsHeld, ProcessesRun, LibrariesUsed
<1>5. ASSUME NEW l \in Lists, RemoveHead(l) PROVE Inv'
  <2>1. Kept
    BY <1>5, RemoveKeeps DEF RemoveHead
  <2>2. parser' = parser
    BY <1>5 DEF RemoveHead, config
  <2> QED
    BY <2>1, <2>2 DEF Inv, ParserTyped
<1>6. ASSUME NEW l \in Lists, Extract(l) PROVE Inv'
  <2>1. Kept
    BY <1>6, ExtractKeeps
  <2>2. parser' = parser
    BY <1>6 DEF Extract, config
  <2> QED
    BY <2>1, <2>2 DEF Inv, ParserTyped
<1>7. CASE ParseEntry
  BY <1>7, EntryKeeps
<1>8. CASE ConfigDone
  <2>1. UNCHANGED <<list, rc, processes, handles>> /\ parser' = Idle
    BY <1>8 DEF ConfigDone
  <2> QED
    BY <2>1 DEF Inv, ListsTyped, ParserTyped, SegmentsHeld, ProcessesRun, LibrariesUsed
<1>9. CASE UNCHANGED vars
  BY <1>9 DEF vars, config, Inv, ListsTyped, ParserTyped, SegmentsHeld, ProcessesRun,
              LibrariesUsed
<1> QED
  BY <1>1, <1>2, <1>3, <1>4, <1>5, <1>6, <1>7, <1>8, <1>9 DEF Next

LEMMA AlwaysInv == Spec => []Inv
  BY InvInit, InvNext, PTL DEF Spec

-----------------------------------------------------------------------------
(* What the runs check, which count places. *)

LEMMA PlacesAre ==
  ASSUME ListsTyped
  PROVE  /\ \A l \in Lists : \A i \in 1..Len(list[l]) :
              <<l, i>> \in Places /\ Plugin(<<l, i>>) = list[l][i]
         /\ \A x \in Places : /\ x[1] \in Lists /\ x[2] \in 1..Len(list[x[1]])
                              /\ x = <<x[1], x[2]>>
                              /\ Plugin(x) = list[x[1]][x[2]]
                              /\ Plugin(x) \in ToSet(list[x[1]])
<1>1. \A l \in Lists : DOMAIN list[l] = 1..Len(list[l])
                       /\ ToSet(list[l]) = {list[l][i] : i \in 1..Len(list[l])}
  BY ListDomain DEF ListsTyped
<1>2. ASSUME NEW l \in Lists, NEW i \in 1..Len(list[l])
      PROVE  <<l, i>> \in Places /\ Plugin(<<l, i>>) = list[l][i]
  BY <1>1 DEF Places, Plugin
<1>3. ASSUME NEW x \in Places
      PROVE  /\ x[1] \in Lists /\ x[2] \in 1..Len(list[x[1]]) /\ x = <<x[1], x[2]>>
             /\ Plugin(x) = list[x[1]][x[2]] /\ Plugin(x) \in ToSet(list[x[1]])
  <2>1. PICK l \in Lists : x \in {l} \X DOMAIN list[l]
    BY DEF Places
  <2>2. x = <<x[1], x[2]>> /\ x[1] = l /\ x[2] \in DOMAIN list[l]
    BY <2>1
  <2>3. list[l][x[2]] \in ToSet(list[l]) /\ x[2] \in 1..Len(list[l])
    BY <1>1, <2>2
  <2> QED
    BY <2>2, <2>3 DEF Plugin
<1> QED
  BY <1>2, <1>3

(* Two places of a list never hold plugins of one name. *)
LEMMA PlacesDiffer ==
  ASSUME ListsTyped, NEW x \in Places, NEW y \in Places,
         x[1] = y[1], Plugin(x).name = Plugin(y).name
  PROVE  x = y
<1>1. /\ x = <<x[1], x[2]>> /\ Plugin(x) = list[x[1]][x[2]] /\ x[2] \in 1..Len(list[x[1]])
      /\ y = <<y[1], y[2]>> /\ Plugin(y) = list[y[1]][y[2]] /\ y[2] \in 1..Len(list[y[1]])
      /\ x[1] \in Lists
  BY PlacesAre
<1>2. x[2] = y[2]
  BY <1>1 DEF ListsTyped, IsList, Distinct
<1> QED
  BY <1>1, <1>2

LEMMA NamesListed ==
  ASSUME ListsTyped, NEW x \in Places
  PROVE  Plugin(x).name \in Installed /\ IsPlugin(Plugin(x))
<1>1. x[1] \in Lists /\ Plugin(x) \in ToSet(list[x[1]])
  BY PlacesAre
<1> QED
  BY <1>1, Members DEF ListsTyped, IsPlugin

(* A plugin that a list has is at some place of it. *)
LEMMA PlaceOf ==
  ASSUME ListsTyped, NEW l \in Lists, NEW p \in ToSet(list[l])
  PROVE  \E x \in Places : x[1] = l /\ Plugin(x) = p
<1>1. ToSet(list[l]) = {list[l][i] : i \in 1..Len(list[l])}
  BY ListDomain DEF ListsTyped
<1>2. PICK i \in 1..Len(list[l]) : p = list[l][i]
  BY <1>1
<1>3. <<l, i>> \in Places /\ Plugin(<<l, i>>) = p
  BY <1>2, PlacesAre
<1> QED
  BY <1>3

(* As many places refer to a segment as plugins do. *)
LEMMA PlacesHold ==
  ASSUME ListsTyped, NEW s
  PROVE  Cardinality({x \in Places : Plugin(x).shm = s}) = Cardinality(Holders(list, s))
<1> DEFINE P == {x \in Places : Plugin(x).shm = s}
           H == Holders(list, s)
           f == [x \in P |-> <<x[1], Plugin(x).name>>]
<1>1. \A x \in P : f[x] \in H
  <2> TAKE x \in P
  <2>1. x[1] \in Lists /\ Plugin(x).name \in Installed /\ Plugin(x) \in ToSet(list[x[1]])
    BY PlacesAre, NamesListed
  <2>2. <<x[1], Plugin(x).name>> \in H
    BY <2>1, Pairs
  <2> QED
    BY <2>2
<1>2. \A x, y \in P : f[x] = f[y] => x = y
  BY PlacesDiffer
<1>3. \A h \in H : \E x \in P : f[x] = h
  <2> TAKE h \in H
  <2>1. /\ h = <<h[1], h[2]>> /\ h[1] \in Lists
        /\ \E p \in ToSet(list[h[1]]) : p.name = h[2] /\ p.shm = s
    BY DEF Holders
  <2>2. PICK p \in ToSet(list[h[1]]) : p.name = h[2] /\ p.shm = s
    BY <2>1
  <2>3. PICK x \in Places : x[1] = h[1] /\ Plugin(x) = p
    BY <2>1, PlaceOf
  <2>4. x \in P /\ f[x] = h
    BY <2>1, <2>2, <2>3
  <2> QED
    BY <2>4
<1>4. f \in Bijection(P, H)
  <2>1. f \in [P -> H]
    BY <1>1
  <2> HIDE DEF f, P, H
  <2> QED
    BY <1>2, <1>3, <2>1 DEF Bijection, Injection, Surjection, IsInjective
<1> HIDE DEF f, P, H
<1>5. IsFiniteSet(P)
  <2>1. f \in Injection(P, H) /\ IsFiniteSet(H)
    BY <1>4, Finite DEF Bijection, H
  <2> QED
    BY <2>1, FS_Injection
<1>6. ExistsBijection(P, H)
  BY <1>4 DEF ExistsBijection
<1>7. Cardinality(P) = Cardinality(H)
  BY <1>5, <1>6, FS_Bijection
<1> QED
  BY <1>7 DEF P, H

(* A shared segment exists as long as a plugin refers to it, and its       *)
(* counter says how many do, however long the lists are and whatever is    *)
(* added, removed and extracted (EXTRACTOR_plugin_remove,                  *)
(* EXTRACTOR_extract).                                                     *)
THEOREM SegmentsAlwaysCounted == Spec => []SegmentsCounted
<1>1. Inv => SegmentsCounted
  <2> SUFFICES ASSUME Inv PROVE SegmentsCounted
    OBVIOUS
  <2>1. ListsTyped /\ SegmentsHeld
    BY DEF Inv
  <2>2. {Plugin(x).shm : x \in Places} \subseteq DOMAIN rc \cup {NoSegment}
    BY <2>1, PlacesAre DEF SegmentsHeld
  <2>3. ASSUME NEW s \in DOMAIN rc
        PROVE  rc[s] > 0 /\ rc[s] = Cardinality({x \in Places : Plugin(x).shm = s})
    <3>1. rc[s] \in Nat \ {0} /\ rc[s] = Cardinality(Holders(list, s))
      BY <2>1 DEF SegmentsHeld
    <3>2. Cardinality({x \in Places : Plugin(x).shm = s}) = Cardinality(Holders(list, s))
      BY <2>1, PlacesHold
    <3> QED
      BY <3>1, <3>2
  <2> QED
    BY <2>2, <2>3 DEF SegmentsCounted
<1> QED
  BY <1>1, AlwaysInv, PTL

(* A process always belongs to one plugin that is listed, and that plugin  *)
(* to one place: none is left behind by a removal, by a channel that broke *)
(* or by a configuration (EXTRACTOR_plugin_remove, EXTRACTOR_extract).     *)
THEOREM ProcessesAlwaysOwned == Spec => []ProcessesOwned
<1>1. Inv => ProcessesOwned
  <2> SUFFICES ASSUME Inv PROVE ProcessesOwned
    OBVIOUS
  <2>1. ListsTyped /\ processes = Running(list)
    BY DEF Inv, ProcessesRun
  <2>2. \A x, y \in Places : x[1] = y[1] /\ Plugin(x).name = Plugin(y).name => x = y
    BY <2>1, PlacesDiffer
  <2>3. processes = {<<x[1], Plugin(x).name>> : x \in {y \in Places : Plugin(y).channel}}
    <3> DEFINE R == {<<x[1], Plugin(x).name>> : x \in {y \in Places : Plugin(y).channel}}
    <3>1. ASSUME NEW x \in Places, Plugin(x).channel
          PROVE  <<x[1], Plugin(x).name>> \in Running(list)
      <4>1. x[1] \in Lists /\ Plugin(x).name \in Installed /\ Plugin(x) \in ToSet(list[x[1]])
        BY <2>1, PlacesAre, NamesListed
      <4> QED
        BY <3>1, <4>1, Pairs
    <3>2. ASSUME NEW r \in Running(list)
          PROVE  r \in R
      <4>1. r = <<r[1], r[2]>> /\ r[1] \in Lists
            /\ \E p \in ToSet(list[r[1]]) : p.name = r[2] /\ p.channel
        BY DEF Running
      <4>2. PICK p \in ToSet(list[r[1]]) : p.name = r[2] /\ p.channel
        BY <4>1
      <4>3. PICK x \in Places : x[1] = r[1] /\ Plugin(x) = p
        BY <2>1, <4>1, PlaceOf
      <4>4. r = <<x[1], Plugin(x).name>> /\ Plugin(x).channel
        BY <4>1, <4>2, <4>3
      <4> QED
        BY <4>3, <4>4
    <3> QED
      BY <2>1, <3>1, <3>2
  <2>4. \A x \in Places : Plugin(x).channel => Plugin(x).shm # NoSegment
    <3> TAKE x \in Places
    <3>1. x[1] \in Lists /\ Plugin(x) \in ToSet(list[x[1]])
      BY <2>1, PlacesAre
    <3> QED
      BY <2>1, <3>1, Members DEF ListsTyped
  <2> QED
    BY <2>2, <2>3, <2>4 DEF ProcessesOwned
<1> QED
  BY <1>1, AlwaysInv, PTL

(* A library is open at least as often as plugins use it, so closing it    *)
(* for one never unloads the code of another (EXTRACTOR_plugin_load_,      *)
(* EXTRACTOR_plugin_remove).                                               *)
THEOREM LibrariesAlwaysOpen == Spec => []LibrariesOpen
<1>1. Inv => LibrariesOpen
  <2> SUFFICES ASSUME Inv, NEW name \in Installed
               PROVE  handles[name] >= Cardinality({x \in Places : Plugin(x).name = name
                                                                   /\ Plugin(x).opened})
    BY DEF LibrariesOpen
  <2> DEFINE P == {x \in Places : Plugin(x).name = name /\ Plugin(x).opened}
             O == Openers(list, name)
             f == [x \in P |-> x[1]]
  <2>1. ListsTyped /\ handles[name] \in Nat /\ Cardinality(O) <= handles[name]
    BY DEF Inv, LibrariesUsed
  <2>2. \A x \in P : f[x] \in O
    BY <2>1, PlacesAre DEF Openers
  <2>3. \A x, y \in P : f[x] = f[y] => x = y
    BY <2>1, PlacesDiffer
  <2>4. f \in Injection(P, O)
    <3>1. f \in [P -> O]
      BY <2>2
    <3> HIDE DEF f, P, O
    <3> QED
      BY <2>3, <3>1 DEF Injection, IsInjective
  <2>5. IsFiniteSet(O)
    BY Finite
  <2> HIDE DEF f, P, O
  <2>6. IsFiniteSet(P) /\ Cardinality(P) <= Cardinality(O)
    BY <2>4, <2>5, FS_Injection
  <2>7. Cardinality(P) \in Nat /\ Cardinality(O) \in Nat
    BY <2>5, <2>6, FS_CardinalityType
  <2>8. handles[name] >= Cardinality(P)
    BY <2>1, <2>6, <2>7
  <2> QED
    BY <2>8 DEF P
<1> QED
  BY <1>1, AlwaysInv, PTL

-----------------------------------------------------------------------------
(* Configuration strings: what their entries do, one after the other. *)

(* A set with 0 that has the successor of each of its numbers has every    *)
(* natural number: otherwise k -> k + 1 would map a finite part of it into *)
(* itself, injectively but without reaching 0.                             *)
LEMMA ReachedByCounting ==
  ASSUME NEW S, 0 \in S, \A k \in S : k + 1 \in S, NEW n \in Nat
  PROVE  n \in S
<1> SUFFICES ASSUME n \notin S PROVE FALSE
  OBVIOUS
<1> DEFINE T == S \cap 0..n
           f == [k \in T |-> k + 1]
<1>1. IsFiniteSet(T)
  <2>1. T \in SUBSET (0..n) /\ IsFiniteSet(0..n)
    BY FS_Interval, 0 \in Int, n \in Int
  <2> QED
    BY <2>1, FS_Subset
<1>2. \A k \in T : k + 1 \in T
  BY SMT
<1>3. f \in Injection(T, T)
  BY <1>2 DEF Injection, IsInjective
<1> HIDE DEF f
<1>4. f \in Surjection(T, T)
  BY <1>1, <1>3, FS_Injection
<1>5. \E k \in T : f[k] = 0
  BY <1>4 DEF Surjection
<1>6. \A k \in T : f[k] = k + 1
  BY DEF f
<1> QED
  BY <1>5, <1>6

(* What an entry does to a list, by itself. *)
Does(plugins, e, flags) ==
  IF e.minus THEN Without(plugins, e.name) ELSE PluginAdd(plugins, e.name, e.options, flags)

Largest(s) == CHOOSE x \in s : \A y \in s : x >= y

(* What FoldLeft computes on the way, for every set of entries: those of   *)
(* the set are done, the last one last.                                    *)
Folded(f, k, start, entries, flags) ==
  f = [s \in SUBSET (1..k) |->
         IF s = {} THEN start ELSE Does(f[s \ {Largest(s)}], entries[Largest(s)], flags)]

LEMMA LargestIs ==
  ASSUME NEW k \in Nat, NEW s \in SUBSET (1..k + 1), k + 1 \in s
  PROVE  Largest(s) = k + 1
<1>1. k + 1 \in s /\ \A y \in s : k + 1 >= y
  OBVIOUS
<1>2. Largest(s) \in s /\ \A y \in s : Largest(s) >= y
  BY <1>1 DEF Largest
<1>3. Largest(s) >= k + 1 /\ k + 1 >= Largest(s) /\ Largest(s) \in 1..k + 1
  BY <1>1, <1>2
<1> QED
  BY <1>3

LEMMA FoldedExists ==
  ASSUME NEW start, NEW entries, NEW flags, NEW n \in Nat
  PROVE  \E f : Folded(f, n, start, entries, flags)
<1> DEFINE S == {k \in Nat : \E f : Folded(f, k, start, entries, flags)}
<1>1. 0 \in S
  <2> DEFINE f == [s \in SUBSET (1..0) |-> start]
  <2>1. \A s \in SUBSET (1..0) : s = {}
    OBVIOUS
  <2>2. f = [s \in SUBSET (1..0) |->
               IF s = {} THEN start ELSE Does(f[s \ {Largest(s)}], entries[Largest(s)], flags)]
    BY <2>1
  <2>3. Folded(f, 0, start, entries, flags)
    BY <2>2 DEF Folded
  <2> QED
    BY <2>3
<1>2. ASSUME NEW k \in S PROVE k + 1 \in S
  <2>1. k \in Nat /\ \E f : Folded(f, k, start, entries, flags)
    OBVIOUS
  <2>2. PICK f : Folded(f, k, start, entries, flags)
    BY <2>1
  <2> DEFINE g == [s \in SUBSET (1..k + 1) |->
                     IF k + 1 \in s THEN Does(f[s \ {k + 1}], entries[k + 1], flags) ELSE f[s]]
             h == [s \in SUBSET (1..k + 1) |->
                     IF s = {} THEN start
                     ELSE Does(g[s \ {Largest(s)}], entries[Largest(s)], flags)]
  <2>3. ASSUME NEW s \in SUBSET (1..k + 1) PROVE g[s] = h[s]
    <3>1. CASE k + 1 \in s
      <4>1. Largest(s) = k + 1
        BY <2>1, <3>1, LargestIs
      <4>2. /\ s \ {k + 1} \in SUBSET (1..k + 1)
            /\ k + 1 \notin s \ {k + 1}
        OBVIOUS
      <4>3. g[s \ {k + 1}] = f[s \ {k + 1}]
        BY <4>2
      <4>4. h[s] = Does(g[s \ {k + 1}], entries[k + 1], flags)
        BY <3>1, <4>1
      <4>5. g[s] = Does(f[s \ {k + 1}], entries[k + 1], flags)
        BY <3>1
      <4> QED
        BY <4>3, <4>4, <4>5
    <3>2. CASE k + 1 \notin s
      <4>1. s \in SUBSET (1..k)
        BY <2>1, <3>2
      <4> DEFINE rest == s \ {Largest(s)}
      <4>2. rest \in SUBSET (1..k) /\ rest \in SUBSET (1..k + 1) /\ k + 1 \notin rest
        BY <3>2, <4>1
      <4>3. g[s] = f[s] /\ g[rest] = f[rest]
        <5> HIDE DEF rest
        <5> QED
          BY <3>2, <4>2
      <4>4. f[s] = IF s = {} THEN start ELSE Does(f[rest], entries[Largest(s)], flags)
        <5>1. f[s] = [t \in SUBSET (1..k) |->
                        IF t = {} THEN start
                        ELSE Does(f[t \ {Largest(t)}], entries[Largest(t)], flags)][s]
          BY <2>2, Zenon DEF Folded
        <5> QED
          BY <4>1, <5>1, Zenon
      <4>5. h[s] = IF s = {} THEN start ELSE Does(g[rest], entries[Largest(s)], flags)
        <5> HIDE DEF g
        <5> QED
          BY Zenon
      <4> HIDE DEF g, h, rest
      <4> QED
        BY <4>3, <4>4, <4>5
    <3> QED
      BY <3>1, <3>2
  <2>4. g = h
    <3>1. g = [s \in SUBSET (1..k + 1) |-> g[s]]
      BY Zenon
    <3>2. h = [s \in SUBSET (1..k + 1) |-> h[s]]
      <4> HIDE DEF g
      <4> QED
        BY Zenon
    <3> HIDE DEF g, h
    <3> QED
      BY <2>3, <3>1, <3>2, Zenon
  <2>5. Folded(g, k + 1, start, entries, flags)
    <3> HIDE DEF g
    <3> QED
      BY <2>4, Zenon DEF Folded
  <2> HIDE DEF g, h
  <2> QED
    BY <2>1, <2>5
<1>3. n \in S
  <2> HIDE DEF S
  <2> QED
    BY <1>1, <1>2, ReachedByCounting
<1> QED
  BY <1>3

(* A fold does the entries one after the other. *)
LEMMA FoldIsLastStep ==
  ASSUME NEW start, NEW entries, NEW n \in Nat, DOMAIN entries = 1..n,
         NEW steps, steps[0] = start,
         \A k \in 1..n : steps[k] = Does(steps[k - 1], entries[k], parser.flags)
  PROVE  FoldLeft(Applied, start, entries) = steps[n]
<1> DEFINE flags == parser.flags
           iter == CHOOSE f : Folded(f, n, start, entries, flags)
<1>1. FoldLeft(Applied, start, entries) = iter[1..n]
  BY DEF FoldLeft, MapThenFoldSet, Max, Folded, Largest, Applied, Does
<1>2. Folded(iter, n, start, entries, flags)
  BY FoldedExists
<1> HIDE DEF iter, flags
<1>3. ASSUME NEW s \in SUBSET (1..n)
      PROVE  iter[s] = IF s = {} THEN start
                       ELSE Does(iter[s \ {Largest(s)}], entries[Largest(s)], flags)
  <2>1. iter[s] = [t \in SUBSET (1..n) |->
                     IF t = {} THEN start
                     ELSE Does(iter[t \ {Largest(t)}], entries[Largest(t)], flags)][s]
    BY <1>2, Zenon DEF Folded
  <2> QED
    BY <2>1, Zenon
<1> DEFINE S == {k \in Nat : k <= n => iter[1..k] = steps[k]}
<1>4. 0 \in S
  <2>1. 1..0 = {} /\ {} \in SUBSET (1..n)
    OBVIOUS
  <2>2. iter[1..0] = start
    BY <1>3, <2>1
  <2> QED
    BY <2>2
<1>5. ASSUME NEW k \in S PROVE k + 1 \in S
  <2> SUFFICES ASSUME k + 1 <= n PROVE iter[1..k + 1] = steps[k + 1]
    OBVIOUS
  <2>1. k \in Nat /\ k + 1 \in 1..n /\ (k + 1) - 1 = k /\ iter[1..k] = steps[k]
    OBVIOUS
  <2>2. /\ 1..k + 1 \in SUBSET (1..k + 1) /\ k + 1 \in 1..k + 1
        /\ 1..k + 1 \in SUBSET (1..n) /\ 1..k + 1 # {}
        /\ (1..k + 1) \ {k + 1} = 1..k
    <3> HIDE DEF S
    <3>1. k + 1 \in 1..k + 1 /\ 1..k + 1 \subseteq 1..n
      BY <2>1
    <3>2. (1..k + 1) \ {k + 1} = 1..k
      BY <2>1
    <3> QED
      BY <3>1, <3>2
  <2>3. Largest(1..k + 1) = k + 1
    BY <2>1, <2>2, LargestIs
  <2>4. iter[1..k + 1] = Does(iter[1..k], entries[k + 1], flags)
    BY <1>3, <2>2, <2>3, Zenon
  <2>5. steps[k + 1] = Does(steps[k], entries[k + 1], flags)
    BY <2>1 DEF flags
  <2> QED
    BY <2>1, <2>4, <2>5
<1>6. n \in S
  <2> HIDE DEF S
  <2> QED
    BY <1>4, <1>5, ReachedByCounting
<1> QED
  BY <1>1, <1>6

-----------------------------------------------------------------------------
(* The characters of an entry. *)

(* What is in a sequence that was appended to another is where it should be. *)
LEMMA Appended ==
  ASSUME NEW S, NEW a \in Seq(S), NEW b \in Seq(S)
  PROVE  /\ a \o b \in Seq(S)
         /\ Len(a) \in Nat /\ Len(b) \in Nat /\ Len(a \o b) = Len(a) + Len(b)
         /\ \A i \in 1..Len(a) : (a \o b)[i] = a[i]
         /\ \A i \in 1..Len(b) : (a \o b)[Len(a) + i] = b[i]
<1> DEFINE c == a \o b
<1>1. /\ c \in Seq(S) /\ Len(c) = Len(a) + Len(b)
      /\ \A i \in 1..Len(a) + Len(b) : c[i] = IF i <= Len(a) THEN a[i] ELSE b[i - Len(a)]
  BY ConcatProperties
<1>2. Len(a) \in Nat /\ Len(b) \in Nat
  OBVIOUS
<1> HIDE DEF c
<1>3. ASSUME NEW i \in 1..Len(a) PROVE c[i] = a[i]
  BY <1>1, <1>2
<1>4. ASSUME NEW i \in 1..Len(b) PROVE c[Len(a) + i] = b[i]
  <2>1. Len(a) + i \in 1..Len(a) + Len(b) /\ ~(Len(a) + i <= Len(a)) /\ Len(a) + i - Len(a) = i
    BY <1>2
  <2> QED
    BY <1>1, <2>1
<1> QED
  BY <1>1, <1>2, <1>3, <1>4 DEF c

Characters == STRING \cup {"-", "(", ")", ":", Nul}
IsEntry(e) ==
  e.minus \in BOOLEAN /\ e.name \in Seq(Characters) /\ e.options \in Seq(Characters)

Signs(e) == IF e.minus THEN 1 ELSE 0

(* The characters of an entry, one by one. *)
LEMMA WrittenIs ==
  ASSUME NEW e, IsEntry(e)
  PROVE  /\ Written(e) \in Seq(Characters)
         /\ Signs(e) \in {0, 1} /\ Len(e.name) \in Nat /\ Len(e.options) \in Nat
         /\ Len(Written(e)) = Signs(e) + Len(e.name)
                              + (IF e.options = NoOptions THEN 0 ELSE Len(e.options) + 2)
         /\ e.minus => Written(e)[1] = "-"
         /\ \A j \in 1..Len(e.name) : Written(e)[Signs(e) + j] = e.name[j]
         /\ e.options # NoOptions =>
              /\ Written(e)[Signs(e) + Len(e.name) + 1] = "("
              /\ \A j \in 1..Len(e.options) :
                   Written(e)[Signs(e) + Len(e.name) + (1 + j)] = e.options[j]
              /\ Written(e)[Signs(e) + Len(e.name) + (Len(e.options) + 2)] = ")"
<1> DEFINE A == IF e.minus THEN <<"-">> ELSE <<>>
           B == <<"(">> \o e.options
           O == IF e.options = NoOptions THEN <<>> ELSE B \o <<")">>
           C == A \o e.name
<1>1. /\ e.name \in Seq(Characters) /\ e.options \in Seq(Characters) /\ e.minus \in BOOLEAN
      /\ Len(e.name) \in Nat /\ Len(e.options) \in Nat
  BY DEF IsEntry
<1>2. /\ <<>> \in Seq(Characters) /\ Len(<<>>) = 0
      /\ \A c \in {"-", "(", ")"} : /\ <<c>> \in Seq(Characters) /\ Len(<<c>>) = 1
                                     /\ <<c>>[1] = c
  <2>1. {"-", "(", ")"} \subseteq Characters
    BY DEF Characters
  <2> QED
    BY <2>1
<1>3. A \in Seq(Characters) /\ Len(A) = Signs(e) /\ (e.minus => A[1] = "-")
  BY <1>2 DEF Signs
<1>4. /\ B \in Seq(Characters) /\ Len(B) = 1 + Len(e.options) /\ B[1] = "("
      /\ \A j \in 1..Len(e.options) : B[1 + j] = e.options[j]
  <2>1. /\ B \in Seq(Characters) /\ Len(B) = Len(<<"(">>) + Len(e.options)
        /\ \A i \in 1..Len(<<"(">>) : B[i] = <<"(">>[i]
        /\ \A i \in 1..Len(e.options) : B[Len(<<"(">>) + i] = e.options[i]
    BY <1>1, <1>2, Appended
  <2> HIDE DEF B
  <2> QED
    BY <1>2, <2>1
<1> HIDE DEF A, B
<1>5. /\ O \in Seq(Characters)
      /\ Len(O) = IF e.options = NoOptions THEN 0 ELSE Len(e.options) + 2
      /\ e.options # NoOptions =>
           /\ O[1] = "("
           /\ \A j \in 1..Len(e.options) : O[1 + j] = e.options[j]
           /\ O[Len(e.options) + 2] = ")"
  <2>1. CASE e.options = NoOptions
    BY <1>2, <2>1
  <2>2. CASE e.options # NoOptions
    <3>1. O = B \o <<")">>
      BY <2>2
    <3>2. /\ B \o <<")">> \in Seq(Characters) /\ Len(B \o <<")">>) = Len(B) + Len(<<")">>)
          /\ \A i \in 1..Len(B) : (B \o <<")">>)[i] = B[i]
          /\ \A i \in 1..Len(<<")">>) : (B \o <<")">>)[Len(B) + i] = <<")">>[i]
      BY <1>2, <1>4, Appended
    <3> HIDE DEF O
    <3>3. /\ O \in Seq(Characters) /\ Len(O) = Len(B) + 1
          /\ \A i \in 1..Len(B) : O[i] = B[i]
          /\ O[Len(B) + 1] = ")"
      BY <1>2, <3>1, <3>2
    <3>4. /\ Len(B) + 1 = Len(e.options) + 2 /\ 1 \in 1..Len(B)
          /\ \A j \in 1..Len(e.options) : 1 + j \in 1..Len(B)
      BY <1>1, <1>4
    <3> QED
      BY <1>4, <2>2, <3>3, <3>4
  <2> QED
    BY <2>1, <2>2
<1> HIDE DEF O
<1>6. \A a, b \in Seq(Characters) :
        /\ a \o b \in Seq(Characters) /\ Len(a \o b) = Len(a) + Len(b)
        /\ \A i \in 1..Len(a) : (a \o b)[i] = a[i]
        /\ \A i \in 1..Len(b) : (a \o b)[Len(a) + i] = b[i]
  BY Appended
<1>7. /\ C \in Seq(Characters) /\ Len(C) = Signs(e) + Len(e.name)
      /\ \A i \in 1..Signs(e) : C[i] = A[i]
      /\ \A i \in 1..Len(e.name) : C[Signs(e) + i] = e.name[i]
  <2>1. /\ C \in Seq(Characters) /\ Len(C) = Len(A) + Len(e.name)
        /\ \A i \in 1..Len(A) : C[i] = A[i]
        /\ \A i \in 1..Len(e.name) : C[Len(A) + i] = e.name[i]
    <3>1. A \in Seq(Characters) /\ e.name \in Seq(Characters)
      BY <1>1, <1>3
    <3> QED
      BY <3>1, <1>6, Zenon
  <2> HIDE DEF C
  <2> QED
    BY <1>3, <2>1
<1> HIDE DEF C
<1>8. /\ Written(e) \in Seq(Characters) /\ Len(Written(e)) = Len(C) + Len(O)
      /\ \A i \in 1..Len(C) : Written(e)[i] = C[i]
      /\ \A i \in 1..Len(O) : Written(e)[Len(C) + i] = O[i]
  <2>1. Written(e) = C \o O
    BY DEF Written, A, B, C, O
  <2>2. /\ C \o O \in Seq(Characters) /\ Len(C \o O) = Len(C) + Len(O)
        /\ \A i \in 1..Len(C) : (C \o O)[i] = C[i]
        /\ \A i \in 1..Len(O) : (C \o O)[Len(C) + i] = O[i]
    <3>1. C \in Seq(Characters) /\ O \in Seq(Characters)
      BY <1>5, <1>7
    <3> QED
      BY <3>1, <1>6, Zenon
  <2> QED
    BY <2>1, <2>2, Zenon
<1>9. Signs(e) \in {0, 1} /\ (e.minus <=> Signs(e) = 1)
  BY <1>1 DEF Signs
<1>10. e.minus => Written(e)[1] = "-"
  <2>1. e.minus => 1 \in 1..Signs(e) /\ 1 \in 1..Len(C)
    BY <1>1, <1>7, <1>9
  <2> QED
    BY <1>3, <1>7, <1>8, <2>1
<1>11. ASSUME NEW j \in 1..Len(e.name) PROVE Written(e)[Signs(e) + j] = e.name[j]
  <2>1. Signs(e) + j \in 1..Len(C)
    BY <1>1, <1>7, <1>9
  <2> QED
    BY <1>7, <1>8, <2>1
<1>12. ASSUME e.options # NoOptions
       PROVE  /\ Written(e)[Signs(e) + Len(e.name) + 1] = "("
              /\ \A j \in 1..Len(e.options) :
                   Written(e)[Signs(e) + Len(e.name) + (1 + j)] = e.options[j]
              /\ Written(e)[Signs(e) + Len(e.name) + (Len(e.options) + 2)] = ")"
  <2>1. /\ 1 \in 1..Len(O) /\ Len(e.options) + 2 \in 1..Len(O)
        /\ \A j \in 1..Len(e.options) : 1 + j \in 1..Len(O)
    BY <1>1, <1>5, <1>12
  <2>2. \A i \in 1..Len(O) : Written(e)[Signs(e) + Len(e.name) + i] = O[i]
    BY <1>7, <1>8
  <2> QED
    BY <1>5, <1>12, <2>1, <2>2
<1>13. Len(Written(e)) = Signs(e) + Len(e.name)
                         + (IF e.options = NoOptions THEN 0 ELSE Len(e.options) + 2)
  BY <1>5, <1>7, <1>8
<1> QED
  BY <1>1, <1>8, <1>9, <1>10, <1>11, <1>12, <1>13

-----------------------------------------------------------------------------
(* The string of a configuration: where its entries begin. *)

(* The first entries, each behind its separator. *)
Parts(n, seqs) ==
  {p \in [0..n -> Seq(Characters)] :
     p[0] = <<>> /\ \A i \in 1..n : p[i] = p[i - 1] \o seqs[i]}

LEMMA PartsExist ==
  ASSUME NEW n \in Nat, NEW seqs \in [1..n -> Seq(Characters)]
  PROVE  Parts(n, seqs) # {}
<1> DEFINE S == {k \in Nat : k <= n => Parts(k, seqs) # {}}
<1>1. 0 \in S
  <2>1. [i \in 0..0 |-> <<>>] \in Parts(0, seqs)
    BY DEF Parts
  <2> QED
    BY <2>1
<1>2. ASSUME NEW k \in S PROVE k + 1 \in S
  <2> SUFFICES ASSUME k + 1 <= n PROVE Parts(k + 1, seqs) # {}
    OBVIOUS
  <2>1. PICK p \in Parts(k, seqs) : TRUE
    OBVIOUS
  <2>2. /\ p \in [0..k -> Seq(Characters)] /\ p[0] = <<>>
        /\ \A i \in 1..k : p[i] = p[i - 1] \o seqs[i]
    BY DEF Parts
  <2>3. k \in Nat /\ seqs[k + 1] \in Seq(Characters) /\ p[k] \in Seq(Characters)
    BY <2>2
  <2>4. p[k] \o seqs[k + 1] \in Seq(Characters)
    BY <2>3
  <2> DEFINE q == [i \in 0..k + 1 |-> IF i = k + 1 THEN p[k] \o seqs[k + 1] ELSE p[i]]
  <2>5. q \in [0..k + 1 -> Seq(Characters)]
    BY <2>2, <2>3, <2>4
  <2>6. q[0] = <<>>
    BY SMTT(30), <2>2, <2>3
  <2>7. ASSUME NEW i \in 1..k + 1 PROVE q[i] = q[i - 1] \o seqs[i]
    <3>1. CASE i = k + 1
      <4>1. k \in 0..k + 1 /\ k # k + 1 /\ i - 1 = k /\ k + 1 \in 0..k + 1
        BY <2>3, <3>1
      <4>2. q[k + 1] = p[k] \o seqs[k + 1]
        BY <4>1, Zenon
      <4>3. q[k] = p[k]
        BY <4>1, Zenon
      <4> QED
        BY <3>1, <4>1, <4>2, <4>3, Zenon
    <3>2. CASE i # k + 1
      <4>1. i \in 1..k /\ i - 1 \in 0..k + 1 /\ i - 1 # k + 1
        BY <2>3, <3>2
      <4>2. q[i] = p[i] /\ q[i - 1] = p[i - 1]
        BY <4>1, <3>2
      <4> QED
        BY <4>1, <4>2, <2>2
    <3> QED
      BY <3>1, <3>2
  <2>8. q \in Parts(k + 1, seqs)
    <3> HIDE DEF q
    <3> QED
      BY <2>5, <2>6, <2>7 DEF Parts
  <2> QED
    BY <2>8
<1>3. n \in S
  <2> HIDE DEF S
  <2> QED
    BY <1>1, <1>2, ReachedByCounting
<1> QED
  BY <1>3

LEMMA NextPart ==
  ASSUME NEW n \in Nat, NEW seqs \in [1..n -> Seq(Characters)], NEW p \in Parts(n, seqs),
         NEW k \in 0..n, k + 1 <= n
  PROVE  /\ k + 1 \in 1..n /\ k + 1 \in 0..n
         /\ p[k] \in Seq(Characters) /\ seqs[k + 1] \in Seq(Characters)
         /\ p[k + 1] = p[k] \o seqs[k + 1]
<1> DEFINE m == k + 1
<1>1. m \in 1..n /\ m \in 0..n /\ m - 1 = k
  OBVIOUS
<1> HIDE DEF m
<1>2. p[m] = p[m - 1] \o seqs[m] /\ p[k] \in Seq(Characters) /\ seqs[m] \in Seq(Characters)
  BY <1>1 DEF Parts
<1> QED
  BY <1>1, <1>2 DEF m

(* FlattenSeq is the last of the prefixes. *)
LEMMA FlattenIsLast ==
  ASSUME NEW n \in Nat, n # 0, NEW seqs \in [1..n -> Seq(Characters)], Len(seqs) = n,
         NEW p \in Parts(n, seqs)
  PROVE  FlattenSeq(seqs) = p[n]
<1> DEFINE Flat(f) == f = [i \in 1..n |-> IF i = 1 THEN seqs[i] ELSE f[i - 1] \o seqs[i]]
           flatten == CHOOSE f : Flat(f)
<1>1. FlattenSeq(seqs) = flatten[n]
  BY DEF FlattenSeq
<1>2. /\ p \in [0..n -> Seq(Characters)] /\ p[0] = <<>>
      /\ \A i \in 1..n : p[i] = p[i - 1] \o seqs[i]
  BY DEF Parts
<1>3. p[1] = seqs[1]
  <2>1. p[1] = <<>> \o seqs[1] /\ seqs[1] \in Seq(Characters)
    <3>1. 1 \in 1..n /\ 1 - 1 = 0
      OBVIOUS
    <3> QED
      BY <1>2, <3>1
  <2> QED
    BY <2>1, ConcatEmptySeq
<1>4. Flat([i \in 1..n |-> p[i]])
  <2> DEFINE g == [i \in 1..n |-> p[i]]
             h == [i \in 1..n |-> IF i = 1 THEN seqs[i] ELSE g[i - 1] \o seqs[i]]
  <2>1. ASSUME NEW i \in 1..n PROVE g[i] = h[i]
    <3>1. CASE i = 1
      BY <1>3, <3>1
    <3>2. CASE i # 1
      <4>1. i - 1 \in 1..n
        BY <3>2
      <4>2. g[i - 1] = p[i - 1] /\ g[i] = p[i]
        BY <4>1
      <4>3. h[i] = g[i - 1] \o seqs[i]
        BY <3>2
      <4> QED
        BY <1>2, <4>2, <4>3
    <3> QED
      BY <3>1, <3>2
  <2>2. g = [i \in 1..n |-> g[i]] /\ h = [i \in 1..n |-> h[i]]
    <3>1. g = [i \in 1..n |-> g[i]]
      BY Zenon
    <3>2. h = [i \in 1..n |-> h[i]]
      <4> HIDE DEF g
      <4> QED
        BY Zenon
    <3> QED
      BY <3>1, <3>2, Zenon
  <2>3. g = h
    <3> HIDE DEF g, h
    <3> QED
      BY <2>1, <2>2, Zenon
  <2>4. Flat(g)
    <3> HIDE DEF g
    <3> QED
      BY <2>3, Zenon
  <2> QED
    BY <2>4
<1>5. Flat(flatten)
  <2> HIDE DEF Flat
  <2> QED
    BY <1>4, Zenon
<1> HIDE DEF flatten
<1>6. ASSUME NEW i \in 1..n
      PROVE  flatten[i] = IF i = 1 THEN seqs[i] ELSE flatten[i - 1] \o seqs[i]
  <2>1. flatten[i] = [j \in 1..n |-> IF j = 1 THEN seqs[j] ELSE flatten[j - 1] \o seqs[j]][i]
    BY <1>5, Zenon
  <2> QED
    BY <2>1, Zenon
<1> HIDE DEF Flat
<1> DEFINE S == {k \in Nat : k + 1 <= n => flatten[k + 1] = p[k + 1]}
<1>7. 0 \in S
  <2>1. flatten[1] = seqs[1]
    BY <1>6, 1 \in 1..n
  <2> QED
    BY <1>3, <2>1
<1>8. ASSUME NEW k \in S PROVE k + 1 \in S
  <2> SUFFICES ASSUME k + 1 + 1 <= n PROVE flatten[k + 1 + 1] = p[k + 1 + 1]
    OBVIOUS
  <2>1. k \in Nat /\ k + 1 <= n /\ flatten[k + 1] = p[k + 1]
    OBVIOUS
  <2>2. k + 1 + 1 \in 1..n /\ k + 1 + 1 # 1 /\ k + 1 + 1 - 1 = k + 1
    BY <2>1
  <2>3. flatten[k + 1 + 1] = flatten[k + 1] \o seqs[k + 1 + 1]
    <3> DEFINE m == k + 1 + 1
    <3>1. m \in 1..n /\ m # 1 /\ m - 1 = k + 1
      BY <2>2
    <3> HIDE DEF m
    <3>2. flatten[m] = flatten[m - 1] \o seqs[m]
      BY <1>6, <3>1
    <3> QED
      BY <3>1, <3>2 DEF m
  <2>4. p[k + 1 + 1] = p[k + 1] \o seqs[k + 1 + 1]
    <3>1. k + 1 \in 0..n
      BY <2>1
    <3> QED
      BY <3>1, NextPart
  <2> QED
    BY <2>1, <2>3, <2>4
<1>9. n - 1 \in S
  <2> HIDE DEF S
  <2>1. n - 1 \in Nat
    OBVIOUS
  <2> QED
    BY <1>7, <1>8, <2>1, ReachedByCounting
<1>10. n - 1 + 1 = n /\ n <= n
  OBVIOUS
<1> QED
  BY <1>1, <1>9, <1>10

(* Every prefix is the beginning of the later ones. *)
Begins(a, b) == Len(a) <= Len(b) /\ \A j \in 1..Len(a) : b[j] = a[j]

LEMMA PartsBegin ==
  ASSUME NEW n \in Nat, NEW seqs \in [1..n -> Seq(Characters)], NEW p \in Parts(n, seqs)
  PROVE  \A k, i \in 0..n : i <= k => Begins(p[i], p[k])
<1> DEFINE S == {k \in Nat : k <= n => \A i \in 0..k : Begins(p[i], p[k])}
<1>1. /\ p \in [0..n -> Seq(Characters)] /\ p[0] = <<>>
      /\ \A i \in 1..n : p[i] = p[i - 1] \o seqs[i]
  BY DEF Parts
<1>2. \A i \in 0..n : Len(p[i]) \in Nat /\ Begins(p[i], p[i])
  <2>1. \A i \in 0..n : Len(p[i]) \in Nat
    BY <1>1
  <2> QED
    BY <2>1 DEF Begins
<1>3. 0 \in S
  BY <1>2
<1>4. ASSUME NEW k \in S PROVE k + 1 \in S
  <2> SUFFICES ASSUME k + 1 <= n, NEW i \in 0..k + 1 PROVE Begins(p[i], p[k + 1])
    OBVIOUS
  <2>1. k \in Nat /\ \A j \in 0..k : Begins(p[j], p[k])
    OBVIOUS
  <2> HIDE DEF S
  <2>2. k \in 0..n /\ k + 1 \in 0..n /\ k + 1 \in 1..n /\ k + 1 - 1 = k
    BY <2>1
  <2>3. /\ p[k + 1] = p[k] \o seqs[k + 1]
        /\ p[k] \in Seq(Characters) /\ seqs[k + 1] \in Seq(Characters)
    BY <2>2, NextPart
  <2>4. Begins(p[k], p[k + 1])
    <3>1. /\ Len(p[k]) \in Nat /\ Len(seqs[k + 1]) \in Nat
          /\ Len(p[k] \o seqs[k + 1]) = Len(p[k]) + Len(seqs[k + 1])
          /\ \A j \in 1..Len(p[k]) : (p[k] \o seqs[k + 1])[j] = p[k][j]
      <4> DEFINE a == p[k]
                 b == seqs[k + 1]
      <4>1. a \in Seq(Characters) /\ b \in Seq(Characters)
        BY <2>3
      <4> HIDE DEF a, b
      <4>2. /\ Len(a) \in Nat /\ Len(b) \in Nat /\ Len(a \o b) = Len(a) + Len(b)
            /\ \A j \in 1..Len(a) : (a \o b)[j] = a[j]
        BY <4>1, Appended
      <4> QED
        BY <4>2 DEF a, b
    <3>2. /\ Len(p[k + 1]) = Len(p[k]) + Len(seqs[k + 1])
          /\ \A j \in 1..Len(p[k]) : p[k + 1][j] = p[k][j]
      BY <2>3, <3>1, Zenon
    <3>3. Len(p[k]) <= Len(p[k + 1])
      <4> DEFINE x == Len(p[k])
                 y == Len(seqs[k + 1])
                 z == Len(p[k + 1])
      <4>1. x \in Nat /\ y \in Nat /\ z = x + y
        BY <3>1, <3>2
      <4> HIDE DEF x, y, z
      <4>2. x <= z
        BY <4>1
      <4> QED
        BY <4>2 DEF x, z
    <3> QED
      BY <3>2, <3>3, Zenon DEF Begins
  <2>5. CASE i = k + 1
    BY <1>2, <2>2, <2>5
  <2>6. CASE i # k + 1
    <3>1. i \in 0..k /\ i \in 0..n
      BY <2>1, <2>6
    <3>2. Begins(p[i], p[k])
      BY <2>1, <3>1
    <3>3. Len(p[i]) \in Nat /\ Len(p[k]) \in Nat /\ Len(p[k + 1]) \in Nat
      BY <1>2, <2>2, <3>1
    <3> QED
      BY <2>4, <3>2, <3>3 DEF Begins
  <2> QED
    BY <2>5, <2>6
<1>5. \A k \in Nat : k \in S
  <2> HIDE DEF S
  <2> QED
    BY <1>3, <1>4, ReachedByCounting
<1> QED
  BY <1>5

(* The string `text', the entries it says, and after how many characters   *)
(* each of them begins: entry k is followed by a character that ends it.   *)
IsLaidOut(entries, text, off) ==
  /\ off \in [0..Len(entries) -> Nat] /\ off[0] = 0 /\ off[Len(entries)] = Len(text)
  /\ \A k \in 1..Len(entries) :
       /\ off[k] = off[k - 1] + Len(Written(entries[k])) + 1
       /\ off[k] <= Len(text)
       /\ \A j \in 1..Len(Written(entries[k])) : text[off[k - 1] + j] = Written(entries[k])[j]
       /\ text[off[k]] \in {":", Nul}

AreEntries(entries) ==
  /\ Len(entries) \in Nat \ {0} /\ DOMAIN entries = 1..Len(entries)
  /\ \A i \in 1..Len(entries) : IsEntry(entries[i]) /\ Readable(entries[i])

LEMMA ConfigsAre ==
  ASSUME NEW entries \in Configs
  PROVE  AreEntries(entries)
<1> DEFINE AnyEntry == [minus : BOOLEAN, name : Seq(STRING), options : Seq(STRING)]
<1>1. /\ entries # <<>> /\ entries \in Seq(AnyEntry)
      /\ \A i \in DOMAIN entries : Readable(entries[i])
  BY ConfigsAssumption
<1>2. \A e \in AnyEntry : e.minus \in BOOLEAN /\ e.name \in Seq(STRING) /\ e.options \in Seq(STRING)
  OBVIOUS
<1> HIDE DEF AnyEntry
<1>3. Len(entries) \in Nat \ {0} /\ DOMAIN entries = 1..Len(entries)
      /\ \A i \in 1..Len(entries) : entries[i] \in AnyEntry
  BY <1>1
<1>4. \A s \in Seq(STRING) : s \in Seq(Characters)
  <2> TAKE s \in Seq(STRING)
  <2>1. STRING \subseteq Characters
    BY DEF Characters
  <2>2. Len(s) \in Nat /\ s \in [1..Len(s) -> STRING]
    BY LenProperties
  <2>3. s \in [1..Len(s) -> Characters]
    BY <2>1, <2>2
  <2> QED
    BY <2>2, <2>3
<1>5. \A i \in 1..Len(entries) : IsEntry(entries[i])
  BY <1>2, <1>3, <1>4 DEF IsEntry
<1> QED
  BY <1>1, <1>3, <1>5 DEF AreEntries

LEMMA JoinedIsLaidOut ==
  ASSUME NEW entries, AreEntries(entries)
  PROVE  \E off : IsLaidOut(entries, Append(Joined(entries), Nul), off)
<1> DEFINE n == Len(entries)
           seqs == [i \in DOMAIN entries |-> <<":">> \o Written(entries[i])]
           W(i) == Written(entries[i])
<1>1. n \in Nat \ {0} /\ DOMAIN entries = 1..n /\ \A i \in 1..n : IsEntry(entries[i])
  BY DEF AreEntries
<1> HIDE DEF n
<1>2. ASSUME NEW i \in 1..n
      PROVE  /\ W(i) \in Seq(Characters) /\ Len(W(i)) \in Nat
             /\ seqs[i] \in Seq(Characters) /\ Len(seqs[i]) = 1 + Len(W(i))
             /\ seqs[i][1] = ":"
             /\ \A j \in 1..Len(W(i)) : seqs[i][1 + j] = W(i)[j]
  <2> DEFINE c == <<":">>
             w == W(i)
  <2>1. w \in Seq(Characters)
    BY <1>1, WrittenIs
  <2>2. c \in Seq(Characters) /\ Len(c) = 1 /\ c[1] = ":"
    <3>1. ":" \in Characters
      BY DEF Characters
    <3> QED
      BY <3>1
  <2>3. seqs[i] = c \o w
    BY <1>1
  <2> HIDE DEF c, w
  <2>4. /\ c \o w \in Seq(Characters) /\ Len(w) \in Nat /\ Len(c \o w) = Len(c) + Len(w)
        /\ \A j \in 1..Len(c) : (c \o w)[j] = c[j]
        /\ \A j \in 1..Len(w) : (c \o w)[Len(c) + j] = w[j]
    <3> HIDE DEF seqs, W
    <3>1. c \in Seq(Characters) /\ w \in Seq(Characters)
      BY <2>1, <2>2
    <3> QED
      BY <3>1, Appended
  <2> DEFINE d == c \o w
  <2>5. /\ d \in Seq(Characters) /\ Len(d) = 1 + Len(w) /\ d[1] = ":"
        /\ \A j \in 1..Len(w) : d[1 + j] = w[j]
    <3> HIDE DEF d
    <3>1. /\ d \in Seq(Characters) /\ Len(d) = Len(c) + Len(w)
          /\ \A j \in 1..Len(c) : d[j] = c[j]
          /\ \A j \in 1..Len(w) : d[Len(c) + j] = w[j]
      BY <2>4 DEF d
    <3> QED
      BY <2>2, <3>1
  <2>6. seqs[i] = d
    BY <2>3
  <2> HIDE DEF d, seqs
  <2> QED
    BY <2>1, <2>4, <2>5, <2>6, Zenon DEF w
<1>3. seqs \in [1..n -> Seq(Characters)] /\ Len(seqs) = n
  BY <1>1, <1>2
<1>4. PICK p \in Parts(n, seqs) : TRUE
  <2> HIDE DEF seqs
  <2> QED
    BY <1>1, <1>3, PartsExist
<1>5. FlattenSeq(seqs) = p[n]
  <2> HIDE DEF seqs
  <2> QED
    BY <1>1, <1>3, FlattenIsLast
<1>6. Joined(entries) = Tail(p[n])
  BY <1>5 DEF Joined
<1> HIDE DEF seqs, W
<1> DEFINE F == p[n]
           text == Append(Joined(entries), Nul)
           off == [k \in 0..n |-> Len(p[k])]
<1>7. /\ p \in [0..n -> Seq(Characters)] /\ p[0] = <<>>
      /\ \A k, i \in 0..n : i <= k => Begins(p[i], p[k])
  BY <1>1, <1>3, PartsBegin DEF Parts
<1>8. ASSUME NEW k \in 1..n
      PROVE  /\ k - 1 \in 0..n /\ k \in 0..n /\ off[k - 1] \in Nat
             /\ off[k] = off[k - 1] + Len(W(k)) + 1 /\ off[k] <= Len(F)
             /\ F[off[k - 1] + 1] = ":"
             /\ \A j \in 1..Len(W(k)) : F[off[k - 1] + (1 + j)] = W(k)[j]
  <2> DEFINE m == k - 1
  <2>1. m \in 0..n /\ m + 1 = k /\ m + 1 <= n /\ k \in 0..n /\ k <= n /\ n \in 0..n
    BY <1>1
  <2> DEFINE a == p[m]
             b == seqs[k]
             c == p[k]
  <2> HIDE DEF m
  <2>2. a \in Seq(Characters) /\ b \in Seq(Characters) /\ c = a \o b
    <3>1. /\ p[m] \in Seq(Characters) /\ seqs[m + 1] \in Seq(Characters)
          /\ p[m + 1] = p[m] \o seqs[m + 1]
      <4> HIDE DEF a, b, c, F, off, text
      <4>1. /\ n \in Nat /\ seqs \in [1..n -> Seq(Characters)] /\ p \in Parts(n, seqs)
            /\ m \in 0..n /\ m + 1 <= n
        BY <1>1, <1>3, <2>1
      <4> QED
        BY <4>1, NextPart
    <3> QED
      BY <2>1, <3>1, Zenon DEF a, b, c
  <2>3. Begins(c, F)
    BY <1>7, <2>1
  <2> HIDE DEF a, b, c, F
  <2>4. /\ Len(a) \in Nat /\ Len(b) \in Nat /\ Len(c) = Len(a) + Len(b)
        /\ \A j \in 1..Len(b) : c[Len(a) + j] = b[j]
    BY <2>2, Appended
  <2>5. \A j \in 1..Len(b) : F[Len(a) + j] = b[j]
    <3>1. \A j \in 1..Len(b) : Len(a) + j \in 1..Len(c)
      BY <2>4
    <3> QED
      BY <2>3, <2>4, <3>1 DEF Begins
  <2>6. /\ Len(W(k)) \in Nat /\ Len(b) = 1 + Len(W(k)) /\ b[1] = ":"
        /\ \A j \in 1..Len(W(k)) : b[1 + j] = W(k)[j]
    BY <1>2 DEF b
  <2>7. /\ F[Len(a) + 1] = ":"
        /\ \A j \in 1..Len(W(k)) : F[Len(a) + (1 + j)] = W(k)[j]
    <3>1. 1 \in 1..Len(b) /\ \A j \in 1..Len(W(k)) : 1 + j \in 1..Len(b)
      BY <2>6
    <3> QED
      BY <2>5, <2>6, <3>1
  <2>8. Len(c) = Len(a) + Len(W(k)) + 1 /\ Len(c) <= Len(F)
    <3>1. Len(c) <= Len(F)
      BY <2>3 DEF Begins
    <3>2. Len(c) = Len(a) + Len(W(k)) + 1
      BY <2>4, <2>6
    <3> QED
      BY <3>1, <3>2
  <2>9. off[m] = Len(a) /\ off[k] = Len(c)
    BY <2>1 DEF a, c
  <2> HIDE DEF off
  <2> QED
    BY <2>1, <2>4, <2>7, <2>8, <2>9 DEF m
<1>9. F \in Seq(Characters) /\ Len(F) \in Nat /\ off[n] = Len(F) /\ off[0] = 0
      /\ off \in [0..n -> Nat]
  <2>1. n \in 0..n /\ 0 \in 0..n
    BY <1>1
  <2>2. \A k \in 0..n : Len(p[k]) \in Nat
    BY <1>7
  <2>3. F \in Seq(Characters) /\ Len(F) \in Nat /\ Len(p[0]) = 0
    BY <1>7, <2>1
  <2> QED
    BY <2>1, <2>2, <2>3
<1> HIDE DEF F, off
<1>10. Len(F) >= 1
  <2>1. n \in 1..n
    BY <1>1
  <2>2. off[n - 1] \in Nat /\ Len(W(n)) \in Nat /\ off[n] = off[n - 1] + Len(W(n)) + 1
    BY <1>2, <1>8, <2>1
  <2> QED
    BY <1>9, <2>2
<1>11. /\ Len(text) = Len(F) /\ text[Len(F)] = Nul
       /\ \A j \in 1..Len(F) - 1 : text[j] = F[1 + j]
  <2> DEFINE t == Tail(F)
  <2>1. F # <<>>
    BY <1>10
  <2>2. t \in Seq(Characters) /\ Len(t) = Len(F) - 1 /\ \A j \in 1..Len(t) : t[j] = F[j + 1]
    BY <1>9, <2>1, HeadTailProperties
  <2>3. text = Append(t, Nul)
    BY <1>6 DEF F
  <2>4. Nul \in Characters
    BY DEF Characters
  <2> HIDE DEF t, text
  <2>5. /\ Len(text) = Len(t) + 1 /\ text[Len(t) + 1] = Nul
        /\ \A j \in 1..Len(t) : text[j] = t[j]
    BY <2>2, <2>3, <2>4, AppendProperties
  <2>6. Len(t) + 1 = Len(F) /\ \A j \in 1..Len(F) - 1 : j \in 1..Len(t) /\ j + 1 = 1 + j
    BY <1>9, <2>2
  <2> QED
    BY <2>2, <2>5, <2>6
<1> HIDE DEF text
<1>12. ASSUME NEW k \in 1..n
       PROVE  /\ \A j \in 1..Len(W(k)) : text[off[k - 1] + j] = W(k)[j]
              /\ text[off[k]] \in {":", Nul}
  <2>1. /\ off[k - 1] \in Nat /\ Len(W(k)) \in Nat
        /\ off[k] = off[k - 1] + Len(W(k)) + 1 /\ off[k] <= Len(F)
        /\ \A j \in 1..Len(W(k)) : F[off[k - 1] + (1 + j)] = W(k)[j]
    BY <1>2, <1>8
  <2>2. ASSUME NEW j \in 1..Len(W(k)) PROVE text[off[k - 1] + j] = W(k)[j]
    <3>1. /\ off[k - 1] + j \in 1..Len(F) - 1
          /\ 1 + (off[k - 1] + j) = off[k - 1] + (1 + j)
      <4> DEFINE x == off[k - 1]
                 y == off[k]
                 w == Len(W(k))
                 f == Len(F)
      <4>1. x \in Nat /\ w \in Nat /\ f \in Nat /\ y = x + w + 1 /\ y <= f /\ j \in 1..w
        BY <1>9, <2>1
      <4> HIDE DEF x, y, w, f
      <4>2. x + j \in 1..f - 1 /\ 1 + (x + j) = x + (1 + j)
        BY <4>1
      <4> QED
        BY <4>2 DEF x, f
    <3> QED
      BY <1>11, <2>1, <3>1
  <2>3. CASE k = n
    BY <1>9, <1>11, <2>2, <2>3
  <2>4. CASE k # n
    <3>1. k + 1 \in 1..n /\ k + 1 - 1 = k
      BY <1>1, <2>4
    <3>2. F[off[k] + 1] = ":" /\ off[k + 1] = off[k] + Len(W(k + 1)) + 1
          /\ off[k + 1] <= Len(F) /\ Len(W(k + 1)) \in Nat
      <4> DEFINE m == k + 1
      <4>1. m \in 1..n /\ m - 1 = k
        BY <3>1
      <4> HIDE DEF m
      <4>2. F[off[m - 1] + 1] = ":" /\ off[m] = off[m - 1] + Len(W(m)) + 1
            /\ off[m] <= Len(F) /\ Len(W(m)) \in Nat
        BY <1>2, <1>8, <4>1
      <4> QED
        BY <4>1, <4>2 DEF m
    <3>3. off[k] \in 1..Len(F) - 1 /\ 1 + off[k] = off[k] + 1
      <4> DEFINE x == off[k]  y == off[k + 1]  z == off[k - 1]  f == Len(F)
                 w == Len(W(k))  v == Len(W(k + 1))
      <4>1. /\ z \in Nat /\ f \in Nat /\ w \in Nat /\ v \in Nat
            /\ x = z + w + 1 /\ y = x + v + 1 /\ y <= f
        BY <1>9, <2>1, <3>2
      <4> HIDE DEF x, y, z, f, w, v
      <4>2. x \in 1..f - 1 /\ 1 + x = x + 1
        BY <4>1
      <4> QED
        BY <4>2 DEF x, f
    <3> QED
      BY <1>11, <2>2, <3>2, <3>3
  <2> QED
    BY <2>2, <2>3, <2>4
<1>13. IsLaidOut(entries, text, off)
  <2>1. /\ off \in [0..n -> Nat] /\ off[0] = 0 /\ off[n] = Len(text)
        /\ \A k \in 1..n :
             /\ off[k] = off[k - 1] + Len(W(k)) + 1
             /\ off[k] <= Len(text)
             /\ \A j \in 1..Len(W(k)) : text[off[k - 1] + j] = W(k)[j]
             /\ text[off[k]] \in {":", Nul}
    BY <1>8, <1>9, <1>11, <1>12
  <2> QED
    BY <2>1, Zenon DEF IsLaidOut, n, W
<1> QED
  BY <1>13 DEF text

-----------------------------------------------------------------------------
(* What the parser reads at the beginning of an entry. *)

LEMMA SkipIs ==
  ASSUME NEW from \in Int, NEW to \in Int, NEW chars,
         from <= to, to <= Length, Length \in Int,
         At(to) \in chars, \A i \in from..to - 1 : At(i) \notin chars
  PROVE  Skip(from, chars) = to
<1> DEFINE S == {i \in from..Length : At(i) \in chars}
<1>1. to \in S /\ \A i \in S : to <= i
  <2>1. to \in from..Length
    OBVIOUS
  <2>2. ASSUME NEW i \in from..Length, At(i) \in chars PROVE to <= i
    <3>1. i \notin from..to - 1
      BY <2>2
    <3> QED
      BY <3>1
  <2> QED
    BY <2>1, <2>2
<1>2. S \subseteq Int
  OBVIOUS
<1> HIDE DEF S
<1>3. Min(S) \in S /\ Min(S) <= to
  BY <1>1 DEF Min
<1>4. Min(S) = to
  <2> DEFINE x == Min(S)
  <2>1. x \in Int /\ x <= to /\ to <= x
    BY <1>1, <1>2, <1>3
  <2> HIDE DEF x
  <2>2. x = to
    BY <2>1
  <2> QED
    BY <2>2 DEF x
<1> QED
  BY <1>4 DEF Skip, S

LEMMA TextIs ==
  ASSUME NEW s \in Seq(Characters), NEW from \in Nat, NEW to, to = from + Len(s),
         \A j \in 1..Len(s) : cpy[from + j] = s[j]
  PROVE  Text(from, to) = s
<1> DEFINE t == SubSeq(cpy, from + 1, to)
           n == Len(s)
<1>1. n \in Nat /\ s \in [1..n -> Characters] /\ to \in Int
  OBVIOUS
<1>2. \A j \in 1..n : cpy[from + j] = s[j]
  OBVIOUS
<1>3. \A i \in from + 1..to : cpy[i] \in Characters
  <2> TAKE i \in from + 1..to
  <2>1. i - from \in 1..n /\ from + (i - from) = i
    BY <1>1
  <2>2. cpy[from + (i - from)] = s[i - from] /\ s[i - from] \in Characters
    BY <1>1, <1>2, <2>1
  <2> QED
    BY <2>1, <2>2
<1>4. from + 1 \in Int
  OBVIOUS
<1> HIDE DEF n
<1>5. /\ t \in Seq(Characters)
      /\ Len(t) = IF from + 1 <= to THEN to - (from + 1) + 1 ELSE 0
      /\ \A i \in 1..to - (from + 1) + 1 : t[i] = cpy[from + 1 + i - 1]
  BY <1>1, <1>3, <1>4, SubSeqProperties
<1>6. Len(t) = n /\ \A j \in 1..n : t[j] = s[j]
  <2>1. to = from + n
    BY DEF n
  <2>2. to - (from + 1) + 1 = n /\ \A j \in 1..n : from + 1 + j - 1 = from + j
    BY <1>1, <2>1
  <2>3. Len(t) = n
    BY <1>1, <1>5, <2>1, <2>2
  <2>4. ASSUME NEW j \in 1..n PROVE t[j] = s[j]
    BY <1>2, <1>5, <2>2
  <2> QED
    BY <2>3, <2>4
<1> HIDE DEF t
<1>7. t = s
  <2>1. t \in [1..n -> Characters]
    BY <1>5, <1>6
  <2> QED
    BY <1>1, <1>6, <2>1
<1> QED
  BY <1>7 DEF t, Text

(* Where the parser is, and what it has before it. *)
Begun(off, k) ==
  /\ AreEntries(asked) /\ IsLaidOut(asked, cpy, off)
  /\ k \in 0..Len(asked) /\ parser.pos = off[k] /\ parser.last = off[k]

Ahead(off, k) ==
  LET e == asked[k + 1]
      W == Written(e)
      b == off[k]
  IN  /\ IsEntry(e) /\ Readable(e) /\ b \in Nat /\ Length \in Int /\ Len(W) \in Nat
      /\ off[k + 1] = b + Len(W) + 1 /\ b + Len(W) <= Length
      /\ \A j \in 1..Len(W) : cpy[b + j] = W[j]
      /\ cpy[b + Len(W) + 1] \in {":", Nul}

LEMMA IsAhead ==
  ASSUME NEW off, NEW k, Begun(off, k)
  PROVE  /\ k \in Nat /\ off[k] \in Nat /\ Length \in Int
         /\ k < Len(asked) => Ahead(off, k)
         /\ k = Len(asked) => off[k] > Length
<1> DEFINE n == Len(asked)
<1>1. n \in Nat /\ k \in 0..n /\ \A i \in 1..n : IsEntry(asked[i]) /\ Readable(asked[i])
  BY DEF Begun, AreEntries
<1>2. off \in [0..n -> Nat] /\ off[n] = Len(cpy)
  BY DEF Begun, IsLaidOut
<1>3. \A i \in 1..n :
        /\ off[i] = off[i - 1] + Len(Written(asked[i])) + 1
        /\ off[i] <= Len(cpy)
        /\ \A j \in 1..Len(Written(asked[i])) : cpy[off[i - 1] + j] = Written(asked[i])[j]
        /\ cpy[off[i]] \in {":", Nul}
  BY DEF Begun, IsLaidOut
<1> HIDE DEF n
<1>4. k \in Nat /\ off[k] \in Nat /\ Len(cpy) \in Nat /\ Length = Len(cpy) - 1
  <2>1. n \in 0..n
    BY <1>1
  <2> QED
    BY <1>1, <1>2, <2>1 DEF Length
<1>5. Length \in Int
  BY <1>4
<1>6. k = n => off[k] > Length
  BY <1>2, <1>4
<1>7. ASSUME k < n PROVE Ahead(off, k)
  <2> DEFINE m == k + 1
             w == Len(Written(asked[m]))
  <2>1. m \in 1..n /\ m - 1 = k
    BY <1>1, <1>7
  <2> HIDE DEF m
  <2>2. /\ off[m] = off[m - 1] + w + 1 /\ off[m] <= Len(cpy)
        /\ \A j \in 1..w : cpy[off[m - 1] + j] = Written(asked[m])[j]
        /\ cpy[off[m]] \in {":", Nul}
    BY <1>3, <2>1
  <2>3. IsEntry(asked[m]) /\ Readable(asked[m]) /\ w \in Nat
    <3>1. IsEntry(asked[m]) /\ Readable(asked[m])
      BY <1>1, <2>1
    <3>2. Written(asked[m]) \in Seq(Characters)
      BY <3>1, WrittenIs
    <3> QED
      BY <3>1, <3>2
  <2> HIDE DEF w
  <2>4. /\ off[m] = off[k] + w + 1 /\ off[k] + w <= Length
        /\ \A j \in 1..w : cpy[off[k] + j] = Written(asked[m])[j]
        /\ cpy[off[k] + w + 1] \in {":", Nul}
    <3>1. /\ off[m] = off[k] + w + 1
          /\ \A j \in 1..w : cpy[off[k] + j] = Written(asked[m])[j]
      BY <2>1, <2>2
    <3>2. off[k] + w <= Length
      BY <1>4, <2>2, <2>3, <3>1
    <3> QED
      BY <2>2, <3>1, <3>2
  <2> QED
    BY <1>4, <1>5, <2>3, <2>4 DEF Ahead, m, w
<1> QED
  BY <1>4, <1>5, <1>6, <1>7 DEF n

(* The name, the options and the end of the entry are found. *)
LEMMA EntryRead ==
  ASSUME NEW off, NEW k, Begun(off, k), k < Len(asked), NEW e, e = asked[k + 1]
  PROVE  /\ parser.pos < Length
         /\ EntryEnd + 1 = off[k + 1]
         /\ (parser.last < NameEnd /\ At(parser.last) = "-") <=> e.minus
         /\ e.minus => Text(parser.last + 1, NameEnd) = e.name
         /\ ~e.minus => Text(parser.last, NameEnd) = e.name
         /\ (IF HasOptions THEN Text(NameEnd + 1, OptionsEnd) ELSE NoOptions) = e.options
<1> DEFINE W == Written(e)
           b == off[k]
           m == Signs(e)
           n == Len(e.name)
           o == Len(e.options)
           end == b + m + n
           given == e.options # NoOptions
<1>1. /\ IsEntry(e) /\ Readable(e) /\ b \in Nat /\ Length \in Int /\ Len(W) \in Nat
      /\ off[k + 1] = b + Len(W) + 1 /\ b + Len(W) <= Length
      /\ \A j \in 1..Len(W) : cpy[b + j] = W[j]
      /\ cpy[b + Len(W) + 1] \in {":", Nul}
  BY IsAhead DEF Ahead
<1>2. /\ m \in {0, 1} /\ n \in Nat /\ o \in Nat
      /\ Len(W) = m + n + (IF given THEN o + 2 ELSE 0)
      /\ e.minus => W[1] = "-"
      /\ \A j \in 1..n : W[m + j] = e.name[j]
      /\ given => /\ W[m + n + 1] = "("
                  /\ \A j \in 1..o : W[m + n + (1 + j)] = e.options[j]
                  /\ W[m + n + (o + 2)] = ")"
  <2>1. IsEntry(e)
    BY <1>1
  <2>2. /\ m \in {0, 1} /\ n \in Nat /\ o \in Nat
        /\ Len(W) = m + n + (IF ~given THEN 0 ELSE o + 2)
        /\ e.minus => W[1] = "-"
        /\ \A j \in 1..n : W[m + j] = e.name[j]
    BY Zenon, <2>1, WrittenIs
  <2>3. given => /\ W[m + n + 1] = "("
                 /\ \A j \in 1..o : W[m + n + (1 + j)] = e.options[j]
                 /\ W[m + n + (o + 2)] = ")"
    BY Zenon, <2>1, WrittenIs
  <2>4. (IF ~given THEN 0 ELSE o + 2) = (IF given THEN o + 2 ELSE 0)
    OBVIOUS
  <2> QED
    BY Zenon, <2>2, <2>3, <2>4
<1>3. /\ e.name \in Seq(Characters) /\ e.options \in Seq(Characters)
      /\ e.minus \in BOOLEAN /\ (e.minus <=> m = 1)
  <2>1. /\ e.name \in Seq(Characters) /\ e.options \in Seq(Characters)
        /\ e.minus \in BOOLEAN
    BY <1>1 DEF IsEntry
  <2>2. m = IF e.minus THEN 1 ELSE 0
    BY DEF Signs
  <2> QED
    BY <2>1, <2>2
<1>4. /\ n >= 1
      /\ \A j \in 1..n : e.name[j] \notin {":", "(", Nul}
      /\ ~e.minus => e.name[1] # "-"
      /\ \A j \in 1..o : e.options[j] \notin {")", Nul}
  <2>1. e.name # <<>> /\ DOMAIN e.name = 1..n /\ DOMAIN e.options = 1..o
    BY <1>1, <1>3 DEF Readable
  <2>2. n >= 1
    BY <1>2, <1>3, <2>1
  <2> QED
    BY <1>1, <2>1, <2>2 DEF Readable, ToSet
<1>5. parser.pos = b /\ parser.last = b
  BY DEF Begun
<1> HIDE DEF W, b, m, n, o
<1>6. \A j \in 1..n : cpy[b + m + j] = e.name[j]
  <2> TAKE j \in 1..n
  <2>1. m + j \in 1..Len(W) /\ b + (m + j) = b + m + j
    BY <1>1, <1>2
  <2>2. cpy[b + (m + j)] = W[m + j]
    BY <1>1, <2>1
  <2> QED
    BY <1>2, <2>1, <2>2
<1>7. e.minus => cpy[b + 1] = "-"
  <2>1. 1 \in 1..Len(W)
    BY <1>1, <1>2, <1>4
  <2> QED
    BY <1>1, <1>2, <2>1
<1>8. end \in Int /\ end <= Length /\ b <= end /\ b + m \in Nat
  BY <1>1, <1>2
<1>9. /\ given => cpy[end + 1] = "("
      /\ ~given => cpy[end + 1] \in {":", Nul}
  <2>1. CASE given
    <3>1. m + n + 1 \in 1..Len(W) /\ b + (m + n + 1) = end + 1
      BY <1>1, <1>2, <2>1
    <3>2. cpy[b + (m + n + 1)] = W[m + n + 1]
      BY <1>1, <3>1
    <3> QED
      BY <1>2, <2>1, <3>1, <3>2
  <2>2. CASE ~given
    <3>1. b + Len(W) + 1 = end + 1
      BY <1>1, <1>2, <2>2
    <3> QED
      BY <1>1, <2>2, <3>1
  <2> QED
    BY <2>1, <2>2
<1> HIDE DEF end, given
<1>10. NameEnd = end
  <2>1. At(end) \in {":", Nul, "("}
    BY <1>9 DEF At
  <2>2. ASSUME NEW i \in b..end - 1 PROVE At(i) \notin {":", Nul, "("}
    <3>1. CASE i < b + m
      <4>1. m = 1 /\ i + 1 = b + 1
        BY <1>1, <1>2, <3>1
      <4> QED
        BY <1>3, <1>7, <4>1 DEF At, Nul
    <3>2. CASE i >= b + m
      <4>1. i + 1 - (b + m) \in 1..n /\ b + m + (i + 1 - (b + m)) = i + 1
        BY <1>1, <1>2, <3>2 DEF end
      <4>2. cpy[i + 1] = e.name[i + 1 - (b + m)]
        BY <1>6, <4>1
      <4> QED
        BY <1>4, <4>1, <4>2 DEF At
    <3>3. i < b + m \/ i >= b + m
      BY <1>1, <1>2
    <3> QED
      BY <3>1, <3>2, <3>3
  <2>3. Skip(b, {":", Nul, "("}) = end
    <3> DEFINE chars == {":", Nul, "("}
    <3>1. At(end) \in chars /\ \A i \in b..end - 1 : At(i) \notin chars
      BY <2>1, <2>2
    <3>2. b \in Int /\ end \in Int /\ b <= end /\ end <= Length /\ Length \in Int
      BY <1>1, <1>8
    <3> HIDE DEF chars
    <3>3. Skip(b, chars) = end
      BY <3>1, <3>2, SkipIs
    <3> QED
      BY <3>3 DEF chars
  <2> QED
    BY <1>5, <2>3 DEF NameEnd
<1>11. HasOptions <=> given
  BY <1>9, <1>10 DEF HasOptions, At, Nul
<1>12. (parser.last < NameEnd /\ At(parser.last) = "-") <=> e.minus
  <2>1. b < end
    BY <1>1, <1>2, <1>4 DEF end
  <2>2. CASE e.minus
    BY <1>5, <1>7, <1>10, <2>1, <2>2 DEF At
  <2>3. CASE ~e.minus
    <3>1. m = 0 /\ 1 \in 1..n /\ b + m + 1 = b + 1
      BY <1>1, <1>2, <1>3, <1>4, <2>3
    <3>2. cpy[b + 1] = e.name[1]
      BY <1>6, <3>1
    <3> QED
      BY <1>4, <1>5, <2>3, <3>2 DEF At
  <2> QED
    BY <2>2, <2>3
<1>13. Text(b + m, NameEnd) = e.name
  <2>1. NameEnd = (b + m) + n
    BY <1>10 DEF end
  <2> QED
    BY <1>3, <1>6, <1>8, <2>1, TextIs DEF n
<1>14. /\ e.minus => Text(parser.last + 1, NameEnd) = e.name
       /\ ~e.minus => Text(parser.last, NameEnd) = e.name
  <2>1. (e.minus => b + m = b + 1) /\ (~e.minus => b + m = b)
    BY <1>1, <1>2, <1>3
  <2> QED
    BY <1>5, <1>13, <2>1
<1>15. CASE ~given
  <2>1. e.options = NoOptions /\ ~HasOptions /\ EntryEnd = end
    BY <1>10, <1>11, <1>15 DEF given, EntryEnd
  <2>2. off[k + 1] = end + 1
    BY <1>1, <1>2, <1>15 DEF end
  <2>3. b < Length
    BY <1>1, <1>2, <1>4
  <2> QED
    BY <1>5, <1>12, <1>14, <2>1, <2>2, <2>3
<1>16. CASE given
  <2> DEFINE last == end + 1 + o
  <2>1. Len(W) = m + n + (o + 2) /\ off[k + 1] = last + 2 /\ last + 1 <= Length
    BY <1>1, <1>2, <1>16 DEF end
  <2>2. \A j \in 1..o : cpy[end + 1 + j] = e.options[j]
    <3> TAKE j \in 1..o
    <3>1. m + n + (1 + j) \in 1..Len(W) /\ b + (m + n + (1 + j)) = end + 1 + j
      <4>1. m \in Nat /\ n \in Nat /\ o \in Nat /\ b \in Nat /\ j \in 1..o
            /\ Len(W) = m + n + (o + 2) /\ end = b + m + n
        BY <1>1, <1>2, <2>1 DEF end
      <4> DEFINE w == Len(W)
      <4>2. w = m + n + (o + 2)
        BY <4>1
      <4> HIDE DEF w, last
      <4>3. m + n + (1 + j) \in 1..w
        BY <4>1, <4>2
      <4>4. b + (m + n + (1 + j)) = end + 1 + j
        BY <4>1
      <4> QED
        BY <4>3, <4>4 DEF w
    <3>2. cpy[b + (m + n + (1 + j))] = W[m + n + (1 + j)]
      BY <1>1, <3>1
    <3> QED
      BY <1>2, <1>16, <3>1, <3>2
  <2>3. cpy[last + 1] = ")" /\ cpy[last + 2] \in {":", Nul}
    <3>1. m + n + (o + 2) \in 1..Len(W) /\ b + (m + n + (o + 2)) = last + 1
      BY SMTT(30), <1>1, <1>2, <2>1 DEF end
    <3>2. cpy[b + (m + n + (o + 2))] = W[m + n + (o + 2)]
      BY <1>1, <3>1
    <3>3. b + Len(W) + 1 = last + 2
      BY <1>1, <1>2, <2>1 DEF end
    <3> QED
      BY <1>1, <1>2, <1>16, <3>1, <3>2, <3>3
  <2>4. last \in Int /\ last <= Length /\ end + 1 \in Nat /\ end + 1 <= last
        /\ last + 1 \in Int
    BY <1>1, <1>2, <2>1 DEF end
  <2> HIDE DEF last
  <2>5. OptionsEnd = last
    <3>1. At(last) \in {Nul, ")"}
      BY <2>3 DEF At
    <3>2. ASSUME NEW i \in end + 1..last - 1 PROVE At(i) \notin {Nul, ")"}
      <4>1. i - end \in 1..o /\ end + 1 + (i - end) = i + 1
        BY <1>2, <1>8, <2>4 DEF last
      <4>2. cpy[i + 1] = e.options[i - end]
        BY <2>2, <4>1
      <4> QED
        BY <1>4, <4>1, <4>2 DEF At
    <3>3. Skip(end + 1, {Nul, ")"}) = last
      <4> DEFINE chars == {Nul, ")"}
      <4>1. At(last) \in chars /\ \A i \in end + 1..last - 1 : At(i) \notin chars
        BY <3>1, <3>2
      <4>2. /\ end + 1 \in Int /\ last \in Int /\ end + 1 <= last /\ last <= Length
            /\ Length \in Int
        BY <1>1, <2>4
      <4> HIDE DEF chars
      <4>3. Skip(end + 1, chars) = last
        BY <4>1, <4>2, SkipIs
      <4> QED
        BY <4>3 DEF chars
    <3> QED
      BY <1>10, <3>3 DEF OptionsEnd
  <2>6. EntryEnd = last + 1
    <3>1. At(OptionsEnd) = ")" /\ HasOptions
      BY <1>11, <1>16, <2>3, <2>5 DEF At
    <3>2. At(last + 1) \in {":", Nul}
      <4>1. last + 1 + 1 = last + 2
        BY <2>4
      <4> QED
        BY <2>3, <4>1 DEF At
    <3>3. last + 1 <= last + 1 /\ (last + 1)..(last + 1) - 1 = {}
      BY <2>4
    <3>4. Skip(last + 1, {":", Nul}) = last + 1
      BY <1>1, <2>1, <2>4, <3>2, <3>3, SkipIs
    <3> QED
      BY <2>5, <3>1, <3>4 DEF EntryEnd
  <2>7. Text(NameEnd + 1, OptionsEnd) = e.options
    <3>1. OptionsEnd = (NameEnd + 1) + o /\ NameEnd + 1 \in Nat
      BY <1>10, <2>4, <2>5 DEF last
    <3>2. \A j \in 1..o : cpy[NameEnd + 1 + j] = e.options[j]
      BY <1>10, <2>2
    <3> QED
      BY <1>3, <3>1, <3>2, TextIs DEF o
  <2>8. b < Length
    BY <1>1, <1>2, <1>4
  <2>9. EntryEnd + 1 = off[k + 1]
    BY <2>1, <2>4, <2>6
  <2> QED
    BY <1>5, <1>11, <1>12, <1>14, <1>16, <2>7, <2>8, <2>9
<1> QED
  BY <1>15, <1>16

-----------------------------------------------------------------------------
(* The parser is at the beginning of an entry, or at the end, and the list *)
(* is what the entries before it have made of it: `steps' holds the list   *)
(* after each of them.                                                     *)
Made(steps, k) ==
  /\ steps[0] = before /\ steps[k] = list[parser.list]
  /\ \A i \in 1..k : steps[i] = Does(steps[i - 1], asked[i], parser.flags)

ConfigRead == ~Resting => \E off, k, steps : Begun(off, k) /\ Made(steps, k)

LEMMA ConfigBegins ==
  ASSUME Inv, NEW l \in Lists, NEW flags, AddConfig(l, flags)
  PROVE  ConfigRead'
<1>1. /\ asked' \in Configs /\ before' = list[l] /\ cpy' = Append(Joined(asked'), Nul)
      /\ parser' = [list |-> l, pos |-> 0, last |-> 0, flags |-> flags] /\ list' = list
  BY DEF AddConfig
<1>2. parser'.list = l /\ parser'.pos = 0 /\ parser'.last = 0 /\ parser'.flags = flags
  BY <1>1
<1>3. PICK entries : entries = asked'
  OBVIOUS
<1>4. AreEntries(entries)
  BY <1>1, <1>3, ConfigsAre
<1>5. PICK off : IsLaidOut(entries, Append(Joined(entries), Nul), off)
  BY <1>4, JoinedIsLaidOut
<1>6. Begun(off, 0)'
  <2>1. off[0] = 0 /\ 0 \in 0..Len(entries)
    BY <1>4, <1>5 DEF IsLaidOut, AreEntries
  <2>2. AreEntries(asked') /\ IsLaidOut(asked', cpy', off) /\ 0 \in 0..Len(asked')
    BY <1>1, <1>3, <1>4, <1>5, <2>1
  <2> QED
    BY <1>2, <2>1, <2>2 DEF Begun
<1>7. Made([i \in 0..0 |-> list[l]], 0)'
  BY <1>1, <1>2 DEF Made
<1> QED
  BY <1>6, <1>7 DEF ConfigRead

(* One round of the parser does to the list what the entry says. *)
LEMMA EntryDone ==
  ASSUME Inv, ParseEntry, NEW off, NEW k, Begun(off, k), k < Len(asked)
  PROVE  list'[parser.list] = Does(list[parser.list], asked[k + 1], parser.flags)
<1> DEFINE l == parser.list
           e == asked[k + 1]
<1>1. l \in Lists /\ list = [i \in Lists |-> list[i]]
  BY DEF Inv, ListsTyped, ParserTyped, ParseEntry, Resting
<1>2. /\ (parser.last < NameEnd /\ At(parser.last) = "-") <=> e.minus
      /\ e.minus => Text(parser.last + 1, NameEnd) = e.name
      /\ ~e.minus => Text(parser.last, NameEnd) = e.name
      /\ (IF HasOptions THEN Text(NameEnd + 1, OptionsEnd) ELSE NoOptions) = e.options
  BY EntryRead
<1> HIDE DEF e, l
<1>3. IF e.minus THEN PluginRemove(l, e.name)
      ELSE list' = [list EXCEPT ![l] = PluginAdd(@, e.name, e.options, parser.flags)]
  <2>1. IF parser.last < NameEnd /\ At(parser.last) = "-"
        THEN PluginRemove(l, Text(parser.last + 1, NameEnd))
        ELSE list' = [list EXCEPT ![l] =
                        PluginAdd(@, Text(parser.last, NameEnd),
                                  IF HasOptions THEN Text(NameEnd + 1, OptionsEnd)
                                  ELSE NoOptions, parser.flags)]
    BY DEF ParseEntry, l
  <2>2. CASE e.minus
    <3>1. PluginRemove(l, Text(parser.last + 1, NameEnd))
      BY <1>2, <2>1, <2>2
    <3> QED
      BY <1>2, <2>2, <3>1
  <2>3. CASE ~e.minus
    BY <1>2, <2>1, <2>3
  <2> QED
    BY <2>2, <2>3
<1>4. CASE e.minus
  <2>1. PluginRemove(l, e.name)
    BY <1>3, <1>4
  <2>2. list'[l] = Without(list[l], e.name)
    <3>1. CASE Has(list[l], e.name)
      <4>1. list' = [list EXCEPT ![l] = Without(@, e.name)]
        BY <2>1, <3>1 DEF PluginRemove
      <4> QED
        BY <1>1, <4>1
    <3>2. CASE ~Has(list[l], e.name)
      BY <2>1, <3>2 DEF PluginRemove, Without
    <3> QED
      BY <3>1, <3>2
  <2> QED
    BY <1>4, <2>2 DEF Does, e, l
<1>5. CASE ~e.minus
  BY <1>1, <1>3, <1>5 DEF Does, e, l
<1> QED
  BY <1>4, <1>5

LEMMA ConfigGoesOn ==
  ASSUME Inv, ConfigRead, ParseEntry
  PROVE  ConfigRead'
<1>1. PICK off, k, steps : Begun(off, k) /\ Made(steps, k)
  BY DEF ConfigRead, ParseEntry
<1>2. /\ k \in 0..Len(asked) /\ Len(asked) \in Nat /\ parser.pos = off[k]
      /\ k \in Nat /\ off[k] \in Nat /\ Length \in Int
  BY <1>1, IsAhead DEF Begun, AreEntries
<1>3. k < Len(asked)
  <2>1. parser.pos < Length
    BY DEF ParseEntry
  <2>2. k # Len(asked)
    BY <1>1, <1>2, <2>1, IsAhead
  <2> QED
    BY <1>2, <2>2
<1>4. EntryEnd + 1 = off[k + 1]
  BY <1>1, <1>3, EntryRead
<1>5. list'[parser.list] = Does(list[parser.list], asked[k + 1], parser.flags)
  BY <1>1, <1>3, EntryDone
<1>6. /\ asked' = asked /\ before' = before /\ cpy' = cpy
      /\ parser'.list = parser.list /\ parser'.flags = parser.flags
      /\ parser'.pos = off[k + 1] /\ parser'.last = off[k + 1]
  <2>1. parser' = [parser EXCEPT !.pos = EntryEnd + 1, !.last = EntryEnd + 1]
        /\ asked' = asked /\ before' = before /\ cpy' = cpy
    BY DEF ParseEntry
  <2>2. parser = [list |-> parser.list, pos |-> parser.pos, last |-> parser.last,
                  flags |-> parser.flags]
    BY DEF Inv, ParserTyped, ParseEntry, Resting
  <2> HIDE DEF EntryEnd
  <2>3. parser' = [list |-> parser.list, pos |-> EntryEnd + 1, last |-> EntryEnd + 1,
                   flags |-> parser.flags]
    BY <2>1, <2>2
  <2> QED
    BY <1>4, <2>1, <2>3
<1>7. Begun(off, k + 1)'
  <2>1. k + 1 \in 0..Len(asked)
    BY <1>2, <1>3
  <2>2. AreEntries(asked') /\ IsLaidOut(asked', cpy', off)
    BY <1>1, <1>6 DEF Begun
  <2> QED
    BY <1>6, <2>1, <2>2 DEF Begun
<1> DEFINE more == [i \in 0..k + 1 |->
                      IF i = k + 1 THEN Does(steps[k], asked[k + 1], parser.flags) ELSE steps[i]]
<1>8. \E s : Made(s, k + 1)'
  <2>1. /\ steps[0] = before /\ steps[k] = list[parser.list]
        /\ \A i \in 1..k : steps[i] = Does(steps[i - 1], asked[i], parser.flags)
    BY <1>1 DEF Made
  <2>2. more[0] = before
    BY <1>2, <2>1
  <2>3. more[k + 1] = Does(steps[k], asked[k + 1], parser.flags) /\ more[k] = steps[k]
    <3>1. k + 1 \in 0..k + 1 /\ k \in 0..k + 1 /\ k # k + 1
      BY <1>2
    <3> QED
      BY <3>1, Zenon
  <2>4. ASSUME NEW i \in 1..k + 1 PROVE more[i] = Does(more[i - 1], asked[i], parser.flags)
    <3>1. CASE i = k + 1
      <4>1. i - 1 = k
        BY <1>2, <3>1
      <4> HIDE DEF more
      <4> QED
        BY <2>3, <3>1, <4>1
    <3>2. CASE i # k + 1
      <4>1. i \in 1..k /\ i \in 0..k + 1 /\ i - 1 \in 0..k + 1 /\ i - 1 # k + 1
        BY <1>2, <3>2
      <4>2. more[i] = steps[i] /\ more[i - 1] = steps[i - 1]
        BY <3>2, <4>1, Zenon
      <4> QED
        BY <2>1, <4>1, <4>2
    <3> QED
      BY <3>1, <3>2
  <2> HIDE DEF more
  <2>5. PICK all : all = more
    OBVIOUS
  <2>6. /\ all[0] = before' /\ all[k + 1] = list'[parser'.list]
        /\ \A i \in 1..k + 1 : all[i] = Does(all[i - 1], asked'[i], parser'.flags)
    BY <1>5, <1>6, <2>1, <2>2, <2>3, <2>4, <2>5
  <2>7. Made(all, k + 1)'
    BY <2>6 DEF Made
  <2> QED
    BY <2>7
<1>9. \E o, i, s : (Begun(o, i) /\ Made(s, i))'
  BY <1>7, <1>8
<1> QED
  BY <1>9 DEF ConfigRead

LEMMA ConfigReadNext == Inv /\ ConfigRead /\ [Next]_vars => ConfigRead'
<1> SUFFICES ASSUME Inv, ConfigRead, [Next]_vars PROVE ConfigRead'
  OBVIOUS
<1>1. CASE Resting /\ UNCHANGED config
  BY <1>1 DEF ConfigRead, Resting, config
<1>2. ASSUME NEW l \in Lists, NEW flags, AddConfig(l, flags) PROVE ConfigRead'
  BY <1>2, ConfigBegins
<1>3. CASE ParseEntry
  BY <1>3, ConfigGoesOn
<1>4. CASE ConfigDone
  BY <1>4 DEF ConfigDone, ConfigRead, Resting
<1>5. CASE UNCHANGED vars
  BY <1>5 DEF vars, config, ConfigRead, Resting, Begun, Made
<1> QED
  BY <1>1, <1>2, <1>3, <1>4, <1>5
     DEF Next, RemovePlugin, AddPlugin, AddDefaults, RemoveHead, Extract

(* When a configuration has been applied, the list is what its entries     *)
(* make of it, one after the other, however many there are, whatever the   *)
(* plugins are called and whatever their options hold: the parser neither  *)
(* stops short, nor takes a part of the options for a name, nor loses the  *)
(* sign of an entry (EXTRACTOR_plugin_add_config).                         *)
THEOREM ConfigAlwaysApplied == Spec => []ConfigApplied
<1>1. Init => ConfigRead
  BY DEF Init, ConfigRead, Resting
<1>2. ConfigRead => ConfigApplied
  <2> SUFFICES ASSUME ConfigRead, ~Resting, parser.pos >= Length
               PROVE  list[parser.list] = FoldLeft(Applied, before, asked)
    BY DEF ConfigApplied
  <2>1. PICK off, k, steps : Begun(off, k) /\ Made(steps, k)
    BY DEF ConfigRead
  <2>2. /\ k \in 0..Len(asked) /\ Len(asked) \in Nat /\ DOMAIN asked = 1..Len(asked)
        /\ parser.pos = off[k] /\ k \in Nat /\ off[k] \in Nat /\ Length \in Int
    BY <2>1, IsAhead DEF Begun, AreEntries
  <2>3. k = Len(asked)
    <3>1. ~(k < Len(asked))
      <4>1. k < Len(asked) => parser.pos < Length
        BY <2>1, EntryRead
      <4> QED
        BY <2>2, <4>1
    <3> DEFINE n == Len(asked)
    <3>2. n \in Nat /\ k \in 0..n /\ ~(k < n)
      BY <2>2, <3>1
    <3> HIDE DEF n
    <3>3. k = n
      BY <3>2
    <3> QED
      BY <3>3 DEF n
  <2>4. /\ steps[0] = before /\ steps[k] = list[parser.list]
        /\ \A i \in 1..k : steps[i] = Does(steps[i - 1], asked[i], parser.flags)
    BY <2>1 DEF Made
  <2>5. FoldLeft(Applied, before, asked) = steps[k]
    BY <2>2, <2>3, <2>4, FoldIsLastStep
  <2> QED
    BY <2>4, <2>5
<1> QED
  BY <1>1, <1>2, ConfigReadNext, AlwaysInv, PTL DEF Spec
=============================================================================
