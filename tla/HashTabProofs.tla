---------------------------- MODULE HashTabProofs ----------------------------
(***************************************************************************)
(* The hash table, for any names, hash function, number of slots and supply  *)
(* of memory: its invariant and the map it implements.  Chains are followed   *)
(* without counting: no set of items links only to itself (Acyclic), so what  *)
(* holds of an item if it holds of the next one holds of all.                 *)
(***************************************************************************)
EXTENDS HashTab, TLAPS

Items == [Addresses -> [key : Heads, txt : Keys \cup {Null},
                        data : Data \cup {Null}, next : Pool \cup {Null}]]

\* Chain and Acyclic of any contents of the memory.
ChainOf(itm, a) ==
    LET C[b \in Addresses] ==
          IF itm[b].next = Null THEN <<b>> ELSE <<b>> \o C[itm[b].next]
    IN  C[a]
Founded(itm) == \A S \in SUBSET Addresses : S # {} => \E a \in S : itm[a].next \notin S

\* The addresses from a to the end of its chain.
IsPath(itm, a, c) ==
    /\ c \in Seq(Addresses) /\ Len(c) > 0
    /\ c[1] = a
    /\ \A i \in 1 .. Len(c) - 1 : itm[c[i]].next = c[i + 1]
    /\ itm[c[Len(c)]].next = Null

LEMMA NullApart == Null \notin Addresses /\ Null \notin Keys /\ Null \notin Data
BY PoolAssumption

\* A link leads to another address or ends the chain.
LEMMA NextType ==
  ASSUME NEW itm \in Items, NEW a \in Addresses
  PROVE  itm[a].next = Null \/ itm[a].next \in Addresses
BY DEF Items, Addresses

LEMMA PathOne ==
  ASSUME NEW itm \in Items, NEW a \in Addresses, itm[a].next = Null
  PROVE  IsPath(itm, a, <<a>>)
BY DEF IsPath

LEMMA PathMore ==
  ASSUME NEW itm \in Items, NEW a \in Addresses, NEW c,
         IsPath(itm, itm[a].next, c)
  PROVE  IsPath(itm, a, <<a>> \o c)
<1> DEFINE d == <<a>> \o c
<1>1. /\ d \in Seq(Addresses) /\ Len(d) = Len(c) + 1 /\ d[1] = a
      /\ \A i \in 1 .. Len(c) : d[i + 1] = c[i]
  BY DEF IsPath
<1>2. ASSUME NEW i \in 1 .. Len(d) - 1 PROVE itm[d[i]].next = d[i + 1]
  <2>1. CASE i = 1 BY <2>1, <1>1 DEF IsPath
  <2>2. CASE i > 1
    <3>1. i - 1 \in 1 .. Len(c) - 1 /\ d[i] = c[i - 1] /\ d[i + 1] = c[i]
      <4>1. i - 1 \in 1 .. Len(c) /\ i \in 1 .. Len(c) /\ (i - 1) + 1 = i BY <1>1, <2>2 DEF IsPath
      <4>2. d[(i - 1) + 1] = c[i - 1] BY <4>1, <1>1
      <4> QED BY <4>1, <4>2, <1>1 DEF IsPath
    <3>2. itm[c[i - 1]].next = c[(i - 1) + 1] BY <3>1 DEF IsPath
    <3> QED BY <3>1, <3>2
  <2> QED BY <2>1, <2>2, <1>1 DEF IsPath
<1>3. itm[d[Len(d)]].next = Null BY <1>1 DEF IsPath
<1> HIDE DEF d
<1>4. IsPath(itm, a, d) BY <1>1, <1>2, <1>3 DEF IsPath
<1> QED BY <1>4 DEF d

\* What is behind the first address of a path.
LEMMA PathTail ==
  ASSUME NEW itm \in Items, NEW a \in Addresses, NEW c, IsPath(itm, a, c)
  PROVE  \/ itm[a].next = Null /\ c = <<a>>
         \/ /\ itm[a].next \in Addresses
            /\ IsPath(itm, itm[a].next, Tail(c))
            /\ c = <<a>> \o Tail(c)
<1>1. CASE Len(c) = 1
  <2>1. c = <<a>> BY <1>1 DEF IsPath
  <2> QED BY <2>1 DEF IsPath
<1>2. CASE Len(c) > 1
  <2> DEFINE d == Tail(c)
  <2>1. /\ d \in Seq(Addresses) /\ Len(d) = Len(c) - 1
        /\ \A i \in 1 .. Len(d) : d[i] = c[i + 1]
    BY <1>2 DEF IsPath
  <2>2. c[2] = itm[a].next /\ c[2] \in Addresses /\ d[1] = c[2]
    BY <1>2, <2>1 DEF IsPath
  <2>3. ASSUME NEW i \in 1 .. Len(d) - 1 PROVE itm[d[i]].next = d[i + 1]
    BY <2>1 DEF IsPath
  <2>4. itm[d[Len(d)]].next = Null BY <1>2, <2>1 DEF IsPath
  <2>5. c = <<a>> \o d BY <2>1, <1>2 DEF IsPath
  <2> HIDE DEF d
  <2>6. IsPath(itm, itm[a].next, d) BY <1>2, <2>1, <2>2, <2>3, <2>4 DEF IsPath
  <2> QED BY <2>2, <2>5, <2>6 DEF d
<1> QED BY <1>1, <1>2 DEF IsPath

\* Where no set of items links only to itself, every chain ends,
LEMMA PathExists ==
  ASSUME NEW itm \in Items, Founded(itm)
  PROVE  \A a \in Addresses : \E c \in Seq(Addresses) : IsPath(itm, a, c)
<1> DEFINE S == {a \in Addresses : ~ \E c \in Seq(Addresses) : IsPath(itm, a, c)}
<1> SUFFICES ASSUME S # {} PROVE FALSE OBVIOUS
<1>1. PICK a \in S : itm[a].next \notin S BY DEF Founded
<1>2. CASE itm[a].next = Null
  BY <1>2, PathOne, <<a>> \in Seq(Addresses)
<1>3. CASE itm[a].next \in Addresses
  <2>1. PICK c \in Seq(Addresses) : IsPath(itm, itm[a].next, c) BY <1>1, <1>3
  <2>2. <<a>> \o c \in Seq(Addresses) OBVIOUS
  <2> QED BY <2>1, <2>2, PathMore
<1> QED BY <1>2, <1>3, NextType

\* in one way only.
LEMMA PathUnique ==
  ASSUME NEW itm \in Items, Founded(itm)
  PROVE  \A a \in Addresses : \A c, d : IsPath(itm, a, c) /\ IsPath(itm, a, d) => c = d
<1> DEFINE S == {a \in Addresses : \E c, d : IsPath(itm, a, c) /\ IsPath(itm, a, d) /\ c # d}
<1> SUFFICES ASSUME S # {} PROVE FALSE OBVIOUS
<1>1. PICK a \in S : itm[a].next \notin S BY DEF Founded
<1>2. PICK c, d : IsPath(itm, a, c) /\ IsPath(itm, a, d) /\ c # d OBVIOUS
<1>3. CASE itm[a].next = Null
  BY <1>2, <1>3, PathTail, NullApart
<1>4. CASE itm[a].next \in Addresses
  <2>1. /\ IsPath(itm, itm[a].next, Tail(c)) /\ c = <<a>> \o Tail(c)
        /\ IsPath(itm, itm[a].next, Tail(d)) /\ d = <<a>> \o Tail(d)
    BY <1>2, <1>4, PathTail, NullApart
  <2>2. Tail(c) = Tail(d) BY <1>1, <1>4, <2>1
  <2> QED BY <1>2, <2>1, <2>2
<1> QED BY <1>3, <1>4, NextType

\* The recursive definition of Chain has a solution, so Chain is the path.
LEMMA ChainIsPath ==
  ASSUME NEW itm \in Items, Founded(itm), NEW a \in Addresses
  PROVE  IsPath(itm, a, ChainOf(itm, a))
<1> DEFINE F == [b \in Addresses |-> CHOOSE c \in Seq(Addresses) : IsPath(itm, b, c)]
           C == CHOOSE f : f = [b \in Addresses |->
                  IF itm[b].next = Null THEN <<b>> ELSE <<b>> \o f[itm[b].next]]
<1>1. \A b \in Addresses : IsPath(itm, b, F[b]) BY PathExists
<1>2. ASSUME NEW b \in Addresses
      PROVE  F[b] = IF itm[b].next = Null THEN <<b>> ELSE <<b>> \o F[itm[b].next]
  <2> HIDE DEF F
  <2>1. CASE itm[b].next = Null BY <2>1, <1>1, PathTail, NullApart
  <2>2. CASE itm[b].next # Null
    <3>1. /\ itm[b].next \in Addresses
          /\ IsPath(itm, itm[b].next, Tail(F[b])) /\ F[b] = <<b>> \o Tail(F[b])
      BY <2>2, <1>1, PathTail
    <3>2. Tail(F[b]) = F[itm[b].next] BY <3>1, <1>1, PathUnique
    <3> QED BY <2>2, <3>1, <3>2
  <2> QED BY <2>1, <2>2
<1>3. F = [b \in Addresses |-> IF itm[b].next = Null THEN <<b>> ELSE <<b>> \o F[itm[b].next]]
  BY <1>2
<1>4. C = [b \in Addresses |-> IF itm[b].next = Null THEN <<b>> ELSE <<b>> \o C[itm[b].next]]
  <2> HIDE DEF F
  <2> QED BY <1>3
<1>5. ASSUME NEW b \in Addresses PROVE IsPath(itm, b, C[b])
  <2> HIDE DEF C, F
  <2> DEFINE S == {d \in Addresses : ~ IsPath(itm, d, C[d])}
  <2> SUFFICES ASSUME S # {} PROVE FALSE OBVIOUS
  <2>1. PICK d \in S : itm[d].next \notin S BY DEF Founded
  <2>2. CASE itm[d].next = Null BY <2>2, <1>4, PathOne
  <2>3. CASE itm[d].next \in Addresses
    <3>1. IsPath(itm, itm[d].next, C[itm[d].next]) BY <2>1, <2>3
    <3>2. C[d] = <<d>> \o C[itm[d].next] BY <2>3, <1>4, NullApart
    <3> QED BY <3>1, <3>2, PathMore
  <2> QED BY <2>2, <2>3, NextType
<1> QED BY <1>5 DEF ChainOf

LEMMA ChainIsThePath ==
  ASSUME NEW itm \in Items, Founded(itm), NEW a \in Addresses, NEW c, IsPath(itm, a, c)
  PROVE  ChainOf(itm, a) = c
BY ChainIsPath, PathUnique

\* No address comes twice in a chain.
LEMMA PathDistinct ==
  ASSUME NEW itm \in Items, Founded(itm), NEW a, NEW c, IsPath(itm, a, c),
         NEW i \in 1 .. Len(c), NEW j \in 1 .. Len(c), c[i] = c[j]
  PROVE  i = j
<1> SUFFICES ASSUME NEW p \in 1 .. Len(c), NEW q \in 1 .. Len(c), p < q, c[p] = c[q] PROVE FALSE
  BY DEF IsPath
<1> DEFINE S == {c[m] : m \in p .. q - 1}
<1>1. S \in SUBSET Addresses /\ S # {}
  <2>1. c[p] \in S BY DEF IsPath
  <2>2. \A m \in p .. q - 1 : c[m] \in Addresses BY DEF IsPath
  <2> QED BY <2>1, <2>2
<1>2. ASSUME NEW m \in p .. q - 1 PROVE itm[c[m]].next \in S
  <2>1. itm[c[m]].next = c[m + 1] BY DEF IsPath
  <2>2. CASE m + 1 = q BY <2>1, <2>2 DEF IsPath
  <2>3. CASE m + 1 < q
    <3>1. m + 1 \in p .. q - 1 BY <2>3
    <3> QED BY <2>1, <3>1
  <2> QED BY <2>2, <2>3 DEF IsPath
<1>3. \A s \in S : itm[s].next \in S BY <1>2
<1> QED BY <1>1, <1>3 DEF Founded

\* Chain, now and in the next state.
LEMMA ChainPath ==
  ASSUME item \in Items, Acyclic, NEW a \in Addresses
  PROVE  IsPath(item, a, Chain(a))
<1>1. Chain(a) = ChainOf(item, a) BY DEF Chain, ChainOf
<1> QED BY <1>1, ChainIsPath DEF Acyclic, Founded

LEMMA ChainPathNext ==
  ASSUME item' \in Items, Acyclic', NEW a \in Addresses, NEW c, IsPath(item', a, c)
  PROVE  Chain(a)' = c
<1>1. Chain(a)' = ChainOf(item', a) BY DEF Chain, ChainOf
<1>2. Founded(item') BY DEF Acyclic, Founded
<1> QED BY <1>1, <1>2, ChainIsThePath

-----------------------------------------------------------------------------
(* A chain grows at its end, or loses an item inside. *)

LEMMA FoundedSame ==
  ASSUME NEW itm, Founded(itm), NEW new, \A a \in Addresses : new[a].next = itm[a].next
  PROVE  Founded(new)
BY DEF Founded

LEMMA FoundedAppend ==
  ASSUME NEW itm, Founded(itm), NEW new, NEW e \in Addresses, NEW n \in Addresses, e # n,
         new[e].next = n, new[n].next = Null,
         \A a \in Addresses \ {e, n} : new[a].next = itm[a].next
  PROVE  Founded(new)
<1> SUFFICES ASSUME NEW S \in SUBSET Addresses, S # {} PROVE \E a \in S : new[a].next \notin S
  BY DEF Founded
<1>1. CASE n \in S BY <1>1, NullApart
<1>2. CASE n \notin S /\ e \in S BY <1>2
<1>3. CASE n \notin S /\ e \notin S BY <1>3 DEF Founded
<1> QED BY <1>1, <1>2, <1>3

LEMMA FoundedDrop ==
  ASSUME NEW itm, Founded(itm), NEW new, NEW p \in Addresses, NEW x \in Addresses, p # x,
         itm[p].next = x, new[p].next = itm[x].next,
         new[x].next \in {Null, itm[x].next},
         \A a \in Addresses \ {p, x} : new[a].next = itm[a].next
  PROVE  Founded(new)
<1> SUFFICES ASSUME NEW S \in SUBSET Addresses, S # {} PROVE \E a \in S : new[a].next \notin S
  BY DEF Founded
<1>1. PICK b \in S \cup {x} : itm[b].next \notin S \cup {x}
  <2>1. S \cup {x} \in SUBSET Addresses /\ S \cup {x} # {} OBVIOUS
  <2> QED BY <2>1, Zenon DEF Founded
<1>2. CASE p \in S
  <2>1. CASE b = x BY <2>1, <1>1, <1>2
  <2>2. CASE b # x BY <2>2, <1>1, <1>2
  <2> QED BY <2>1, <2>2
<1>3. CASE p \notin S
  <2>1. PICK d \in S : itm[d].next \notin S BY Zenon DEF Founded
  <2> QED BY <2>1, <1>3, NullApart
<1> QED BY <1>2, <1>3

LEMMA PathSame ==
  ASSUME NEW itm, NEW a, NEW c, IsPath(itm, a, c), NEW new,
         \A i \in 1 .. Len(c) : new[c[i]].next = itm[c[i]].next
  PROVE  IsPath(new, a, c)
BY DEF IsPath

LEMMA PathAppend ==
  ASSUME NEW itm, NEW a, NEW c, IsPath(itm, a, c), NEW new, NEW n \in Addresses,
         new[c[Len(c)]].next = n, new[n].next = Null,
         \A i \in 1 .. Len(c) - 1 : new[c[i]].next = itm[c[i]].next
  PROVE  IsPath(new, a, Append(c, n))
<1> DEFINE d == Append(c, n)
<1>1. /\ d \in Seq(Addresses) /\ Len(d) = Len(c) + 1 /\ d[Len(c) + 1] = n
      /\ \A i \in 1 .. Len(c) : d[i] = c[i]
  BY DEF IsPath
<1> HIDE DEF d
<1>2. ASSUME NEW i \in 1 .. Len(d) - 1 PROVE new[d[i]].next = d[i + 1]
  <2>1. CASE i = Len(c) BY <2>1, <1>1 DEF IsPath
  <2>2. CASE i < Len(c) BY <2>2, <1>1 DEF IsPath
  <2> QED BY <2>1, <2>2, <1>1 DEF IsPath
<1>3. IsPath(new, a, d) BY <1>1, <1>2 DEF IsPath
<1> QED BY <1>3 DEF d

\* A sequence without its element at p.
Drop(s, p) == [m \in 1 .. Len(s) - 1 |-> IF m < p THEN s[m] ELSE s[m + 1]]

LEMMA DropType ==
  ASSUME NEW S, NEW s \in Seq(S), Len(s) > 0, NEW p \in 1 .. Len(s)
  PROVE  /\ Drop(s, p) \in Seq(S) /\ Len(Drop(s, p)) = Len(s) - 1
         /\ DOMAIN Drop(s, p) = 1 .. Len(s) - 1
         /\ \A m \in 1 .. Len(s) - 1 : Drop(s, p)[m] = IF m < p THEN s[m] ELSE s[m + 1]
<1>1. Len(s) \in Nat /\ Len(s) - 1 \in Nat OBVIOUS
<1>2. \A m \in 1 .. Len(s) - 1 : (IF m < p THEN s[m] ELSE s[m + 1]) \in S OBVIOUS
<1>3. Drop(s, p) \in [1 .. Len(s) - 1 -> S] BY <1>2 DEF Drop
<1>4. /\ DOMAIN Drop(s, p) = 1 .. Len(s) - 1
      /\ \A m \in 1 .. Len(s) - 1 : Drop(s, p)[m] = IF m < p THEN s[m] ELSE s[m + 1]
  BY DEF Drop
<1>5. Drop(s, p) \in Seq(S) /\ Len(Drop(s, p)) = Len(s) - 1 BY <1>1, <1>3
<1> QED BY <1>4, <1>5

LEMMA PathDrop ==
  ASSUME NEW itm, NEW a, NEW c, IsPath(itm, a, c), NEW new, NEW p \in 2 .. Len(c),
         new[c[p - 1]].next = itm[c[p]].next,
         \A i \in 1 .. Len(c) : i \notin {p - 1, p} => new[c[i]].next = itm[c[i]].next
  PROVE  IsPath(new, a, Drop(c, p))
<1> DEFINE d == Drop(c, p)
<1>1. /\ d \in Seq(Addresses) /\ Len(d) = Len(c) - 1
      /\ \A m \in 1 .. Len(c) - 1 : d[m] = IF m < p THEN c[m] ELSE c[m + 1]
  BY DropType DEF IsPath
<1>2. Len(c) \in Nat /\ p \in Nat /\ \A i \in 1 .. Len(c) - 1 : itm[c[i]].next = c[i + 1]
  BY DEF IsPath
<1>e. itm[c[Len(c)]].next = Null BY DEF IsPath
<1> HIDE DEF d
<1>3. ASSUME NEW i \in 1 .. Len(d) - 1 PROVE new[d[i]].next = d[i + 1]
  <2>1. CASE i < p - 1
    <3>1. d[i] = c[i] /\ d[i + 1] = c[i + 1] BY <2>1, <1>1, <1>2
    <3> QED BY <2>1, <3>1, <1>1, <1>2
  <2>2. CASE i = p - 1
    <3>1. d[i] = c[p - 1] /\ d[i + 1] = c[p + 1] BY <2>2, <1>1, <1>2
    <3>2. p \in 1 .. Len(c) - 1 BY <2>2, <1>1, <1>2
    <3> QED BY <3>1, <3>2, <1>2
  <2>3. CASE i > p - 1
    <3>1. d[i] = c[i + 1] /\ d[i + 1] = c[(i + 1) + 1] BY <2>3, <1>1, <1>2
    <3>2. i + 1 \in 1 .. Len(c) - 1 /\ i + 1 \notin {p - 1, p} BY <2>3, <1>1, <1>2
    <3> QED BY <3>1, <3>2, <1>2
  <2> QED BY <2>1, <2>2, <2>3, <1>2
<1>4. new[d[Len(d)]].next = Null
  <2>1. CASE p = Len(c)
    <3>1. d[Len(d)] = c[p - 1] BY <2>1, <1>1, <1>2
    <3> QED BY <2>1, <3>1, <1>e
  <2>2. CASE p < Len(c)
    <3>1. d[Len(d)] = c[Len(c)] BY <2>2, <1>1, <1>2
    <3>2. Len(c) \in 1 .. Len(c) /\ Len(c) \notin {p - 1, p} BY <2>2, <1>2
    <3> QED BY <3>1, <3>2, <1>e
  <2> QED BY <2>1, <2>2, <1>2
<1>5. d[1] = a /\ Len(d) > 0 BY <1>1, <1>2 DEF IsPath
<1>6. IsPath(new, a, d) BY <1>1, <1>3, <1>4, <1>5 DEF IsPath
<1> QED BY <1>6 DEF d

-----------------------------------------------------------------------------
(* What a call does to the chains. *)

ChainsUsed == \A h \in Heads : \A i \in 1 .. Len(Chain(h)) : i > 1 => Chain(h)[i] \in used

Linked ==
    /\ item \in Items /\ used \subseteq Pool
    /\ Acyclic /\ FreeIsClear /\ ChainsApart /\ ChainsUsed

LEMMA Chains ==
  ASSUME Linked, NEW h \in Heads
  PROVE  /\ IsPath(item, h, Chain(h))
         /\ Chain(h) \in Seq(Addresses) /\ Len(Chain(h)) \in Nat /\ Len(Chain(h)) > 0
         /\ Chain(h)[1] = h
         /\ \A i \in 1 .. Len(Chain(h)) : Chain(h)[i] \in Addresses
         /\ \A i \in 1 .. Len(Chain(h)) : i > 1 => Chain(h)[i] \in used /\ Chain(h)[i] \in Pool
         /\ \A i, j \in 1 .. Len(Chain(h)) : Chain(h)[i] = Chain(h)[j] => i = j
<1>1. h \in Addresses BY DEF Addresses
<1>2. IsPath(item, h, Chain(h)) BY <1>1, ChainPath DEF Linked
<1>3. Founded(item) BY DEF Linked, Acyclic, Founded
<1>4. \A i, j \in 1 .. Len(Chain(h)) : Chain(h)[i] = Chain(h)[j] => i = j
  BY <1>2, <1>3, PathDistinct DEF Linked
<1>5. \A i \in 1 .. Len(Chain(h)) : i > 1 => Chain(h)[i] \in used BY DEF Linked, ChainsUsed
<1>6. used \subseteq Pool BY DEF Linked
<1> QED BY <1>2, <1>4, <1>5, <1>6 DEF IsPath

\* Two slots' chains share no address.
LEMMA Apart ==
  ASSUME Linked, NEW g \in Heads, NEW h \in Heads, g # h,
         NEW i \in 1 .. Len(Chain(g)), NEW j \in 1 .. Len(Chain(h))
  PROVE  Chain(g)[i] # Chain(h)[j]
<1>1. DOMAIN Chain(g) = 1 .. Len(Chain(g)) /\ DOMAIN Chain(h) = 1 .. Len(Chain(h)) BY Chains
<1> QED BY <1>1 DEF Linked, ChainsApart

\* No link changes.
LEMMA Relabelled ==
  ASSUME Linked, item' \in Items, used' = used,
         \A a \in Addresses : item'[a].next = item[a].next,
         \A a \in Pool \ used : item'[a] = item[a]
  PROVE  Linked' /\ \A g \in Heads : Chain(g)' = Chain(g)
<1>1. Acyclic' BY DEF Linked, Acyclic
<1>2. ASSUME NEW g \in Heads PROVE Chain(g)' = Chain(g)
  <2>1. IsPath(item', g, Chain(g)) BY Chains, PathSame
  <2> QED BY <2>1, <1>1, ChainPathNext DEF Addresses
<1>3. FreeIsClear' /\ (used \subseteq Pool)' BY DEF Linked, FreeIsClear
<1>4. ChainsApart' BY <1>2 DEF Linked, ChainsApart
<1>5. ChainsUsed' BY <1>2 DEF Linked, ChainsUsed
<1> QED BY <1>1, <1>2, <1>3, <1>4, <1>5 DEF Linked

\* A new item at the end of a chain.
LEMMA Grown ==
  ASSUME Linked, NEW h \in Heads, NEW n \in Pool \ used,
         item' \in Items, used' = used \cup {n},
         item'[n].next = Null,
         item'[Chain(h)[Len(Chain(h))]].next = n,
         \A a \in Addresses \ {n, Chain(h)[Len(Chain(h))]} : item'[a] = item[a]
  PROVE  /\ Linked'
         /\ \A g \in Heads : Chain(g)' = IF g = h THEN Append(Chain(g), n) ELSE Chain(g)
<1> DEFINE c == Chain(h)
           e == c[Len(c)]
<1>1. /\ e \in Addresses /\ n \in Addresses
      /\ \A g \in Heads : \A i \in 1 .. Len(Chain(g)) : Chain(g)[i] # n
  <2>1. e \in Addresses BY Chains
  <2>2. \A g \in Heads : \A i \in 1 .. Len(Chain(g)) : Chain(g)[i] # n
    BY Chains, PoolAssumption
  <2> QED BY <2>1, <2>2 DEF Addresses
<1>2. Len(c) \in 1 .. Len(c) BY Chains
<1>3. e # n BY <1>1, <1>2
<1>4. Acyclic'
  <2>1. Founded(item) BY DEF Linked, Acyclic, Founded
  <2>2. Founded(item') BY <2>1, <1>1, <1>3, FoundedAppend
  <2> QED BY <2>2 DEF Acyclic, Founded
<1>5. Chain(h)' = Append(c, n)
  <2>1. \A i \in 1 .. Len(c) - 1 : item'[c[i]].next = item[c[i]].next
    BY <1>1, <1>2, Chains
  <2>2. IsPath(item', h, Append(c, n)) BY <2>1, <1>1, Chains, PathAppend
  <2> QED BY <2>2, <1>4, ChainPathNext DEF Addresses
<1>6. ASSUME NEW g \in Heads, g # h PROVE Chain(g)' = Chain(g)
  <2>1. \A i \in 1 .. Len(Chain(g)) : Chain(g)[i] # e BY <1>2, <1>6, Apart
  <2>2. \A i \in 1 .. Len(Chain(g)) : item'[Chain(g)[i]].next = item[Chain(g)[i]].next
    BY <2>1, <1>1, Chains
  <2>3. IsPath(item', g, Chain(g)) BY <2>2, Chains, PathSame
  <2> QED BY <2>3, <1>4, ChainPathNext DEF Addresses
<1>7. FreeIsClear' /\ (used \subseteq Pool)'
  <2>1. e \notin Pool \ used BY <1>2, Chains, PoolAssumption
  <2> QED BY <2>1 DEF Linked, FreeIsClear, Addresses
<1>8. /\ Len(Append(c, n)) = Len(c) + 1 /\ Append(c, n)[Len(c) + 1] = n
      /\ \A i \in 1 .. Len(c) : Append(c, n)[i] = c[i]
      /\ DOMAIN Append(c, n) = 1 .. Len(c) + 1
  BY Chains, <1>1
<1>9. ChainsUsed'
  <2> SUFFICES ASSUME NEW g \in Heads, NEW i \in 1 .. Len(Chain(g)'), i > 1
               PROVE  Chain(g)'[i] \in used'
    BY DEF ChainsUsed
  <2>1. CASE g # h BY <2>1, <1>6, Chains
  <2>2. CASE g = h
    <3>1. i \in 1 .. Len(c) + 1 BY <2>2, <1>5, <1>8
    <3>2. CASE i = Len(c) + 1 BY <3>2, <2>2, <1>5, <1>8
    <3>3. CASE i \in 1 .. Len(c) BY <3>3, <2>2, <1>5, <1>8, Chains
    <3> QED BY <3>1, <3>2, <3>3, <1>2
  <2> QED BY <2>1, <2>2
<1>10. ChainsApart'
  <2> SUFFICES ASSUME NEW g \in Heads, NEW f \in Heads, g # f,
                      NEW i \in DOMAIN Chain(g)', NEW j \in DOMAIN Chain(f)',
                      Chain(g)'[i] = Chain(f)'[j]
               PROVE  FALSE
    BY DEF ChainsApart
  <2>1. ASSUME NEW b \in Heads, NEW m \in DOMAIN Chain(b)'
        PROVE  \/ m \in 1 .. Len(Chain(b)) /\ Chain(b)'[m] = Chain(b)[m]
               \/ b = h /\ Chain(b)'[m] = n
    <3>1. CASE b # h BY <3>1, <1>6, Chains
    <3>2. CASE b = h BY <3>2, <1>5, <1>8, <1>2
    <3> QED BY <3>1, <3>2
  <2> QED BY <2>1, <1>1, Apart
<1> HIDE DEF c, e
<1> QED BY <1>4, <1>5, <1>6, <1>7, <1>9, <1>10 DEF Linked, c

\* An item taken out of a chain, and freed or left behind.
LEMMA Shrunk ==
  ASSUME Linked, NEW h \in Heads, NEW p \in 2 .. Len(Chain(h)),
         item' \in Items, used' \subseteq used, used \ used' \subseteq {Chain(h)[p]},
         item'[Chain(h)[p - 1]].next = item[Chain(h)[p]].next,
         item'[Chain(h)[p]] = IF Chain(h)[p] \in used' THEN item[Chain(h)[p]] ELSE Cleared,
         \A a \in Addresses \ {Chain(h)[p], Chain(h)[p - 1]} : item'[a] = item[a]
  PROVE  /\ Linked'
         /\ \A g \in Heads : Chain(g)' = IF g = h THEN Drop(Chain(g), p) ELSE Chain(g)
<1> DEFINE c == Chain(h)
<1>1. /\ Len(c) \in Nat /\ p \in 1 .. Len(c) /\ p - 1 \in 1 .. Len(c)
      /\ c \in Seq(Addresses) /\ Len(c) > 0 /\ p \in Nat
  BY Chains
<1>2. /\ c[p] \in Addresses /\ c[p - 1] \in Addresses /\ c[p] # c[p - 1]
      /\ c[p] \in used /\ c[p] \in Pool
  BY <1>1, Chains
<1>3. item[c[p - 1]].next = c[p] BY <1>1, Chains DEF IsPath
<1>4. Acyclic'
  <2>1. Founded(item) BY DEF Linked, Acyclic, Founded
  <2>2. item'[c[p]].next \in {Null, item[c[p]].next} BY DEF Cleared
  <2>3. Founded(item') BY <2>1, <2>2, <1>2, <1>3, FoundedDrop
  <2> QED BY <2>3 DEF Acyclic, Founded
<1>5. Chain(h)' = Drop(c, p)
  <2>1. \A i \in 1 .. Len(c) : i \notin {p - 1, p} => item'[c[i]].next = item[c[i]].next
    BY <1>1, <1>2, Chains
  <2>2. IsPath(item', h, Drop(c, p)) BY <2>1, Chains, PathDrop
  <2> QED BY <2>2, <1>4, ChainPathNext DEF Addresses
<1>6. ASSUME NEW g \in Heads, g # h PROVE Chain(g)' = Chain(g)
  <2>1. \A i \in 1 .. Len(Chain(g)) : Chain(g)[i] \notin {c[p], c[p - 1]} BY <1>1, <1>6, Apart
  <2>2. \A i \in 1 .. Len(Chain(g)) : item'[Chain(g)[i]].next = item[Chain(g)[i]].next
    BY <2>1, Chains
  <2>3. IsPath(item', g, Chain(g)) BY <2>2, Chains, PathSame
  <2> QED BY <2>3, <1>4, ChainPathNext DEF Addresses
<1>7. FreeIsClear' /\ (used \subseteq Pool)'
  <2>1. ASSUME NEW a \in Pool \ used' PROVE item'[a] = Cleared
    <3>1. a \in Addresses BY DEF Addresses
    <3>2. CASE a = c[p] BY <3>2
    <3>3. CASE a # c[p]
      <4>1. a \notin used BY <3>3
      <4>2. a # c[p - 1] BY <4>1, <1>1, Chains, PoolAssumption
      <4> QED BY <4>1, <4>2, <3>1, <3>3 DEF Linked, FreeIsClear
    <3> QED BY <3>2, <3>3
  <2>2. used' \subseteq Pool BY DEF Linked
  <2>3. FreeIsClear' BY <2>1 DEF FreeIsClear
  <2> QED BY <2>2, <2>3
<1>8. /\ Len(Drop(c, p)) = Len(c) - 1 /\ DOMAIN Drop(c, p) = 1 .. Len(c) - 1
      /\ \A m \in 1 .. Len(c) - 1 : Drop(c, p)[m] = IF m < p THEN c[m] ELSE c[m + 1]
  <2> HIDE DEF c
  <2> QED BY <1>1, DropType
<1>9. ASSUME NEW b \in Heads, NEW m \in 1 .. Len(Chain(b)')
      PROVE  \E i \in 1 .. Len(Chain(b)) :
               /\ Chain(b)'[m] = Chain(b)[i]
               /\ m > 1 => i > 1
               /\ b = h => i # p
  <2>1. CASE b # h BY <2>1, <1>6
  <2>2. CASE b = h /\ m < p
    <3>1. m \in 1 .. Len(c) - 1 /\ m \in 1 .. Len(c) BY <2>2, <1>1, <1>5, <1>8
    <3>2. Chain(h)'[m] = c[m] BY <3>1, <2>2, <1>5, <1>8
    <3> QED BY <3>1, <3>2, <2>2, <1>1
  <2>3. CASE b = h /\ m >= p
    <3>1. m \in 1 .. Len(c) - 1 /\ m + 1 \in 1 .. Len(c) BY <2>3, <1>1, <1>5, <1>8
    <3>2. Chain(h)'[m] = c[m + 1] BY <3>1, <2>3, <1>1, <1>5, <1>8
    <3> QED BY <3>1, <3>2, <2>3, <1>1
  <2>4. m \in Nat
    <3>1. CASE b # h BY <3>1, <1>6, Chains
    <3>2. CASE b = h BY <3>2, <1>5, <1>8, <1>1
    <3> QED BY <3>1, <3>2
  <2> QED BY <2>1, <2>2, <2>3, <2>4, <1>1
<1>10. ChainsUsed'
  <2> SUFFICES ASSUME NEW g \in Heads, NEW i \in 1 .. Len(Chain(g)'), i > 1
               PROVE  Chain(g)'[i] \in used'
    BY DEF ChainsUsed
  <2>1. PICK j \in 1 .. Len(Chain(g)) : Chain(g)'[i] = Chain(g)[j] /\ j > 1 /\ (g = h => j # p)
    BY <1>9
  <2>2. Chain(g)[j] \in used BY <2>1, Chains
  <2>3. Chain(g)[j] # c[p]
    <3>1. CASE g = h BY <3>1, <2>1, <1>1, Chains
    <3>2. CASE g # h BY <3>2, <1>1, Apart
    <3> QED BY <3>1, <3>2
  <2> QED BY <2>1, <2>2, <2>3
<1>11. ChainsApart'
  <2> SUFFICES ASSUME NEW g \in Heads, NEW f \in Heads, g # f,
                      NEW i \in DOMAIN Chain(g)', NEW j \in DOMAIN Chain(f)',
                      Chain(g)'[i] = Chain(f)'[j]
               PROVE  FALSE
    BY DEF ChainsApart
  <2>1. ASSUME NEW b \in Heads PROVE DOMAIN Chain(b)' = 1 .. Len(Chain(b)')
    <3>1. CASE b # h BY <3>1, <1>6, Chains
    <3>2. CASE b = h BY <3>2, <1>5, <1>8
    <3> QED BY <3>1, <3>2
  <2>2. ASSUME NEW b \in Heads, NEW m \in DOMAIN Chain(b)'
        PROVE  \E k \in 1 .. Len(Chain(b)) : Chain(b)'[m] = Chain(b)[k]
    <3>1. m \in 1 .. Len(Chain(b)') BY <2>1
    <3> QED BY <3>1, <1>9
  <2>3. PICK k \in 1 .. Len(Chain(g)) : Chain(g)'[i] = Chain(g)[k] BY <2>2
  <2>4. PICK l \in 1 .. Len(Chain(f)) : Chain(f)'[j] = Chain(f)[l] BY <2>2
  <2>5. Chain(g)[k] = Chain(f)[l] BY <2>3, <2>4
  <2>6. Chain(g)[k] # Chain(f)[l] BY Apart
  <2> QED BY <2>5, <2>6
<1> HIDE DEF c
<1> QED BY <1>4, <1>5, <1>6, <1>7, <1>10, <1>11 DEF Linked, c

-----------------------------------------------------------------------------
(* The contents of a slot, and what lookups make of them. *)

Table == Linked /\ ItemsInv /\ SlotsInv /\ NamesOnce /\ item[0].data = Null

\* The positions of a slot's contents that lookups come to.
Names(h) == {i \in 1 .. Len(Contents(h)) : Named(h, i)}

LEMMA HashType == ASSUME NEW k \in Keys PROVE Hash[k] \in Heads /\ Hash[k] \in Addresses
BY HashAssumption DEF Addresses

LEMMA ContentsAre ==
  ASSUME Linked, ItemsInv, SlotsInv, NEW h \in Heads
  PROVE  /\ Contents(h) \in Seq(Data) /\ Len(Contents(h)) \in Nat
         /\ item[h].data = Null => Contents(h) = << >>
         /\ item[h].data # Null =>
              /\ Len(Contents(h)) = Len(Chain(h))
              /\ \A i \in 1 .. Len(Chain(h)) : item[Chain(h)[i]].data # Null
         /\ \A i \in 1 .. Len(Contents(h)) :
              /\ Contents(h)[i] = item[Chain(h)[i]].data
              /\ Contents(h)[i] \in Data /\ Contents(h)[i][1] \in Keys
              /\ item[Chain(h)[i]].txt \in {Contents(h)[i][1], Null}
              /\ Hash[Contents(h)[i][1]] = h /\ item[Chain(h)[i]].key = h
<1>1. CASE item[h].data = Null BY <1>1 DEF Contents
<1>2. CASE item[h].data # Null
  <2> DEFINE c == Chain(h)
             n == [i \in 1 .. Len(c) |-> item[c[i]].data]
  <2>1. Contents(h) = n BY <1>2 DEF Contents
  <2>2. /\ c \in Seq(Addresses) /\ Len(c) \in Nat /\ Len(c) > 0 /\ c[1] = h
        /\ DOMAIN c = 1 .. Len(c)
        /\ \A i \in 1 .. Len(c) : c[i] \in Addresses
    BY Chains
  <2>3. ASSUME NEW i \in 1 .. Len(c) PROVE item[c[i]].data # Null
    BY <1>2, <2>2 DEF SlotsInv
  <2>4. ASSUME NEW i \in 1 .. Len(c)
        PROVE /\ item[c[i]].data \in Data /\ item[c[i]].data[1] \in Keys
              /\ item[c[i]].txt \in {item[c[i]].data[1], Null}
              /\ Hash[item[c[i]].data[1]] = h /\ item[c[i]].key = h
    <3>1. /\ item[c[i]].data \in Data /\ item[c[i]].key = Hash[item[c[i]].data[1]]
          /\ item[c[i]].txt \in {item[c[i]].data[1], Null}
      BY <2>2, <2>3 DEF ItemsInv, Copies
    <3>2. Hash[item[c[i]].data[1]] = h BY <2>2, <2>3 DEF SlotsInv
    <3> QED BY <3>1, <3>2 DEF Data
  <2> HIDE DEF c
  <2>5. n \in Seq(Data) /\ Len(n) = Len(c) BY <2>2, <2>4
  <2> QED BY <1>2, <2>1, <2>2, <2>3, <2>4, <2>5 DEF c
<1> QED BY <1>1, <1>2

\* A nameless item ends them.
LEMMA NamesAre ==
  ASSUME Linked, ItemsInv, SlotsInv, NEW h \in Heads
  PROVE  /\ Names(h) \subseteq 1 .. Len(Contents(h))
         /\ \A i \in Names(h) : \A j \in 1 .. i : j \in Names(h)
         /\ \A i \in Names(h) : item[Chain(h)[i]].txt = Contents(h)[i][1]
         /\ \A i \in 1 .. Len(Contents(h)) :
              i \in Names(h) <=> \A m \in 1 .. i : item[Chain(h)[m]].txt # Null
<1>1. Len(Contents(h)) \in Nat BY ContentsAre
<1>2. \A i \in 1 .. Len(Contents(h)) :
        i \in Names(h) <=> \A m \in 1 .. i : item[Chain(h)[m]].txt # Null
  BY DEF Names, Named
<1>3. Names(h) \subseteq 1 .. Len(Contents(h)) BY DEF Names
<1>4. ASSUME NEW i \in Names(h), NEW j \in 1 .. i PROVE j \in Names(h)
  <2>1. i \in 1 .. Len(Contents(h)) /\ j \in 1 .. Len(Contents(h)) BY <1>1, <1>3
  <2>2. \A m \in 1 .. j : m \in 1 .. i BY <2>1
  <2> QED BY <2>1, <2>2, <1>2
<1>5. ASSUME NEW i \in Names(h) PROVE item[Chain(h)[i]].txt = Contents(h)[i][1]
  <2>1. i \in 1 .. Len(Contents(h)) /\ i \in 1 .. i BY <1>1, <1>3
  <2>2. item[Chain(h)[i]].txt # Null BY <2>1, <1>2
  <2> QED BY <2>1, <2>2, ContentsAre
<1> QED BY <1>2, <1>3, <1>4, <1>5

LEMMA NamesDiffer ==
  ASSUME Table, NEW h \in Heads, NEW i \in Names(h), NEW j \in 1 .. Len(Contents(h)),
         Contents(h)[i][1] = Contents(h)[j][1]
  PROVE  i = j
BY DEF Table, NamesOnce, Names

LEMMA MatchesAre ==
  ASSUME Table, NEW k \in Keys
  PROVE  Matches(k) = {i \in Names(Hash[k]) : Contents(Hash[k])[i][1] = k}
<1> DEFINE h == Hash[k]
           c == Chain(h)
<1>1. h \in Heads BY HashType
<1>2. DOMAIN c = 1 .. Len(c) /\ Len(c) \in Nat /\ Len(c) > 0 /\ c[1] = h
  BY <1>1, Chains DEF Table
<1>3. Matches(k) = {i \in 1 .. Len(c) : /\ item[c[i]].txt = k
                                        /\ \A j \in 1 .. i - 1 : item[c[j]].txt \notin {k, Null}}
  BY <1>2 DEF Matches
<1>n. /\ Names(h) \subseteq 1 .. Len(Contents(h))
      /\ \A i \in Names(h) : \A j \in 1 .. i : j \in Names(h)
      /\ \A i \in Names(h) : item[c[i]].txt = Contents(h)[i][1]
      /\ \A i \in 1 .. Len(Contents(h)) :
           i \in Names(h) <=> \A m \in 1 .. i : item[c[m]].txt # Null
  BY <1>1, NamesAre DEF Table
<1> HIDE DEF h, c
<1>4. CASE item[h].data = Null
  <2>1. Contents(h) = << >> BY <1>1, <1>4, ContentsAre DEF Table
  <2>2. item[h].txt = Null BY <1>1, <1>4, PoolAssumption DEF Table, ItemsInv, Addresses
  <2>3. ASSUME NEW i \in 1 .. Len(c), item[c[i]].txt = k,
               \A j \in 1 .. i - 1 : item[c[j]].txt \notin {k, Null}
        PROVE  FALSE
    <3>1. i # 1 BY <2>2, <2>3, <1>2, NullApart
    <3>2. 1 \in 1 .. i - 1 BY <3>1
    <3> QED BY <3>2, <2>2, <2>3, <1>2
  <2>4. Matches(k) = {} BY <1>3, <2>3
  <2>5. Names(h) = {} BY <2>1, <1>n
  <2> QED BY <2>4, <2>5 DEF h
<1>5. CASE item[h].data # Null
  <2>1. Len(Contents(h)) = Len(c) BY <1>1, <1>5, ContentsAre DEF Table, c
  <2>2. ASSUME NEW i \in Matches(k) PROVE i \in Names(h) /\ Contents(h)[i][1] = k
    <3>1. /\ i \in 1 .. Len(Contents(h)) /\ item[c[i]].txt = k /\ k # Null
          /\ \A j \in 1 .. i - 1 : item[c[j]].txt # Null
      BY <2>1, <1>3, NullApart
    <3>2. \A m \in 1 .. i : m = i \/ m \in 1 .. i - 1 BY <3>1, <2>1, <1>2
    <3>3. i \in Names(h) BY <3>1, <3>2, <1>n
    <3> QED BY <3>1, <3>3, <1>n
  <2>3. ASSUME NEW i \in Names(h), Contents(h)[i][1] = k PROVE i \in Matches(k)
    <3>1. i \in 1 .. Len(c) /\ item[c[i]].txt = k BY <2>1, <2>3, <1>n
    <3>2. ASSUME NEW j \in 1 .. i - 1 PROVE item[c[j]].txt \notin {k, Null}
      <4>1. j \in 1 .. i /\ j # i /\ j \in Names(h) BY <3>1, <1>2, <1>n
      <4>2. Contents(h)[j][1] # k BY <4>1, <1>1, <1>n, <2>3, NamesDiffer
      <4>3. item[c[j]].txt = Contents(h)[j][1] /\ item[c[j]].txt # Null
        <5>1. j \in 1 .. Len(Contents(h)) /\ j \in 1 .. j BY <4>1, <1>n, <1>2, <2>1
        <5> QED BY <4>1, <5>1, <1>n
      <4> QED BY <4>2, <4>3
    <3> QED BY <3>1, <3>2, <1>3
  <2> QED BY <2>2, <2>3 DEF h
<1> QED BY <1>4, <1>5

LEMMA LookupIs ==
  ASSUME Table, NEW k \in Keys
  PROVE  /\ \A i \in Matches(k) : Lookup(k) = Contents(Hash[k])[i] /\ Lookup(k) \in Data
         /\ Matches(k) = {} => Lookup(k) = Null
         /\ \A i, j \in Matches(k) : i = j
<1> DEFINE h == Hash[k]
<1>1. h \in Heads BY HashType
<1>2. \A i, j \in Matches(k) : i = j
  <2>1. Names(h) \subseteq 1 .. Len(Contents(h)) BY DEF Names
  <2> QED BY <1>1, <2>1, MatchesAre, NamesDiffer
<1>3. ASSUME NEW i \in Matches(k) PROVE Lookup(k) = Contents(h)[i] /\ Lookup(k) \in Data
  <2>1. (CHOOSE m \in Matches(k) : TRUE) = i BY <1>2
  <2>2. Lookup(k) = item[Chain(h)[i]].data BY <2>1 DEF Lookup
  <2>3. i \in 1 .. Len(Contents(h)) BY MatchesAre DEF Names
  <2> QED BY <1>1, <2>2, <2>3, ContentsAre DEF Table
<1> QED BY <1>2, <1>3 DEF Lookup

\* A lookup finds a name exactly if it comes to it in its slot, with what that holds.
FoundIn(k, s, n) ==
    /\ Lookup(k) \in Data \cup {Null}
    /\ Lookup(k) # Null <=> \E i \in n : s[i][1] = k
    /\ \A i \in n : s[i][1] = k => Lookup(k) = s[i]

AllFound == \A k \in Keys : FoundIn(k, Contents(Hash[k]), Names(Hash[k]))

LEMMA Found == Table => AllFound
<1> SUFFICES ASSUME Table, NEW k \in Keys PROVE FoundIn(k, Contents(Hash[k]), Names(Hash[k]))
  BY DEF AllFound
<1>1. Matches(k) = {i \in Names(Hash[k]) : Contents(Hash[k])[i][1] = k}
  BY MatchesAre
<1>2. CASE Matches(k) = {} BY <1>2, <1>1, LookupIs DEF FoundIn
<1>3. CASE Matches(k) # {}
  <2>1. PICK i \in Matches(k) : TRUE BY <1>3
  <2>2. Lookup(k) = Contents(Hash[k])[i] /\ Lookup(k) \in Data BY LookupIs
  <2>3. \A j \in Matches(k) : j = i BY LookupIs
  <2> QED BY <1>1, <2>1, <2>2, <2>3, NullApart DEF FoundIn
<1> QED BY <1>2, <1>3

LEMMA FoundNext == Table' => AllFound'
BY Found, PTL

\* So the contents and the positions that lookups come to decide what they find,
LEMMA SameContents ==
  ASSUME Table, Table', NEW k \in Keys,
         Contents(Hash[k])' = Contents(Hash[k]), Names(Hash[k])' = Names(Hash[k])
  PROVE  Lookup(k)' = Lookup(k)
<1>1. FoundIn(k, Contents(Hash[k]), Names(Hash[k])) BY Found DEF AllFound
<1>2. FoundIn(k, Contents(Hash[k]), Names(Hash[k]))' BY FoundNext DEF AllFound
<1> QED BY <1>1, <1>2, NullApart DEF FoundIn

\* what is lost, but for the chain behind the first slot's empty head,
Nameless(h) == {item[Chain(h)[i]].data : i \in {j \in DOMAIN Chain(h) : ~ Named(h, j)}}
LostOf(h) == Nameless(h) \ {Null}
Unnamed(h) == {Contents(h)[i] : i \in 1 .. Len(Contents(h)) \ Names(h)}
LostIs == Lost = LostOf(0) \cup (UNION {Unnamed(h) : h \in Heads})
\* and where an insertion is lost.
DeafIs ==
    \A h \in Heads : Deaf(h) <=> h = 0 \/ Unnamed(h) # {}

LEMMA LostFrom == Table => LostIs
<1> SUFFICES ASSUME Table PROVE LostIs OBVIOUS
<1>1. 0 \in Heads /\ Linked /\ ItemsInv /\ SlotsInv BY SlotsAssumption DEF Heads, Table
<1>2. Lost = UNION {LostOf(h) : h \in Heads}
  <2>1. Lost = (UNION {Nameless(h) : h \in Heads}) \ {Null} BY DEF Lost, Nameless
  <2> QED BY <2>1 DEF LostOf
<1>3. ASSUME NEW h \in Heads, h # 0 PROVE LostOf(h) = Unnamed(h)
  <2>1. /\ DOMAIN Chain(h) = 1 .. Len(Chain(h)) /\ Len(Chain(h)) \in Nat /\ Chain(h)[1] = h
        /\ Len(Chain(h)) > 0
    BY <1>1, Chains
  <2>2. CASE item[h].data = Null
    <3>1. item[h].next = Null /\ Contents(h) = << >> BY <1>1, <1>3, <2>2, ContentsAre DEF SlotsInv
    <3>2. Len(Chain(h)) = 1
      <4>1. IsPath(item, h, Chain(h)) BY <1>1, Chains
      <4> QED BY <4>1, <3>1, <2>1, <1>1, Chains, NullApart DEF IsPath
    <3>3. LostOf(h) = {} BY <3>2, <2>1, <2>2 DEF LostOf, Nameless
    <3>4. Unnamed(h) = {} BY <3>1 DEF Unnamed
    <3> QED BY <3>3, <3>4
  <2>3. CASE item[h].data # Null
    <3>1. /\ Len(Contents(h)) = Len(Chain(h))
          /\ \A i \in 1 .. Len(Chain(h)) : Contents(h)[i] = item[Chain(h)[i]].data
          /\ \A i \in 1 .. Len(Chain(h)) : Contents(h)[i] # Null
      BY <1>1, <2>3, ContentsAre
    <3>2. \A i \in 1 .. Len(Chain(h)) : Named(h, i) <=> i \in Names(h) BY <3>1 DEF Names
    <3> QED BY <3>1, <3>2, <2>1 DEF LostOf, Nameless, Unnamed
  <2> QED BY <2>2, <2>3
<1>4. Unnamed(0) = {}
  <2>1. Contents(0) = << >> BY <1>1, ContentsAre DEF Table
  <2> QED BY <2>1 DEF Unnamed
<1>5. \A h \in Heads : LostOf(h) \subseteq LostOf(0) \cup Unnamed(h) BY <1>3
<1>6. \A h \in Heads : Unnamed(h) \subseteq LostOf(h) BY <1>3, <1>4
<1>7. UNION {LostOf(h) : h \in Heads} = LostOf(0) \cup (UNION {Unnamed(h) : h \in Heads})
  BY <1>1, <1>5, <1>6
<1> QED BY <1>2, <1>7 DEF LostIs

LEMMA DeafFrom == Table => DeafIs
<1> SUFFICES ASSUME Table, NEW h \in Heads
             PROVE  Deaf(h) <=> h = 0 \/ \E i \in 1 .. Len(Contents(h)) : i \notin Names(h)
  BY DEF DeafIs, Unnamed
<1>1. Linked /\ ItemsInv /\ SlotsInv /\ h \in Addresses BY DEF Table, Addresses
<1>2. /\ DOMAIN Chain(h) = 1 .. Len(Chain(h)) /\ Len(Chain(h)) \in Nat /\ Chain(h)[1] = h
      /\ Len(Chain(h)) > 0
  BY <1>1, Chains
<1>3. CASE item[h].data = Null
  <2>1. item[h].txt = Null /\ item[h].key = 0 BY <1>1, <1>3, PoolAssumption DEF ItemsInv
  <2>2. Contents(h) = << >> BY <1>1, <1>3, ContentsAre
  <2>3. CASE h = 0 BY <2>1, <2>3, <1>2 DEF Deaf
  <2>4. CASE h # 0
    <3>1. IsPath(item, h, Chain(h)) /\ item[h].next = Null BY <1>1, <1>3, <2>4, Chains DEF SlotsInv
    <3>2. Len(Chain(h)) = 1 BY <3>1, <1>1, <1>2, Chains, NullApart DEF IsPath
    <3> QED BY <3>2, <2>1, <2>2, <2>4, <1>2 DEF Deaf
  <2> QED BY <2>3, <2>4
<1>4. CASE item[h].data # Null
  <2>0. h # 0 BY <1>4 DEF Table
  <2>1. /\ Len(Contents(h)) = Len(Chain(h))
        /\ \A i \in 1 .. Len(Chain(h)) : item[Chain(h)[i]].key = h
    BY <1>1, <1>4, ContentsAre
  <2>2. \A i \in 1 .. Len(Chain(h)) :
          i \in Names(h) <=> \A m \in 1 .. i : item[Chain(h)[m]].txt # Null
    BY <1>1, <2>1, NamesAre
  <2>3. ASSUME NEW i \in 1 .. Len(Chain(h)), item[Chain(h)[i]].txt = Null PROVE i \notin Names(h)
    BY <2>2, <2>3, <1>2
  <2>4. ASSUME NEW i \in 1 .. Len(Chain(h)), i \notin Names(h) PROVE Deaf(h)
    <3>1. PICK m \in 1 .. i : item[Chain(h)[m]].txt = Null BY <2>2, <2>4
    <3>2. m \in 1 .. Len(Chain(h)) BY <1>2
    <3> QED BY <3>1, <3>2, <2>1, <1>2 DEF Deaf
  <2> QED BY <2>0, <2>1, <2>3, <2>4, <1>2 DEF Deaf
<1> QED BY <1>3, <1>4

LEMMA ReadNext == Table' => LostIs' /\ DeafIs'
BY LostFrom, DeafFrom, PTL

-----------------------------------------------------------------------------
(* What each call does to the contents. *)

Same(g) == Contents(g)' = Contents(g) /\ Names(g)' = Names(g) /\ LostOf(g)' = LostOf(g)

\* Slots whose items keep their names and data keep their contents.
LEMMA SameSlot ==
  ASSUME Linked, NEW g \in Heads, Chain(g)' = Chain(g),
         \A i \in 1 .. Len(Chain(g)) : /\ item'[Chain(g)[i]].txt = item[Chain(g)[i]].txt
                                       /\ item'[Chain(g)[i]].data = item[Chain(g)[i]].data
  PROVE  Same(g)
<1>1. /\ DOMAIN Chain(g) = 1 .. Len(Chain(g)) /\ 1 \in 1 .. Len(Chain(g)) /\ Chain(g)[1] = g
      /\ Len(Chain(g)) \in Nat
  BY Chains
<1>2. item'[g].data = item[g].data BY <1>1
<1>3. Contents(g)' = Contents(g) BY <1>2 DEF Contents
<1>4. ASSUME NEW i \in 1 .. Len(Chain(g)) PROVE Named(g, i)' <=> Named(g, i)
  <2>1. \A m \in 1 .. i : m \in 1 .. Len(Chain(g)) BY <1>1
  <2> QED BY <2>1 DEF Named
<1>5. Names(g)' = Names(g)
  <2>1. \A i \in 1 .. Len(Contents(g)) : i \in 1 .. Len(Chain(g))
    <3>1. CASE item[g].data = Null
      <4>1. Contents(g) = << >> BY <3>1 DEF Contents
      <4> QED BY <4>1
    <3>2. CASE item[g].data # Null
      <4>1. Contents(g) = [i \in 1 .. Len(Chain(g)) |-> item[Chain(g)[i]].data] BY <3>2 DEF Contents
      <4>2. Len(Contents(g)) = Len(Chain(g)) BY <4>1, <1>1
      <4> QED BY <4>2
    <3> QED BY <3>1, <3>2
  <2> QED BY <2>1, <1>3, <1>4 DEF Names
<1>6. Nameless(g)' = Nameless(g)
  <2> DEFINE at == {j \in DOMAIN Chain(g) : ~ Named(g, j)}
  <2>1. at' = at /\ at \subseteq 1 .. Len(Chain(g)) BY <1>1, <1>4
  <2> HIDE DEF at
  <2>2. \A i \in at : item'[Chain(g)[i]].data = item[Chain(g)[i]].data BY <2>1
  <2>3. Nameless(g) = {item[Chain(g)[i]].data : i \in at} BY DEF Nameless, at
  <2>4. Nameless(g)' = {item'[Chain(g)'[i]].data : i \in at'} BY DEF Nameless, at
  <2> QED BY <2>1, <2>2, <2>3, <2>4
<1> QED BY <1>3, <1>5, <1>6 DEF Same, LostOf

\* A slot whose chain and items stay has what it needs.
LEMMA SlotStays ==
  ASSUME Linked, SlotsInv, NEW g \in Heads, Chain(g)' = Chain(g),
         item'[g].next = item[g].next \/ item[g].data # Null,
         \A i \in 1 .. Len(Chain(g)) : item'[Chain(g)[i]].data = item[Chain(g)[i]].data
  PROVE  /\ item'[g].data = Null /\ g # 0 => item'[g].next = Null
         /\ \A i \in DOMAIN Chain(g)' :
              /\ i > 1 => item'[Chain(g)'[i]].data # Null
              /\ item'[Chain(g)'[i]].data # Null => Hash[item'[Chain(g)'[i]].data[1]] = g
<1>1. DOMAIN Chain(g) = 1 .. Len(Chain(g)) /\ 1 \in 1 .. Len(Chain(g)) /\ Chain(g)[1] = g
  BY Chains
<1>2. item'[g].data = item[g].data BY <1>1
<1> QED BY <1>1, <1>2 DEF SlotsInv

\* The contents of a slot are still each name once.
Once(h) == \A i \in Names(h) : \A j \in 1 .. Len(Contents(h)) :
             Contents(h)[i][1] = Contents(h)[j][1] => i = j
AllOnce == (\A h \in Heads : Once(h)) => NamesOnce
LEMMA OnceAll == AllOnce
BY DEF AllOnce, Once, NamesOnce, Names
LEMMA OnceAllNext == AllOnce'
BY OnceAll, PTL
LEMMA OnceNow == ASSUME NamesOnce, NEW h \in Heads PROVE Once(h)
BY DEF Once, NamesOnce, Names
LEMMA OnceSame ==
  ASSUME NamesOnce, NEW h \in Heads, Same(h)
  PROVE  Once(h)'
<1>1. Once(h) BY OnceNow
<1> QED BY <1>1 DEF Same, Once

LEMMA EntryType ==
  ASSUME NEW k \in Keys, NEW v \in Values, NEW t \in Copies(k)
  PROVE  /\ Entry(k, v, t) \in [key : Heads, txt : Keys \cup {Null},
                                data : Data \cup {Null}, next : Pool \cup {Null}]
         /\ Entry(k, v, t).key = Hash[k] /\ Entry(k, v, t).txt = t /\ t \in {k, Null}
         /\ Entry(k, v, t).data = <<k, v>> /\ Entry(k, v, t).next = Null
         /\ <<k, v>> \in Data /\ <<k, v>>[1] = k /\ <<k, v>> # Null
BY HashType, NullApart DEF Entry, Data, Copies

\* What was inserted is behind what its slot held; lookups come to it only if they
\* come to all of that.
Appended(k, v) ==
    /\ Hash[k] # 0
    /\ Contents(Hash[k])' = Append(Contents(Hash[k]), <<k, v>>)
    /\ \/ Names(Hash[k])' = Names(Hash[k])
       \/ /\ Names(Hash[k]) = 1 .. Len(Contents(Hash[k]))
          /\ Names(Hash[k])' = 1 .. Len(Contents(Hash[k])) + 1

LEMMA AppendedOnce ==
  ASSUME Table, NEW k \in Keys, NEW v \in Values, Lookup(k) = Null, Appended(k, v)
  PROVE  Once(Hash[k])'
<1>1. PICK h \in Heads : h = Hash[k] BY HashType
<1> DEFINE s == Contents(h)
           n == Names(h)
<1>2. s \in Seq(Data) /\ Len(s) \in Nat BY <1>1, ContentsAre DEF Table
<1>3. n \subseteq 1 .. Len(s) BY DEF Names
<1>4. \A i \in n : s[i][1] # k BY <1>1, Found DEF AllFound, FoundIn
<1>5. \A i \in n : \A j \in 1 .. Len(s) : s[i][1] = s[j][1] => i = j
  BY <1>1, OnceNow DEF Table, Once
<1>6. /\ Contents(h)' = Append(s, <<k, v>>)
      /\ \/ n' = n
         \/ n = 1 .. Len(s) /\ n' = 1 .. Len(s) + 1
  BY <1>1 DEF Appended
<1> HIDE DEF s, n
<1> DEFINE z == Append(s, <<k, v>>)
<1>7. /\ Len(z) = Len(s) + 1 /\ z[Len(s) + 1][1] = k
      /\ \A i \in 1 .. Len(s) : z[i] = s[i]
  BY <1>2
<1> HIDE DEF z
<1>8. ASSUME NEW i \in n', NEW j \in 1 .. Len(z), z[i][1] = z[j][1] PROVE i = j
  <2>1. j \in 1 .. Len(s) \/ j = Len(s) + 1 BY <1>2, <1>7
  <2>2. CASE n' = n
    <3>1. i \in n /\ i \in 1 .. Len(s) BY <2>2, <1>3
    <3> QED BY <3>1, <2>1, <1>4, <1>5, <1>7, <1>8
  <2>3. CASE n = 1 .. Len(s) /\ n' = 1 .. Len(s) + 1
    <3>1. i \in n \/ i = Len(s) + 1 BY <2>3, <1>2
    <3> QED BY <3>1, <2>1, <2>3, <1>4, <1>5, <1>7, <1>8
  <2> QED BY <2>2, <2>3, <1>6
<1> QED BY <1>1, <1>6, <1>8 DEF Once, s, n, z

LEMMA InsertBehindEffect ==
  ASSUME Table, NEW k \in Keys, NEW v \in Values, InsertBehind(k, v)
  PROVE  /\ Table'
         /\ \A g \in Heads : g # Hash[k] => Same(g)
         /\ \/ /\ Hash[k] = 0 /\ LostOf(0)' = LostOf(0) \cup {<<k, v>>}
               /\ Contents(0)' = Contents(0) /\ Names(0)' = Names(0)
            \/ Appended(k, v)
<1>1. PICK h \in Heads : h = Hash[k] /\ 0 \in Heads BY HashType, SlotsAssumption DEF Heads
<1> DEFINE c == Chain(h)
           e == c[Len(c)]
<1>2. PICK n \in Pool \ used, t \in Copies(k) :
        /\ item' = [item EXCEPT ![n] = Entry(k, v, t), ![c[Len(c)]].next = n]
        /\ used' = used \cup {n}
  BY <1>1 DEF InsertBehind, Malloc
<1>3. /\ item \in Items /\ ItemsInv /\ SlotsInv /\ NamesOnce /\ Linked /\ item[0].data = Null
  BY DEF Table, Linked
<1>4. /\ c \in Seq(Addresses) /\ Len(c) \in Nat /\ Len(c) > 0 /\ c[1] = h /\ Len(c) \in 1 .. Len(c)
      /\ \A i \in 1 .. Len(c) : c[i] \in Addresses
      /\ \A i, j \in 1 .. Len(c) : c[i] = c[j] => i = j
      /\ \A i \in 1 .. Len(c) : i > 1 => c[i] \in Pool
      /\ DOMAIN c = 1 .. Len(c)
  BY <1>1, <1>3, Chains
<1>5. /\ e \in Addresses /\ n \in Addresses /\ e # n
      /\ \A g \in Heads : \A i \in 1 .. Len(Chain(g)) : Chain(g)[i] # n /\ Chain(g)[i] \in Addresses
  <2>1. \A g \in Heads : \A i \in 1 .. Len(Chain(g)) : Chain(g)[i] # n /\ Chain(g)[i] \in Addresses
    BY <1>3, Chains, PoolAssumption
  <2> QED BY <2>1, <1>1, <1>4 DEF Addresses
<1>lookup. Lookup(k) = Null /\ item[h].key = h BY <1>1 DEF InsertBehind
<1> HIDE DEF c, e
<1>6. /\ item'[n] = Entry(k, v, t)
      /\ item'[e] = [item[e] EXCEPT !.next = n]
      /\ \A a \in Addresses \ {n, e} : item'[a] = item[a]
  BY <1>2, <1>3, <1>5 DEF Items, e
<1> DEFINE new == Entry(k, v, t)
<1>new. /\ new \in [key : Heads, txt : Keys \cup {Null}, data : Data \cup {Null}, next : Pool \cup {Null}]
       /\ new.key = Hash[k] /\ new.txt = t /\ t \in {k, Null}
       /\ new.data = <<k, v>> /\ new.next = Null
       /\ <<k, v>> \in Data /\ <<k, v>>[1] = k /\ <<k, v>> # Null /\ item'[n] = new
  BY <1>6, EntryType
<1> HIDE DEF new
<1>7. /\ item'[e].next = n /\ item'[e].txt = item[e].txt
      /\ item'[e].data = item[e].data /\ item'[e].key = item[e].key
      /\ item'[e] \in [key : Heads, txt : Keys \cup {Null}, data : Data \cup {Null}, next : Pool \cup {Null}]
  BY <1>3, <1>5, <1>6 DEF Items
<1>8. item' \in Items
  <2>1. item' = [a \in Addresses |-> item'[a]] BY <1>2, <1>3 DEF Items
  <2>2. \A a \in Addresses : item'[a] \in [key : Heads, txt : Keys \cup {Null},
                                          data : Data \cup {Null}, next : Pool \cup {Null}]
    BY <1>3, <1>6, <1>7, <1>new DEF Items
  <2> QED BY <2>1, <2>2 DEF Items
<1>9. /\ Linked'
      /\ \A g \in Heads : Chain(g)' = IF g = h THEN Append(Chain(g), n) ELSE Chain(g)
  <2>1. item'[n].next = Null BY <1>new
  <2>2. item'[Chain(h)[Len(Chain(h))]].next = n BY <1>7 DEF c, e
  <2>3. \A a \in Addresses \ {n, Chain(h)[Len(Chain(h))]} : item'[a] = item[a] BY <1>6 DEF c, e
  <2>4. used' = used \cup {n} BY <1>2
  <2> QED BY <2>1, <2>2, <2>3, <2>4, <1>3, <1>8, Grown
<1>10. \A a \in Addresses \ {n} : item'[a].txt = item[a].txt /\ item'[a].data = item[a].data
                                 /\ item'[a].key = item[a].key
  BY <1>6, <1>7
<1>11. ItemsInv'
  <2>1. item'[n].txt \in Copies(k) BY <1>new
  <2>2. item'[n].data[1] = k /\ item'[n].data \in Data /\ item'[n].key = Hash[k] BY <1>new
  <2> QED BY <2>1, <2>2, <1>3, <1>10 DEF ItemsInv
<1>12. \A g \in Heads \ {h} : Same(g)
  BY <1>3, <1>5, <1>9, <1>10, SameSlot
<1>14. item[h].data = Null <=> h = 0
  <2>1. ASSUME item[h].data = Null PROVE h = 0
    <3>1. item[h].key = 0 BY <2>1, <1>1, <1>3, PoolAssumption DEF ItemsInv, Addresses
    <3> QED BY <3>1, <1>lookup
  <2> QED BY <2>1, <1>3
<1>15. /\ Len(Append(c, n)) = Len(c) + 1 /\ Append(c, n)[Len(c) + 1] = n
       /\ \A i \in 1 .. Len(c) : Append(c, n)[i] = c[i]
       /\ DOMAIN Append(c, n) = 1 .. Len(c) + 1
       /\ \A i \in 1 .. Len(c) + 1 : i \in 1 .. Len(c) \/ i = Len(c) + 1
  BY <1>4, <1>5
<1>16. h # n /\ h \in Addresses BY <1>1, <1>4, <1>5 DEF c
<1>chain. Chain(h)' = Append(c, n) BY <1>1, <1>9 DEF c
<1>17. SlotsInv'
  <2> SUFFICES ASSUME NEW g \in Heads
               PROVE  /\ item'[g].data = Null /\ g # 0 => item'[g].next = Null
                      /\ \A i \in DOMAIN Chain(g)' :
                           /\ i > 1 => item'[Chain(g)'[i]].data # Null
                           /\ item'[Chain(g)'[i]].data # Null => Hash[item'[Chain(g)'[i]].data[1]] = g
    BY DEF SlotsInv
  <2>1. g \in Addresses \ {n} BY <1>5, PoolAssumption DEF Addresses
  <2>3. CASE g # h
    <3>1. Chain(g)' = Chain(g) BY <2>3, <1>9
    <3>2. \A i \in 1 .. Len(Chain(g)) : item'[Chain(g)[i]].data = item[Chain(g)[i]].data
      BY <1>5, <1>10
    <3>3. item'[g].next = item[g].next
      <4>1. 1 \in 1 .. Len(Chain(g)) /\ Chain(g)[1] = g BY <1>3, Chains
      <4>2. g # e BY <4>1, <2>3, <1>1, <1>3, <1>4, Apart DEF e, c
      <4> QED BY <4>2, <2>1, <1>6
    <3> QED BY <3>1, <3>2, <3>3, <1>3, SlotStays
  <2>4. CASE g = h
    <3>1. item'[h].data = item[h].data BY <1>10, <1>16
    <3>2. ASSUME NEW i \in 1 .. Len(c) + 1
          PROVE  /\ i > 1 => item'[Append(c, n)[i]].data # Null
                 /\ item'[Append(c, n)[i]].data # Null => Hash[item'[Append(c, n)[i]].data[1]] = g
      <4>1. CASE i = Len(c) + 1 BY <4>1, <1>4, <1>1, <1>15, <1>new, <2>4
      <4>2. CASE i \in 1 .. Len(c)
        <5>1. Append(c, n)[i] = c[i] /\ item'[c[i]].data = item[c[i]].data
          BY <4>2, <1>1, <1>5, <1>10, <1>15 DEF c
        <5> QED BY <4>2, <5>1, <1>1, <1>3, <1>4, <2>4 DEF SlotsInv, c
      <4> QED BY <4>1, <4>2, <1>15
    <3> QED BY <2>4, <3>1, <3>2, <1>14, <1>15, <1>chain
  <2> QED BY <2>3, <2>4
<1>l. PICK l \in Nat : l = Len(c) BY <1>4
<1>named. /\ \A i \in 1 .. l : Named(h, i)' <=> Named(h, i)
          /\ Named(h, l + 1)' <=> Named(h, l) /\ t # Null
  <2>1. \A m \in 1 .. Len(c) : /\ item'[Append(c, n)[m]].txt = item[c[m]].txt
                               /\ item'[Append(c, n)[m]].data = item[c[m]].data
    BY <1>1, <1>5, <1>10, <1>15 DEF c
  <2>2. item'[Append(c, n)[Len(c) + 1]].txt = t BY <1>15, <1>new
  <2>3. \A i \in 1 .. Len(c) : \A m \in 1 .. i : m \in 1 .. Len(c) BY <1>4
  <2>4. 1 .. Len(c) + 1 = 1 .. Len(c) \cup {Len(c) + 1} BY <1>4
  <2>5. \A i : Named(h, i) <=> \A m \in 1 .. i : item[c[m]].txt # Null BY DEF Named, c
  <2>6. \A i : Named(h, i)' <=> \A m \in 1 .. i : item'[Append(c, n)[m]].txt # Null
    BY <1>chain DEF Named
  <2> QED BY <2>1, <2>2, <2>3, <2>4, <2>5, <2>6, <1>l, <1>4
<1>18. ASSUME h = 0
      PROVE  LostOf(0)' = LostOf(0) \cup {<<k, v>>} /\ Contents(0)' = Contents(0) /\ Names(0)' = Names(0)
  <2>1. Contents(0) = << >> BY <1>1, <1>3, ContentsAre
  <2>2. Contents(0)' = << >> BY <1>3, <1>10, <1>16, <1>18 DEF Contents
  <2>3. Names(0) = {} /\ Names(0)' = {} BY <2>1, <2>2 DEF Names
  <2>4. item[0].txt = Null BY <1>1, <1>3, PoolAssumption DEF ItemsInv, Addresses
  <2>5. \A i \in 1 .. Len(c) : ~ Named(h, i) BY <2>4, <1>4, <1>18 DEF Named, c
  <2>6. Nameless(h) = {item[c[i]].data : i \in 1 .. Len(c)} BY <2>5, <1>4 DEF Nameless, c
  <2>7. \A i \in 1 .. Len(c) + 1 : ~ Named(h, i)' BY <2>5, <1>named, <1>l, <1>4, <1>15
  <2>8. {j \in DOMAIN Chain(h)' : ~ Named(h, j)'} = 1 .. Len(c) + 1 BY <2>7, <1>chain, <1>15
  <2>9. Nameless(h)' = {item'[Append(c, n)[i]].data : i \in 1 .. Len(c) + 1}
    BY <2>8, <1>chain DEF Nameless
  <2>10. Nameless(h)' = Nameless(h) \cup {<<k, v>>}
    <3>1. \A i \in 1 .. Len(c) : item'[Append(c, n)[i]].data = item[c[i]].data /\ i \in 1 .. Len(c) + 1
      BY <1>1, <1>4, <1>5, <1>10, <1>15 DEF c
    <3>2. item'[Append(c, n)[Len(c) + 1]].data = <<k, v>> /\ Len(c) + 1 \in 1 .. Len(c) + 1
      BY <1>15, <1>new, <1>4
    <3>3. {item'[Append(c, n)[i]].data : i \in 1 .. Len(c) + 1} = {item[c[i]].data : i \in 1 .. Len(c)} \cup {<<k, v>>}
      <4> DEFINE f(i) == item'[Append(c, n)[i]].data
                 z(i) == item[c[i]].data
      <4>1. (\A i \in 1 .. Len(c) : f(i) = z(i)) /\ f(Len(c) + 1) = <<k, v>> BY <3>1, <3>2
      <4>2. 1 .. Len(c) + 1 = 1 .. Len(c) \cup {Len(c) + 1} BY <1>4
      <4> HIDE DEF f, z
      <4>3. {f(i) : i \in 1 .. Len(c) + 1} = {z(i) : i \in 1 .. Len(c)} \cup {<<k, v>>} BY <4>1, <4>2
      <4> QED BY <4>3 DEF f, z
    <3> QED BY <3>3, <2>6, <2>9
  <2>11. LostOf(0)' = LostOf(0) \cup {<<k, v>>} BY <2>10, <1>18, <1>new DEF LostOf
  <2> QED BY <2>1, <2>2, <2>3, <2>11, <1>18
<1>19. ASSUME h # 0 PROVE Appended(k, v)
  <2>0. item[h].data # Null BY <1>14, <1>19
  <2>1. /\ Contents(h) = [i \in 1 .. Len(c) |-> item[c[i]].data]
        /\ Contents(h) \in Seq(Data) /\ Len(Contents(h)) = Len(c)
    BY <2>0, <1>1, <1>3, ContentsAre DEF Contents, c
  <2>2. Contents(h)' = [i \in 1 .. Len(c) + 1 |-> item'[Append(c, n)[i]].data]
    BY <2>0, <1>chain, <1>10, <1>15, <1>16 DEF Contents
  <2>3. Contents(h)' = Append(Contents(h), <<k, v>>)
    <3>1. Append(Contents(h), <<k, v>>) =
            [i \in 1 .. Len(c) + 1 |-> IF i = Len(c) + 1 THEN <<k, v>> ELSE Contents(h)[i]]
      BY <2>1
    <3>2. \A i \in 1 .. Len(c) + 1 :
            item'[Append(c, n)[i]].data = IF i = Len(c) + 1 THEN <<k, v>> ELSE Contents(h)[i]
      <4>1. \A i \in 1 .. Len(c) : item'[c[i]].data = item[c[i]].data /\ Contents(h)[i] = item[c[i]].data
        BY <1>1, <1>5, <1>10, <2>1 DEF c
      <4>2. item'[n].data = <<k, v>> BY <1>new
      <4> QED BY <4>1, <4>2, <1>4, <1>15
    <3> QED BY <2>2, <3>1, <3>2
  <2>4. Len(Contents(h)') = Len(c) + 1 BY <2>1, <2>3
  <2>5. Names(h) = {i \in 1 .. Len(c) : Named(h, i)} BY <2>1 DEF Names
  <2>6. Names(h)' = {i \in 1 .. Len(c) + 1 : Named(h, i)'} BY <2>4 DEF Names
  <2>7. CASE ~ Named(h, l + 1)'
    <3>1. Names(h)' = Names(h) BY <2>5, <2>6, <2>7, <1>15, <1>named, <1>l, <1>4
    <3> QED BY <3>1, <2>3, <1>1, <1>19 DEF Appended
  <2>8. CASE Named(h, l + 1)'
    <3>1. Len(c) \in Names(h) BY <2>5, <2>8, <1>4, <1>named, <1>l
    <3>2. \A i \in 1 .. Len(c) : i \in Names(h)
      BY <3>1, <1>1, <1>3, NamesAre
    <3>3. Names(h) = 1 .. Len(c) BY <3>2, <2>5
    <3>4. Names(h)' = 1 .. Len(c) + 1 BY <2>5, <2>6, <2>8, <3>2, <1>15, <1>named, <1>l
    <3> QED BY <3>3, <3>4, <2>1, <2>3, <1>1, <1>19 DEF Appended
  <2> QED BY <2>7, <2>8
<1>20. Once(h)'
  <2>1. CASE Appended(k, v) BY <2>1, <1>1, <1>lookup, AppendedOnce
  <2>2. CASE h = 0
    <3>1. Names(h)' = {}
      <4>1. Contents(h)' = << >> BY <2>2, <1>3, <1>10, <1>16 DEF Contents
      <4> QED BY <4>1 DEF Names
    <3> QED BY <3>1 DEF Once
  <2> QED BY <2>1, <2>2, <1>19
<1>21. NamesOnce'
  <2>1. \A g \in Heads : Once(g)' BY <1>3, <1>12, <1>20, OnceSame
  <2> QED BY <2>1, OnceAllNext DEF AllOnce
<1>22. item'[0].data = Null
  <2>1. 0 # n /\ 0 \in Addresses BY <1>1, PoolAssumption DEF Addresses
  <2> QED BY <2>1, <1>3, <1>10
<1> QED BY <1>9, <1>11, <1>12, <1>17, <1>18, <1>19, <1>1, <1>21, <1>22 DEF Table

\* A chain of one address.
LEMMA ChainOfOne ==
  ASSUME Linked, NEW h \in Heads
  PROVE  item[h].next = Null <=> Len(Chain(h)) = 1
<1>1. /\ Chain(h) \in Seq(Addresses) /\ Len(Chain(h)) \in Nat /\ Len(Chain(h)) > 0
      /\ Chain(h)[1] = h /\ IsPath(item, h, Chain(h))
  BY Chains
<1>2. CASE Len(Chain(h)) = 1 BY <1>1, <1>2 DEF IsPath
<1>3. CASE Len(Chain(h)) > 1
  <2>1. item[h].next = Chain(h)[2] /\ Chain(h)[2] \in Addresses BY <1>1, <1>3 DEF IsPath
  <2> QED BY <1>3, <2>1, NullApart
<1>4. Len(Chain(h)) = 1 \/ Len(Chain(h)) > 1
  <2> DEFINE l == Len(Chain(h))
  <2>1. l \in Nat /\ l > 0 BY Chains
  <2> HIDE DEF l
  <2>2. l = 1 \/ l > 1 BY <2>1
  <2> QED BY <2>2 DEF l
<1> QED BY <1>2, <1>3, <1>4

LEMMA InsertHeadEffect ==
  ASSUME Table, NEW k \in Keys, NEW v \in Values, InsertHead(k, v)
  PROVE  /\ Table'
         /\ \A g \in Heads : g # Hash[k] => Same(g)
         /\ Appended(k, v)
<1>1. PICK h \in Heads : h = Hash[k] /\ h \in Addresses /\ h \notin Pool
  BY HashType, PoolAssumption
<1>2. /\ item \in Items /\ ItemsInv /\ SlotsInv /\ NamesOnce /\ Linked /\ item[0].data = Null
  BY DEF Table, Linked
<1>p. PICK t \in Copies(k) : item' = [item EXCEPT ![h] = Entry(k, v, t)]
  BY <1>1 DEF InsertHead
<1> DEFINE new == Entry(k, v, t)
<1>3. /\ new \in [key : Heads, txt : Keys \cup {Null}, data : Data \cup {Null}, next : Pool \cup {Null}]
      /\ new.key = h /\ new.txt \in {k, Null}
      /\ new.data = <<k, v>> /\ new.next = Null
      /\ <<k, v>> \in Data /\ <<k, v>>[1] = k /\ <<k, v>> # Null
  BY <1>1, EntryType
<1>4. item' = [item EXCEPT ![h] = new] /\ used' = used /\ item[h].key # h /\ Lookup(k) = Null
  BY <1>1, <1>p DEF InsertHead
<1> HIDE DEF new
<1>5. /\ item' \in Items /\ item'[h] = new /\ \A a \in Addresses \ {h} : item'[a] = item[a]
  BY <1>1, <1>2, <1>3, <1>4 DEF Items
<1>6. item[h].data = Null /\ item[h].next = Null /\ h # 0
  <2>1. 1 \in DOMAIN Chain(h) /\ Chain(h)[1] = h BY <1>2, Chains
  <2>2. item[h].data # Null => Hash[item[h].data[1]] = h BY <1>2, <2>1 DEF SlotsInv
  <2>3. item[h].data = Null /\ item[h].key = 0
    BY <1>1, <1>2, <1>4, <2>2, PoolAssumption DEF ItemsInv
  <2>4. h # 0 BY <1>4, <2>3
  <2> QED BY <1>2, <2>3, <2>4 DEF SlotsInv
<1>7. Linked' /\ \A g \in Heads : Chain(g)' = Chain(g)
  <2>1. \A a \in Addresses : item'[a].next = item[a].next BY <1>3, <1>5, <1>6
  <2>2. \A a \in Pool \ used : item'[a] = item[a] BY <1>1, <1>5 DEF Addresses
  <2> QED BY <1>2, <1>4, <1>5, <2>1, <2>2, Relabelled
<1>8. ASSUME NEW g \in Heads, g # h
      PROVE  /\ \A i \in 1 .. Len(Chain(g)) : item'[Chain(g)[i]] = item[Chain(g)[i]]
             /\ Same(g)
  <2>1. \A i \in 1 .. Len(Chain(g)) : Chain(g)[i] # h /\ Chain(g)[i] \in Addresses
    <3>1. 1 \in 1 .. Len(Chain(h)) /\ Chain(h)[1] = h BY <1>2, Chains
    <3> QED BY <1>2, <1>8, <3>1, Apart, Chains
  <2> QED BY <1>2, <1>5, <1>7, <2>1, SameSlot
<1>9. Chain(h) = <<h>> BY <1>1, <1>2, <1>6, ChainOfOne, Chains
<1>10. Appended(k, v)
  <2>1. Contents(h) = << >> BY <1>6 DEF Contents
  <2>2. Contents(h)' = [i \in 1 .. Len(<<h>>) |-> item'[<<h>>[i]].data]
    BY <1>3, <1>5, <1>7, <1>9 DEF Contents
  <2>3. Contents(h)' = << <<k, v>> >> BY <2>2, <1>3, <1>5
  <2>4. Append(Contents(h), <<k, v>>) = << <<k, v>> >> BY <2>1
  <2>5. Names(h) = {} /\ 1 .. Len(Contents(h)) = {} /\ Len(Contents(h)) + 1 = 1 BY <2>1 DEF Names
  <2>6. Names(h)' \subseteq {1} /\ 1 .. 1 = {1} BY <2>3 DEF Names
  <2> QED BY <2>3, <2>4, <2>5, <2>6, <1>1, <1>6 DEF Appended
<1>11. ItemsInv'
  <2>1. new.txt \in Copies(k) BY <1>3 DEF Copies
  <2> QED BY <1>1, <1>2, <1>3, <1>5, <2>1 DEF ItemsInv
<1>12. SlotsInv'
  <2> SUFFICES ASSUME NEW g \in Heads
               PROVE  /\ item'[g].data = Null /\ g # 0 => item'[g].next = Null
                      /\ \A i \in DOMAIN Chain(g)' :
                           /\ i > 1 => item'[Chain(g)'[i]].data # Null
                           /\ item'[Chain(g)'[i]].data # Null => Hash[item'[Chain(g)'[i]].data[1]] = g
    BY DEF SlotsInv
  <2>1. CASE g = h
    <3>1. Chain(g)' = <<h>> BY <2>1, <1>7, <1>9
    <3> QED BY <2>1, <3>1, <1>1, <1>3, <1>5
  <2>2. CASE g # h
    <3>1. item'[g] = item[g] BY <2>2, <1>5 DEF Addresses
    <3> QED BY <2>2, <3>1, <1>2, <1>7, <1>8, SlotStays
  <2> QED BY <2>1, <2>2
<1>13. NamesOnce'
  <2>1. Once(h)' BY <1>1, <1>4, <1>10, AppendedOnce
  <2>2. \A g \in Heads : Once(g)' BY <2>1, <1>2, <1>8, OnceSame
  <2> QED BY <2>2, OnceAllNext DEF AllOnce
<1>14. item'[0].data = Null
  <2>1. 0 \in Addresses BY SlotsAssumption DEF Addresses, Heads
  <2> QED BY <2>1, <1>2, <1>5, <1>6
<1> QED BY <1>1, <1>7, <1>8, <1>10, <1>11, <1>12, <1>13, <1>14 DEF Table

LEMMA UpdateEffect ==
  ASSUME Table, NEW k \in Keys, NEW v \in Values, HashTabUpdate(k, v)
  PROVE  /\ Table'
         /\ \A g \in Heads : g # Hash[k] => Same(g)
         /\ Hash[k] # 0 /\ Names(Hash[k])' = Names(Hash[k])
         /\ \E i \in Names(Hash[k]) :
              /\ Contents(Hash[k])[i][1] = k
              /\ Contents(Hash[k])' = [Contents(Hash[k]) EXCEPT ![i] = <<k, v>>]
<1>1. PICK h \in Heads : h = Hash[k] /\ 0 \in Heads BY HashType, SlotsAssumption DEF Heads
<1> DEFINE c == Chain(h)
<1>2. /\ item \in Items /\ ItemsInv /\ SlotsInv /\ NamesOnce /\ Linked /\ item[0].data = Null
  BY DEF Table, Linked
<1>3. PICK i \in Matches(k) : item' = [item EXCEPT ![c[i]].data = <<k, v>>]
  BY <1>1 DEF HashTabUpdate
<1>4. i \in Names(h) /\ i \in 1 .. Len(Contents(h)) /\ Contents(h)[i][1] = k
  BY <1>1, MatchesAre DEF Names
<1>5. used' = used BY DEF HashTabUpdate
<1>6. <<k, v>> \in Data /\ <<k, v>>[1] = k BY DEF Data
<1>0. h # 0
  <2>1. Contents(0) = << >> BY <1>1, <1>2, ContentsAre
  <2> QED BY <2>1, <1>4
<1> HIDE DEF c
<1>7. /\ Contents(h) \in Seq(Data) /\ Len(Contents(h)) = Len(c) /\ item[h].data # Null
  BY <1>2, <1>4, ContentsAre DEF c
<1>8. /\ Len(c) \in Nat /\ Len(c) > 0 /\ c[1] = h /\ DOMAIN c = 1 .. Len(c)
      /\ \A j \in 1 .. Len(c) : c[j] \in Addresses
      /\ \A j, m \in 1 .. Len(c) : c[j] = c[m] => j = m
  BY <1>2, Chains DEF c
<1>9. c[i] \in Addresses /\ i \in 1 .. Len(c) BY <1>4, <1>7, <1>8
<1>10. item[c[i]].txt = k /\ item[c[i]].key = Hash[k] /\ item[c[i]].data # Null
  BY <1>1, <1>2, <1>4, <1>7, <1>9, ContentsAre, NamesAre DEF c
<1>11. /\ item' \in Items
       /\ item'[c[i]].data = <<k, v>> /\ item'[c[i]].txt = k
       /\ item'[c[i]].key = item[c[i]].key /\ item'[c[i]].next = item[c[i]].next
       /\ \A a \in Addresses \ {c[i]} : item'[a] = item[a]
  <2>1. /\ item'[c[i]] = [item[c[i]] EXCEPT !.data = <<k, v>>]
        /\ \A a \in Addresses \ {c[i]} : item'[a] = item[a]
        /\ item' = [a \in Addresses |-> item'[a]]
    BY <1>2, <1>3, <1>9 DEF Items
  <2>2. item'[c[i]] \in [key : Heads, txt : Keys \cup {Null}, data : Data \cup {Null}, next : Pool \cup {Null}]
    BY <1>2, <1>6, <1>9, <2>1 DEF Items
  <2>3. /\ item'[c[i]].data = <<k, v>> /\ item'[c[i]].txt = k
        /\ item'[c[i]].key = item[c[i]].key /\ item'[c[i]].next = item[c[i]].next
    BY <1>2, <1>9, <1>10, <2>1 DEF Items
  <2>4. \A a \in Addresses : item'[a] \in [key : Heads, txt : Keys \cup {Null}, data : Data \cup {Null}, next : Pool \cup {Null}]
    BY <1>2, <2>1, <2>2 DEF Items
  <2> QED BY <2>1, <2>3, <2>4 DEF Items
<1>12. c[i] \notin Pool \ used
  <2>1. CASE i = 1 BY <2>1, <1>8, PoolAssumption
  <2>2. CASE i > 1 BY <2>2, <1>2, <1>9, Chains DEF c
  <2> QED BY <2>1, <2>2, <1>9
<1>13. Linked' /\ \A g \in Heads : Chain(g)' = Chain(g)
  <2>1. \A a \in Addresses : item'[a].next = item[a].next BY <1>11
  <2>2. \A a \in Pool \ used : item'[a] = item[a] BY <1>11, <1>12 DEF Addresses
  <2> QED BY <1>2, <1>5, <1>11, <2>1, <2>2, Relabelled
<1>14. \A a \in Addresses : item'[a].txt = item[a].txt BY <1>10, <1>11
<1>15. ItemsInv'
  <2>1. item'[c[i]].txt \in Copies(k) BY <1>11 DEF Copies
  <2> QED BY <1>2, <1>6, <1>10, <1>11, <2>1 DEF ItemsInv
<1>16. SlotsInv'
  <2> SUFFICES ASSUME NEW g \in Heads
               PROVE  /\ item'[g].data = Null /\ g # 0 => item'[g].next = Null
                      /\ \A j \in DOMAIN Chain(g)' :
                           /\ j > 1 => item'[Chain(g)'[j]].data # Null
                           /\ item'[Chain(g)'[j]].data # Null => Hash[item'[Chain(g)'[j]].data[1]] = g
    BY DEF SlotsInv
  <2>1. g \in Addresses /\ Chain(g)' = Chain(g) BY <1>13 DEF Addresses
  <2>2. item'[g].next = item[g].next BY <2>1, <1>11
  <2>3. CASE g # h
    <3>1. \A j \in 1 .. Len(Chain(g)) : Chain(g)[j] # c[i] /\ Chain(g)[j] \in Addresses
      BY <2>3, <1>2, <1>9, Apart, Chains DEF c
    <3> QED BY <2>1, <2>2, <3>1, <1>2, <1>11, SlotStays
  <2>4. CASE g = h
    <3>1. /\ item[h].data # Null /\ DOMAIN c = 1 .. Len(c)
          /\ \A j \in 1 .. Len(c) : item[c[j]].data # Null /\ Hash[item[c[j]].data[1]] = h
      BY <1>2, <1>7, <1>8, ContentsAre DEF c
    <3>2. \A j \in 1 .. Len(c) : item'[c[j]].data # Null /\ Hash[item'[c[j]].data[1]] = h
      BY <3>1, <1>1, <1>6, <1>8, <1>11, NullApart
    <3>3. item'[h].data # Null
      <4>1. 1 \in 1 .. Len(c) BY <1>8
      <4> QED BY <4>1, <3>2, <1>8
    <3> QED BY <2>1, <2>4, <3>1, <3>2, <3>3 DEF c
  <2> QED BY <2>3, <2>4
<1>17. ASSUME NEW g \in Heads, g # h PROVE Same(g)
  <2>1. \A j \in 1 .. Len(Chain(g)) : Chain(g)[j] # c[i] /\ Chain(g)[j] \in Addresses
    BY <1>2, <1>9, <1>17, Apart, Chains DEF c
  <2> QED BY <1>2, <1>11, <1>13, <2>1, SameSlot
<1>18. Contents(h)' = [Contents(h) EXCEPT ![i] = <<k, v>>]
  <2>1. Contents(h) = [j \in 1 .. Len(c) |-> item[c[j]].data] BY <1>7 DEF Contents, c
  <2>2. Contents(h)' = [j \in 1 .. Len(c) |-> item'[c[j]].data]
    <3>1. item'[h].data # Null
      <4>1. <<k, v>> # Null BY <1>6, NullApart
      <4> QED BY <4>1, <1>7, <1>11 DEF Addresses
    <3> QED BY <3>1, <1>13 DEF Contents, c
  <2>3. \A j \in 1 .. Len(c) : item'[c[j]].data = IF j = i THEN <<k, v>> ELSE item[c[j]].data
    BY <1>8, <1>9, <1>11
  <2> QED BY <1>9, <2>1, <2>2, <2>3
<1>n. Names(h)' = Names(h)
  <2>1. /\ Len(Contents(h)) = Len(c) /\ Len(Contents(h)') = Len(c) BY <1>7, <1>18
  <2>2. \A m \in 1 .. Len(c) : item'[c[m]].txt = item[c[m]].txt BY <1>8, <1>14
  <2>3. \A j \in 1 .. Len(c) : \A m \in 1 .. j : m \in 1 .. Len(c) BY <1>8
  <2>4. \A j : Named(h, j) <=> \A m \in 1 .. j : item[c[m]].txt # Null BY DEF Named, c
  <2>5. \A j : Named(h, j)' <=> \A m \in 1 .. j : item'[c[m]].txt # Null BY <1>13 DEF Named, c
  <2>6. \A j \in 1 .. Len(c) : Named(h, j)' <=> Named(h, j) BY <2>2, <2>3, <2>4, <2>5
  <2>7. Names(h) = {j \in 1 .. Len(c) : Named(h, j)} BY <2>1 DEF Names
  <2>8. Names(h)' = {j \in 1 .. Len(c) : Named(h, j)'} BY <2>1 DEF Names
  <2> QED BY <2>6, <2>7, <2>8
<1>19. NamesOnce'
  <2>1. /\ Len(Contents(h)') = Len(Contents(h))
        /\ \A j \in 1 .. Len(Contents(h)) : Contents(h)'[j][1] = Contents(h)[j][1]
    BY <1>4, <1>6, <1>7, <1>18
  <2>2. Once(h)'
    <3>1. Once(h) /\ Names(h) \subseteq 1 .. Len(Contents(h)) BY <1>2, OnceNow DEF Names
    <3> QED BY <3>1, <2>1, <1>n DEF Once
  <2>3. \A g \in Heads : Once(g)' BY <2>2, <1>2, <1>17, OnceSame
  <2> QED BY <2>3, OnceAllNext DEF AllOnce
<1>20. item'[0].data = Null
  <2>1. 0 # c[i]
    BY <1>2, <1>10
  <2> QED BY <2>1, <1>1, <1>2, <1>11 DEF Addresses
<1> QED BY <1>0, <1>1, <1>4, <1>13, <1>15, <1>16, <1>17, <1>18, <1>n, <1>19, <1>20 DEF Table

\* What a removal of position i leaves, with what the iterator may then rely on.
Removed(h, i) ==
    /\ Table' /\ h # 0
    /\ \A g \in Heads : g # h => Same(g)
    /\ Contents(h)' = Drop(Contents(h), i)
    /\ Names(h)' = {m \in 1 .. Len(Contents(h)) - 1 : m + 1 \in Names(h)}
    /\ i > 1 => /\ Chain(h)' = Drop(Chain(h), i) /\ used' = used \ {Chain(h)[i]}
               /\ item'[h].data # Null
    /\ i = 1 /\ Len(Chain(h)) > 1 =>
         /\ item'[h] = item'[Chain(h)[2]] /\ item'[h].data # Null /\ used' = used

\* The chain loses the address at p, the contents lose position i: a table again.
LEMMA RemovedInside ==
  ASSUME Table, NEW h \in Heads, item[h].data # Null,
         NEW p \in 2 .. Len(Chain(h)), NEW i \in Names(h),
         Linked', ItemsInv',
         \A g \in Heads : Chain(g)' = IF g = h THEN Drop(Chain(g), p) ELSE Chain(g),
         \A g \in Heads \ {h} : \A j \in 1 .. Len(Chain(g)) : item'[Chain(g)[j]] = item[Chain(g)[j]],
         \A m \in 1 .. Len(Chain(h)) - 1 :
           LET new == item'[Drop(Chain(h), p)[m]]
               old == item[Drop(Chain(h), i)[m]]
           IN  new.txt = old.txt /\ new.data = old.data
  PROVE  /\ Table' /\ h # 0
         /\ \A g \in Heads : g # h => Same(g)
         /\ Contents(h)' = Drop(Contents(h), i)
         /\ Names(h)' = {m \in 1 .. Len(Contents(h)) - 1 : m + 1 \in Names(h)}
         /\ item'[h].data # Null
<1> DEFINE c == Chain(h)
           s == Contents(h)
           n == Names(h)
<1>1. /\ Linked /\ ItemsInv /\ SlotsInv /\ NamesOnce /\ item[0].data = Null /\ h # 0 /\ 0 \in Heads
  BY SlotsAssumption DEF Table, Heads
<1>2. /\ c \in Seq(Addresses) /\ Len(c) \in Nat /\ Len(c) > 0 /\ c[1] = h /\ DOMAIN c = 1 .. Len(c)
  BY <1>1, Chains
<1>3. /\ s \in Seq(Data) /\ Len(s) = Len(c)
      /\ \A j \in 1 .. Len(c) : item[c[j]].data # Null
      /\ \A j \in 1 .. Len(c) : s[j] = item[c[j]].data /\ Hash[s[j][1]] = h
  <2>1. \A j \in 1 .. Len(s) : Hash[s[j][1]] = h BY <1>1, ContentsAre
  <2> QED BY <2>1, <1>1, ContentsAre
<1>n. /\ n \subseteq 1 .. Len(c)
      /\ \A a \in n : \A b \in 1 .. a : b \in n
      /\ \A j \in 1 .. Len(c) : j \in n <=> \A m \in 1 .. j : item[c[m]].txt # Null
      /\ \A a \in n : \A b \in 1 .. Len(s) : s[a][1] = s[b][1] => a = b
  <2>1. Once(h) BY <1>1, OnceNow
  <2> QED BY <2>1, <1>1, <1>3, NamesAre DEF Once
<1> HIDE DEF c, s
<1>4. /\ i \in n /\ i \in Nat /\ p \in Nat /\ p > 1 /\ i > 0 /\ p <= Len(c) /\ i <= Len(c)
  BY <1>2, <1>n DEF c
<1> HIDE DEF n
<1>5. /\ Len(Drop(c, p)) = Len(c) - 1 /\ DOMAIN Drop(c, p) = 1 .. Len(c) - 1
      /\ Len(Drop(s, i)) = Len(c) - 1
      /\ \A m \in 1 .. Len(c) - 1 : /\ Drop(c, p)[m] = IF m < p THEN c[m] ELSE c[m + 1]
                                    /\ Drop(c, i)[m] = IF m < i THEN c[m] ELSE c[m + 1]
                                    /\ Drop(s, i)[m] = IF m < i THEN s[m] ELSE s[m + 1]
  BY <1>2, <1>3, <1>4 DEF Drop
<1>6. ASSUME NEW m \in 1 .. Len(c) - 1
      PROVE  /\ item'[Drop(c, p)[m]].txt = item[Drop(c, i)[m]].txt
             /\ item'[Drop(c, p)[m]].data = item[Drop(c, i)[m]].data
  BY DEF c
<1>7. ASSUME NEW m \in 1 .. Len(c) - 1
      PROVE  /\ item'[Drop(c, p)[m]].data # Null
             /\ item'[Drop(c, p)[m]].data = Drop(s, i)[m]
             /\ Hash[item'[Drop(c, p)[m]].data[1]] = h
  <2>1. m \in 1 .. Len(c) /\ m + 1 \in 1 .. Len(c) BY <1>2
  <2>2. PICK q \in 1 .. Len(c) : Drop(c, i)[m] = c[q] /\ Drop(s, i)[m] = s[q] BY <2>1, <1>5
  <2>3. item[c[q]].data # Null /\ s[q] = item[c[q]].data /\ Hash[s[q][1]] = h BY <1>3
  <2> QED BY <2>2, <2>3, <1>6
<1>8. item'[h].data # Null
  <2>1. 1 \in 1 .. Len(c) - 1 /\ Drop(c, p)[1] = h BY <1>2, <1>4, <1>5
  <2> QED BY <2>1, <1>7
<1>9. Chain(h)' = Drop(c, p) BY DEF c
<1>10. Contents(h)' = Drop(s, i)
  <2>1. Contents(h)' = [m \in 1 .. Len(c) - 1 |-> item'[Drop(c, p)[m]].data]
    BY <1>5, <1>8, <1>9 DEF Contents
  <2>2. Drop(s, i) = [m \in 1 .. Len(c) - 1 |-> Drop(s, i)[m]] BY <1>3, <1>5 DEF Drop
  <2> QED BY <2>1, <2>2, <1>7
<1>11. ASSUME NEW g \in Heads, g # h PROVE Same(g)
  BY <1>1, <1>11, SameSlot
<1>l. PICK l \in Nat : l = Len(c) BY <1>2
<1>12. Names(h)' = {m \in 1 .. Len(c) - 1 : m + 1 \in n}
  <2>1. Names(h)' = {m \in 1 .. l - 1 : Named(h, m)'} BY <1>5, <1>10, <1>l DEF Names
  <2>2. ASSUME NEW m \in 1 .. l - 1 PROVE Named(h, m)' <=> m + 1 \in n
    <3>1. Named(h, m)' <=> \A q \in 1 .. m : item'[Drop(c, p)[q]].txt # Null BY <1>9 DEF Named
    <3>2. \A q \in 1 .. m : item'[Drop(c, p)[q]].txt = item[IF q < i THEN c[q] ELSE c[q + 1]].txt
      BY <1>5, <1>6, <1>l
    <3>3. m + 1 \in 1 .. Len(c) BY <1>l
    <3>4. ASSUME m + 1 \in n, NEW q \in 1 .. m PROVE item'[Drop(c, p)[q]].txt # Null
      <4>1. q \in 1 .. m + 1 /\ q + 1 \in 1 .. m + 1 OBVIOUS
      <4>2. \A a \in 1 .. m + 1 : item[c[a]].txt # Null BY <3>3, <3>4, <1>n
      <4>3. item[c[q]].txt # Null /\ item[c[q + 1]].txt # Null BY <4>1, <4>2
      <4> QED BY <4>3, <3>2
    <3>5. ASSUME \A q \in 1 .. m : item'[Drop(c, p)[q]].txt # Null, NEW r \in 1 .. m + 1
          PROVE  item[c[r]].txt # Null
      <4>1. CASE r <= i
        <5>1. \A a \in 1 .. i : item[c[a]].txt # Null BY <1>4, <1>n
        <5>2. r \in 1 .. i BY <4>1, <1>4
        <5> QED BY <5>1, <5>2
      <4>2. CASE r > i
        <5>1. r - 1 \in 1 .. m /\ ~ (r - 1 < i) /\ r - 1 + 1 = r BY <4>2, <1>4
        <5>2. item'[Drop(c, p)[r - 1]].txt = item[c[r]].txt BY <5>1, <3>2
        <5> QED BY <5>1, <5>2, <3>5
      <4> QED BY <4>1, <4>2, <1>4
    <3> QED BY <3>1, <3>3, <3>4, <3>5, <1>n
  <2> QED BY <2>1, <2>2, <1>l
<1>13. SlotsInv'
  <2> SUFFICES ASSUME NEW g \in Heads
               PROVE  /\ item'[g].data = Null /\ g # 0 => item'[g].next = Null
                      /\ \A j \in DOMAIN Chain(g)' :
                           /\ j > 1 => item'[Chain(g)'[j]].data # Null
                           /\ item'[Chain(g)'[j]].data # Null => Hash[item'[Chain(g)'[j]].data[1]] = g
    BY DEF SlotsInv
  <2>1. CASE g = h BY <2>1, <1>5, <1>7, <1>8, <1>9
  <2>2. CASE g # h
    <3>1. item'[g] = item[g]
      <4>1. 1 \in 1 .. Len(Chain(g)) /\ Chain(g)[1] = g BY <1>1, Chains
      <4> QED BY <4>1, <2>2
    <3> QED BY <2>2, <3>1, <1>1, SlotStays
  <2> QED BY <2>1, <2>2
<1>14. NamesOnce'
  <2>1. Once(h)'
    <3> SUFFICES ASSUME NEW a \in Names(h)', NEW b \in 1 .. Len(Contents(h)'),
                        Contents(h)'[a][1] = Contents(h)'[b][1]
                 PROVE  a = b
      BY DEF Once
    <3>1. /\ a \in 1 .. Len(s) - 1 /\ a + 1 \in n /\ b \in 1 .. Len(s) - 1
          /\ Drop(s, i)[a][1] = Drop(s, i)[b][1]
      BY <1>3, <1>5, <1>10, <1>12
    <3> DEFINE at(m) == IF m < i THEN m ELSE m + 1
    <3>2. Drop(s, i)[a] = s[at(a)] /\ Drop(s, i)[b] = s[at(b)] BY <3>1, <1>3, <1>5
    <3>3. at(a) \in n
      <4>1. a \in 1 .. a + 1 BY <3>1, <1>2, <1>3
      <4> QED BY <4>1, <3>1, <1>n
    <3>4. at(b) \in 1 .. Len(s) BY <3>1, <1>2, <1>3
    <3>5. at(a) = at(b)
      <4> HIDE DEF at
      <4> QED BY <3>1, <3>2, <3>3, <3>4, <1>n
    <3> QED BY <3>1, <3>5, <1>2, <1>3, <1>4
  <2>2. \A g \in Heads : Once(g)' BY <2>1, <1>1, <1>11, OnceSame
  <2> QED BY <2>2, OnceAllNext DEF AllOnce
<1>15. item'[0].data = Null
  <2>1. 1 \in 1 .. Len(Chain(0)) /\ Chain(0)[1] = 0 BY <1>1, Chains
  <2> QED BY <2>1, <1>1
<1>16. Len(s) = Len(c) BY <1>3
<1> QED BY <1>1, <1>8, <1>10, <1>11, <1>12, <1>13, <1>14, <1>15, <1>16 DEF Table, s, n

LEMMA RemoveEffect ==
  ASSUME Table, NEW k \in Keys, Remove(k)
  PROVE  \E i \in Names(Hash[k]) :
           /\ Contents(Hash[k])[i][1] = k /\ Removed(Hash[k], i)
           /\ \/ Returns(k, Contents(Hash[k])[i])
              \/ i = 1 /\ Len(Contents(Hash[k])) > 1 /\ Returns(k, Null)
<1>1. PICK h \in Heads : h = Hash[k] /\ h \in Addresses /\ h \notin Pool
  BY HashType, PoolAssumption
<1> DEFINE c == Chain(h)
           s == Contents(h)
<1>2. /\ item \in Items /\ ItemsInv /\ SlotsInv /\ NamesOnce /\ Linked /\ item[0].data = Null
  BY DEF Table, Linked
<1>3. PICK i \in Matches(k) :
        \/ /\ i > 1
           /\ item' = [item EXCEPT ![c[i - 1]].next = item[c[i]].next, ![c[i]] = Cleared]
           /\ used' = used \ {c[i]}
           /\ Returns(k, item[c[i]].data)
        \/ /\ i = 1 /\ Len(c) > 1 /\ item' = [item EXCEPT ![c[1]] = item[c[2]]]
           /\ Returns(k, Null) /\ used' = used
        \/ /\ i = 1 /\ Len(c) = 1 /\ item' = [item EXCEPT ![c[1]] = Cleared]
           /\ Returns(k, item[c[1]].data) /\ used' = used
  <2> HIDE DEF Returns
  <2> QED BY <1>1 DEF Remove
<1>4. i \in Names(h) /\ i \in 1 .. Len(s) /\ s[i][1] = k BY <1>1, MatchesAre DEF Names
<1>5. /\ c \in Seq(Addresses) /\ Len(c) \in Nat /\ Len(c) > 0 /\ c[1] = h /\ DOMAIN c = 1 .. Len(c)
      /\ \A j \in 1 .. Len(c) : c[j] \in Addresses
      /\ \A j, m \in 1 .. Len(c) : c[j] = c[m] => j = m
      /\ \A j \in 1 .. Len(c) : j > 1 => c[j] \in used /\ c[j] \in Pool
  BY <1>2, Chains
<1>6. s \in Seq(Data) /\ Len(s) = Len(c) /\ item[h].data # Null /\ s[i] = item[c[i]].data
  BY <1>2, <1>4, ContentsAre
<1>z. h # 0 BY <1>2, <1>6
<1>7. ASSUME NEW g \in Heads \ {h}, NEW j \in 1 .. Len(Chain(g))
      PROVE  /\ Chain(g)[j] \in Addresses
             /\ \A m \in 1 .. Len(c) : Chain(g)[j] # c[m]
  BY <1>2, Apart, Chains
<1> HIDE DEF c, s
<1>r. \/ Returns(k, s[i])
      \/ i = 1 /\ Len(s) > 1 /\ Returns(k, Null)
  BY <1>3, <1>6
<1> DEFINE Fields == [key : Heads, txt : Keys \cup {Null}, data : Data \cup {Null}, next : Pool \cup {Null}]
<1>8. Cleared \in Fields /\ Cleared.txt = Null /\ Cleared.key = 0 /\ Cleared.data = Null /\ Cleared.next = Null
  BY SlotsAssumption DEF Cleared, Heads
<1>9. \A a \in Addresses : item[a] \in Fields BY <1>2 DEF Items
<1>10. ASSUME i > 1 PROVE Removed(h, i)
  <2> DEFINE b == c[i - 1]
             d == c[i]
             kept == [item[b] EXCEPT !.next = item[d].next]
  <2>1. /\ i \in 1 .. Len(c) /\ i - 1 \in 1 .. Len(c) /\ i \in Nat /\ i \in 2 .. Len(c)
        /\ b \in Addresses /\ d \in Addresses /\ b # d /\ d \in used
    BY <1>4, <1>5, <1>6, <1>10
  <2>2. /\ item' = [item EXCEPT ![b].next = item[d].next, ![d] = Cleared] /\ used' = used \ {d}
    BY <1>3, <1>10
  <2>3. /\ kept \in Fields
        /\ kept.next = item[d].next /\ kept.txt = item[b].txt /\ kept.data = item[b].data
        /\ kept.key = item[b].key
    BY <2>1, <1>9
  <2>4. /\ item'[b] = kept /\ item'[d] = Cleared
        /\ \A a \in Addresses \ {b, d} : item'[a] = item[a]
        /\ item' = [a \in Addresses |-> item'[a]]
    BY <2>1, <2>2, <1>2 DEF Items
  <2> HIDE DEF b, d, kept
  <2>5. item' \in Items
    <3>1. \A a \in Addresses : item'[a] \in Fields BY <1>8, <1>9, <2>3, <2>4
    <3> QED BY <3>1, <2>4 DEF Items
  <2>6. /\ Linked' /\ \A g \in Heads : Chain(g)' = IF g = h THEN Drop(Chain(g), i) ELSE Chain(g)
    <3>1. d = Chain(h)[i] /\ b = Chain(h)[i - 1] BY DEF b, d, c
    <3>2. i \in 2 .. Len(Chain(h)) BY <2>1 DEF c
    <3>3. used' \subseteq used /\ used \ used' \subseteq {d} BY <2>2
    <3>4. item'[d] = IF d \in used' THEN item[d] ELSE Cleared BY <2>2, <2>4
    <3>5. item'[b].next = item[d].next BY <2>3, <2>4
    <3> QED BY <1>1, <1>2, <2>4, <2>5, <3>1, <3>2, <3>3, <3>4, <3>5, Shrunk
  <2>7. ItemsInv' BY <1>2, <1>8, <2>1, <2>3, <2>4 DEF ItemsInv
  <2>8. \A g \in Heads \ {h} : \A j \in 1 .. Len(Chain(g)) : item'[Chain(g)[j]] = item[Chain(g)[j]]
    <3> SUFFICES ASSUME NEW g \in Heads \ {h}, NEW j \in 1 .. Len(Chain(g))
                 PROVE  item'[Chain(g)[j]] = item[Chain(g)[j]]
      OBVIOUS
    <3>1. Chain(g)[j] \in Addresses /\ Chain(g)[j] # b /\ Chain(g)[j] # d BY <1>7, <2>1 DEF b, d
    <3> QED BY <3>1, <2>4
  <2>9. ASSUME NEW m \in 1 .. Len(c) - 1
        PROVE  /\ item'[Drop(c, i)[m]].txt = item[Drop(c, i)[m]].txt
               /\ item'[Drop(c, i)[m]].data = item[Drop(c, i)[m]].data
    <3>1. m \in 1 .. Len(c) /\ m + 1 \in 1 .. Len(c) BY <1>5
    <3>2. Drop(c, i)[m] \in Addresses /\ Drop(c, i)[m] # d
      BY <3>1, <2>1, <1>5 DEF Drop, d
    <3> QED BY <3>2, <2>1, <2>3, <2>4
  <2>10. /\ Table' /\ (\A g \in Heads : g # h => Same(g))
         /\ Contents(h)' = Drop(Contents(h), i) /\ item'[h].data # Null
         /\ Names(h)' = {m \in 1 .. Len(Contents(h)) - 1 : m + 1 \in Names(h)}
    <3>1. i \in 2 .. Len(Chain(h)) BY <2>1 DEF c
    <3> QED BY <1>4, <1>6, <2>6, <2>7, <2>8, <2>9, <3>1, RemovedInside DEF c
  <2> QED BY <1>1, <1>10, <1>z, <2>2, <2>6, <2>10 DEF Removed, c, d
<1>11. ASSUME i = 1, Len(c) > 1 PROVE Removed(h, i)
  <2> DEFINE d == c[2]
  <2>1. /\ 2 \in 1 .. Len(c) /\ 1 \in 1 .. Len(c) /\ 2 \in 2 .. Len(c)
        /\ d \in Addresses /\ d # h /\ d \in used
    BY <1>1, <1>5, <1>11
  <2>2. item' = [item EXCEPT ![h] = item[d]] /\ used' = used BY <1>3, <1>5, <1>11
  <2>3. /\ item'[h] = item[d] /\ item'[d] = item[d]
        /\ \A a \in Addresses \ {h} : item'[a] = item[a]
        /\ item' = [a \in Addresses |-> item'[a]]
    BY <2>1, <2>2, <1>1, <1>2 DEF Items
  <2> HIDE DEF d
  <2>4. item' \in Items
    <3>1. \A a \in Addresses : item'[a] \in Fields BY <1>9, <2>1, <2>3
    <3> QED BY <3>1, <2>3 DEF Items
  <2>5. /\ Linked' /\ \A g \in Heads : Chain(g)' = IF g = h THEN Drop(Chain(g), 2) ELSE Chain(g)
    <3>1. d = Chain(h)[2] /\ h = Chain(h)[2 - 1] BY <1>5 DEF d, c
    <3>2. 2 \in 2 .. Len(Chain(h)) BY <2>1 DEF c
    <3>3. item'[d] = IF d \in used' THEN item[d] ELSE Cleared BY <2>1, <2>2, <2>3
    <3>4. used' \subseteq used /\ used \ used' \subseteq {d} BY <2>2
    <3>5. item'[h].next = item[d].next /\ \A a \in Addresses \ {d, h} : item'[a] = item[a] BY <2>3
    <3> QED BY <1>2, <2>4, <3>1, <3>2, <3>3, <3>4, <3>5, Shrunk
  <2>6. ItemsInv' BY <1>2, <2>1, <2>3 DEF ItemsInv
  <2>7. \A g \in Heads \ {h} : \A j \in 1 .. Len(Chain(g)) : item'[Chain(g)[j]] = item[Chain(g)[j]]
    <3> SUFFICES ASSUME NEW g \in Heads \ {h}, NEW j \in 1 .. Len(Chain(g))
                 PROVE  item'[Chain(g)[j]] = item[Chain(g)[j]]
      OBVIOUS
    <3>1. Chain(g)[j] \in Addresses /\ Chain(g)[j] # h BY <1>5, <1>7, <2>1
    <3> QED BY <3>1, <2>3
  <2>8. ASSUME NEW m \in 1 .. Len(c) - 1
        PROVE  item'[Drop(c, 2)[m]] = item[Drop(c, 1)[m]]
    <3>1. m \in 1 .. Len(c) /\ m + 1 \in 1 .. Len(c) /\ m \in Nat BY <1>5
    <3>2. Drop(c, 1)[m] = c[m + 1] BY <3>1 DEF Drop
    <3>3. CASE m = 1 BY <3>2, <3>3, <2>3, <1>5 DEF Drop, d
    <3>4. CASE m > 1
      <4>1. Drop(c, 2)[m] = c[m + 1] BY <3>1, <3>4 DEF Drop
      <4>2. c[m + 1] \in Addresses /\ c[m + 1] # h BY <3>1, <2>1, <1>5
      <4> QED BY <4>1, <4>2, <3>2, <2>3
    <3> QED BY <3>1, <3>3, <3>4
  <2>9. /\ Table' /\ (\A g \in Heads : g # h => Same(g))
        /\ Contents(h)' = Drop(Contents(h), i) /\ item'[h].data # Null
        /\ Names(h)' = {m \in 1 .. Len(Contents(h)) - 1 : m + 1 \in Names(h)}
    <3>1. 2 \in 2 .. Len(Chain(h)) BY <1>11, <2>1 DEF c
    <3> QED BY <1>4, <1>6, <1>11, <2>5, <2>6, <2>7, <2>8, <3>1, RemovedInside DEF c
  <2> QED BY <1>1, <1>11, <1>z, <2>2, <2>3, <2>9 DEF Removed, c, d
<1>12. ASSUME i = 1, Len(c) = 1 PROVE Removed(h, i)
  <2>1. /\ item' = [item EXCEPT ![h] = Cleared] /\ used' = used BY <1>3, <1>5, <1>12
  <2>2. /\ item'[h] = Cleared /\ \A a \in Addresses \ {h} : item'[a] = item[a] /\ item' \in Items
    BY <1>1, <1>2, <1>8, <2>1 DEF Items
  <2>3. item[h].next = Null BY <1>2, <1>12, ChainOfOne DEF c
  <2>4. Linked' /\ \A g \in Heads : Chain(g)' = Chain(g)
    <3>1. \A a \in Addresses : item'[a].next = item[a].next BY <1>8, <2>2, <2>3
    <3>2. \A a \in Pool \ used : item'[a] = item[a] BY <1>1, <2>2 DEF Addresses
    <3>3. item' \in Items BY <1>1, <1>2, <1>8, <2>1 DEF Items
    <3> QED BY <1>2, <2>1, <3>1, <3>2, <3>3, Relabelled
  <2>5. ASSUME NEW g \in Heads, g # h
        PROVE  /\ Same(g)
               /\ \A j \in 1 .. Len(Chain(g)) : item'[Chain(g)[j]] = item[Chain(g)[j]]
    <3>1. 1 \in 1 .. Len(c) BY <1>12
    <3>2. \A j \in 1 .. Len(Chain(g)) : Chain(g)[j] # h /\ Chain(g)[j] \in Addresses
      BY <3>1, <2>5, <1>5, <1>7
    <3>3. \A j \in 1 .. Len(Chain(g)) : item'[Chain(g)[j]] = item[Chain(g)[j]] BY <3>2, <2>2
    <3> QED BY <3>3, <2>4, <1>2, SameSlot
  <2>6. Contents(h)' = << >> /\ Drop(s, i) = << >>
    <3>1. Contents(h)' = << >> BY <1>8, <2>2 DEF Contents
    <3>2. Drop(s, i) = [m \in 1 .. 0 |-> IF m < i THEN s[m] ELSE s[m + 1]] BY <1>6, <1>12 DEF Drop
    <3> QED BY <3>1, <3>2
  <2>n. Names(h)' = {} /\ {m \in 1 .. Len(s) - 1 : m + 1 \in Names(h)} = {}
    <3>1. Names(h)' = {} BY <2>6 DEF Names
    <3>2. 1 .. Len(s) - 1 = {} BY <1>6, <1>12
    <3> QED BY <3>1, <3>2
  <2>7. ItemsInv' BY <1>1, <1>2, <1>8, <2>2 DEF ItemsInv
  <2>8. SlotsInv'
    <3> SUFFICES ASSUME NEW g \in Heads
                 PROVE  /\ item'[g].data = Null /\ g # 0 => item'[g].next = Null
                        /\ \A j \in DOMAIN Chain(g)' :
                             /\ j > 1 => item'[Chain(g)'[j]].data # Null
                             /\ item'[Chain(g)'[j]].data # Null => Hash[item'[Chain(g)'[j]].data[1]] = g
      BY DEF SlotsInv
    <3>1. CASE g = h
      <4>1. Chain(g)' = c BY <3>1, <2>4 DEF c
      <4>2. \A j \in DOMAIN c : j = 1 /\ c[j] = h BY <1>5, <1>12
      <4> QED BY <3>1, <4>1, <4>2, <1>8, <2>2
    <3>2. CASE g # h
      <4>1. item'[g] = item[g] BY <3>2, <2>2 DEF Addresses
      <4> QED BY <3>2, <4>1, <1>2, <2>4, <2>5, SlotStays
    <3> QED BY <3>1, <3>2
  <2>9. NamesOnce'
    <3>1. Once(h)' BY <2>n DEF Once
    <3>2. \A g \in Heads : Once(g)' BY <3>1, <1>2, <2>5, OnceSame
    <3> QED BY <3>2, OnceAllNext DEF AllOnce
  <2>10. item'[0].data = Null
    <3>1. 0 \in Addresses BY SlotsAssumption DEF Addresses, Heads
    <3> QED BY <3>1, <1>2, <1>z, <2>2
  <2> QED BY <1>12, <1>z, <2>4, <2>5, <2>6, <2>n, <2>7, <2>8, <2>9, <2>10 DEF Removed, Table, c, s
<1>13. Removed(h, i)
  <2>1. i \in Nat /\ (i > 1 \/ i = 1) BY <1>4, <1>6
  <2> QED BY <2>1, <1>3, <1>5, <1>10, <1>11, <1>12
<1> QED BY <1>1, <1>4, <1>13, <1>r DEF s

-----------------------------------------------------------------------------
(* hash_tab_iterate. *)

GivenOnce == \A i, j \in DOMAIN seen : seen[i] = seen[j] /\ seen[i] \in due => i = j
LostNames == {d[1] : d \in Lost}

\* IterInv, for a given slot and a given position in it.
Standing(h, j) ==
    /\ \/ j = 1 /\ iter.next = Null
       \/ /\ item[h].data # Null
          /\ iter.next \in used
          /\ \/ j = 1 /\ item[iter.next] = item[h]
             \/ j > 1 /\ iter.next = Chain(h)[j]
    /\ due \subseteq Given \cup NamedAhead(h, j) \cup NamedLater(h)
    /\ NamedAhead(h, j) \cup NamedLater(h) \subseteq due
    /\ due \cap Given \cap (Ahead(h, j) \cup Later(h)) = {}
StandsAt(h) ==
    /\ iter.slot = h
    /\ GivenOnce /\ Given \subseteq due \cup LostNames
    /\ \E j \in DOMAIN Chain(h) : Standing(h, j)

IterInvHolds == (\E h \in Heads : StandsAt(h)) => IterInv
LEMMA StandsInv == IterInvHolds
<1> SUFFICES ASSUME NEW h \in Heads, StandsAt(h) PROVE IterInv
  BY DEF IterInvHolds
<1>1. PICK j \in DOMAIN Chain(h) : Standing(h, j) BY DEF StandsAt
<1>2. iter.slot = h BY DEF StandsAt
<1>3. AtPosition(j) BY <1>1, <1>2 DEF Standing, AtPosition
<1> QED BY <1>1, <1>2, <1>3 DEF StandsAt, Standing, IterInv, GivenOnce, LostNames

LEMMA InvStands ==
  ASSUME IterInv, iter # Idle
  PROVE  iter.slot \in Heads /\ StandsAt(iter.slot)
<1>1. PICK j \in DOMAIN Chain(iter.slot) :
        /\ AtPosition(j)
        /\ due \subseteq Given \cup NamedAhead(iter.slot, j) \cup NamedLater(iter.slot)
        /\ NamedAhead(iter.slot, j) \cup NamedLater(iter.slot) \subseteq due
        /\ due \cap Given \cap (Ahead(iter.slot, j) \cup Later(iter.slot)) = {}
  BY DEF IterInv
<1>2. Standing(iter.slot, j) BY <1>1 DEF Standing, AtPosition
<1> QED BY <1>1, <1>2 DEF StandsAt, IterInv, GivenOnce, LostNames

\* Another name is given to the callback, no due one twice.
LEMMA Giving ==
  ASSUME seen \in Seq(Keys), GivenOnce, NEW k \in Keys, k \in Given => k \notin due,
         seen' = Append(seen, k), due' = due
  PROVE  seen' \in Seq(Keys) /\ GivenOnce' /\ Given' = Given \cup {k}
<1>1. /\ Len(seen) \in Nat /\ DOMAIN seen = 1 .. Len(seen)
      /\ seen' \in Seq(Keys) /\ DOMAIN seen' = 1 .. Len(seen) + 1
      /\ \A i \in 1 .. Len(seen) + 1 : seen'[i] = IF i = Len(seen) + 1 THEN k ELSE seen[i]
  OBVIOUS
<1>2. \A i \in 1 .. Len(seen) + 1 : i = Len(seen) + 1 \/ i \in 1 .. Len(seen) BY <1>1
<1>3. \A i \in 1 .. Len(seen) : seen[i] \in due => seen[i] # k BY <1>1 DEF Given
<1>4. GivenOnce'
  <2> SUFFICES ASSUME NEW i \in 1 .. Len(seen) + 1, NEW j \in 1 .. Len(seen) + 1,
                      seen'[i] = seen'[j], seen'[i] \in due
               PROVE  i = j
    BY <1>1 DEF GivenOnce
  <2>1. CASE i \in 1 .. Len(seen) /\ j \in 1 .. Len(seen)
    <3>1. seen'[i] = seen[i] /\ seen'[j] = seen[j] BY <2>1, <1>1
    <3> QED BY <2>1, <3>1, <1>1 DEF GivenOnce
  <2>2. CASE i = Len(seen) + 1 /\ j \in 1 .. Len(seen)
    <3>1. seen'[i] = k /\ seen'[j] = seen[j] BY <2>2, <1>1
    <3> QED BY <2>2, <3>1, <1>3
  <2>3. CASE j = Len(seen) + 1 /\ i \in 1 .. Len(seen)
    <3>1. seen'[j] = k /\ seen'[i] = seen[i] BY <2>3, <1>1
    <3> QED BY <2>3, <3>1, <1>3
  <2> QED BY <2>1, <2>2, <2>3, <1>2
<1>5. Given' = Given \cup {k}
  <2>1. ASSUME NEW x \in Given PROVE x \in Given'
    <3>1. PICK i \in 1 .. Len(seen) : x = seen[i] BY <1>1 DEF Given
    <3>2. i \in 1 .. Len(seen) + 1 /\ i # Len(seen) + 1 BY <1>1
    <3> QED BY <1>1, <3>1, <3>2 DEF Given
  <2>2. k \in Given'
    <3>1. Len(seen) + 1 \in 1 .. Len(seen) + 1 BY <1>1
    <3> QED BY <1>1, <3>1 DEF Given
  <2>3. ASSUME NEW x \in Given' PROVE x \in Given \cup {k}
    <3>1. PICK i \in 1 .. Len(seen) + 1 : x = seen'[i] BY <1>1 DEF Given
    <3> QED BY <1>1, <1>2, <3>1 DEF Given
  <2> QED BY <2>1, <2>2, <2>3
<1> QED BY <1>1, <1>4, <1>5

\* The names ahead, one position or one slot on.
LEMMA AheadNext ==
  ASSUME Table, NEW h \in Heads, NEW j \in 1 .. Len(Contents(h))
  PROVE  /\ Contents(h)[j][1] \in Keys
         /\ Ahead(h, j) = {Contents(h)[j][1]} \cup Ahead(h, j + 1)
         /\ j \in Names(h) =>
              /\ NamedAhead(h, j) = {Contents(h)[j][1]} \cup NamedAhead(h, j + 1)
              /\ Contents(h)[j][1] \notin Ahead(h, j + 1)
         /\ j \notin Names(h) => NamedAhead(h, j) = {} /\ NamedAhead(h, j + 1) = {}
         /\ Contents(h)[j][1] \notin Later(h) /\ NamedLater(h) \subseteq Later(h)
<1> DEFINE s == Contents(h)
           n == Names(h)
<1>1. /\ Len(s) \in Nat /\ \A i \in 1 .. Len(s) : s[i][1] \in Keys /\ Hash[s[i][1]] = h
  BY ContentsAre DEF Table
<1>2. /\ \A i \in n : \A m \in 1 .. Len(s) : s[i][1] = s[m][1] => i = m
      /\ n \subseteq 1 .. Len(s) /\ \A i \in n : \A m \in 1 .. i : m \in n
  BY NamesAre, NamesDiffer DEF Table
<1>3. \A g \in Heads : \A i \in 1 .. Len(Contents(g)) : Hash[Contents(g)[i][1]] = g
  BY ContentsAre DEF Table
<1>4. /\ Ahead(h, j) = {s[i][1] : i \in j .. Len(s)}
      /\ Ahead(h, j + 1) = {s[i][1] : i \in j + 1 .. Len(s)}
      /\ NamedAhead(h, j) = {s[i][1] : i \in {m \in j .. Len(s) : m \in n}}
      /\ NamedAhead(h, j + 1) = {s[i][1] : i \in {m \in j + 1 .. Len(s) : m \in n}}
  <2>1. \A m \in j .. Len(s) : Named(h, m) <=> m \in n
    <3>1. \A m \in j .. Len(s) : m \in 1 .. Len(s) BY <1>1
    <3> QED BY <3>1 DEF Names
  <2>2. \A m \in j + 1 .. Len(s) : m \in j .. Len(s) BY <1>1
  <2>3. /\ {m \in j .. Len(s) : Named(h, m)} = {m \in j .. Len(s) : m \in n}
        /\ {m \in j + 1 .. Len(s) : Named(h, m)} = {m \in j + 1 .. Len(s) : m \in n}
    BY <2>1, <2>2
  <2> QED BY <2>3 DEF Ahead, NamedAhead
<1>l. \A g \in h + 1 .. Slots - 1 : g \in Heads /\ g # h BY SlotsAssumption DEF Heads
<1> HIDE DEF s, n
<1>5. j \in 1 .. Len(s) /\ j .. Len(s) = {j} \cup (j + 1 .. Len(s)) /\ \A m \in j + 1 .. Len(s) : m \in 1 .. Len(s) /\ j \in 1 .. m /\ m # j
  BY <1>1 DEF s
<1>6. j \in n => s[j][1] \notin Ahead(h, j + 1) BY <1>2, <1>4, <1>5
<1>7. s[j][1] \notin Later(h)
  <2> SUFFICES ASSUME NEW g \in h + 1 .. Slots - 1, NEW i \in 1 .. Len(Contents(g)),
                      Contents(g)[i][1] = s[j][1]
               PROVE  FALSE
    BY DEF Later, Ahead
  <2> QED BY <1>l, <1>1, <1>3, <1>5
<1>8. Ahead(h, j) = {s[j][1]} \cup Ahead(h, j + 1) BY <1>4, <1>5
<1>9. j \in n => NamedAhead(h, j) = {s[j][1]} \cup NamedAhead(h, j + 1)
  <2>1. j \in n => {m \in j .. Len(s) : m \in n} = {j} \cup {m \in j + 1 .. Len(s) : m \in n} BY <1>5
  <2> QED BY <2>1, <1>4
<1>10. j \notin n => NamedAhead(h, j) = {} /\ NamedAhead(h, j + 1) = {}
  <2>1. j \notin n => {m \in j .. Len(s) : m \in n} = {} /\ {m \in j + 1 .. Len(s) : m \in n} = {}
    BY <1>2, <1>5
  <2> QED BY <2>1, <1>4
<1>11. NamedLater(h) \subseteq Later(h)
  <2>1. \A g \in h + 1 .. Slots - 1 : NamedAhead(g, 1) \subseteq Ahead(g, 1) BY DEF NamedAhead, Ahead
  <2> QED BY <2>1 DEF NamedLater, Later
<1> QED BY <1>1, <1>5, <1>6, <1>7, <1>8, <1>9, <1>10, <1>11 DEF s, n

LEMMA LaterNext ==
  ASSUME NEW h \in Heads
  PROVE  /\ Later(h) = IF h + 1 = Slots THEN {} ELSE Ahead(h + 1, 1) \cup Later(h + 1)
         /\ NamedLater(h) = IF h + 1 = Slots THEN {} ELSE NamedAhead(h + 1, 1) \cup NamedLater(h + 1)
<1>1. CASE h + 1 = Slots
  <2>1. h + 1 .. Slots - 1 = {} BY <1>1, SlotsAssumption DEF Heads
  <2> QED BY <1>1, <2>1 DEF Later, NamedLater
<1>2. CASE h + 1 # Slots
  <2>1. h + 1 .. Slots - 1 = {h + 1} \cup (h + 1 + 1 .. Slots - 1)
    BY <1>2, SlotsAssumption DEF Heads
  <2>2. Later(h) = Ahead(h + 1, 1) \cup Later(h + 1) BY <2>1 DEF Later
  <2>3. NamedLater(h) = NamedAhead(h + 1, 1) \cup NamedLater(h + 1) BY <2>1 DEF NamedLater
  <2> QED BY <1>2, <2>2, <2>3
<1> QED BY <1>1, <1>2

\* The loop comes to the next slot, or to its end.
SlotDone ==
    \A h \in Heads :
      /\ iter = [slot |-> h + 1, next |-> Null]
      /\ GivenOnce /\ Given \subseteq due \cup LostNames
      /\ due \subseteq Given \cup NamedLater(h) /\ NamedLater(h) \subseteq due
      /\ due \cap Given \cap Later(h) = {}
      /\ \A g \in Heads : 1 \in DOMAIN Chain(g)
      => IterInv /\ IterationComplete
LEMMA SlotEnds == SlotDone
<1> SUFFICES ASSUME NEW h \in Heads, iter = [slot |-> h + 1, next |-> Null],
                    GivenOnce, Given \subseteq due \cup LostNames,
                    due \subseteq Given \cup NamedLater(h), NamedLater(h) \subseteq due,
                    due \cap Given \cap Later(h) = {},
                    \A g \in Heads : 1 \in DOMAIN Chain(g)
             PROVE  IterInv /\ IterationComplete
  BY DEF SlotDone
<1>1. CASE h + 1 = Slots
  <2>1. iter = Idle BY <1>1 DEF Idle
  <2>2. NamedLater(h) = {} BY <1>1, LaterNext
  <2> QED BY <2>1, <2>2 DEF IterInv, IterationComplete, GivenOnce, LostNames
<1>2. CASE h + 1 # Slots
  <2>1. h + 1 \in Heads BY <1>2, SlotsAssumption DEF Heads
  <2>2. /\ Later(h) = Ahead(h + 1, 1) \cup Later(h + 1)
        /\ NamedLater(h) = NamedAhead(h + 1, 1) \cup NamedLater(h + 1)
    BY <1>2, LaterNext
  <2>3. Standing(h + 1, 1) BY <2>2 DEF Standing
  <2>4. StandsAt(h + 1) BY <2>1, <2>3 DEF StandsAt
  <2>5. IterInv BY <2>1, <2>4, StandsInv DEF IterInvHolds
  <2>6. iter # Idle BY <1>2, SlotsAssumption DEF Idle, Heads
  <2> QED BY <2>5, <2>6 DEF IterationComplete
<1> QED BY <1>1, <1>2

LEMMA SlotEndsNext == SlotDone'
BY SlotEnds, PTL

AllChains == \A h \in Heads : 1 \in DOMAIN Chain(h) /\ Chain(h)[1] = h
LEMMA ChainsNext == (Table => AllChains) /\ (Table' => AllChains')
<1>1. Table => AllChains BY Chains DEF Table, AllChains
<1> QED BY <1>1, PTL

\* What is lost, and where, shows in the slots.
Deafs == {h \in Heads : Deaf(h)}
LEMMA LostKept ==
  ASSUME Table, Table', LostOf(0)' = LostOf(0), \A h \in Heads : Unnamed(h)' = Unnamed(h)
  PROVE  Lost' = Lost /\ Deafs' = Deafs /\ LostNames' = LostNames
<1>1. LostIs /\ DeafIs /\ LostIs' /\ DeafIs' BY LostFrom, DeafFrom, ReadNext
<1>2. Lost' = Lost BY <1>1 DEF LostIs
<1>3. Deafs' = Deafs BY <1>1 DEF DeafIs, Deafs
<1>4. LostNames' = LostNames BY <1>2 DEF LostNames
<1> QED BY <1>2, <1>3, <1>4

LEMMA UnnamedSame == ASSUME NEW h \in Heads, Same(h) PROVE Unnamed(h)' = Unnamed(h)
BY DEF Same, Unnamed

LEMMA RemovedLost ==
  ASSUME Table, NEW h \in Heads, NEW i \in Names(h), Removed(h, i)
  PROVE  Lost' = Lost /\ Deafs' = Deafs /\ LostNames' = LostNames
<1> DEFINE s == Contents(h)
           n == Names(h)
<1>1. Table' /\ 0 \in Heads /\ h # 0 /\ \A g \in Heads : g # h => Same(g)
  BY SlotsAssumption DEF Removed, Heads
<1>2. s \in Seq(Data) /\ Len(s) \in Nat BY ContentsAre DEF Table
<1>3. n \subseteq 1 .. Len(s) /\ i \in n /\ \A a \in n : \A b \in 1 .. a : b \in n
  BY NamesAre DEF Table
<1>4. s' = Drop(s, i) /\ n' = {m \in 1 .. Len(s) - 1 : m + 1 \in n} BY DEF Removed
<1> HIDE DEF s, n
<1>5. /\ Len(Drop(s, i)) = Len(s) - 1
      /\ \A m \in 1 .. Len(s) - 1 : Drop(s, i)[m] = IF m < i THEN s[m] ELSE s[m + 1]
  BY <1>2, <1>3 DEF Drop
<1>6. Unnamed(h) = {s[m] : m \in 1 .. Len(s) \ n} BY DEF Unnamed, s, n
<1>7. Unnamed(h)' = {Drop(s, i)[m] : m \in {m \in 1 .. Len(s) - 1 : m + 1 \notin n}}
  <2>1. Unnamed(h)' = {s'[m] : m \in 1 .. Len(s') \ n'} BY DEF Unnamed, s, n
  <2>2. 1 .. Len(s') \ n' = {m \in 1 .. Len(s) - 1 : m + 1 \notin n} BY <1>4, <1>5
  <2> QED BY <2>1, <2>2, <1>4
<1>8. ASSUME NEW m \in 1 .. Len(s) - 1, m + 1 \notin n
      PROVE  Drop(s, i)[m] = s[m + 1] /\ m + 1 \in 1 .. Len(s) \ n
  <2>1. m + 1 \in 1 .. Len(s) BY <1>2
  <2>2. ~ (m < i) BY <1>2, <1>3, <1>8
  <2> QED BY <2>1, <2>2, <1>5, <1>8
<1>9. ASSUME NEW m \in 1 .. Len(s) \ n
      PROVE  m - 1 \in 1 .. Len(s) - 1 /\ m - 1 + 1 = m
  <2>1. m > i BY <1>2, <1>3
  <2> QED BY <2>1, <1>2, <1>3
<1>10. Unnamed(h)' \subseteq Unnamed(h) BY <1>6, <1>7, <1>8
<1>11. Unnamed(h) \subseteq Unnamed(h)'
  <2> SUFFICES ASSUME NEW m \in 1 .. Len(s) \ n PROVE s[m] \in Unnamed(h)' BY <1>6
  <2>1. m - 1 \in {q \in 1 .. Len(s) - 1 : q + 1 \notin n} BY <1>9
  <2>2. Drop(s, i)[m - 1] = s[m] BY <1>8, <1>9
  <2> QED BY <2>1, <2>2, <1>7
<1>12. \A g \in Heads : Unnamed(g)' = Unnamed(g) BY <1>1, <1>10, <1>11, UnnamedSame
<1>13. LostOf(0)' = LostOf(0) BY <1>1 DEF Same
<1> QED BY <1>1, <1>12, <1>13, LostKept

\* Nothing of the table changes.
LEMMA SameTable ==
  ASSUME Table, item' = item, used' = used
  PROVE  /\ Table' /\ Lost' = Lost /\ Deafs' = Deafs /\ LostNames' = LostNames
         /\ \A g \in Heads : /\ Chain(g)' = Chain(g) /\ Same(g)
                             /\ \A j : Ahead(g, j)' = Ahead(g, j) /\ NamedAhead(g, j)' = NamedAhead(g, j)
                             /\ Later(g)' = Later(g) /\ NamedLater(g)' = NamedLater(g)
<1>1. Linked' /\ \A g \in Heads : Chain(g)' = Chain(g)
  <2>1. Linked /\ item' \in Items BY DEF Table, Linked
  <2> QED BY <2>1, Relabelled
<1>2. \A g \in Heads : Same(g) BY <1>1, SameSlot DEF Table
<1>3. Table'
  <2>1. ItemsInv' /\ item'[0].data = Null BY DEF Table, ItemsInv
  <2>2. SlotsInv' BY <1>1 DEF Table, SlotsInv
  <2>3. NamesOnce'
    <3>1. \A g \in Heads : Once(g)' BY <1>2, OnceSame DEF Table
    <3> QED BY <3>1, OnceAllNext DEF AllOnce
  <2> QED BY <1>1, <2>1, <2>2, <2>3 DEF Table
<1>4. ASSUME NEW g \in Heads, NEW j
      PROVE  Ahead(g, j)' = Ahead(g, j) /\ NamedAhead(g, j)' = NamedAhead(g, j)
  <2>1. \A i : Named(g, i)' <=> Named(g, i) BY <1>1 DEF Named
  <2>2. Contents(g)' = Contents(g) BY <1>2 DEF Same
  <2> QED BY <2>1, <2>2 DEF Ahead, NamedAhead
<1>5. ASSUME NEW g \in Heads PROVE Later(g)' = Later(g) /\ NamedLater(g)' = NamedLater(g)
  <2>1. \A f \in g + 1 .. Slots - 1 : f \in Heads BY DEF Heads
  <2> QED BY <2>1, <1>4 DEF Later, NamedLater
<1>6. Lost' = Lost /\ Deafs' = Deafs /\ LostNames' = LostNames
  <2>1. 0 \in Heads BY SlotsAssumption DEF Heads
  <2>2. LostOf(0)' = LostOf(0) /\ \A g \in Heads : Unnamed(g)' = Unnamed(g)
    BY <2>1, <1>2, UnnamedSame DEF Same
  <2> QED BY <2>2, <1>3, LostKept
<1> QED BY <1>1, <1>2, <1>3, <1>4, <1>5, <1>6

\* The callback's effect on what it is given, and on nothing else.
LEMMA CallbackEffect ==
  ASSUME Table, NEW h \in Heads, NEW j \in 1 .. Len(Contents(h)), Callback(Contents(h)[j])
  PROVE  \/ call' = <<"visit", Contents(h)[j]>> /\ item' = item /\ used' = used
         \/ /\ j \in Names(h) /\ Removed(h, j)
            /\ \/ Returns(Contents(h)[j][1], Contents(h)[j])
               \/ j = 1 /\ Len(Contents(h)) > 1 /\ Returns(Contents(h)[j][1], Null)
<1>1. PICK k \in Keys : k = Contents(h)[j][1] /\ Hash[k] = h BY ContentsAre DEF Table
<1>2. CASE Remove(k)
  <2>1. PICK i \in Names(h) :
          /\ Contents(h)[i][1] = k /\ Removed(h, i)
          /\ \/ Returns(k, Contents(h)[i])
             \/ i = 1 /\ Len(Contents(h)) > 1 /\ Returns(k, Null)
    BY <1>1, <1>2, RemoveEffect
  <2>2. i = j BY <1>1, <2>1, NamesDiffer
  <2> QED BY <1>1, <2>1, <2>2
<1> QED BY <1>1, <1>2 DEF Callback

\* After a removal the names behind its position are where it was.
LEMMA AheadRemoved ==
  ASSUME Table, NEW h \in Heads, NEW j \in Names(h), Removed(h, j)
  PROVE  Ahead(h, j)' = Ahead(h, j + 1) /\ NamedAhead(h, j)' = NamedAhead(h, j + 1)
<1> DEFINE s == Contents(h)
           n == Names(h)
<1>1. s \in Seq(Data) /\ Len(s) \in Nat /\ j \in 1 .. Len(s) /\ j \in n BY ContentsAre, NamesAre DEF Table
<1>2. Contents(h)' = Drop(s, j) /\ Names(h)' = {m \in 1 .. Len(s) - 1 : m + 1 \in n} BY DEF Removed
<1>l. PICK l \in Nat : l = Len(s) BY <1>1
<1>3. \A m \in j + 1 .. l : Named(h, m) <=> m \in n
  <2>1. \A m \in j + 1 .. l : m \in 1 .. Len(s) BY <1>1, <1>l
  <2> QED BY <2>1 DEF Names
<1>f. NamedAhead(h, j + 1) = {s[m][1] : m \in {m \in j + 1 .. l : Named(h, m)}}
  BY <1>l DEF NamedAhead
<1>a. Ahead(h, j + 1) = {s[m][1] : m \in j + 1 .. l} BY <1>l DEF Ahead
<1>u. \A m \in 1 .. Len(Contents(h)') : Named(h, m)' <=> m \in Names(h)' BY DEF Names
<1> HIDE DEF s, n
<1>4. /\ Len(Drop(s, j)) = l - 1
      /\ \A m \in j .. l - 1 : Drop(s, j)[m] = s[m + 1] /\ m \in 1 .. l - 1 /\ m + 1 \in j + 1 .. l
  BY <1>1, <1>l DEF Drop
<1>5. \A m \in j + 1 .. l : m - 1 \in j .. l - 1 /\ m - 1 + 1 = m BY <1>1, <1>l
<1>6. Ahead(h, j)' = {Drop(s, j)[m][1] : m \in j .. l - 1} BY <1>2, <1>4 DEF Ahead
<1>7. NamedAhead(h, j)' = {Drop(s, j)[m][1] : m \in {m \in j .. l - 1 : m + 1 \in n}}
  <2>1. \A m \in j .. l - 1 : Named(h, m)' <=> m + 1 \in n BY <1>u, <1>2, <1>4, <1>l
  <2>2. NamedAhead(h, j)' = {Drop(s, j)[m][1] : m \in {m \in j .. l - 1 : Named(h, m)'}}
    BY <1>2, <1>4 DEF NamedAhead
  <2> QED BY <2>1, <2>2
<1>8. Ahead(h, j)' = Ahead(h, j + 1)
  <2>1. ASSUME NEW m \in j .. l - 1 PROVE Drop(s, j)[m][1] \in Ahead(h, j + 1) BY <1>4, <1>a
  <2>2. ASSUME NEW m \in j + 1 .. l PROVE s[m][1] \in Ahead(h, j)'
    <3>1. Drop(s, j)[m - 1] = s[m] BY <1>4, <1>5
    <3> QED BY <3>1, <1>5, <1>6
  <2> QED BY <2>1, <2>2, <1>6, <1>a
<1>9. NamedAhead(h, j)' = NamedAhead(h, j + 1)
  <2>1. ASSUME NEW m \in j .. l - 1, m + 1 \in n PROVE Drop(s, j)[m][1] \in NamedAhead(h, j + 1)
    BY <2>1, <1>3, <1>4, <1>f
  <2>2. ASSUME NEW m \in j + 1 .. l, m \in n PROVE s[m][1] \in NamedAhead(h, j)'
    <3>1. Drop(s, j)[m - 1] = s[m] /\ m - 1 \in {q \in j .. l - 1 : q + 1 \in n} BY <2>2, <1>4, <1>5
    <3> QED BY <3>1, <1>7
  <2> QED BY <2>1, <2>2, <1>3, <1>7, <1>f
<1> QED BY <1>8, <1>9

\* Slots that stay the same keep the names of later slots.
LEMMA LaterSame ==
  ASSUME NEW h \in Heads, \A g \in Heads : g # h => Same(g)
  PROVE  Later(h)' = Later(h) /\ NamedLater(h)' = NamedLater(h)
<1>1. \A g \in h + 1 .. Slots - 1 : g \in Heads /\ g # h BY SlotsAssumption DEF Heads
<1>2. \A g \in h + 1 .. Slots - 1 : Contents(g)' = Contents(g) /\ Names(g)' = Names(g)
  BY <1>1 DEF Same
<1>3. \A g \in h + 1 .. Slots - 1 : Ahead(g, 1)' = Ahead(g, 1) BY <1>2 DEF Ahead
<1>4. ASSUME NEW g \in h + 1 .. Slots - 1 PROVE NamedAhead(g, 1)' = NamedAhead(g, 1)
  <2> DEFINE s == Contents(g)
             n == Names(g)
  <2>1. NamedAhead(g, 1) = {s[i][1] : i \in n} BY DEF NamedAhead, Names
  <2>2. NamedAhead(g, 1)' = {s'[i][1] : i \in n'} BY DEF NamedAhead, Names
  <2>3. s' = s /\ n' = n BY <1>2
  <2> HIDE DEF s, n
  <2> QED BY <2>1, <2>2, <2>3
<1> QED BY <1>3, <1>4 DEF Later, NamedLater

\* The iterator goes on from a position of its slot.
LEMMA IterStep ==
  ASSUME Table, iter \in [slot : 0 .. Slots, next : Pool \cup {Null}], seen \in Seq(Keys),
         NEW h \in Heads, iter.slot = h, GivenOnce, Given \subseteq due \cup LostNames,
         NEW j \in 1 .. Len(Contents(h)), Standing(h, j), item[h].data # Null,
         Callback(Contents(h)[j]), seen' = Append(seen, Contents(h)[j][1]), due' = due,
         iter' = Onward(IF j = Len(Chain(h)) THEN Null ELSE Chain(h)[j + 1])
  PROVE  Table' /\ IterInv' /\ IterationComplete' /\ seen' \in Seq(Keys)
<1> DEFINE k == Contents(h)[j][1]
           c == Chain(h)
           rest == Ahead(h, j + 1)
           later == Later(h)
           namedrest == NamedAhead(h, j + 1)
           namedlater == NamedLater(h)
<1>1. /\ c \in Seq(Addresses) /\ Len(c) \in Nat /\ Len(c) > 0 /\ DOMAIN c = 1 .. Len(c)
      /\ \A i \in 1 .. Len(c) : c[i] \in Addresses
      /\ \A i \in 1 .. Len(c) : i > 1 => c[i] \in used /\ c[i] \in Pool
      /\ \A i, m \in 1 .. Len(c) : c[i] = c[m] => i = m
  <2>1. Linked BY DEF Table
  <2>2. c \in Seq(Addresses) /\ Len(c) \in Nat /\ Len(c) > 0 BY <2>1, Chains
  <2>3. \A i \in 1 .. Len(c) : c[i] \in Addresses BY <2>1, Chains
  <2>4. \A i \in 1 .. Len(c) : i > 1 => c[i] \in used /\ c[i] \in Pool BY <2>1, Chains
  <2>5. \A i, m \in 1 .. Len(c) : c[i] = c[m] => i = m BY <2>1, Chains
  <2>6. DOMAIN c = 1 .. Len(c)
    <3> HIDE DEF c
    <3> QED BY <2>2
  <2> QED BY <2>2, <2>3, <2>4, <2>5, <2>6, Zenon
<1>2. Len(Contents(h)) = Len(c) /\ Contents(h) \in Seq(Data) BY ContentsAre DEF Table
<1>3. /\ k \in Keys /\ Ahead(h, j) = {k} \cup rest
      /\ j \in Names(h) => NamedAhead(h, j) = {k} \cup namedrest /\ k \notin rest
      /\ j \notin Names(h) => NamedAhead(h, j) = {} /\ namedrest = {}
      /\ k \notin later /\ namedlater \subseteq later
  BY AheadNext
<1>4. /\ due \subseteq Given \cup NamedAhead(h, j) \cup namedlater
      /\ NamedAhead(h, j) \cup namedlater \subseteq due
      /\ due \cap Given \cap (Ahead(h, j) \cup later) = {}
  BY DEF Standing
<1>5. j \in Names(h) \/ k \in LostNames
  <2> SUFFICES ASSUME j \notin Names(h) PROVE k \in LostNames OBVIOUS
  <2>1. Contents(h)[j] \in Unnamed(h) BY DEF Unnamed
  <2>2. Contents(h)[j] \in Lost BY <2>1, LostFrom DEF LostIs
  <2> QED BY <2>2 DEF LostNames
\* Whatever the callback is given is due and new, or lost and not due.
<1>6. (k \in Given => k \notin due) /\ k \in due \cup LostNames BY <1>3, <1>4, <1>5
<1> HIDE DEF k, c, rest, later, namedrest, namedlater
<1>7. seen' = Append(seen, k) BY DEF k
<1>8. seen' \in Seq(Keys) /\ GivenOnce' /\ Given' = Given \cup {k}
  BY <1>3, <1>6, <1>7, Giving
<1>9. /\ due' \subseteq Given' \cup namedrest \cup namedlater
      /\ namedrest \cup namedlater \subseteq due'
      /\ due' \cap Given' \cap later = {}
      /\ due' \cap Given' \cap rest = {}
  <2>1. CASE j \in Names(h) BY <2>1, <1>3, <1>4, <1>8
  <2>2. CASE j \notin Names(h)
    <3>1. k \notin due
      <4>1. k \in due => k \in Given BY <2>2, <1>3, <1>4
      <4> QED BY <4>1, <1>6
    <3> QED BY <2>2, <3>1, <1>3, <1>4, <1>8
  <2> QED BY <2>1, <2>2
<1>10. \/ item' = item /\ used' = used
       \/ j \in Names(h) /\ Removed(h, j)
  BY CallbackEffect
<1>11. /\ Table' /\ LostNames' = LostNames
       /\ Later(h)' = later /\ NamedLater(h)' = namedlater
  <2>1. CASE item' = item /\ used' = used BY <2>1, SameTable DEF later, namedlater
  <2>2. CASE j \in Names(h) /\ Removed(h, j)
    <3>1. Table' /\ \A g \in Heads : g # h => Same(g) BY <2>2 DEF Removed
    <3> QED BY <2>2, <3>1, RemovedLost, LaterSame DEF later, namedlater
  <2> QED BY <2>1, <2>2, <1>10
<1>12. Given' \subseteq due' \cup LostNames' BY <1>6, <1>8, <1>11
<1>13. \A g \in Heads : 1 \in DOMAIN Chain(g)'
  <2>1. AllChains' BY <1>11, ChainsNext
  <2> QED BY <2>1 DEF AllChains
<1>14. CASE j = Len(c)
  <2>1. iter' = [slot |-> h + 1, next |-> Null] BY <1>14 DEF Onward, c
  <2>2. namedrest = {}
    <3>1. j + 1 .. Len(c) = {} BY <1>14, <1>1
    <3> QED BY <3>1, <1>2 DEF namedrest, NamedAhead
  <2>3. /\ due' \subseteq Given' \cup NamedLater(h)' /\ NamedLater(h)' \subseteq due'
        /\ due' \cap Given' \cap Later(h)' = {}
    BY <1>9, <1>11, <2>2
  <2> QED BY <2>1, <2>3, <1>8, <1>11, <1>12, <1>13, SlotEndsNext DEF SlotDone
<1>15. CASE j # Len(c)
  <2> DEFINE n == c[j + 1]
  <2>1. j \in 1 .. Len(c) /\ j + 1 \in 1 .. Len(c) /\ j \in Nat /\ j > 0 /\ j < Len(c) /\ Len(c) > 1
    <3>1. PICK l \in Nat : l = Len(c) BY <1>1
    <3>2. j \in 1 .. l /\ j # l BY <3>1, <1>2, <1>15
    <3>3. j + 1 \in 1 .. l /\ j \in Nat /\ j > 0 /\ j < l /\ l > 1 BY <3>2
    <3> QED BY <3>1, <3>2, <3>3
  <2>2. n \in used /\ n \in Pool /\ n # c[j] /\ n # Null BY <2>1, <1>1, PoolAssumption DEF Addresses
  <2> HIDE DEF n
  <2>3. iter' = [iter EXCEPT !.next = n] BY <1>15, <2>2 DEF Onward, c, n
  <2>4. iter'.slot = h /\ iter'.next = n BY <2>3
  <2>5. \E q \in DOMAIN Chain(h)' :
          /\ Ahead(h, q)' = rest /\ NamedAhead(h, q)' = namedrest
          /\ item'[h].data # Null /\ n \in used'
          /\ \/ q = 1 /\ item'[n] = item'[h]
             \/ q > 1 /\ n = Chain(h)'[q]
    <3>1. CASE item' = item /\ used' = used
      <4>1. Ahead(h, j + 1)' = rest /\ NamedAhead(h, j + 1)' = namedrest /\ Chain(h)' = c
        BY <3>1, SameTable DEF rest, namedrest, c
      <4>2. j + 1 \in DOMAIN Chain(h)' /\ n = Chain(h)'[j + 1] /\ j + 1 > 1
        BY <4>1, <2>1, <1>1 DEF n
      <4> QED BY <3>1, <4>1, <4>2, <2>2
    <3>2. CASE j \in Names(h) /\ Removed(h, j)
      <4>1. Ahead(h, j)' = rest /\ NamedAhead(h, j)' = namedrest
        BY <3>2, AheadRemoved DEF rest, namedrest
      <4>2. CASE j = 1
        <5>1. item'[h] = item'[n] /\ item'[h].data # Null /\ used' = used
          BY <3>2, <4>2, <2>1 DEF Removed, c, n
        <5> QED BY <5>1, <4>1, <4>2, <1>13, <2>2
      <4>3. CASE j > 1
        <5>1. Chain(h)' = Drop(c, j) /\ used' = used \ {c[j]} /\ item'[h].data # Null
          BY <3>2, <4>3 DEF Removed, c
        <5>2. j \in DOMAIN Drop(c, j) /\ Drop(c, j)[j] = n
          BY <2>1, <1>1 DEF Drop, n
        <5> QED BY <5>1, <5>2, <4>1, <4>3, <2>2
      <4> QED BY <4>2, <4>3, <2>1
    <3> QED BY <3>1, <3>2, <1>10
  <2>6. PICK q \in DOMAIN Chain(h)' :
          /\ Ahead(h, q)' = rest /\ NamedAhead(h, q)' = namedrest
          /\ item'[h].data # Null /\ n \in used'
          /\ \/ q = 1 /\ item'[n] = item'[h]
             \/ q > 1 /\ n = Chain(h)'[q]
    BY <2>5
  <2>7. Standing(h, q)'
    <3>1. /\ due' \subseteq Given' \cup NamedAhead(h, q)' \cup NamedLater(h)'
          /\ NamedAhead(h, q)' \cup NamedLater(h)' \subseteq due'
          /\ due' \cap Given' \cap (Ahead(h, q)' \cup Later(h)') = {}
      BY <1>9, <1>11, <2>6
    <3> QED BY <3>1, <2>4, <2>6 DEF Standing
  <2>8. StandsAt(h)' BY <1>8, <1>12, <2>4, <2>6, <2>7 DEF StandsAt
  <2>9. IterInvHolds' BY StandsInv, PTL
  <2>10. IterInv' BY <2>8, <2>9 DEF IterInvHolds
  <2>11. iter' # Idle BY <2>2, <2>4 DEF Idle
  <2> QED BY <1>8, <1>11, <2>10, <2>11 DEF IterationComplete
<1> QED BY <1>14, <1>15
-----------------------------------------------------------------------------
(* The invariant. *)

Stable ==
    /\ Table
    /\ iter \in [slot : 0 .. Slots, next : Pool \cup {Null}]
    /\ seen \in Seq(Keys) /\ due \subseteq Keys
    /\ IterInv /\ IterationComplete

LEMMA StableIsInv == Stable => IInv
<1> SUFFICES ASSUME Stable PROVE IInv OBVIOUS
<1>1. Linked /\ item \in Items /\ used \subseteq Pool BY DEF Stable, Table, Linked
<1>2. TypeOK BY <1>1 DEF TypeOK, Items, Stable, Table, ItemsInv
<1>3. NoDangling
  <2>1. ASSUME NEW h \in Heads, NEW i \in DOMAIN Chain(h), i > 1 PROVE Chain(h)[i] \in used
    <3>1. Chain(h) \in Seq(Addresses) BY <1>1, Chains
    <3> QED BY <1>1, <2>1, <3>1, Chains
  <2>2. ASSUME iter.next # Null PROVE iter.next \in used
    <3>1. iter # Idle BY <2>2 DEF Idle
    <3>2. PICK j \in DOMAIN Chain(iter.slot) : AtPosition(j) BY <3>1 DEF Stable, IterInv
    <3> QED BY <2>2, <3>2 DEF AtPosition
  <2> QED BY <2>1, <2>2 DEF NoDangling
<1> QED BY <1>2, <1>3 DEF IInv, TableInv, Stable, Table, Linked

LEMMA InitStable == Init => Stable
<1> SUFFICES ASSUME Init PROVE Stable OBVIOUS
<1> DEFINE Fields == [key : Heads, txt : Keys \cup {Null}, data : Data \cup {Null}, next : Pool \cup {Null}]
<1>1. Cleared \in Fields /\ Cleared.txt = Null /\ Cleared.key = 0 /\ Cleared.data = Null /\ Cleared.next = Null
  BY SlotsAssumption DEF Cleared, Heads
<1>2. item \in Items /\ (\A a \in Addresses : item[a] = Cleared) /\ used = {}
  BY <1>1 DEF Init, Items
<1>3. Acyclic BY <1>1, <1>2, NullApart DEF Acyclic
<1>4. ASSUME NEW h \in Heads PROVE Chain(h) = <<h>>
  <2>1. h \in Addresses BY DEF Addresses
  <2>2. IsPath(item, h, Chain(h)) BY <2>1, <1>2, <1>3, ChainPath
  <2>3. item[h].next = Null BY <2>1, <1>1, <1>2
  <2>4. IsPath(item, h, <<h>>) BY <2>1, <2>3, <1>2, PathOne
  <2> QED BY <2>1, <2>2, <2>4, <1>2, <1>3, PathUnique DEF Acyclic, Founded
<1>5. Linked
  <2>1. FreeIsClear BY <1>2 DEF FreeIsClear, Addresses
  <2>2. ChainsApart BY <1>4 DEF ChainsApart
  <2>3. ChainsUsed BY <1>4 DEF ChainsUsed
  <2> QED BY <1>2, <1>3, <2>1, <2>2, <2>3 DEF Linked
<1>6. ItemsInv BY <1>1, <1>2 DEF ItemsInv
<1>7. SlotsInv BY <1>1, <1>2, <1>4 DEF SlotsInv, Addresses
<1>8. NamesOnce
  <2>1. \A h \in Heads : Contents(h) = << >> BY <1>1, <1>2 DEF Contents, Addresses
  <2> QED BY <2>1 DEF NamesOnce
<1>9. /\ iter \in [slot : 0 .. Slots, next : Pool \cup {Null}]
      /\ seen \in Seq(Keys) /\ due \subseteq Keys /\ IterInv /\ IterationComplete
  <2>1. iter = Idle /\ seen = << >> /\ due = {} BY DEF Init
  <2>2. Given = {} BY <2>1 DEF Given
  <2>3. IterInv BY <2>1 DEF IterInv
  <2>4. IterationComplete BY <2>1, <2>2 DEF IterationComplete
  <2>5. iter \in [slot : 0 .. Slots, next : Pool \cup {Null}] BY <2>1, SlotsAssumption DEF Idle
  <2> QED BY <2>1, <2>3, <2>4, <2>5
<1>10. item[0].data = Null
  <2>1. 0 \in Addresses BY SlotsAssumption DEF Heads, Addresses
  <2> QED BY <2>1, <1>1, <1>2
<1> QED BY <1>5, <1>6, <1>7, <1>8, <1>9, <1>10 DEF Stable, Table

\* Calls made while no hash_tab_iterate runs.
LEMMA IdleCall ==
  ASSUME iter = Idle, Forget, iter' = iter, Table'
  PROVE  Stable'
<1>1. iter' = Idle /\ seen' = << >> /\ due' = {} BY DEF Forget
<1>2. Given' = {} BY <1>1 DEF Given
<1>3. IterInv' BY <1>1 DEF IterInv
<1>4. IterationComplete' BY <1>1, <1>2 DEF IterationComplete
<1>5. iter' \in [slot : 0 .. Slots, next : Pool \cup {Null}] BY <1>1, SlotsAssumption DEF Idle
<1> QED BY <1>1, <1>3, <1>4, <1>5 DEF Stable

\* What an iteration is about to do.
LEMMA IterAt ==
  ASSUME Stable, iter # Idle
  PROVE  /\ iter.slot \in Heads /\ GivenOnce /\ Given \subseteq due \cup LostNames /\ Table
         /\ \E j \in 1 .. Len(Chain(iter.slot)) : Standing(iter.slot, j)
<1>1. iter.slot \in Heads /\ StandsAt(iter.slot) BY InvStands DEF Stable
<1>2. Table BY DEF Stable
<1>3. DOMAIN Chain(iter.slot) = 1 .. Len(Chain(iter.slot))
  <2>1. Chain(iter.slot) \in Seq(Addresses) BY <1>1, <1>2, Chains DEF Table
  <2> QED BY <2>1
<1> QED BY <1>1, <1>2, <1>3 DEF StandsAt

LEMMA BeginStable == ASSUME Stable, IterateBegin PROVE Stable'
<1>1. Table /\ item' = item /\ used' = used BY DEF Stable, IterateBegin
<1>2. 0 \in Heads BY SlotsAssumption DEF Heads
<1>3. Table' /\ AllChains' BY <1>1, SameTable, ChainsNext
<1>4. /\ iter' = [slot |-> 0, next |-> Null] /\ seen' = << >> /\ due' = Stored
  BY DEF IterateBegin
<1>5. Stored = NamedAhead(0, 1) \cup NamedLater(0)
  <2>1. \A k \in Keys : k \in Stored <=> \E i \in Names(Hash[k]) : Contents(Hash[k])[i][1] = k
    BY <1>1, Found DEF AllFound, FoundIn, Stored
  <2>2. \A g \in Heads : \A i \in Names(g) :
          Hash[Contents(g)[i][1]] = g /\ Contents(g)[i][1] \in Keys
    BY <1>1, ContentsAre DEF Table, Names
  <2>n. \A g : NamedAhead(g, 1) = {Contents(g)[i][1] : i \in Names(g)} BY DEF NamedAhead, Names
  <2>3. ASSUME NEW k \in Stored PROVE k \in NamedAhead(0, 1) \cup NamedLater(0)
    <3>1. k \in Keys /\ k \in NamedAhead(Hash[k], 1) BY <2>1, <2>n DEF Stored
    <3>2. Hash[k] = 0 \/ Hash[k] \in 0 + 1 .. Slots - 1 BY <3>1, HashType, SlotsAssumption DEF Heads
    <3> QED BY <3>1, <3>2 DEF NamedLater
  <2>4. ASSUME NEW k \in NamedAhead(0, 1) \cup NamedLater(0) PROVE k \in Stored
    <3>1. \A g \in 0 + 1 .. Slots - 1 : g \in Heads BY DEF Heads
    <3>2. PICK g \in Heads : k \in NamedAhead(g, 1) BY <3>1, <1>2 DEF NamedLater
    <3>3. PICK i \in Names(g) : k = Contents(g)[i][1] BY <3>2, <2>n
    <3> QED BY <3>3, <2>1, <2>2
  <2> QED BY <2>3, <2>4
<1>6. NamedAhead(0, 1)' = NamedAhead(0, 1) /\ NamedLater(0)' = NamedLater(0)
  BY <1>1, <1>2, SameTable
<1>7. Given' = {} /\ GivenOnce' BY <1>4 DEF Given, GivenOnce
<1>8. Standing(0, 1)' BY <1>4, <1>5, <1>6, <1>7 DEF Standing
<1>9. StandsAt(0)' BY <1>2, <1>3, <1>4, <1>7, <1>8 DEF StandsAt, AllChains
<1>10. IterInvHolds' BY StandsInv, PTL
<1>11. IterInv' BY <1>2, <1>9, <1>10 DEF IterInvHolds
<1>12. iter' # Idle /\ iter' \in [slot : 0 .. Slots, next : Pool \cup {Null}]
  BY <1>4, SlotsAssumption DEF Idle
<1>13. seen' \in Seq(Keys) /\ due' \subseteq Keys BY <1>4 DEF Stored
<1> QED BY <1>3, <1>11, <1>12, <1>13 DEF Stable, IterationComplete

\* A slot is passed over when nothing in it is found.
LEMMA SkipStable == ASSUME Stable, IterateSkip PROVE Stable'
<1>0. PICK h \in Heads : iter.slot = h BY IterAt DEF IterateSkip
<1>1. /\ GivenOnce /\ Given \subseteq due \cup LostNames /\ Table
      /\ iter.next = Null /\ item[h].txt = Null
  BY <1>0, IterAt DEF IterateSkip
<1>2. PICK j \in 1 .. Len(Chain(h)) : Standing(h, j) BY <1>0, IterAt DEF IterateSkip
<1>3. /\ item' = item /\ used' = used /\ seen' = seen /\ due' = due
      /\ iter' = [iter EXCEPT !.slot = h + 1]
  BY <1>0 DEF IterateSkip
<1>4. iter' = [slot |-> h + 1, next |-> Null] BY <1>0, <1>1, <1>3 DEF Stable
<1>5. /\ Table' /\ LostNames' = LostNames /\ Later(h)' = Later(h) /\ NamedLater(h)' = NamedLater(h)
  BY <1>1, <1>3, SameTable
<1>6. j = 1
  <2>1. used \subseteq Pool BY <1>1 DEF Table, Linked
  <2> QED BY <2>1, <1>1, <1>2, NullApart DEF Standing, Addresses
<1>7. NamedAhead(h, 1) = {}
  <2>1. Chain(h)[1] = h BY <1>1, Chains DEF Table
  <2>2. ASSUME NEW m \in 1 .. Len(Contents(h)) PROVE ~ Named(h, m)
    <3>1. Len(Contents(h)) \in Nat BY <1>1, ContentsAre DEF Table
    <3>2. 1 \in 1 .. m BY <3>1
    <3> QED BY <3>2, <2>1, <1>1 DEF Named
  <2> QED BY <2>2 DEF NamedAhead
<1>8. /\ due \subseteq Given \cup NamedLater(h) /\ NamedLater(h) \subseteq due
      /\ due \cap Given \cap Later(h) = {}
  BY <1>2, <1>6, <1>7 DEF Standing
<1>9. Given' = Given /\ GivenOnce' BY <1>1, <1>3 DEF Given, GivenOnce
<1>10. AllChains' BY <1>5, ChainsNext
<1>11. IterInv' /\ IterationComplete'
  <2>1. /\ due' \subseteq Given' \cup NamedLater(h)' /\ NamedLater(h)' \subseteq due'
        /\ due' \cap Given' \cap Later(h)' = {} /\ Given' \subseteq due' \cup LostNames'
    BY <1>1, <1>3, <1>5, <1>8, <1>9
  <2> QED BY <2>1, <1>4, <1>9, <1>10, SlotEndsNext DEF SlotDone, AllChains
<1>12. iter' \in [slot : 0 .. Slots, next : Pool \cup {Null}]
  <2>1. h + 1 \in 0 .. Slots BY SlotsAssumption DEF Heads
  <2> QED BY <2>1, <1>4
<1> QED BY <1>3, <1>5, <1>11, <1>12 DEF Stable

\* A callback's turn: the iterator's position, what is there and what follows.
LEMMA TurnOf ==
  ASSUME Stable, IterateHead \/ IterateChain
  PROVE  \E h \in Heads : \E j \in 1 .. Len(Contents(h)) :
           /\ iter.slot = h /\ Standing(h, j) /\ item[h].data # Null
           /\ Callback(Contents(h)[j])
           /\ iter' = Onward(IF j = Len(Chain(h)) THEN Null ELSE Chain(h)[j + 1])
           /\ GivenOnce /\ Given \subseteq due \cup LostNames /\ Table
<1>0. iter # Idle BY DEF IterateHead, IterateChain
<1>1. PICK h \in Heads : iter.slot = h BY <1>0, IterAt
<1>2. Table /\ GivenOnce /\ Given \subseteq due \cup LostNames /\ Linked BY <1>0, IterAt DEF Table
<1>3. PICK j \in 1 .. Len(Chain(h)) : Standing(h, j) BY <1>0, <1>1, IterAt
<1>4. used \subseteq Pool BY <1>2 DEF Linked
<1>5. item[h].data # Null
  <2>1. CASE IterateHead BY <2>1, <1>1, <1>2, NullApart DEF IterateHead, Table, ItemsInv, Addresses
  <2>2. CASE IterateChain BY <2>2, <1>3 DEF IterateChain, Standing
  <2> QED BY <2>1, <2>2
<1>6. /\ Len(Contents(h)) = Len(Chain(h))
      /\ \A i \in 1 .. Len(Chain(h)) : Contents(h)[i] = item[Chain(h)[i]].data
  BY <1>2, <1>5, ContentsAre DEF Table
<1>7. Chain(h)[1] = h /\ IsPath(item, h, Chain(h)) /\ Len(Chain(h)) \in Nat BY <1>2, Chains
<1>8. item[Chain(h)[j]].next = IF j = Len(Chain(h)) THEN Null ELSE Chain(h)[j + 1]
  <2>1. CASE j = Len(Chain(h)) BY <2>1, <1>7 DEF IsPath
  <2>2. CASE j # Len(Chain(h))
    <3>1. j \in 1 .. Len(Chain(h)) - 1 BY <2>2, <1>7
    <3> QED BY <2>2, <3>1, <1>7 DEF IsPath
  <2> QED BY <2>1, <2>2
<1>9. CASE IterateHead
  <2>1. j = 1 BY <1>3, <1>4, <1>9, NullApart DEF IterateHead, Standing, Addresses
  <2>2. Callback(item[h].data) /\ iter' = Onward(item[h].next)
    BY <1>1, <1>9 DEF IterateHead, NextOfHead
  <2> QED BY <2>1, <2>2, <1>1, <1>2, <1>3, <1>5, <1>6, <1>7, <1>8
<1>10. CASE IterateChain
  <2>1. Callback(item[iter.next].data) /\ iter' = Onward(item[iter.next].next) /\ iter.next # Null
    BY <1>10 DEF IterateChain
  <2>2. item[iter.next] = item[Chain(h)[j]]
    BY <2>1, <1>3, <1>7 DEF Standing
  <2> QED BY <2>1, <2>2, <1>1, <1>2, <1>3, <1>5, <1>6, <1>8
<1> QED BY <1>9, <1>10

LEMMA TurnStable == ASSUME Stable, IterateHead \/ IterateChain PROVE Stable'
<1>1. PICK h \in Heads : \E j \in 1 .. Len(Contents(h)) :
        /\ iter.slot = h /\ Standing(h, j) /\ item[h].data # Null
        /\ Callback(Contents(h)[j])
        /\ iter' = Onward(IF j = Len(Chain(h)) THEN Null ELSE Chain(h)[j + 1])
        /\ GivenOnce /\ Given \subseteq due \cup LostNames /\ Table
  BY TurnOf
<1>2. PICK j \in 1 .. Len(Contents(h)) :
        /\ iter.slot = h /\ Standing(h, j) /\ item[h].data # Null
        /\ Callback(Contents(h)[j])
        /\ iter' = Onward(IF j = Len(Chain(h)) THEN Null ELSE Chain(h)[j + 1])
        /\ GivenOnce /\ Given \subseteq due \cup LostNames /\ Table
  BY <1>1
<1>3. due' = due /\ due \subseteq Keys BY DEF IterateHead, IterateChain, Stable
<1>4. seen' = Append(seen, Contents(h)[j][1]) BY <1>2 DEF Callback
<1>5. iter \in [slot : 0 .. Slots, next : Pool \cup {Null}] /\ seen \in Seq(Keys) BY DEF Stable
<1>6. Table' /\ IterInv' /\ IterationComplete' /\ seen' \in Seq(Keys)
  BY <1>2, <1>3, <1>4, <1>5, IterStep
<1>7. iter' \in [slot : 0 .. Slots, next : Pool \cup {Null}]
  <2>1. CASE j = Len(Chain(h))
    <3>1. h + 1 \in 0 .. Slots BY SlotsAssumption DEF Heads
    <3> QED BY <3>1, <2>1, <1>2 DEF Onward
  <2>2. CASE j # Len(Chain(h))
    <3>1. Len(Contents(h)) = Len(Chain(h)) /\ Len(Chain(h)) \in Nat /\ Linked
      BY <1>2, ContentsAre, Chains DEF Table
    <3>2. j + 1 \in 1 .. Len(Chain(h)) /\ j + 1 > 1 BY <2>2, <3>1
    <3>3. Chain(h)[j + 1] \in Pool /\ Chain(h)[j + 1] # Null
      BY <3>1, <3>2, Chains, NullApart DEF Addresses
    <3> QED BY <2>2, <3>3, <1>2, <1>5 DEF Onward
  <2> QED BY <2>1, <2>2
<1> QED BY <1>3, <1>6, <1>7 DEF Stable

LEMMA StepStable == Stable /\ [Next]_vars => Stable'
<1> SUFFICES ASSUME Stable, [Next]_vars PROVE Stable' OBVIOUS
<1>0. Table BY DEF Stable
<1>1. ASSUME NEW k \in Keys, HashTabLookup(k) PROVE Stable'
  BY <1>0, <1>1, SameTable, IdleCall DEF HashTabLookup
<1>2. ASSUME NEW k \in Keys, NEW v \in Values, InsertBehind(k, v) PROVE Stable'
  <2>1. Table' BY <1>0, <1>2, InsertBehindEffect
  <2> QED BY <2>1, <1>2, IdleCall DEF InsertBehind
<1>3. ASSUME NEW k \in Keys, NEW v \in Values, InsertHead(k, v) PROVE Stable'
  <2>1. Table' BY <1>0, <1>3, InsertHeadEffect
  <2> QED BY <2>1, <1>3, IdleCall DEF InsertHead
<1>4. ASSUME NEW k \in Keys, NEW v \in Values, InsertFails(k, v) PROVE Stable'
  BY <1>0, <1>4, SameTable, IdleCall DEF InsertFails
<1>5. ASSUME NEW k \in Keys, NEW v \in Values, HashTabUpdate(k, v) PROVE Stable'
  <2>1. Table' BY <1>0, <1>5, UpdateEffect
  <2> QED BY <2>1, <1>5, IdleCall DEF HashTabUpdate
<1>6. CASE IterateBegin BY <1>6, BeginStable
<1>7. CASE IterateSkip BY <1>7, SkipStable
<1>8. CASE IterateHead \/ IterateChain BY <1>8, TurnStable
<1>9. CASE IterateCrashes \/ UNCHANGED vars
  <2>1. item' = item /\ used' = used /\ iter' = iter /\ seen' = seen /\ due' = due
    BY <1>9 DEF IterateCrashes, vars
  <2>2. Table' /\ LostNames' = LostNames BY <1>0, <2>1, SameTable
  <2>3. IterationComplete'
    <3>1. Given' = Given /\ {d[1] : d \in Lost}' = {d[1] : d \in Lost}
      BY <2>1, <2>2 DEF Given, LostNames
    <3> QED BY <2>1, <3>1 DEF Stable, IterationComplete
  <2>4. CASE iter = Idle BY <2>1, <2>2, <2>3, <2>4 DEF Stable, IterInv
  <2>5. CASE iter # Idle
    <3>1. PICK h \in Heads : iter.slot = h BY <2>5, IterAt
    <3>2. GivenOnce /\ Given \subseteq due \cup LostNames /\ DOMAIN Chain(h)' = 1 .. Len(Chain(h))
      <4>1. Chain(h)' = Chain(h) BY <1>0, <2>1, SameTable
      <4>2. DOMAIN Chain(h) = 1 .. Len(Chain(h))
        <5>1. Chain(h) \in Seq(Addresses) BY <1>0, Chains DEF Table
        <5> QED BY <5>1
      <4> QED BY <4>1, <4>2, <2>5, IterAt
    <3>3. PICK j \in 1 .. Len(Chain(h)) : Standing(h, j) BY <2>5, <3>1, IterAt
    <3>4. /\ Ahead(h, j)' = Ahead(h, j) /\ NamedAhead(h, j)' = NamedAhead(h, j)
          /\ Later(h)' = Later(h) /\ NamedLater(h)' = NamedLater(h) /\ Chain(h)' = Chain(h)
      BY <1>0, <2>1, SameTable
    <3>6. Given' = Given /\ GivenOnce' BY <2>1, <3>2 DEF Given, GivenOnce
    <3>7. Standing(h, j)' BY <2>1, <3>3, <3>4, <3>6 DEF Standing
    <3>8. StandsAt(h)' BY <2>1, <2>2, <3>1, <3>2, <3>3, <3>6, <3>7 DEF StandsAt
    <3>9. IterInvHolds' BY StandsInv, PTL
    <3>10. IterInv' BY <3>8, <3>9 DEF IterInvHolds
    <3> QED BY <2>1, <2>2, <2>3, <3>10 DEF Stable
  <2> QED BY <2>4, <2>5
<1> QED BY <1>1, <1>2, <1>3, <1>4, <1>5, <1>6, <1>7, <1>8, <1>9 DEF Next

\* Every call and every turn of an iteration keeps the chains, their contents and
\* the iterator's place in them together.
THEOREM Inductive == Spec => []IInv
<1>1. Spec => []Stable BY InitStable, StepStable, PTL DEF Spec
<1> QED BY <1>1, StableIsInv, PTL

\* An item's fields stay what hashtab.h declares; an item with a name has data.
THEOREM TypeCorrect == Spec => []TypeOK
<1>1. IInv => TypeOK BY DEF IInv
<1> QED BY <1>1, Inductive, PTL

\* hash_tab_remove frees items while hash_tab_iterate stands on the table: no link
\* of a chain, nor the iterator's saved next, leads to a freed one.
THEOREM NoDanglingAlways == Spec => []NoDangling
<1>1. IInv => NoDangling BY DEF IInv
<1> QED BY <1>1, Inductive, PTL

\* hash_tab_iterate gives its callback every name that lookups find once, though
\* the callback removes items and heads take over the contents of the next; what
\* else it gives was inserted under a name that could not be copied, or behind one.
THEOREM IterationCompleteAlways == Spec => []IterationComplete
<1>1. IInv => IterationComplete BY DEF IInv
<1> QED BY <1>1, Inductive, PTL

-----------------------------------------------------------------------------
(* The table implements the map. *)

\* A lookup depends on where lookups come to that name in its slot alone.
LEMMA OtherName ==
  ASSUME Table, Table', NEW q \in Keys,
         \A i \in Names(Hash[q]) : Contents(Hash[q])[i][1] = q =>
           \E j \in Names(Hash[q])' : Contents(Hash[q])'[j] = Contents(Hash[q])[i],
         \A j \in Names(Hash[q])' : Contents(Hash[q])'[j][1] = q =>
           \E i \in Names(Hash[q]) : Contents(Hash[q])'[j] = Contents(Hash[q])[i]
  PROVE  Lookup(q)' = Lookup(q)
<1> DEFINE s == Contents(Hash[q])
           n == Names(Hash[q])
<1>1. FoundIn(q, s, n) BY Found DEF AllFound
<1>2. FoundIn(q, s, n)' BY FoundNext DEF AllFound
<1>3. /\ Lookup(q) # Null <=> \E i \in n : s[i][1] = q
      /\ \A i \in n : s[i][1] = q => Lookup(q) = s[i]
  BY <1>1 DEF FoundIn
<1>4. /\ Lookup(q)' # Null <=> \E i \in n' : s'[i][1] = q
      /\ \A i \in n' : s'[i][1] = q => Lookup(q)' = s'[i]
  BY <1>2 DEF FoundIn
<1>5. CASE \E i \in n : s[i][1] = q
  <2>1. PICK i \in n : s[i][1] = q BY <1>5
  <2>2. PICK j \in n' : s'[j] = s[i] BY <2>1
  <2> QED BY <2>1, <2>2, <1>3, <1>4
<1>6. CASE ~ \E i \in n : s[i][1] = q
  <2>1. ~ \E j \in n' : s'[j][1] = q BY <1>6
  <2> QED BY <2>1, <1>3, <1>4, <1>6
<1> QED BY <1>5, <1>6

\* A name of which the slot shows d, or nothing, in the next state.
LEMMA FoundNow ==
  ASSUME Table', NEW k \in Keys
  PROVE  /\ \A j \in Names(Hash[k])' :
              Contents(Hash[k])'[j][1] = k => Lookup(k)' = Contents(Hash[k])'[j]
         /\ (\A j \in Names(Hash[k])' : Contents(Hash[k])'[j][1] # k) => Lookup(k)' = Null
<1>1. FoundIn(k, Contents(Hash[k]), Names(Hash[k]))' BY FoundNext DEF AllFound
<1> QED BY <1>1 DEF FoundIn

\* The map that lookups show.
Seen == [k \in Keys |-> Lookup(k)]

LEMMA SeenSame ==
  ASSUME Table, item' = item, used' = used
  PROVE  Seen' = Seen /\ Lost' = Lost /\ Deafs' = Deafs
<1>1. Table' /\ Lost' = Lost /\ Deafs' = Deafs /\ \A g \in Heads : Same(g) BY SameTable
<1>2. \A k \in Keys : Lookup(k)' = Lookup(k) BY <1>1, HashType, SameContents DEF Same
<1> QED BY <1>1, <1>2 DEF Seen

LEMMA SeenChange ==
  ASSUME NEW k \in Keys, NEW d, Lookup(k)' = d, \A q \in Keys \ {k} : Lookup(q)' = Lookup(q)
  PROVE  Seen' = [Seen EXCEPT ![k] = d]
BY DEF Seen

\* Behind an item without a name, or the first slot's empty head, what is inserted
\* is lost, and so it is without a name of its own; else it is stored.
LEMMA AppendedSeen ==
  ASSUME Table, Table', NEW k \in Keys, NEW v \in Values, Appended(k, v),
         \A g \in Heads : g # Hash[k] => Same(g)
  PROVE  \/ /\ Hash[k] \notin Deafs /\ Seen' = [Seen EXCEPT ![k] = <<k, v>>]
            /\ Lost' = Lost /\ Deafs' = Deafs
         \/ Seen' = Seen /\ Lost' = Lost \cup {<<k, v>>} /\ Deafs' = Deafs \cup {Hash[k]}
<1>1. PICK h \in Heads : h = Hash[k] BY HashType
<1> DEFINE s == Contents(h)
           n == Names(h)
           t == Append(s, <<k, v>>)
<1>2. s \in Seq(Data) /\ Len(s) \in Nat BY ContentsAre DEF Table
<1>3. n \subseteq 1 .. Len(s) BY DEF Names
<1>4. /\ s' = t /\ h # 0
      /\ n' = n \/ (n = 1 .. Len(s) /\ n' = 1 .. Len(s) + 1)
  BY <1>1 DEF Appended
<1>5. Unnamed(h) = {s[i] : i \in 1 .. Len(s) \ n} BY DEF Unnamed
<1>6. Unnamed(h)' = {s'[i] : i \in 1 .. Len(s') \ n'} BY DEF Unnamed
<1>7. /\ 0 \in Heads /\ LostIs /\ LostIs' /\ DeafIs /\ DeafIs'
      /\ LostOf(0)' = LostOf(0) /\ \A g \in Heads : g # h => Unnamed(g)' = Unnamed(g)
  <2>1. 0 \in Heads BY SlotsAssumption DEF Heads
  <2> QED BY <2>1, <1>1, <1>4, LostFrom, DeafFrom, ReadNext, UnnamedSame DEF Same
<1>8. ASSUME NEW q \in Keys, Hash[q] # h PROVE Lookup(q)' = Lookup(q)
  BY <1>1, <1>8, HashType, SameContents DEF Same
<1>9. ASSUME NEW q \in Keys, Hash[q] = h,
             \A i \in n : s[i][1] = q => \E j \in n' : s'[j] = s[i],
             \A j \in n' : s'[j][1] = q => \E i \in n : s'[j] = s[i]
      PROVE  Lookup(q)' = Lookup(q)
  BY <1>9, OtherName
<1>10. Lookup(k)' = <<k, v>> \/ \A j \in n' : s'[j] # <<k, v>>
  <2>1. <<k, v>>[1] = k OBVIOUS
  <2> QED BY <2>1, <1>1, FoundNow
<1> HIDE DEF s, n
<1>11. /\ Len(t) = Len(s) + 1 /\ t[Len(s) + 1] = <<k, v>>
       /\ \A i \in 1 .. Len(s) : t[i] = s[i]
  BY <1>2
<1> HIDE DEF t
<1>12. <<k, v>>[1] = k OBVIOUS
<1>13. CASE n' = n
  <2>1. \A i \in n : s'[i] = s[i] BY <1>3, <1>4, <1>11
  <2>2. \A q \in Keys : Lookup(q)' = Lookup(q) BY <2>1, <1>8, <1>9, <1>13
  <2>3. 1 .. Len(s') \ n' = (1 .. Len(s) \ n) \cup {Len(s) + 1} BY <1>2, <1>3, <1>4, <1>11, <1>13
  <2>4. Unnamed(h)' = Unnamed(h) \cup {<<k, v>>}
    <3>1. ASSUME NEW x \in Unnamed(h)' PROVE x \in Unnamed(h) \cup {<<k, v>>}
      <4>1. PICK i \in (1 .. Len(s) \ n) \cup {Len(s) + 1} : x = s'[i] BY <1>6, <2>3
      <4> QED BY <4>1, <1>4, <1>5, <1>11
    <3>2. ASSUME NEW x \in Unnamed(h) PROVE x \in Unnamed(h)'
      <4>1. PICK i \in 1 .. Len(s) \ n : x = s[i] BY <1>5
      <4> QED BY <4>1, <2>3, <1>4, <1>6, <1>11
    <3>3. <<k, v>> \in Unnamed(h)' BY <2>3, <1>4, <1>6, <1>11
    <3> QED BY <3>1, <3>2, <3>3
  <2>5. Lost' = Lost \cup {<<k, v>>}
    <3>1. UNION {Unnamed(g)' : g \in Heads} = (UNION {Unnamed(g) : g \in Heads}) \cup {<<k, v>>}
      <4>1. \A g \in Heads : Unnamed(g)' = IF g = h THEN Unnamed(g) \cup {<<k, v>>} ELSE Unnamed(g)
        BY <2>4, <1>7
      <4>2. \A x : x \in UNION {Unnamed(g)' : g \in Heads} <=> \E g \in Heads : x \in Unnamed(g)' OBVIOUS
      <4>3. \A x : x \in UNION {Unnamed(g) : g \in Heads} <=> \E g \in Heads : x \in Unnamed(g) OBVIOUS
      <4> QED BY <4>1, <4>2, <4>3
    <3> QED BY <3>1, <1>7 DEF LostIs
  <2>6. Deafs' = Deafs \cup {h}
    <3>1. Unnamed(h)' # {} BY <2>4
    <3> QED BY <3>1, <1>7 DEF DeafIs, Deafs
  <2> QED BY <2>2, <2>5, <2>6, <1>1 DEF Seen
<1>14. CASE n = 1 .. Len(s) /\ n' = 1 .. Len(s) + 1
  <2>1. Unnamed(h) = {} /\ Unnamed(h)' = {}
    <3>1. 1 .. Len(s) \ n = {} /\ 1 .. Len(s') \ n' = {} BY <1>4, <1>11, <1>14
    <3> QED BY <3>1, <1>5, <1>6
  <2>2. Lost' = Lost /\ Deafs' = Deafs BY <2>1, <1>7, LostKept
  <2>3. h \notin Deafs BY <2>1, <1>4, <1>7 DEF DeafIs, Deafs
  <2>4. Lookup(k)' = <<k, v>>
    <3>1. Len(s) + 1 \in n' /\ s'[Len(s) + 1] = <<k, v>> BY <1>2, <1>4, <1>11, <1>14
    <3> QED BY <3>1, <1>10
  <2>5. ASSUME NEW q \in Keys \ {k} PROVE Lookup(q)' = Lookup(q)
    <3>1. CASE Hash[q] = h
      <4>1. \A i \in n : i \in n' /\ s'[i] = s[i] BY <1>2, <1>4, <1>11, <1>14
      <4>2. \A j \in n' : s'[j][1] = q => j \in n /\ s'[j] = s[j]
        <5> SUFFICES ASSUME NEW j \in n', s'[j][1] = q PROVE j \in n /\ s'[j] = s[j] OBVIOUS
        <5>1. j # Len(s) + 1 BY <1>4, <1>11, <1>12
        <5>2. j \in 1 .. Len(s) BY <5>1, <1>2, <1>14
        <5> QED BY <5>2, <4>1, <1>14
      <4> QED BY <3>1, <4>1, <4>2, <1>9
    <3> QED BY <3>1, <1>8
  <2> QED BY <2>2, <2>3, <2>4, <2>5, <1>1, SeenChange
<1> QED BY <1>4, <1>13, <1>14

LEMMA InsertSeen ==
  ASSUME Table, NEW k \in Keys, NEW v \in Values, InsertBehind(k, v) \/ InsertHead(k, v)
  PROVE  \/ /\ Hash[k] \notin Deafs /\ Seen' = [Seen EXCEPT ![k] = <<k, v>>]
            /\ Lost' = Lost /\ Deafs' = Deafs
         \/ Seen' = Seen /\ Lost' = Lost \cup {<<k, v>>} /\ Deafs' = Deafs \cup {Hash[k]}
<1>1. /\ Table' /\ \A g \in Heads : g # Hash[k] => Same(g)
      /\ \/ /\ Hash[k] = 0 /\ LostOf(0)' = LostOf(0) \cup {<<k, v>>}
            /\ Contents(0)' = Contents(0) /\ Names(0)' = Names(0)
         \/ Appended(k, v)
  BY InsertBehindEffect, InsertHeadEffect
<1>2. CASE Appended(k, v) BY <1>1, <1>2, AppendedSeen
<1>3. CASE /\ Hash[k] = 0 /\ LostOf(0)' = LostOf(0) \cup {<<k, v>>}
           /\ Contents(0)' = Contents(0) /\ Names(0)' = Names(0)
  <2>1. 0 \in Heads /\ LostIs /\ LostIs' /\ DeafIs /\ DeafIs'
    BY <1>1, SlotsAssumption, LostFrom, DeafFrom, ReadNext DEF Heads
  <2>2. \A g \in Heads : Contents(g)' = Contents(g) /\ Names(g)' = Names(g) BY <1>1, <1>3 DEF Same
  <2>3. \A g \in Heads : Unnamed(g)' = Unnamed(g) BY <2>2 DEF Unnamed
  <2>4. Lost' = Lost \cup {<<k, v>>}
    <3>1. UNION {Unnamed(g)' : g \in Heads} = UNION {Unnamed(g) : g \in Heads} BY <2>3
    <3> QED BY <3>1, <1>3, <2>1 DEF LostIs
  <2>5. Deafs' = Deafs /\ 0 \in Deafs BY <2>1, <2>3 DEF DeafIs, Deafs
  <2>6. \A q \in Keys : Lookup(q)' = Lookup(q) BY <1>1, <2>2, HashType, SameContents
  <2> QED BY <1>3, <2>4, <2>5, <2>6 DEF Seen
<1> QED BY <1>1, <1>2, <1>3

LEMMA UpdateSeen ==
  ASSUME Table, NEW k \in Keys, NEW v \in Values, HashTabUpdate(k, v)
  PROVE  Seen' = [Seen EXCEPT ![k] = <<k, v>>] /\ Lost' = Lost /\ Deafs' = Deafs
<1>0. PICK h \in Heads : h = Hash[k] BY HashType
<1> DEFINE s == Contents(h)
           n == Names(h)
<1>1. Table' /\ h # 0 /\ n' = n /\ \A g \in Heads : g # h => Same(g) BY <1>0, UpdateEffect
<1>2. PICK i \in n : s[i][1] = k /\ s' = [s EXCEPT ![i] = <<k, v>>]
  BY <1>0, UpdateEffect
<1>3. s \in Seq(Data) /\ Len(s) \in Nat /\ n \subseteq 1 .. Len(s) BY ContentsAre DEF Table, Names
<1>4. Unnamed(h) = {s[m] : m \in 1 .. Len(s) \ n} BY DEF Unnamed
<1>5. Unnamed(h)' = {s'[m] : m \in 1 .. Len(s') \ n'} BY DEF Unnamed
<1>6. ASSUME NEW q \in Keys, Hash[q] = h,
             \A m \in n : s[m][1] = q => \E j \in n' : s'[j] = s[m],
             \A j \in n' : s'[j][1] = q => \E m \in n : s'[j] = s[m]
      PROVE  Lookup(q)' = Lookup(q)
  BY <1>1, <1>6, OtherName
<1>7. \A j \in n' : s'[j][1] = k => Lookup(k)' = s'[j] BY <1>0, <1>1, FoundNow
<1> DEFINE t == [s EXCEPT ![i] = <<k, v>>]
<1> HIDE DEF s, n
<1>8. /\ Len(t) = Len(s) /\ t[i] = <<k, v>>
      /\ \A m \in 1 .. Len(s) : m # i => t[m] = s[m]
  BY <1>2, <1>3
<1> HIDE DEF t
<1>9. <<k, v>>[1] = k /\ s' = t BY <1>2 DEF t
<1>10. Lookup(k)' = <<k, v>> BY <1>1, <1>2, <1>7, <1>8, <1>9
<1>11. ASSUME NEW q \in Keys \ {k} PROVE Lookup(q)' = Lookup(q)
  <2>1. CASE Hash[q] = h
    <3>1. \A m \in n : s[m][1] = q => m \in n' /\ s'[m] = s[m] BY <1>1, <1>2, <1>3, <1>8, <1>9
    <3>2. \A j \in n' : s'[j][1] = q => j \in n /\ s'[j] = s[j] BY <1>1, <1>3, <1>8, <1>9
    <3> QED BY <2>1, <3>1, <3>2, <1>6
  <2>2. CASE Hash[q] # h BY <2>2, <1>1, HashType, SameContents DEF Same
  <2> QED BY <2>1, <2>2
<1>12. Unnamed(h)' = Unnamed(h)
  <2>1. 1 .. Len(s') \ n' = 1 .. Len(s) \ n BY <1>1, <1>8, <1>9
  <2>2. \A m \in 1 .. Len(s) \ n : s'[m] = s[m] BY <1>2, <1>8, <1>9
  <2> QED BY <2>1, <2>2, <1>4, <1>5
<1>13. LostOf(0)' = LostOf(0) /\ \A g \in Heads : Unnamed(g)' = Unnamed(g)
  <2>1. 0 \in Heads BY SlotsAssumption DEF Heads
  <2> QED BY <2>1, <1>1, <1>12, UnnamedSame DEF Same
<1>14. Lost' = Lost /\ Deafs' = Deafs BY <1>1, <1>13, LostKept
<1> QED BY <1>10, <1>11, <1>14, SeenChange

LEMMA RemoveSeen ==
  ASSUME Table, NEW h \in Heads, NEW i \in Names(h), Removed(h, i)
  PROVE  /\ Contents(h)[i][1] \in Keys
         /\ Seen' = [Seen EXCEPT ![Contents(h)[i][1]] = Null]
         /\ Lost' = Lost /\ Deafs' = Deafs
<1> DEFINE s == Contents(h)
           n == Names(h)
           t == Drop(s, i)
<1>1. /\ s \in Seq(Data) /\ Len(s) \in Nat
      /\ n \subseteq 1 .. Len(s) /\ \A a \in n : \A b \in 1 .. a : b \in n
      /\ \A m \in 1 .. Len(s) : s[m][1] \in Keys /\ Hash[s[m][1]] = h
  BY ContentsAre, NamesAre DEF Table
<1>2. PICK k \in Keys : k = s[i][1] /\ Hash[k] = h /\ i \in n BY <1>1
<1>3. /\ Table' /\ s' = t /\ n' = {m \in 1 .. Len(s) - 1 : m + 1 \in n}
      /\ \A g \in Heads : g # h => Same(g)
  BY DEF Removed
<1>4. \A m \in n : s[m][1] = k => m = i BY <1>1, <1>2, NamesDiffer
<1>5. ASSUME NEW q \in Keys, Hash[q] = h,
             \A m \in n : s[m][1] = q => \E j \in n' : s'[j] = s[m],
             \A j \in n' : s'[j][1] = q => \E m \in n : s'[j] = s[m]
      PROVE  Lookup(q)' = Lookup(q)
  BY <1>3, <1>5, OtherName
<1>6. (\A j \in n' : s'[j][1] # k) => Lookup(k)' = Null BY <1>2, <1>3, FoundNow
<1> HIDE DEF s, n
<1>7. /\ Len(t) = Len(s) - 1
      /\ \A m \in 1 .. Len(s) - 1 : t[m] = IF m < i THEN s[m] ELSE s[m + 1]
  BY <1>1, <1>2 DEF Drop
<1> HIDE DEF t
<1>8. \A m \in n : m # i => \E j \in n' : s'[j] = s[m]
  <2> SUFFICES ASSUME NEW m \in n, m # i PROVE \E j \in n' : s'[j] = s[m] OBVIOUS
  <2>0. m \in 1 .. Len(s) /\ i \in 1 .. Len(s) BY <1>1, <1>2
  <2>1. CASE m < i
    <3>1. m \in 1 .. Len(s) - 1 /\ m + 1 \in 1 .. i BY <2>0, <2>1, <1>1
    <3>2. m \in n' BY <3>1, <1>1, <1>2, <1>3
    <3> QED BY <2>1, <3>1, <3>2, <1>3, <1>7
  <2>2. CASE m > i
    <3>1. m - 1 \in 1 .. Len(s) - 1 /\ ~ (m - 1 < i) /\ m - 1 + 1 = m BY <2>0, <2>2, <1>1
    <3>2. t[m - 1] = s[m] /\ m - 1 \in n' BY <3>1, <1>3, <1>7
    <3> QED BY <3>2, <1>3
  <2> QED BY <2>0, <2>1, <2>2
<1>9. \A j \in n' : \E m \in n : m # i /\ s'[j] = s[m]
  <2> SUFFICES ASSUME NEW j \in n' PROVE \E m \in n : m # i /\ s'[j] = s[m] OBVIOUS
  <2>1. j \in 1 .. Len(s) - 1 /\ j + 1 \in n /\ i \in 1 .. Len(s) BY <1>1, <1>2, <1>3
  <2>2. j \in 1 .. j + 1 /\ j \in n BY <2>1, <1>1
  <2>3. CASE j < i BY <2>1, <2>2, <2>3, <1>3, <1>7
  <2>4. CASE ~ (j < i)
    <3>1. j + 1 # i BY <2>1, <2>4
    <3> QED BY <2>1, <2>4, <3>1, <1>3, <1>7
  <2> QED BY <2>3, <2>4
<1>10. Lookup(k)' = Null BY <1>4, <1>6, <1>9
<1>11. ASSUME NEW q \in Keys \ {k} PROVE Lookup(q)' = Lookup(q)
  <2>1. CASE Hash[q] = h
    <3>1. \A m \in n : s[m][1] = q => \E j \in n' : s'[j] = s[m] BY <1>2, <1>8
    <3>2. \A j \in n' : s'[j][1] = q => \E m \in n : s'[j] = s[m] BY <1>9
    <3> QED BY <2>1, <3>1, <3>2, <1>5
  <2>2. CASE Hash[q] # h BY <2>2, <1>3, HashType, SameContents DEF Same
  <2> QED BY <2>1, <2>2
<1>12. Lost' = Lost /\ Deafs' = Deafs BY RemovedLost
<1> QED BY <1>2, <1>10, <1>11, <1>12, SeenChange DEF s

\* What a slot holds is found or lost.
LEMMA HeldSeen ==
  ASSUME Table, NEW h \in Heads, NEW j \in 1 .. Len(Contents(h))
  PROVE  /\ Contents(h)[j] \in Data /\ Contents(h)[j][1] \in Keys /\ Hash[Contents(h)[j][1]] = h
         /\ j \in Names(h) => Lookup(Contents(h)[j][1]) = Contents(h)[j]
         /\ j \notin Names(h) => Contents(h)[j] \in Lost
<1>1. PICK k \in Keys : k = Contents(h)[j][1] /\ Hash[k] = h BY ContentsAre DEF Table
<1>2. Contents(h)[j] \in Data BY ContentsAre DEF Table
<1>3. ASSUME j \in Names(h) PROVE Lookup(k) = Contents(h)[j]
  <2>1. FoundIn(k, Contents(Hash[k]), Names(Hash[k])) BY Found DEF AllFound
  <2> QED BY <2>1, <1>1, <1>3 DEF FoundIn
<1>4. ASSUME j \notin Names(h) PROVE Contents(h)[j] \in Lost
  <2>1. Contents(h)[j] \in Unnamed(h) BY <1>4 DEF Unnamed
  <2> QED BY <2>1, LostFrom DEF LostIs
<1> QED BY <1>1, <1>2, <1>3, <1>4

\* Each call is a step of the map, or shows in no lookup.
LEMMA MapStep ==
  ASSUME Stable, [Next]_vars
  PROVE  [M!Next]_<<Seen, Lost, Deafs, call>>
<1>0. Table /\ \A k \in Keys : Seen[k] = Lookup(k) BY DEF Stable, Seen
<1>c. CASE call = <<"crash">> /\ UNCHANGED vars
  <2>1. item' = item /\ used' = used /\ call' = call BY <1>c DEF vars
  <2> QED BY <1>0, <2>1, SeenSame
<1>1. ASSUME NEW k \in Keys, HashTabLookup(k), call # <<"crash">> PROVE M!Next
  <2>1. Seen' = Seen /\ Lost' = Lost /\ Deafs' = Deafs BY <1>0, <1>1, SeenSame DEF HashTabLookup
  <2>2. M!Found(k) BY <1>0, <1>1, <2>1 DEF HashTabLookup, M!Found, Seen, Deafs
  <2> QED BY <1>1, <2>2 DEF M!Next
<1>2. ASSUME NEW k \in Keys, NEW v \in Values, InsertBehind(k, v) \/ InsertHead(k, v),
             call # <<"crash">>
      PROVE  M!Next
  <2>1. Lookup(k) = Null /\ call' = <<"insert", <<k, v>>, "HASH_OK">>
    BY <1>2 DEF InsertBehind, InsertHead
  <2>2. CASE /\ Hash[k] \notin Deafs /\ Seen' = [Seen EXCEPT ![k] = <<k, v>>]
             /\ Lost' = Lost /\ Deafs' = Deafs
    <3>1. M!Stored(k, v) BY <2>2 DEF M!Stored, Seen, Deafs
    <3>2. M!Inserted(k, v) BY <1>0, <2>1, <3>1 DEF M!Inserted, Seen
    <3> QED BY <1>2, <3>2 DEF M!Next
  <2>3. CASE Seen' = Seen /\ Lost' = Lost \cup {<<k, v>>} /\ Deafs' = Deafs \cup {Hash[k]}
    <3>1. M!Loses(k, v) BY <2>3 DEF M!Loses, Seen, Deafs
    <3>2. M!Inserted(k, v) BY <1>0, <2>1, <3>1 DEF M!Inserted, Seen
    <3> QED BY <1>2, <3>2 DEF M!Next
  <2> QED BY <1>0, <1>2, <2>2, <2>3, InsertSeen
<1>3. ASSUME NEW k \in Keys, NEW v \in Values, InsertFails(k, v), call # <<"crash">> PROVE M!Next
  <2>1. Seen' = Seen /\ Lost' = Lost /\ Deafs' = Deafs BY <1>0, <1>3, SeenSame DEF InsertFails
  <2>2. M!Inserted(k, v) BY <1>0, <1>3, <2>1 DEF InsertFails, M!Inserted, Seen, Deafs
  <2> QED BY <1>3, <2>2 DEF M!Next
<1>4. ASSUME NEW k \in Keys, NEW v \in Values, HashTabUpdate(k, v), call # <<"crash">> PROVE M!Next
  <2>1. Seen' = [Seen EXCEPT ![k] = <<k, v>>] /\ Lost' = Lost /\ Deafs' = Deafs
    BY <1>0, <1>4, UpdateSeen
  <2>2. M!Updated(k, v) BY <1>0, <1>4, <2>1 DEF HashTabUpdate, M!Updated, Seen, Deafs
  <2> QED BY <1>4, <2>2 DEF M!Next
<1>5. CASE IterateBegin \/ IterateSkip \/ UNCHANGED vars
  <2>1. item' = item /\ used' = used /\ call' = call BY <1>5 DEF IterateBegin, IterateSkip, vars
  <2>2. Seen' = Seen /\ Lost' = Lost /\ Deafs' = Deafs BY <1>0, <2>1, SeenSame
  <2> QED BY <2>1, <2>2
<1>6. ASSUME IterateHead \/ IterateChain, call # <<"crash">> PROVE M!Next
  <2>0. PICK h \in Heads : \E j \in 1 .. Len(Contents(h)) : Callback(Contents(h)[j])
    BY <1>6, TurnOf
  <2>1. PICK j \in 1 .. Len(Contents(h)) : Callback(Contents(h)[j]) BY <2>0
  <2>2. PICK d \in Data : d = Contents(h)[j] BY <1>0, HeldSeen
  <2>3. PICK k \in Keys : k = d[1] /\ Hash[k] = h BY <1>0, <2>2, HeldSeen
  <2>4. (j \in Names(h) => Lookup(k) = d) /\ (j \notin Names(h) => d \in Lost)
    BY <1>0, <2>2, <2>3, HeldSeen
  <2>5. CASE call' = <<"visit", d>> /\ item' = item /\ used' = used
    <3>1. Seen' = Seen /\ Lost' = Lost /\ Deafs' = Deafs BY <1>0, <2>5, SeenSame
    <3>2. M!Visited(d)
      <4>1. Seen[d[1]] = d \/ d \in Lost BY <1>0, <2>3, <2>4
      <4> QED BY <4>1, <2>5, <3>1 DEF M!Visited, Seen, Deafs
    <3> QED BY <1>6, <3>2 DEF M!Next, M!Data, Data
  <2>6. CASE /\ j \in Names(h) /\ Removed(h, j)
             /\ Returns(k, d) \/ (j = 1 /\ Len(Contents(h)) > 1 /\ Returns(k, Null))
    <3>1. Seen' = [Seen EXCEPT ![k] = Null] /\ Lost' = Lost /\ Deafs' = Deafs
      BY <1>0, <2>2, <2>3, <2>6, RemoveSeen
    <3>2. Lookup(k) = d /\ d # Null BY <2>4, <2>6, NullApart
    <3>3. Returns(k, Null) /\ j = 1 /\ Len(Contents(h)) > 1 => M!SharesHash(k)
      <4> SUFFICES ASSUME j = 1, Len(Contents(h)) > 1 PROVE M!SharesHash(k) OBVIOUS
      <4>1. Len(Contents(h)) \in Nat BY <1>0, ContentsAre DEF Table
      <4>2. PICK m \in 1 .. Len(Contents(h)) : m = 2 BY <4>1
      <4>3. PICK e \in Data : e = Contents(h)[m] BY <1>0, HeldSeen
      <4>4. PICK q \in Keys : q = e[1] /\ Hash[q] = h BY <1>0, <4>3, HeldSeen
      <4>5. q # k BY <1>0, <2>2, <2>3, <2>6, <4>2, <4>3, <4>4, NamesDiffer
      <4>6. Lookup(q) # Null \/ e \in Lost BY <1>0, <4>3, <4>4, HeldSeen, NullApart
      <4>7. PICK v \in Values : e = <<q, v>> BY <4>3, <4>4 DEF Data
      <4> QED BY <2>3, <4>4, <4>5, <4>6, <4>7 DEF M!SharesHash
    <3>4. M!Removed(k)
      <4>1. call' = <<"remove", k, Lookup(k)>> \/ (call' = <<"remove", k, Null>> /\ M!SharesHash(k))
        BY <2>6, <3>2, <3>3 DEF Returns
      <4> QED BY <4>1, <3>1, <3>2 DEF M!Removed, Seen, Deafs
    <3> QED BY <1>6, <3>4 DEF M!Next
  <2> QED BY <1>0, <2>1, <2>2, <2>3, <2>5, <2>6, CallbackEffect
<1>7. ASSUME IterateCrashes, call # <<"crash">> PROVE M!Next
  <2>1. iter # Idle /\ iter.next # Null /\ ComparesNull(item[iter.next].data[1])
    BY <1>7 DEF IterateCrashes
  <2>2. PICK h \in Heads : iter.slot = h BY <2>1, IterAt
  <2>3. PICK j \in 1 .. Len(Chain(h)) : Standing(h, j) BY <2>1, <2>2, IterAt
  <2>4. item[h].data # Null /\ item[iter.next] = item[Chain(h)[j]]
    <3>1. Chain(h)[1] = h BY <1>0, Chains DEF Table
    <3> QED BY <3>1, <2>1, <2>3 DEF Standing
  <2>5. Len(Contents(h)) = Len(Chain(h)) /\ item[iter.next].data = Contents(h)[j]
    BY <1>0, <2>4, ContentsAre DEF Table
  <2>6. PICK k \in Keys : k = item[iter.next].data[1] /\ Hash[k] = h BY <1>0, <2>5, HeldSeen
  <2>7. PICK i \in DOMAIN Chain(h) : item[Chain(h)[i]].txt = Null BY <2>1, <2>6 DEF ComparesNull
  <2>8. i \in 1 .. Len(Contents(h)) /\ i \in 1 .. i
    <3>1. Chain(h) \in Seq(Addresses) BY <1>0, Chains DEF Table
    <3>2. DOMAIN Chain(h) = 1 .. Len(Chain(h)) BY <3>1
    <3> QED BY <3>2, <2>5
  <2>9. i \notin Names(h) BY <1>0, <2>7, <2>8, NamesAre DEF Table
  <2>10. Contents(h)[i] \in Lost BY <1>0, <2>8, <2>9, HeldSeen
  <2>11. Seen' = Seen /\ Lost' = Lost /\ Deafs' = Deafs BY <1>0, <1>7, SeenSame DEF IterateCrashes
  <2>12. M!Crashed BY <1>7, <2>10, <2>11 DEF IterateCrashes, M!Crashed, Seen, Deafs
  <2> QED BY <1>7, <2>12 DEF M!Next
<1> QED BY <1>c, <1>1, <1>2, <1>3, <1>4, <1>5, <1>6, <1>7 DEF Next

LEMMA MapInit == Init => M!Init
<1> SUFFICES ASSUME Init PROVE M!Init OBVIOUS
<1>1. Stable /\ Table /\ LostIs /\ DeafIs BY InitStable, LostFrom, DeafFrom DEF Stable
<1>2. \A a \in Addresses : item[a].data = Null BY DEF Init, Cleared
<1>3. ASSUME NEW h \in Heads PROVE Contents(h) = << >> /\ Unnamed(h) = {}
  <2>1. Contents(h) = << >> BY <1>2 DEF Contents, Addresses
  <2> QED BY <2>1 DEF Unnamed
<1>4. ASSUME NEW k \in Keys PROVE Lookup(k) = Null
  <2>1. FoundIn(k, Contents(Hash[k]), Names(Hash[k])) BY <1>1, Found DEF AllFound
  <2>2. Names(Hash[k]) = {} BY <1>3, HashType DEF Names
  <2> QED BY <2>1, <2>2 DEF FoundIn
<1>5. 0 \in Heads BY SlotsAssumption DEF Heads
<1>6. LostOf(0) = {}
  <2>1. ASSUME NEW i \in DOMAIN Chain(0) PROVE item[Chain(0)[i]].data = Null
    <3>1. Chain(0) \in Seq(Addresses) BY <1>1, <1>5, Chains DEF Table
    <3>2. Chain(0)[i] \in Addresses BY <3>1
    <3> QED BY <3>2, <1>2
  <2> QED BY <2>1 DEF LostOf, Nameless
<1>7. Lost = {} BY <1>1, <1>3, <1>6 DEF LostIs
<1>8. {h \in Heads : Deaf(h)} = {0} BY <1>1, <1>3, <1>5 DEF DeafIs
<1>9. call = <<"init">> BY DEF Init
<1> QED BY <1>4, <1>7, <1>8, <1>9 DEF M!Init

\* Seen through hash_tab_lookup, every call gives the result the map gives and does
\* what it does: with a failing strdup (hashtab.c:116, :128) nothing is stored, but
\* what is found stays found, and what hash_tab_remove returns (:190-205) is what
\* was stored, or NULL if another name has the same hash.
THEOREM TableImplementsKeyMap == Spec => ImplementsKeyMap
<1>1. Spec => []Stable BY InitStable, StepStable, PTL DEF Spec
<1>2. Stable /\ [Next]_vars => [M!Next]_<<Seen, Lost, Deafs, call>> BY MapStep
<1>3. [M!Next]_<<Seen, Lost, Deafs, call>> =>
        [M!Next]_<<[k \in Keys |-> Lookup(k)], Lost, {h \in Heads : Deaf(h)}, call>>
  BY DEF Seen, Deafs
<1> QED BY <1>1, <1>2, <1>3, MapInit, PTL DEF Spec, ImplementsKeyMap, M!Spec

=============================================================================
