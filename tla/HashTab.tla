------------------------------ MODULE HashTab -------------------------------
(***************************************************************************)
(* The hash table of hashtab.c under the symbol table and the node tables: *)
(* an array of heads, each with a chain of malloc'ed items behind it.  An   *)
(* address is a slot's number (its head) or one of Pool (malloc).           *)
(*                                                                         *)
(* Calls are those the compiler makes: a name is inserted when a lookup has *)
(* not found it (st_insert), updated when one has (cse), and removed only   *)
(* by a callback of hash_tab_iterate, which removes what it is given        *)
(* (unused_vars of regalloc.c).  malloc and strdup may fail at any time.   *)
(***************************************************************************)
EXTENDS Integers, Sequences, FiniteSets

CONSTANTS
    Keys, Values,     \* names, and what is stored under them
    Slots,            \* slots in the table: 0 .. Slots - 1
    Hash,             \* hash_func, of a name
    Pool,             \* addresses malloc may return
    Null

Heads == 0 .. Slots - 1
Addresses == Heads \cup Pool
Data == Keys \X Values

ASSUME SlotsAssumption == Slots \in Nat \ {0}
ASSUME HashAssumption == Hash \in [Keys -> Heads]
ASSUME PoolAssumption == Heads \cap Pool = {} /\ Null \notin Addresses \cup Keys \cup Data

VARIABLES
    item,     \* hasht_data_t at each address
    used,     \* malloc'ed and not freed
    iter,     \* hash_tab_iterate: the slot it is at, the next item of its chain
    seen,     \* names given to the callback by this hash_tab_iterate ...
    due,      \* ... and the names stored when it began
    call      \* the last call and its result, or "crash"

vars == <<item, used, iter, seen, due, call>>

\* memset clears the table: an empty head's key is 0, the first slot's hash.
Cleared == [key |-> 0, txt |-> Null, data |-> Null, next |-> Null]
Idle == [slot |-> Slots, next |-> Null]

Init ==
    /\ item = [a \in Addresses |-> Cleared]
    /\ used = {}
    /\ iter = Idle
    /\ seen = << >>
    /\ due = {}
    /\ call = <<"init">>

\* The chain from an address on, as the addresses of its items.
Chain(a) ==
    LET C[b \in Addresses] ==
          IF item[b].next = Null THEN <<b>> ELSE <<b>> \o C[item[b].next]
    IN  C[a]

\* hash_tab_lookup walks up to the name, the chain's end or an item without a
\* name, like an empty head.
Matches(k) ==
    LET c == Chain(Hash[k])
    IN  {i \in DOMAIN c : /\ item[c[i]].txt = k
                          /\ \A j \in 1 .. i - 1 : item[c[j]].txt \notin {k, Null}}
Lookup(k) ==
    LET m == Matches(k)
    IN  IF m = {} THEN Null ELSE item[Chain(Hash[k])[CHOOSE i \in m : TRUE]].data

Stored == {k \in Keys : Lookup(k) # Null}

\* seen and due are about the last call only.
Forget == seen' = << >> /\ due' = {}

HashTabLookup(k) ==
    /\ iter = Idle
    /\ call' = <<"lookup", k, Lookup(k)>>
    /\ Forget /\ UNCHANGED <<item, used, iter>>

MutEntry(k, v, t) == [key |-> Hash[k], txt |-> t, data |-> Null, next |-> Null]
Entry(k, v, t) == [key |-> Hash[k], txt |-> t, data |-> <<k, v>>, next |-> Null]

\* strdup(key) is not looked at: what could not be copied has no name.
Copies(k) == {k, Null}

\* Which free address malloc returns makes no difference here: the lowest.
Malloc == {n \in Pool \ used : \A m \in Pool \ used : n <= m}

\* The head's key is the hash: the head is taken, behind the chain's end.
InsertBehind(k, v) ==
    /\ iter = Idle
    /\ Lookup(k) = Null
    /\ item[Hash[k]].key = Hash[k]
    /\ \E n \in Malloc, t \in Copies(k) :
         LET c == Chain(Hash[k])
         IN  /\ item' = [item EXCEPT ![n] = Entry(k, v, t), ![c[Len(c)]].next = n]
             /\ used' = used \cup {n}
    /\ call' = <<"insert", <<k, v>>, "HASH_OK">>
    /\ Forget /\ UNCHANGED iter

InsertHead(k, v) ==
    /\ iter = Idle
    /\ Lookup(k) = Null
    /\ item[Hash[k]].key # Hash[k]
    /\ \E t \in Copies(k) : item' = [item EXCEPT ![Hash[k]] = Entry(k, v, t)]
    /\ call' = <<"insert", <<k, v>>, "HASH_OK">>
    /\ Forget /\ UNCHANGED <<used, iter>>

InsertFails(k, v) ==
    /\ iter = Idle
    /\ Lookup(k) = Null
    /\ item[Hash[k]].key = Hash[k]
    /\ call' = <<"insert", <<k, v>>, "HASH_ERROR_MEM">>
    /\ Forget /\ UNCHANGED <<item, used, iter>>

HashTabUpdate(k, v) ==
    /\ iter = Idle
    /\ Lookup(k) # Null
    /\ \E i \in Matches(k) : item' = [item EXCEPT ![Chain(Hash[k])[i]].data = <<k, v>>]
    /\ call' = <<"update", <<k, v>>>>
    /\ Forget /\ UNCHANGED <<used, iter>>

\* hash_tab_remove: an item of the chain is unlinked and freed; a head takes
\* over its successor, whose own item stays allocated and is left behind, and
\* what it held is not returned; the last item of a slot leaves an empty head.
\* (What was in freed memory is gone.)
Returns(k, data) == call' = <<"remove", k, data>>
MutRemove(k) ==
    \E i \in Matches(k) :
      LET c == Chain(Hash[k])
      IN  \/ /\ i > 1
             /\ item' = [item EXCEPT ![c[i]] = Cleared]
             /\ used' = used \ {c[i]}
             /\ Returns(k, item[c[i]].data)
          \/ /\ i = 1
             /\ item' = [item EXCEPT ![c[1]] = Cleared]
             /\ Returns(k, item[c[1]].data)
             /\ UNCHANGED used
MutRemoveHead(k) ==
    \E i \in Matches(k) :
      LET c == Chain(Hash[k])
      IN  \/ /\ i > 1
             /\ item' = [item EXCEPT ![c[i - 1]].next = item[c[i]].next, ![c[i]] = Cleared]
             /\ used' = used \ {c[i]}
             /\ Returns(k, item[c[i]].data)
          \/ /\ i = 1
             /\ item' = [item EXCEPT ![c[1]] = Cleared]
             /\ Returns(k, item[c[1]].data)
             /\ UNCHANGED used
Remove(k) ==
    \E i \in Matches(k) :
      LET c == Chain(Hash[k])
      IN  \/ /\ i > 1
             /\ item' = [item EXCEPT ![c[i - 1]].next = item[c[i]].next, ![c[i]] = Cleared]
             /\ used' = used \ {c[i]}
             /\ Returns(k, item[c[i]].data)
          \/ /\ i = 1 /\ Len(c) > 1
             /\ item' = [item EXCEPT ![c[1]] = item[c[2]]]
             /\ Returns(k, Null)
             /\ UNCHANGED used
          \/ /\ i = 1 /\ Len(c) = 1
             /\ item' = [item EXCEPT ![c[1]] = Cleared]
             /\ Returns(k, item[c[1]].data)
             /\ UNCHANGED used

\* Unlike a lookup, hash_tab_remove compares with any item's name, NULL too.
ComparesNull(k) ==
    LET c == Chain(Hash[k])
    IN  \E i \in DOMAIN c : /\ item[c[i]].txt = Null
                            /\ \A j \in 1 .. i - 1 : item[c[j]].txt # k

\* The callback: look at what is stored, or remove it.
Callback(d) ==
    /\ seen' = Append(seen, d[1])
    /\ \/ call' = <<"visit", d>> /\ UNCHANGED <<item, used>>
       \/ Remove(d[1])

IterateBegin ==
    /\ iter = Idle
    /\ iter' = [slot |-> 0, next |-> Null]
    /\ seen' = << >>
    /\ due' = Stored
    /\ UNCHANGED <<item, used, call>>

\* A slot with an empty head is passed over.
IterateSkip ==
    /\ iter # Idle
    /\ iter.next = Null
    /\ item[iter.slot].txt = Null
    /\ iter' = [iter EXCEPT !.slot = @ + 1]
    /\ UNCHANGED <<item, used, seen, due, call>>

\* Where the loop goes on, with n the rest of the chain.
Onward(n) == IF n = Null THEN [slot |-> iter.slot + 1, next |-> Null]
                         ELSE [iter EXCEPT !.next = n]

\* next is read before the callback may remove the head,
MutNextOfHead == item'[iter.slot].next
NextOfHead == item[iter.slot].next
IterateHead ==
    /\ iter # Idle
    /\ iter.next = Null
    /\ item[iter.slot].txt # Null
    /\ Callback(item[iter.slot].data)
    /\ iter' = Onward(NextOfHead)
    /\ UNCHANGED due

\* and save before it may free the item.
IterateChain ==
    /\ iter # Idle
    /\ iter.next # Null
    /\ Callback(item[iter.next].data)
    /\ iter' = Onward(item[iter.next].next)
    /\ UNCHANGED due

\* A callback that removes an item behind one without a name.
IterateCrashes ==
    /\ iter # Idle
    /\ iter.next # Null
    /\ ComparesNull(item[iter.next].data[1])
    /\ call' = <<"crash">>
    /\ UNCHANGED <<item, used, iter, seen, due>>

Next ==
    /\ call # <<"crash">>
    /\ \/ \E k \in Keys :
            \/ HashTabLookup(k)
            \/ \E v \in Values :
                 \/ InsertBehind(k, v) \/ InsertHead(k, v) \/ InsertFails(k, v)
                 \/ HashTabUpdate(k, v)
       \/ IterateBegin \/ IterateSkip \/ IterateHead \/ IterateChain \/ IterateCrashes

Spec == Init /\ [][Next]_vars

-----------------------------------------------------------------------------
TypeOK ==
    /\ item \in [Addresses -> [key : Heads, txt : Keys \cup {Null},
                               data : Data \cup {Null}, next : Pool \cup {Null}]]
    /\ \A a \in Addresses : item[a].txt # Null => item[a].data \in Data
    /\ used \subseteq Pool
    /\ iter \in [slot : 0 .. Slots, next : Pool \cup {Null}]
    /\ seen \in Seq(Keys)
    /\ due \subseteq Keys

\* No pointer of the table, nor the one a running hash_tab_iterate holds, leads
\* to freed memory, though the callback frees items under the iterator.
NoDangling ==
    /\ \A h \in Heads : \A i \in DOMAIN Chain(h) : i > 1 => Chain(h)[i] \in used
    /\ iter.next # Null => iter.next \in used

Given == {seen[i] : i \in DOMAIN seen}

\* A position of a slot's chain that lookups come to, and what is stored at none.
Named(h, i) == \A m \in 1 .. i : item[Chain(h)[m]].txt # Null
Lost ==
    (UNION {{item[Chain(h)[i]].data : i \in {j \in DOMAIN Chain(h) : ~ Named(h, j)}} : h \in Heads})
      \ {Null}

\* When hash_tab_iterate returns, its callback has had every name that lookups
\* found once, whichever of them it removed on the way, and else only names that
\* were inserted and no lookup finds.
IterationComplete ==
    iter = Idle =>
      /\ due \subseteq Given
      /\ \A i, j \in DOMAIN seen : seen[i] = seen[j] /\ seen[i] \in due => i = j
      /\ Given \subseteq due \cup {d[1] : d \in Lost}

\* "returns data asociated with key" (hashtab.h): a name just inserted is found,
\* if no name could not be copied.
FindsInserted ==
    (\A a \in Addresses : item[a].data # Null => item[a].txt # Null) =>
      \A d \in Data : call = <<"insert", d, "HASH_OK">> => Lookup(d[1]) = d

-----------------------------------------------------------------------------
(* The inductive invariant: what the pointers and the items behind them keep, *)
(* and where a running hash_tab_iterate stands.                               *)

\* Every chain ends: no set of items links only to itself.
Acyclic == \A S \in SUBSET Addresses : S # {} => \E a \in S : item[a].next \notin S

FreeIsClear == \A a \in Pool \ used : item[a] = Cleared

\* No item is in the chains of two slots.
ChainsApart ==
    \A h, g \in Heads : \A i \in DOMAIN Chain(h), j \in DOMAIN Chain(g) :
      Chain(h)[i] = Chain(g)[j] => h = g

\* An item belongs to one name, in use or left behind by a removed head, and has
\* a copy of it or none.
ItemsInv ==
    \A a \in Addresses :
      \/ item[a].txt = Null /\ item[a].key = 0 /\ item[a].data = Null
      \/ /\ item[a].data \in Data /\ item[a].key = Hash[item[a].data[1]]
         /\ item[a].txt \in Copies(item[a].data[1])

\* A chain holds names of its slot; an empty head has no chain, but in slot 0.
SlotsInv ==
    \A h \in Heads :
      /\ item[h].data = Null /\ h # 0 => item[h].next = Null
      /\ \A i \in DOMAIN Chain(h) :
           /\ i > 1 => item[Chain(h)[i]].data # Null
           /\ item[Chain(h)[i]].data # Null => Hash[item[Chain(h)[i]].data[1]] = h

\* What a slot with a head in use holds.
Contents(h) ==
    IF item[h].data = Null THEN << >>
    ELSE [i \in 1 .. Len(Chain(h)) |-> item[Chain(h)[i]].data]

\* A name that lookups find is in its slot once.
NamesOnce ==
    \A h \in Heads : \A i, j \in 1 .. Len(Contents(h)) :
      Named(h, i) /\ Contents(h)[i][1] = Contents(h)[j][1] => i = j

\* The names of a slot from position j on, and all those of later slots; and
\* those of them that lookups find.
Ahead(h, j) == {Contents(h)[i][1] : i \in j .. Len(Contents(h))}
Later(h) == UNION {Ahead(g, 1) : g \in h + 1 .. Slots - 1}
NamedAhead(h, j) == {Contents(h)[i][1] : i \in {m \in j .. Len(Contents(h)) : Named(h, m)}}
NamedLater(h) == UNION {NamedAhead(g, 1) : g \in h + 1 .. Slots - 1}

\* The iterator is about to call the callback for position j of its slot: it
\* holds that item, or, for the first, nothing or the item left behind when the
\* head took over its contents.
AtPosition(j) ==
    \/ j = 1 /\ iter.next = Null
    \/ /\ item[iter.slot].data # Null
       /\ iter.next \in used
       /\ \/ j = 1 /\ item[iter.next] = item[iter.slot]
          \/ j > 1 /\ iter.next = Chain(iter.slot)[j]

\* The names that lookups found when the iteration began are those given to the
\* callback and those it has yet to get, and no other name is found.
IterInv ==
    iter # Idle =>
      /\ iter.slot \in Heads
      /\ \A i, j \in DOMAIN seen : seen[i] = seen[j] /\ seen[i] \in due => i = j
      /\ Given \subseteq due \cup {d[1] : d \in Lost}
      /\ \E j \in DOMAIN Chain(iter.slot) :
           /\ AtPosition(j)
           /\ due \subseteq Given \cup NamedAhead(iter.slot, j) \cup NamedLater(iter.slot)
           /\ NamedAhead(iter.slot, j) \cup NamedLater(iter.slot) \subseteq due
           /\ due \cap Given \cap (Ahead(iter.slot, j) \cup Later(iter.slot)) = {}

TableInv == Acyclic /\ FreeIsClear /\ ChainsApart /\ ItemsInv /\ SlotsInv /\ NamesOnce

IInv == TypeOK /\ TableInv /\ NoDangling /\ IterInv /\ IterationComplete

-----------------------------------------------------------------------------
\* Whether the next name of a slot is chained behind an item that ends lookups.
Deaf(h) == \E i \in DOMAIN Chain(h) : /\ item[Chain(h)[i]].txt = Null
                                     /\ item[Chain(h)[i]].key = h

M == INSTANCE KeyMap WITH map  <- [k \in Keys |-> Lookup(k)],
                          lost <- Lost,
                          deaf <- {h \in Heads : Deaf(h)}

\* Seen through lookups, the table is a map that loses what is inserted where a
\* name could not be copied: inserting, updating or removing a name gives the
\* result KeyMap gives and changes no other name, whichever names share its slot.
ImplementsKeyMap == M!Spec

=============================================================================
