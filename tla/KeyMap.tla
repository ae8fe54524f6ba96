------------------------------- MODULE KeyMap -------------------------------
(***************************************************************************)
(* What the callers of the hash table can count on: a map from names to     *)
(* data, with a call and its result visible at a time.                      *)
(*                                                                         *)
(* Not every insertion that reports success stores something: when a name    *)
(* could not be copied it is lost, and so is every later one of its hash.    *)
(* Hash 0 is like that from the start.  What is lost is still visited.       *)
(***************************************************************************)
CONSTANTS Keys, Values, Hash, Null

\* What is stored under a name knows the name, as a symbol_t does.
Data == Keys \X Values

VARIABLES
    map,      \* the data stored under a name, or Null
    lost,     \* the data inserted and never found
    deaf,     \* the hashes whose names are lost from now on
    call      \* the last call: its name, its key or data, its result

Init ==
    /\ map = [k \in Keys |-> Null]
    /\ lost = {}
    /\ deaf = {0}
    /\ call = <<"init">>

Stored(k, v) == Hash[k] \notin deaf /\ map' = [map EXCEPT ![k] = <<k, v>>] /\ UNCHANGED <<lost, deaf>>
Loses(k, v) ==
    /\ lost' = lost \cup {<<k, v>>}
    /\ deaf' = deaf \cup {Hash[k]}
    /\ UNCHANGED map

Inserted(k, v) ==
    /\ map[k] = Null
    /\ \/ call' = <<"insert", <<k, v>>, "HASH_OK">> /\ (Stored(k, v) \/ Loses(k, v))
       \/ call' = <<"insert", <<k, v>>, "HASH_ERROR_MEM">> /\ UNCHANGED <<map, lost, deaf>>

Found(k) == call' = <<"lookup", k, map[k]>> /\ UNCHANGED <<map, lost, deaf>>

Updated(k, v) ==
    /\ map[k] # Null
    /\ call' = <<"update", <<k, v>>>>
    /\ map' = [map EXCEPT ![k] = <<k, v>>]
    /\ UNCHANGED <<lost, deaf>>

\* A callback of hash_tab_iterate gets what is stored or lost, ...
Visited(d) ==
    /\ map[d[1]] = d \/ d \in lost
    /\ call' = <<"visit", d>>
    /\ UNCHANGED <<map, lost, deaf>>

\* ... and may remove it.  What was stored is returned, unless another name has
\* the same hash: then it may be NULL.
SharesHash(k) ==
    \E q \in Keys \ {k} :
      Hash[q] = Hash[k] /\ (map[q] # Null \/ \E v \in Values : <<q, v>> \in lost)
Removed(k) ==
    /\ map[k] # Null
    /\ \/ call' = <<"remove", k, map[k]>>
       \/ call' = <<"remove", k, Null>> /\ SharesHash(k)
    /\ map' = [map EXCEPT ![k] = Null]
    /\ UNCHANGED <<lost, deaf>>

\* To remove what is lost ends the program.
Crashed == lost # {} /\ call' = <<"crash">> /\ UNCHANGED <<map, lost, deaf>>

Next ==
    /\ call # <<"crash">>
    /\ \/ \E k \in Keys :
            \/ Found(k) \/ Removed(k)
            \/ \E v \in Values : Inserted(k, v) \/ Updated(k, v)
       \/ \E d \in Data : Visited(d)
       \/ Crashed

Spec == Init /\ [][Next]_<<map, lost, deaf, call>>

=============================================================================
