------------------------------- MODULE Homes -------------------------------
(***************************************************************************)
(* What reg_alloc promises, without lists, stacks or scan order: once it   *)
(* knows which variables are needed at the same time it gives them homes   *)
(* one by one, never one register to two that meet, and what has gone to   *)
(* memory stays there.                                                     *)
(***************************************************************************)
EXTENDS Integers

CONSTANTS Vars, Regs     \* registers are natural numbers

Memory  == -1
Nowhere == -2

VARIABLES
    meets,    \* the pairs of variables needed at the same time
    home      \* a register, Memory or Nowhere

vars == <<meets, home>>

Init ==
    /\ meets = {}
    /\ home = [v \in Vars |-> Nowhere]

\* The register holds no variable that v meets, those of out set aside.
FreeFor(v, r, out) ==
    \A u \in Vars \ out : <<u, v>> \in meets => home[u] # r

\* Homes are given only after the pairs are known.
Measure ==
    /\ \A v \in Vars : home[v] = Nowhere
    /\ meets' \in SUBSET (Vars \X Vars)
    /\ UNCHANGED home

GiveRegister(v, r) ==
    /\ home[v] = Nowhere
    /\ FreeFor(v, r, {v})
    /\ home' = [home EXCEPT ![v] = r]
    /\ UNCHANGED meets

GiveMemory(v) ==
    /\ home[v] = Nowhere
    /\ home' = [home EXCEPT ![v] = Memory]
    /\ UNCHANGED meets

\* u moves to memory and v takes its register.
TakeOver(v, u) ==
    /\ home[v] = Nowhere
    /\ home[u] \in Regs
    /\ FreeFor(v, home[u], {u, v})
    /\ home' = [home EXCEPT ![v] = home[u], ![u] = Memory]
    /\ UNCHANGED meets

Next ==
    \/ Measure
    \/ \E v \in Vars : \E r \in Regs : GiveRegister(v, r)
    \/ \E v \in Vars : GiveMemory(v)
    \/ \E u, v \in Vars : TakeOver(v, u)

Spec == Init /\ [][Next]_vars

=============================================================================
