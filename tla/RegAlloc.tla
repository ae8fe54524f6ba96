------------------------------ MODULE RegAlloc ------------------------------
(***************************************************************************)
(* The register allocator of regalloc.c: the interval of each variable is  *)
(* read off the linear instruction list (intervals), variables never       *)
(* referenced are dropped (unused_vars), the others are put in a list      *)
(* ordered by start (fill_interval_list), and a linear scan hands out the  *)
(* registers, spilling the interval that ends last (lin_scan).             *)
(*                                                                         *)
(* A phase of reg_alloc is a value of phase; a step is one instruction,    *)
(* one symbol or one interval of that phase's loop.  The release build is  *)
(* modelled, where ASSERT is empty.                                        *)
(***************************************************************************)
EXTENDS Liveness

CONSTANTS
    Programs,         \* the instruction lists the allocator is run on
    RegisterCount     \* REGISTER_COUNT of code.h, 3 in the build

ASSUME RegisterCountAssumption == RegisterCount \in Nat \ {0}
ASSUME ProgramsAssumption == Programs \subseteq Seq(Instrs)

NoRegister == -1
Regs == 0 .. RegisterCount - 1

VARIABLES
    code,     \* the instructions of all blocks, in list order
    phase,    \* the loop of reg_alloc that runs
    c,        \* intervals: instructions visited
    start,    \* interval_t.start, 0 until the variable is first written
    end,      \* interval_t.end; 0 exactly while usecount is 0
    todo,     \* symbols st_iterate(fill_interval_list) has yet to visit
    intps,    \* the list of intervals, ordered by start
    idx,      \* the position of the running TAILQ_FOREACH in intps
    active,   \* the list of active intervals, ordered by end
    regs,     \* the stack of free registers
    reg,      \* interval_t.reg, 0 from calloc
    sreg,     \* symbol_t.reg, what the code generator reads
    val,      \* symbol_t.val: the memory cell of a spilled variable
    state,    \* symbol_t.state
    memloc    \* the next memory cell

vars == <<code, phase, c, start, end, todo, intps, idx, active, regs, reg,
          sreg, val, state, memloc>>

-----------------------------------------------------------------------------
(* The two ordered insertions (fill_interval_list, lin_add_active) both walk *)
(* the list and insert before the first element with a greater key.          *)
(* (A definition Mut... is a slip of the next one's code; it belongs to no   *)
(* behaviour here and shows that a property would notice the slip.)          *)

MutInsertionPoint(key, s, n, k) == k = Len(s)

InsertionPoint(key, s, n, k) ==
    /\ \A i \in 1 .. k : key[s[i]] <= key[n]
    /\ k < Len(s) => key[n] < key[s[k + 1]]

InsertAfter(s, n, k) == SubSeq(s, 1, k) \o <<n>> \o SubSeq(s, k + 1, Len(s))

MutExpirePoint(n, k) == k = 0

\* lin_expire_old stops at the first active interval that reaches n's start.
ExpirePoint(n, k) ==
    /\ \A i \in 1 .. k : end[active[i]] < start[n]
    /\ k < Len(active) => end[active[k + 1]] >= start[n]

MutFreeAfter(k) == regs \o [i \in 1 .. k |-> sreg[active[i]]]
MutActiveAfter(k) == << >>

\* The expired intervals' registers go back on the stack in list order.
FreeAfter(k) == regs \o [i \in 1 .. k |-> reg[active[i]]]
ActiveAfter(k) == SubSeq(active, k + 1, Len(active))

-----------------------------------------------------------------------------
Init ==
    /\ code \in Programs
    /\ phase = "intervals"
    /\ c = 0
    /\ start = [v \in Vars |-> 0]
    /\ end = [v \in Vars |-> 0]
    /\ todo = {}
    /\ intps = << >>
    /\ idx = 1
    /\ active = << >>
    /\ regs = << >>
    /\ reg = [v \in Vars |-> 0]
    /\ sreg = [v \in Vars |-> NoRegister]
    /\ val = [v \in Vars |-> NoRegister]
    /\ state = [v \in Vars |-> "VS_EMPTY"]
    /\ memloc = 0

\* intervals: a reference moves the end, the first write sets the start.
Intervals ==
    /\ phase = "intervals"
    /\ c < Len(code)
    /\ LET i == code[c + 1]
       IN  /\ start' = [v \in Vars |-> IF v \in Defs(i) /\ start[v] = 0
                                       THEN c + 1 ELSE start[v]]
           /\ end' = [v \in Vars |-> IF v \in Uses(i) \cup Defs(i)
                                     THEN c + 1 ELSE end[v]]
    /\ c' = c + 1
    /\ UNCHANGED <<code, phase, todo, intps, idx, active, regs, reg, sreg, val,
                   state, memloc>>

\* st_iterate(unused_vars): only variables with a use count stay.
UnusedVars ==
    /\ phase = "intervals"
    /\ c = Len(code)
    /\ todo' = {v \in Vars : end[v] # 0}
    /\ phase' = "fill"
    /\ UNCHANGED <<code, c, start, end, intps, idx, active, regs, reg, sreg,
                   val, state, memloc>>

\* fill_interval_list, on the symbols in the hash table's order.
FillIntervalList ==
    /\ phase = "fill"
    /\ \E v \in todo :
         /\ \E k \in 0 .. Len(intps) :
              /\ InsertionPoint(start, intps, v, k)
              /\ intps' = InsertAfter(intps, v, k)
         /\ todo' = todo \ {v}
    /\ UNCHANGED <<code, phase, c, start, end, idx, active, regs, reg, sreg,
                   val, state, memloc>>

\* init_regs pushes the highest register first: register 0 is popped first.
InitRegs ==
    /\ phase = "fill"
    /\ todo = {}
    /\ regs' = [i \in 1 .. RegisterCount |-> RegisterCount - i]
    /\ phase' = "scan"
    /\ UNCHANGED <<code, c, start, end, todo, intps, idx, active, reg, sreg,
                   val, state, memloc>>

\* lin_add_active
AddActive(n, list) ==
    \E k \in 0 .. Len(list) :
      /\ InsertionPoint(end, list, n, k)
      /\ active' = InsertAfter(list, n, k)

\* A register is free: pop it.
LinAssign(n, free, list) ==
    /\ Len(free) > 0
    /\ reg' = [reg EXCEPT ![n] = free[Len(free)]]
    /\ regs' = SubSeq(free, 1, Len(free) - 1)
    /\ AddActive(n, list)

MutLinSpillLast(n, free, list) ==
    /\ Len(free) = 0
    /\ Len(list) > 0
    /\ LET last == list[Len(list)]
       IN  /\ end[last] > end[n]
           /\ reg' = [reg EXCEPT ![n] = reg[last]]
           /\ AddActive(n, SubSeq(list, 1, Len(list) - 1))
    /\ regs' = free

\* lin_spill: the active interval that ends last, ends after n: n takes its
\* register.
LinSpillLast(n, free, list) ==
    /\ Len(free) = 0
    /\ Len(list) > 0
    /\ LET last == list[Len(list)]
       IN  /\ end[last] > end[n]
           /\ reg' = [reg EXCEPT ![n] = reg[last], ![last] = NoRegister]
           /\ AddActive(n, SubSeq(list, 1, Len(list) - 1))
    /\ regs' = free

\* lin_spill: n itself ends last and gets no register.
LinSpillSelf(n, free, list) ==
    /\ Len(free) = 0
    /\ Len(list) > 0
    /\ end[list[Len(list)]] <= end[n]
    /\ reg' = [reg EXCEPT ![n] = NoRegister]
    /\ active' = list
    /\ regs' = free

\* One turn of lin_scan's first loop, lin_expire_old included.
LinScan ==
    /\ phase = "scan"
    /\ idx <= Len(intps)
    /\ LET n == intps[idx]
       IN  \E k \in 0 .. Len(active) :
             /\ ExpirePoint(n, k)
             /\ \/ LinAssign(n, FreeAfter(k), ActiveAfter(k))
                \/ LinSpillLast(n, FreeAfter(k), ActiveAfter(k))
                \/ LinSpillSelf(n, FreeAfter(k), ActiveAfter(k))
    /\ idx' = idx + 1
    /\ UNCHANGED <<code, phase, c, start, end, todo, intps, sreg, val, state,
                   memloc>>

ScanEnd ==
    /\ phase = "scan"
    /\ idx > Len(intps)
    /\ idx' = 1
    /\ phase' = "place"
    /\ UNCHANGED <<code, c, start, end, todo, intps, active, regs, reg, sreg,
                   val, state, memloc>>

MutPlaceInMemory ==
    /\ phase = "place"
    /\ idx <= Len(intps)
    /\ reg[intps[idx]] = NoRegister
    /\ val' = [val EXCEPT ![intps[idx]] = memloc]
    /\ sreg' = [sreg EXCEPT ![intps[idx]] = NoRegister]
    /\ idx' = idx + 1
    /\ UNCHANGED <<code, phase, c, start, end, todo, intps, active, regs, reg,
                   state, memloc>>

\* lin_scan's second loop: a spilled variable gets the next memory cell.
PlaceInMemory ==
    /\ phase = "place"
    /\ idx <= Len(intps)
    /\ reg[intps[idx]] = NoRegister
    /\ val' = [val EXCEPT ![intps[idx]] = memloc]
    /\ memloc' = memloc + 1
    /\ sreg' = [sreg EXCEPT ![intps[idx]] = NoRegister]
    /\ idx' = idx + 1
    /\ UNCHANGED <<code, phase, c, start, end, todo, intps, active, regs, reg,
                   state>>

PlaceInRegister ==
    /\ phase = "place"
    /\ idx <= Len(intps)
    /\ reg[intps[idx]] # NoRegister
    /\ state' = [state EXCEPT ![intps[idx]] = "VS_ASSIGNED"]
    /\ val' = [val EXCEPT ![intps[idx]] = NoRegister]
    /\ sreg' = [sreg EXCEPT ![intps[idx]] = reg[intps[idx]]]
    /\ idx' = idx + 1
    /\ UNCHANGED <<code, phase, c, start, end, todo, intps, active, regs, reg,
                   memloc>>

PlaceEnd ==
    /\ phase = "place"
    /\ idx > Len(intps)
    /\ phase' = "done"
    /\ UNCHANGED <<code, c, start, end, todo, intps, idx, active, regs, reg,
                   sreg, val, state, memloc>>

Next ==
    \/ Intervals \/ UnusedVars \/ FillIntervalList \/ InitRegs
    \/ LinScan \/ ScanEnd
    \/ PlaceInMemory \/ PlaceInRegister \/ PlaceEnd

\* reg_alloc is a straight run of loops: it never waits, so it always steps.
Spec == Init /\ [][Next]_vars /\ WF_vars(Next)

-----------------------------------------------------------------------------
Elements(s) == {s[i] : i \in 1 .. Len(s)}
Distinct(s) == \A i, j \in 1 .. Len(s) : s[i] = s[j] => i = j
Sorted(key, s) == \A i, j \in 1 .. Len(s) : i <= j => key[s[i]] <= key[s[j]]

Referenced == {v \in Vars : end[v] # 0}

\* The intervals lin_scan's first loop has dealt with.
ScannedTo == CASE phase = "scan" -> idx - 1
               [] phase \in {"place", "done"} -> Len(intps)
               [] OTHER -> 0
Scanned == {intps[i] : i \in 1 .. ScannedTo}

\* Intervals that share an instruction.
Overlap(u, v) == start[u] <= end[v] /\ start[v] <= end[u]

TypeOK ==
    /\ code \in Seq(Instrs)
    /\ phase \in {"intervals", "fill", "scan", "place", "done"}
    /\ c \in 0 .. Len(code)
    /\ start \in [Vars -> Nat]
    /\ end \in [Vars -> Nat]
    /\ todo \subseteq Vars
    /\ intps \in Seq(Vars)
    /\ idx \in 1 .. Len(intps) + 1
    /\ active \in Seq(Vars)
    /\ regs \in Seq(Regs)
    /\ reg \in [Vars -> Regs \cup {NoRegister}]
    /\ sreg \in [Vars -> Regs \cup {NoRegister}]
    /\ val \in [Vars -> Nat \cup {NoRegister}]
    /\ state \in [Vars -> {"VS_EMPTY", "VS_ASSIGNED"}]
    /\ memloc \in Nat

\* While lin_scan runs, every register is either on the stack of free ones or
\* held by one active interval: lin_expire_old, the pop and the two outcomes of
\* lin_spill neither lose a register nor hand one out twice.
RegistersConserved ==
    phase = "scan" =>
      /\ Distinct(regs)
      /\ Distinct(active)
      /\ \A u, v \in Elements(active) : reg[u] = reg[v] => u = v
      /\ Elements(regs) \cap {reg[v] : v \in Elements(active)} = {}
      /\ Elements(regs) \cup {reg[v] : v \in Elements(active)} = Regs

\* The allocator's result, and its partial result after each interval: two
\* variables whose intervals meet are never in the same register.
NoSharing ==
    \A u, v \in Scanned :
      u # v /\ Overlap(u, v) => reg[u] # reg[v] \/ reg[u] = NoRegister

\* When reg_alloc returns, each referenced variable has one home: a register the
\* code generator sees as assigned, or a memory cell of its own.
OneHome ==
    phase = "done" =>
      /\ Elements(intps) = Referenced
      /\ \A v \in Referenced :
           \/ state[v] = "VS_ASSIGNED" /\ sreg[v] \in Regs /\ val[v] = NoRegister
           \/ state[v] = "VS_EMPTY" /\ sreg[v] = NoRegister /\ val[v] \in Nat
      /\ \A u, v \in Referenced :
           u # v /\ sreg[u] = NoRegister /\ sreg[v] = NoRegister
             => val[u] # val[v]

\* A variable goes to memory only where more than RegisterCount intervals meet:
\* with fewer, lin_scan never spills.
SpillOnlyUnderPressure ==
    \A v \in Scanned :
      reg[v] = NoRegister =>
        \E p \in start[v] .. end[v] :
          Cardinality({u \in Scanned : start[u] <= p /\ p <= end[u]})
            > RegisterCount

\* Code without loops in which every instruction is behind another, and no path
\* reads a variable before writing it.
WithoutLoops(p) ==
    /\ ForwardOnly(p)
    /\ DefinedBeforeUse(p)
    /\ \A q \in DOMAIN p \ {1} : \E o \in DOMAIN p : q \in Succs(p, o)

\* In such code an instruction never writes to the register of another variable
\* whose value is still needed.  (Intervals are taken from the instruction list
\* only, so loops are excluded: see README.)
LiveValuesKept ==
    phase = "done" /\ WithoutLoops(code) =>
      LET live == LiveAfter(code)
      IN  \A p \in DOMAIN code : \A d \in Defs(code[p]) :
            \A u \in live[p] \ {d} : sreg[d] # sreg[u] \/ sreg[d] = NoRegister

-----------------------------------------------------------------------------
(* The inductive invariant: what each phase leaves to the next, and what the *)
(* list of active intervals tells about the intervals already scanned.       *)

\* Intervals end after they start and never beyond the instruction counter.
IntervalsInv ==
    /\ \A v \in Vars : start[v] <= end[v] /\ end[v] <= c
    /\ phase = "intervals" => intps = << >> /\ todo = {}

\* intps lists the referenced variables that left todo, in order of their start.
IntpsInv ==
    /\ Distinct(intps)
    /\ Sorted(start, intps)
    /\ Elements(intps) \cap todo = {}
    /\ phase # "intervals" => Elements(intps) \cup todo = Referenced
    /\ phase \notin {"intervals", "fill"} => todo = {}
    /\ phase \in {"intervals", "fill"} => idx = 1 /\ active = << >> /\ regs = << >>

\* The active intervals are scanned ones in a register, ordered by end; one that
\* is no longer active ended before any interval still to come, or is in memory.
ActiveInv ==
    phase = "scan" =>
      /\ Sorted(end, active)
      /\ Elements(active) \subseteq Scanned
      /\ \A v \in Elements(active) : reg[v] \in Regs
      /\ \A u \in Scanned \ Elements(active) :
            \/ reg[u] = NoRegister
            \/ \A i \in idx .. Len(intps) : end[u] < start[intps[i]]

\* lin_scan's second loop: the intervals it has dealt with have their home, and
\* the memory cells given out lie below memloc; the others' symbols are as they
\* came.
Placed == IF phase \in {"place", "done"} THEN {intps[i] : i \in 1 .. idx - 1} ELSE {}
PlaceInv ==
    /\ phase = "done" => idx = Len(intps) + 1
    /\ \A v \in Vars \ Placed : state[v] = "VS_EMPTY"
    /\ \A v \in Placed : sreg[v] = reg[v]
    /\ \A v \in Placed :
         \/ state[v] = "VS_ASSIGNED" /\ sreg[v] \in Regs /\ val[v] = NoRegister
         \/ state[v] = "VS_EMPTY" /\ sreg[v] = NoRegister /\ val[v] \in 0 .. memloc - 1
    /\ \A u, v \in Placed :
         u # v /\ sreg[u] = NoRegister /\ sreg[v] = NoRegister => val[u] # val[v]

\* The instructions visited are in the intervals of what they reference, from the
\* first that writes it on.
IntervalsCover ==
    /\ \A i \in 1 .. c :
         /\ \A v \in Uses(code[i]) \cup Defs(code[i]) : i <= end[v]
         /\ \A v \in Defs(code[i]) : start[v] # 0 /\ start[v] <= i
    /\ phase # "intervals" => c = Len(code)

IInv ==
    /\ TypeOK
    /\ IntervalsInv
    /\ IntpsInv
    /\ ActiveInv
    /\ RegistersConserved
    /\ NoSharing

-----------------------------------------------------------------------------
(* reg_alloc implements Homes: a variable has a home once lin_scan's first   *)
(* loop has dealt with its interval.                                         *)

Meets == {uv \in Vars \X Vars :
            /\ uv[1] # uv[2]
            /\ end[uv[1]] # 0
            /\ end[uv[2]] # 0
            /\ Overlap(uv[1], uv[2])}

Home == [v \in Vars |-> IF v \in Scanned THEN reg[v] ELSE -2]

H == INSTANCE Homes WITH meets <- Meets, home <- Home

\* Every step of reg_alloc is a step of Homes or changes no home: no register is
\* given to two variables that meet, and none is given back from memory.
ImplementsHomes == H!Spec

=============================================================================
