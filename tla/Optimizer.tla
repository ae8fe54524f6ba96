----------------------------- MODULE Optimizer -----------------------------
(***************************************************************************)
(* optimize of optimize.c: the passes of a level, one after the other, on    *)
(* the blocks bb_build has made.  A step is a pass or a round of one; lva's   *)
(* steps are those of LiveVars.                                            *)
(***************************************************************************)
EXTENDS TacMachine, Liveness

CONSTANTS Programs, Inputs, Levels,
          MaxPredecessors,
          NoSymbol,          \* NULL
          SymbolOrders       \* the orders a symbol table may have the variables in

\* A constant is told from a variable.
ASSUME SymbolsAssumption ==
    Vars \cap Int = {} /\ NoSymbol \notin Vars \cup Int /\ MaxPredecessors \in Nat \ {0}
ASSUME InputsAssumption == Inputs \subseteq Seq(Int)

VARIABLES
    code, pos, cur, ins, next, jmp, pred,               \* bb_build's
    phase, todo, def, use, in, out, changed,            \* lva's
    level,
    step,      \* passes done
    graph      \* bb_code_t (FlowCode), NoGraph while bb_build has it

blocksVars == <<code, pos, cur, ins, next, jmp, pred>>
lvaVars    == <<phase, todo, def, use, in, out, changed>>
vars == <<blocksVars, lvaVars, level, step, graph>>

Bb  == INSTANCE BasicBlocks
Lva == INSTANCE LiveVars WITH Graphs <- {}
Algebra == INSTANCE Optimize
Cp   == INSTANCE CopyProp
Prop == INSTANCE ConstProp
Sub  == INSTANCE Cse

\* What the parser and tac_gen see to.
ASSUME ProgramsAssumption ==
    Programs \subseteq Seq(Instrs) /\ \A p \in Programs : Bb!WellFormed(p)

NoGraph == [blocks |-> {}, failed |-> "no"]

\* opt_level_0, opt_level_1 and opt_level_2.
Passes(n) ==
    IF n = 0 THEN <<"lva">>
    ELSE LET one == <<"const_prop", "opt_algebra", "opt_unused_vars", "lva", "copy_prop",
                      "opt_unused_vars", "lva">>
         IN  IF n = 1 THEN one ELSE one \o <<"cse", "opt_unused_vars", "lva">>

Init ==
    /\ Bb!Init
    /\ phase = "init" /\ todo = {} /\ changed = TRUE
    /\ def = << >> /\ use = << >> /\ in = << >> /\ out = << >>
    /\ level \in Levels
    /\ step = 0
    /\ graph = NoGraph

Build == Bb!Next /\ UNCHANGED <<lvaVars, level, step, graph>>

\* What bb_build hands over.
InBlock(i) == [op |-> i.op, a1 |-> i.a1, a2 |-> i.a2, r |-> i.r, bb |-> TRUE]
Built ==
    LET B == Bb!Blocks(code)
    IN  [blocks |-> B, next |-> next, jmp |-> jmp,
         pred |-> [b \in B |-> [j \in 1 .. MaxPredecessors |->
                     IF j \in DOMAIN pred[b] THEN pred[b][j] ELSE Bb!NoBlock]],
         ins |-> [b \in B |-> [j \in DOMAIN ins[b] |-> InBlock(code[ins[b][j]])]],
         gone |-> {}, changed |-> TRUE, failed |-> "no"]

Begin ==
    /\ pos = Len(code)
    /\ graph = NoGraph
    /\ graph' = Built
    /\ UNCHANGED <<blocksVars, lvaVars, level, step>>

Runs(pass) ==
    /\ graph # NoGraph
    /\ graph.failed = "no"
    /\ step < Len(Passes(level))
    /\ Passes(level)[step + 1] = pass

\* A pass that is done at once or has done its last round.
PassDone == step' = step + 1

ConstProp ==
    /\ Runs("const_prop")
    /\ graph' = Prop!ConstPropRound(graph)
    /\ IF graph'.changed /\ graph'.failed = "no" THEN UNCHANGED step ELSE PassDone
    /\ UNCHANGED <<blocksVars, lvaVars, level>>

OptAlgebra ==
    /\ Runs("opt_algebra")
    /\ graph' = Algebra!OptAlgebra(graph)
    /\ PassDone
    /\ UNCHANGED <<blocksVars, lvaVars, level>>

OptUnusedVars ==
    /\ Runs("opt_unused_vars")
    /\ graph' = Algebra!OptUnusedVars(graph)
    /\ PassDone
    /\ UNCHANGED <<blocksVars, lvaVars, level>>

CopyProp ==
    /\ Runs("copy_prop")
    /\ LET round == Cp!CopyPropRound(graph, out)
       IN  /\ graph' = [graph EXCEPT !.ins = round.ins]
           /\ IF round.again THEN UNCHANGED step ELSE PassDone
    /\ UNCHANGED <<blocksVars, lvaVars, level>>

CsePass ==
    /\ Runs("cse")
    /\ \E order \in SymbolOrders : graph' = Sub!CseAll(graph, out, order)
    /\ PassDone
    /\ UNCHANGED <<blocksVars, lvaVars, level>>

\* A successor that bb_compact has freed.
Dangling ==
    ~ ({graph.next[b] : b \in graph.blocks} \cup {graph.jmp[b] : b \in graph.blocks}
         \subseteq graph.blocks \cup {Bb!NoBlock})

LvaPass ==
    /\ Runs("lva")
    /\ \/ phase = "init" /\ Dangling
          /\ graph' = Prop!Failed(graph, "freed")
          /\ PassDone
          /\ UNCHANGED lvaVars
       \/ phase # "done" /\ ~ Dangling /\ Lva!Next /\ UNCHANGED step
       \/ /\ phase = "done"
          /\ phase' = "init"
          /\ UNCHANGED <<graph, todo, def, use, in, out, changed>>
          /\ PassDone
    /\ UNCHANGED <<blocksVars, level>>

Next ==
    \/ Build \/ Begin \/ ConstProp \/ OptAlgebra \/ OptUnusedVars \/ LvaPass
    \/ CopyProp \/ CsePass

Spec == Init /\ [][Next]_vars

=============================================================================
