------------------------------ MODULE Analysis ------------------------------
(***************************************************************************)
(* The compiler without optimization (opt_level_0) up to register          *)
(* allocation: bb_build makes basic blocks of the code, then lva computes   *)
(* the live variables of the blocks it has made.                           *)
(***************************************************************************)
EXTENDS BasicBlocks

VARIABLES phase, todo, def, use, in, out, changed          \* lva's

lvaVars      == <<phase, todo, def, use, in, out, changed>>
analysisVars == <<vars, lvaVars>>

\* The graph bb_build hands over, with the blocks' instructions.
MutFlow ==
    [blocks |-> Blocks(code), next |-> next, jmp |-> next,
     ins |-> [b \in Blocks(code) |-> [i \in DOMAIN ins[b] |-> code[ins[b][i]]]]]
Flow ==
    [blocks |-> Blocks(code), next |-> next, jmp |-> jmp,
     ins |-> [b \in Blocks(code) |-> [i \in DOMAIN ins[b] |-> code[ins[b][i]]]]]

Lva == INSTANCE LiveVars WITH graph <- Flow, Graphs <- {}

Build == Next /\ UNCHANGED lvaVars

\* bb = optimize(bb, 0), when bb_build has returned.
Analyse == pos = Len(code) /\ UNCHANGED vars /\ Lva!Next

AnalysisInit == Init /\ Lva!Begin
AnalysisNext == Build \/ Analyse
AnalysisSpec == AnalysisInit /\ [][AnalysisNext]_analysisVars

-----------------------------------------------------------------------------
\* What lva needs of bb_build (the assumption of FixpointAlways): in front of
\* every loop there is a block that only leads into it.
LoopsHavePreHeaders ==
    pos = Len(code) /\ NoShift => Lva!IsGraph(Flow) /\ Lva!PreHeaders(Flow)

\* A variable is live into a block exactly if some run of the three address
\* code from the block's first instruction may read it before writing it.
LiveInCode ==
    phase = "done" /\ NoShift =>
      LET live == LiveBefore(code)
      IN  \A b \in Blocks(code) : in[b] = live[ins[b][1]]

=============================================================================
