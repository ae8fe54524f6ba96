----------------------------- MODULE MCLiveVars -----------------------------
(***************************************************************************)
(* lva on every flow graph of four blocks bb_build can make: control falls  *)
(* through to the next block, jumps, or both.                              *)
(***************************************************************************)
EXTENDS LiveVars

CONSTANTS x, y

N == 4

Bodies ==
    { <<Instr("TOUT", 0, 0, x)>>,
      <<Instr("TASSIGN", y, 0, x), Instr("TIFF", x, 0, 1)>>,
      <<Instr("TLABEL", 0, 0, 1), Instr("TADD", x, 1, y), Instr("TIN", 0, 0, x)>> }

\* A block falls through, branches forward, or jumps anywhere; the last one
\* stops.
Edges(b) ==
    IF b = N THEN {<<NoBlock, NoBlock>>}
    ELSE {<<b + 1, j>> : j \in {NoBlock} \cup (b + 1) .. N} \cup {<<NoBlock, j>> : j \in 1 .. N}

Shapes == {<<e1, e2, e3, e4>> : e1 \in Edges(1), e2 \in Edges(2), e3 \in Edges(3), e4 \in Edges(4)}

Start == <<Instr("TIN", 0, 0, x)>>

MCGraphs ==
    {g \in {[blocks |-> 1 .. N, next |-> [b \in 1 .. N |-> f[b][1]],
             jmp |-> [b \in 1 .. N |-> f[b][2]], ins |-> <<Start, i2, i3, i4>>] :
              f \in Shapes, i2 \in Bodies, i3 \in Bodies, i4 \in Bodies} : PreHeaders(g)}
=============================================================================
