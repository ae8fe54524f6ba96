----------------------------- MODULE MCRegAlloc -----------------------------
(***************************************************************************)
(* Instances of RegAlloc: programs whose variables' intervals nest, chain  *)
(* and cross in every order, and programs with a branch.                   *)
(***************************************************************************)
EXTENDS RegAlloc, TLC

CONSTANTS v1, v2, v3, v4, v5

Read(v)  == Instr("TIN", 0, 0, v)
Write(v) == Instr("TOUT", 0, 0, v)

\* Every order of "read x ... write x" for the variables of s, the reads in the
\* order of s (another order is the same up to the variables' names).
RECURSIVE Traces(_, _)
Traces(s, open) ==
    IF s = << >> /\ open = {} THEN {<< >>}
    ELSE (IF s = << >> THEN {}
          ELSE {<<Read(Head(s))>> \o t :
                  t \in Traces(Tail(s), open \cup {Head(s)})})
         \cup UNION {{<<Write(v)>> \o t : t \in Traces(s, open \ {v})} : v \in open}

IntervalPrograms == Traces(<<v1, v2, v3, v4, v5>>, {})

\* read v1; read v2; v3 := v1 < v2; if v3 then A else B; C; D, for all
\* instructions A, B, C, D of a small set.
Step == {Instr("TADD", v1, v2, v4), Instr("TASSIGN", v2, 0, v5),
         Instr("TASSIGN", 1, 0, v4), Instr("TMUL", v4, 2, v5),
         Instr("TIN", 0, 0, v2), Write(v5), Write(v4), Write(v1)}

BranchPrograms ==
    {p \in {<<Read(v1), Read(v2), Instr("TLT", v1, v2, v3), Instr("TIFF", v3, 0, 1),
              A, Instr("TJMP", 0, 0, 2), Instr("TLABEL", 0, 0, 1), B,
              Instr("TLABEL", 0, 0, 2), C, D>> : A, B, C, D \in Step} :
       DefinedBeforeUse(p)}

MCPrograms == IntervalPrograms \cup BranchPrograms

\* A loop whose body writes v2 in front of the instruction that defines it; its
\* first turn, where v1 is 0, skips the write:
\* v1 := 0; while v1 < 2 do begin if v1 = 1 then write v2; v2 := 5; ... end
UnwrittenPrograms ==
    { <<Instr("TASSIGN", 0, 0, v1),
        Instr("TLABEL", 0, 0, 2), Instr("TLT", v1, 2, v3), Instr("TIFF", v3, 0, 3),
        Instr("TEQ", v1, 1, v4), Instr("TIFF", v4, 0, 1), Write(v2),
        Instr("TLABEL", 0, 0, 1), Instr("TASSIGN", 5, 0, v2),
        Instr("TADD", v1, 1, v5), Instr("TASSIGN", v5, 0, v1),
        Instr("TJMP", 0, 0, 2), Instr("TLABEL", 0, 0, 3)>> }

\* ASSERT(i->start) at every use: intervals has met a write of the variable
\* earlier in the instruction list.
AssertStarted ==
    phase = "intervals" /\ c < Len(code) =>
      \A v \in Uses(code[c + 1]) : start[v] # 0

\* reg_alloc returns.
Terminates == <>(phase = "done")

=============================================================================
