-------------------------------- MODULE Tac --------------------------------
(***************************************************************************)
(* The three address code of 3ac.h: the instruction record and what an     *)
(* instruction reads and writes.  The passes behind the front end          *)
(* (basic blocks, liveness, register allocation, code generation) share it. *)
(* An operand is a variable of Vars or a constant; a constant's symbol is   *)
(* never tracked by a pass ("type != SCONST" guards every use).             *)
(***************************************************************************)
EXTENDS Integers, Sequences

CONSTANT Vars      \* the SVAR symbols: program variables and temporaries

\* codeop_type.  TNONE is never emitted.
Relops  == {"TEQ", "TNEQ", "TLT", "TGT", "TLE", "TGE"}
Arith   == {"TADD", "TSUB", "TMUL", "TDIV"}
Binops  == Relops \cup Arith
Ops     == Binops \cup {"TIFF", "TJMP", "TIN", "TOUT", "TASSIGN", "TLABEL"}

\* A NULL field is 0.
Operands == Vars \cup Int
Instrs  == [op : Ops, a1 : Operands, a2 : Operands, r : Operands]

\* tac_s.  In TIFF, TJMP and TLABEL the field r is the number of a label.
Instr(op, a1, a2, r) == [op |-> op, a1 |-> a1, a2 |-> a2, r |-> r]

\* The variables an instruction reads ...
Uses(i) ==
    Vars \cap ( IF i.op \in Binops THEN {i.a1, i.a2}
                ELSE IF i.op \in {"TIFF", "TASSIGN"} THEN {i.a1}
                ELSE IF i.op = "TOUT" THEN {i.r}
                ELSE {} )

\* ... and the variables it writes.
Defs(i) ==
    Vars \cap (IF i.op \in Binops \cup {"TIN", "TASSIGN"} THEN {i.r} ELSE {})

=============================================================================
