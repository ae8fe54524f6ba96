------------------------------- MODULE TmIsa -------------------------------
(***************************************************************************)
(* The instruction set of the TINY machine of tm.c: what an instruction is, *)
(* how it is counted, and the parts of its execution that depend on no       *)
(* memory.                                                                 *)
(***************************************************************************)
EXTENDS Integers

RegNos == 0 .. 7
PC     == 7

\* OPCODE by opClass, and the names the counters are kept under.
RR    == {"HALT", "IN", "OUT", "ADD", "SUB", "MUL", "DIV", "INC", "DEC", "SHL", "SHR"}
RM    == {"LD", "ST"}
Jumps == {"JLT", "JLE", "JGT", "JGE", "JEQ", "JNE"}
RA    == {"LDA", "LDC"} \cup Jumps
TmOps == RR \cup RM \cup RA
ClassOf(op) == IF op \in RR THEN "?RR" ELSE IF op \in RM THEN "?RM" ELSE "?RA"
Counted == TmOps \cup {"?RR", "?RM", "?RA", "?ALL"}

\* INSTRUCTION.
TmIns(op, a1, a2, a3) == [op |-> op, a1 |-> a1, a2 |-> a2, a3 |-> a3]

\* C's division truncates towards zero.
Divide(a, b) ==
    LET Mag(n) == IF n < 0 THEN -n ELSE n
        q == Mag(a) \div Mag(b)
    IN  IF (a < 0) = (b < 0) THEN q ELSE -q

\* Whether a jump is taken, on what its register holds.
Taken(op, n) ==
    CASE op = "JLT" -> n < 0
      [] op = "JLE" -> n <= 0
      [] op = "JGT" -> n > 0
      [] op = "JGE" -> n >= 0
      [] op = "JEQ" -> n = 0
      [] op = "JNE" -> n # 0

=============================================================================
