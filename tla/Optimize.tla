------------------------------ MODULE Optimize ------------------------------
(***************************************************************************)
(* The two passes of optimize.c itself: opt_algebra, which rewrites single  *)
(* instructions, and opt_unused_vars, which drops assignments.              *)
(***************************************************************************)
EXTENDS FlowCode

Copy(i, a) == [i EXCEPT !.op = "TASSIGN", !.a1 = a, !.a2 = 0]
Twice(i, a) == [i EXCEPT !.op = "TADD", !.a1 = a, !.a2 = a]

Sum(i) ==
    IF i.a1 = 0 THEN Copy(i, i.a2)
    ELSE IF i.a2 = 0 THEN Copy(i, i.a1)
    ELSE i

MutDifference(i) == IF i.a1 = 0 THEN Copy(i, i.a2) ELSE i
Difference(i) ==
    IF i.a1 = 0 THEN [i EXCEPT !.op = "TMUL", !.a1 = -1]
    ELSE IF i.a2 = 0 THEN Copy(i, i.a1)
    ELSE i

Product(i) ==
    IF 0 \in {i.a1, i.a2} THEN Copy(i, 0)
    ELSE IF i.a1 = 1 THEN Copy(i, i.a2)
    ELSE IF i.a1 = 2 THEN Twice(i, i.a2)
    ELSE IF i.a2 = 1 THEN Copy(i, i.a1)
    ELSE IF i.a2 = 2 THEN Twice(i, i.a1)
    ELSE i

\* A division by 0 is only reported.  1 / x becomes x.
Quotient(i) ==
    IF i.a2 = 0 THEN i
    ELSE IF i.a1 = 1 THEN Copy(i, i.a2)
    ELSE IF i.a2 = 1 THEN Copy(i, i.a1)
    ELSE i

Simplified(i) ==
    CASE i.op = "TADD" -> Sum(i)
      [] i.op = "TSUB" -> Difference(i)
      [] i.op = "TMUL" -> Product(i)
      [] i.op = "TDIV" -> Quotient(i)
      [] OTHER -> i

OptAlgebra(g) ==
    [g EXCEPT !.ins = [b \in g.blocks |-> [j \in DOMAIN @[b] |-> Simplified(@[b][j])]]]

\* Variables something reads, in the whole program; a TIN's is taken for one.
MutNeeded(i) == IF i.op = "TOUT" THEN {} ELSE Uses(i)
Needed(i) == Uses(i) \cup (IF i.op = "TIN" THEN {i.r} \cap Vars ELSE {})

OptUnusedVars(g) ==
    LET needed == UNION {Needed(i) : i \in ToSet(Flat(g))}
        Kept(s) == {j \in DOMAIN s : s[j].op = "TASSIGN" => s[j].r \in needed}
    IN  [g EXCEPT !.ins = [b \in g.blocks |->
           [n \in DOMAIN InOrder(Kept(@[b])) |-> @[b][InOrder(Kept(@[b]))[n]]]]]

=============================================================================
