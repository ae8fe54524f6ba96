------------------------------- MODULE TacGen -------------------------------
(***************************************************************************)
(* The front end: from a syntax tree to three address code.  tree.c gives  *)
(* each node its instruction when the parser builds it, children first, so *)
(* temporaries and labels are numbered in that order (tac_gen); 3ac.c then *)
(* walks the tree and appends the instructions (gen).  Both walks are one  *)
(* here: a node is the code gen appends for it and the counters after it.  *)
(* Only model checking uses this module: its operators are recursive.      *)
(***************************************************************************)
EXTENDS Tac

CONSTANT TempSymbols    \* the symbols _t0, _t1, ... in this order

\* The trees of mila.y.  th, el and body are sequences: the sibling chains that
\* statm_seq links; an el of << >> is a missing else.
Id(x)           == [type |-> "ID_T", r |-> x]
Const(n)        == [type |-> "CONST_T", r |-> n]
Binop(op, l, r) == [type |-> "BIOP_T", op |-> op, l |-> l, r |-> r]
Neg(e)          == [type |-> "UOP_T", e |-> e]
Assign(x, e)    == [type |-> "ASSIGN_T", x |-> x, e |-> e]
ReadInto(x)     == [type |-> "READ_T", x |-> x]
WriteOut(e)     == [type |-> "WRITE_T", e |-> e]
If(cnd, th, el) == [type |-> "IF_T", cnd |-> cnd, th |-> th, el |-> el]
While(cnd, body) == [type |-> "WHILE_T", cnd |-> cnd, body |-> body]

\* tmp_symb_id, tmp_label_id, and the negations of variables already in
\* nodes_tab (new_unop looks its operand up and shares the node).
Counters == [tmp |-> 0, lab |-> 0, neg |-> {}]

Temp(k)  == TempSymbols[k.tmp + 1]
NextTemp(k) == [k EXCEPT !.tmp = @ + 1]

\* const_fold; C's division truncates towards zero.
Truth(b) == IF b THEN 1 ELSE 0
Quotient(a, b) ==
    LET Mag(n) == IF n < 0 THEN -n ELSE n
        q == Mag(a) \div Mag(b)
    IN  IF (a < 0) = (b < 0) THEN q ELSE -q
Fold(op, a, b) ==
    CASE op = "TADD" -> a + b
      [] op = "TSUB" -> a - b
      [] op = "TMUL" -> a * b
      [] op = "TDIV" -> Quotient(a, b)
      [] op = "TEQ"  -> Truth(a = b)
      [] op = "TNEQ" -> Truth(a # b)
      [] op = "TLT"  -> Truth(a < b)
      [] op = "TGT"  -> Truth(a > b)
      [] op = "TLE"  -> Truth(a <= b)
      [] op = "TGE"  -> Truth(a >= b)

\* A node of an expression: its tac.r, whether it is a CONST_T, its code.
Leaf(r, const, k) == [r |-> r, const |-> const, ins |-> << >>, k |-> k]
Inner(op, a1, a2, r, ins, k) ==
    [r |-> r, const |-> FALSE, ins |-> Append(ins, Instr(op, a1, a2, r)), k |-> k]

RECURSIVE Expr(_, _)
Expr(e, k) ==
    CASE e.type = "ID_T" -> Leaf(e.r, FALSE, k)
      [] e.type = "CONST_T" -> Leaf(e.r, TRUE, k)
      [] e.type = "BIOP_T" ->
           LET l == Expr(e.l, k)
               r == Expr(e.r, l.k)
           IN  IF l.const /\ r.const
               THEN Leaf(Fold(e.op, l.r, r.r), TRUE, r.k)
               ELSE Inner(e.op, l.r, r.r, Temp(r.k), l.ins \o r.ins, NextTemp(r.k))
      [] e.type = "UOP_T" ->
           LET c == Expr(e.e, k)
               known == {vt \in c.k.neg : e.e.type = "ID_T" /\ vt[1] = c.r}
           IN  CASE c.const -> Leaf(-c.r, TRUE, c.k)
                 [] known # {} ->
                      Inner("TMUL", c.r, -1, (CHOOSE vt \in known : TRUE)[2], c.ins, c.k)
                 [] OTHER ->
                      Inner("TMUL", c.r, -1, Temp(c.k), c.ins,
                            [NextTemp(c.k) EXCEPT !.neg = @ \cup {<<c.r, Temp(c.k)>>}])

Label(l) == Instr("TLABEL", 0, 0, l)
Jump(l)  == Instr("TJMP", 0, 0, l)

\* gen_if and gen_loop: of the two labels tac_gen makes, the first is a2, the
\* second r.  A constant condition leaves one branch, or no loop.
IfCode(c, th, el, k) ==
    IF el = << >>
    THEN c.ins \o <<Instr("TIFF", c.r, 0, k.lab + 1)>> \o th \o <<Label(k.lab + 1)>>
    ELSE c.ins \o <<Instr("TIFF", c.r, 0, k.lab + 2)>> \o th
           \o <<Jump(k.lab + 1), Label(k.lab + 2)>> \o el \o <<Label(k.lab + 1)>>

LoopCode(c, body, k) ==
    <<Label(k.lab + 1)>> \o c.ins \o <<Instr("TIFF", c.r, 0, k.lab + 2)>> \o body
      \o <<Jump(k.lab + 1), Label(k.lab + 2)>>

Labels(n, k) == [k EXCEPT !.lab = @ + n]

RECURSIVE Stmts(_, _)
Stmt(s, k) ==
    CASE s.type = "ASSIGN_T" ->
           LET e == Expr(s.e, k)
           IN  [ins |-> Append(e.ins, Instr("TASSIGN", e.r, 0, s.x)), k |-> e.k]
      [] s.type = "WRITE_T" ->
           LET e == Expr(s.e, k)
           IN  [ins |-> Append(e.ins, Instr("TOUT", 0, 0, e.r)), k |-> e.k]
      [] s.type = "READ_T" ->
           [ins |-> <<Instr("TIN", 0, 0, s.x)>>, k |-> k]
      [] s.type = "IF_T" ->
           LET c  == Expr(s.cnd, k)
               th == Stmts(s.th, c.k)
               el == Stmts(s.el, th.k)
           IN  IF c.const
               THEN [ins |-> IF c.r > 0 THEN th.ins ELSE el.ins, k |-> el.k]
               ELSE [ins |-> IfCode(c, th.ins, el.ins, el.k),
                     k |-> Labels(IF s.el = << >> THEN 1 ELSE 2, el.k)]
      [] s.type = "WHILE_T" ->
           LET c == Expr(s.cnd, k)
               body == Stmts(s.body, c.k)
           IN  IF c.const THEN [ins |-> << >>, k |-> body.k]
               ELSE [ins |-> LoopCode(c, body.ins, body.k), k |-> Labels(2, body.k)]

Stmts(ss, k) ==
    IF ss = << >> THEN [ins |-> << >>, k |-> k]
    ELSE LET first == Stmt(Head(ss), k)
             rest  == Stmts(Tail(ss), first.k)
         IN  [ins |-> first.ins \o rest.ins, k |-> rest.k]

\* tac: the instruction list of a program.
TacOf(program) == Stmts(program, Counters).ins

=============================================================================
