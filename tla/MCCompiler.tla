----------------------------- MODULE MCCompiler -----------------------------
(***************************************************************************)
(* The whole compiler on small programs: branches, loops and a divisor that *)
(* may be 0, with so few registers that variables and temporaries visit the *)
(* spare ones.  Two programs are what copy propagation leaves of an         *)
(* x := x + 1: only then an increment is emitted.                           *)
(***************************************************************************)
EXTENDS Compiler, TacGen

CONSTANTS x, y, z, t0, t1, t2, t3, t4, t5

Less == Binop("TLT", Id(x), Id(y))

Simple == {Assign(x, Binop("TSUB", Id(z), Const(1))), Assign(z, Binop("TDIV", Const(1), Id(x))),
           Assign(z, Id(y)), WriteOut(Id(z)), ReadInto(z)}
Branches == {If(Binop(op, Id(x), Const(2)), <<s>>, <<s2>>) :
               op \in {"TLE", "TGE", "TGT"}, s \in Simple, s2 \in Simple}
              \cup {If(Less, <<s>>, << >>) : s \in Simple}
              \cup {If(Binop(op, Id(x), Const(2)), <<WriteOut(Id(z))>>, << >>) : op \in {"TEQ", "TNEQ"}}
Bodies == {<<Assign(v, Binop(op, Id(v), Id(z)))>> : op \in {"TADD", "TMUL"}, v \in {x, z}}
            \cup {<<Assign(x, Binop("TADD", Id(x), Const(1)))>>, <<ReadInto(x)>>,
                  <<Assign(x, Binop("TADD", Id(x), Const(1))), Assign(z, Id(x))>>,
                  <<If(Binop("TGE", Id(x), Const(1)), <<WriteOut(Id(z))>>, << >>),
                    ReadInto(z), If(Binop("TGE", Id(x), Const(1)), <<WriteOut(Id(y))>>, << >>),
                    ReadInto(x)>>,
                  <<Assign(x, Binop("TADD", Id(x), Id(z))), If(Less, <<WriteOut(Id(z))>>, << >>)>>}
Loops == {While(Less, b) : b \in Bodies}

Begin == <<ReadInto(x), ReadInto(y), Assign(z, Binop("TMUL", Id(x), Const(2)))>>
End   == <<WriteOut(Id(x)), WriteOut(Id(y)), WriteOut(Id(z))>>
\* More symbols in a block than the machine has registers.
Crowded == {Assign(v, Binop(op, Binop("TMUL", Binop("TADD", Id(x), Const(2)), Binop("TSUB", Id(y), Const(1))),
                               Id(z))) : op \in {"TADD", "TSUB"}, v \in {y, z}}

MCTrees == {Begin \o <<s>> \o End : s \in Branches \cup Loops}
             \cup {Begin \o <<s, WriteOut(Id(x)), WriteOut(Id(z)), WriteOut(Id(y)), WriteOut(Id(y))>> : s \in Crowded}
             \cup {<<ReadInto(x), ReadInto(y), s>> \o End : s \in Loops}
             \cup {<<ReadInto(x), ReadInto(y), If(Less, <<ReadInto(z), s>>, <<s2>>)>> \o End :
                      s \in Loops, s2 \in Simple}
             \cup {Begin \o <<If(Less, <<s>>, << >>), WriteOut(Id(z)), WriteOut(Id(z))>> : s \in Loops}
             \cup {Begin \o <<s, Assign(x, Binop("TADD", Id(x), Const(1)))>> \o End : s \in Loops}

Propagated(op, a, b, last) ==
    <<Instr("TIN", 0, 0, x), Instr("TIN", 0, 0, y), Instr("TASSIGN", 2, 0, z),
      Instr(op, a, b, x), Instr(op, a, b, x),
      Instr("TOUT", 0, 0, x), Instr("TOUT", 0, 0, y), Instr("TOUT", 0, 0, last),
      Instr("TOUT", 0, 0, z)>>

MCTemps == <<t0, t1, t2, t3, t4, t5>>
MCPrograms ==
    {TacOf(t) : t \in MCTrees}
      \cup {Propagated(op, a[1], a[2], last) : op \in {"TADD", "TSUB"},
                                               a \in {<<x, 1>>, <<1, x>>}, last \in {x, z}}
\* test.mila in the small: the last write is of a variable assigned before the others.
TestPrograms == {TacOf(Begin \o <<WriteOut(Id(x)), WriteOut(Id(y)), WriteOut(Id(z))>>)}
MCConstants == {0, 1, 2}
MCInputs == {<<1, 3, 0>>, <<3, 3, 5>>, <<0, 2, 5, 1, 6, 3>>}
=============================================================================
