----------------------------- MODULE MCAnalysis -----------------------------
(***************************************************************************)
(* bb_build and lva on programs with loops, loops in loops and branches    *)
(* in loops, behind a first statement.                                     *)
(***************************************************************************)
EXTENDS Analysis, TacGen, TLC

CONSTANTS x, y, t0, t1, t2, t3, t4, t5, t6, t7

Less   == Binop("TLT", Id(x), Id(y))
Simple == {Assign(x, Id(y)), WriteOut(Id(y)), Assign(y, Binop("TADD", Id(y), Const(1)))}

Inner1 == {If(Less, <<s>>, << >>) : s \in Simple} \cup {While(Less, <<s>>) : s \in Simple}
Bodies == {<<s>> : s \in Simple} \cup {<<s, c>> : s \in Simple, c \in Inner1}

Outer  == {While(c, b) : c \in {Less, Id(y)}, b \in Bodies}
             \cup {If(Less, b, e) : b \in Bodies, e \in {<<s>> : s \in Simple}}

MCTrees == {<<ReadInto(x), s>> : s \in Outer}
              \cup {<<Assign(y, Const(1)), s, s2>> : s \in Outer, s2 \in Simple}

MCTemps == <<t0, t1, t2, t3, t4, t5, t6, t7>>
MCPrograms == {TacOf(t) : t \in MCTrees}
=============================================================================
