--------------------------- MODULE MCBasicBlocks ---------------------------
(***************************************************************************)
(* bb_build on the code of every small program: sequences of assignments,  *)
(* output, conditionals and loops, nested one deep, with conditions that    *)
(* are comparisons or single variables.                                    *)
(***************************************************************************)
EXTENDS BasicBlocks, TacGen, TLC

CONSTANTS x, y, t0, t1, t2, t3, t4, t5, t6, t7    \* the program's variables, _t0 ...

Simple == {Assign(x, Id(y)), WriteOut(Binop("TADD", Id(x), Id(y)))}
Conds  == {Id(x), Binop("TLT", Id(x), Id(y))}

\* Statement lists of at most n elements of S, not empty.
Lists(S, n) == UNION {[1 .. m -> S] : m \in 1 .. n}

Compound(bodies) ==
    {If(c, th, << >>) : c \in Conds, th \in bodies}
    \cup {If(c, th, el) : c \in Conds, th \in bodies, el \in Lists(Simple, 1)}
    \cup {While(c, body) : c \in Conds, body \in bodies}

Flat   == Simple \cup Compound(Lists(Simple, 1))
Nested == Compound(Lists(Flat, 1)) \cup {While(c, body) : c \in Conds, body \in Lists(Flat, 2)}

\* A program, with and without a statement in front, behind, and in between.
MCTrees == Lists(Flat, 2)
             \cup {<<ReadInto(x), s>> : s \in Nested}
             \cup {<<ReadInto(x), s, WriteOut(Id(x))>> : s \in Nested}

MCTemps == <<t0, t1, t2, t3, t4, t5, t6, t7>>
MCPrograms == {TacOf(t) : t \in MCTrees}
=============================================================================
