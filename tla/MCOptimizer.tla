---------------------------- MODULE MCOptimizer ----------------------------
(***************************************************************************)
(* Small Mila programs for the optimizer, in families that make each pass    *)
(* find something to do: straight lines, a loop's body, two ways of a test,  *)
(* tests that const_prop decides, constants from before a loop.  The last    *)
(* family has one program or more that breaks each condition of PassesRight.  *)
(***************************************************************************)
EXTENDS PassesRight, TacGen

CONSTANTS x, y, z, t0, t1, t2, t3, t4, t5, t6, t7, t8, t9

Sub2(a, b) == Binop("TSUB", a, b)
Add(a, b)  == Binop("TADD", a, b)
Mul(a, b)  == Binop("TMUL", a, b)
Div(a, b)  == Binop("TDIV", a, b)
Less(a, b) == Binop("TLT", a, b)
X == Id(x)
Y == Id(y)
Z == Id(z)

Assignments ==
    {Assign(v, a) : v \in {x, z}, a \in {X, Y, Const(1)}}
      \cup {Assign(v, Binop(op, a, b)) : v \in {x, z}, op \in {"TADD", "TSUB"},
                                        a \in {X, Const(0)}, b \in {Y, Const(1)}}
Statements ==
    Assignments
      \cup {ReadInto(x), WriteOut(Z), WriteOut(Mul(X, Const(2))), Assign(z, Div(Y, X)),
            Assign(z, Div(Const(1), Y)), Assign(x, Mul(Const(0), Y))}

Ends == <<WriteOut(X), WriteOut(Z)>>
Lines == {<<ReadInto(x), ReadInto(y), Assign(z, Mul(X, Y)), a, b>> \o Ends :
            a \in Statements, b \in Statements}
Loops == {<<ReadInto(x), ReadInto(y), Assign(z, c),
             While(Less(X, Y), <<a, Assign(x, Add(X, Const(1)))>>)>> \o Ends :
            a \in Statements, c \in {Const(2), Mul(X, Y)}}
Values == {Const(1), Const(2), X}
Tests == {<<ReadInto(x), ReadInto(y), Assign(z, c), If(t, <<Assign(z, a)>>, e)>> \o Ends :
            a \in Values, c \in Values, t \in {Less(X, Y), Less(Const(0), Z)},
            e \in {<< >>} \cup {<<Assign(z, b)>> : b \in Values}}
Decided == {<<ReadInto(y), Assign(z, Const(n)), If(Less(Const(1), Z), a, b),
               WriteOut(Y), WriteOut(Z)>> :
              n \in {1, 2}, a \in {<<Assign(y, Z)>>, <<WriteOut(Y)>>},
              b \in {<< >>, <<ReadInto(z)>>, <<While(Less(X, Y), <<ReadInto(x)>>)>>}}

Odd ==
    {\* an output in front of all else
     <<WriteOut(Const(1)), ReadInto(x), WriteOut(X)>>,
     \* a plain variable tested
     <<ReadInto(x), If(X, <<WriteOut(Const(1))>>, << >>), WriteOut(X)>>,
     \* divisors that are found to be 0
     <<ReadInto(x), Assign(z, Const(0)), WriteOut(Div(X, Z))>>,
     <<ReadInto(x), Assign(z, Const(0)), WriteOut(Div(Const(4), Z)), WriteOut(X)>>,
     \* nodes 1 and 11, 11 and 1 of a block
     <<ReadInto(x), ReadInto(y), WriteOut(Mul(X, Y)), WriteOut(Mul(X, X)), WriteOut(Mul(Y, Y)),
       WriteOut(Add(X, Y)), WriteOut(Add(X, X)), WriteOut(Add(Y, Y)), WriteOut(Sub2(Y, X)),
       ReadInto(z), WriteOut(Sub2(X, Y)), WriteOut(Sub2(X, Z)), WriteOut(Sub2(Z, X))>>,
     \* two names of one result, both alive behind the block
     <<ReadInto(x), Assign(z, Add(X, Const(4))), WriteOut(X), Assign(y, Z),
       If(Less(Const(0), X), <<WriteOut(Y)>>, << >>), WriteOut(Z)>>,
     \* a result read once more behind the copy that takes its place
     <<ReadInto(x), Assign(y, Add(X, X)), Assign(z, Y),
       If(Less(Z, Const(3)), <<WriteOut(Y)>>, << >>), WriteOut(Z)>>,
     \* loops without end
     <<ReadInto(y), Assign(z, Const(1)), While(Less(Const(0), Z), <<WriteOut(Y)>>), WriteOut(Z)>>,
     <<ReadInto(x), ReadInto(y), Assign(z, Const(1)),
       While(Less(Const(0), Z),
             <<If(Less(X, Y), <<WriteOut(Y)>>, <<WriteOut(X)>>), Assign(x, Add(X, Y))>>),
       WriteOut(Z)>>,
     \* constants written once more in a loop
     <<Assign(z, Const(0)), ReadInto(x),
       While(Less(X, Const(4)), <<Assign(x, Add(X, Const(1))), Assign(z, X)>>), WriteOut(Z)>>,
     <<ReadInto(x), Assign(z, Const(1)),
       While(Less(X, Const(4)),
             <<WriteOut(Z), Assign(z, Const(2)), Assign(x, Add(X, Const(1)))>>)>>}

\* test/cse.mila
CseMila ==
    <<ReadInto(x), ReadInto(y), Assign(y, Add(Y, Const(0))), Assign(z, Add(X, Y)),
      Assign(z, Add(Add(Sub2(X, Sub2(Y, Z)), Sub2(Y, Sub2(X, Z))), Sub2(X, Z))),
      WriteOut(Z), WriteOut(Const(0))>>

MCTemps == <<t0, t1, t2, t3, t4, t5, t6, t7, t8, t9>>
MCPrograms == {TacOf(t) : t \in Lines \cup Loops \cup Tests \cup Decided \cup Odd}
TestPrograms == {TacOf(CseMila)}
MCInputs == {<<1, 3, 0, 4, 5>>, <<3, 3, 5>>, <<0, 2, 5, 1, 6, 3>>}
MCOrders == {<<x, y, z>> \o MCTemps, MCTemps \o <<z, y, x>>}
=============================================================================
