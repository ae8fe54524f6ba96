--------------------------- MODULE OptimizeProofs ---------------------------
(***************************************************************************)
(* The two passes of optimize.c itself, for every program, every input and   *)
(* every number of steps the machine of TacMachine is let run.  opt_algebra:  *)
(* a run of the rewritten code is, step by step, the run of the code it was   *)
(* made from.  opt_unused_vars: a run of what is left is the other's without  *)
(* the assignments nobody reads.  Then what opt_algebra is given: const_prop   *)
(* and bb_compact leave blocks of instructions, none with a NULL operand.     *)
(***************************************************************************)
EXTENDS PassesRight, LivenessProofs, SequenceTheorems, TLAPS

\* The states of the machine.
Statuses == {"running", "end", "undefined", "zerodivide", "overflow", "waiting", "lost"}
States == [pc : Nat \ {0}, val : [Vars -> Int], known : SUBSET Operands,
           input : Seq(Int), output : Seq(Int), status : Statuses]

Rewritten(old) == [j \in 1 .. Len(old) |-> Algebra!Simplified(old[j])]

\* The one rewriting that is wrong: 1 / x (optimize.c:116).
Reciprocal(i) == i.op = "TDIV" /\ i.a1 = 1 /\ i.a2 \notin {0, 1}

-----------------------------------------------------------------------------
(* The operators. *)

\* An operand's value.
LEMMA OperandIsInt ==
  ASSUME NEW m \in States, NEW a \in Operands
  PROVE  Operand(m, a) \in Int
BY DEF States, Operands, Operand

\* Names are no numbers, so a number among the operands is its own value.
LEMMA NumberIsItself ==
  ASSUME Vars \cap Int = {}, NEW m, NEW n \in Int
  PROVE  Operand(m, n) = n
BY DEF Operand

\* Division by 1, and of 1 by itself.
LEMMA DividedByOne == \A a \in Int : Divided(a, 1) = a
<1> SUFFICES ASSUME NEW a \in Int PROVE Divided(a, 1) = a
  OBVIOUS
<1>1. Magnitude(1) = 1
  BY DEF Magnitude
<1>2. \A n \in Int : n \div 1 = n
  OBVIOUS
<1>3. CASE a < 0
  BY <1>1, <1>2, <1>3 DEF Divided, Magnitude
<1>4. CASE ~ (a < 0)
  BY <1>1, <1>2, <1>4 DEF Divided, Magnitude
<1> QED BY <1>3, <1>4

\* Stopping says why.
LEMMA StoppedSays ==
  ASSUME NEW m \in States, NEW why
  PROVE  Stopped(m, why).status = why
BY DEF States, Stopped

\* The arithmetic instructions without the machine's tests.
LEMMA ArithmeticStep ==
  ASSUME NEW m \in States, NEW i \in BlockInstrs,
         i.op \in {"TADD", "TSUB", "TMUL"} \/ (i.op = "TDIV" /\ Operand(m, i.a2) # 0),
         NEW n, n = Result(i.op, Operand(m, i.a1), Operand(m, i.a2))
  PROVE  /\ Fits(n) => BinopStep(m, i) = Written(m, i.r, n)
         /\ ~ Fits(n) => BinopStep(m, i) = Stopped(m, "overflow")
<1>1. ~ (i.op = "TDIV" /\ Operand(m, i.a2) = 0) /\ i.op \notin Relops
  BY DEF Relops
<1> QED BY <1>1 DEF BinopStep

\* What fits is written.
LEMMA ArithmeticWrites ==
  ASSUME NEW m \in States, NEW i \in BlockInstrs,
         i.op \in {"TADD", "TSUB", "TMUL"} \/ (i.op = "TDIV" /\ Operand(m, i.a2) # 0),
         BinopStep(m, i).status # "overflow",
         NEW n, n = Result(i.op, Operand(m, i.a1), Operand(m, i.a2))
  PROVE  BinopStep(m, i) = Written(m, i.r, n)
<1>1. CASE Fits(n)
  BY <1>1, ArithmeticStep
<1>2. CASE ~ Fits(n)
  <2>1. BinopStep(m, i) = Stopped(m, "overflow")
    BY <1>2, ArithmeticStep
  <2>2. Stopped(m, "overflow").status = "overflow"
    BY StoppedSays
  <2> QED BY <2>1, <2>2
<1> QED BY <1>1, <1>2

\* Two instructions that write the same result do the same.
LEMMA SameResult ==
  ASSUME NEW m \in States, NEW i \in BlockInstrs, NEW h \in BlockInstrs,
         i.op \in {"TADD", "TSUB", "TMUL"}, h.op \in {"TADD", "TSUB", "TMUL"},
         h.r = i.r,
         Result(h.op, Operand(m, h.a1), Operand(m, h.a2))
           = Result(i.op, Operand(m, i.a1), Operand(m, i.a2))
  PROVE  BinopStep(m, h) = BinopStep(m, i)
<1> DEFINE n == Result(i.op, Operand(m, i.a1), Operand(m, i.a2))
<1>1. CASE Fits(n)
  <2>1. BinopStep(m, i) = Written(m, i.r, n)
    BY <1>1, ArithmeticStep
  <2>2. BinopStep(m, h) = Written(m, h.r, n)
    BY <1>1, ArithmeticStep
  <2> QED BY <2>1, <2>2
<1>2. CASE ~ Fits(n)
  <2>1. BinopStep(m, i) = Stopped(m, "overflow")
    BY <1>2, ArithmeticStep
  <2>2. BinopStep(m, h) = Stopped(m, "overflow")
    BY <1>2, ArithmeticStep
  <2> QED BY <2>1, <2>2
<1> QED BY <1>1, <1>2

\* What the two shapes of a rewritten instruction are.
LEMMA CopyIs ==
  ASSUME NEW i \in BlockInstrs, NEW a \in Operands
  PROVE  /\ Algebra!Copy(i, a) \in BlockInstrs
         /\ Algebra!Copy(i, a).op = "TASSIGN" /\ Algebra!Copy(i, a).a1 = a /\ Algebra!Copy(i, a).r = i.r
<1>1. "TASSIGN" \in Ops /\ 0 \in Operands
  BY DEF Ops, Operands
<1> QED BY <1>1 DEF Algebra!Copy, BlockInstrs

LEMMA TwiceIs ==
  ASSUME NEW i \in BlockInstrs, NEW a \in Operands
  PROVE  /\ Algebra!Twice(i, a) \in BlockInstrs /\ Algebra!Twice(i, a).op = "TADD"
         /\ Algebra!Twice(i, a).a1 = a /\ Algebra!Twice(i, a).a2 = a /\ Algebra!Twice(i, a).r = i.r
BY DEF Algebra!Twice, BlockInstrs, Ops, Binops, Arith

-----------------------------------------------------------------------------
(* One rewritten instruction.  Does(m, i) is what an instruction does whose   *)
(* operands are known.                                                       *)

Does(m, i) ==
    IF i.op = "TASSIGN" THEN Written(m, i.r, Operand(m, i.a1)) ELSE BinopStep(m, i)

\* x + 0 and 0 + x are x.
LEMMA SumDoes ==
  ASSUME Vars \cap Int = {}, NEW m \in States, NEW i \in BlockInstrs, i.op = "TADD",
         BinopStep(m, i).status # "overflow"
  PROVE  Does(m, Algebra!Sum(i)) = BinopStep(m, i)
<1> DEFINE a == Operand(m, i.a1)  b == Operand(m, i.a2)
<1>1. i.a1 \in Operands /\ i.a2 \in Operands /\ a \in Int /\ b \in Int
  BY OperandIsInt DEF BlockInstrs
<1>2. BinopStep(m, i) = Written(m, i.r, a + b)
  <2>1. Result(i.op, a, b) = a + b
    BY DEF Result
  <2> QED BY <2>1, ArithmeticWrites
<1>3. CASE i.a1 = 0
  <2>1. a = 0 /\ a + b = b
    BY <1>1, <1>3, NumberIsItself
  <2>2. Algebra!Sum(i) = Algebra!Copy(i, i.a2)
    BY <1>3 DEF Algebra!Sum
  <2> QED BY <1>1, <1>2, <2>1, <2>2, CopyIs DEF Does
<1>4. CASE i.a1 # 0 /\ i.a2 = 0
  <2>1. b = 0 /\ a + b = a
    BY <1>1, <1>4, NumberIsItself
  <2>2. Algebra!Sum(i) = Algebra!Copy(i, i.a1)
    BY <1>4 DEF Algebra!Sum
  <2> QED BY <1>1, <1>2, <2>1, <2>2, CopyIs DEF Does
<1>5. CASE i.a1 # 0 /\ i.a2 # 0
  BY <1>5 DEF Algebra!Sum, Does
<1> QED BY <1>3, <1>4, <1>5

\* x - 0 is x, 0 - x is -1 * x.
LEMMA DifferenceDoes ==
  ASSUME Vars \cap Int = {}, NEW m \in States, NEW i \in BlockInstrs, i.op = "TSUB",
         BinopStep(m, i).status # "overflow"
  PROVE  Does(m, Algebra!Difference(i)) = BinopStep(m, i)
<1> DEFINE a == Operand(m, i.a1)  b == Operand(m, i.a2)
<1>1. i.a1 \in Operands /\ i.a2 \in Operands /\ a \in Int /\ b \in Int
  BY OperandIsInt DEF BlockInstrs
<1>2. Result(i.op, a, b) = a - b
  BY DEF Result
<1>3. CASE i.a1 = 0
  <2> DEFINE h == [i EXCEPT !.op = "TMUL", !.a1 = -1]
  <2>1. Algebra!Difference(i) = h /\ h.op = "TMUL" /\ h.a1 = -1 /\ h.a2 = i.a2 /\ h.r = i.r
    BY <1>3 DEF Algebra!Difference, BlockInstrs
  <2>2. Operand(m, h.a1) = -1 /\ Operand(m, h.a2) = b /\ a = 0
    BY <1>3, <2>1, NumberIsItself
  <2>3. Result(h.op, -1, b) = a - b
    <3>1. (-1) * b = a - b
      BY <1>1, <2>2
    <3> QED BY <2>1, <3>1 DEF Result
  <2>4. h \in BlockInstrs
    <3>1. "TMUL" \in Ops /\ -1 \in Operands
      BY DEF Ops, Binops, Arith, Operands
    <3> QED BY <3>1 DEF BlockInstrs
  <2>5. BinopStep(m, h) = BinopStep(m, i)
    <3>1. Result(h.op, Operand(m, h.a1), Operand(m, h.a2))
            = Result(i.op, Operand(m, i.a1), Operand(m, i.a2))
      BY <1>2, <2>2, <2>3
    <3> HIDE DEF h, a, b
    <3> QED BY <2>1, <2>4, <3>1, SameResult
  <2> QED BY <2>1, <2>5 DEF Does
<1>4. CASE i.a1 # 0 /\ i.a2 = 0
  <2>1. b = 0 /\ a - b = a
    BY <1>1, <1>4, NumberIsItself
  <2>2. Algebra!Difference(i) = Algebra!Copy(i, i.a1)
    BY <1>4 DEF Algebra!Difference
  <2>3. BinopStep(m, i) = Written(m, i.r, a - b)
    BY <1>2, ArithmeticWrites
  <2> QED BY <1>1, <2>1, <2>2, <2>3, CopyIs DEF Does
<1>5. CASE i.a1 # 0 /\ i.a2 # 0
  BY <1>5 DEF Algebra!Difference, Does
<1> QED BY <1>3, <1>4, <1>5

\* x * 0 is 0, x * 1 is x, x * 2 is x + x, and the other way round.
LEMMA ProductDoes ==
  ASSUME Vars \cap Int = {}, NEW m \in States, NEW i \in BlockInstrs, i.op = "TMUL",
         BinopStep(m, i).status # "overflow"
  PROVE  Does(m, Algebra!Product(i)) = BinopStep(m, i)
<1> DEFINE a == Operand(m, i.a1)  b == Operand(m, i.a2)
<1>1. i.a1 \in Operands /\ i.a2 \in Operands /\ a \in Int /\ b \in Int /\ 0 \in Operands
  BY OperandIsInt DEF BlockInstrs, Operands
<1>2. Result(i.op, a, b) = a * b
  BY DEF Result
<1>3. BinopStep(m, i) = Written(m, i.r, a * b)
  BY <1>2, ArithmeticWrites
<1>4. \A n \in {0, 1, 2} : (i.a1 = n => a = n) /\ (i.a2 = n => b = n)
  BY NumberIsItself
<1>5. \A n \in Int : n * 0 = 0 /\ 0 * n = 0 /\ n * 1 = n /\ 1 * n = n /\ n * 2 = n + n /\ 2 * n = n + n
  OBVIOUS
<1>6. ASSUME NEW x \in Operands, Operand(m, x) + Operand(m, x) = a * b
      PROVE  Does(m, Algebra!Twice(i, x)) = BinopStep(m, i)
  <2> DEFINE h == Algebra!Twice(i, x)
  <2>1. h.op = "TADD" /\ h.a1 = x /\ h.a2 = x /\ h.r = i.r
    BY <1>6, TwiceIs
  <2>2. Result(h.op, Operand(m, x), Operand(m, x)) = a * b
    BY <1>6, <2>1 DEF Result
  <2>3. BinopStep(m, h) = BinopStep(m, i)
    BY <1>2, <1>6, <2>1, <2>2, TwiceIs, SameResult
  <2> QED BY <2>1, <2>3 DEF Does
<1>7. ASSUME NEW x \in Operands, Operand(m, x) = a * b
      PROVE  Does(m, Algebra!Copy(i, x)) = BinopStep(m, i)
  BY <1>3, <1>7, CopyIs DEF Does
<1>8. CASE 0 \in {i.a1, i.a2}
  <2>1. a * b = 0 /\ Operand(m, 0) = 0
    BY <1>1, <1>4, <1>5, <1>8, NumberIsItself
  <2>2. Algebra!Product(i) = Algebra!Copy(i, 0)
    BY <1>8 DEF Algebra!Product
  <2> QED BY <1>1, <1>7, <2>1, <2>2
<1>9. CASE 0 \notin {i.a1, i.a2} /\ i.a1 = 1
  <2>1. a * b = b
    BY <1>1, <1>4, <1>5, <1>9
  <2>2. Algebra!Product(i) = Algebra!Copy(i, i.a2)
    BY <1>9 DEF Algebra!Product
  <2> QED BY <1>1, <1>7, <2>1, <2>2
<1>10. CASE 0 \notin {i.a1, i.a2} /\ i.a1 = 2
  <2>1. a * b = b + b
    BY <1>1, <1>4, <1>5, <1>10
  <2>2. Algebra!Product(i) = Algebra!Twice(i, i.a2)
    BY <1>10 DEF Algebra!Product
  <2> QED BY <1>1, <1>6, <2>1, <2>2
<1>11. CASE 0 \notin {i.a1, i.a2} /\ i.a1 \notin {1, 2} /\ i.a2 = 1
  <2>1. a * b = a
    BY <1>1, <1>4, <1>5, <1>11
  <2>2. Algebra!Product(i) = Algebra!Copy(i, i.a1)
    BY <1>11 DEF Algebra!Product
  <2> QED BY <1>1, <1>7, <2>1, <2>2
<1>12. CASE 0 \notin {i.a1, i.a2} /\ i.a1 \notin {1, 2} /\ i.a2 = 2
  <2>1. a * b = a + a
    BY <1>1, <1>4, <1>5, <1>12
  <2>2. Algebra!Product(i) = Algebra!Twice(i, i.a1)
    BY <1>12 DEF Algebra!Product
  <2> QED BY <1>1, <1>6, <2>1, <2>2
<1>13. CASE 0 \notin {i.a1, i.a2} /\ i.a1 \notin {1, 2} /\ i.a2 \notin {1, 2}
  BY <1>13 DEF Algebra!Product, Does
<1> QED BY <1>8, <1>9, <1>10, <1>11, <1>12, <1>13

\* x / 1 is x; 1 / x is only left alone for 0.
LEMMA QuotientDoes ==
  ASSUME Vars \cap Int = {}, NEW m \in States, NEW i \in BlockInstrs, i.op = "TDIV",
         ~ Reciprocal(i), BinopStep(m, i).status # "overflow"
  PROVE  Does(m, Algebra!Quotient(i)) = BinopStep(m, i)
<1> DEFINE a == Operand(m, i.a1)  b == Operand(m, i.a2)
<1>1. i.a1 \in Operands /\ i.a2 \in Operands /\ a \in Int /\ b \in Int
  BY OperandIsInt DEF BlockInstrs
<1>2. CASE i.a2 = 1
  <2>1. b = 1 /\ Divided(a, b) = a
    BY <1>1, <1>2, NumberIsItself, DividedByOne
  <2>2. BinopStep(m, i) = Written(m, i.r, a)
    <3>1. Result(i.op, a, b) = a
      BY <2>1 DEF Result
    <3> QED BY <2>1, <3>1, ArithmeticWrites
  <2>3. Algebra!Quotient(i) = Algebra!Copy(i, i.a1)
    BY <1>2 DEF Algebra!Quotient
  <2> QED BY <1>1, <2>2, <2>3, CopyIs DEF Does
<1>3. CASE i.a2 # 1
  BY <1>3 DEF Algebra!Quotient, Reciprocal, Does
<1> QED BY <1>2, <1>3

-----------------------------------------------------------------------------
(* The whole code. *)

\* What an instruction becomes: it keeps its place, its target and, unless it
\* computes, all of it, and reads nothing it did not read.
LEMMA SimplifiedIs ==
  ASSUME Vars \cap Int = {}, NEW i \in BlockInstrs
  PROVE  /\ Algebra!Simplified(i).r = i.r
         /\ i.op \notin Arith => Algebra!Simplified(i) = i
         /\ i.op \in Arith => Algebra!Simplified(i).op \in Arith \cup {"TASSIGN"}
         /\ Uses(Algebra!Simplified(i)) \subseteq Uses(i)
<1>1. CASE i.op \notin Arith
  BY <1>1 DEF Algebra!Simplified, Arith
<1>2. CASE i.op \in Arith
  <2> DEFINE h == Algebra!Simplified(i)
  <2>1. Uses(i) = Vars \cap {i.a1, i.a2}
    BY <1>2 DEF Uses, Binops
  <2>2. i.a1 \in Operands /\ i.a2 \in Operands /\ 0 \in Operands
    BY DEF BlockInstrs, Operands
  <2>3. ASSUME NEW a \in {0, i.a1, i.a2}, h = Algebra!Copy(i, a)
        PROVE  h.op = "TASSIGN" /\ h.r = i.r /\ Uses(h) \subseteq Uses(i)
    <3>1. h.op = "TASSIGN" /\ h.r = i.r /\ h.a1 = a
      BY <2>2, <2>3, CopyIs, SMTT(30)
    <3>2. Uses(h) = Vars \cap {a}
      BY <3>1 DEF Uses, Binops, Relops, Arith
    <3> QED BY <2>1, <2>3, <3>1, <3>2
  <2>4. ASSUME NEW a \in {i.a1, i.a2}, h = Algebra!Twice(i, a)
        PROVE  h.op = "TADD" /\ h.r = i.r /\ Uses(h) \subseteq Uses(i)
    <3>1. h.op = "TADD" /\ h.r = i.r /\ h.a1 = a /\ h.a2 = a
      BY <2>2, <2>4, TwiceIs
    <3>2. Uses(h) = Vars \cap {a}
      BY <3>1 DEF Uses, Binops, Arith
    <3> QED BY <2>1, <2>4, <3>1, <3>2
  <2>5. CASE i.op = "TADD"
    <3>1. h = Algebra!Sum(i)
      BY <2>5 DEF Algebra!Simplified
    <3>2. h = i \/ h = Algebra!Copy(i, i.a1) \/ h = Algebra!Copy(i, i.a2)
      BY <3>1 DEF Algebra!Sum
    <3> QED BY <1>2, <2>3, <3>2
  <2>6. CASE i.op = "TSUB"
    <3>1. h = Algebra!Difference(i)
      BY <2>6 DEF Algebra!Simplified
    <3>2. h = i \/ h = [i EXCEPT !.op = "TMUL", !.a1 = -1] \/ h = Algebra!Copy(i, i.a1)
      BY <3>1 DEF Algebra!Difference
    <3>3. ASSUME h = [i EXCEPT !.op = "TMUL", !.a1 = -1]
          PROVE  h.op = "TMUL" /\ h.r = i.r /\ Uses(h) \subseteq Uses(i)
      <4>1. h.op = "TMUL" /\ h.r = i.r /\ h.a1 = -1 /\ h.a2 = i.a2
        BY <3>3 DEF BlockInstrs
      <4>2. Uses(h) = Vars \cap {-1, i.a2}
        BY <4>1 DEF Uses, Binops, Arith
      <4> QED BY <2>1, <4>1, <4>2
    <3>4. "TMUL" \in Arith
      BY DEF Arith
    <3> QED BY <1>2, <2>3, <3>2, <3>3, <3>4
  <2>7. CASE i.op = "TMUL"
    <3>1. h = Algebra!Product(i)
      BY <2>7 DEF Algebra!Simplified
    <3>2. \/ h = i
          \/ \E a \in {0, i.a1, i.a2} : h = Algebra!Copy(i, a)
          \/ \E a \in {i.a1, i.a2} : h = Algebra!Twice(i, a)
      BY <3>1 DEF Algebra!Product
    <3>3. "TADD" \in Arith
      BY DEF Arith
    <3> QED BY <1>2, <2>3, <2>4, <3>2, <3>3
  <2>8. CASE i.op = "TDIV"
    <3>1. h = Algebra!Quotient(i)
      BY <2>8 DEF Algebra!Simplified
    <3>2. h = i \/ \E a \in {0, i.a1, i.a2} : h = Algebra!Copy(i, a)
      BY <3>1 DEF Algebra!Quotient
    <3> QED BY <1>2, <2>3, <3>2
  <2> QED BY <1>2, <2>5, <2>6, <2>7, <2>8 DEF Arith
<1> QED BY <1>1, <1>2

\* What an instruction does whose operands are known stays.
LEMMA SimplifiedDoes ==
  ASSUME Vars \cap Int = {}, NEW m \in States, NEW i \in BlockInstrs, i.op \in Arith,
         ~ Reciprocal(i), BinopStep(m, i).status # "overflow"
  PROVE  Does(m, Algebra!Simplified(i)) = BinopStep(m, i)
<1>1. CASE i.op = "TADD"
  BY <1>1, SumDoes DEF Algebra!Simplified
<1>2. CASE i.op = "TSUB"
  BY <1>2, DifferenceDoes DEF Algebra!Simplified
<1>3. CASE i.op = "TMUL"
  BY <1>3, ProductDoes DEF Algebra!Simplified
<1>4. CASE i.op = "TDIV"
  BY <1>4, QuotientDoes DEF Algebra!Simplified
<1> QED BY <1>1, <1>2, <1>3, <1>4 DEF Arith

\* The labels stay where they are.
LEMMA TargetsStay ==
  ASSUME Vars \cap Int = {}, NEW old \in Seq(BlockInstrs), NEW m, NEW l
  PROVE  Jumped(Rewritten(old), m, l) = Jumped(old, m, l)
<1> DEFINE new == Rewritten(old)
<1>1. DOMAIN new = DOMAIN old /\ \A p \in DOMAIN old : new[p] = Algebra!Simplified(old[p]) /\ old[p] \in BlockInstrs
  BY DEF Rewritten
<1>2. \A p \in DOMAIN old : new[p].op = "TLABEL" /\ new[p].r = l <=> old[p].op = "TLABEL" /\ old[p].r = l
  BY <1>1, SimplifiedIs DEF Arith
<1>3. JumpTargets(new, l) = JumpTargets(old, l)
  BY <1>1, <1>2 DEF JumpTargets
<1> QED BY <1>3 DEF Jumped

\* A step of the code opt_algebra leaves is the step of the code before it: the
\* same value in the same variable, the same jump and the same output, unless the
\* step overflows or reads what was never written (optimize.c:27-136).
THEOREM AlgebraKeepsSteps ==
  ASSUME Vars \cap Int = {}, NEW old \in Seq(BlockInstrs),
         \A j \in DOMAIN old : ~ Reciprocal(old[j]),
         NEW m \in States,
         StepOf(old, m).status \notin {"undefined", "overflow"}
  PROVE  StepOf(Rewritten(old), m) = StepOf(old, m)
<1> DEFINE new == Rewritten(old)  i == old[m.pc]  h == new[m.pc]
<1>1. Len(new) = Len(old) /\ Len(old) \in Nat
  BY DEF Rewritten
<1>2. CASE m.pc > Len(old)
  BY <1>1, <1>2 DEF StepOf
<1>3. CASE ~ (m.pc > Len(old))
  <2>1. m.pc \in DOMAIN old /\ m.pc <= Len(old) /\ i \in BlockInstrs
    BY <1>1, <1>3 DEF States
  <2>2. h = Algebra!Simplified(i) /\ Uses(h) \subseteq Uses(i)
    BY <2>1, SimplifiedIs DEF Rewritten
  <2>3. Uses(i) \subseteq m.known
    <3>1. SUFFICES ASSUME ~ (Uses(i) \subseteq m.known) PROVE FALSE
      OBVIOUS
    <3>2. StepOf(old, m) = Stopped(m, "undefined")
      BY <1>3, <3>1 DEF StepOf
    <3>3. Stopped(m, "undefined").status = "undefined"
      BY StoppedSays
    <3> QED BY <3>2, <3>3
  <2>4. CASE i.op \in Arith
    <3>1. StepOf(old, m) = BinopStep(m, i)
      <4>1. StepOf(old, m) = Do(old, m, i)
        BY <1>3, <2>3 DEF StepOf
      <4>2. Do(old, m, i) = BinopStep(m, i)
        BY <2>4 DEF Do, Binops, Arith, Relops
      <4> QED BY <4>1, <4>2
    <3>2. Does(m, h) = BinopStep(m, i)
      BY <2>1, <2>2, <2>4, <3>1, SimplifiedDoes
    <3>3. h.op \in Arith \cup {"TASSIGN"} /\ Uses(h) \subseteq m.known
      BY <2>1, <2>2, <2>3, <2>4, SimplifiedIs
    <3>4. StepOf(new, m) = Do(new, m, h)
      BY <1>1, <1>3, <3>3 DEF StepOf
    <3>5. Do(new, m, h) = Does(m, h)
      BY <3>3 DEF Do, Does, Binops, Arith, Relops
    <3> QED BY <3>1, <3>2, <3>4, <3>5
  <2>5. CASE i.op \notin Arith
    <3>1. h = i
      BY <2>1, <2>2, <2>5, SimplifiedIs
    <3>2. Jumped(new, m, i.r) = Jumped(old, m, i.r)
      BY TargetsStay
    <3>3. Do(new, m, i) = Do(old, m, i)
      BY <3>2 DEF Do
    <3>4. StepOf(new, m) = Do(new, m, h)
      BY <1>1, <1>3, <2>3, <3>1 DEF StepOf
    <3>5. StepOf(old, m) = Do(old, m, i)
      BY <1>3, <2>3 DEF StepOf
    <3> QED BY <3>1, <3>3, <3>4, <3>5
  <2> QED BY <2>4, <2>5
<1> QED BY <1>2, <1>3

-----------------------------------------------------------------------------
(* Whole runs. *)

\* A state of the machine after a step is one.
LEMMA WrittenOK ==
  ASSUME NEW m \in States, NEW r \in Operands, NEW n \in Int
  PROVE  Written(m, r, n) \in States
<1>1. [m.val EXCEPT ![r] = n] \in [Vars -> Int]
  BY DEF States
<1>2. m.pc + 1 \in Nat \ {0} /\ m.known \cup {r} \in SUBSET Operands
  BY DEF States
<1> QED BY <1>1, <1>2 DEF Written, States

LEMMA StoppedOK ==
  ASSUME NEW m \in States, NEW why \in Statuses
  PROVE  Stopped(m, why) \in States
BY DEF Stopped, States

LEMMA OnwardOK ==
  ASSUME NEW m \in States
  PROVE  Onward(m) \in States
BY SMTT(60) DEF Onward, States

LEMMA JumpedOK ==
  ASSUME NEW old \in Seq(BlockInstrs), NEW m \in States, NEW l
  PROVE  Jumped(old, m, l) \in States
<1>1. CASE JumpTargets(old, l) = {}
  BY <1>1, StoppedOK DEF Jumped, Statuses
<1>2. CASE JumpTargets(old, l) # {}
  <2> DEFINE p == CHOOSE p \in JumpTargets(old, l) : TRUE
  <2>1. p \in JumpTargets(old, l)
    BY <1>2
  <2>2. p \in Nat \ {0}
    BY <2>1 DEF JumpTargets
  <2>3. Jumped(old, m, l) = [m EXCEPT !.pc = p]
    BY <1>2 DEF Jumped
  <2> HIDE DEF p
  <2> QED BY <2>2, <2>3 DEF States
<1> QED BY <1>1, <1>2

LEMMA BinopStepOK ==
  ASSUME NEW m \in States, NEW i \in BlockInstrs, i.op \in Binops
  PROVE  BinopStep(m, i) \in States
<1> DEFINE a == Operand(m, i.a1)  b == Operand(m, i.a2)  n == Result(i.op, a, b)
<1>1. a \in Int /\ b \in Int /\ i.r \in Operands
  BY OperandIsInt DEF BlockInstrs
<1>2. CASE i.op = "TDIV" /\ b = 0
  BY <1>2, StoppedOK DEF BinopStep, Statuses
<1>3. CASE ~ (i.op = "TDIV" /\ b = 0)
  <2>1. n \in Int
    <3>1. i.op = "TDIV" => Divided(a, b) \in Int
      BY <1>1, <1>3 DEF Divided, Magnitude
    <3>2. a + b \in Int /\ a - b \in Int /\ a * b \in Int
      BY <1>1
    <3> QED BY <3>1, <3>2 DEF Result
  <2>2. BinopStep(m, i) = Written(m, i.r, n) \/ BinopStep(m, i) = Stopped(m, "overflow")
    BY <1>3 DEF BinopStep
  <2> QED BY <1>1, <2>1, <2>2, WrittenOK, StoppedOK DEF Statuses
<1> QED BY <1>2, <1>3

LEMMA StepOfOK ==
  ASSUME NEW old \in Seq(BlockInstrs), NEW m \in States
  PROVE  StepOf(old, m) \in States
<1> DEFINE i == old[m.pc]
<1>1. CASE m.pc > Len(old)
  BY <1>1, StoppedOK DEF StepOf, Statuses
<1>2. CASE ~ (m.pc > Len(old)) /\ ~ (Uses(i) \subseteq m.known)
  BY <1>2, StoppedOK DEF StepOf, Statuses
<1>3. CASE ~ (m.pc > Len(old)) /\ Uses(i) \subseteq m.known
  <2>1. i \in BlockInstrs
    BY <1>3 DEF States
  <2>2. i.op \in Ops /\ i.a1 \in Operands /\ i.r \in Operands
    BY <2>1 DEF BlockInstrs
  <2>3. Operand(m, i.a1) \in Int /\ Operand(m, i.r) \in Int
    BY <2>2, OperandIsInt
  <2>4. Do(old, m, i) \in States
    <3>1. CASE i.op \in Binops
      <4>1. Do(old, m, i) = BinopStep(m, i)
        BY <3>1 DEF Do, Binops, Arith, Relops
      <4> QED BY <2>1, <3>1, <4>1, BinopStepOK
    <3>2. CASE i.op = "TASSIGN"
      <4>1. Do(old, m, i) = Written(m, i.r, Operand(m, i.a1))
        BY <3>2 DEF Do, Binops, Arith, Relops
      <4> QED BY <2>2, <2>3, <4>1, WrittenOK
    <3>3. CASE i.op = "TIN" /\ m.input = << >>
      <4>1. Do(old, m, i) = Stopped(m, "waiting")
        BY <3>3 DEF Do, Binops, Arith, Relops
      <4> QED BY <4>1, StoppedOK DEF Statuses
    <3>4. CASE i.op = "TIN" /\ m.input # << >>
      <4> DEFINE w == Written(m, i.r, Head(m.input))
      <4>1. Do(old, m, i) = [w EXCEPT !.input = Tail(@)]
        BY <3>4 DEF Do, Binops, Arith, Relops
      <4>2. Head(m.input) \in Int
        BY <3>4 DEF States
      <4>3. w \in States
        BY <2>2, <4>2, WrittenOK
      <4>4. w.input = m.input
        BY DEF Written, States
      <4>5. Tail(w.input) \in Seq(Int)
        BY <3>4, <4>4 DEF States
      <4> HIDE DEF w
      <4> QED BY <4>1, <4>3, <4>5 DEF States
    <3>5. CASE i.op = "TOUT"
      <4>1. Do(old, m, i) = [Onward(m) EXCEPT !.output = Append(@, Operand(m, i.r))]
        BY <3>5 DEF Do, Binops, Arith, Relops
      <4>2. Onward(m) \in States
        BY OnwardOK
      <4>3. Append(Onward(m).output, Operand(m, i.r)) \in Seq(Int)
        BY <2>3, <4>2 DEF States
      <4> QED BY <4>1, <4>2, <4>3 DEF States
    <3>6. CASE i.op = "TIFF"
      <4>1. Do(old, m, i) = Onward(m) \/ Do(old, m, i) = Jumped(old, m, i.r)
        BY <3>6 DEF Do, Binops, Arith, Relops
      <4> QED BY <4>1, OnwardOK, JumpedOK
    <3>7. CASE i.op = "TJMP"
      <4>1. Do(old, m, i) = Jumped(old, m, i.r)
        BY <3>7 DEF Do, Binops, Arith, Relops
      <4> QED BY <4>1, JumpedOK
    <3>8. CASE i.op = "TLABEL"
      <4>1. Do(old, m, i) = Onward(m)
        BY <3>8 DEF Do, Binops, Arith, Relops
      <4> QED BY <4>1, OnwardOK
    <3> QED BY <2>2, <3>1, <3>2, <3>3, <3>4, <3>5, <3>6, <3>7, <3>8 DEF Ops
  <2>5. StepOf(old, m) = Do(old, m, i)
    BY <1>3 DEF StepOf
  <2> QED BY <2>4, <2>5
<1> QED BY <1>1, <1>2, <1>3

-----------------------------------------------------------------------------
(* Whole runs, of MaxSteps steps at most.                                    *)

\* The states of a run of N steps at most.
Turn(c, m) == IF m.status = "running" THEN StepOf(c, m) ELSE m
IsRun(c, input, N, f) ==
    f = [n \in 0 .. N |-> IF n = 0 THEN Start(input) ELSE Turn(c, f[n - 1])]

LEMMA RunExists ==
  ASSUME NEW c, NEW input
  PROVE  \A N \in Nat : \E f : IsRun(c, input, N, f)
<1> DEFINE S == {N \in Nat : \E f : IsRun(c, input, N, f)}
<1>1. 0 \in S
  <2> DEFINE f == [n \in 0 .. 0 |-> Start(input)]
  <2>1. IsRun(c, input, 0, f)
    <3>1. \A n \in 0 .. 0 : n = 0
      OBVIOUS
    <3> QED BY <3>1 DEF IsRun
  <2> QED BY <2>1
<1>2. ASSUME NEW N \in Nat, N \in S PROVE N + 1 \in S
  <2>1. PICK f : IsRun(c, input, N, f)
    BY <1>2
  <2> DEFINE g == [n \in 0 .. N + 1 |-> IF n = N + 1 THEN Turn(c, f[N]) ELSE f[n]]
  <2>2. DOMAIN f = 0 .. N
        /\ \A n \in 0 .. N : f[n] = IF n = 0 THEN Start(input) ELSE Turn(c, f[n - 1])
    BY <2>1 DEF IsRun
  <2>3. ASSUME NEW n \in 0 .. N + 1
        PROVE  g[n] = IF n = 0 THEN Start(input) ELSE Turn(c, g[n - 1])
    <3>1. CASE n = N + 1
      <4>1. n # 0 /\ n - 1 = N /\ N \in 0 .. N + 1 /\ N # N + 1
        BY <3>1
      <4>2. g[N] = f[N]
        BY <4>1
      <4>3. g[n] = Turn(c, f[N])
        BY <3>1
      <4> HIDE DEF g
      <4> QED BY <4>1, <4>2, <4>3
    <3>2. CASE n = 0
      <4>1. g[n] = f[0] /\ 0 \in 0 .. N
        BY <3>2
      <4> HIDE DEF g
      <4> QED BY <2>2, <3>2, <4>1
    <3>3. CASE n # N + 1 /\ n # 0
      <4>1. n \in 0 .. N /\ n - 1 \in 0 .. N /\ n - 1 \in 0 .. N + 1 /\ n - 1 # N + 1
        BY <3>3
      <4>2. g[n] = f[n] /\ g[n - 1] = f[n - 1]
        BY <3>3, <4>1
      <4> HIDE DEF g
      <4> QED BY <2>2, <3>3, <4>1, <4>2
    <3> QED BY <3>1, <3>2, <3>3
  <2>4. IsRun(c, input, N + 1, g)
    <3>1. g = [n \in 0 .. N + 1 |-> g[n]]
      OBVIOUS
    <3> HIDE DEF g
    <3> QED BY <2>3, <3>1 DEF IsRun
  <2> QED BY <2>4
<1>3. Nat \subseteq S
  <2> HIDE DEF S
  <2> QED BY <1>1, <1>2, NatSetInduction
<1> QED BY <1>3

\* RunOf is the last state of its run.
LEMMA RunIs ==
  ASSUME NEW c, NEW input
  PROVE  \E f : IsRun(c, input, MaxSteps, f) /\ RunOf(c, input) = f[MaxSteps]
<1> DEFINE f == CHOOSE f : IsRun(c, input, MaxSteps, f)
<1>1. IsRun(c, input, MaxSteps, f)
  BY RunExists, StepsAssumption
<1>2. RunOf(c, input) = f[MaxSteps]
  BY Zenon DEF RunOf, IsRun, Turn
<1> QED BY <1>1, <1>2

\* What a run's states are.
LEMMA RunStates ==
  ASSUME NEW c, NEW input, NEW f, IsRun(c, input, MaxSteps, f)
  PROVE  /\ f[0] = Start(input)
         /\ \A n \in 0 .. MaxSteps - 1 : f[n + 1] = Turn(c, f[n])
<1>1. \A n \in 0 .. MaxSteps : f[n] = IF n = 0 THEN Start(input) ELSE Turn(c, f[n - 1])
  BY DEF IsRun
<1>2. 0 \in 0 .. MaxSteps
  BY StepsAssumption
<1>3. ASSUME NEW n \in 0 .. MaxSteps - 1 PROVE f[n + 1] = Turn(c, f[n])
  <2>1. n + 1 \in 0 .. MaxSteps /\ n + 1 # 0 /\ (n + 1) - 1 = n
    BY StepsAssumption
  <2> QED BY <1>1, <2>1
<1> QED BY <1>1, <1>2, <1>3
-----------------------------------------------------------------------------
(* Blocks in a row: what holds of each of them, and of two lists in a row if   *)
(* of each, holds of the whole code.                                         *)

IsFlat(ss, N, f) == f = [i \in 1 .. N |-> IF i = 1 THEN ss[i] ELSE f[i - 1] \o ss[i]]

LEMMA FlatExists ==
  ASSUME NEW ss
  PROVE  \A N \in Nat : \E f : IsFlat(ss, N, f)
<1> DEFINE S == {N \in Nat : \E f : IsFlat(ss, N, f)}
<1>1. 0 \in S
  <2> DEFINE f == [n \in 1 .. 0 |-> 0]
  <2>1. IsFlat(ss, 0, f)
    BY DEF IsFlat
  <2> QED BY <2>1
<1>2. ASSUME NEW N \in Nat, N \in S PROVE N + 1 \in S
  <2>1. PICK f : IsFlat(ss, N, f)
    BY <1>2
  <2> DEFINE g == [n \in 1 .. N + 1 |->
                     IF n # N + 1 THEN f[n] ELSE IF n = 1 THEN ss[1] ELSE f[N] \o ss[N + 1]]
  <2>2. \A n \in 1 .. N : f[n] = IF n = 1 THEN ss[n] ELSE f[n - 1] \o ss[n]
    BY <2>1 DEF IsFlat
  <2>3. ASSUME NEW n \in 1 .. N + 1
        PROVE  g[n] = IF n = 1 THEN ss[n] ELSE g[n - 1] \o ss[n]
    <3>1. CASE n = 1
      <4>1. g[n] = IF n # N + 1 THEN f[1] ELSE ss[1]
        BY <3>1
      <4>2. n # N + 1 => 1 \in 1 .. N
        BY <3>1
      <4> HIDE DEF g
      <4> QED BY <2>2, <3>1, <4>1, <4>2
    <3>2. CASE n # 1 /\ n = N + 1
      <4>1. n - 1 = N /\ N \in 1 .. N + 1 /\ N # N + 1
        BY <3>2
      <4>2. g[n] = f[N] \o ss[N + 1] /\ g[N] = f[N]
        BY <3>2, <4>1
      <4> HIDE DEF g
      <4> QED BY <3>2, <4>1, <4>2
    <3>3. CASE n # 1 /\ n # N + 1
      <4>1. n \in 1 .. N /\ n - 1 \in 1 .. N /\ n - 1 \in 1 .. N + 1 /\ n - 1 # N + 1
        BY <3>3
      <4>2. g[n] = f[n] /\ g[n - 1] = f[n - 1]
        BY <3>3, <4>1
      <4> HIDE DEF g
      <4> QED BY <2>2, <3>3, <4>1, <4>2
    <3> QED BY <3>1, <3>2, <3>3
  <2>4. IsFlat(ss, N + 1, g)
    <3>1. g = [n \in 1 .. N + 1 |-> g[n]]
      OBVIOUS
    <3> HIDE DEF g
    <3> QED BY <2>3, <3>1 DEF IsFlat
  <2> QED BY <2>4
<1>3. Nat \subseteq S
  <2> HIDE DEF S
  <2> QED BY <1>1, <1>2, NatSetInduction
<1> QED BY <1>3

\* What two codes made of N blocks have to do with each other, if R is a relation that
\* the blocks are in and that lists in a row are in if both are.
Appends(R) ==
    /\ << << >>, << >> >> \in R
    /\ \A p, q \in R : <<p[1] \o q[1], p[2] \o q[2]>> \in R

LEMMA FlatRelates ==
  ASSUME NEW R, Appends(R), NEW N \in Nat, NEW ss, NEW tt,
         ss = [i \in 1 .. N |-> ss[i]], tt = [i \in 1 .. N |-> tt[i]],
         \A i \in 1 .. N : <<ss[i], tt[i]>> \in R
  PROVE  <<Prop!FlattenSeq(ss), Prop!FlattenSeq(tt)>> \in R
<1>1. Len(ss) = N /\ Len(tt) = N
  BY IsASeq
<1>2. CASE N = 0
  <2>1. ss = << >> /\ tt = << >>
    BY <1>1, <1>2, EmptySeq
  <2>2. Prop!FlattenSeq(ss) = ss /\ Prop!FlattenSeq(tt) = tt
    BY <1>1, <1>2 DEF Prop!FlattenSeq
  <2> QED BY <2>1, <2>2 DEF Appends
<1>3. CASE N # 0
  <2> DEFINE f == CHOOSE f : IsFlat(ss, N, f)
             g == CHOOSE g : IsFlat(tt, N, g)
  <2>1. IsFlat(ss, N, f) /\ IsFlat(tt, N, g)
    BY FlatExists
  <2>2. Prop!FlattenSeq(ss) = f[N]
    BY <1>1, <1>3, Zenon DEF Prop!FlattenSeq, IsFlat
  <2>3. Prop!FlattenSeq(tt) = g[N]
    BY <1>1, <1>3, Zenon DEF Prop!FlattenSeq, IsFlat
  <2> HIDE DEF f, g
  <2>4. \A n \in 1 .. N : /\ f[n] = IF n = 1 THEN ss[n] ELSE f[n - 1] \o ss[n]
                          /\ g[n] = IF n = 1 THEN tt[n] ELSE g[n - 1] \o tt[n]
    BY <2>1 DEF IsFlat
  <2> DEFINE S == {n \in Nat : n + 1 \in 1 .. N => <<f[n + 1], g[n + 1]>> \in R}
  <2>5. 0 \in S
    BY <1>3, <2>4
  <2>6. ASSUME NEW n \in Nat, n \in S PROVE n + 1 \in S
    <3>1. SUFFICES ASSUME (n + 1) + 1 \in 1 .. N
                   PROVE  <<f[(n + 1) + 1], g[(n + 1) + 1]>> \in R
      OBVIOUS
    <3>2. n + 1 \in 1 .. N /\ (n + 1) + 1 # 1 /\ ((n + 1) + 1) - 1 = n + 1
      BY <3>1
    <3>3. <<f[n + 1], g[n + 1]>> \in R /\ <<ss[(n + 1) + 1], tt[(n + 1) + 1]>> \in R
      BY <2>6, <3>1, <3>2
    <3>4. <<f[n + 1] \o ss[(n + 1) + 1], g[n + 1] \o tt[(n + 1) + 1]>> \in R
      <4>1. \A a, b, c, d : <<a, b>> \in R /\ <<c, d>> \in R => <<a \o c, b \o d>> \in R
        BY DEF Appends
      <4> QED BY <3>3, <4>1
    <3>5. f[(n + 1) + 1] = f[n + 1] \o ss[(n + 1) + 1] /\ g[(n + 1) + 1] = g[n + 1] \o tt[(n + 1) + 1]
      BY <2>4, <3>1, <3>2
    <3> QED BY <3>4, <3>5
  <2>7. N - 1 \in S
    <3>1. Nat \subseteq S
      <4> HIDE DEF S
      <4> QED BY <2>5, <2>6, NatSetInduction
    <3> QED BY <1>3, <3>1
  <2>8. (N - 1) + 1 = N /\ N \in 1 .. N
    BY <1>3
  <2> QED BY <2>2, <2>3, <2>7, <2>8
<1> QED BY <1>2, <1>3

\* InOrder goes through a set of numbers from the least to the greatest.
LEMMA InOrderIs ==
  ASSUME NEW S \in SUBSET Nat, IsFiniteSet(S), NEW o, o = Prop!InOrder(S)
  PROVE  /\ Cardinality(S) \in Nat
         /\ DOMAIN o = 1 .. Cardinality(S) /\ o = [n \in 1 .. Cardinality(S) |-> o[n]]
         /\ \A n \in DOMAIN o : o[n] \in S /\ Cardinality({a \in S : a < o[n]}) = n - 1
<1>1. Cardinality(S) \in Nat
  BY FS_CardinalityType
<1>0. o = [n \in 1 .. Cardinality(S) |-> CHOOSE b \in S : Cardinality({a \in S : a < b}) = n - 1]
  BY Zenon DEF Prop!InOrder, Prop!Cardinality, Cardinality
<1>2. DOMAIN o = 1 .. Cardinality(S) /\ o = [n \in 1 .. Cardinality(S) |-> o[n]]
  BY <1>0
<1>3. ASSUME NEW n \in 1 .. Cardinality(S)
      PROVE  o[n] \in S /\ Cardinality({a \in S : a < o[n]}) = n - 1
  <2>1. o[n] = CHOOSE b \in S : Cardinality({a \in S : a < b}) = n - 1
    BY <1>0, <1>3
  <2>2. \E b \in S : Cardinality({a \in S : a < b}) = n - 1
    BY <1>3, NthExists
  <2> QED BY <2>1, <2>2
<1> QED BY <1>1, <1>2, <1>3

\* The same of the code of a set of blocks.
LEMMA CodeRelates ==
  ASSUME NEW R, Appends(R), NEW B \in SUBSET Nat, IsFiniteSet(B), NEW s, NEW t,
         \A b \in B : <<s[b], t[b]>> \in R
  PROVE  <<Prop!FlatOf(B, s), Prop!FlatOf(B, t)>> \in R
<1> DEFINE o == Prop!InOrder(B)  N == Cardinality(B)
           ss == [n \in DOMAIN o |-> s[o[n]]]  tt == [n \in DOMAIN o |-> t[o[n]]]
<1>1. N \in Nat /\ DOMAIN o = 1 .. N /\ \A n \in 1 .. N : o[n] \in B
  BY InOrderIs
<1> HIDE DEF o, N
<1>2. /\ ss = [n \in 1 .. N |-> ss[n]] /\ tt = [n \in 1 .. N |-> tt[n]]
      /\ \A n \in 1 .. N : <<ss[n], tt[n]>> \in R
  BY <1>1
<1>3. <<Prop!FlattenSeq(ss), Prop!FlattenSeq(tt)>> \in R
  <2> HIDE DEF ss, tt
  <2> QED BY <1>1, <1>2, FlatRelates
<1> QED BY <1>3 DEF Prop!FlatOf, o

-----------------------------------------------------------------------------
(* opt_algebra in the optimizer. *)

\* Every state of a run is one of the machine's.
LEMMA RunInStates ==
  ASSUME NEW c \in Seq(BlockInstrs), NEW input \in Seq(Int),
         NEW f, IsRun(c, input, MaxSteps, f)
  PROVE  \A n \in 0 .. MaxSteps : f[n] \in States
<1> DEFINE S == {n \in Nat : n <= MaxSteps => f[n] \in States}
<1>1. 0 \in S
  <2>1. Start(input) \in States
    BY EmptySeq DEF Start, States, Statuses
  <2> QED BY <2>1, RunStates
<1>2. ASSUME NEW n \in Nat, n \in S PROVE n + 1 \in S
  <2>1. SUFFICES ASSUME n + 1 <= MaxSteps PROVE f[n + 1] \in States
    OBVIOUS
  <2>2. n \in 0 .. MaxSteps - 1 /\ n <= MaxSteps
    BY <2>1, StepsAssumption
  <2>3. f[n] \in States /\ f[n + 1] = Turn(c, f[n])
    BY <1>2, <2>2, RunStates
  <2> QED BY <2>3, StepOfOK DEF Turn
<1>3. Nat \subseteq S
  <2> HIDE DEF S
  <2> QED BY <1>1, <1>2, NatSetInduction
<1> QED BY <1>3, StepsAssumption

\* What a stopped or meaningful state of a run says of the one before it.
LEMMA MeaningfulBefore ==
  ASSUME NEW c, NEW m, Meaningful(Turn(c, m))
  PROVE  Meaningful(m)
BY DEF Turn, Meaningful

\* As long as the code before opt_algebra has a meaning the code behind it does the same.
LEMMA AlgebraKeepsRuns ==
  ASSUME Vars \cap Int = {}, NEW old \in Seq(BlockInstrs),
         \A j \in DOMAIN old : ~ Reciprocal(old[j]),
         NEW input \in Seq(Int), NEW f, NEW g,
         IsRun(old, input, MaxSteps, f), IsRun(Rewritten(old), input, MaxSteps, g)
  PROVE  \A n \in 0 .. MaxSteps : Meaningful(f[n]) => g[n] = f[n]
<1> DEFINE S == {n \in Nat : n <= MaxSteps => (Meaningful(f[n]) => g[n] = f[n])}
<1>1. 0 \in S
  BY RunStates
<1>2. ASSUME NEW n \in Nat, n \in S PROVE n + 1 \in S
  <2>1. SUFFICES ASSUME n + 1 <= MaxSteps, Meaningful(f[n + 1]) PROVE g[n + 1] = f[n + 1]
    OBVIOUS
  <2>2. n \in 0 .. MaxSteps - 1 /\ n <= MaxSteps /\ n \in 0 .. MaxSteps
    BY <2>1, StepsAssumption
  <2>3. f[n + 1] = Turn(old, f[n]) /\ g[n + 1] = Turn(Rewritten(old), g[n])
    BY <2>2, RunStates
  <2>4. g[n] = f[n]
    BY <1>2, <2>1, <2>2, <2>3, MeaningfulBefore
  <2>5. CASE f[n].status = "running"
    <3>1. f[n] \in States
      BY <2>2, RunInStates
    <3>2. f[n + 1] = StepOf(old, f[n]) /\ g[n + 1] = StepOf(Rewritten(old), f[n])
      BY <2>3, <2>4, <2>5 DEF Turn
    <3>3. StepOf(old, f[n]).status \notin {"undefined", "overflow"}
      BY <2>1, <3>2 DEF Meaningful
    <3> QED BY <3>1, <3>2, <3>3, AlgebraKeepsSteps
  <2>6. CASE f[n].status # "running"
    BY <2>3, <2>4, <2>6 DEF Turn
  <2> QED BY <2>5, <2>6
<1>3. Nat \subseteq S
  <2> HIDE DEF S
  <2> QED BY <1>1, <1>2, NatSetInduction
<1> QED BY <1>3, StepsAssumption

\* Whatever code opt_algebra is given, if it divides 1 by nothing but 0 and 1: on
\* every input, and however long it is let run, the code it leaves stops as the code
\* before it does and prints the same (optimize.c:27-136).
THEOREM AlgebraKeepsOutput ==
  ASSUME Vars \cap Int = {}, NEW old \in Seq(BlockInstrs),
         \A j \in DOMAIN old : ~ Reciprocal(old[j]),
         NEW input \in Seq(Int)
  PROVE  KeepsOutput(old, Rewritten(old), input)
<1>1. PICK f : IsRun(old, input, MaxSteps, f) /\ RunOf(old, input) = f[MaxSteps]
  BY RunIs
<1>2. PICK g : IsRun(Rewritten(old), input, MaxSteps, g)
               /\ RunOf(Rewritten(old), input) = g[MaxSteps]
  BY RunIs
<1>3. MaxSteps \in 0 .. MaxSteps
  BY StepsAssumption
<1>4. Meaningful(f[MaxSteps]) => g[MaxSteps] = f[MaxSteps]
  BY <1>1, <1>2, <1>3, AlgebraKeepsRuns
<1>5. IsPrefix(f[MaxSteps].output, f[MaxSteps].output)
  BY DEF IsPrefix
<1> QED BY <1>1, <1>2, <1>4, <1>5 DEF KeepsOutput

\* opt_bb_pass rewrites the code as a whole, block by block.
LEMMA CodeRewritten ==
  ASSUME NEW g, "ins" \in DOMAIN g, "blocks" \in DOMAIN g,
         g.blocks \in SUBSET Nat, IsFiniteSet(g.blocks),
         \A b \in g.blocks : g.ins[b] \in Seq(BlockInstrs)
  PROVE  Code(g) \in Seq(BlockInstrs) /\ Code(Algebra!OptAlgebra(g)) = Rewritten(Code(g))
<1> DEFINE R == {<<s, Rewritten(s)>> : s \in Seq(BlockInstrs)}
           h == Algebra!OptAlgebra(g)
<1>1. Appends(R)
  <2>1. << << >>, << >> >> \in R
    <3>1. Rewritten(<< >>) = << >>
      BY EmptySeq DEF Rewritten
    <3>2. << >> \in Seq(BlockInstrs)
      BY EmptySeq
    <3> QED BY <3>1, <3>2
  <2>2. ASSUME NEW s \in Seq(BlockInstrs), NEW t \in Seq(BlockInstrs)
        PROVE  s \o t \in Seq(BlockInstrs) /\ Rewritten(s \o t) = Rewritten(s) \o Rewritten(t)
    <3>1. /\ s \o t \in Seq(BlockInstrs) /\ Len(s \o t) = Len(s) + Len(t)
          /\ \A j \in 1 .. Len(s) + Len(t) :
               (s \o t)[j] = IF j <= Len(s) THEN s[j] ELSE t[j - Len(s)]
      OBVIOUS
    <3>2. \A u \in Seq(BlockInstrs) :
            /\ Len(Rewritten(u)) = Len(u)
            /\ Rewritten(u) \in Seq({Algebra!Simplified(u[j]) : j \in 1 .. Len(u)})
      BY SMTT(30) DEF Rewritten
    <3>3. Rewritten(s) \o Rewritten(t)
            = [j \in 1 .. Len(s) + Len(t) |->
                 IF j <= Len(s) THEN Rewritten(s)[j] ELSE Rewritten(t)[j - Len(s)]]
      <4> DEFINE x == Rewritten(s)  y == Rewritten(t)
      <4>1. PICK X, Y : x \in Seq(X) /\ y \in Seq(Y)
        BY <3>2
      <4>2. Len(x) = Len(s) /\ Len(y) = Len(t)
        BY <3>2
      <4> HIDE DEF x, y
      <4>3. x \o y = [j \in 1 .. Len(x) + Len(y) |-> IF j <= Len(x) THEN x[j] ELSE y[j - Len(x)]]
        <5>1. x \in Seq(X \cup Y) /\ y \in Seq(X \cup Y)
          BY <4>1
        <5>2. /\ x \o y \in Seq(X \cup Y) /\ Len(x \o y) = Len(x) + Len(y)
              /\ \A j \in 1 .. Len(x) + Len(y) :
                   (x \o y)[j] = IF j <= Len(x) THEN x[j] ELSE y[j - Len(x)]
          BY <5>1, ConcatProperties
        <5>3. x \o y = [j \in 1 .. Len(x \o y) |-> (x \o y)[j]]
          <6>1. \A Z : \A z \in Seq(Z) : z = [j \in 1 .. Len(z) |-> z[j]]
            OBVIOUS
          <6> QED BY <5>2, <6>1
        <5> QED BY <5>2, <5>3, Zenon
      <4>4. x \o y = [j \in 1 .. Len(s) + Len(t) |-> IF j <= Len(s) THEN x[j] ELSE y[j - Len(s)]]
        BY <4>2, <4>3
      <4> QED BY <4>4 DEF x, y
    <3>4. Rewritten(s \o t) = [j \in 1 .. Len(s) + Len(t) |-> Algebra!Simplified((s \o t)[j])]
      BY <3>1 DEF Rewritten
    <3>5. ASSUME NEW j \in 1 .. Len(s) + Len(t)
          PROVE  Algebra!Simplified((s \o t)[j])
                   = IF j <= Len(s) THEN Rewritten(s)[j] ELSE Rewritten(t)[j - Len(s)]
      <4>1. j <= Len(s) => j \in 1 .. Len(s)
        OBVIOUS
      <4>2. ~ (j <= Len(s)) => j - Len(s) \in 1 .. Len(t)
        OBVIOUS
      <4> QED BY <3>1, <4>1, <4>2 DEF Rewritten
    <3> QED BY <3>1, <3>3, <3>4, <3>5
  <2>3. ASSUME NEW p \in R, NEW q \in R PROVE <<p[1] \o q[1], p[2] \o q[2]>> \in R
    <3>1. PICK s \in Seq(BlockInstrs) : p = <<s, Rewritten(s)>>
      OBVIOUS
    <3>2. PICK t \in Seq(BlockInstrs) : q = <<t, Rewritten(t)>>
      OBVIOUS
    <3>3. p[1] = s /\ p[2] = Rewritten(s) /\ q[1] = t /\ q[2] = Rewritten(t)
      BY <3>1, <3>2
    <3>4. s \o t \in Seq(BlockInstrs) /\ Rewritten(s) \o Rewritten(t) = Rewritten(s \o t)
      BY <2>2
    <3> QED BY <3>3, <3>4
  <2> HIDE DEF R
  <2> QED BY <2>1, <2>3 DEF Appends
<1>2. ASSUME NEW b \in g.blocks PROVE h.ins[b] = Rewritten(g.ins[b])
  <2>1. DOMAIN g.ins[b] = 1 .. Len(g.ins[b])
    OBVIOUS
  <2>2. h.ins = [a \in g.blocks |-> [j \in DOMAIN g.ins[a] |-> Algebra!Simplified(g.ins[a][j])]]
    BY DEF Algebra!OptAlgebra
  <2> QED BY <2>1, <2>2 DEF Rewritten
<1>3. \A b \in g.blocks : <<g.ins[b], h.ins[b]>> \in R
  BY <1>2
<1>4. h.blocks = g.blocks
  BY DEF Algebra!OptAlgebra
<1> HIDE DEF R, h
<1>5. <<Prop!FlatOf(g.blocks, g.ins), Prop!FlatOf(g.blocks, h.ins)>> \in R
  BY <1>1, <1>3, CodeRelates
<1>6. <<Code(g), Code(h)>> \in R
  BY <1>4, <1>5 DEF Code, Prop!Flat
<1> QED BY <1>6 DEF R, h

\* The pass in the optimizer: its output is as good as before, if no 1 / x is in it.
LEMMA AlgebraKeepsGraph ==
  ASSUME graph.blocks \in SUBSET Nat, IsFiniteSet(graph.blocks),
         \A b \in graph.blocks : graph.ins[b] \in Seq(BlockInstrs),
         "ins" \in DOMAIN graph, "blocks" \in DOMAIN graph, "failed" \in DOMAIN graph,
         graph.failed = "no", graph' = Algebra!OptAlgebra(graph), NoReciprocal
  PROVE  Keeps(graph, graph')
<1>1. graph'.failed = "no"
  BY DEF Algebra!OptAlgebra
<1>2. Code(graph) \in Seq(BlockInstrs) /\ Code(graph') = Rewritten(Code(graph))
  BY CodeRewritten
<1>3. \A j \in DOMAIN Code(graph) : ~ Reciprocal(Code(graph)[j])
  BY DEF NoReciprocal, Reciprocal, ToSet
<1>4. ASSUME NEW input \in Inputs PROVE KeepsOutput(Code(graph), Code(graph'), input)
  BY <1>2, <1>3, <1>4, AlgebraKeepsOutput, SymbolsAssumption, InputsAssumption
<1> QED BY <1>1, <1>4 DEF Keeps

-----------------------------------------------------------------------------
(* opt_unused_vars: what it leaves of a code.                                *)

\* e says where the instructions of t stand in s; the others are assignments to
\* variables that are not in needed.
Leaves(needed, s, t, e) ==
    /\ e \in [1 .. Len(t) -> 1 .. Len(s)]
    /\ \A j, h \in 1 .. Len(t) : j < h => e[j] < e[h]
    /\ \A j \in 1 .. Len(t) : t[j] = s[e[j]]
    /\ \A p \in 1 .. Len(s) :
         (\A j \in 1 .. Len(t) : e[j] # p) => s[p].op = "TASSIGN" /\ s[p].r \notin needed
LeavesOut(needed, s, t) == \E e : Leaves(needed, s, t, e)

\* Codes in a row.
LEMMA LeavesAppend ==
  ASSUME NEW needed, NEW s \in Seq(BlockInstrs), NEW t \in Seq(BlockInstrs),
         NEW u \in Seq(BlockInstrs), NEW v \in Seq(BlockInstrs),
         LeavesOut(needed, s, t), LeavesOut(needed, u, v)
  PROVE  LeavesOut(needed, s \o u, t \o v)
<1>1. PICK e : Leaves(needed, s, t, e)
  BY DEF LeavesOut
<1>2. PICK f : Leaves(needed, u, v, f)
  BY DEF LeavesOut
<1> DEFINE m == Len(s)  n == Len(t)  k == Len(u)  l == Len(v)
           g == [j \in 1 .. n + l |-> IF j <= n THEN e[j] ELSE f[j - n] + m]
<1>3. m \in Nat /\ n \in Nat /\ k \in Nat /\ l \in Nat
  OBVIOUS
<1>4. /\ Len(s \o u) = m + k /\ Len(t \o v) = n + l
      /\ \A j \in 1 .. m + k : (s \o u)[j] = IF j <= m THEN s[j] ELSE u[j - m]
      /\ \A j \in 1 .. n + l : (t \o v)[j] = IF j <= n THEN t[j] ELSE v[j - n]
  BY ConcatProperties
<1>5. /\ e \in [1 .. n -> 1 .. m]
      /\ \A j, h \in 1 .. n : j < h => e[j] < e[h]
      /\ \A j \in 1 .. n : t[j] = s[e[j]]
      /\ \A p \in 1 .. m : (\A j \in 1 .. n : e[j] # p) => s[p].op = "TASSIGN" /\ s[p].r \notin needed
  BY <1>1 DEF Leaves
<1>6. /\ f \in [1 .. l -> 1 .. k]
      /\ \A j, h \in 1 .. l : j < h => f[j] < f[h]
      /\ \A j \in 1 .. l : v[j] = u[f[j]]
      /\ \A p \in 1 .. k : (\A j \in 1 .. l : f[j] # p) => u[p].op = "TASSIGN" /\ u[p].r \notin needed
  BY <1>2 DEF Leaves
<1> HIDE DEF m, n, k, l
<1>7. ASSUME NEW j \in 1 .. n + l
      PROVE  \/ j \in 1 .. n /\ g[j] = e[j] /\ e[j] \in 1 .. m
             \/ j \notin 1 .. n /\ j - n \in 1 .. l /\ g[j] = f[j - n] + m /\ f[j - n] \in 1 .. k
  <2>1. CASE j <= n
    BY <1>3, <1>5, <2>1
  <2>2. CASE ~ (j <= n)
    <3>1. j - n \in 1 .. l /\ j \notin 1 .. n
      BY <1>3, <2>2
    <3> QED BY <1>6, <2>2, <3>1
  <2> QED BY <2>1, <2>2
<1>8. g \in [1 .. n + l -> 1 .. m + k]
  <2>1. ASSUME NEW j \in 1 .. n + l PROVE g[j] \in 1 .. m + k
    <3> HIDE DEF g
    <3>1. CASE g[j] = e[j] /\ e[j] \in 1 .. m
      BY <1>3, <3>1
    <3>2. CASE g[j] = f[j - n] + m /\ f[j - n] \in 1 .. k
      <4>1. \A x \in 1 .. k : x + m \in 1 .. m + k
        BY <1>3
      <4> QED BY <3>2, <4>1
    <3> QED BY <1>7, <3>1, <3>2
  <2>2. g = [j \in 1 .. n + l |-> g[j]]
    OBVIOUS
  <2> HIDE DEF g
  <2> QED BY <2>1, <2>2
<1>9. ASSUME NEW j \in 1 .. n + l, NEW h \in 1 .. n + l, j < h PROVE g[j] < g[h]
  <2> HIDE DEF g
  <2>1. CASE h \in 1 .. n
    <3>1. j \in 1 .. n
      BY <1>3, <1>9, <2>1
    <3> QED BY <1>5, <1>7, <1>9, <2>1, <3>1
  <2>2. CASE h \notin 1 .. n /\ j \in 1 .. n
    <3>1. g[j] = e[j] /\ e[j] \in 1 .. m /\ g[h] = f[h - n] + m /\ f[h - n] \in 1 .. k
      BY <1>7, <2>2
    <3> QED BY <1>3, <3>1, SMTT(30)
  <2>3. CASE h \notin 1 .. n /\ j \notin 1 .. n
    <3>1. /\ g[j] = f[j - n] + m /\ f[j - n] \in 1 .. k /\ j - n \in 1 .. l
          /\ g[h] = f[h - n] + m /\ f[h - n] \in 1 .. k /\ h - n \in 1 .. l
      BY <1>7, <2>3
    <3>2. j - n < h - n
      BY <1>3, <1>9
    <3>3. f[j - n] < f[h - n]
      BY <1>6, <3>1, <3>2
    <3> QED BY <1>3, <3>1, <3>3, SMTT(30)
  <2> QED BY <2>1, <2>2, <2>3
<1>10. ASSUME NEW j \in 1 .. n + l PROVE (t \o v)[j] = (s \o u)[g[j]]
  <2> HIDE DEF g
  <2>1. g[j] \in 1 .. m + k
    BY <1>8
  <2>2. CASE j \in 1 .. n
    <3>1. g[j] = e[j] /\ e[j] <= m /\ j <= n
      BY <1>3, <1>7, <2>2
    <3>2. (t \o v)[j] = t[j] /\ (s \o u)[g[j]] = s[e[j]]
      BY <1>4, <2>1, <3>1
    <3> QED BY <1>5, <2>2, <3>2
  <2>3. CASE j \notin 1 .. n
    <3>1. /\ g[j] = f[j - n] + m /\ f[j - n] \in 1 .. k /\ j - n \in 1 .. l /\ ~ (j <= n)
          /\ ~ (g[j] <= m) /\ g[j] - m = f[j - n]
      BY <1>3, <1>7, <2>3, SMTT(30)
    <3>2. (t \o v)[j] = v[j - n] /\ (s \o u)[g[j]] = u[f[j - n]]
      BY <1>4, <2>1, <3>1
    <3> QED BY <1>6, <3>1, <3>2
  <2> QED BY <2>2, <2>3
<1>11. ASSUME NEW p \in 1 .. m + k, \A j \in 1 .. n + l : g[j] # p
       PROVE  (s \o u)[p].op = "TASSIGN" /\ (s \o u)[p].r \notin needed
  <2> HIDE DEF g
  <2>1. CASE p <= m
    <3>1. p \in 1 .. m /\ (s \o u)[p] = s[p]
      BY <1>3, <1>4, <2>1
    <3>2. ASSUME NEW j \in 1 .. n PROVE e[j] # p
      <4>1. j \in 1 .. n + l
        BY <1>3
      <4> QED BY <1>7, <1>11, <4>1
    <3> QED BY <1>5, <3>1, <3>2
  <2>2. CASE ~ (p <= m)
    <3>0. p - m \in 1 .. k
      BY <1>3, <2>2
    <3>1. p - m \in 1 .. k /\ (s \o u)[p] = u[p - m]
      BY <1>4, <2>2, <3>0
    <3>2. ASSUME NEW j \in 1 .. l PROVE f[j] # p - m
      <4>1. j + n \in 1 .. n + l /\ j + n \notin 1 .. n /\ (j + n) - n = j
        BY <1>3
      <4>2. g[j + n] = f[j] + m /\ f[j] \in 1 .. k
        BY <1>7, <4>1
      <4>3. g[j + n] # p
        BY <1>11, <4>1
      <4> QED BY <1>3, <4>2, <4>3
    <3> QED BY <1>6, <3>1, <3>2
  <2> QED BY <2>1, <2>2
<1>12. Leaves(needed, s \o u, t \o v, g)
  <2> HIDE DEF g
  <2> QED BY <1>4, <1>8, <1>9, <1>10, <1>11 DEF Leaves
<1> QED BY <1>12 DEF LeavesOut

\* What is left of one block.
KeptOf(needed, s) == {j \in DOMAIN s : s[j].op = "TASSIGN" => s[j].r \in needed}
LeftOf(needed, s) ==
    [n \in DOMAIN Prop!InOrder(KeptOf(needed, s)) |-> s[Prop!InOrder(KeptOf(needed, s))[n]]]

LEMMA BlockLeaves ==
  ASSUME NEW needed, NEW s \in Seq(BlockInstrs)
  PROVE  /\ LeftOf(needed, s) \in Seq(BlockInstrs)
         /\ LeavesOut(needed, s, LeftOf(needed, s))
<1> DEFINE K == KeptOf(needed, s)  o == Prop!InOrder(K)  t == LeftOf(needed, s)
           N == Cardinality(K)
<1>1. K \in SUBSET Nat /\ K \subseteq 1 .. Len(s) /\ DOMAIN s = 1 .. Len(s) /\ Len(s) \in Nat
  BY DEF KeptOf
<1>2. IsFiniteSet(K)
  <2> HIDE DEF K
  <2>1. IsFiniteSet(1 .. Len(s))
    BY <1>1, FS_Interval
  <2> QED BY <1>1, <2>1, FS_Subset
<1>3. /\ N \in Nat /\ DOMAIN o = 1 .. N /\ o = [n \in 1 .. N |-> o[n]]
      /\ \A n \in 1 .. N : o[n] \in K /\ Cardinality({a \in K : a < o[n]}) = n - 1
  <2>1. o = Prop!InOrder(K) /\ N = Cardinality(K)
    OBVIOUS
  <2> HIDE DEF K, o, N
  <2>2. /\ Cardinality(K) \in Nat
        /\ DOMAIN o = 1 .. Cardinality(K) /\ o = [n \in 1 .. Cardinality(K) |-> o[n]]
        /\ \A n \in DOMAIN o : o[n] \in K /\ Cardinality({a \in K : a < o[n]}) = n - 1
    <3>1. \A S \in SUBSET Nat : IsFiniteSet(S) =>
            LET q == Prop!InOrder(S)
            IN  /\ Cardinality(S) \in Nat
                /\ DOMAIN q = 1 .. Cardinality(S) /\ q = [n \in 1 .. Cardinality(S) |-> q[n]]
                /\ \A n \in DOMAIN q : q[n] \in S /\ Cardinality({a \in S : a < q[n]}) = n - 1
      BY InOrderIs, Zenon
    <3> QED BY <1>1, <1>2, <2>1, <3>1, Zenon
  <2> QED BY <2>1, <2>2
<1>4. t = [n \in 1 .. N |-> s[o[n]]]
  BY <1>3 DEF LeftOf
<1>5. \A n \in 1 .. N : o[n] \in 1 .. Len(s) /\ s[o[n]] \in BlockInstrs
  <2> HIDE DEF K, o, N
  <2>1. \A j \in 1 .. Len(s) : s[j] \in BlockInstrs
    OBVIOUS
  <2> QED BY <1>1, <1>3, <2>1
<1>6. t \in Seq(BlockInstrs) /\ Len(t) = N /\ \A n \in 1 .. N : t[n] = s[o[n]]
  <2> HIDE DEF K, o, N, t
  <2> QED BY <1>3, <1>4, <1>5, SMTT(30)
<1>7. ASSUME NEW j \in 1 .. N, NEW h \in 1 .. N, j < h PROVE o[j] < o[h]
  <2> HIDE DEF K, o, N
  <2>1. o[j] \in K /\ o[h] \in K /\ o[j] \in Nat /\ o[h] \in Nat
    BY <1>1, <1>3
  <2>2. Cardinality({a \in K : a < o[j]}) = j - 1 /\ Cardinality({a \in K : a < o[h]}) = h - 1
    BY <1>3
  <2>3. o[j] # o[h]
    BY <1>3, <1>7, <2>2
  <2>4. ~ (o[h] < o[j])
    <3>1. ASSUME o[h] < o[j] PROVE FALSE
      <4>1. Cardinality({a \in K : a < o[h]}) < Cardinality({a \in K : a < o[j]})
        BY <1>1, <1>2, <2>1, <3>1, MoreBelow
      <4> QED BY <1>3, <1>7, <2>2, <4>1
    <3> QED BY <3>1
  <2> QED BY <2>1, <2>3, <2>4
<1>8. ASSUME NEW p \in K PROVE \E n \in 1 .. N : o[n] = p
  <2> HIDE DEF K, o, N
  <2> DEFINE c == Cardinality({a \in K : a < p})
  <2>1. c \in Nat /\ c < N
    <3>1. {a \in K : a < p} \subseteq K /\ p \notin {a \in K : a < p}
      BY <1>1
    <3>2. IsFiniteSet({a \in K : a < p}) /\ Cardinality({a \in K : a < p}) <= Cardinality(K)
          /\ (Cardinality(K) = Cardinality({a \in K : a < p}) => K = {a \in K : a < p})
      BY <1>2, <3>1, FS_Subset
    <3>3. c \in Nat
      BY <3>2, FS_CardinalityType
    <3>4. c # N
      BY <3>1, <3>2 DEF N
    <3> QED BY <1>3, <3>2, <3>3, <3>4 DEF N
  <2>2. c + 1 \in 1 .. N /\ (c + 1) - 1 = c
    BY <1>3, <2>1
  <2> HIDE DEF c
  <2>3. o[c + 1] \in K /\ Cardinality({a \in K : a < o[c + 1]}) = c
    BY <1>3, <2>2
  <2>4. p \in Nat /\ o[c + 1] \in Nat
    BY <1>1, <2>3
  <2>5. ~ (o[c + 1] < p)
    <3>1. ASSUME o[c + 1] < p PROVE FALSE
      <4>1. Cardinality({a \in K : a < o[c + 1]}) < Cardinality({a \in K : a < p})
        BY <1>1, <1>2, <2>3, <3>1, MoreBelow
      <4> QED BY <2>1, <2>3, <4>1 DEF c
    <3> QED BY <3>1
  <2>6. ~ (p < o[c + 1])
    <3>1. ASSUME p < o[c + 1] PROVE FALSE
      <4>1. Cardinality({a \in K : a < p}) < Cardinality({a \in K : a < o[c + 1]})
        BY <1>1, <1>2, <2>3, <3>1, MoreBelow
      <4> QED BY <2>1, <2>3, <4>1 DEF c
    <3> QED BY <3>1
  <2>7. o[c + 1] = p
    BY <2>4, <2>5, <2>6
  <2> QED BY <2>2, <2>7
<1>9. ASSUME NEW p \in 1 .. Len(s), \A n \in 1 .. N : o[n] # p
      PROVE  s[p].op = "TASSIGN" /\ s[p].r \notin needed
  <2>1. p \notin K
    <3> HIDE DEF K, o, N
    <3> QED BY <1>8, <1>9
  <2> QED BY <1>1, <2>1 DEF KeptOf
<1>10. o \in [1 .. N -> 1 .. Len(s)]
  <2> HIDE DEF K, o, N
  <2> QED BY <1>3, <1>5
<1>11. Leaves(needed, s, t, o)
  <2> HIDE DEF K, o, N, t
  <2> QED BY <1>6, <1>7, <1>9, <1>10 DEF Leaves
<1>12. LeavesOut(needed, s, t)
  <2> HIDE DEF o, t
  <2> QED BY <1>11 DEF LeavesOut
<1> QED BY <1>6, <1>12

\* Two machines that agree in all but what nobody needs, ...
Agree(needed, m, n) ==
    /\ m \in States /\ n \in States
    /\ n.status = m.status /\ n.input = m.input /\ n.output = m.output
    /\ \A v \in needed : n.val[v] = m.val[v] /\ (v \in n.known <=> v \in m.known)
\* ... the second in front of the instruction that the first comes to next of those left.
Beside(needed, d, e, m, n) ==
    /\ Agree(needed, m, n)
    /\ \A j \in 1 .. Len(d) : j < n.pc <=> e[j] < m.pc

LEMMA AgreeOperand ==
  ASSUME NEW needed, NEW m, NEW n, Agree(needed, m, n), NEW a, a \in Vars => a \in needed
  PROVE  Operand(n, a) = Operand(m, a)
BY DEF Agree, Operand

LEMMA AgreeWritten ==
  ASSUME NEW needed \in SUBSET Vars, NEW m, NEW n, Agree(needed, m, n),
         NEW r \in Operands, NEW x \in Int
  PROVE  /\ Agree(needed, Written(m, r, x), Written(n, r, x))
         /\ Written(m, r, x).pc = m.pc + 1 /\ Written(n, r, x).pc = n.pc + 1
         /\ Written(m, r, x).input = m.input /\ Written(n, r, x).input = n.input
<1> DEFINE w == Written(m, r, x)  u == Written(n, r, x)
<1>1. m \in States /\ n \in States /\ m.val \in [Vars -> Int] /\ n.val \in [Vars -> Int]
  BY DEF Agree, States
<1>2. w \in States /\ u \in States
  BY <1>1, WrittenOK
<1>3. /\ w.status = m.status /\ w.input = m.input /\ w.output = m.output /\ w.pc = m.pc + 1
      /\ u.status = n.status /\ u.input = n.input /\ u.output = n.output /\ u.pc = n.pc + 1
      /\ w.val = [m.val EXCEPT ![r] = x] /\ u.val = [n.val EXCEPT ![r] = x]
      /\ w.known = m.known \cup {r} /\ u.known = n.known \cup {r}
  BY <1>1 DEF Written, States
<1> HIDE DEF w, u
<1>4. \A v \in needed : u.val[v] = w.val[v] /\ (v \in u.known <=> v \in w.known)
  BY <1>1, <1>3 DEF Agree
<1>5. Agree(needed, w, u)
  BY <1>2, <1>3, <1>4 DEF Agree
<1> QED BY <1>3, <1>5 DEF w, u

LEMMA AgreeOnward ==
  ASSUME NEW needed, NEW m, NEW n, Agree(needed, m, n)
  PROVE  /\ Agree(needed, Onward(m), Onward(n))
         /\ Onward(m).pc = m.pc + 1 /\ Onward(n).pc = n.pc + 1
         /\ Onward(m).output = m.output /\ Onward(n).output = n.output
<1>1. m \in States /\ n \in States
  BY DEF Agree
<1>2. Onward(m) \in States /\ Onward(n) \in States
  BY <1>1, OnwardOK
<1>3. /\ Onward(m).status = m.status /\ Onward(m).input = m.input /\ Onward(m).output = m.output
      /\ Onward(m).val = m.val /\ Onward(m).known = m.known /\ Onward(m).pc = m.pc + 1
      /\ Onward(n).status = n.status /\ Onward(n).input = n.input /\ Onward(n).output = n.output
      /\ Onward(n).val = n.val /\ Onward(n).known = n.known /\ Onward(n).pc = n.pc + 1
  BY <1>1 DEF Onward, States
<1> QED BY <1>2, <1>3 DEF Agree

LEMMA AgreeStopped ==
  ASSUME NEW needed, NEW m, NEW n, Agree(needed, m, n), NEW why \in Statuses
  PROVE  /\ Agree(needed, Stopped(m, why), Stopped(n, why))
         /\ Stopped(m, why).pc = m.pc /\ Stopped(n, why).pc = n.pc
<1>1. m \in States /\ n \in States
  BY DEF Agree
<1>2. Stopped(m, why) \in States /\ Stopped(n, why) \in States
  BY <1>1, StoppedOK
<1>3. /\ Stopped(m, why).status = why /\ Stopped(m, why).input = m.input
      /\ Stopped(m, why).output = m.output /\ Stopped(m, why).pc = m.pc
      /\ Stopped(m, why).val = m.val /\ Stopped(m, why).known = m.known
      /\ Stopped(n, why).status = why /\ Stopped(n, why).input = n.input
      /\ Stopped(n, why).output = n.output /\ Stopped(n, why).pc = n.pc
      /\ Stopped(n, why).val = n.val /\ Stopped(n, why).known = n.known
  BY <1>1 DEF Stopped, States
<1> QED BY <1>2, <1>3 DEF Agree

\* Both go on, or neither.
InStep(m, n, p, q) == (p.pc = m.pc + 1 /\ q.pc = n.pc + 1) \/ (p.pc = m.pc /\ q.pc = n.pc)

LEMMA AgreeBinop ==
  ASSUME NEW needed \in SUBSET Vars, NEW m, NEW n, Agree(needed, m, n),
         NEW i \in BlockInstrs, i.op \in Binops, Uses(i) \subseteq needed
  PROVE  /\ Agree(needed, BinopStep(m, i), BinopStep(n, i))
         /\ InStep(m, n, BinopStep(m, i), BinopStep(n, i))
<1> DEFINE a == Operand(m, i.a1)  b == Operand(m, i.a2)  x == Result(i.op, a, b)
<1>1. Operand(n, i.a1) = a /\ Operand(n, i.a2) = b
  <2>1. (i.a1 \in Vars => i.a1 \in needed) /\ (i.a2 \in Vars => i.a2 \in needed)
    BY DEF Uses
  <2> QED BY <2>1, AgreeOperand
<1>2. CASE i.op = "TDIV" /\ b = 0
  <2>1. BinopStep(m, i) = Stopped(m, "zerodivide") /\ BinopStep(n, i) = Stopped(n, "zerodivide")
    BY <1>1, <1>2 DEF BinopStep
  <2>2. "zerodivide" \in Statuses
    BY DEF Statuses
  <2> QED BY <2>1, <2>2, AgreeStopped DEF InStep
<1>3. CASE ~ (i.op = "TDIV" /\ b = 0)
  <2>1. x \in Int
    <3>1. m \in States /\ i.a1 \in Operands /\ i.a2 \in Operands
      BY DEF Agree, BlockInstrs
    <3>2. a \in Int /\ b \in Int
      BY <3>1, OperandIsInt
    <3>3. i.op = "TDIV" => Divided(a, b) \in Int
      BY <1>3, <3>2 DEF Divided, Magnitude
    <3>4. a + b \in Int /\ a - b \in Int /\ a * b \in Int
      BY <3>2
    <3> QED BY <3>3, <3>4 DEF Result
  <2>2. i.r \in Operands /\ "overflow" \in Statuses
    BY DEF BlockInstrs, Statuses
  <2>3. CASE Fits(x) /\ (i.op \in Relops => Fits(a - b))
    <3>1. BinopStep(m, i) = Written(m, i.r, x) /\ BinopStep(n, i) = Written(n, i.r, x)
      BY <1>1, <1>3, <2>3 DEF BinopStep
    <3> HIDE DEF x
    <3> QED BY <2>1, <2>2, <3>1, AgreeWritten DEF InStep
  <2>4. CASE ~ (Fits(x) /\ (i.op \in Relops => Fits(a - b)))
    <3>1. BinopStep(m, i) = Stopped(m, "overflow") /\ BinopStep(n, i) = Stopped(n, "overflow")
      BY <1>1, <1>3, <2>4 DEF BinopStep
    <3> QED BY <2>2, <3>1, AgreeStopped DEF InStep
  <2> QED BY <2>3, <2>4
<1> QED BY <1>2, <1>3

LEMMA AgreeRead ==
  ASSUME NEW needed \in SUBSET Vars, NEW m, NEW n, Agree(needed, m, n),
         NEW i \in BlockInstrs, i.op = "TIN", NEW c, NEW d
  PROVE  Agree(needed, Do(c, m, i), Do(d, n, i)) /\ InStep(m, n, Do(c, m, i), Do(d, n, i))
<1>1. m \in States /\ n \in States /\ n.input = m.input /\ m.input \in Seq(Int)
  BY DEF Agree, States
<1>2. CASE m.input = << >>
  <2>1. Do(c, m, i) = Stopped(m, "waiting") /\ Do(d, n, i) = Stopped(n, "waiting")
    BY <1>1, <1>2 DEF Do, Binops, Arith, Relops
  <2>2. "waiting" \in Statuses
    BY DEF Statuses
  <2> QED BY <2>1, <2>2, AgreeStopped DEF InStep
<1>3. CASE m.input # << >>
  <2> DEFINE x == Head(m.input)  w == Written(m, i.r, x)  u == Written(n, i.r, x)
  <2>1. Do(c, m, i) = [w EXCEPT !.input = Tail(@)] /\ Do(d, n, i) = [u EXCEPT !.input = Tail(@)]
    BY <1>1, <1>3 DEF Do, Binops, Arith, Relops
  <2>2. x \in Int /\ Tail(m.input) \in Seq(Int) /\ i.r \in Operands
    BY <1>1, <1>3 DEF BlockInstrs
  <2>3. /\ Agree(needed, w, u) /\ w.pc = m.pc + 1 /\ u.pc = n.pc + 1
        /\ w.input = m.input /\ u.input = m.input
    <3>1. x \in Int /\ i.r \in Operands
      BY <2>2
    <3> HIDE DEF x
    <3>2. /\ Agree(needed, w, u) /\ w.pc = m.pc + 1 /\ u.pc = n.pc + 1
          /\ w.input = m.input /\ u.input = n.input
      BY <3>1, AgreeWritten
    <3> HIDE DEF w, u
    <3> QED BY <1>1, <3>2
  <2> DEFINE p == Do(c, m, i)  q == Do(d, n, i)
  <2>4. w \in States /\ u \in States
    BY <2>3 DEF Agree
  <2> HIDE DEF w, u, x
  <2>5. /\ p.status = w.status /\ p.output = w.output /\ p.val = w.val /\ p.known = w.known
        /\ p.pc = w.pc /\ p.input = Tail(m.input) /\ p \in States
        /\ q.status = u.status /\ q.output = u.output /\ q.val = u.val /\ q.known = u.known
        /\ q.pc = u.pc /\ q.input = Tail(m.input) /\ q \in States
    <3>1. p = [w EXCEPT !.input = Tail(m.input)] /\ q = [u EXCEPT !.input = Tail(m.input)]
      BY <2>1, <2>3
    <3> HIDE DEF p, q
    <3> QED BY <2>2, <2>4, <3>1 DEF States
  <2> HIDE DEF p, q
  <2>6. Agree(needed, p, q) /\ InStep(m, n, p, q)
    BY <2>3, <2>5 DEF Agree, InStep
  <2> QED BY <2>6 DEF p, q
<1> QED BY <1>2, <1>3

LEMMA AgreeWrite ==
  ASSUME NEW needed \in SUBSET Vars, NEW m, NEW n, Agree(needed, m, n),
         NEW i \in BlockInstrs, i.op = "TOUT", Uses(i) \subseteq needed, NEW c, NEW d
  PROVE  Agree(needed, Do(c, m, i), Do(d, n, i)) /\ InStep(m, n, Do(c, m, i), Do(d, n, i))
<1> DEFINE x == Operand(m, i.r)  w == Onward(m)  u == Onward(n)
           p == Do(c, m, i)  q == Do(d, n, i)
<1>1. Operand(n, i.r) = x
  <2>1. i.r \in Vars => i.r \in needed
    BY DEF Uses, Binops, Arith, Relops
  <2> QED BY <2>1, AgreeOperand
<1>2. p = [w EXCEPT !.output = Append(@, x)] /\ q = [u EXCEPT !.output = Append(@, x)]
  BY <1>1 DEF Do, Binops, Arith, Relops
<1>3. x \in Int
  <2>1. m \in States /\ i.r \in Operands
    BY DEF Agree, BlockInstrs
  <2> QED BY <2>1, OperandIsInt
<1>4. Agree(needed, w, u) /\ w.pc = m.pc + 1 /\ u.pc = n.pc + 1
  BY AgreeOnward
<1>5. w \in States /\ u \in States /\ u.output = w.output /\ Append(w.output, x) \in Seq(Int)
  BY <1>3, <1>4 DEF Agree, States
<1> HIDE DEF w, u, x, p, q
<1>6. /\ p.status = w.status /\ p.output = Append(w.output, x) /\ p.val = w.val
      /\ p.known = w.known /\ p.pc = w.pc /\ p.input = w.input /\ p \in States
      /\ q.status = u.status /\ q.output = Append(w.output, x) /\ q.val = u.val
      /\ q.known = u.known /\ q.pc = u.pc /\ q.input = u.input /\ q \in States
  BY <1>2, <1>5 DEF States
<1>7. Agree(needed, p, q) /\ InStep(m, n, p, q)
  BY <1>4, <1>6 DEF Agree, InStep
<1> QED BY <1>7 DEF p, q

\* An instruction that is no jump does the same in both.
LEMMA AgreeDo ==
  ASSUME NEW needed \in SUBSET Vars, NEW m, NEW n, Agree(needed, m, n),
         NEW i \in BlockInstrs, Uses(i) \subseteq needed,
         i.op \notin {"TIFF", "TJMP"}, NEW c, NEW d
  PROVE  Agree(needed, Do(c, m, i), Do(d, n, i)) /\ InStep(m, n, Do(c, m, i), Do(d, n, i))
<1>1. CASE i.op \in Binops
  <2>1. Do(c, m, i) = BinopStep(m, i) /\ Do(d, n, i) = BinopStep(n, i)
    BY <1>1 DEF Do, Binops, Arith, Relops
  <2> QED BY <1>1, <2>1, AgreeBinop
<1>2. CASE i.op = "TASSIGN"
  <2> DEFINE x == Operand(m, i.a1)
  <2>1. Operand(n, i.a1) = x
    <3>1. i.a1 \in Vars => i.a1 \in needed
      BY <1>2 DEF Uses, Binops, Arith, Relops
    <3> QED BY <3>1, AgreeOperand
  <2>2. Do(c, m, i) = Written(m, i.r, x) /\ Do(d, n, i) = Written(n, i.r, x)
    BY <1>2, <2>1 DEF Do, Binops, Arith, Relops
  <2>3. x \in Int /\ i.r \in Operands
    <3>1. m \in States /\ i.r \in Operands /\ i.a1 \in Operands
      BY DEF Agree, BlockInstrs
    <3> QED BY <3>1, OperandIsInt
  <2> HIDE DEF x
  <2> QED BY <2>2, <2>3, AgreeWritten DEF InStep
<1>3. CASE i.op = "TIN"
  BY <1>3, AgreeRead
<1>4. CASE i.op = "TOUT"
  BY <1>4, AgreeWrite
<1>5. CASE i.op = "TLABEL"
  <2>1. Do(c, m, i) = Onward(m) /\ Do(d, n, i) = Onward(n)
    BY <1>5 DEF Do, Binops, Arith, Relops
  <2> QED BY <2>1, AgreeOnward DEF InStep
<1>6. i.op \in Ops
  BY DEF BlockInstrs
<1> QED BY <1>1, <1>2, <1>3, <1>4, <1>5, <1>6 DEF Ops

\* A jump leads to the same label, which nothing leaves out.
LEMMA BesideJumped ==
  ASSUME NEW needed \in SUBSET Vars, NEW c \in Seq(BlockInstrs), NEW d \in Seq(BlockInstrs),
         NEW e, Leaves(needed, c, d, e), LabelsOnce(c),
         NEW m, NEW n, Agree(needed, m, n), NEW l, JumpTargets(c, l) # {}
  PROVE  Beside(needed, d, e, Jumped(c, m, l), Jumped(d, n, l))
<1> DEFINE p == CHOOSE p \in JumpTargets(c, l) : TRUE
<1>1. p \in 1 .. Len(c) /\ c[p].op = "TLABEL" /\ c[p].r = l
  <2>1. p \in JumpTargets(c, l)
    OBVIOUS
  <2> HIDE DEF p
  <2> QED BY <2>1 DEF JumpTargets
<1> HIDE DEF p
<1>2. /\ e \in [1 .. Len(d) -> 1 .. Len(c)]
      /\ \A j, h \in 1 .. Len(d) : j < h => e[j] < e[h]
      /\ \A j \in 1 .. Len(d) : d[j] = c[e[j]]
      /\ \A q \in 1 .. Len(c) :
           (\A j \in 1 .. Len(d) : e[j] # q) => c[q].op = "TASSIGN" /\ c[q].r \notin needed
  BY DEF Leaves
<1>3. PICK k \in 1 .. Len(d) : e[k] = p
  BY <1>1, <1>2
<1>4. JumpTargets(d, l) = {k}
  <2>1. k \in JumpTargets(d, l)
    BY <1>1, <1>2, <1>3 DEF JumpTargets
  <2>2. ASSUME NEW j \in JumpTargets(d, l) PROVE j = k
    <3>1. j \in 1 .. Len(d) /\ d[j].op = "TLABEL" /\ d[j].r = l
      BY DEF JumpTargets
    <3>2. e[j] \in 1 .. Len(c) /\ c[e[j]].op = "TLABEL" /\ c[e[j]].r = l
      BY <1>2, <3>1
    <3>3. e[j] = p
      BY <1>1, <3>2 DEF LabelsOnce
    <3>4. ~ (j < k) /\ ~ (k < j)
      BY <1>2, <1>3, <3>1, <3>3
    <3> QED BY <3>1, <3>4
  <2> QED BY <2>1, <2>2
<1>5. Jumped(c, m, l) = [m EXCEPT !.pc = p] /\ Jumped(d, n, l) = [n EXCEPT !.pc = k]
  BY <1>4 DEF Jumped, p
<1> DEFINE x == [m EXCEPT !.pc = p]  y == [n EXCEPT !.pc = k]
<1>6. m \in States /\ n \in States
  BY DEF Agree
<1>7. p \in Nat \ {0} /\ k \in Nat \ {0}
  BY <1>1, <1>3
<1>8. /\ x \in States /\ x.pc = p /\ x.status = m.status /\ x.input = m.input
      /\ x.output = m.output /\ x.val = m.val /\ x.known = m.known
      /\ y \in States /\ y.pc = k /\ y.status = n.status /\ y.input = n.input
      /\ y.output = n.output /\ y.val = n.val /\ y.known = n.known
  BY <1>6, <1>7 DEF States
<1> HIDE DEF x, y
<1>9. Agree(needed, x, y)
  BY <1>8 DEF Agree
<1>10. ASSUME NEW j \in 1 .. Len(d) PROVE j < k <=> e[j] < p
  <2>1. j < k => e[j] < e[k]
    BY <1>2
  <2>2. k < j => e[k] < e[j]
    BY <1>2
  <2>3. e[j] \in Int /\ e[k] \in Int /\ j \in Int /\ k \in Int
    BY <1>2, SMTT(30)
  <2> QED BY <1>3, <2>1, <2>2, <2>3
<1>11. Beside(needed, d, e, x, y)
  BY <1>8, <1>9, <1>10 DEF Beside
<1> QED BY <1>5, <1>11 DEF x, y

\* One step of the code opt_unused_vars was given: one of the code it leaves, or none.
LEMMA BesideStep ==
  ASSUME NEW needed \in SUBSET Vars, NEW c \in Seq(BlockInstrs), NEW d \in Seq(BlockInstrs),
         NEW e, Leaves(needed, c, d, e), LabelsOnce(c),
         \A p \in DOMAIN c : Uses(c[p]) \subseteq needed,
         NEW m, NEW n, Beside(needed, d, e, m, n), Meaningful(StepOf(c, m))
  PROVE  Beside(needed, d, e, StepOf(c, m), n) \/ Beside(needed, d, e, StepOf(c, m), StepOf(d, n))
<1>1. /\ e \in [1 .. Len(d) -> 1 .. Len(c)]
      /\ \A j, h \in 1 .. Len(d) : j < h => e[j] < e[h]
      /\ \A j \in 1 .. Len(d) : d[j] = c[e[j]]
      /\ \A q \in 1 .. Len(c) :
           (\A j \in 1 .. Len(d) : e[j] # q) => c[q].op = "TASSIGN" /\ c[q].r \notin needed
  BY DEF Leaves
<1>2. /\ Agree(needed, m, n) /\ m \in States /\ n \in States
      /\ m.pc \in Nat \ {0} /\ n.pc \in Nat \ {0} /\ Len(c) \in Nat /\ Len(d) \in Nat
      /\ \A j \in 1 .. Len(d) : j < n.pc <=> e[j] < m.pc
  BY DEF Beside, Agree, States
<1>3. CASE m.pc > Len(c)
  <2>1. n.pc > Len(d)
    <3>1. SUFFICES ASSUME ~ (n.pc > Len(d)) PROVE FALSE
      OBVIOUS
    <3>2. n.pc \in 1 .. Len(d)
      BY <1>2, <3>1
    <3>3. e[n.pc] \in 1 .. Len(c)
      BY <1>1, <3>2
    <3>4. e[n.pc] < m.pc
      BY <1>2, <1>3, <3>3
    <3> QED BY <1>2, <3>2, <3>4
  <2>2. StepOf(c, m) = Stopped(m, "end") /\ StepOf(d, n) = Stopped(n, "end")
    BY <1>3, <2>1 DEF StepOf
  <2>3. "end" \in Statuses
    BY DEF Statuses
  <2>4. /\ Agree(needed, Stopped(m, "end"), Stopped(n, "end"))
        /\ Stopped(m, "end").pc = m.pc /\ Stopped(n, "end").pc = n.pc
    BY <1>2, <2>3, AgreeStopped
  <2> QED BY <1>2, <2>2, <2>4 DEF Beside
<1>4. CASE ~ (m.pc > Len(c))
  <2> DEFINE i == c[m.pc]
  <2>1. m.pc \in 1 .. Len(c) /\ i \in BlockInstrs
    BY <1>2, <1>4
  <2>2. Uses(i) \subseteq m.known
    <3>1. SUFFICES ASSUME ~ (Uses(i) \subseteq m.known) PROVE FALSE
      OBVIOUS
    <3>2. StepOf(c, m) = Stopped(m, "undefined")
      BY <1>4, <3>1 DEF StepOf
    <3>3. Stopped(m, "undefined").status = "undefined"
      BY <1>2, StoppedSays
    <3> QED BY <3>2, <3>3 DEF Meaningful
  <2>3. StepOf(c, m) = Do(c, m, i)
    BY <1>4, <2>2 DEF StepOf
  <2>4. CASE \A j \in 1 .. Len(d) : e[j] # m.pc
    <3>1. i.op = "TASSIGN" /\ i.r \notin needed
      BY <1>1, <2>1, <2>4
    <3> DEFINE x == Operand(m, i.a1)  w == Written(m, i.r, x)
    <3>2. StepOf(c, m) = w
      BY <2>3, <3>1 DEF Do, Binops, Arith, Relops
    <3>3. x \in Int /\ i.r \in Operands
      <4>1. i.a1 \in Operands /\ i.r \in Operands
        BY <2>1 DEF BlockInstrs
      <4> QED BY <1>2, <4>1, OperandIsInt
    <3>4. w \in States
      <4> HIDE DEF x
      <4> QED BY <1>2, <3>3, WrittenOK
    <3>5. /\ w.status = m.status /\ w.input = m.input /\ w.output = m.output /\ w.pc = m.pc + 1
          /\ w.val = [m.val EXCEPT ![i.r] = x] /\ w.known = m.known \cup {i.r}
      BY <1>2 DEF Written, States
    <3> HIDE DEF x, w
    <3>6. m.val \in [Vars -> Int]
      BY <1>2 DEF States
    <3>7. \A v \in needed : n.val[v] = w.val[v] /\ (v \in n.known <=> v \in w.known)
      BY <1>2, <3>1, <3>5, <3>6 DEF Agree
    <3>8. Agree(needed, w, n)
      BY <1>2, <3>4, <3>5, <3>7 DEF Agree
    <3>9. ASSUME NEW j \in 1 .. Len(d) PROVE j < n.pc <=> e[j] < w.pc
      <4>1. e[j] \in Nat
        BY <1>1, <1>2
      <4>2. e[j] # m.pc /\ (j < n.pc <=> e[j] < m.pc)
        BY <1>2, <2>4
      <4>3. w.pc = m.pc + 1 /\ m.pc \in Nat
        BY <1>2, <3>5
      <4> QED BY <4>1, <4>2, <4>3
    <3> QED BY <3>2, <3>8, <3>9 DEF Beside
  <2>5. CASE \E j \in 1 .. Len(d) : e[j] = m.pc
    <3>1. PICK k \in 1 .. Len(d) : e[k] = m.pc
      BY <2>5
    <3>2. n.pc = k
      <4>1. ~ (k < n.pc)
        BY <1>2, <3>1
      <4>2. ~ (n.pc < k)
        <5>1. SUFFICES ASSUME n.pc < k PROVE FALSE
          OBVIOUS
        <5>2. n.pc \in 1 .. Len(d)
          BY <1>2, <5>1
        <5>3. e[n.pc] < m.pc
          BY <1>1, <3>1, <5>1, <5>2
        <5> QED BY <1>2, <5>2, <5>3
      <4> QED BY <1>2, <4>1, <4>2
    <3>3. d[n.pc] = i /\ ~ (n.pc > Len(d))
      BY <1>1, <1>2, <3>1, <3>2
    <3>4. Uses(i) \subseteq needed
      BY <2>1
    <3>5. Uses(i) \subseteq n.known
      BY <1>2, <2>2, <3>4 DEF Agree
    <3>6. StepOf(d, n) = Do(d, n, i)
      BY <3>3, <3>5 DEF StepOf
    <3>7. \A j \in 1 .. Len(d) : j < n.pc + 1 <=> e[j] < m.pc + 1
      <4>1. ASSUME NEW j \in 1 .. Len(d) PROVE j < n.pc + 1 <=> e[j] < m.pc + 1
        <5>1. j < k => e[j] < e[k]
          BY <1>1
        <5>2. k < j => e[k] < e[j]
          BY <1>1
        <5>3. e[j] \in 1 .. Len(c) /\ e[k] \in 1 .. Len(c)
          BY <1>1
        <5>4. e[j] \in Int /\ e[k] \in Int /\ j \in Int /\ k \in Int
          BY <1>2, <5>3
        <5> HIDE DEF i
        <5> QED BY <1>2, <3>1, <3>2, <5>1, <5>2, <5>4
      <4> QED BY <4>1
    <3> HIDE DEF i
    <3>8. CASE i.op \notin {"TIFF", "TJMP"}
      <4> DEFINE x == Do(c, m, i)  y == Do(d, n, i)
      <4>1. Agree(needed, x, y) /\ InStep(m, n, x, y)
        BY <1>2, <2>1, <3>4, <3>8, AgreeDo
      <4> HIDE DEF x, y
      <4>2. \A j \in 1 .. Len(d) : j < y.pc <=> e[j] < x.pc
        BY <1>2, <3>7, <4>1 DEF InStep
      <4>3. Beside(needed, d, e, x, y)
        BY <4>1, <4>2 DEF Beside
      <4> QED BY <2>3, <3>6, <4>3 DEF x, y
    <3>9. ASSUME StepOf(c, m) = Jumped(c, m, i.r), StepOf(d, n) = Jumped(d, n, i.r)
          PROVE  Beside(needed, d, e, StepOf(c, m), StepOf(d, n))
      <4>1. JumpTargets(c, i.r) # {}
        <5>1. SUFFICES ASSUME JumpTargets(c, i.r) = {} PROVE FALSE
          OBVIOUS
        <5>2. StepOf(c, m) = Stopped(m, "lost")
          BY <3>9, <5>1 DEF Jumped
        <5>3. Stopped(m, "lost").status = "lost"
          BY <1>2, StoppedSays
        <5> QED BY <5>2, <5>3 DEF Meaningful
      <4>2. Beside(needed, d, e, Jumped(c, m, i.r), Jumped(d, n, i.r))
        BY <1>2, <4>1, BesideJumped
      <4> QED BY <3>9, <4>2
    <3>10. CASE i.op = "TJMP"
      <4>1. Do(c, m, i) = Jumped(c, m, i.r) /\ Do(d, n, i) = Jumped(d, n, i.r)
        BY <3>10 DEF Do, Binops, Arith, Relops
      <4> QED BY <2>3, <3>6, <3>9, <4>1
    <3>11. CASE i.op = "TIFF"
      <4>1. Operand(n, i.a1) = Operand(m, i.a1)
        <5>1. i.a1 \in Vars => i.a1 \in needed
          BY <3>4, <3>11 DEF Uses, Binops, Arith, Relops
        <5> QED BY <1>2, <5>1, AgreeOperand
      <4>2. CASE Operand(m, i.a1) > 0
        <5>1. Do(c, m, i) = Onward(m) /\ Do(d, n, i) = Onward(n)
          BY <3>11, <4>1, <4>2 DEF Do, Binops, Arith, Relops
        <5>2. /\ Agree(needed, Onward(m), Onward(n))
              /\ Onward(m).pc = m.pc + 1 /\ Onward(n).pc = n.pc + 1
          BY <1>2, AgreeOnward
        <5>3. Beside(needed, d, e, Onward(m), Onward(n))
          BY <3>7, <5>2 DEF Beside
        <5> QED BY <2>3, <3>6, <5>1, <5>3
      <4>3. CASE ~ (Operand(m, i.a1) > 0)
        <5>1. Do(c, m, i) = Jumped(c, m, i.r) /\ Do(d, n, i) = Jumped(d, n, i.r)
          BY <3>11, <4>1, <4>3 DEF Do, Binops, Arith, Relops
        <5> QED BY <2>3, <3>6, <3>9, <5>1
      <4> QED BY <4>2, <4>3
    <3> QED BY <3>8, <3>10, <3>11
  <2> QED BY <2>4, <2>5
<1> QED BY <1>3, <1>4

\* The runs side by side: wherever the longer one has got to, the shorter one has been
\* beside it.
LEMMA UnusedFollows ==
  ASSUME NEW needed \in SUBSET Vars, NEW c \in Seq(BlockInstrs), NEW d \in Seq(BlockInstrs),
         NEW e, Leaves(needed, c, d, e), LabelsOnce(c),
         \A p \in DOMAIN c : Uses(c[p]) \subseteq needed,
         NEW input \in Seq(Int), NEW f, NEW g,
         IsRun(c, input, MaxSteps, f), IsRun(d, input, MaxSteps, g)
  PROVE  \A n \in 0 .. MaxSteps :
           Meaningful(f[n]) => \E k \in 0 .. n : Beside(needed, d, e, f[n], g[k])
<1> DEFINE S == {n \in Nat : n <= MaxSteps =>
                   (Meaningful(f[n]) => \E k \in 0 .. n : Beside(needed, d, e, f[n], g[k]))}
<1>1. 0 \in S
  <2>1. f[0] = Start(input) /\ g[0] = Start(input)
    BY RunStates
  <2>2. Start(input) \in States /\ Start(input).pc = 1
    BY EmptySeq DEF Start, States, Statuses
  <2>3. Agree(needed, f[0], g[0])
    BY <2>1, <2>2 DEF Agree
  <2>4. \A j \in 1 .. Len(d) : j < g[0].pc <=> e[j] < f[0].pc
    <3>1. ASSUME NEW j \in 1 .. Len(d) PROVE ~ (j < 1) /\ ~ (e[j] < 1)
      <4>1. e[j] \in 1 .. Len(c)
        BY DEF Leaves
      <4> QED BY <4>1
    <3> QED BY <2>1, <2>2, <3>1
  <2>5. Beside(needed, d, e, f[0], g[0])
    BY <2>3, <2>4 DEF Beside
  <2>6. 0 \in 0 .. 0
    OBVIOUS
  <2> QED BY <2>5, <2>6
<1>2. ASSUME NEW n \in Nat, n \in S PROVE n + 1 \in S
  <2>1. SUFFICES ASSUME n + 1 <= MaxSteps, Meaningful(f[n + 1])
                 PROVE  \E k \in 0 .. n + 1 : Beside(needed, d, e, f[n + 1], g[k])
    OBVIOUS
  <2>2. n \in 0 .. MaxSteps - 1 /\ n <= MaxSteps /\ n \in 0 .. MaxSteps
    BY <2>1, StepsAssumption
  <2>3. f[n + 1] = Turn(c, f[n])
    BY <2>2, RunStates
  <2>4. Meaningful(f[n])
    BY <2>1, <2>3, MeaningfulBefore
  <2>5. PICK k \in 0 .. n : Beside(needed, d, e, f[n], g[k])
    BY <1>2, <2>2, <2>4
  <2>6. k \in 0 .. n + 1 /\ k + 1 \in 0 .. n + 1 /\ k \in 0 .. MaxSteps - 1
    BY <2>1, StepsAssumption
  <2>7. g[k].status = f[n].status /\ g[k + 1] = Turn(d, g[k])
    BY <2>5, <2>6, RunStates DEF Beside, Agree
  <2>8. CASE f[n].status = "running"
    <3>1. f[n + 1] = StepOf(c, f[n]) /\ g[k + 1] = StepOf(d, g[k])
      BY <2>3, <2>7, <2>8 DEF Turn
    <3>2. \/ Beside(needed, d, e, StepOf(c, f[n]), g[k])
          \/ Beside(needed, d, e, StepOf(c, f[n]), StepOf(d, g[k]))
      BY <2>1, <2>5, <3>1, BesideStep
    <3> QED BY <2>6, <3>1, <3>2
  <2>9. CASE f[n].status # "running"
    <3>1. f[n + 1] = f[n]
      BY <2>3, <2>9 DEF Turn
    <3> QED BY <2>5, <2>6, <3>1
  <2> QED BY <2>8, <2>9
<1>3. Nat \subseteq S
  <2> HIDE DEF S
  <2> QED BY <1>1, <1>2, NatSetInduction
<1> QED BY <1>3, StepsAssumption

-----------------------------------------------------------------------------
(* What is printed stays printed. *)

Begins(s, t) == Len(s) <= Len(t) /\ \A p \in 1 .. Len(s) : t[p] = s[p]

LEMMA BeginsIsPrefix ==
  ASSUME NEW s \in Seq(Int), NEW t \in Seq(Int), Begins(s, t)
  PROVE  IsPrefix(s, t)
<1>1. SubSeq(s, 1, Len(s)) = [p \in 1 .. Len(s) |-> s[p]]
  OBVIOUS
<1>2. SubSeq(t, 1, Len(s)) = [p \in 1 .. Len(s) |-> t[p]]
  OBVIOUS
<1>3. [p \in 1 .. Len(s) |-> s[p]] = [p \in 1 .. Len(s) |-> t[p]]
  BY DEF Begins
<1> QED BY <1>1, <1>2, <1>3 DEF Begins, IsPrefix

LEMMA StepPrints ==
  ASSUME NEW d \in Seq(BlockInstrs), NEW m \in States
  PROVE  Begins(m.output, StepOf(d, m).output)
<1> DEFINE s == m.output
<1>1. m.output \in Seq(Int) /\ m.pc \in Nat \ {0} /\ m.input \in Seq(Int)
  BY DEF States
<1>2. Begins(s, s)
  BY <1>1 DEF Begins
<1>3. \A why : Stopped(m, why).output = s
  BY DEF Stopped, States
<1>4. \A r, x : Written(m, r, x).output = s
  BY DEF Written, States
<1>5. Onward(m).output = s /\ Onward(m) \in States
  BY OnwardOK DEF Onward, States
<1>6. \A l : Jumped(d, m, l).output = s
  BY <1>3 DEF Jumped, States
<1>7. CASE m.pc > Len(d)
  BY <1>2, <1>3, <1>7 DEF StepOf
<1>8. CASE ~ (m.pc > Len(d))
  <2> DEFINE i == d[m.pc]
  <2>1. i \in BlockInstrs
    BY <1>1, <1>8
  <2>2. i.op \in Ops
    BY <2>1 DEF BlockInstrs
  <2>3. StepOf(d, m) \in {Stopped(m, "undefined"), Do(d, m, i)}
    BY <1>8 DEF StepOf
  <2>4. Begins(s, Do(d, m, i).output)
    <3> HIDE DEF i
    <3>1. CASE i.op \in Binops
      <4>1. Do(d, m, i) = BinopStep(m, i)
        BY <3>1 DEF Do, Binops, Arith, Relops
      <4>2. BinopStep(m, i).output = s
        BY <1>3, <1>4 DEF BinopStep
      <4> QED BY <1>2, <4>1, <4>2
    <3>2. CASE i.op = "TASSIGN"
      BY <1>2, <1>4, <3>2 DEF Do, Binops, Arith, Relops
    <3>3. CASE i.op = "TIN"
      <4>1. Do(d, m, i) = IF m.input = << >> THEN Stopped(m, "waiting")
                          ELSE [Written(m, i.r, Head(m.input)) EXCEPT !.input = Tail(@)]
        BY <3>3 DEF Do, Binops, Arith, Relops
      <4>2. \A x : [Written(m, i.r, x) EXCEPT !.input = Tail(@)].output = Written(m, i.r, x).output
        BY DEF Written, States
      <4> QED BY <1>2, <1>3, <1>4, <4>1, <4>2
    <3>4. CASE i.op = "TOUT"
      <4> DEFINE x == Operand(m, i.r)  w == Onward(m)
      <4>1. Do(d, m, i) = [w EXCEPT !.output = Append(@, x)]
        BY <3>4 DEF Do, Binops, Arith, Relops
      <4>2. x \in Int
        <5>1. i.r \in Operands
          BY <2>1 DEF BlockInstrs
        <5> QED BY <5>1, OperandIsInt
      <4> HIDE DEF x, w
      <4>3. w.output = s /\ w \in States
        BY <1>5 DEF w
      <4>4. Do(d, m, i).output = Append(s, x)
        BY <4>1, <4>3 DEF States
      <4>5. Begins(s, Append(s, x))
        BY <1>1, <4>2 DEF Begins
      <4> QED BY <4>4, <4>5
    <3>5. CASE i.op = "TIFF"
      <4>1. Do(d, m, i) \in {Onward(m), Jumped(d, m, i.r)}
        BY <3>5 DEF Do, Binops, Arith, Relops
      <4> QED BY <1>2, <1>5, <1>6, <4>1
    <3>6. CASE i.op = "TJMP"
      BY <1>2, <1>6, <3>6 DEF Do, Binops, Arith, Relops
    <3>7. CASE i.op = "TLABEL"
      BY <1>2, <1>5, <3>7 DEF Do, Binops, Arith, Relops
    <3> QED BY <2>2, <3>1, <3>2, <3>3, <3>4, <3>5, <3>6, <3>7 DEF Ops
  <2> QED BY <1>2, <1>3, <2>3, <2>4
<1> QED BY <1>7, <1>8

LEMMA BeginsOn ==
  ASSUME NEW s \in Seq(Int), NEW t \in Seq(Int), NEW u \in Seq(Int), Begins(s, t), Begins(t, u)
  PROVE  Begins(s, u)
<1>1. Len(s) \in Nat /\ Len(t) \in Nat /\ Len(u) \in Nat
  OBVIOUS
<1>2. 1 .. Len(s) \subseteq 1 .. Len(t)
  BY <1>1 DEF Begins
<1> QED BY <1>1, <1>2 DEF Begins

\* A run goes on printing, and where it has stopped it stays.
LEMMA RunGoesOn ==
  ASSUME NEW d \in Seq(BlockInstrs), NEW input \in Seq(Int),
         NEW g, IsRun(d, input, MaxSteps, g), NEW k \in 0 .. MaxSteps
  PROVE  /\ Begins(g[k].output, g[MaxSteps].output)
         /\ g[k].status # "running" => g[MaxSteps] = g[k]
<1> DEFINE S == {n \in Nat : k + n <= MaxSteps =>
                   /\ Begins(g[k].output, g[k + n].output)
                   /\ g[k].status # "running" => g[k + n] = g[k]}
<1>1. \A n \in 0 .. MaxSteps : g[n] \in States /\ g[n].output \in Seq(Int)
  <2>1. \A n \in 0 .. MaxSteps : g[n] \in States
    BY RunInStates
  <2> QED BY <2>1 DEF States
<1>2. k \in Nat /\ k <= MaxSteps /\ k + 0 = k
  BY StepsAssumption
<1>3. 0 \in S
  <2>1. Begins(g[k].output, g[k].output)
    BY DEF Begins
  <2> QED BY <1>2, <2>1
<1>4. ASSUME NEW n \in Nat, n \in S PROVE n + 1 \in S
  <2>1. SUFFICES ASSUME k + (n + 1) <= MaxSteps
                 PROVE  /\ Begins(g[k].output, g[k + (n + 1)].output)
                        /\ g[k].status # "running" => g[k + (n + 1)] = g[k]
    OBVIOUS
  <2>2. /\ k + n \in 0 .. MaxSteps - 1 /\ k + n <= MaxSteps /\ k + n \in 0 .. MaxSteps
        /\ k + (n + 1) = (k + n) + 1 /\ (k + n) + 1 \in 0 .. MaxSteps
    BY <1>2, <2>1, StepsAssumption
  <2>3. g[(k + n) + 1] = Turn(d, g[k + n])
    BY <2>2, RunStates
  <2>4. Begins(g[k].output, g[k + n].output) /\ (g[k].status # "running" => g[k + n] = g[k])
    BY <1>4, <2>2
  <2>5. Begins(g[k + n].output, g[(k + n) + 1].output)
    <3>1. CASE g[k + n].status = "running"
      BY <1>1, <2>2, <2>3, <3>1, StepPrints DEF Turn
    <3>2. CASE g[k + n].status # "running"
      <4>1. g[(k + n) + 1] = g[k + n]
        BY <2>3, <3>2 DEF Turn
      <4> QED BY <4>1 DEF Begins
    <3> QED BY <3>1, <3>2
  <2>6. Begins(g[k].output, g[(k + n) + 1].output)
    BY <1>1, <2>2, <2>4, <2>5, BeginsOn
  <2>7. g[k].status # "running" => g[(k + n) + 1] = g[k]
    BY <2>3, <2>4 DEF Turn
  <2> QED BY <2>2, <2>6, <2>7
<1>5. MaxSteps - k \in S
  <2>1. Nat \subseteq S
    <3> HIDE DEF S
    <3> QED BY <1>3, <1>4, NatSetInduction
  <2> QED BY <1>2, <2>1, StepsAssumption, SMTT(30)
<1>6. k + (MaxSteps - k) = MaxSteps
  BY <1>2, StepsAssumption
<1> QED BY <1>5, <1>6

\* A code that assignments to variables nobody needs are left out of, if every variable
\* some instruction reads is needed: on every input it stops as the whole code does and
\* prints the same, and if the whole code is cut off it has printed all that and goes
\* on (optimize.c:148-226).
THEOREM UnusedKeepsOutput ==
  ASSUME NEW needed \in SUBSET Vars, NEW c \in Seq(BlockInstrs), NEW d \in Seq(BlockInstrs),
         LeavesOut(needed, c, d), LabelsOnce(c),
         \A p \in DOMAIN c : Uses(c[p]) \subseteq needed,
         NEW input \in Seq(Int)
  PROVE  KeepsOutput(c, d, input)
<1>1. PICK e : Leaves(needed, c, d, e)
  BY DEF LeavesOut
<1>2. PICK f : IsRun(c, input, MaxSteps, f) /\ RunOf(c, input) = f[MaxSteps]
  BY RunIs
<1>3. PICK g : IsRun(d, input, MaxSteps, g) /\ RunOf(d, input) = g[MaxSteps]
  BY RunIs
<1>4. MaxSteps \in 0 .. MaxSteps
  BY StepsAssumption
<1>5. SUFFICES ASSUME Meaningful(f[MaxSteps])
      PROVE  IF f[MaxSteps].status = "running"
             THEN IsPrefix(f[MaxSteps].output, g[MaxSteps].output)
             ELSE g[MaxSteps].status = f[MaxSteps].status
                  /\ g[MaxSteps].output = f[MaxSteps].output
  BY <1>2, <1>3 DEF KeepsOutput
<1>6. PICK k \in 0 .. MaxSteps : Beside(needed, d, e, f[MaxSteps], g[k])
  BY <1>1, <1>2, <1>3, <1>4, <1>5, UnusedFollows
<1>7. g[k].status = f[MaxSteps].status /\ g[k].output = f[MaxSteps].output
  BY <1>6 DEF Beside, Agree
<1>8. /\ Begins(g[k].output, g[MaxSteps].output)
      /\ g[k].status # "running" => g[MaxSteps] = g[k]
  BY <1>3, RunGoesOn
<1>9. g[k].output \in Seq(Int) /\ g[MaxSteps].output \in Seq(Int)
  <2>1. g[k] \in States /\ g[MaxSteps] \in States
    BY <1>3, <1>4, RunInStates
  <2> QED BY <2>1 DEF States
<1>10. IsPrefix(f[MaxSteps].output, g[MaxSteps].output)
  BY <1>7, <1>8, <1>9, BeginsIsPrefix
<1> QED BY <1>7, <1>8, <1>10

-----------------------------------------------------------------------------
(* opt_unused_vars in the optimizer. *)

NeededIn(c) == UNION {Algebra!Needed(i) : i \in Algebra!ToSet(c)}

LEMMA NeededOK ==
  ASSUME NEW c \in Seq(BlockInstrs)
  PROVE  NeededIn(c) \subseteq Vars /\ \A p \in DOMAIN c : Uses(c[p]) \subseteq NeededIn(c)
<1>1. \A i : Algebra!Uses(i) = Uses(i)
  BY Zenon DEF Algebra!Uses, Uses, Algebra!Binops, Binops, Algebra!Arith, Arith, Algebra!Relops, Relops
<1>2. \A i : Uses(i) \subseteq Vars
  BY DEF Uses
<1>3. \A i : Uses(i) \subseteq Algebra!Needed(i) /\ Algebra!Needed(i) \subseteq Vars
  BY <1>1, <1>2 DEF Algebra!Needed
<1>4. ASSUME NEW p \in DOMAIN c PROVE Uses(c[p]) \subseteq NeededIn(c)
  <2>1. c[p] \in Algebra!ToSet(c)
    BY DEF Algebra!ToSet
  <2> QED BY <1>3, <2>1 DEF NeededIn
<1>5. NeededIn(c) \subseteq Vars
  BY <1>3 DEF NeededIn
<1> QED BY <1>4, <1>5

\* The pass leaves out of the code what it leaves out of the blocks.
LEMMA CodeLeavesOut ==
  ASSUME NEW g, "ins" \in DOMAIN g, "blocks" \in DOMAIN g,
         g.blocks \in SUBSET Nat, IsFiniteSet(g.blocks),
         \A b \in g.blocks : g.ins[b] \in Seq(BlockInstrs)
  PROVE  /\ Code(g) \in Seq(BlockInstrs) /\ Code(Algebra!OptUnusedVars(g)) \in Seq(BlockInstrs)
         /\ LeavesOut(NeededIn(Code(g)), Code(g), Code(Algebra!OptUnusedVars(g)))
<1> DEFINE needed == NeededIn(Code(g))
           R == {p \in Seq(BlockInstrs) \X Seq(BlockInstrs) : LeavesOut(needed, p[1], p[2])}
           h == Algebra!OptUnusedVars(g)
           left == [b \in g.blocks |-> LeftOf(needed, g.ins[b])]
<1>1. Algebra!Flat(g) = Code(g)
  BY Zenon DEF Code, Algebra!Flat, Prop!Flat, Algebra!FlatOf, Prop!FlatOf, Algebra!FlattenSeq,
     Prop!FlattenSeq, Algebra!InOrder, Prop!InOrder, Algebra!Cardinality, Prop!Cardinality
<1>2. \A S : Algebra!InOrder(S) = Prop!InOrder(S)
  BY ZenonT(60) DEF Algebra!InOrder, Prop!InOrder, Algebra!Cardinality, Prop!Cardinality
<1>3. h = [g EXCEPT !.ins = left]
  BY <1>1, <1>2 DEF Algebra!OptUnusedVars, NeededIn, LeftOf, KeptOf
<1> HIDE DEF needed
<1>4. h.ins = left /\ h.blocks = g.blocks
  BY <1>3
<1>5. Appends(R)
  <2>1. << << >>, << >> >> \in R
    <3>1. << >> \in Seq(BlockInstrs) /\ Len(<< >>) = 0
      BY EmptySeq
    <3>2. Leaves(needed, << >>, << >>, [j \in 1 .. 0 |-> 0])
      BY <3>1 DEF Leaves
    <3> QED BY <3>1, <3>2 DEF LeavesOut
  <2>2. ASSUME NEW p \in R, NEW q \in R PROVE <<p[1] \o q[1], p[2] \o q[2]>> \in R
    <3>1. /\ p[1] \in Seq(BlockInstrs) /\ p[2] \in Seq(BlockInstrs) /\ LeavesOut(needed, p[1], p[2])
          /\ q[1] \in Seq(BlockInstrs) /\ q[2] \in Seq(BlockInstrs) /\ LeavesOut(needed, q[1], q[2])
      OBVIOUS
    <3>2. LeavesOut(needed, p[1] \o q[1], p[2] \o q[2])
      BY <3>1, LeavesAppend
    <3>3. p[1] \o q[1] \in Seq(BlockInstrs) /\ p[2] \o q[2] \in Seq(BlockInstrs)
      BY <3>1
    <3> QED BY <3>2, <3>3
  <2> HIDE DEF R
  <2> QED BY <2>1, <2>2 DEF Appends
<1>6. \A b \in g.blocks : <<g.ins[b], left[b]>> \in R
  BY BlockLeaves
<1>7. <<Prop!FlatOf(g.blocks, g.ins), Prop!FlatOf(g.blocks, left)>> \in R
  <2> HIDE DEF R, left
  <2> QED BY <1>5, <1>6, CodeRelates
<1>8. <<Code(g), Code(h)>> \in R
  <2> HIDE DEF R, left, h
  <2> QED BY <1>4, <1>7 DEF Code, Prop!Flat
<1> QED BY <1>8 DEF needed

\* opt_unused_vars in the optimizer: whatever the passes before it have left, it drops no
\* assignment something reads, on no input and however long the program runs
\* (optimize.c:148-226).
THEOREM UnusedAlwaysRight == []GraphOK => UnusedRight
<1>1. ASSUME GraphOK, OptUnusedVars PROVE Keeps(graph, graph')
  <2>1. graph # NoGraph /\ graph.failed = "no" /\ graph' = Algebra!OptUnusedVars(graph)
    BY <1>1 DEF OptUnusedVars, Runs
  <2>2. /\ "ins" \in DOMAIN graph /\ "blocks" \in DOMAIN graph /\ "failed" \in DOMAIN graph
        /\ graph.blocks \in SUBSET Nat /\ IsFiniteSet(graph.blocks)
        /\ \A b \in graph.blocks : graph.ins[b] \in Seq(BlockInstrs)
        /\ LabelsOnce(Code(graph))
    BY <1>1, <2>1 DEF GraphOK
  <2>3. graph'.failed = "no"
    BY <2>1, <2>2, Zenon DEF Algebra!OptUnusedVars
  <2>4. /\ Code(graph) \in Seq(BlockInstrs) /\ Code(graph') \in Seq(BlockInstrs)
        /\ LeavesOut(NeededIn(Code(graph)), Code(graph), Code(graph'))
    BY <2>1, <2>2, CodeLeavesOut
  <2>5. /\ NeededIn(Code(graph)) \in SUBSET Vars
        /\ \A p \in DOMAIN Code(graph) : Uses(Code(graph)[p]) \subseteq NeededIn(Code(graph))
    BY <2>4, NeededOK
  <2>6. ASSUME NEW input \in Inputs PROVE KeepsOutput(Code(graph), Code(graph'), input)
    BY <2>2, <2>4, <2>5, <2>6, UnusedKeepsOutput, InputsAssumption
  <2> QED BY <2>3, <2>6 DEF Keeps
<1>2. GraphOK => [OptUnusedVars => Keeps(graph, graph')]_vars
  BY <1>1
<1> QED BY <1>2, PTL DEF UnusedRight

-----------------------------------------------------------------------------
(* Folding a sequence.  A fold is what its steps lead to, one after the other, *)
(* if all that they come to lies in some set.                                *)

\* The last of the places up to n + 1.
LEMMA MaxOf ==
  ASSUME NEW n \in Nat
  PROVE  Prop!Max(1 .. n + 1) = n + 1 /\ (1 .. n + 1) \ {n + 1} = 1 .. n
<1>1. n + 1 \in 1 .. n + 1 /\ \A y \in 1 .. n + 1 : n + 1 >= y
  OBVIOUS
<1>2. \A x \in 1 .. n + 1 : (\A y \in 1 .. n + 1 : x >= y) => x = n + 1
  OBVIOUS
<1> QED BY <1>1, <1>2 DEF Prop!Max

\* The last of the places up to one of a list.
LEMMA MaxAt ==
  ASSUME NEW N \in Nat, NEW seq, DOMAIN seq = 1 .. N, NEW n \in 1 .. N
  PROVE  /\ (1 .. n) \in SUBSET DOMAIN seq /\ 1 .. n # {}
         /\ Prop!Max(1 .. n) = n /\ (1 .. n) \ {n} = 1 .. n - 1
<1>1. n - 1 \in Nat /\ (n - 1) + 1 = n
  OBVIOUS
<1>2. Prop!Max(1 .. n) = n /\ (1 .. n) \ {n} = 1 .. n - 1
  BY <1>1, MaxOf
<1>3. (1 .. n) \in SUBSET DOMAIN seq /\ n \in 1 .. n
  OBVIOUS
<1> QED BY <1>2, <1>3

\* A set of places has a last one.
LEMMA MaxExists ==
  ASSUME NEW N \in Nat, NEW s \in SUBSET (1 .. N), s # {}
  PROVE  Prop!Max(s) \in s /\ \A y \in s : Prop!Max(s) >= y
<1> DEFINE S == {n \in Nat : \A t \in SUBSET (1 .. n) :
                   t # {} => \E x \in t : \A y \in t : x >= y}
<1>1. 0 \in S
  <2>1. 1 .. 0 = {}
    OBVIOUS
  <2> QED BY <2>1
<1>2. ASSUME NEW n \in Nat, n \in S PROVE n + 1 \in S
  <2>1. SUFFICES ASSUME NEW t \in SUBSET (1 .. n + 1), t # {}
                 PROVE  \E x \in t : \A y \in t : x >= y
    OBVIOUS
  <2>2. CASE n + 1 \in t
    BY <2>2
  <2>3. CASE n + 1 \notin t
    <3>1. t \in SUBSET (1 .. n)
      BY <2>3
    <3> QED BY <1>2, <2>1, <3>1
  <2> QED BY <2>2, <2>3
<1>3. Nat \subseteq S
  <2> HIDE DEF S
  <2> QED BY <1>1, <1>2, NatSetInduction
<1>4. \E x \in s : \A y \in s : x >= y
  BY <1>3
<1> QED BY <1>4 DEF Prop!Max

\* it gives each set of places what the steps at these places come to.
IsFold(F, base, N, it) ==
    it = [s \in SUBSET (1 .. N) |->
            IF s = {} THEN base ELSE F[<<it[s \ {Prop!Max(s)}], Prop!Max(s)>>]]

\* A fold by F that stays in G.
HasFold(G, F, base, N) == \E it \in [SUBSET (1 .. N) -> G] : IsFold(F, base, N, it)

\* There is one: by induction over the number of places.
LEMMA FoldExists ==
  ASSUME NEW G, NEW base \in G, NEW M \in Nat, NEW F \in [G \X (1 .. M) -> G]
  PROVE  HasFold(G, F, base, M)
<1> DEFINE S == {N \in Nat : N <= M => HasFold(G, F, base, N)}
<1>1. 0 \in S
  <2> DEFINE it == [s \in SUBSET (1 .. 0) |-> base]
  <2>1. \A s \in SUBSET (1 .. 0) : s = {}
    OBVIOUS
  <2>2. it \in [SUBSET (1 .. 0) -> G]
    OBVIOUS
  <2>3. it = [s \in SUBSET (1 .. 0) |->
                IF s = {} THEN base ELSE F[<<it[s \ {Prop!Max(s)}], Prop!Max(s)>>]]
    BY <2>1
  <2> HIDE DEF it
  <2> QED BY <2>2, <2>3 DEF IsFold, HasFold
<1>2. ASSUME NEW N \in Nat, N \in S PROVE N + 1 \in S
  <2>1. SUFFICES ASSUME N + 1 <= M PROVE HasFold(G, F, base, N + 1)
    OBVIOUS
  <2>2. PICK f \in [SUBSET (1 .. N) -> G] : IsFold(F, base, N, f)
    <3>1. HasFold(G, F, base, N)
      BY <1>2, <2>1
    <3> QED BY <3>1 DEF HasFold
  <2> DEFINE it == [s \in SUBSET (1 .. N + 1) |->
                      IF N + 1 \in s THEN F[<<f[s \ {N + 1}], N + 1>>] ELSE f[s]]
  <2>3. ASSUME NEW s \in SUBSET (1 .. N + 1)
        PROVE  it[s] \in G /\ it[s] = IF s = {} THEN base ELSE F[<<it[s \ {Prop!Max(s)}], Prop!Max(s)>>]
    <3>1. \A t \in SUBSET (1 .. N) : t \in SUBSET (1 .. N + 1) /\ it[t] = f[t] /\ f[t] \in G
      OBVIOUS
    <3>2. CASE N + 1 \in s
      <4>1. s \ {N + 1} \in SUBSET (1 .. N)
        OBVIOUS
      <4>2. Prop!Max(s) = N + 1
        <5>1. N + 1 \in Nat /\ s # {}
          BY <3>2
        <5>2. Prop!Max(s) \in s /\ \A y \in s : Prop!Max(s) >= y
          BY <5>1, MaxExists
        <5>3. Prop!Max(s) \in 1 .. N + 1 /\ Prop!Max(s) >= N + 1
          BY <3>2, <5>2
        <5> QED BY <5>3
      <4>3. it[s] = F[<<f[s \ {N + 1}], N + 1>>]
        BY <3>2
      <4>4. <<f[s \ {N + 1}], N + 1>> \in G \X (1 .. M)
        BY <2>1, <4>1
      <4> HIDE DEF it
      <4> QED BY <3>1, <3>2, <4>1, <4>2, <4>3, <4>4
    <3>3. CASE N + 1 \notin s
      <4>1. s \in SUBSET (1 .. N)
        BY <3>3
      <4>2. it[s] = f[s] /\ f[s] = IF s = {} THEN base ELSE F[<<f[s \ {Prop!Max(s)}], Prop!Max(s)>>]
        BY <2>2, <3>1, <4>1 DEF IsFold
      <4>3. s # {} => s \ {Prop!Max(s)} \in SUBSET (1 .. N)
        BY <4>1
      <4> HIDE DEF it
      <4> QED BY <3>1, <4>1, <4>2, <4>3
    <3> QED BY <3>2, <3>3
  <2>4. it = [s \in SUBSET (1 .. N + 1) |-> it[s]]
    OBVIOUS
  <2> HIDE DEF it
  <2>5. it \in [SUBSET (1 .. N + 1) -> G]
    BY <2>3, <2>4
  <2>6. IsFold(F, base, N + 1, it)
    BY <2>3, <2>4 DEF IsFold
  <2> QED BY <2>5, <2>6 DEF HasFold
<1>3. Nat \subseteq S
  <2> HIDE DEF S
  <2> QED BY <1>1, <1>2, NatSetInduction
<1> QED BY <1>3

\* The same, place by place.
FoldOf(G, F, base, N, f) ==
    /\ f \in [SUBSET (1 .. N) -> G]
    /\ f[{}] = base
    /\ \A s \in SUBSET (1 .. N) :
         s # {} => /\ Prop!Max(s) \in 1 .. N
                   /\ f[s \ {Prop!Max(s)}] \in G
                   /\ f[s] = F[<<f[s \ {Prop!Max(s)}], Prop!Max(s)>>]

\* The fold, place by place.
LEMMA FoldIn ==
  ASSUME NEW G, NEW base \in G, NEW N \in Nat, NEW F \in [G \X (1 .. N) -> G]
  PROVE  \E f : FoldOf(G, F, base, N, f)
<1>1. PICK f \in [SUBSET (1 .. N) -> G] : IsFold(F, base, N, f)
  BY FoldExists DEF HasFold
<1>2. \A s \in SUBSET (1 .. N) : f[s] = IF s = {} THEN base ELSE F[<<f[s \ {Prop!Max(s)}], Prop!Max(s)>>]
  BY <1>1 DEF IsFold
<1>3. f[{}] = base
  BY <1>2
<1>4. ASSUME NEW s \in SUBSET (1 .. N), s # {}
      PROVE  Prop!Max(s) \in 1 .. N /\ s \ {Prop!Max(s)} \in SUBSET (1 .. N)
  <2>1. Prop!Max(s) \in s
    BY <1>4, MaxExists
  <2> QED BY <2>1
<1> QED BY <1>2, <1>3, <1>4 DEF FoldOf

\* Whatever agrees with F on G and goes through the same steps comes to a member of G,
\* by way of others.
LEMMA FoldStays ==
  ASSUME NEW G, NEW N \in Nat, NEW it, it[{}] \in G,
         \A n \in 1 .. N : it[1 .. n - 1] \in G => it[1 .. n] \in G
  PROVE  it[1 .. N] \in G
<1> DEFINE S == {n \in Nat : n <= N => it[1 .. n] \in G}
<1>1. 0 \in S
  <2>1. 1 .. 0 = {}
    OBVIOUS
  <2> QED BY <2>1
<1>2. ASSUME NEW n \in Nat, n \in S PROVE n + 1 \in S
  <2>1. SUFFICES ASSUME n + 1 <= N PROVE it[1 .. n + 1] \in G
    OBVIOUS
  <2>2. n + 1 \in 1 .. N /\ (n + 1) - 1 = n /\ n <= N
    BY <2>1
  <2> QED BY <1>2, <2>2
<1>3. Nat \subseteq S
  <2> HIDE DEF S
  <2> QED BY <1>1, <1>2, NatSetInduction
<1> QED BY <1>3

-----------------------------------------------------------------------------
(* bb_compact leaves a graph of blocks.                                   *)

\* What bb_t.pred may hold.
PredArrays == [1 .. MaxPredecessors -> Int]

\* COMPACT_PREDECESSORS writes nothing but what was there (3ac.h).
LEMMA CompactPredsOK ==
  ASSUME NEW a \in PredArrays
  PROVE  Prop!CompactPreds(a) \in PredArrays
<1> DEFINE Go(c, j) ==
             IF c.a[j] = Prop!NoBlock THEN c
             ELSE IF j # 1 /\ c.last # j - 1
             THEN [a |-> [c.a EXCEPT ![c.last + 1] = c.a[j]], last |-> c.last + 1]
             ELSE [c EXCEPT !.last = j]
           G == [a : PredArrays, last : Nat]
           N == MaxPredecessors
           base == [a |-> a, last |-> 1]
           seq == [i \in DOMAIN a |-> i]
           F == [p \in G \X (1 .. N) |-> Go(p[1], seq[p[2]])]
           it == CHOOSE w : w = [s \in SUBSET DOMAIN seq |->
                   IF s = {} THEN base ELSE Go(w[s \ {Prop!Max(s)}], seq[Prop!Max(s)])]
<1>1. N \in Nat /\ DOMAIN a = 1 .. N /\ DOMAIN seq = 1 .. N /\ \A n \in 1 .. N : seq[n] = n
  BY SymbolsAssumption DEF PredArrays
<1>2. base \in G
  OBVIOUS
<1>3. ASSUME NEW c \in G, NEW j \in 1 .. N PROVE Go(c, seq[j]) \in G
  <2>1. c.a \in PredArrays /\ c.last \in Nat /\ j \in Nat /\ c.a[j] \in Int /\ seq[j] = j
    BY <1>1 DEF PredArrays
  <2>2. [c.a EXCEPT ![c.last + 1] = c.a[j]] \in PredArrays
    BY <2>1 DEF PredArrays
  <2> QED BY <2>1, <2>2
<1>4. PICK f : FoldOf(G, F, base, N, f)
  <2>1. F \in [G \X (1 .. N) -> G]
    <3> HIDE DEF Go, G, N, seq
    <3> QED BY <1>3
  <2> HIDE DEF F, G, N, base
  <2> QED BY <1>1, <1>2, <2>1, FoldIn
<1>5. f = [s \in SUBSET DOMAIN seq |->
             IF s = {} THEN base ELSE Go(f[s \ {Prop!Max(s)}], seq[Prop!Max(s)])]
  <2>1. \A c \in G, n \in 1 .. N : F[<<c, n>>] = Go(c, seq[n])
    <3> HIDE DEF Go, G, N, seq
    <3> QED OBVIOUS
  <2> HIDE DEF Go, F, G, N, base, seq
  <2>2. ASSUME NEW s \in SUBSET (1 .. N)
        PROVE  f[s] = IF s = {} THEN base ELSE Go(f[s \ {Prop!Max(s)}], seq[Prop!Max(s)])
    BY <1>4, <2>1 DEF FoldOf
  <2>3. f = [s \in SUBSET (1 .. N) |-> f[s]]
    BY <1>4 DEF FoldOf
  <2> QED BY <1>1, <2>2, <2>3
<1>6. it = [s \in SUBSET DOMAIN seq |->
              IF s = {} THEN base ELSE Go(it[s \ {Prop!Max(s)}], seq[Prop!Max(s)])]
  <2> HIDE DEF Go, F, G, N, base, seq
  <2> QED BY <1>5, Zenon
<1>7. it[1 .. N] \in G
  <2>1. N \in Nat /\ DOMAIN seq = 1 .. N /\ base \in G
    BY <1>1, <1>2
  <2>2. \A c \in G, n \in 1 .. N : Go(c, seq[n]) \in G
    BY <1>3
  <2> HIDE DEF Go, F, G, N, base, seq, it
  <2>3. it[{}] = base
    BY <1>6
  <2>4. ASSUME NEW n \in 1 .. N PROVE it[1 .. n] = Go(it[1 .. n - 1], seq[n])
    <3>1. /\ (1 .. n) \in SUBSET DOMAIN seq /\ 1 .. n # {} /\ Prop!Max(1 .. n) = n
          /\ (1 .. n) \ {n} = 1 .. n - 1
      BY <2>1, MaxAt
    <3>2. it[1 .. n] = Go(it[(1 .. n) \ {Prop!Max(1 .. n)}], seq[Prop!Max(1 .. n)])
      BY <1>6, <3>1
    <3> QED BY <3>1, <3>2
  <2>5. it[{}] \in G /\ \A n \in 1 .. N : it[1 .. n - 1] \in G => it[1 .. n] \in G
    BY <2>1, <2>2, <2>3, <2>4
  <2> QED BY <2>1, <2>5, FoldStays
<1>8. Prop!CompactPreds(a) = it[DOMAIN seq].a
  BY Zenon DEF Prop!CompactPreds, Prop!FoldLeftDomain, Prop!FoldLeft, Prop!MapThenFoldSet
<1> HIDE DEF it
<1> QED BY <1>1, <1>7, <1>8

\* The graphs of a program's blocks D, with operands that are no NULL.
GraphsOf(D) ==
    [blocks : SUBSET D, next : [D -> Int], jmp : [D -> Int], pred : [D -> PredArrays],
     ins : [D -> Seq(BlockInstrs)], gone : SUBSET D, changed : BOOLEAN,
     failed : {"no", "null", "freed", "zero"}]

\* An entry of pred is set.
LEMMA PutIn ==
  ASSUME NEW a \in PredArrays, NEW k, NEW n \in Int
  PROVE  [a EXCEPT ![k] = n] \in PredArrays
BY DEF PredArrays

\* The compiler stops.
LEMMA FailedIn ==
  ASSUME NEW D, NEW g \in GraphsOf(D), NEW why \in {"no", "null", "freed", "zero"}
  PROVE  Prop!Failed(g, why) \in GraphsOf(D)
BY DEF GraphsOf, Prop!Failed

\* The unreachable blocks are freed.
LEMMA FreedIn ==
  ASSUME NEW D, NEW g \in GraphsOf(D)
  PROVE  Prop!Freed(g) \in GraphsOf(D)
BY DEF GraphsOf, Prop!Freed

\* A block leaves every pred.
LEMMA RemoveIn ==
  ASSUME NEW D, NEW g \in GraphsOf(D), NEW rem
  PROVE  /\ Prop!RemovePredecessors(g, rem) \in GraphsOf(D)
         /\ Prop!RemovePredecessors(g, rem)
              = [g EXCEPT !.pred = Prop!RemovePredecessors(g, rem).pred]
<1> DEFINE n(b) == {j \in DOMAIN Prop!PredsOf(g, b) : g.pred[b][j] = rem}
           Without(b) == IF n(b) = {} THEN g.pred[b]
                         ELSE [g.pred[b] EXCEPT ![CHOOSE j \in n(b) : \A h \in n(b) : j <= h]
                                 = Prop!NoBlock]
           P == [b \in DOMAIN g.pred |->
                   IF b \in g.blocks \ g.gone THEN Prop!CompactPreds(Without(b)) ELSE g.pred[b]]
<1>1. Prop!RemovePredecessors(g, rem) = [g EXCEPT !.pred = P]
  BY Zenon DEF Prop!RemovePredecessors
<1>2. ASSUME NEW b \in D PROVE P[b] \in PredArrays
  <2>1. g.pred[b] \in PredArrays /\ b \in DOMAIN g.pred
    BY DEF GraphsOf
  <2>2. Without(b) \in PredArrays
    <3> DEFINE k == CHOOSE j \in n(b) : \A h \in n(b) : j <= h
    <3>1. [g.pred[b] EXCEPT ![k] = Prop!NoBlock] \in PredArrays
      <4>1. Prop!NoBlock \in Int
        BY DEF Prop!NoBlock
      <4> HIDE DEF k
      <4> QED BY <2>1, <4>1, PutIn
    <3> HIDE DEF n
    <3> QED BY <2>1, <3>1
  <2> HIDE DEF Without
  <2> QED BY <2>1, <2>2, CompactPredsOK
<1>3. P = [b \in D |-> P[b]]
  BY DEF GraphsOf
<1> HIDE DEF P
<1>4. P \in [D -> PredArrays]
  BY <1>2, <1>3
<1> QED BY <1>1, <1>4 DEF GraphsOf

\* A block enters a pred.
LEMMA AddIn ==
  ASSUME NEW D, NEW g \in GraphsOf(D), NEW dst \in Int, NEW src \in Int
  PROVE  Prop!AddPredecessor(g, dst, src) \in GraphsOf(D)
<1> DEFINE holes == {j \in DOMAIN g.pred[dst] : g.pred[dst][j] = Prop!NoBlock}
           k == CHOOSE j \in holes : \A h \in holes : j <= h
<1>1. CASE dst \in g.blocks
  <2>1. [g EXCEPT !.pred[dst][k] = src] \in GraphsOf(D)
    <3> HIDE DEF k
    <3>1. g.pred[dst] \in PredArrays /\ dst \in D
      BY <1>1 DEF GraphsOf
    <3>2. [g.pred[dst] EXCEPT ![k] = src] \in PredArrays
      BY <3>1, PutIn
    <3>3. [g.pred EXCEPT ![dst] = [g.pred[dst] EXCEPT ![k] = src]] \in [D -> PredArrays]
      BY <3>1, <3>2 DEF GraphsOf
    <3> QED BY <3>3 DEF GraphsOf
  <2>2. Prop!AddPredecessor(g, dst, src) \in {g, [g EXCEPT !.pred[dst][k] = src]}
    BY <1>1, Zenon DEF Prop!AddPredecessor
  <2> QED BY <2>1, <2>2
<1>2. CASE dst \notin g.blocks
  <2>1. Prop!AddPredecessor(g, dst, src) \in {g, Prop!Failed(g, "freed")}
    BY <1>2, Zenon DEF Prop!AddPredecessor
  <2> QED BY <2>1, FailedIn
<1> QED BY <1>1, <1>2

\* A block takes over what the one behind it holds.
LEMMA JoinedIn ==
  ASSUME NEW D, D \subseteq Int, NEW g \in GraphsOf(D), NEW b \in D, NEW n \in D,
         NEW s \in Seq(BlockInstrs), NEW t \in Seq(BlockInstrs)
  PROVE  Prop!Joined(g, b, s, n, t) \in GraphsOf(D)
<1> DEFINE h == [g EXCEPT !.changed = TRUE, !.ins[b] = s \o t, !.ins[n] = t,
                          !.next[b] = g.next[n],
                          !.jmp[b] = g.jmp[n], !.gone = @ \cup {n}]
           r == Prop!RemovePredecessors(h, n)
<1>1. h \in GraphsOf(D)
  <2>1. s \o t \in Seq(BlockInstrs)
    BY DEF GraphsOf
  <2>2. [[g.ins EXCEPT ![b] = s \o t] EXCEPT ![n] = t] \in [D -> Seq(BlockInstrs)]
    BY <2>1 DEF GraphsOf
  <2>3. [g.next EXCEPT ![b] = g.next[n]] \in [D -> Int] /\ [g.jmp EXCEPT ![b] = g.jmp[n]] \in [D -> Int]
    BY <2>1 DEF GraphsOf
  <2> QED BY <2>1, <2>2, <2>3 DEF GraphsOf
<1> HIDE DEF h
<1>2. r \in GraphsOf(D) /\ r.next[b] \in Int /\ b \in Int
  <2>1. r \in GraphsOf(D)
    BY <1>1, RemoveIn
  <2> QED BY <2>1 DEF GraphsOf
<1>3. Prop!Joined(g, b, s, n, t) = Prop!AddPredecessor(r, r.next[b], b)
  BY Zenon DEF Prop!Joined, h
<1> HIDE DEF r
<1> QED BY <1>2, <1>3, AddIn

\* What may be read through a pointer is a block.
LEMMA ThroughIs ==
  ASSUME NEW D, NEW g \in GraphsOf(D), NEW b
  PROVE  /\ Prop!Through(g, b) \in {"no", "null", "freed"}
         /\ Prop!Through(g, b) = "no" => b \in g.blocks
BY DEF GraphsOf, Prop!Through

\* The block behind is joined, and a last instruction may be dropped.
LEMMA JoinBehindIn ==
  ASSUME NEW D, D \subseteq Int, NEW g \in GraphsOf(D), NEW b \in D, g.ins[b] # << >>, NEW n,
         NEW drop \in {0, 1}
  PROVE  Prop!JoinBehind(g, b, n, drop) \in GraphsOf(D)
<1>1. CASE Prop!Through(g, n) # "no"
  <2>1. Prop!JoinBehind(g, b, n, drop) = Prop!Failed(g, Prop!Through(g, n))
    BY <1>1, Zenon DEF Prop!JoinBehind
  <2> QED BY <2>1, ThroughIs, FailedIn
<1>2. CASE Prop!Through(g, n) = "no"
  <2> DEFINE s == Prop!Front(g.ins[b])  t == SubSeq(g.ins[n], drop + 1, Len(g.ins[n]))
  <2>1. n \in g.blocks /\ n \in D
    BY <1>2, ThroughIs DEF GraphsOf
  <2>2. g.ins[b] \in Seq(BlockInstrs) /\ g.ins[n] \in Seq(BlockInstrs)
    BY <2>1 DEF GraphsOf
  <2>3. s \in Seq(BlockInstrs) /\ t \in Seq(BlockInstrs)
    <3>1. Len(g.ins[b]) \in Nat \ {0} /\ Len(g.ins[n]) \in Nat
      BY <2>2
    <3> QED BY <2>2, <3>1 DEF Prop!Front
  <2>4. Prop!JoinBehind(g, b, n, drop) = Prop!Joined(g, b, s, n, t)
    BY <1>2, Zenon DEF Prop!JoinBehind
  <2> HIDE DEF s, t
  <2> QED BY <2>1, <2>3, <2>4, JoinedIn
<1> QED BY <1>1, <1>2

\* A TIFF with one way left goes, and a TJMP to the next block.
LEMMA DropTestIn ==
  ASSUME NEW D, D \subseteq Int, NEW g \in GraphsOf(D), NEW b \in D
  PROVE  Prop!DropTest(g, b) \in GraphsOf(D)
<1> DEFINE way == Prop!JoinBehind(g, b, g.next[b], 0)
           other == Prop!JoinBehind(g, b, g.jmp[b], 1)
<1>1. CASE g.ins[b] = << >>
  <2>1. Prop!DropTest(g, b) \in {g, Prop!Failed(g, "null")}
    BY <1>1, Zenon DEF Prop!DropTest, Prop!Empty
  <2> QED BY <2>1, FailedIn
<1>2. CASE g.ins[b] # << >>
  <2>1. Prop!DropTest(g, b) \in {g, way, other, Prop!Failed(g, "null")}
    BY <1>2, Zenon DEF Prop!DropTest, Prop!Empty
  <2>2. way \in GraphsOf(D) /\ other \in GraphsOf(D) /\ Prop!Failed(g, "null") \in GraphsOf(D)
    BY <1>2, JoinBehindIn, FailedIn
  <2> HIDE DEF way, other
  <2> QED BY <2>1, <2>2
<1> QED BY <1>1, <1>2

\* A block joins the one in front, if only that one comes to it.
LEMMA UnlabelIn ==
  ASSUME NEW D, D \subseteq Int, NEW g \in GraphsOf(D), NEW b \in D
  PROVE  Prop!Unlabel(g, b) \in GraphsOf(D)
<1> DEFINE p == g.pred[b][1]
           joined == Prop!Joined(g, p, g.ins[p], b, Tail(g.ins[b]))
<1>1. CASE g.ins[b] = << >> \/ Prop!Through(g, p) # "no"
  <2>1. Prop!Unlabel(g, b) \in {g, Prop!Failed(g, "null"), Prop!Failed(g, Prop!Through(g, p))}
    BY <1>1, Zenon DEF Prop!Unlabel, Prop!Empty
  <2> HIDE DEF p
  <2>2. Prop!Failed(g, Prop!Through(g, p)) \in GraphsOf(D)
    BY ThroughIs, FailedIn
  <2> QED BY <2>1, <2>2, FailedIn
<1>2. CASE g.ins[b] # << >> /\ Prop!Through(g, p) = "no"
  <2>1. Prop!Unlabel(g, b) \in {g, joined}
    BY <1>2, Zenon DEF Prop!Unlabel, Prop!Empty
  <2>2. p \in D
    <3>1. p \in g.blocks
      BY <1>2, ThroughIs
    <3> QED BY <3>1 DEF GraphsOf
  <2>3. g.ins[p] \in Seq(BlockInstrs) /\ g.ins[b] \in Seq(BlockInstrs) /\ g.ins[b] # << >>
    BY <1>2, <2>2 DEF GraphsOf
  <2>4. Tail(g.ins[b]) \in Seq(BlockInstrs)
    BY <2>3
  <2> HIDE DEF p
  <2>5. joined \in GraphsOf(D)
    BY <2>2, <2>3, <2>4, JoinedIn
  <2> HIDE DEF joined
  <2> QED BY <2>1, <2>5
<1> QED BY <1>1, <1>2

\* How far a loop over pred comes.
LEMMA PredsOfIs ==
  ASSUME NEW D, NEW g \in GraphsOf(D), NEW b \in D
  PROVE  /\ Len(Prop!PredsOf(g, b)) \in Nat
         /\ DOMAIN Prop!PredsOf(g, b) = 1 .. Len(Prop!PredsOf(g, b))
<1> DEFINE S == {j \in DOMAIN g.pred[b] : \A h \in 1 .. j : g.pred[b][h] # Prop!NoBlock}
<1>1. S \subseteq 1 .. MaxPredecessors /\ MaxPredecessors \in Nat
  BY SymbolsAssumption DEF GraphsOf, PredArrays
<1>2. Cardinality(S) \in Nat
  <2>1. IsFiniteSet(1 .. MaxPredecessors)
    BY <1>1, FS_Interval
  <2>2. IsFiniteSet(S)
    <3> HIDE DEF S
    <3> QED BY <1>1, <2>1, FS_Subset
  <2> HIDE DEF S
  <2> QED BY <2>2, FS_CardinalityType
<1>3. Prop!PredsOf(g, b) = SubSeq(g.pred[b], 1, Cardinality(S))
  BY Zenon DEF Prop!PredsOf, Prop!Cardinality, Cardinality
<1> HIDE DEF S
<1> QED BY <1>2, <1>3

\* Whoever leads to an unreachable block leads to what is behind it.
LEMMA BypassIn ==
  ASSUME NEW D, D \subseteq Int, NEW g \in GraphsOf(D), NEW b \in D
  PROVE  Prop!Bypass(g, b) \in GraphsOf(D)
<1> DEFINE Go(h, p) ==
             IF ~ Prop!Running(h) THEN h
             ELSE IF p \notin h.blocks THEN Prop!Failed(h, "freed")
             ELSE [h EXCEPT !.next[p] = IF @ = b THEN h.next[b] ELSE @,
                            !.jmp[p] = IF @ = b THEN h.jmp[b] ELSE @]
           G == GraphsOf(D)
           r == Prop!RemovePredecessors(g, b)
           base == [r EXCEPT !.changed = TRUE]
           seq == Prop!PredsOf(r, b)
           N == Len(seq)
           F == [p \in G \X (1 .. N) |-> Go(p[1], seq[p[2]])]
           it == CHOOSE w : w = [s \in SUBSET DOMAIN seq |->
                   IF s = {} THEN base ELSE Go(w[s \ {Prop!Max(s)}], seq[Prop!Max(s)])]
<1>0. r \in G
  BY RemoveIn
<1>1. N \in Nat /\ DOMAIN seq = 1 .. N
  <2> HIDE DEF r
  <2> QED BY <1>0, PredsOfIs
<1>2. base \in G
  <2> HIDE DEF r
  <2> QED BY <1>0 DEF GraphsOf
<1>3. ASSUME NEW c \in G, NEW j \in 1 .. N PROVE Go(c, seq[j]) \in G
  <2> DEFINE p == seq[j]
             u == [c EXCEPT !.next[p] = IF @ = b THEN c.next[b] ELSE @,
                            !.jmp[p] = IF @ = b THEN c.jmp[b] ELSE @]
  <2>1. Go(c, p) \in {c, Prop!Failed(c, "freed"), u}
    BY Zenon
  <2>2. u \in G
    <3> HIDE DEF p
    <3> QED BY DEF GraphsOf
  <2>3. Prop!Failed(c, "freed") \in G
    BY FailedIn
  <2> HIDE DEF u
  <2> QED BY <2>1, <2>2, <2>3
<1>4. PICK f : FoldOf(G, F, base, N, f)
  <2>1. F \in [G \X (1 .. N) -> G]
    <3> HIDE DEF Go, G, N, seq
    <3> QED BY <1>3
  <2> HIDE DEF F, G, N, base
  <2> QED BY <1>1, <1>2, <2>1, FoldIn
<1>5. f = [s \in SUBSET DOMAIN seq |->
             IF s = {} THEN base ELSE Go(f[s \ {Prop!Max(s)}], seq[Prop!Max(s)])]
  <2>1. \A c \in G, n \in 1 .. N : F[<<c, n>>] = Go(c, seq[n])
    <3> HIDE DEF Go, G, N, seq
    <3> QED OBVIOUS
  <2> HIDE DEF Go, F, G, N, base, seq
  <2>2. ASSUME NEW s \in SUBSET (1 .. N)
        PROVE  f[s] = IF s = {} THEN base ELSE Go(f[s \ {Prop!Max(s)}], seq[Prop!Max(s)])
    BY <1>4, <2>1 DEF FoldOf
  <2>3. f = [s \in SUBSET (1 .. N) |-> f[s]]
    BY <1>4 DEF FoldOf
  <2> QED BY <1>1, <2>2, <2>3
<1>6. it = [s \in SUBSET DOMAIN seq |->
              IF s = {} THEN base ELSE Go(it[s \ {Prop!Max(s)}], seq[Prop!Max(s)])]
  <2> HIDE DEF Go, F, G, N, base, seq
  <2> QED BY <1>5, Zenon
<1>7. it[1 .. N] \in G
  <2>1. N \in Nat /\ DOMAIN seq = 1 .. N /\ base \in G
    BY <1>1, <1>2
  <2>2. \A c \in G, n \in 1 .. N : Go(c, seq[n]) \in G
    BY <1>3
  <2> HIDE DEF Go, F, G, N, base, seq, it
  <2>3. it[{}] = base
    BY <1>6
  <2>4. ASSUME NEW n \in 1 .. N PROVE it[1 .. n] = Go(it[1 .. n - 1], seq[n])
    <3>1. /\ (1 .. n) \in SUBSET DOMAIN seq /\ 1 .. n # {} /\ Prop!Max(1 .. n) = n
          /\ (1 .. n) \ {n} = 1 .. n - 1
      BY <2>1, MaxAt
    <3>2. it[1 .. n] = Go(it[(1 .. n) \ {Prop!Max(1 .. n)}], seq[Prop!Max(1 .. n)])
      BY <1>6, <3>1
    <3> QED BY <3>1, <3>2
  <2>5. it[{}] \in G /\ \A n \in 1 .. N : it[1 .. n - 1] \in G => it[1 .. n] \in G
    BY <2>1, <2>2, <2>3, <2>4
  <2> QED BY <2>1, <2>5, FoldStays
<1>8. Prop!Bypass(g, b) \in {g, it[DOMAIN seq]}
  BY Zenon DEF Prop!Bypass, Prop!FoldLeft, Prop!MapThenFoldSet
<1> HIDE DEF it
<1> QED BY <1>1, <1>7, <1>8

\* The three walks over the blocks.  Each is a fold that stays among the graphs.
LEMMA BypassWalkIn ==
  ASSUME NEW D \in SUBSET Nat, IsFiniteSet(D), NEW g \in GraphsOf(D)
  PROVE  Prop!OverBlocks(Prop!Bypass, g) \in GraphsOf(D)
<1> DEFINE Go(h, b) == Prop!Bypass(h, b)
           G == GraphsOf(D)
           base == g
           seq == Prop!InOrder(g.blocks)
           N == Cardinality(g.blocks)
           F == [p \in G \X (1 .. N) |-> Go(p[1], seq[p[2]])]
           it == CHOOSE w : w = [s \in SUBSET DOMAIN seq |->
                   IF s = {} THEN base ELSE Go(w[s \ {Prop!Max(s)}], seq[Prop!Max(s)])]
<1>0. g.blocks \in SUBSET D /\ IsFiniteSet(g.blocks)
  <2>1. g.blocks \in SUBSET D
    BY DEF GraphsOf
  <2> QED BY <2>1, FS_Subset
<1>1. N \in Nat /\ DOMAIN seq = 1 .. N /\ \A n \in 1 .. N : seq[n] \in D
  BY <1>0, InOrderIs
<1>2. base \in G
  OBVIOUS
<1>3. ASSUME NEW c \in G, NEW n \in 1 .. N PROVE Go(c, seq[n]) \in G
  <2>1. seq[n] \in D /\ D \subseteq Int
    BY <1>1
  <2> HIDE DEF seq
  <2> QED BY <2>1, BypassIn
<1>4. PICK f : FoldOf(G, F, base, N, f)
  <2>1. F \in [G \X (1 .. N) -> G]
    <3> HIDE DEF Go, G, N, seq
    <3> QED BY <1>3
  <2> HIDE DEF F, G, N, base
  <2> QED BY <1>1, <1>2, <2>1, FoldIn
<1>5. f = [s \in SUBSET DOMAIN seq |->
             IF s = {} THEN base ELSE Go(f[s \ {Prop!Max(s)}], seq[Prop!Max(s)])]
  <2>1. \A c \in G, n \in 1 .. N : F[<<c, n>>] = Go(c, seq[n])
    <3> HIDE DEF Go, G, N, seq
    <3> QED OBVIOUS
  <2> HIDE DEF Go, F, G, N, base, seq
  <2>2. ASSUME NEW s \in SUBSET (1 .. N)
        PROVE  f[s] = IF s = {} THEN base ELSE Go(f[s \ {Prop!Max(s)}], seq[Prop!Max(s)])
    BY <1>4, <2>1 DEF FoldOf
  <2>3. f = [s \in SUBSET (1 .. N) |-> f[s]]
    BY <1>4 DEF FoldOf
  <2> QED BY <1>1, <2>2, <2>3
<1>6. it = [s \in SUBSET DOMAIN seq |->
              IF s = {} THEN base ELSE Go(it[s \ {Prop!Max(s)}], seq[Prop!Max(s)])]
  <2> HIDE DEF Go, F, G, N, base, seq
  <2> QED BY <1>5, Zenon
<1>7. it[1 .. N] \in G
  <2>1. N \in Nat /\ DOMAIN seq = 1 .. N /\ base \in G
    BY <1>1, <1>2
  <2>2. \A c \in G, n \in 1 .. N : Go(c, seq[n]) \in G
    BY <1>3
  <2> HIDE DEF Go, F, G, N, base, seq, it
  <2>3. it[{}] = base
    BY <1>6
  <2>4. ASSUME NEW n \in 1 .. N PROVE it[1 .. n] = Go(it[1 .. n - 1], seq[n])
    <3>1. /\ (1 .. n) \in SUBSET DOMAIN seq /\ 1 .. n # {} /\ Prop!Max(1 .. n) = n
          /\ (1 .. n) \ {n} = 1 .. n - 1
      BY <2>1, MaxAt
    <3>2. it[1 .. n] = Go(it[(1 .. n) \ {Prop!Max(1 .. n)}], seq[Prop!Max(1 .. n)])
      BY <1>6, <3>1
    <3> QED BY <3>1, <3>2
  <2>5. it[{}] \in G /\ \A n \in 1 .. N : it[1 .. n - 1] \in G => it[1 .. n] \in G
    BY <2>1, <2>2, <2>3, <2>4
  <2> QED BY <2>1, <2>5, FoldStays
<1>8. Prop!OverBlocks(Prop!Bypass, g) = it[DOMAIN seq]
  BY Zenon DEF Prop!OverBlocks, Prop!FoldLeft, Prop!MapThenFoldSet
<1> HIDE DEF it
<1> QED BY <1>1, <1>7, <1>8

LEMMA DropTestWalkIn ==
  ASSUME NEW D \in SUBSET Nat, IsFiniteSet(D), NEW g \in GraphsOf(D)
  PROVE  Prop!OverBlocks(Prop!DropTest, g) \in GraphsOf(D)
<1> DEFINE Go(h, b) == Prop!DropTest(h, b)
           G == GraphsOf(D)
           base == g
           seq == Prop!InOrder(g.blocks)
           N == Cardinality(g.blocks)
           F == [p \in G \X (1 .. N) |-> Go(p[1], seq[p[2]])]
           it == CHOOSE w : w = [s \in SUBSET DOMAIN seq |->
                   IF s = {} THEN base ELSE Go(w[s \ {Prop!Max(s)}], seq[Prop!Max(s)])]
<1>0. g.blocks \in SUBSET D /\ IsFiniteSet(g.blocks)
  <2>1. g.blocks \in SUBSET D
    BY DEF GraphsOf
  <2> QED BY <2>1, FS_Subset
<1>1. N \in Nat /\ DOMAIN seq = 1 .. N /\ \A n \in 1 .. N : seq[n] \in D
  BY <1>0, InOrderIs
<1>2. base \in G
  OBVIOUS
<1>3. ASSUME NEW c \in G, NEW n \in 1 .. N PROVE Go(c, seq[n]) \in G
  <2>1. seq[n] \in D /\ D \subseteq Int
    BY <1>1
  <2> HIDE DEF seq
  <2> QED BY <2>1, DropTestIn
<1>4. PICK f : FoldOf(G, F, base, N, f)
  <2>1. F \in [G \X (1 .. N) -> G]
    <3> HIDE DEF Go, G, N, seq
    <3> QED BY <1>3
  <2> HIDE DEF F, G, N, base
  <2> QED BY <1>1, <1>2, <2>1, FoldIn
<1>5. f = [s \in SUBSET DOMAIN seq |->
             IF s = {} THEN base ELSE Go(f[s \ {Prop!Max(s)}], seq[Prop!Max(s)])]
  <2>1. \A c \in G, n \in 1 .. N : F[<<c, n>>] = Go(c, seq[n])
    <3> HIDE DEF Go, G, N, seq
    <3> QED OBVIOUS
  <2> HIDE DEF Go, F, G, N, base, seq
  <2>2. ASSUME NEW s \in SUBSET (1 .. N)
        PROVE  f[s] = IF s = {} THEN base ELSE Go(f[s \ {Prop!Max(s)}], seq[Prop!Max(s)])
    BY <1>4, <2>1 DEF FoldOf
  <2>3. f = [s \in SUBSET (1 .. N) |-> f[s]]
    BY <1>4 DEF FoldOf
  <2> QED BY <1>1, <2>2, <2>3
<1>6. it = [s \in SUBSET DOMAIN seq |->
              IF s = {} THEN base ELSE Go(it[s \ {Prop!Max(s)}], seq[Prop!Max(s)])]
  <2> HIDE DEF Go, F, G, N, base, seq
  <2> QED BY <1>5, Zenon
<1>7. it[1 .. N] \in G
  <2>1. N \in Nat /\ DOMAIN seq = 1 .. N /\ base \in G
    BY <1>1, <1>2
  <2>2. \A c \in G, n \in 1 .. N : Go(c, seq[n]) \in G
    BY <1>3
  <2> HIDE DEF Go, F, G, N, base, seq, it
  <2>3. it[{}] = base
    BY <1>6
  <2>4. ASSUME NEW n \in 1 .. N PROVE it[1 .. n] = Go(it[1 .. n - 1], seq[n])
    <3>1. /\ (1 .. n) \in SUBSET DOMAIN seq /\ 1 .. n # {} /\ Prop!Max(1 .. n) = n
          /\ (1 .. n) \ {n} = 1 .. n - 1
      BY <2>1, MaxAt
    <3>2. it[1 .. n] = Go(it[(1 .. n) \ {Prop!Max(1 .. n)}], seq[Prop!Max(1 .. n)])
      BY <1>6, <3>1
    <3> QED BY <3>1, <3>2
  <2>5. it[{}] \in G /\ \A n \in 1 .. N : it[1 .. n - 1] \in G => it[1 .. n] \in G
    BY <2>1, <2>2, <2>3, <2>4
  <2> QED BY <2>1, <2>5, FoldStays
<1>8. Prop!OverBlocks(Prop!DropTest, g) = it[DOMAIN seq]
  BY Zenon DEF Prop!OverBlocks, Prop!FoldLeft, Prop!MapThenFoldSet
<1> HIDE DEF it
<1> QED BY <1>1, <1>7, <1>8

LEMMA UnlabelWalkIn ==
  ASSUME NEW D \in SUBSET Nat, IsFiniteSet(D), NEW g \in GraphsOf(D)
  PROVE  Prop!OverBlocks(Prop!Unlabel, g) \in GraphsOf(D)
<1> DEFINE Go(h, b) == Prop!Unlabel(h, b)
           G == GraphsOf(D)
           base == g
           seq == Prop!InOrder(g.blocks)
           N == Cardinality(g.blocks)
           F == [p \in G \X (1 .. N) |-> Go(p[1], seq[p[2]])]
           it == CHOOSE w : w = [s \in SUBSET DOMAIN seq |->
                   IF s = {} THEN base ELSE Go(w[s \ {Prop!Max(s)}], seq[Prop!Max(s)])]
<1>0. g.blocks \in SUBSET D /\ IsFiniteSet(g.blocks)
  <2>1. g.blocks \in SUBSET D
    BY DEF GraphsOf
  <2> QED BY <2>1, FS_Subset
<1>1. N \in Nat /\ DOMAIN seq = 1 .. N /\ \A n \in 1 .. N : seq[n] \in D
  BY <1>0, InOrderIs
<1>2. base \in G
  OBVIOUS
<1>3. ASSUME NEW c \in G, NEW n \in 1 .. N PROVE Go(c, seq[n]) \in G
  <2>1. seq[n] \in D /\ D \subseteq Int
    BY <1>1
  <2> HIDE DEF seq
  <2> QED BY <2>1, UnlabelIn
<1>4. PICK f : FoldOf(G, F, base, N, f)
  <2>1. F \in [G \X (1 .. N) -> G]
    <3> HIDE DEF Go, G, N, seq
    <3> QED BY <1>3
  <2> HIDE DEF F, G, N, base
  <2> QED BY <1>1, <1>2, <2>1, FoldIn
<1>5. f = [s \in SUBSET DOMAIN seq |->
             IF s = {} THEN base ELSE Go(f[s \ {Prop!Max(s)}], seq[Prop!Max(s)])]
  <2>1. \A c \in G, n \in 1 .. N : F[<<c, n>>] = Go(c, seq[n])
    <3> HIDE DEF Go, G, N, seq
    <3> QED OBVIOUS
  <2> HIDE DEF Go, F, G, N, base, seq
  <2>2. ASSUME NEW s \in SUBSET (1 .. N)
        PROVE  f[s] = IF s = {} THEN base ELSE Go(f[s \ {Prop!Max(s)}], seq[Prop!Max(s)])
    BY <1>4, <2>1 DEF FoldOf
  <2>3. f = [s \in SUBSET (1 .. N) |-> f[s]]
    BY <1>4 DEF FoldOf
  <2> QED BY <1>1, <2>2, <2>3
<1>6. it = [s \in SUBSET DOMAIN seq |->
              IF s = {} THEN base ELSE Go(it[s \ {Prop!Max(s)}], seq[Prop!Max(s)])]
  <2> HIDE DEF Go, F, G, N, base, seq
  <2> QED BY <1>5, Zenon
<1>7. it[1 .. N] \in G
  <2>1. N \in Nat /\ DOMAIN seq = 1 .. N /\ base \in G
    BY <1>1, <1>2
  <2>2. \A c \in G, n \in 1 .. N : Go(c, seq[n]) \in G
    BY <1>3
  <2> HIDE DEF Go, F, G, N, base, seq, it
  <2>3. it[{}] = base
    BY <1>6
  <2>4. ASSUME NEW n \in 1 .. N PROVE it[1 .. n] = Go(it[1 .. n - 1], seq[n])
    <3>1. /\ (1 .. n) \in SUBSET DOMAIN seq /\ 1 .. n # {} /\ Prop!Max(1 .. n) = n
          /\ (1 .. n) \ {n} = 1 .. n - 1
      BY <2>1, MaxAt
    <3>2. it[1 .. n] = Go(it[(1 .. n) \ {Prop!Max(1 .. n)}], seq[Prop!Max(1 .. n)])
      BY <1>6, <3>1
    <3> QED BY <3>1, <3>2
  <2>5. it[{}] \in G /\ \A n \in 1 .. N : it[1 .. n - 1] \in G => it[1 .. n] \in G
    BY <2>1, <2>2, <2>3, <2>4
  <2> QED BY <2>1, <2>5, FoldStays
<1>8. Prop!OverBlocks(Prop!Unlabel, g) = it[DOMAIN seq]
  BY Zenon DEF Prop!OverBlocks, Prop!FoldLeft, Prop!MapThenFoldSet
<1> HIDE DEF it
<1> QED BY <1>1, <1>7, <1>8

\* bb_compact.
LEMMA CompactIn ==
  ASSUME NEW D \in SUBSET Nat, IsFiniteSet(D), NEW g \in GraphsOf(D)
  PROVE  Prop!BbCompact(g) \in GraphsOf(D)
<1> DEFINE bypassed == Prop!Freed(Prop!OverBlocks(Prop!Bypass, g))
           tested == Prop!Freed(Prop!OverBlocks(Prop!DropTest, bypassed))
<1>1. bypassed \in GraphsOf(D)
  BY BypassWalkIn, FreedIn
<1> HIDE DEF bypassed
<1>2. tested \in GraphsOf(D)
  BY <1>1, DropTestWalkIn, FreedIn
<1>3. Prop!BbCompact(g) = Prop!Freed(Prop!OverBlocks(Prop!Unlabel, tested))
  BY Zenon DEF Prop!BbCompact, bypassed
<1> HIDE DEF tested
<1> QED BY <1>2, <1>3, UnlabelWalkIn, FreedIn

-----------------------------------------------------------------------------
(* cp_propagate.  A constant that is NULL is known behind an operation of     *)
(* constants or later only.                                                *)

\* What const_prop knows: of a variable, of all, and of all without a constant that is NULL.
Facts == [Vars -> [c : {"UNDEF", "C", "NAC"}, s : Int \cup {NoSymbol}]]
Clean(f) == \A v \in Vars : f[v].c = "C" => f[v].s # NoSymbol
\* A place with an operation of constants.
Spot(i, f) == i.op \in Binops /\ Prop!Known(f, i.r) = [c |-> "C", s |-> NoSymbol]

\* What is known of an operand.
LEMMA KnownIs ==
  ASSUME NEW f \in Facts, NEW a \in Operands
  PROVE  /\ Prop!Known(f, a) \in [c : {"UNDEF", "C", "NAC"}, s : Int \cup {NoSymbol}]
         /\ a \in Vars => Prop!Known(f, a) = f[a]
         /\ a \notin Vars => a \in Int /\ Prop!Known(f, a) = [c |-> "C", s |-> a]
         /\ Clean(f) /\ Prop!Known(f, a).c = "C" => Prop!Known(f, a).s \in Int
BY SymbolsAssumption DEF Facts, Operands, Prop!Known, Clean

\* What two predecessors know of a variable makes no new constant.
LEMMA JoinIs ==
  ASSUME NEW t \in [c : {"UNDEF", "C", "NAC"}, s : Int \cup {NoSymbol}],
         NEW p \in [c : {"UNDEF", "C", "NAC"}, s : Int \cup {NoSymbol}]
  PROVE  /\ Prop!Join(t, p) \in [c : {"UNDEF", "C", "NAC"}, s : Int \cup {NoSymbol}]
         /\ Prop!Join(t, p).c = "C" => Prop!Join(t, p) \in {t, p}
BY DEF Prop!Join, Prop!NotC

\* An operand becomes no NULL.
LEMMA PropagatedIn ==
  ASSUME NEW f \in Facts, NEW i \in BlockInstrs
  PROVE  Prop!Propagated(f, i) \in BlockInstrs
<1>1. ASSUME NEW a \in Operands PROVE Prop!Constant(f, a) \in Operands
  <2>1. Prop!Known(f, a).s \in Int \cup {NoSymbol}
    BY KnownIs
  <2> QED BY <2>1 DEF Prop!Constant, Operands
<1>2. i.a1 \in Operands /\ i.a2 \in Operands
  BY DEF BlockInstrs
<1>3. [i EXCEPT !.a1 = Prop!Constant(f, @), !.a2 = Prop!Constant(f, @)] \in BlockInstrs
  BY <1>1, <1>2 DEF BlockInstrs
<1> QED BY <1>3 DEF Prop!Propagated

\* One variable is known anew.
With(f, r, k) == [f EXCEPT ![r] = k]

LEMMA FactIn ==
  ASSUME NEW f \in Facts, NEW k \in [c : {"UNDEF", "C", "NAC"}, s : Int \cup {NoSymbol}], NEW r,
         NEW h, h = With(f, r, k)
  PROVE  /\ h \in Facts
         /\ Clean(f) /\ (k.c = "C" => k.s # NoSymbol) => Clean(h)
         /\ r \in Vars => h[r] = k
         /\ r \notin Vars => h = f
BY DEF Facts, Clean, With

\* What is known is changed at one place at most.
LEMMA BehindIs ==
  ASSUME NEW f \in Facts, NEW i \in BlockInstrs, NEW h, h = Prop!Behind(f, i)
  PROVE  \/ h = f
         \/ h = With(f, i.r, Prop!NotC(f[i.r]))
         \/ Prop!Known(f, i.a1).c = "C" /\ h = With(f, i.r, Prop!Known(f, i.a1))
         \/ i.op \in Binops /\ h = With(f, i.r, [c |-> "C", s |-> NoSymbol])
<1>1. CASE i.op = "TIN"
  BY <1>1 DEF With, Prop!Behind, Prop!Binops, Prop!Relops, Prop!Arith
<1>2. CASE i.op = "TASSIGN"
  BY <1>2 DEF With, Prop!Behind, Prop!Binops, Prop!Relops, Prop!Arith, Prop!IsC
<1>3. CASE i.op \in Binops
  BY <1>3 DEF With, Prop!Behind, Binops, Relops, Arith
<1>4. CASE i.op \notin Binops \cup {"TIN", "TASSIGN"}
  BY <1>4 DEF With, Prop!Behind, Prop!Binops, Prop!Relops, Prop!Arith, Binops, Relops, Arith
<1> QED BY <1>1, <1>2, <1>3, <1>4

\* What is known stays well typed, and a constant that is NULL comes of an operation only.
LEMMA BehindIn ==
  ASSUME NEW f \in Facts, NEW i \in BlockInstrs, NEW h, h = Prop!Behind(f, i)
  PROVE  /\ h \in Facts
         /\ Clean(f) => Clean(h) \/ Spot(i, h)
<1> DEFINE K == [c : {"UNDEF", "C", "NAC"}, s : Int \cup {NoSymbol}]
           null == [c |-> "C", s |-> NoSymbol]
<1>1. i.a1 \in Operands /\ i.r \in Operands
  BY DEF BlockInstrs
<1>2. Prop!Known(f, i.a1) \in K /\ (Clean(f) /\ Prop!Known(f, i.a1).c = "C" => Prop!Known(f, i.a1).s \in Int)
  BY <1>1, KnownIs
<1>3. CASE h = With(f, i.r, Prop!NotC(f[i.r]))
  <2>1. CASE i.r \in Vars
    <3>1. f[i.r] \in K
      BY <2>1 DEF Facts
    <3>2. Prop!NotC(f[i.r]) \in K /\ Prop!NotC(f[i.r]).c = "NAC"
      BY <3>1 DEF Prop!NotC
    <3> QED BY <1>3, <3>2, FactIn
  <2>2. CASE i.r \notin Vars
    <3>1. h = f
      BY <1>3, <2>2 DEF Facts, With
    <3> QED BY <3>1
  <2> QED BY <2>1, <2>2
<1>4. CASE Prop!Known(f, i.a1).c = "C" /\ h = With(f, i.r, Prop!Known(f, i.a1))
  <2>1. NoSymbol \notin Int
    BY SymbolsAssumption
  <2> QED BY <1>2, <1>4, <2>1, FactIn
<1>5. CASE i.op \in Binops /\ h = With(f, i.r, null)
  <2>1. null \in K
    OBVIOUS
  <2> HIDE DEF null
  <2>2. h \in Facts /\ (i.r \in Vars => h[i.r] = null) /\ (i.r \notin Vars => h = f)
    BY <1>5, <2>1, FactIn
  <2>3. i.r \in Vars => Spot(i, h)
    <3>1. i.r \in Vars => Prop!Known(h, i.r) = h[i.r]
      BY <1>1, <2>2, KnownIs
    <3> QED BY <1>5, <2>2, <3>1 DEF Spot, null
  <2> QED BY <2>2, <2>3
<1>6. CASE h = f
  BY <1>6
<1> QED BY <1>3, <1>4, <1>5, <1>6, BehindIs

\* A block's walk.
WalkedOf(f) ==
    {w \in [f : Facts, ins : Seq(BlockInstrs), outs : Seq(Facts)] :
       /\ Len(w.outs) = Len(w.ins)
       /\ w.f = IF w.outs = << >> THEN f ELSE w.outs[Len(w.outs)]
       /\ Clean(f) => \A j \in 1 .. Len(w.outs) :
                        Clean(w.outs[j]) \/ \E h \in 1 .. j : Spot(w.ins[h], w.outs[h])}

\* One instruction more.
LEMMA WalkedTurn ==
  ASSUME NEW f \in Facts, NEW w \in WalkedOf(f), NEW i \in BlockInstrs,
         NEW h, h = Prop!Behind(w.f, i)
  PROVE  [f |-> h, ins |-> Append(w.ins, i), outs |-> Append(w.outs, h)] \in WalkedOf(f)
<1> DEFINE u == [f |-> h, ins |-> Append(w.ins, i), outs |-> Append(w.outs, h)]
           n == Len(w.outs)
<1>1. w.f \in Facts /\ w.ins \in Seq(BlockInstrs) /\ w.outs \in Seq(Facts) /\ Len(w.ins) = n
      /\ n \in Nat
  BY DEF WalkedOf
<1>2. h \in Facts /\ (Clean(w.f) => Clean(h) \/ Spot(i, h))
  BY <1>1, BehindIn
<1>3. /\ u.ins \in Seq(BlockInstrs) /\ Len(u.ins) = n + 1 /\ u.ins[n + 1] = i
      /\ \A j \in 1 .. n : u.ins[j] = w.ins[j]
      /\ u.outs \in Seq(Facts) /\ Len(u.outs) = n + 1 /\ u.outs[n + 1] = h /\ u.f = h
      /\ \A j \in 1 .. n : u.outs[j] = w.outs[j]
      /\ u \in [f : Facts, ins : Seq(BlockInstrs), outs : Seq(Facts)]
  BY <1>1, <1>2
<1> HIDE DEF u
<1>4. u.outs # << >>
  BY <1>1, <1>3
<1>5. ASSUME Clean(f), NEW j \in 1 .. n + 1
      PROVE  Clean(u.outs[j]) \/ \E k \in 1 .. j : Spot(u.ins[k], u.outs[k])
  <2>1. \A k \in 1 .. n : Clean(w.outs[k]) \/ \E q \in 1 .. k : Spot(w.ins[q], w.outs[q])
    BY <1>5 DEF WalkedOf
  <2>2. CASE j # n + 1
    <3>1. j \in 1 .. n /\ \A q \in 1 .. j : q \in 1 .. n
      BY <1>1, <2>2
    <3> QED BY <2>1, <3>1, <1>3
  <2>3. CASE j = n + 1
    <3>1. CASE Clean(w.f)
      <4>1. j \in 1 .. j
        BY <1>1, <2>3
      <4> QED BY <1>2, <1>3, <2>3, <3>1, <4>1
    <3>2. CASE ~ Clean(w.f)
      <4>1. w.outs # << >> /\ w.f = w.outs[n]
        BY <1>5, <3>2 DEF WalkedOf
      <4>2. n \in 1 .. n
        BY <1>1, <4>1
      <4>3. PICK q \in 1 .. n : Spot(w.ins[q], w.outs[q])
        BY <2>1, <3>2, <4>1, <4>2
      <4>4. q \in 1 .. j
        BY <1>1, <2>3
      <4> QED BY <1>3, <4>3, <4>4
    <3> QED BY <3>1, <3>2
  <2> QED BY <2>2, <2>3
<1> QED BY <1>1, <1>3, <1>4, <1>5 DEF WalkedOf, u

\* The walk as a whole.
LEMMA WalkedIn ==
  ASSUME NEW old \in Facts, NEW list \in Seq(BlockInstrs)
  PROVE  Prop!Walked(old, list) \in WalkedOf(old)
<1> DEFINE Go(c, i) ==
             LET j == Prop!Propagated(c.f, i)
                 h == Prop!Behind(c.f, j)
             IN  [f |-> h, ins |-> Append(c.ins, j), outs |-> Append(c.outs, h)]
           G == WalkedOf(old)
           base == [f |-> old, ins |-> << >>, outs |-> << >>]
           seq == list
           N == Len(list)
           F == [p \in G \X (1 .. N) |-> Go(p[1], seq[p[2]])]
           it == CHOOSE w : w = [s \in SUBSET DOMAIN seq |->
                   IF s = {} THEN base ELSE Go(w[s \ {Prop!Max(s)}], seq[Prop!Max(s)])]
<1>1. N \in Nat /\ DOMAIN seq = 1 .. N
  OBVIOUS
<1>2. base \in G
  BY DEF WalkedOf
<1>3. ASSUME NEW c \in G, NEW n \in 1 .. N PROVE Go(c, seq[n]) \in G
  <2> DEFINE j == Prop!Propagated(c.f, seq[n])
  <2>1. c.f \in Facts /\ seq[n] \in BlockInstrs
    BY DEF WalkedOf
  <2>2. j \in BlockInstrs
    BY <2>1, PropagatedIn
  <2> HIDE DEF j
  <2>3. [f |-> Prop!Behind(c.f, j), ins |-> Append(c.ins, j),
         outs |-> Append(c.outs, Prop!Behind(c.f, j))] \in G
    BY <2>2, WalkedTurn
  <2> QED BY <2>3, Zenon DEF j
<1>4. PICK f : FoldOf(G, F, base, N, f)
  <2>1. F \in [G \X (1 .. N) -> G]
    <3> HIDE DEF Go, G, N, seq
    <3> QED BY <1>3
  <2> HIDE DEF F, G, N, base
  <2> QED BY <1>1, <1>2, <2>1, FoldIn
<1>5. f = [s \in SUBSET DOMAIN seq |->
             IF s = {} THEN base ELSE Go(f[s \ {Prop!Max(s)}], seq[Prop!Max(s)])]
  <2>1. \A c \in G, n \in 1 .. N : F[<<c, n>>] = Go(c, seq[n])
    <3> HIDE DEF Go, G, N, seq
    <3> QED OBVIOUS
  <2> HIDE DEF Go, F, G, N, base, seq
  <2>2. ASSUME NEW s \in SUBSET (1 .. N)
        PROVE  f[s] = IF s = {} THEN base ELSE Go(f[s \ {Prop!Max(s)}], seq[Prop!Max(s)])
    BY <1>4, <2>1 DEF FoldOf
  <2>3. f = [s \in SUBSET (1 .. N) |-> f[s]]
    BY <1>4 DEF FoldOf
  <2> QED BY <1>1, <2>2, <2>3
<1>6. it = [s \in SUBSET DOMAIN seq |->
              IF s = {} THEN base ELSE Go(it[s \ {Prop!Max(s)}], seq[Prop!Max(s)])]
  <2> HIDE DEF Go, F, G, N, base, seq
  <2> QED BY <1>5, Zenon
<1>7. it[1 .. N] \in G
  <2>1. N \in Nat /\ DOMAIN seq = 1 .. N /\ base \in G
    BY <1>1, <1>2
  <2>2. \A c \in G, n \in 1 .. N : Go(c, seq[n]) \in G
    BY <1>3
  <2> HIDE DEF Go, F, G, N, base, seq, it
  <2>3. it[{}] = base
    BY <1>6
  <2>4. ASSUME NEW n \in 1 .. N PROVE it[1 .. n] = Go(it[1 .. n - 1], seq[n])
    <3>1. /\ (1 .. n) \in SUBSET DOMAIN seq /\ 1 .. n # {} /\ Prop!Max(1 .. n) = n
          /\ (1 .. n) \ {n} = 1 .. n - 1
      BY <2>1, MaxAt
    <3>2. it[1 .. n] = Go(it[(1 .. n) \ {Prop!Max(1 .. n)}], seq[Prop!Max(1 .. n)])
      BY <1>6, <3>1
    <3> QED BY <3>1, <3>2
  <2>5. it[{}] \in G /\ \A n \in 1 .. N : it[1 .. n - 1] \in G => it[1 .. n] \in G
    BY <2>1, <2>2, <2>3, <2>4
  <2> QED BY <2>1, <2>5, FoldStays
<1>8. Prop!Walked(old, list) = it[DOMAIN seq]
  BY Zenon DEF Prop!Walked, Prop!FoldLeft, Prop!MapThenFoldSet
<1> HIDE DEF it
<1> QED BY <1>1, <1>7, <1>8

\* What is joined from predecessors: nothing is taken for a NULL constant that was not
\* one at a predecessor, or before.
TmpOf(t, outs, S) ==
    {u \in Facts : Clean(u) \/ ~ Clean(t) \/ \E p \in S : outs[p] # << >> /\ ~ Clean(outs[p][Len(outs[p])])}

\* tmp_vars when the predecessors are joined.
LEMMA TmpIn ==
  ASSUME NEW t \in Facts, NEW B, NEW outs \in [B -> Seq(Facts)], NEW list \in Seq(B)
  PROVE  Prop!FoldLeft(LAMBDA u, p : [v \in Vars |->
            Prop!Join(u[v], (IF outs[p] = << >> THEN [w \in Vars |-> Prop!Undef]
                             ELSE Prop!Last(outs[p]))[v])], t, list)
           \in TmpOf(t, outs, B)
<1> DEFINE Go(u, p) == [v \in Vars |->
            Prop!Join(u[v], (IF outs[p] = << >> THEN [w \in Vars |-> Prop!Undef]
                             ELSE Prop!Last(outs[p]))[v])]
           G == TmpOf(t, outs, B)
           base == t
           seq == list
           N == Len(list)
           F == [p \in G \X (1 .. N) |-> Go(p[1], seq[p[2]])]
           it == CHOOSE w : w = [s \in SUBSET DOMAIN seq |->
                   IF s = {} THEN base ELSE Go(w[s \ {Prop!Max(s)}], seq[Prop!Max(s)])]
<1>1. N \in Nat /\ DOMAIN seq = 1 .. N
  OBVIOUS
<1>2. base \in G
  BY DEF TmpOf
<1>3. ASSUME NEW c \in G, NEW n \in 1 .. N PROVE Go(c, seq[n]) \in G
  <2> DEFINE p == seq[n]
             e == IF outs[p] = << >> THEN [w \in Vars |-> Prop!Undef] ELSE Prop!Last(outs[p])
             u == Go(c, p)
             K == [c : {"UNDEF", "C", "NAC"}, s : Int \cup {NoSymbol}]
  <2>1. p \in B /\ outs[p] \in Seq(Facts) /\ c \in Facts
    BY DEF TmpOf
  <2>2. e \in Facts /\ (Clean(e) \/ (outs[p] # << >> /\ ~ Clean(outs[p][Len(outs[p])])))
    <3> HIDE DEF p
    <3>1. CASE outs[p] = << >>
      <4>1. e = [w \in Vars |-> Prop!Undef]
        BY <3>1
      <4>2. Prop!Undef \in K /\ Prop!Undef.c = "UNDEF"
        BY DEF Prop!Undef
      <4> HIDE DEF e
      <4>3. e \in Facts /\ \A w \in Vars : e[w].c = "UNDEF"
        BY <4>1, <4>2 DEF Facts
      <4> QED BY <4>3 DEF Clean
    <3>2. CASE outs[p] # << >>
      <4>1. e = outs[p][Len(outs[p])] /\ Len(outs[p]) \in 1 .. Len(outs[p])
        BY <2>1, <3>2 DEF Prop!Last
      <4> HIDE DEF e
      <4> QED BY <2>1, <3>2, <4>1
    <3> QED BY <3>1, <3>2
  <2>3. u = [v \in Vars |-> Prop!Join(c[v], e[v])]
    OBVIOUS
  <2> HIDE DEF e, p, u
  <2>4. ASSUME NEW v \in Vars
        PROVE  u[v] \in K /\ (u[v].c = "C" => u[v] \in {c[v], e[v]})
    <3>1. c[v] \in K /\ e[v] \in K /\ u[v] = Prop!Join(c[v], e[v])
      BY <2>1, <2>2, <2>3 DEF Facts
    <3> HIDE DEF K
    <3> QED BY <3>1, JoinIs DEF K
  <2>5. u \in Facts
    BY <2>3, <2>4 DEF Facts
  <2>6. Clean(c) /\ Clean(e) => Clean(u)
    BY <2>4 DEF Clean
  <2>7. u \in G
    BY <2>1, <2>2, <2>5, <2>6 DEF TmpOf
  <2> QED BY <2>7 DEF u, p
<1>4. PICK f : FoldOf(G, F, base, N, f)
  <2>1. F \in [G \X (1 .. N) -> G]
    <3> HIDE DEF Go, G, N, seq
    <3> QED BY <1>3
  <2> HIDE DEF F, G, N, base
  <2> QED BY <1>1, <1>2, <2>1, FoldIn
<1>5. f = [s \in SUBSET DOMAIN seq |->
             IF s = {} THEN base ELSE Go(f[s \ {Prop!Max(s)}], seq[Prop!Max(s)])]
  <2>1. \A c \in G, n \in 1 .. N : F[<<c, n>>] = Go(c, seq[n])
    <3> HIDE DEF Go, G, N, seq
    <3> QED OBVIOUS
  <2> HIDE DEF Go, F, G, N, base, seq
  <2>2. ASSUME NEW s \in SUBSET (1 .. N)
        PROVE  f[s] = IF s = {} THEN base ELSE Go(f[s \ {Prop!Max(s)}], seq[Prop!Max(s)])
    BY <1>4, <2>1 DEF FoldOf
  <2>3. f = [s \in SUBSET (1 .. N) |-> f[s]]
    BY <1>4 DEF FoldOf
  <2> QED BY <1>1, <2>2, <2>3
<1>6. it = [s \in SUBSET DOMAIN seq |->
              IF s = {} THEN base ELSE Go(it[s \ {Prop!Max(s)}], seq[Prop!Max(s)])]
  <2> HIDE DEF Go, F, G, N, base, seq
  <2> QED BY <1>5, Zenon
<1>7. it[1 .. N] \in G
  <2>1. N \in Nat /\ DOMAIN seq = 1 .. N /\ base \in G
    BY <1>1, <1>2
  <2>2. \A c \in G, n \in 1 .. N : Go(c, seq[n]) \in G
    BY <1>3
  <2> HIDE DEF Go, F, G, N, base, seq, it
  <2>3. it[{}] = base
    BY <1>6
  <2>4. ASSUME NEW n \in 1 .. N PROVE it[1 .. n] = Go(it[1 .. n - 1], seq[n])
    <3>1. /\ (1 .. n) \in SUBSET DOMAIN seq /\ 1 .. n # {} /\ Prop!Max(1 .. n) = n
          /\ (1 .. n) \ {n} = 1 .. n - 1
      BY <2>1, MaxAt
    <3>2. it[1 .. n] = Go(it[(1 .. n) \ {Prop!Max(1 .. n)}], seq[Prop!Max(1 .. n)])
      BY <1>6, <3>1
    <3> QED BY <3>1, <3>2
  <2>5. it[{}] \in G /\ \A n \in 1 .. N : it[1 .. n - 1] \in G => it[1 .. n] \in G
    BY <2>1, <2>2, <2>3, <2>4
  <2> QED BY <2>1, <2>5, FoldStays
<1>8. Prop!FoldLeft(Go, t, list) = it[DOMAIN seq]
  BY Zenon DEF Prop!FoldLeft, Prop!MapThenFoldSet
<1> HIDE DEF it
<1> QED BY <1>1, <1>7, <1>8

\* A block's predecessors, where they are blocks.
LEMMA PredsAre ==
  ASSUME NEW D, NEW g \in GraphsOf(D), NEW b \in D, NEW B, Prop!ToSet(Prop!PredsOf(g, b)) \subseteq B
  PROVE  Prop!PredsOf(g, b) \in Seq(B)
<1> DEFINE S == {j \in DOMAIN g.pred[b] : \A h \in 1 .. j : g.pred[b][h] # Prop!NoBlock}
           list == Prop!PredsOf(g, b)
<1>1. list = SubSeq(g.pred[b], 1, Cardinality(S))
  BY Zenon DEF Prop!PredsOf, Prop!Cardinality, Cardinality
<1>2. Len(list) \in Nat /\ DOMAIN list = 1 .. Len(list)
  BY PredsOfIs
<1>5. g.pred[b] \in Seq(Int) /\ Len(g.pred[b]) = MaxPredecessors /\ MaxPredecessors \in Nat
  <2>1. g.pred[b] = [j \in 1 .. MaxPredecessors |-> g.pred[b][j]] /\ MaxPredecessors \in Nat
        /\ \A j \in 1 .. MaxPredecessors : g.pred[b][j] \in Int
    BY SymbolsAssumption DEF GraphsOf, PredArrays
  <2> QED BY <2>1, IsASeq
<1>6. Cardinality(S) \in 0 .. MaxPredecessors
  <2>1. S \subseteq 1 .. MaxPredecessors
    BY <1>5
  <2>2. IsFiniteSet(1 .. MaxPredecessors) /\ Cardinality(1 .. MaxPredecessors) = MaxPredecessors
    BY <1>5, FS_Interval
  <2> HIDE DEF S
  <2>3. IsFiniteSet(S) /\ Cardinality(S) <= MaxPredecessors
    BY <2>1, <2>2, FS_Subset
  <2> QED BY <1>5, <2>3, FS_CardinalityType
<1>7. list \in Seq(Int)
  <2> HIDE DEF S, list
  <2> QED BY <1>1, <1>5, <1>6
<1>3. list = [i \in DOMAIN list |-> list[i]]
  <2> HIDE DEF list
  <2> QED BY <1>7
<1> HIDE DEF list
<1>4. \A i \in 1 .. Len(list) : list[i] \in B
  BY <1>2 DEF Prop!ToSet, list
<1> QED BY <1>2, <1>3, <1>4 DEF list

\* What cp_propagate has come to.
Propagations(D, B) ==
    {c \in [g : GraphsOf(D), tmp : Facts, outs : [B -> Seq(Facts)]] : c.g.blocks = B}

\* A block's turn.
Done(c, b, tmp, w) ==
    [g |-> [c.g EXCEPT !.ins[b] = w.ins], tmp |-> tmp, outs |-> [c.outs EXCEPT ![b] = w.outs]]

\* What becomes of a block: nothing, a failure or its turn.
LEMMA BlockDone ==
  ASSUME NEW D, NEW B \in SUBSET D, NEW c \in Propagations(D, B), NEW b \in B,
         NEW e, e = Prop!PropagateBlock(c, b)
  PROVE  \/ e = c /\ c.g.failed # "no"
         \/ \E why \in {"null", "freed"} : e = [c EXCEPT !.g = Prop!Failed(c.g, why)]
         \/ c.g.failed = "no" /\ \E tmp \in TmpOf(c.tmp, c.outs, B) :
              \E w \in WalkedOf(tmp) : Len(w.ins) = Len(w.outs) /\ e = Done(c, b, tmp, w)
<1> DEFINE preds == Prop!PredsOf(c.g, b)
           tmp == Prop!FoldLeft(LAMBDA u, p : [v \in Vars |->
            Prop!Join(u[v], (IF c.outs[p] = << >> THEN [w \in Vars |-> Prop!Undef]
                             ELSE Prop!Last(c.outs[p]))[v])], c.tmp, preds)
           w == Prop!Walked(tmp, c.g.ins[b])
<1>1. c.g \in GraphsOf(D) /\ c.tmp \in Facts /\ c.outs \in [B -> Seq(Facts)] /\ c.g.blocks = B
      /\ b \in D
  BY DEF Propagations
<1>2. \/ ~ Prop!Running(c.g) /\ e = c
      \/ e = [c EXCEPT !.g = Prop!Failed(c.g, "null")]
      \/ e = [c EXCEPT !.g = Prop!Failed(c.g, "freed")]
      \/ /\ Prop!Running(c.g)
         /\ Prop!ToSet(preds) \subseteq c.g.blocks
         /\ e = [g |-> [c.g EXCEPT !.ins[b] = w.ins], tmp |-> tmp,
                 outs |-> [c.outs EXCEPT ![b] = w.outs]]
  BY Zenon DEF Prop!PropagateBlock
<1>3. ASSUME Prop!ToSet(preds) \subseteq c.g.blocks
      PROVE  tmp \in TmpOf(c.tmp, c.outs, B) /\ w \in WalkedOf(tmp) /\ Len(w.ins) = Len(w.outs)
  <2>1. preds \in Seq(B)
    BY <1>1, <1>3, PredsAre
  <2> HIDE DEF preds
  <2>2. tmp \in TmpOf(c.tmp, c.outs, B)
    BY <1>1, <2>1, TmpIn
  <2> HIDE DEF tmp
  <2>3. tmp \in Facts /\ c.g.ins[b] \in Seq(BlockInstrs)
    BY <1>1, <2>2 DEF TmpOf, GraphsOf
  <2>4. w \in WalkedOf(tmp)
    BY <2>3, WalkedIn
  <2> HIDE DEF w
  <2> QED BY <2>2, <2>4 DEF WalkedOf
<1> HIDE DEF w, tmp, preds
<1> QED BY <1>1, <1>2, <1>3, Zenon DEF Prop!Running, Done

\* A block keeps the types.
LEMMA PropagateIn ==
  ASSUME NEW D, NEW B \in SUBSET D, NEW c \in Propagations(D, B), NEW b \in B
  PROVE  Prop!PropagateBlock(c, b) \in Propagations(D, B)
<1> DEFINE e == Prop!PropagateBlock(c, b)
<1>1. c.g \in GraphsOf(D) /\ c.tmp \in Facts /\ c.outs \in [B -> Seq(Facts)] /\ c.g.blocks = B
  BY DEF Propagations
<1>2. ASSUME NEW why \in {"null", "freed"}, e = [c EXCEPT !.g = Prop!Failed(c.g, why)]
      PROVE  e \in Propagations(D, B)
  <2>1. Prop!Failed(c.g, why) \in GraphsOf(D) /\ Prop!Failed(c.g, why).blocks = B
    BY <1>1, FailedIn DEF GraphsOf, Prop!Failed
  <2> HIDE DEF e
  <2> QED BY <1>2, <2>1 DEF Propagations
<1>3. ASSUME NEW tmp \in TmpOf(c.tmp, c.outs, B), NEW w \in WalkedOf(tmp), e = Done(c, b, tmp, w)
      PROVE  e \in Propagations(D, B)
  <2>1. tmp \in Facts /\ w.ins \in Seq(BlockInstrs) /\ w.outs \in Seq(Facts)
    BY DEF TmpOf, WalkedOf
  <2>2. [c.g EXCEPT !.ins[b] = w.ins] \in GraphsOf(D)
        /\ [c.g EXCEPT !.ins[b] = w.ins].blocks = B
    BY <1>1, <2>1 DEF GraphsOf
  <2>3. [c.outs EXCEPT ![b] = w.outs] \in [B -> Seq(Facts)]
    BY <1>1, <2>1
  <2> HIDE DEF e
  <2> QED BY <1>3, <2>1, <2>2, <2>3 DEF Propagations, Done
<1>4. CASE e = c
  BY <1>4
<1> HIDE DEF e
<1>5. \/ e = c
      \/ \E why \in {"null", "freed"} : e = [c EXCEPT !.g = Prop!Failed(c.g, why)]
      \/ \E tmp \in TmpOf(c.tmp, c.outs, B) : \E w \in WalkedOf(tmp) : e = Done(c, b, tmp, w)
  BY BlockDone DEF e
<1> QED BY <1>2, <1>3, <1>4, <1>5 DEF e

\* A fold that comes at its place n to a member of S[n].
LEMMA FoldGoes ==
  ASSUME NEW S, NEW N \in Nat, NEW it, it[{}] \in S[0],
         \A n \in 1 .. N : it[1 .. n - 1] \in S[n - 1] => it[1 .. n] \in S[n]
  PROVE  it[1 .. N] \in S[N]
<1> DEFINE T == {n \in Nat : n <= N => it[1 .. n] \in S[n]}
<1>1. 0 \in T
  <2>1. 1 .. 0 = {}
    OBVIOUS
  <2> QED BY <2>1
<1>2. ASSUME NEW n \in Nat, n \in T PROVE n + 1 \in T
  <2>1. SUFFICES ASSUME n + 1 <= N PROVE it[1 .. n + 1] \in S[n + 1]
    OBVIOUS
  <2>2. n + 1 \in 1 .. N /\ (n + 1) - 1 = n /\ n <= N
    BY <2>1
  <2> QED BY <1>2, <2>2
<1>3. Nat \subseteq T
  <2> HIDE DEF T
  <2> QED BY <1>1, <1>2, NatSetInduction
<1> QED BY <1>3

\* A block, and one of the first k blocks of the list o, with an operation of constants.
Spotted(c, b) == \E h \in 1 .. Len(c.outs[b]) : Spot(c.g.ins[b][h], c.outs[b][h])
SpottedIn(c, o, k) == \E m \in 1 .. k : Spotted(c, o[m])

\* The first n blocks of the list are done: a constant that is NULL is known only behind
\* an operation of constants.
Reached(D, B, o, n) ==
    {c \in Propagations(D, B) :
       /\ \A b \in B : c.outs[b] # << >> => \E k \in 1 .. n : b = o[k]
       /\ c.g.failed = "no" => \A k \in 1 .. n : Len(c.outs[o[k]]) = Len(c.g.ins[o[k]])
       /\ \A k \in 1 .. n : \A j \in 1 .. Len(c.outs[o[k]]) :
            \/ Clean(c.outs[o[k]][j])
            \/ \E h \in 1 .. j : Spot(c.g.ins[o[k]][h], c.outs[o[k]][h])
            \/ SpottedIn(c, o, k - 1)
       /\ Clean(c.tmp) \/ SpottedIn(c, o, n)}

\* The blocks in order are all different.
LEMMA OrderOnce ==
  ASSUME NEW B \in SUBSET Nat, IsFiniteSet(B), NEW o, o = Prop!InOrder(B),
         NEW m \in 1 .. Cardinality(B), NEW n \in 1 .. Cardinality(B), o[m] = o[n]
  PROVE  m = n
<1>1. DOMAIN o = 1 .. Cardinality(B) /\ Cardinality(B) \in Nat
      /\ \A k \in DOMAIN o : Cardinality({a \in B : a < o[k]}) = k - 1
  BY InOrderIs
<1>2. Cardinality({a \in B : a < o[m]}) = m - 1 /\ Cardinality({a \in B : a < o[n]}) = n - 1
  BY <1>1
<1>3. m - 1 = n - 1
  BY <1>2
<1> QED BY <1>1, <1>3

\* A block at which the compiler stops.
LEMMA FailsOn ==
  ASSUME NEW D, NEW B \in SUBSET D, NEW o, NEW n \in Nat \ {0}, NEW c \in Reached(D, B, o, n - 1),
         o[n] \in B, \A k \in 1 .. n - 1 : o[k] # o[n],
         NEW e \in Propagations(D, B),
         e.tmp = c.tmp, e.outs = c.outs, e.g.ins = c.g.ins, e.g.failed # "no"
  PROVE  e \in Reached(D, B, o, n)
<1>1. \A k \in 1 .. n - 1 : k \in 1 .. n
  OBVIOUS
<1>2. \A b : Spotted(e, b) = Spotted(c, b)
  BY DEF Spotted
<1>3. \A k : SpottedIn(e, o, k) = SpottedIn(c, o, k)
  BY <1>2 DEF SpottedIn
<1>4. c.outs[o[n]] = << >>
  BY DEF Reached
<1>5. SpottedIn(c, o, n - 1) => SpottedIn(c, o, n)
  BY <1>1 DEF SpottedIn
<1>6. \A k \in 1 .. n : k \in 1 .. n - 1 \/ k = n
  OBVIOUS
<1>7. \A k \in 1 .. n : \A j \in 1 .. Len(c.outs[o[k]]) :
            \/ Clean(c.outs[o[k]][j])
            \/ \E h \in 1 .. j : Spot(c.g.ins[o[k]][h], c.outs[o[k]][h])
            \/ SpottedIn(c, o, k - 1)
  <2>1. \A j \in 1 .. Len(c.outs[o[n]]) : FALSE
    BY <1>4
  <2> QED BY <1>6, <2>1 DEF Reached
<1> QED BY <1>1, <1>3, <1>5, <1>7 DEF Reached

\* A block that is done.
LEMMA GoesOver ==
  ASSUME NEW D, NEW B \in SUBSET D, NEW o, NEW n \in Nat \ {0}, NEW c \in Reached(D, B, o, n - 1),
         o[n] \in B, \A k \in 1 .. n - 1 : o[k] # o[n] /\ o[k] \in B, c.g.failed = "no",
         NEW tmp \in TmpOf(c.tmp, c.outs, B), NEW w \in WalkedOf(tmp), Len(w.ins) = Len(w.outs),
         NEW e \in Propagations(D, B), e = Done(c, o[n], tmp, w)
  PROVE  e \in Reached(D, B, o, n)
<1> DEFINE b == o[n]
<1>1. c.g \in GraphsOf(D) /\ c.outs \in [B -> Seq(Facts)]
  BY DEF Reached, Propagations
<1>2. /\ e.outs[b] = w.outs /\ e.g.ins[b] = w.ins /\ e.tmp = tmp
      /\ \A d \in B : d # b => e.outs[d] = c.outs[d] /\ e.g.ins[d] = c.g.ins[d]
      /\ e.g.failed = c.g.failed
  BY <1>1 DEF Done, GraphsOf
<1>3. /\ \A k \in 1 .. n - 1 : k \in 1 .. n
      /\ \A k \in 1 .. n : k \in 1 .. n - 1 \/ k = n
      /\ n \in 1 .. n
  OBVIOUS
<1>4. \A k \in 1 .. n - 1 : /\ e.outs[o[k]] = c.outs[o[k]] /\ e.g.ins[o[k]] = c.g.ins[o[k]]
                            /\ Spotted(e, o[k]) = Spotted(c, o[k])
  BY <1>2 DEF Spotted
<1>5. \A k \in 1 .. n - 1 : SpottedIn(c, o, k) => SpottedIn(e, o, n - 1) /\ SpottedIn(e, o, n)
                            /\ SpottedIn(e, o, k)
  BY <1>3, <1>4 DEF SpottedIn
<1>6. SpottedIn(c, o, n - 1) => SpottedIn(e, o, n - 1) /\ SpottedIn(e, o, n)
  BY <1>3, <1>4 DEF SpottedIn
<1>7. Clean(tmp) \/ SpottedIn(c, o, n - 1)
  <2>1. CASE ~ Clean(c.tmp)
    BY <2>1 DEF Reached
  <2>2. ASSUME NEW p \in B, c.outs[p] # << >>, ~ Clean(c.outs[p][Len(c.outs[p])])
        PROVE  SpottedIn(c, o, n - 1)
    <3>1. PICK k \in 1 .. n - 1 : p = o[k]
      BY <2>2 DEF Reached
    <3>2. Len(c.outs[p]) \in 1 .. Len(c.outs[p])
      BY <1>1, <2>2
    <3>3. \/ \E h \in 1 .. Len(c.outs[p]) : Spot(c.g.ins[p][h], c.outs[p][h])
          \/ SpottedIn(c, o, k - 1)
      BY <2>2, <3>1, <3>2 DEF Reached
    <3>4. SpottedIn(c, o, k - 1) => SpottedIn(c, o, n - 1)
      BY DEF SpottedIn
    <3> QED BY <3>1, <3>3, <3>4 DEF SpottedIn, Spotted
  <2> QED BY <2>1, <2>2 DEF TmpOf
<1>8. ASSUME NEW d \in B, e.outs[d] # << >> PROVE \E k \in 1 .. n : d = o[k]
  <2>1. CASE d = b
    BY <1>3, <2>1
  <2>2. CASE d # b
    BY <1>2, <1>3, <1>8, <2>2 DEF Reached
  <2> QED BY <2>1, <2>2
<1>9. ASSUME NEW k \in 1 .. n PROVE Len(e.outs[o[k]]) = Len(e.g.ins[o[k]])
  <2>1. CASE k = n
    BY <1>2, <2>1
  <2>2. CASE k \in 1 .. n - 1
    BY <1>4, <2>2 DEF Reached
  <2> QED BY <1>3, <2>1, <2>2
<1>10. ASSUME NEW k \in 1 .. n, NEW j \in 1 .. Len(e.outs[o[k]])
       PROVE  \/ Clean(e.outs[o[k]][j])
              \/ \E h \in 1 .. j : Spot(e.g.ins[o[k]][h], e.outs[o[k]][h])
              \/ SpottedIn(e, o, k - 1)
  <2>1. CASE k = n
    <3>1. CASE Clean(tmp)
      <4>1. Clean(w.outs[j]) \/ \E h \in 1 .. j : Spot(w.ins[h], w.outs[h])
        BY <1>2, <1>10, <2>1, <3>1 DEF WalkedOf
      <4> QED BY <1>2, <2>1, <4>1
    <3>2. CASE SpottedIn(c, o, n - 1)
      BY <1>6, <2>1, <3>2
    <3> QED BY <1>7, <3>1, <3>2
  <2>2. CASE k \in 1 .. n - 1
    <3>1. \/ Clean(c.outs[o[k]][j])
          \/ \E h \in 1 .. j : Spot(c.g.ins[o[k]][h], c.outs[o[k]][h])
          \/ SpottedIn(c, o, k - 1)
      BY <1>4, <1>10, <2>2 DEF Reached
    <3>2. SpottedIn(c, o, k - 1) => SpottedIn(e, o, k - 1)
      <4>1. \A m \in 1 .. k - 1 : m \in 1 .. n - 1
        OBVIOUS
      <4> QED BY <1>4, <4>1 DEF SpottedIn
    <3> QED BY <1>4, <2>2, <3>1, <3>2
  <2> QED BY <1>3, <2>1, <2>2
<1>11. Clean(e.tmp) \/ SpottedIn(e, o, n)
  BY <1>2, <1>6, <1>7
<1> HIDE DEF b
<1> QED BY <1>8, <1>9, <1>10, <1>11 DEF Reached

\* Either of them.
LEMMA PropagateReaches ==
  ASSUME NEW D, NEW B \in SUBSET D, NEW o, NEW n \in Nat \ {0}, NEW c \in Reached(D, B, o, n - 1),
         o[n] \in B, \A k \in 1 .. n - 1 : o[k] # o[n] /\ o[k] \in B
  PROVE  Prop!PropagateBlock(c, o[n]) \in Reached(D, B, o, n)
<1> DEFINE e == Prop!PropagateBlock(c, o[n])
<1>1. c \in Propagations(D, B)
  BY DEF Reached
<1>2. e \in Propagations(D, B)
  BY <1>1, PropagateIn
<1> HIDE DEF e
<1>3. ASSUME e = c, c.g.failed # "no" PROVE e \in Reached(D, B, o, n)
  BY <1>2, <1>3, FailsOn
<1>4. ASSUME NEW why \in {"null", "freed"}, e = [c EXCEPT !.g = Prop!Failed(c.g, why)]
      PROVE  e \in Reached(D, B, o, n)
  <2>1. e.tmp = c.tmp /\ e.outs = c.outs /\ e.g = Prop!Failed(c.g, why)
    BY <1>1, <1>4 DEF Propagations
  <2>2. Prop!Failed(c.g, why).ins = c.g.ins /\ Prop!Failed(c.g, why).failed = why
    BY <1>1 DEF Propagations, GraphsOf, Prop!Failed
  <2> QED BY <1>2, <2>1, <2>2, FailsOn
<1>5. \/ e = c /\ c.g.failed # "no"
      \/ \E why \in {"null", "freed"} : e = [c EXCEPT !.g = Prop!Failed(c.g, why)]
      \/ c.g.failed = "no" /\ \E tmp \in TmpOf(c.tmp, c.outs, B) :
           \E w \in WalkedOf(tmp) : Len(w.ins) = Len(w.outs) /\ e = Done(c, o[n], tmp, w)
  BY <1>1, BlockDone DEF e
<1>6. ASSUME c.g.failed = "no", NEW tmp \in TmpOf(c.tmp, c.outs, B), NEW w \in WalkedOf(tmp),
             Len(w.ins) = Len(w.outs), e = Done(c, o[n], tmp, w)
      PROVE  e \in Reached(D, B, o, n)
  BY <1>2, <1>6, GoesOver
<1> QED BY <1>3, <1>4, <1>5, <1>6 DEF e

\* cp_propagate.
LEMMA CpPropagateIn ==
  ASSUME NEW D \in SUBSET Nat, IsFiniteSet(D), NEW g \in GraphsOf(D)
  PROVE  Prop!CpPropagate(g)
           \in Reached(D, g.blocks, Prop!InOrder(g.blocks), Cardinality(g.blocks))
<1> DEFINE Go(c, b) == Prop!PropagateBlock(c, b)
           B == g.blocks
           G == Propagations(D, B)
           base == [g |-> g, tmp |-> [v \in Vars |-> Prop!Undef], outs |-> [b \in B |-> << >>]]
           seq == Prop!InOrder(B)
           N == Cardinality(B)
           F == [p \in G \X (1 .. N) |-> Go(p[1], seq[p[2]])]
           it == CHOOSE w : w = [s \in SUBSET DOMAIN seq |->
                   IF s = {} THEN base ELSE Go(w[s \ {Prop!Max(s)}], seq[Prop!Max(s)])]
<1>0. B \in SUBSET D /\ B \in SUBSET Nat /\ IsFiniteSet(B)
  <2>1. B \in SUBSET D
    BY DEF GraphsOf
  <2> QED BY <2>1, FS_Subset
<1>1. N \in Nat /\ DOMAIN seq = 1 .. N /\ \A n \in 1 .. N : seq[n] \in B
  BY <1>0, InOrderIs
<1>2. base \in Reached(D, B, seq, 0)
  <2>1. [v \in Vars |-> Prop!Undef] \in Facts /\ Clean([v \in Vars |-> Prop!Undef])
    BY DEF Facts, Clean, Prop!Undef
  <2>2. [b \in B |-> << >>] \in [B -> Seq(Facts)]
    OBVIOUS
  <2>3. base \in Propagations(D, B)
    BY <2>1, <2>2 DEF Propagations
  <2>4. 1 .. 0 = {}
    OBVIOUS
  <2> HIDE DEF seq, B
  <2> QED BY <2>1, <2>3, <2>4 DEF Reached
<1>3. ASSUME NEW c \in G, NEW n \in 1 .. N PROVE Go(c, seq[n]) \in G
  <2>1. seq[n] \in B
    BY <1>1
  <2> HIDE DEF seq, B
  <2> QED BY <1>0, <2>1, PropagateIn
<1>9. base \in G
  BY <1>2 DEF Reached
<1>4. PICK f : FoldOf(G, F, base, N, f)
  <2>1. F \in [G \X (1 .. N) -> G]
    <3> HIDE DEF Go, G, N, seq
    <3> QED BY <1>3
  <2> HIDE DEF F, G, N, base
  <2> QED BY <1>1, <1>9, <2>1, FoldIn
<1>5. f = [s \in SUBSET DOMAIN seq |->
             IF s = {} THEN base ELSE Go(f[s \ {Prop!Max(s)}], seq[Prop!Max(s)])]
  <2>1. \A c \in G, n \in 1 .. N : F[<<c, n>>] = Go(c, seq[n])
    <3> HIDE DEF Go, G, N, seq
    <3> QED OBVIOUS
  <2> HIDE DEF Go, F, G, N, base, seq
  <2>2. ASSUME NEW s \in SUBSET (1 .. N)
        PROVE  f[s] = IF s = {} THEN base ELSE Go(f[s \ {Prop!Max(s)}], seq[Prop!Max(s)])
    BY <1>4, <2>1 DEF FoldOf
  <2>3. f = [s \in SUBSET (1 .. N) |-> f[s]]
    BY <1>4 DEF FoldOf
  <2> QED BY <1>1, <2>2, <2>3
<1>6. it = [s \in SUBSET DOMAIN seq |->
              IF s = {} THEN base ELSE Go(it[s \ {Prop!Max(s)}], seq[Prop!Max(s)])]
  <2> HIDE DEF Go, F, G, N, base, seq
  <2> QED BY <1>5, Zenon
<1>7. it[1 .. N] \in Reached(D, B, seq, N)
  <2> DEFINE S == [n \in 0 .. N |-> Reached(D, B, seq, n)]
  <2>1. N \in Nat /\ DOMAIN seq = 1 .. N /\ base \in Reached(D, B, seq, 0)
    BY <1>1, <1>2
  <2>2. ASSUME NEW n \in 1 .. N, NEW c \in Reached(D, B, seq, n - 1)
        PROVE  Go(c, seq[n]) \in Reached(D, B, seq, n)
    <3>1. seq[n] \in B /\ \A k \in 1 .. n - 1 : seq[k] # seq[n] /\ seq[k] \in B
      <4>1. \A k \in 1 .. n - 1 : k \in 1 .. N /\ k # n
        BY <1>1
      <4> QED BY <1>0, <1>1, <4>1, OrderOnce
    <3>2. n \in Nat \ {0}
      OBVIOUS
    <3> HIDE DEF seq, B, N
    <3> QED BY <1>0, <3>1, <3>2, PropagateReaches
  <2> HIDE DEF Go, F, G, N, base, seq, it, B
  <2>3. it[{}] = base
    BY <1>6
  <2>4. ASSUME NEW n \in 1 .. N PROVE it[1 .. n] = Go(it[1 .. n - 1], seq[n])
    <3>1. /\ (1 .. n) \in SUBSET DOMAIN seq /\ 1 .. n # {} /\ Prop!Max(1 .. n) = n
          /\ (1 .. n) \ {n} = 1 .. n - 1
      BY <2>1, MaxAt
    <3>2. it[1 .. n] = Go(it[(1 .. n) \ {Prop!Max(1 .. n)}], seq[Prop!Max(1 .. n)])
      BY <1>6, <3>1
    <3> QED BY <3>1, <3>2
  <2>5. it[{}] \in S[0]
    BY <2>1, <2>3
  <2>6. ASSUME NEW n \in 1 .. N, it[1 .. n - 1] \in S[n - 1] PROVE it[1 .. n] \in S[n]
    <3>1. n - 1 \in 0 .. N /\ n \in 0 .. N
      BY <2>1
    <3> QED BY <2>2, <2>4, <2>6, <3>1
  <2>7. it[1 .. N] \in S[N]
    <3> HIDE DEF S
    <3> QED BY <2>1, <2>5, <2>6, FoldGoes
  <2> QED BY <2>1, <2>7
<1>8. Prop!CpPropagate(g) = it[DOMAIN seq]
  BY Zenon DEF Prop!CpPropagate, Prop!FoldLeft, Prop!MapThenFoldSet
<1> HIDE DEF it
<1> QED BY <1>1, <1>7, <1>8

-----------------------------------------------------------------------------
(* cp_fold.  The first place it may change is no later than the first such    *)
(* operation, so that what it writes is no NULL.                            *)

\* Lists of blocks of which the first n stand in R[n] to each other.
LEMMA FlatGoes ==
  ASSUME NEW R, NEW N \in Nat, NEW ss, NEW tt, NEW X, NEW Y,
         ss = [i \in 1 .. N |-> ss[i]], tt = [i \in 1 .. N |-> tt[i]],
         \A n \in 1 .. N : ss[n] \in Seq(X) /\ tt[n] \in Seq(Y),
         << << >>, << >> >> \in R[0],
         \A n \in 1 .. N : \A x, y : <<x, y>> \in R[n - 1] => <<x \o ss[n], y \o tt[n]>> \in R[n]
  PROVE  <<Prop!FlattenSeq(ss), Prop!FlattenSeq(tt)>> \in R[N]
<1>1. Len(ss) = N /\ Len(tt) = N
  BY IsASeq
<1>2. CASE N = 0
  <2>1. ss = << >> /\ tt = << >>
    BY <1>1, <1>2, EmptySeq
  <2>2. Prop!FlattenSeq(ss) = ss /\ Prop!FlattenSeq(tt) = tt
    BY <1>1, <1>2 DEF Prop!FlattenSeq
  <2> QED BY <1>2, <2>1, <2>2
<1>3. CASE N # 0
  <2> DEFINE f == CHOOSE f : IsFlat(ss, N, f)
             g == CHOOSE g : IsFlat(tt, N, g)
  <2>1. IsFlat(ss, N, f) /\ IsFlat(tt, N, g)
    BY FlatExists
  <2>2. Prop!FlattenSeq(ss) = f[N]
    BY <1>1, <1>3, Zenon DEF Prop!FlattenSeq, IsFlat
  <2>3. Prop!FlattenSeq(tt) = g[N]
    BY <1>1, <1>3, Zenon DEF Prop!FlattenSeq, IsFlat
  <2> HIDE DEF f, g
  <2>4. \A n \in 1 .. N : /\ f[n] = IF n = 1 THEN ss[n] ELSE f[n - 1] \o ss[n]
                          /\ g[n] = IF n = 1 THEN tt[n] ELSE g[n - 1] \o tt[n]
    BY <2>1 DEF IsFlat
  <2> DEFINE S == {n \in Nat : n + 1 \in 1 .. N => <<f[n + 1], g[n + 1]>> \in R[n + 1]}
  <2>5. 0 \in S
    <3>1. 1 \in 1 .. N /\ 1 - 1 = 0
      BY <1>3
    <3>2. << << >> \o ss[1], << >> \o tt[1]>> \in R[1]
      BY <3>1
    <3>3. << >> \o ss[1] = ss[1] /\ << >> \o tt[1] = tt[1]
      BY <3>1
    <3>4. f[1] = ss[1] /\ g[1] = tt[1]
      BY <2>4, <3>1
    <3>5. <<f[1], g[1]>> \in R[1]
      BY <3>2, <3>3, <3>4
    <3>6. 0 + 1 = 1
      OBVIOUS
    <3> QED BY <3>5, <3>6
  <2>6. ASSUME NEW n \in Nat, n \in S PROVE n + 1 \in S
    <3>1. SUFFICES ASSUME (n + 1) + 1 \in 1 .. N
                   PROVE  <<f[(n + 1) + 1], g[(n + 1) + 1]>> \in R[(n + 1) + 1]
      OBVIOUS
    <3>2. n + 1 \in 1 .. N /\ (n + 1) + 1 # 1 /\ ((n + 1) + 1) - 1 = n + 1
      BY <3>1
    <3>3. <<f[n + 1], g[n + 1]>> \in R[n + 1]
      BY <2>6, <3>2
    <3>4. <<f[n + 1] \o ss[(n + 1) + 1], g[n + 1] \o tt[(n + 1) + 1]>> \in R[(n + 1) + 1]
      BY <3>1, <3>2, <3>3
    <3>5. f[(n + 1) + 1] = f[n + 1] \o ss[(n + 1) + 1] /\ g[(n + 1) + 1] = g[n + 1] \o tt[(n + 1) + 1]
      BY <2>4, <3>1, <3>2
    <3> QED BY <3>4, <3>5
  <2>7. N - 1 \in S
    <3>1. Nat \subseteq S
      <4> HIDE DEF S
      <4> QED BY <2>5, <2>6, NatSetInduction
    <3> QED BY <1>3, <3>1
  <2>8. (N - 1) + 1 = N /\ N \in 1 .. N
    BY <1>3
  <2> QED BY <2>2, <2>3, <2>7, <2>8
<1> QED BY <1>2, <1>3

\* In the code as one list, what is known behind an instruction has no NULL constant but
\* behind an operation of constants.
Grounded(s, f) ==
    /\ s \in Seq(BlockInstrs) /\ f \in Seq(Facts) /\ Len(f) = Len(s)
    /\ \A n \in 1 .. Len(s) : Clean(f[n]) \/ \E m \in 1 .. n : Spot(s[m], f[m])

\* A block more.
LEMMA GroundedAppend ==
  ASSUME NEW s, NEW f, Grounded(s, f), NEW t \in Seq(BlockInstrs), NEW e \in Seq(Facts), Len(e) = Len(t),
         NEW b \in BOOLEAN, b => \E m \in 1 .. Len(s) : Spot(s[m], f[m]),
         \A n \in 1 .. Len(t) : Clean(e[n]) \/ (\E m \in 1 .. n : Spot(t[m], e[m])) \/ b
  PROVE  /\ Grounded(s \o t, f \o e)
         /\ \A m \in 1 .. Len(t) : Spot(t[m], e[m]) =>
              \E k \in 1 .. Len(s \o t) : Spot((s \o t)[k], (f \o e)[k])
         /\ b => \E k \in 1 .. Len(s \o t) : Spot((s \o t)[k], (f \o e)[k])
<1> DEFINE x == s \o t  y == f \o e
<1>1. s \in Seq(BlockInstrs) /\ f \in Seq(Facts) /\ Len(f) = Len(s) /\ Len(s) \in Nat /\ Len(t) \in Nat
      /\ \A n \in 1 .. Len(s) : Clean(f[n]) \/ \E m \in 1 .. n : Spot(s[m], f[m])
  BY DEF Grounded
<1>2. x \in Seq(BlockInstrs) /\ y \in Seq(Facts) /\ Len(x) = Len(s) + Len(t) /\ Len(y) = Len(x)
  <2>1. s \o t \in Seq(BlockInstrs) /\ Len(s \o t) = Len(s) + Len(t)
    BY <1>1
  <2>2. f \o e \in Seq(Facts) /\ Len(f \o e) = Len(f) + Len(e)
    <3>1. f \in Seq(Facts) /\ e \in Seq(Facts)
      BY <1>1
    <3> QED BY <3>1, ConcatProperties, Zenon
  <2> HIDE DEF x, y
  <2> QED BY <1>1, <2>1, <2>2 DEF x, y
<1>3. \A n \in 1 .. Len(s) : n \in 1 .. Len(x) /\ x[n] = s[n] /\ y[n] = f[n]
  BY <1>1
<1>4. \A n \in 1 .. Len(t) : Len(s) + n \in 1 .. Len(x) /\ x[Len(s) + n] = t[n] /\ y[Len(s) + n] = e[n]
  BY <1>1
<1> HIDE DEF x, y
<1>5. ASSUME NEW n \in 1 .. Len(x) PROVE Clean(y[n]) \/ \E m \in 1 .. n : Spot(x[m], y[m])
  <2>1. CASE n \in 1 .. Len(s)
    <3>1. \A m \in 1 .. n : m \in 1 .. Len(s)
      BY <1>1, <2>1
    <3> QED BY <1>1, <1>3, <2>1, <3>1
  <2>2. CASE n \notin 1 .. Len(s)
    <3>1. n - Len(s) \in 1 .. Len(t) /\ Len(s) + (n - Len(s)) = n
      BY <1>1, <1>2, <2>2
    <3>2. y[n] = e[n - Len(s)]
      BY <1>4, <3>1
    <3>3. ASSUME NEW m \in 1 .. n - Len(s), Spot(t[m], e[m])
          PROVE  \E k \in 1 .. n : Spot(x[k], y[k])
      <4>1. m \in 1 .. Len(t) /\ Len(s) + m \in 1 .. n
        BY <1>1, <3>1
      <4> QED BY <1>4, <3>3, <4>1
    <3>4. ASSUME b PROVE \E k \in 1 .. n : Spot(x[k], y[k])
      <4>1. PICK m \in 1 .. Len(s) : Spot(s[m], f[m])
        BY <3>4
      <4>2. m \in 1 .. n
        BY <1>1, <3>1
      <4> QED BY <1>3, <4>1, <4>2
    <3> QED BY <3>1, <3>2, <3>3, <3>4
  <2> QED BY <2>1, <2>2
<1>6. Grounded(x, y)
  BY <1>2, <1>5 DEF Grounded
<1> QED BY <1>3, <1>4, <1>6 DEF x, y

\* The code cp_propagate leaves is so.
LEMMA CodeGrounded ==
  ASSUME NEW D \in SUBSET Nat, IsFiniteSet(D), NEW B \in SUBSET D, NEW c,
         c \in Reached(D, B, Prop!InOrder(B), Cardinality(B)), c.g.failed = "no"
  PROVE  Grounded(Prop!FlatOf(B, c.g.ins), Prop!FlatOf(B, c.outs))
<1> DEFINE o == Prop!InOrder(B)  N == Cardinality(B)
           ss == [n \in DOMAIN o |-> c.g.ins[o[n]]]  tt == [n \in DOMAIN o |-> c.outs[o[n]]]
           R == [n \in 0 .. N |-> {p \in Seq(BlockInstrs) \X Seq(Facts) :
                   /\ Grounded(p[1], p[2])
                   /\ SpottedIn(c, o, n) => \E m \in 1 .. Len(p[1]) : Spot(p[1][m], p[2][m])}]
<1>0. B \in SUBSET Nat /\ IsFiniteSet(B)
  BY FS_Subset
<1>1. N \in Nat /\ DOMAIN o = 1 .. N /\ \A n \in 1 .. N : o[n] \in B
  BY <1>0, InOrderIs
<1>2. c \in Reached(D, B, o, N) /\ c.g \in GraphsOf(D) /\ c.outs \in [B -> Seq(Facts)]
  BY DEF Reached, Propagations
<1>9. Prop!FlatOf(B, c.g.ins) = Prop!FlattenSeq(ss) /\ Prop!FlatOf(B, c.outs) = Prop!FlattenSeq(tt)
  BY Zenon DEF Prop!FlatOf
<1> HIDE DEF o, N
<1>3. /\ ss = [n \in 1 .. N |-> ss[n]] /\ tt = [n \in 1 .. N |-> tt[n]]
      /\ \A n \in 1 .. N : /\ ss[n] = c.g.ins[o[n]] /\ tt[n] = c.outs[o[n]]
                           /\ ss[n] \in Seq(BlockInstrs) /\ tt[n] \in Seq(Facts)
                           /\ Len(tt[n]) = Len(ss[n])
  <2>1. \A n \in 1 .. N : o[n] \in D /\ c.g.ins[o[n]] \in Seq(BlockInstrs) /\ c.outs[o[n]] \in Seq(Facts)
    BY <1>1, <1>2 DEF GraphsOf
  <2>2. \A n \in 1 .. N : Len(c.outs[o[n]]) = Len(c.g.ins[o[n]])
    BY <1>2 DEF Reached
  <2> QED BY <1>1, <2>1, <2>2
<1>4. << << >>, << >> >> \in R[0]
  <2>1. Grounded(<< >>, << >>)
    BY DEF Grounded
  <2>2. ~ SpottedIn(c, o, 0)
    BY DEF SpottedIn
  <2>3. 0 \in 0 .. N
    BY <1>1
  <2>4. R[0] = {p \in Seq(BlockInstrs) \X Seq(Facts) :
                   /\ Grounded(p[1], p[2])
                   /\ SpottedIn(c, o, 0) => \E m \in 1 .. Len(p[1]) : Spot(p[1][m], p[2][m])}
    BY <2>3
  <2>5. << >> \in Seq(BlockInstrs) /\ << >> \in Seq(Facts)
    OBVIOUS
  <2> HIDE DEF R
  <2> QED BY <2>1, <2>2, <2>4, <2>5
<1>5. ASSUME NEW n \in 1 .. N, NEW x, NEW y, <<x, y>> \in R[n - 1]
      PROVE  <<x \o ss[n], y \o tt[n]>> \in R[n]
  <2> DEFINE t == ss[n]  e == tt[n]  bad == SpottedIn(c, o, n - 1)
  <2>1. n - 1 \in 0 .. N /\ n \in 0 .. N
    BY <1>1
  <2>2. Grounded(x, y) /\ (bad => \E m \in 1 .. Len(x) : Spot(x[m], y[m]))
        /\ x \in Seq(BlockInstrs) /\ y \in Seq(Facts)
    BY <1>5, <2>1
  <2>3. t \in Seq(BlockInstrs) /\ e \in Seq(Facts) /\ Len(e) = Len(t) /\ bad \in BOOLEAN
        /\ t = c.g.ins[o[n]] /\ e = c.outs[o[n]]
    BY <1>3 DEF SpottedIn
  <2>4. \A j \in 1 .. Len(t) : Clean(e[j]) \/ (\E m \in 1 .. j : Spot(t[m], e[m])) \/ bad
    BY <1>2, <2>3 DEF Reached
  <2>5. SpottedIn(c, o, n) => bad \/ \E m \in 1 .. Len(t) : Spot(t[m], e[m])
    <3>1. \A m \in 1 .. n : m \in 1 .. n - 1 \/ m = n
      OBVIOUS
    <3>2. Spotted(c, o[n]) => \E m \in 1 .. Len(t) : Spot(t[m], e[m])
      BY <2>3 DEF Spotted
    <3> QED BY <3>1, <3>2 DEF SpottedIn
  <2> HIDE DEF t, e, bad
  <2>6. /\ Grounded(x \o t, y \o e)
        /\ \A m \in 1 .. Len(t) : Spot(t[m], e[m]) =>
              \E k \in 1 .. Len(x \o t) : Spot((x \o t)[k], (y \o e)[k])
        /\ bad => \E k \in 1 .. Len(x \o t) : Spot((x \o t)[k], (y \o e)[k])
    BY <2>2, <2>3, <2>4, GroundedAppend
  <2>7. x \o t \in Seq(BlockInstrs) /\ y \o e \in Seq(Facts)
    BY <2>2, <2>3
  <2>8. <<x \o t, y \o e>> \in R[n]
    BY <2>1, <2>5, <2>6, <2>7
  <2> QED BY <2>8 DEF t, e
<1> HIDE DEF ss, tt, R
<1>6. <<Prop!FlattenSeq(ss), Prop!FlattenSeq(tt)>> \in R[N]
  BY <1>1, <1>3, <1>4, <1>5, FlatGoes
<1> QED BY <1>1, <1>6, <1>9 DEF R

\* Two lists of which each pair of members is in Z.
Paired(X, Y, Z) ==
    {p \in Seq(X) \X Seq(Y) : Len(p[1]) = Len(p[2]) /\ \A k \in 1 .. Len(p[2]) : <<p[1][k], p[2][k]>> \in Z}

\* The empty lists.
LEMMA PairedEmpty ==
  ASSUME NEW X, NEW Y, NEW Z
  PROVE  << << >>, << >> >> \in Paired(X, Y, Z)
<1>1. << >> \in Seq(X) /\ << >> \in Seq(Y) /\ Len(<< >>) = 0
  OBVIOUS
<1>2. << << >>, << >> >>[1] = << >> /\ << << >>, << >> >>[2] = << >>
  OBVIOUS
<1>3. 1 .. 0 = {}
  OBVIOUS
<1> DEFINE e == << << >>, << >> >>
<1>4. e \in Seq(X) \X Seq(Y) /\ e[1] = << >> /\ e[2] = << >>
  BY <1>1, <1>2
<1> HIDE DEF e
<1>5. e \in Paired(X, Y, Z)
  BY <1>1, <1>3, <1>4, Zenon DEF Paired
<1> QED BY <1>5 DEF e

\* Two such pairs in a row.
LEMMA PairedAppend ==
  ASSUME NEW X, NEW Y, NEW Z, NEW s \in Seq(X), NEW t \in Seq(Y), NEW u \in Seq(X), NEW w \in Seq(Y),
         <<s, t>> \in Paired(X, Y, Z), <<u, w>> \in Paired(X, Y, Z)
  PROVE  <<s \o u, t \o w>> \in Paired(X, Y, Z)
<1>1. /\ Len(s) = Len(t) /\ \A k \in 1 .. Len(t) : <<s[k], t[k]>> \in Z
      /\ Len(u) = Len(w) /\ \A k \in 1 .. Len(w) : <<u[k], w[k]>> \in Z
      /\ Len(t) \in Nat /\ Len(w) \in Nat
  <2>1. ASSUME NEW a \in Seq(X), NEW c \in Seq(Y), <<a, c>> \in Paired(X, Y, Z)
        PROVE  Len(a) = Len(c) /\ \A k \in 1 .. Len(c) : <<a[k], c[k]>> \in Z
    <3> DEFINE p == <<a, c>>
    <3>1. p[1] = a /\ p[2] = c /\ p \in Paired(X, Y, Z)
      BY <2>1
    <3> HIDE DEF p
    <3>2. Len(p[1]) = Len(p[2]) /\ \A k \in 1 .. Len(p[2]) : <<p[1][k], p[2][k]>> \in Z
      BY <3>1, Zenon DEF Paired
    <3> QED BY <3>1, <3>2
  <2>2. Len(t) \in Nat /\ Len(w) \in Nat
    OBVIOUS
  <2> QED BY <2>1, <2>2
<1>2. /\ s \o u \in Seq(X) /\ Len(s \o u) = Len(s) + Len(u)
      /\ \A k \in 1 .. Len(s) + Len(u) : (s \o u)[k] = IF k <= Len(s) THEN s[k] ELSE u[k - Len(s)]
  <2>1. s \in Seq(X) /\ u \in Seq(X)
    OBVIOUS
  <2> QED BY <2>1, ConcatProperties, Zenon
<1>3. /\ t \o w \in Seq(Y) /\ Len(t \o w) = Len(t) + Len(w)
      /\ \A k \in 1 .. Len(t) + Len(w) : (t \o w)[k] = IF k <= Len(t) THEN t[k] ELSE w[k - Len(t)]
  <2>1. t \in Seq(Y) /\ w \in Seq(Y)
    OBVIOUS
  <2> QED BY <2>1, ConcatProperties, Zenon
<1> DEFINE x == s \o u  y == t \o w
<1> HIDE DEF x, y
<1>4. ASSUME NEW k \in 1 .. Len(y) PROVE <<x[k], y[k]>> \in Z
  <2>1. /\ x[k] = IF k <= Len(t) THEN s[k] ELSE u[k - Len(t)]
        /\ y[k] = IF k <= Len(t) THEN t[k] ELSE w[k - Len(t)]
    BY <1>1, <1>2, <1>3 DEF x, y
  <2>2. k \in 1 .. Len(t) + Len(w)
    BY <1>3 DEF y
  <2>3. CASE k <= Len(t)
    BY <1>1, <2>1, <2>2, <2>3
  <2>4. CASE ~ (k <= Len(t))
    <3>1. k - Len(t) \in 1 .. Len(w)
      BY <1>1, <2>2, <2>4
    <3> QED BY <1>1, <2>1, <2>4, <3>1
  <2> QED BY <2>3, <2>4
<1>5. x \in Seq(X) /\ y \in Seq(Y) /\ Len(x) = Len(y)
  BY <1>1, <1>2, <1>3 DEF x, y
<1>6. <<x, y>> \in Paired(X, Y, Z)
  BY <1>4, <1>5 DEF Paired
<1> QED BY <1>6 DEF x, y

\* Where an instruction of the code is.
LEMMA PlaceHolds ==
  ASSUME NEW B \in SUBSET Nat, IsFiniteSet(B), NEW D, B \subseteq D, NEW g \in GraphsOf(D), g.blocks = B,
         NEW n \in DOMAIN Prop!Flat(g)
  PROVE  \E b \in B : \E j \in DOMAIN g.ins[b] :
           Prop!Places(g)[n] = <<b, j>> /\ Prop!Flat(g)[n] = g.ins[b][j]
<1> DEFINE At == UNION {{<<b, j>> : j \in DOMAIN g.ins[b]} : b \in B}
           Z == UNION {{<< <<b, j>>, g.ins[b][j]>> : j \in DOMAIN g.ins[b]} : b \in B}
           R == Paired(At, BlockInstrs, Z)
           P == [b \in B |-> [j \in DOMAIN g.ins[b] |-> <<b, j>>]]
<1>1. Appends(R)
  <2>1. << << >>, << >> >> \in R
    <3> HIDE DEF At, Z
    <3> QED BY PairedEmpty
  <2>2. ASSUME NEW p \in R, NEW q \in R PROVE <<p[1] \o q[1], p[2] \o q[2]>> \in R
    <3> HIDE DEF At, Z
    <3>1. p[1] \in Seq(At) /\ q[1] \in Seq(At) /\ p[2] \in Seq(BlockInstrs) /\ q[2] \in Seq(BlockInstrs)
          /\ p = <<p[1], p[2]>> /\ q = <<q[1], q[2]>>
      BY DEF Paired
    <3>2. <<p[1], p[2]>> \in R /\ <<q[1], q[2]>> \in R
      BY <3>1
    <3> QED BY <3>1, <3>2, PairedAppend
  <2> HIDE DEF R
  <2> QED BY <2>1, <2>2 DEF Appends
<1>2. ASSUME NEW b \in B PROVE <<P[b], g.ins[b]>> \in R
  <2>1. g.ins[b] \in Seq(BlockInstrs)
    BY DEF GraphsOf
  <2>2. DOMAIN g.ins[b] = 1 .. Len(g.ins[b]) /\ Len(g.ins[b]) \in Nat
    BY <2>1
  <2>3. P[b] = [j \in 1 .. Len(g.ins[b]) |-> <<b, j>>]
    BY <2>2
  <2>4. \A j \in 1 .. Len(g.ins[b]) : <<b, j>> \in At /\ << <<b, j>>, g.ins[b][j]>> \in Z
    BY <2>2
  <2> HIDE DEF P, At, Z
  <2>5. P[b] \in Seq(At) /\ Len(P[b]) = Len(g.ins[b])
    <3> DEFINE m == Len(g.ins[b])  q == P[b]
    <3>1. m \in Nat /\ q = [j \in 1 .. m |-> <<b, j>>] /\ \A j \in 1 .. m : <<b, j>> \in At
      BY <2>2, <2>3, <2>4
    <3> HIDE DEF m, q
    <3>2. q \in Seq(At) /\ Len(q) = m
      <4>1. \A j \in 1 .. m : q[j] \in At
        BY <3>1
      <4> QED BY <3>1, <4>1, IsASeq
    <3> QED BY <3>2 DEF m, q
  <2>6. \A j \in 1 .. Len(g.ins[b]) : P[b][j] = <<b, j>>
    BY <2>3
  <2> QED BY <2>1, <2>2, <2>4, <2>5, <2>6 DEF Paired
<1> HIDE DEF R
<1>3. <<Prop!FlatOf(B, P), Prop!FlatOf(B, g.ins)>> \in R
  BY <1>1, <1>2, CodeRelates
<1>4. Prop!Places(g) = Prop!FlatOf(B, P) /\ Prop!Flat(g) = Prop!FlatOf(B, g.ins)
  BY Zenon DEF Prop!Places, Prop!Flat
<1> HIDE DEF P, At, Z
<1>5. /\ Prop!Flat(g) \in Seq(BlockInstrs)
      /\ \A k \in 1 .. Len(Prop!Flat(g)) : <<Prop!Places(g)[k], Prop!Flat(g)[k]>> \in Z
  BY <1>3, <1>4 DEF R, Paired
<1>6. <<Prop!Places(g)[n], Prop!Flat(g)[n]>> \in Z
  BY <1>5
<1> QED BY <1>6 DEF Z

\* What the compiler computes itself is an int.
LEMMA ResultIsInt ==
  ASSUME NEW op \in Binops, NEW a \in Int, NEW b \in Int, ~ Prop!Traps(op, a, b)
  PROVE  Prop!Result(op, a, b) \in Int /\ Prop!Wrap(Prop!Result(op, a, b)) \in Int
<1>1. Prop!Result(op, a, b) \in Int
  <2>1. CASE op = "TDIV"
    <3>1. b # 0
      BY <2>1 DEF Prop!Traps
    <3>2. Prop!Magnitude(a) \in Nat /\ Prop!Magnitude(b) \in Nat \ {0}
      BY <3>1 DEF Prop!Magnitude
    <3>3. Prop!Magnitude(a) \div Prop!Magnitude(b) \in Int
      <4>1. \A x \in Nat, y \in Nat \ {0} : x \div y \in Int
        OBVIOUS
      <4> QED BY <3>2, <4>1
    <3>4. Prop!Divided(a, b) \in Int
      BY <3>3 DEF Prop!Divided
    <3> QED BY <2>1, <3>4 DEF Prop!Result
  <2>2. CASE op # "TDIV"
    BY <2>2 DEF Prop!Result
  <2> QED BY <2>1, <2>2
<1>2. \A n \in Int : Prop!Wrap(n) \in Int
  <2> SUFFICES ASSUME NEW n \in Int PROVE Prop!Wrap(n) \in Int
    OBVIOUS
  <2> DEFINE size == 2 * (MaxWord + 1)
  <2>1. size \in Nat \ {0} /\ MaxWord \in Int
    BY WordsAssumption
  <2>2. Prop!Wrap(n) = ((n + MaxWord + 1) % size) - (MaxWord + 1)
    BY Zenon DEF Prop!Wrap
  <2> HIDE DEF size
  <2>3. \A x \in Int, y \in Nat \ {0} : x % y \in Int
    OBVIOUS
  <2>4. n + MaxWord + 1 \in Int
    BY <2>1
  <2> QED BY <2>1, <2>2, <2>3, <2>4
<1> QED BY <1>1, <1>2

\* An instruction of a block is replaced.
LEMMA ReplacedIn ==
  ASSUME NEW D, NEW g \in GraphsOf(D), NEW b \in D, NEW j \in DOMAIN g.ins[b], NEW i \in BlockInstrs
  PROVE  [g EXCEPT !.ins[b][j] = i] \in GraphsOf(D)
<1>1. g.ins \in [D -> Seq(BlockInstrs)] /\ g.ins[b] \in Seq(BlockInstrs)
  BY DEF GraphsOf
<1>2. [g.ins[b] EXCEPT ![j] = i] \in Seq(BlockInstrs)
  BY <1>1
<1>3. [g.ins EXCEPT ![b] = [g.ins[b] EXCEPT ![j] = i]] \in [D -> Seq(BlockInstrs)]
  BY <1>1, <1>2
<1>4. [g EXCEPT !.ins[b][j] = i] = [g EXCEPT !.ins = [g.ins EXCEPT ![b] = [g.ins[b] EXCEPT ![j] = i]]]
  BY DEF GraphsOf
<1> QED BY <1>3, <1>4 DEF GraphsOf

\* binop_fold.
LEMMA BinopFoldIn ==
  ASSUME NEW D, NEW g \in GraphsOf(D), NEW b \in D, NEW j \in DOMAIN g.ins[b], NEW i \in BlockInstrs,
         i.op \in Binops, NEW x \in Int \cup {NoSymbol}, NEW y \in Int \cup {NoSymbol}
  PROVE  Prop!BinopFold(g, <<b, j>>, i, x, y) \in GraphsOf(D)
<1>1. CASE NoSymbol \in {x, y}
  BY <1>1, FailedIn, Zenon DEF Prop!BinopFold
<1>2. CASE NoSymbol \notin {x, y} /\ Prop!Traps(i.op, x, y)
  BY <1>2, FailedIn, Zenon DEF Prop!BinopFold
<1>3. CASE NoSymbol \notin {x, y} /\ ~ Prop!Traps(i.op, x, y)
  <2>1. x \in Int /\ y \in Int
    BY <1>3
  <2>2. Prop!Wrap(Prop!Result(i.op, x, y)) \in Int
    BY <1>3, <2>1, ResultIsInt
  <2> DEFINE k == [i EXCEPT !.op = "TASSIGN", !.a1 = Prop!Wrap(Prop!Result(i.op, x, y)), !.a2 = 0,
                            !.bb = FALSE]
  <2>3. k \in BlockInstrs
    <3>1. ASSUME NEW v \in Int
          PROVE  [i EXCEPT !.op = "TASSIGN", !.a1 = v, !.a2 = 0, !.bb = FALSE] \in BlockInstrs
      <4>1. "TASSIGN" \in Ops /\ v \in Operands /\ 0 \in Operands
        BY DEF Operands, Ops
      <4> QED BY <4>1 DEF BlockInstrs
    <3> QED BY <2>2, <3>1
  <2>4. Prop!BinopFold(g, <<b, j>>, i, x, y) = [g EXCEPT !.ins[<<b, j>>[1]][<<b, j>>[2]] = k]
    BY <1>3, Zenon DEF Prop!BinopFold
  <2>5. <<b, j>>[1] = b /\ <<b, j>>[2] = j
    OBVIOUS
  <2> HIDE DEF k
  <2>6. Prop!BinopFold(g, <<b, j>>, i, x, y) = [g EXCEPT !.ins[b][j] = k]
    BY <2>4, <2>5
  <2> QED BY <2>3, <2>6, ReplacedIn
<1> QED BY <1>1, <1>2, <1>3

\* One block more is unreachable.
LEMMA GoneIn ==
  ASSUME NEW D, NEW g \in GraphsOf(D), NEW b \in D
  PROVE  [g EXCEPT !.gone = g.gone \cup {b}] \in GraphsOf(D)
BY DEF GraphsOf

\* A test is decided: the way not taken begins in a block.
LEMMA DecideTestIn ==
  ASSUME NEW D, NEW g \in GraphsOf(D), NEW b, NEW n
  PROVE  Prop!DecideTest(g, b, n) \in GraphsOf(D)
<1> DEFINE other == IF n > 0 THEN g.jmp[b] ELSE g.next[b]
<1>1. CASE n = NoSymbol
  BY <1>1, FailedIn, Zenon DEF Prop!DecideTest
<1>2. CASE n # NoSymbol /\ Prop!Through(g, other) # "no"
  <2>1. Prop!DecideTest(g, b, n) = Prop!Failed(g, Prop!Through(g, other))
    BY <1>2, Zenon DEF Prop!DecideTest
  <2> HIDE DEF other
  <2> QED BY <2>1, ThroughIs, FailedIn
<1>3. CASE n # NoSymbol /\ Prop!Through(g, other) = "no"
  <2>1. Prop!DecideTest(g, b, n) = [g EXCEPT !.gone = g.gone \cup {other}]
    BY <1>3, Zenon DEF Prop!DecideTest
  <2> HIDE DEF other
  <2>2. other \in D
    BY <1>3, ThroughIs DEF GraphsOf
  <2> QED BY <2>1, <2>2, GoneIn
<1> QED BY <1>1, <1>2, <1>3

\* One change.
LEMMA ChangedIn ==
  ASSUME NEW D, NEW g \in GraphsOf(D), NEW b \in D, NEW j \in DOMAIN g.ins[b],
         NEW i \in BlockInstrs, i = g.ins[b][j], NEW f, NEW known \in Facts, Clean(known),
         i.op \in Binops \cup {"TASSIGN", "TIFF", "TOUT"},
         i.op = "TASSIGN" => Prop!IsC(known, i.a1),
         i.op = "TOUT" => Prop!IsC(known, i.r)
  PROVE  Prop!Changed(g, <<b, j>>, i, f, known) \in GraphsOf(D)
<1>1. i.a1 \in Operands /\ i.a2 \in Operands /\ i.r \in Operands
  BY DEF BlockInstrs
<1>2. CASE i.op \in Binops
  <2>1. Prop!Known(known, i.a1).s \in Int \cup {NoSymbol} /\ Prop!Known(known, i.a2).s \in Int \cup {NoSymbol}
    BY <1>1, KnownIs
  <2>2. Prop!Changed(g, <<b, j>>, i, f, known)
          = Prop!BinopFold(g, <<b, j>>, i, Prop!Known(known, i.a1).s, Prop!Known(known, i.a2).s)
    BY <1>2 DEF Prop!Changed, Prop!Binops, Prop!Relops, Prop!Arith, Binops, Relops, Arith
  <2> DEFINE x == Prop!Known(known, i.a1).s  y == Prop!Known(known, i.a2).s
  <2>3. x \in Int \cup {NoSymbol} /\ y \in Int \cup {NoSymbol}
    BY <2>1
  <2> HIDE DEF x, y
  <2>4. Prop!BinopFold(g, <<b, j>>, i, x, y) \in GraphsOf(D)
    BY <1>2, <2>3, BinopFoldIn
  <2> QED BY <2>2, <2>4 DEF x, y
<1>3. CASE i.op = "TASSIGN"
  <2> DEFINE k == [i EXCEPT !.a1 = Prop!Known(known, i.a1).s]
  <2>1. Prop!Known(known, i.a1).s \in Int
    BY <1>1, <1>3, KnownIs DEF Prop!IsC
  <2>2. k \in BlockInstrs
    BY <2>1 DEF BlockInstrs, Operands
  <2>3. Prop!Changed(g, <<b, j>>, i, f, known)
          = [g EXCEPT !.ins[<<b, j>>[1]][<<b, j>>[2]].a1 = Prop!Known(known, @).s]
    BY <1>3 DEF Prop!Changed, Prop!Binops, Prop!Relops, Prop!Arith
  <2>4. [g EXCEPT !.ins[<<b, j>>[1]][<<b, j>>[2]].a1 = Prop!Known(known, @).s]
          = [g EXCEPT !.ins[b][j] = k]
    OBVIOUS
  <2> HIDE DEF k
  <2> QED BY <2>2, <2>3, <2>4, ReplacedIn
<1>4. CASE i.op = "TIFF"
  <2>1. Prop!Changed(g, <<b, j>>, i, f, known)
          = Prop!DecideTest(g, <<b, j>>[1], Prop!Known(known, i.a1).s)
    BY <1>4 DEF Prop!Changed, Prop!Binops, Prop!Relops, Prop!Arith
  <2> QED BY <2>1, DecideTestIn
<1>5. CASE i.op = "TOUT"
  <2> DEFINE k == [i EXCEPT !.r = Prop!Known(known, i.r).s]
  <2>1. Prop!Known(known, i.r).s \in Int
    BY <1>1, <1>5, KnownIs DEF Prop!IsC
  <2>2. k \in BlockInstrs
    BY <2>1 DEF BlockInstrs, Operands
  <2>3. Prop!Changed(g, <<b, j>>, i, f, known)
          = [g EXCEPT !.ins[<<b, j>>[1]][<<b, j>>[2]].r = Prop!Known(known, @).s]
    BY <1>5 DEF Prop!Changed, Prop!Binops, Prop!Relops, Prop!Arith
  <2>4. [g EXCEPT !.ins[<<b, j>>[1]][<<b, j>>[2]].r = Prop!Known(known, @).s]
          = [g EXCEPT !.ins[b][j] = k]
    OBVIOUS
  <2> HIDE DEF k
  <2> QED BY <2>2, <2>3, <2>4, ReplacedIn
<1> QED BY <1>2, <1>3, <1>4, <1>5

\* prev.
LEMMA PrevIs ==
  ASSUME NEW s, NEW f, NEW n \in Nat, Prop!HasPrev(s, n)
  PROVE  \E m \in 1 .. n - 1 : Prop!AtPrev(s, f, n) = f[m]
<1> DEFINE P == Prop!Prevs(s, n)
<1>1. P \in SUBSET (1 .. n - 1) /\ P # {} /\ n \in Nat /\ n # 0
  BY DEF Prop!HasPrev, Prop!Prevs
<1>2. Prop!AtPrev(s, f, n) = f[CHOOSE m \in P : \A h \in P : h <= m]
  BY Zenon DEF Prop!AtPrev
<1> HIDE DEF P
<1>3. n - 1 \in Nat
  BY <1>1
<1>4. Prop!Max(P) \in P /\ \A y \in P : Prop!Max(P) >= y
  BY <1>1, <1>3, MaxExists
<1>5. \E m \in P : \A h \in P : h <= m
  BY <1>1, <1>4
<1> DEFINE m == CHOOSE m \in P : \A h \in P : h <= m
<1>6. m \in P
  BY <1>5
<1> HIDE DEF m
<1>7. m \in 1 .. n - 1
  BY <1>1, <1>6
<1> QED BY <1>2, <1>7 DEF m

\* What a place that cp_fold changes is like.
LEMMA ChangesIs ==
  ASSUME NEW s, NEW f, NEW n, Prop!Changes(s, f, n)
  PROVE  /\ s[n].op \in Binops \cup {"TASSIGN", "TIFF", "TOUT"}
         /\ s[n].op = "TASSIGN" => Prop!IsC(Prop!AtPrev(s, f, n), s[n].a1)
         /\ s[n].op = "TOUT" => Prop!IsC(Prop!AtPrev(s, f, n), s[n].r)
BY DEF Prop!Changes, Prop!Differs, Prop!Binops, Prop!Relops, Prop!Arith, Binops, Relops, Arith

\* cp_fold stops at every operation of constants.
LEMMA SpotHits ==
  ASSUME NEW s, NEW f, NEW n, Spot(s[n], f[n])
  PROVE  Prop!Stumbles(s, f, n) \/ (Prop!HasPrev(s, n) /\ Prop!Changes(s, f, n))
<1>1. Prop!Foldable(s, f, n) /\ s[n].op \in Prop!Binops
  BY DEF Spot, Prop!Foldable, Prop!Binops, Prop!Relops, Prop!Arith, Binops, Relops, Arith
<1>2. Prop!Changes(s, f, n)
  BY <1>1 DEF Prop!Changes, Prop!Foldable, Prop!Binops, Prop!Relops, Prop!Arith
<1> QED BY <1>1, <1>2 DEF Prop!Stumbles

\* cp_fold: before the first place it changes there is no operation of constants, so that
\* prev knows no constant that is NULL.
LEMMA CpFoldIn ==
  ASSUME NEW D \in SUBSET Nat, IsFiniteSet(D), NEW g \in GraphsOf(D), NEW outs,
         Grounded(Prop!Flat(g), Prop!FlatOf(g.blocks, outs))
  PROVE  Prop!CpFold(g, outs) \in GraphsOf(D)
<1> DEFINE s == Prop!Flat(g)
           f == Prop!FlatOf(g.blocks, outs)
           hits == {n \in DOMAIN s : Prop!Stumbles(s, f, n) \/ (Prop!HasPrev(s, n) /\ Prop!Changes(s, f, n))}
           n == CHOOSE n \in hits : \A m \in hits : n <= m
           h == [g EXCEPT !.changed = TRUE]
<1>1. CASE hits = {}
  BY <1>1, Zenon DEF Prop!CpFold
<1>2. CASE hits # {}
  <2>1. Prop!CpFold(g, outs) =
          IF Prop!Stumbles(s, f, n) THEN Prop!Failed(g, "null")
          ELSE Prop!Changed(h, Prop!Places(g)[n], s[n], f[n], Prop!AtPrev(s, f, n))
    BY <1>2, Zenon DEF Prop!CpFold
  <2>2. /\ s \in Seq(BlockInstrs) /\ f \in Seq(Facts) /\ Len(f) = Len(s)
        /\ \A k \in 1 .. Len(s) : Clean(f[k]) \/ \E m \in 1 .. k : Spot(s[m], f[m])
    BY DEF Grounded
  <2>3. DOMAIN s = 1 .. Len(s) /\ Len(s) \in Nat
    BY <2>2
  <2>4. hits \subseteq Nat /\ hits \subseteq 1 .. Len(s)
    BY <2>3
  <2>5. n \in hits /\ \A m \in hits : n <= m
    <3> HIDE DEF hits
    <3>1. \E x \in hits : \A y \in hits : x <= y
      BY <1>2, <2>4, Least
    <3> QED BY <3>1
  <2>6. n \in 1 .. Len(s) /\ n \in Nat
    BY <2>4, <2>5
  <2>7. h \in GraphsOf(D) /\ h.ins = g.ins
    BY DEF GraphsOf
  <2>8. CASE Prop!Stumbles(s, f, n)
    BY <2>1, <2>8, FailedIn, Zenon
  <2>9. ASSUME ~ Prop!Stumbles(s, f, n) PROVE Prop!CpFold(g, outs) \in GraphsOf(D)
    <3>1. Prop!HasPrev(s, n) /\ Prop!Changes(s, f, n)
      BY <2>5, <2>9
    <3>2. \A k \in 1 .. Len(s) : Spot(s[k], f[k]) => k \in hits
      BY <2>3, SpotHits
    <3>3. PICK b \in g.blocks : \E j \in DOMAIN g.ins[b] :
            Prop!Places(g)[n] = <<b, j>> /\ s[n] = g.ins[b][j]
      <4>1. g.blocks \in SUBSET D /\ g.blocks \in SUBSET Nat /\ IsFiniteSet(g.blocks)
        <5>1. g.blocks \in SUBSET D
          BY DEF GraphsOf
        <5> QED BY <5>1, FS_Subset
      <4> HIDE DEF f, hits, n, h
      <4>2. n \in DOMAIN Prop!Flat(g)
        BY <2>3, <2>6
      <4>3. \A k \in DOMAIN Prop!Flat(g) : \E b \in g.blocks : \E j \in DOMAIN g.ins[b] :
              Prop!Places(g)[k] = <<b, j>> /\ Prop!Flat(g)[k] = g.ins[b][j]
        BY <4>1, PlaceHolds
      <4> QED BY <4>2, <4>3
    <3> HIDE DEF s, f, hits, n, h
    <3>4. PICK j \in DOMAIN g.ins[b] : Prop!Places(g)[n] = <<b, j>> /\ s[n] = g.ins[b][j]
      BY <3>3
    <3>5. PICK m \in 1 .. n - 1 : Prop!AtPrev(s, f, n) = f[m]
      BY <2>6, <3>1, PrevIs
    <3>6. m \in 1 .. Len(s) /\ m < n
      BY <2>3, <2>6, <3>5
    <3>7. Clean(f[m])
      <4> SUFFICES ASSUME NEW k \in 1 .. m, Spot(s[k], f[k]) PROVE FALSE
        BY <2>2, <3>6
      <4>1. k \in 1 .. Len(s) /\ ~ (n <= k)
        BY <2>3, <2>6, <3>6
      <4> QED BY <2>5, <3>2, <4>1
    <3>8. f[m] \in Facts /\ s[n] \in BlockInstrs
      BY <2>2, <2>6, <3>6
    <3>9. b \in D /\ j \in DOMAIN h.ins[b] /\ s[n] = h.ins[b][j]
      BY <2>7, <3>4 DEF GraphsOf
    <3>10. Prop!Changed(h, <<b, j>>, s[n], f[n], f[m]) \in GraphsOf(D)
      <4>1. /\ s[n].op \in Binops \cup {"TASSIGN", "TIFF", "TOUT"}
            /\ s[n].op = "TASSIGN" => Prop!IsC(f[m], s[n].a1)
            /\ s[n].op = "TOUT" => Prop!IsC(f[m], s[n].r)
        BY <3>1, <3>5, ChangesIs
      <4> QED BY <2>7, <3>7, <3>8, <3>9, <4>1, ChangedIn
    <3> QED BY <2>1, <2>9, <3>4, <3>5, <3>10
  <2> QED BY <2>8, <2>9
<1> QED BY <1>1, <1>2

\* A round of const_prop.
LEMMA ConstPropRoundIn ==
  ASSUME NEW D \in SUBSET Nat, IsFiniteSet(D), NEW g \in GraphsOf(D)
  PROVE  Prop!ConstPropRound(g) \in GraphsOf(D)
<1> DEFINE e == [g EXCEPT !.changed = FALSE]
           c == Prop!CpPropagate(e)
           h == IF Prop!Running(c.g) THEN Prop!CpFold(c.g, c.outs) ELSE c.g
<1>1. Prop!ConstPropRound(g) = IF Prop!Running(h) THEN Prop!BbCompact(h) ELSE h
  BY Zenon DEF Prop!ConstPropRound
<1>2. e \in GraphsOf(D) /\ e.blocks \in SUBSET D
  BY DEF GraphsOf
<1> HIDE DEF e
<1>3. c \in Reached(D, e.blocks, Prop!InOrder(e.blocks), Cardinality(e.blocks))
  BY <1>2, CpPropagateIn
<1> HIDE DEF c
<1>4. c.g \in GraphsOf(D) /\ c.g.blocks = e.blocks
  BY <1>3 DEF Reached, Propagations
<1>5. ASSUME Prop!Running(c.g) PROVE Prop!CpFold(c.g, c.outs) \in GraphsOf(D)
  <2>1. c.g.failed = "no"
    BY <1>5 DEF Prop!Running
  <2>2. Grounded(Prop!FlatOf(e.blocks, c.g.ins), Prop!FlatOf(e.blocks, c.outs))
    BY <1>2, <1>3, <2>1, CodeGrounded
  <2>3. Prop!Flat(c.g) = Prop!FlatOf(e.blocks, c.g.ins)
    BY <1>4, Zenon DEF Prop!Flat
  <2> QED BY <1>4, <2>2, <2>3, CpFoldIn
<1>6. h \in GraphsOf(D)
  BY <1>4, <1>5
<1> HIDE DEF h
<1> QED BY <1>1, <1>6, CompactIn

-----------------------------------------------------------------------------
(* The optimizer up to opt_algebra.  What is proved of bb_build (Bp) holds of its *)
(* steps here.                                                              *)

\* What is proved of bb_build.
Bp == INSTANCE BasicBlocksProofs

\* The two read the same instructions ...
LEMMA SameInstrs == Bp!Instrs = Instrs
BY DEF Bp!Instrs, Instrs, Bp!Ops, Ops, Bp!Binops, Binops, Bp!Relops, Relops, Bp!Arith, Arith,
   Bp!Operands, Operands

\* ... and find the same blocks.
LEMMA SameBlocks ==
  ASSUME NEW cd
  PROVE  /\ Bb!Blocks(cd) = Bp!Blocks(cd)
         /\ Bb!WellFormed(cd) <=> Bp!WellFormed(cd)
BY DEF Bb!Blocks, Bp!Blocks, Bb!Leaders, Bp!Leaders, Bb!WellFormed, Bp!WellFormed

\* What Bp assumes of its constants.
LEMMA Given ==
  /\ Programs \subseteq Seq(Bp!Instrs) /\ \A p \in Programs : Bp!WellFormed(p)
  /\ MaxPredecessors \in Nat \ {0}
BY SameInstrs, SameBlocks, ProgramsAssumption, SymbolsAssumption

\* bb_build here is that of Bp.
LEMMA BuildBridge ==
  /\ Bb!Init => Bp!Init
  /\ Bb!Next => Bp!Next
<1>1. \A S : Bb!FirstIn(S) = Bp!FirstIn(S)
  BY DEF Bb!FirstIn, Bp!FirstIn
<1>2. \A cd, l : Bb!WithId(cd, l) = Bp!WithId(cd, l)
  BY SameBlocks DEF Bb!WithId, Bp!WithId, Bb!IdOf, Bp!IdOf
<1>3. \A cd, b : Bb!Behind(cd, b) = Bp!Behind(cd, b)
  BY SameBlocks DEF Bb!Behind, Bp!Behind
<1>4. \A pr, b, p : Bb!WithPred(pr, b, p) = Bp!WithPred(pr, b, p)
  BY DEF Bb!WithPred, Bp!WithPred
<1>5. Bb!NoBlock = Bp!NoBlock
  BY DEF Bb!NoBlock, Bp!NoBlock
<1>6. Bb!Init => Bp!Init
  BY <1>5, SameBlocks DEF Bb!Init, Bp!Init
<1>7. Bb!PlaceFirst => Bp!PlaceFirst
  BY DEF Bb!PlaceFirst, Bp!PlaceFirst, Bb!Push, Bp!Push
<1>8. Bb!PlacePlain => Bp!PlacePlain
  BY DEF Bb!PlacePlain, Bp!PlacePlain, Bb!Push, Bp!Push
<1>9. Bb!PlaceLabel => Bp!PlaceLabel
  BY <1>1, <1>2, <1>4 DEF Bb!PlaceLabel, Bp!PlaceLabel, Bb!Push, Bp!Push
<1>10. Bb!PlaceJump => Bp!PlaceJump
  BY <1>1, <1>2, <1>3, <1>4, <1>5 DEF Bb!PlaceJump, Bp!PlaceJump, Bb!Push, Bp!Push
<1>11. Bb!PlaceBranch => Bp!PlaceBranch
  BY <1>1, <1>2, <1>3, <1>4 DEF Bb!PlaceBranch, Bp!PlaceBranch, Bb!Push, Bp!Push
<1>12. Bb!Next => Bp!Next
  BY <1>7, <1>8, <1>9, <1>10, <1>11 DEF Bb!Next, Bp!Next
<1> QED BY <1>6, <1>12

\* The blocks' graph, before and behind const_prop.
GraphInv ==
    /\ Bp!Placed
    /\ step \in Nat
    /\ graph # NoGraph => pos = Len(code)
    /\ graph # NoGraph /\ step <= 1 => graph \in GraphsOf(Bb!Blocks(code))

\* The names of blocks.
LEMMA NamesOf ==
  ASSUME Bp!Placed
  PROVE  /\ Bb!Blocks(code) \in SUBSET Nat /\ IsFiniteSet(Bb!Blocks(code))
         /\ code \in Seq(Instrs) /\ Len(code) \in Nat
<1>1. code \in Seq(Bp!Instrs)
  BY DEF Bp!Placed, Bp!TypeOK
<1>2. code \in Seq(Instrs)
  BY <1>1, SameInstrs
<1>3. Len(code) \in Nat
  BY <1>2
<1>4. Bb!Blocks(code) \subseteq 0 .. Len(code)
  BY <1>3 DEF Bb!Blocks, Bb!Leaders
<1>5. IsFiniteSet(0 .. Len(code))
  BY <1>3, FS_Interval
<1> QED BY <1>2, <1>3, <1>4, <1>5, FS_Subset

\* What bb_build hands over.
LEMMA BuiltIn ==
  ASSUME Bp!Placed
  PROVE  Built \in GraphsOf(Bb!Blocks(code))
<1> DEFINE D == Bb!Blocks(code)
           P == [b \in D |-> [j \in 1 .. MaxPredecessors |->
                   IF j \in DOMAIN pred[b] THEN pred[b][j] ELSE Bb!NoBlock]]
           I == [b \in D |-> [j \in DOMAIN ins[b] |-> InBlock(code[ins[b][j]])]]
<1>1. D \in SUBSET Nat /\ code \in Seq(Instrs) /\ Len(code) \in Nat
  BY NamesOf
<1>2. /\ next \in [D -> D \cup {Bp!NoBlock}]
      /\ jmp \in [D -> D \cup {Bp!NoBlock}]
      /\ pred \in [D -> Seq(D)]
      /\ ins \in [D -> Seq(1 .. Len(code))]
  BY SameBlocks, Zenon DEF Bp!Placed, Bp!TypeOK
<1> HIDE DEF D
<1>3. next \in [D -> Int] /\ jmp \in [D -> Int]
  <2>1. D \cup {Bp!NoBlock} \subseteq Int
    BY <1>1 DEF Bp!NoBlock
  <2> QED BY <1>2, <2>1
<1>4. P \in [D -> PredArrays]
  <2>1. ASSUME NEW b \in D, NEW j \in 1 .. MaxPredecessors
        PROVE  (IF j \in DOMAIN pred[b] THEN pred[b][j] ELSE Bb!NoBlock) \in Int
    <3>1. pred[b] \in Seq(D)
      BY <1>2
    <3>2. ASSUME j \in DOMAIN pred[b] PROVE pred[b][j] \in Int
      BY <1>1, <3>1, <3>2
    <3> QED BY <3>2 DEF Bb!NoBlock
  <2>2. ASSUME NEW b \in D PROVE P[b] \in PredArrays
    BY <2>1 DEF PredArrays
  <2> QED BY <2>2
<1>5. I \in [D -> Seq(BlockInstrs)]
  <2>1. ASSUME NEW b \in D PROVE I[b] \in Seq(BlockInstrs)
    <3>1. ins[b] \in Seq(1 .. Len(code))
      BY <1>2
    <3>2. DOMAIN ins[b] = 1 .. Len(ins[b]) /\ Len(ins[b]) \in Nat
      BY <3>1
    <3>3. ASSUME NEW j \in 1 .. Len(ins[b]) PROVE InBlock(code[ins[b][j]]) \in BlockInstrs
      <4>1. code[ins[b][j]] \in Instrs
        BY <1>1, <3>1, <3>2
      <4> QED BY <4>1 DEF Instrs, BlockInstrs, InBlock
    <3>4. I[b] = [j \in 1 .. Len(ins[b]) |-> I[b][j]] /\ \A j \in 1 .. Len(ins[b]) : I[b][j] \in BlockInstrs
      BY <3>2, <3>3
    <3> HIDE DEF I
    <3> QED BY <3>2, <3>4, IsASeq
  <2>2. I = [b \in D |-> I[b]]
    OBVIOUS
  <2> HIDE DEF I
  <2> QED BY <2>1, <2>2
<1>6. Built = [blocks |-> D, next |-> next, jmp |-> jmp, pred |-> P, ins |-> I,
               gone |-> {}, changed |-> TRUE, failed |-> "no"]
  BY Zenon DEF Built, D
<1> HIDE DEF P, I
<1> QED BY <1>3, <1>4, <1>5, <1>6 DEF GraphsOf, D

\* The first passes.
LEMMA FirstPasses ==
  ASSUME step \in Nat, NEW pass, Runs(pass)
  PROVE  /\ graph # NoGraph /\ graph.failed = "no"
         /\ pass = "opt_algebra" => step = 1
         /\ pass \in {"opt_unused_vars", "copy_prop", "cse"} => step > 1
<1>1. /\ graph # NoGraph /\ graph.failed = "no"
      /\ step + 1 \in 1 .. Len(Passes(level)) /\ Passes(level)[step + 1] = pass
  BY DEF Runs, Passes
<1> QED BY <1>1 DEF Passes

\* There is no graph yet.
LEMMA GraphInit == Init => GraphInv
<1> SUFFICES ASSUME Init PROVE GraphInv
  OBVIOUS
<1>1. Bp!Placed
  BY BuildBridge, Given, Bp!PlacedInit DEF Init
<1> QED BY <1>1 DEF GraphInv, Init

\* Every step keeps the invariant.
LEMMA GraphNext == GraphInv /\ [Next]_vars => GraphInv'
<1> SUFFICES ASSUME GraphInv, [Next]_vars PROVE GraphInv'
  OBVIOUS
<1> DEFINE D == Bb!Blocks(code)
<1>1. /\ Bp!Placed /\ step \in Nat
      /\ graph # NoGraph => pos = Len(code)
      /\ graph # NoGraph /\ step <= 1 => graph \in GraphsOf(D)
      /\ D \in SUBSET Nat /\ IsFiniteSet(D) /\ Len(code) \in Nat
  BY NamesOf DEF GraphInv
<1>2. CASE Build
  <2>1. Bb!Next /\ graph' = graph /\ step' = step
    BY <1>2 DEF Build
  <2>2. Bp!Placed'
    BY <1>1, <2>1, BuildBridge, Given, Bp!PlacedNext
  <2>3. pos < Len(code)
    BY <2>1 DEF Bb!Next, Bb!PlaceFirst, Bb!PlaceLabel, Bb!PlaceJump, Bb!PlaceBranch, Bb!PlacePlain
  <2>4. graph = NoGraph
    BY <1>1, <2>3
  <2> QED BY <1>1, <2>1, <2>2, <2>4 DEF GraphInv, NoGraph
<1>3. ASSUME UNCHANGED blocksVars, step' \in Nat, graph' # NoGraph => pos = Len(code),
             graph' # NoGraph /\ step' <= 1 => graph' \in GraphsOf(D)
      PROVE  GraphInv'
  <2>1. UNCHANGED Bp!vars
    BY <1>3 DEF blocksVars, Bp!vars
  <2>2. Bp!Placed'
    BY <1>1, <2>1, Given, Bp!PlacedNext
  <2>3. D' = D /\ pos' = pos /\ Len(code)' = Len(code)
    BY <1>3 DEF blocksVars
  <2> HIDE DEF D
  <2>4. graph' # NoGraph' => pos' = Len(code')
    BY <1>3, <2>3 DEF NoGraph
  <2> QED BY <1>3, <2>2, <2>3, <2>4 DEF GraphInv, NoGraph, D
<1>4. CASE Begin
  <2>1. UNCHANGED blocksVars /\ step' = step /\ pos = Len(code) /\ graph' = Built
    BY <1>4 DEF Begin
  <2>2. Built \in GraphsOf(D)
    BY <1>1, BuiltIn
  <2> QED BY <1>1, <1>3, <2>1, <2>2
<1>5. CASE ConstProp
  <2>1. Runs("const_prop") /\ graph' = Prop!ConstPropRound(graph) /\ UNCHANGED blocksVars
        /\ step' \in {step, step + 1}
    BY <1>5 DEF ConstProp, PassDone
  <2>2. graph # NoGraph
    BY <1>1, <2>1, FirstPasses
  <2>3. ASSUME step' <= 1 PROVE graph' \in GraphsOf(D)
    <3>1. step <= 1
      BY <1>1, <2>1, <2>3
    <3> QED BY <1>1, <2>1, <2>2, <3>1, ConstPropRoundIn
  <2> QED BY <1>1, <1>3, <2>1, <2>2, <2>3
<1>6. CASE OptAlgebra \/ OptUnusedVars \/ CopyProp \/ CsePass
  <2>1. /\ \E pass \in {"opt_algebra", "opt_unused_vars", "copy_prop", "cse"} : Runs(pass)
        /\ UNCHANGED blocksVars /\ step' \in {step, step + 1}
        /\ Runs("opt_algebra") => step' = step + 1 \/ step > 1
    BY <1>1, <1>6, FirstPasses DEF OptAlgebra, OptUnusedVars, CopyProp, CsePass, PassDone
  <2>2. graph # NoGraph /\ step >= 1 /\ ~ (step' <= 1)
    BY <1>1, <2>1, FirstPasses
  <2> QED BY <1>1, <1>3, <2>1, <2>2
<1>7. CASE LvaPass
  <2>1. Runs("lva") /\ UNCHANGED blocksVars /\ step' \in {step, step + 1}
        /\ graph' \in {graph, Prop!Failed(graph, "freed")}
    BY <1>7 DEF LvaPass, PassDone, Lva!Next, Lva!LvaInit, Lva!DefUse, Lva!StartWalk, Lva!VisitBlock,
      Lva!Finish
  <2>2. graph # NoGraph
    BY <1>1, <2>1, FirstPasses
  <2>3. ASSUME step' <= 1 PROVE graph' \in GraphsOf(D)
    <3>1. step <= 1
      BY <1>1, <2>1, <2>3
    <3> QED BY <1>1, <2>1, <2>2, <3>1, FailedIn
  <2> QED BY <1>1, <1>3, <2>1, <2>2, <2>3
<1>8. CASE UNCHANGED vars
  <2>1. UNCHANGED <<blocksVars, step, graph>>
    BY <1>8 DEF vars
  <2> QED BY <1>1, <1>3, <2>1
<1> QED BY <1>2, <1>4, <1>5, <1>6, <1>7, <1>8 DEF Next

\* const_prop, with bb_compact behind each of its rounds, writes no constant that is NULL
\* into an instruction, and the graph has no block that bb_build has not made
\* (const_prop.c:216-386, bb.c:94-299).
THEOREM NoNullOperandAlways ==
  Spec => [](graph # NoGraph /\ step <= 1 => graph \in GraphsOf(Bb!Blocks(code)))
<1>1. GraphInv => (graph # NoGraph /\ step <= 1 => graph \in GraphsOf(Bb!Blocks(code)))
  BY DEF GraphInv
<1> QED BY <1>1, GraphInit, GraphNext, PTL DEF Spec

\* opt_algebra in the optimizer: whatever const_prop has made of a program, the code prints
\* what it printed and stops as it did (optimize.c:27-146).
THEOREM AlgebraAlwaysRight == Spec => AlgebraRight
<1>1. ASSUME GraphInv, OptAlgebra, NoReciprocal PROVE Keeps(graph, graph')
  <2>1. graph # NoGraph /\ step = 1 /\ graph' = Algebra!OptAlgebra(graph)
    BY <1>1, FirstPasses DEF OptAlgebra, GraphInv
  <2>2. graph \in GraphsOf(Bb!Blocks(code)) /\ Bp!Placed
    BY <1>1, <2>1 DEF GraphInv
  <2>3. /\ graph.blocks \in SUBSET Nat /\ IsFiniteSet(graph.blocks)
        /\ \A b \in graph.blocks : graph.ins[b] \in Seq(BlockInstrs)
        /\ "ins" \in DOMAIN graph /\ "blocks" \in DOMAIN graph /\ "failed" \in DOMAIN graph
    <3> DEFINE D == Bb!Blocks(code)
    <3>1. D \in SUBSET Nat /\ IsFiniteSet(D)
      BY <2>2, NamesOf
    <3> HIDE DEF D
    <3>2. graph.blocks \in SUBSET D
      BY <2>2 DEF GraphsOf, D
    <3>3. \A b \in D : graph.ins[b] \in Seq(BlockInstrs)
      BY <2>2 DEF GraphsOf, D
    <3>4. "ins" \in DOMAIN graph /\ "blocks" \in DOMAIN graph /\ "failed" \in DOMAIN graph
      BY <2>2 DEF GraphsOf
    <3> QED BY <3>1, <3>2, <3>3, <3>4, FS_Subset
  <2>4. graph.failed = "no"
    BY <1>1 DEF OptAlgebra, Runs
  <2> QED BY <1>1, <2>1, <2>3, <2>4, AlgebraKeepsGraph
<1>2. GraphInv => [OptAlgebra /\ NoReciprocal => Keeps(graph, graph')]_vars
  BY <1>1
<1> QED BY <1>2, GraphInit, GraphNext, PTL DEF Spec, AlgebraRight

=============================================================================
