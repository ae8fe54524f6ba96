----------------------------- MODULE TacMachine -----------------------------
(***************************************************************************)
(* What three address code means: the machine that every pass and the code *)
(* generator must agree with.  It is not a model of code but the definition *)
(* those are compared with.                                                *)
(*                                                                         *)
(* A run ends when the last instruction is done, or where nothing is        *)
(* promised: a variable is read that was never written ("undefined"), a     *)
(* divisor is 0 ("zerodivide"), a result or the difference of two compared  *)
(* values does not fit the machine's words ("overflow"), an input is read   *)
(* that is not there ("waiting").  A run of more than MaxSteps instructions *)
(* is cut off ("running").                                                 *)
(***************************************************************************)
EXTENDS Tac, SequencesExt

CONSTANTS MaxWord,     \* the largest int; the smallest is - MaxWord - 1
          MaxSteps

ASSUME StepsAssumption == MaxSteps \in Nat
ASSUME WordsAssumption == MaxWord \in Nat

Start(input) ==
    [pc |-> 1, val |-> [v \in Vars |-> 0], known |-> {}, input |-> input,
     output |-> << >>, status |-> "running"]

Fits(n) == - MaxWord - 1 <= n /\ n <= MaxWord

Holds(op, a, b) ==
    CASE op = "TEQ"  -> a = b
      [] op = "TNEQ" -> a # b
      [] op = "TLT"  -> a < b
      [] op = "TGT"  -> a > b
      [] op = "TLE"  -> a <= b
      [] op = "TGE"  -> a >= b

Magnitude(n) == IF n < 0 THEN -n ELSE n
Divided(a, b) ==
    LET q == Magnitude(a) \div Magnitude(b)
    IN  IF (a < 0) = (b < 0) THEN q ELSE -q

\* A truth value is 1 or 0.
Result(op, a, b) ==
    CASE op = "TADD" -> a + b
      [] op = "TSUB" -> a - b
      [] op = "TMUL" -> a * b
      [] op = "TDIV" -> Divided(a, b)
      [] OTHER -> IF Holds(op, a, b) THEN 1 ELSE 0

\* The value of an operand in machine state m.
Operand(m, a) == IF a \in Vars THEN m.val[a] ELSE a

Stopped(m, why) == [m EXCEPT !.status = why]
Onward(m)       == [m EXCEPT !.pc = @ + 1]
Written(m, r, n) == [m EXCEPT !.pc = @ + 1, !.val[r] = n, !.known = @ \cup {r}]

\* A jump to a label that a wrong pass has dropped.
JumpTargets(code, l) == {p \in DOMAIN code : code[p].op = "TLABEL" /\ code[p].r = l}
Jumped(code, m, l) ==
    IF JumpTargets(code, l) = {} THEN Stopped(m, "lost")
    ELSE [m EXCEPT !.pc = CHOOSE p \in JumpTargets(code, l) : TRUE]

BinopStep(m, i) ==
    LET a == Operand(m, i.a1)
        b == Operand(m, i.a2)
    IN  IF i.op = "TDIV" /\ b = 0 THEN Stopped(m, "zerodivide")
        ELSE LET n == Result(i.op, a, b)
             IN  IF Fits(n) /\ (i.op \in Relops => Fits(a - b))
                 THEN Written(m, i.r, n) ELSE Stopped(m, "overflow")

\* One instruction whose operands are known.  A TIFF jumps unless its condition is
\* positive.
Do(code, m, i) ==
    CASE i.op \in Binops  -> BinopStep(m, i)
      [] i.op = "TASSIGN" -> Written(m, i.r, Operand(m, i.a1))
      [] i.op = "TIN"     -> IF m.input = << >> THEN Stopped(m, "waiting")
                             ELSE [Written(m, i.r, Head(m.input)) EXCEPT !.input = Tail(@)]
      [] i.op = "TOUT"    -> [Onward(m) EXCEPT !.output = Append(@, Operand(m, i.r))]
      [] i.op = "TIFF"    -> IF Operand(m, i.a1) > 0 THEN Onward(m) ELSE Jumped(code, m, i.r)
      [] i.op = "TJMP"    -> Jumped(code, m, i.r)
      [] i.op = "TLABEL"  -> Onward(m)

StepOf(code, m) ==
    IF m.pc > Len(code) THEN Stopped(m, "end")
    ELSE IF ~ (Uses(code[m.pc]) \subseteq m.known) THEN Stopped(m, "undefined")
    ELSE Do(code, m, code[m.pc])

\* The run of a program on an input, up to its end or the bound.
RunOf(code, input) ==
    LET run[n \in 0 .. MaxSteps] ==
          IF n = 0 THEN Start(input)
          ELSE LET m == run[n - 1]
               IN  IF m.status = "running" THEN StepOf(code, m) ELSE m
    IN  run[MaxSteps]

\* Nothing is promised where a run meets one of these.
Meaningful(m) == m.status \in {"end", "running", "waiting", "zerodivide"}

\* One program does what another does on an input: where the first has a meaning,
\* it stops in the same way and prints the same.  A pass may change the number of
\* steps: where the first is cut off, one prints what begins the other's output, and
\* the second no less than the first if it is not cut off.
KeepsOutput(before, after, input) ==
    LET m == RunOf(before, input)
        n == RunOf(after, input)
    IN  Meaningful(m) =>
          IF m.status = "running"
          THEN IsPrefix(m.output, n.output)
                 \/ (n.status = "running" /\ IsPrefix(n.output, m.output))
          ELSE n.status = m.status /\ n.output = m.output

=============================================================================
