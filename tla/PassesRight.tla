---------------------------- MODULE PassesRight ----------------------------
(***************************************************************************)
(* What optimize promises: after every pass the code prints what it printed *)
(* before it (TacMachine), the loops of const_prop and copy_prop end, and    *)
(* the passes that use live variables have them as the code is.             *)
(*                                                                         *)
(* Of most passes the first is not true of every program.  What each needs   *)
(* the code in front of it to be is said here, condition by condition; the    *)
(* README tells which programs do not meet one and what they then print.     *)
(***************************************************************************)
EXTENDS Optimizer

Code(g) == Prop!Flat(g)

\* A block's code and what is alive behind it.
Blocks == {[ins |-> graph.ins[b], out |-> out[b]] : b \in graph.blocks}
WrittenBehind(s, p, v) == \E h \in p + 1 .. Len(s) : v \in Defs(s[h])
AliveBehind(c, p, v) ==
    \/ v \in c.out /\ ~ WrittenBehind(c.ins, p, v)
    \/ \E q \in p + 1 .. Len(c.ins) :
         v \in Uses(c.ins[q]) /\ \A h \in p + 1 .. q - 1 : v \notin Defs(c.ins[h])

-----------------------------------------------------------------------------
\* What every pass is handed and leaves: blocks of instructions, none with a NULL operand,
\* in which every label is still a label's number and stands at one place (3ac.h:48-64,
\* optimize.c:238-261).  A freed block's are not looked at.
BlockInstrs == [op : Ops, a1 : Operands, a2 : Operands, r : Operands, bb : BOOLEAN]
LabelsOnce(c) ==
    \A p \in DOMAIN c : c[p].op = "TLABEL" =>
      /\ c[p].r \in Int
      /\ \A q \in DOMAIN c : c[q].op = "TLABEL" /\ c[q].r = c[p].r => q = p
GraphOK ==
    graph # NoGraph /\ graph.failed = "no" =>
      /\ {"blocks", "ins", "failed"} \subseteq DOMAIN graph
      /\ graph.blocks \in SUBSET Nat /\ IsFiniteSet(graph.blocks)
      /\ \A b \in graph.blocks : graph.ins[b] \in Seq(BlockInstrs)
      /\ LabelsOnce(Code(graph))

-----------------------------------------------------------------------------
(* opt_algebra: 1 / x does not become x. *)

NoReciprocal ==
    \A i \in ToSet(Code(graph)) : i.op = "TDIV" /\ i.a1 = 1 => i.a2 \in {0, 1}

-----------------------------------------------------------------------------
(* copy_prop *)

\* A copy that gives its name to the instruction in front is the only reader of what
\* that one writes.
NamesMoveAlone ==
    \A c \in Blocks : \A p \in DOMAIN c.ins :
      LET i == c.ins[p]
      IN  Cp!IsCopy(i) /\ i.r \in c.out /\ Cp!NamedInFront(c.ins, p) =>
            i.a1 \in Defs(c.ins[p - 1]) /\ ~ AliveBehind(c, p, i.a1)

\* A copy passed on: what it copies is not written before the copy's last reader, ...
SourcesKept ==
    \A c \in Blocks : \A p \in DOMAIN c.ins :
      LET i == c.ins[p]
      IN  Cp!IsCopy(i) /\ i.r \notin c.out =>
            \A q \in Cp!Reach(c.ins, p) :
              i.r \in Uses(c.ins[q]) => \A h \in p + 1 .. q - 1 : i.a1 \notin Defs(c.ins[h])

\* ... and if the copy goes, no assignment has to read it, nor what writes it anew.
CopiesReadDirectly ==
    \A c \in Blocks : \A p \in DOMAIN c.ins :
      LET i == c.ins[p]
      IN  Cp!IsCopy(i) /\ i.r \notin c.out /\ Cp!NamedInFront(c.ins, p) =>
            \A q \in p + 1 .. Len(c.ins) :
              /\ i.r \in Uses(c.ins[q])
              /\ \A h \in p + 1 .. q - 1 : i.r \notin Defs(c.ins[h])
              => q \in Cp!Reach(c.ins, p) /\ c.ins[q].op # "TASSIGN"

CopiesCovered == NamesMoveAlone /\ SourcesKept /\ CopiesReadDirectly

-----------------------------------------------------------------------------
(* cse *)

\* In a block no variable is written that was written or read there before.
Settled ==
    \A c \in Blocks : \A q \in DOMAIN c.ins : \A p \in 1 .. q - 1 :
      Defs(c.ins[q]) \cap (Defs(c.ins[p]) \cup Uses(c.ins[p])) = {}

\* The nodes of each block, under the numbers they have in the function.
NodesByNumber ==
    LET before == Sub!NodesBefore(graph)
        Numbered(b) ==
          LET nodes == Sub!NodesOf(graph.ins[b], before[b]).nodes
          IN  [k \in {before[b] + n : n \in DOMAIN nodes} |-> nodes[k - before[b]]]
    IN  [b \in graph.blocks |-> Numbered(b)]

\* What is alive behind the block is no second name of what an operation of it computes.
FirstNames ==
    LET nodes == NodesByNumber
    IN  \A b \in graph.blocks : \A n \in Range(nodes[b]) :
          n.op # "TNONE" /\ n.symbols # << >> => ToSet(Tail(n.symbols)) \cap out[b] = {}

\* No node's number begins with another one's in its block, and no constant is what two
\* of them make.
KeysApart ==
    /\ LET nodes == NodesByNumber
       IN  \A b \in graph.blocks :
             LET numbers == DOMAIN nodes[b]
             IN  \A n \in numbers : numbers \cap {n \div 10, n \div 100} = {}
    /\ \A c \in Blocks : \A i \in ToSet(c.ins) : \A a \in {i.a1, i.a2} \ Vars : a > -11

\* A test is of what an instruction of its block, no TIN, has written.
TestsComputed ==
    \A c \in Blocks : \A q \in DOMAIN c.ins :
      c.ins[q].op = "TIFF" =>
        \E p \in 1 .. q - 1 : c.ins[p].op # "TIN" /\ c.ins[q].a1 \in Defs(c.ins[p])

CseCovered == Settled /\ FirstNames /\ KeysApart /\ TestsComputed

-----------------------------------------------------------------------------
(* const_prop *)

\* The blocks' edges are those of the code.
Behind(b) == {d \in graph.blocks : d > b}
NextInOrder(b) ==
    IF Behind(b) = {} THEN Bb!NoBlock ELSE CHOOSE d \in Behind(b) : \A h \in Behind(b) : d <= h
BegunBy(b, l) ==
    /\ b \in graph.blocks
    /\ graph.ins[b] # << >>
    /\ graph.ins[b][1].op = "TLABEL" /\ graph.ins[b][1].r = l
EdgesRight ==
    \A b \in graph.blocks :
      /\ graph.ins[b] # << >>
      /\ \A i \in ToSet(Front(graph.ins[b])) : i.op \notin {"TJMP", "TIFF"}
      /\ LET i == Last(graph.ins[b])
         IN  /\ graph.next[b] = IF i.op = "TJMP" THEN Bb!NoBlock ELSE NextInOrder(b)
             /\ IF i.op \in {"TJMP", "TIFF"} THEN BegunBy(graph.jmp[b], i.r)
                                             ELSE graph.jmp[b] = Bb!NoBlock
      /\ ToSet(Prop!PredsOf(graph, b)) = {a \in graph.blocks : b \in {graph.next[a], graph.jmp[a]}}

\* cp_fold has something to remember from the start.
RememberedFirst == Code(graph)[1].op \in Prop!Remembered

Known == Prop!CpPropagate([graph EXCEPT !.changed = FALSE])

\* The variables taken for constant somewhere ...
TakenConstant ==
    LET outs == Known.outs
    IN  {v \in Vars : \E b \in graph.blocks : \E j \in DOMAIN outs[b] : outs[b][j][v].c = "C"}
Writers(v) == {n \in DOMAIN Code(graph) : v \in Defs(Code(graph)[n])}
InLoop(n) ==
    LET c == Code(graph)
    IN  \E p \in n .. Len(c) : \E q \in 1 .. n :
          p # q /\ c[p].op = "TJMP" /\ q \in LabelAt(c, c[p].r)

\* ... are written once, or only read in, or given constants, outside of loops, ...
ConstantsStay ==
    \A v \in TakenConstant :
      \/ Cardinality(Writers(v)) = 1
      \/ \A n \in Writers(v) :
           /\ ~ InLoop(n)
           /\ LET i == Code(graph)[n]
              IN  i.op = "TIN" \/ (i.op = "TASSIGN" /\ i.a1 \notin Vars)

\* ... no divisor is a constant 0 ...
NoZeroDivisor == \A i \in ToSet(Code(Known.g)) : i.op = "TDIV" => i.a2 # 0

\* ... and where a test is decided, it is an else that goes, to which nothing else
\* leads, in a program without loops.
OnlyElseGoes ==
    LET known == Known
    IN  RememberedFirst => \A o \in Prop!CpFold(known.g, known.outs).gone :
          /\ \E a \in graph.blocks :
               /\ graph.jmp[a] = o
               /\ \A d \in graph.blocks \ {a} : o \notin {graph.next[d], graph.jmp[d]}
          /\ \A n \in DOMAIN Code(graph) : ~ InLoop(n)

ConstCovered == EdgesRight /\ RememberedFirst /\ ConstantsStay /\ NoZeroDivisor /\ OnlyElseGoes

-----------------------------------------------------------------------------
Keeps(g, h) ==
    h.failed = "no" /\ \A input \in Inputs : KeepsOutput(Code(g), Code(h), input)

\* opt_algebra's rewritten instructions compute what they did: the program stops in the
\* same way and prints the same on every input (optimize.c:27-136).
AlgebraRight == [][OptAlgebra /\ NoReciprocal => Keeps(graph, graph')]_vars

\* opt_unused_vars drops no assignment something reads, in a later block or a loop's
\* next turn either (optimize.c:148-226).
UnusedRight == [][OptUnusedVars => Keeps(graph, graph')]_vars

\* A round of copy_prop, with the live variables as lva has left them, changes no value
\* that is read (copy_prop.c).
CopyPropRight == [][CopyProp /\ CopiesCovered => Keeps(graph, graph')]_vars

\* A round of const_prop, with bb_compact behind it, replaces only what has one value on
\* every way, and loses no reachable block (const_prop.c, bb.c:94-299).
ConstPropRight == [][ConstProp /\ ConstCovered => Keeps(graph, graph')]_vars

\* cse shares only what has the same value and writes everything wanted behind the block
\* (cse.c).  An operation nobody wants goes, and others come later, so a run that divides
\* by 0 is left out.
CseRight ==
    [][CsePass /\ CseCovered =>
         /\ graph'.failed = "no"
         /\ \A input \in Inputs :
              RunOf(Code(graph), input).status # "zerodivide" =>
                KeepsOutput(Code(graph), Code(graph'), input)]_vars

\* while(changed) in const_prop and copy_prop ends on every program: a round that asks
\* for another one leaves fewer instructions, blocks, operations or reads of variables
\* (const_prop.c:386-417, copy_prop.c:119-142).
Size(g) ==
    LET Reads(i) == {n \in 1 .. 3 : <<i.a1, i.a2, IF i.op = "TOUT" THEN i.r ELSE 0>>[n] \in Vars}
        Weight(i) == 1 + Cardinality(Reads(i)) + (IF i.op \in Binops THEN 3 ELSE 0)
    IN  FoldLeft(LAMBDA n, i : n + Weight(i), Cardinality(g.blocks), Code(g))
LoopsEnd ==
    /\ Runs("const_prop") =>
         LET g == Prop!ConstPropRound(graph)
         IN  g.failed = "no" /\ g.changed => Size(g) < Size(graph)
    /\ Runs("copy_prop") =>
         LET round == Cp!CopyPropRound(graph, out)
         IN  round.again => Size([graph EXCEPT !.ins = round.ins]) < Size(graph)

\* When copy_prop and cse look at what is alive behind a block, nothing that is alive
\* there is missing: lva has run on the code as the passes in between have left it
\* (optimize.c:228-247, lva.c:165-190).
EndOf(b) == FoldLeft(LAMBDA n, d : n + Len(graph.ins[d]), 0, Prop!InOrder(graph.blocks \ Behind(b)))
LiveKnown ==
    (Runs("copy_prop") \/ Runs("cse")) /\ EdgesRight =>
      LET live == LiveAfter(Code(graph))
      IN  \A b \in graph.blocks : live[EndOf(b)] \subseteq out[b]

-----------------------------------------------------------------------------
\* Behind every pass a program prints what its source says (test/cse.mila:4-10).
OutputKept ==
    graph # NoGraph /\ graph.failed = "no" =>
      \A input \in Inputs : KeepsOutput(code, Code(graph), input)

=============================================================================
