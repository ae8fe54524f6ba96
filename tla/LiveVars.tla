------------------------------ MODULE LiveVars ------------------------------
(***************************************************************************)
(* lva of lva.c: live variables of a flow graph of basic blocks.  The      *)
(* blocks are walked from the last of the list to the first, again and     *)
(* again, until no block's out set has changed; a step is one block.        *)
(* The graph's list order is the order of its blocks' numbers.             *)
(*                                                                         *)
(* Within a walk a block sees the in sets of the blocks behind it as this   *)
(* walk has computed them, and those in front of it (and, where a loop      *)
(* closes, its header's) as the walk before did.  "changed" looks at out    *)
(* only, so an in set may change in the walk that ends the loop.  The       *)
(* pre-header of a loop (PreHeaders) is what makes the result right.        *)
(***************************************************************************)
EXTENDS Liveness

CONSTANT Graphs

NoBlock == -1

SuccsIn(g, b) == {g.next[b], g.jmp[b]} \ {NoBlock}

\* A loop's back edge goes to a block that the block before the loop, and
\* nothing else, is followed by: gen_loop emits a TLABEL in front of the
\* condition, and bb_build ends the block before a TLABEL.
PreHeaders(g) ==
    \A b \in g.blocks : \A s \in SuccsIn(g, b) :
      s <= b => \E p \in g.blocks : p < s /\ SuccsIn(g, p) = {s}

IsGraph(g) ==
    /\ g.blocks \subseteq Nat /\ IsFiniteSet(g.blocks)
    /\ g.next \in [g.blocks -> g.blocks \cup {NoBlock}]
    /\ g.jmp \in [g.blocks -> g.blocks \cup {NoBlock}]
    /\ g.ins \in [g.blocks -> Seq(Instrs)]

ASSUME GraphsAssumption == \A g \in Graphs : IsGraph(g) /\ PreHeaders(g)

VARIABLES
    graph,      \* bb_code_t.blocks
    phase,      \* where lva is: "init", "defuse", "walk", "done"
    todo,       \* the blocks the current list_each has not come to
    def,        \* bb_t.lva.def
    use,        \* bb_t.lva.use
    in,         \* bb_t.lva.in
    out,        \* bb_t.lva.out
    changed

vars == <<graph, phase, todo, def, use, in, out, changed>>

AllEmpty == [b \in graph.blocks |-> {}]

\* The graph is built, lva is not yet called.
Begin ==
    /\ phase = "init"
    /\ todo = {}
    /\ def = AllEmpty /\ use = AllEmpty /\ in = AllEmpty /\ out = AllEmpty
    /\ changed = TRUE

Init == graph \in Graphs /\ Begin

\* lva_init drops the sets of an earlier call.
LvaInit ==
    /\ phase = "init"
    /\ phase' = "defuse"
    /\ todo' = graph.blocks
    /\ def' = AllEmpty /\ use' = AllEmpty /\ in' = AllEmpty /\ out' = AllEmpty
    /\ changed' = TRUE
    /\ UNCHANGED graph

\* The variables a block writes, and those it reads before it writes them.
Written(s) == UNION {Defs(s[i]) : i \in DOMAIN s}
MutReadAnywhere(s) == UNION {Uses(s[i]) : i \in DOMAIN s}
MutReadConstants(s) == MutReadAnywhere(s) \cup {s[i].a1 : i \in DOMAIN s}
ReadFirst(s) ==
    {v \in Vars : \E i \in DOMAIN s :
       v \in Uses(s[i]) /\ \A j \in 1 .. i - 1 : v \notin Defs(s[j])}

DefUse ==
    /\ phase = "defuse"
    /\ \E b \in todo :
         /\ \A d \in todo : b <= d
         /\ def' = [def EXCEPT ![b] = Written(graph.ins[b])]
         /\ use' = [use EXCEPT ![b] = ReadFirst(graph.ins[b])]
         /\ todo' = todo \ {b}
    /\ UNCHANGED <<graph, phase, in, out, changed>>

\* while(changed): every block, from the last.
StartWalk ==
    /\ phase \in {"defuse", "walk"}
    /\ todo = {}
    /\ changed
    /\ phase' = "walk"
    /\ todo' = graph.blocks
    /\ changed' = FALSE
    /\ UNCHANGED <<graph, def, use, in, out>>

Transfer(b) == (out[b] \ def[b]) \cup use[b]
MutJoin(i, b) == out[b] \cup UNION {i[s] : s \in {graph.jmp[b]} \ {NoBlock}}
Join(i, b) == out[b] \cup UNION {i[s] : s \in SuccsIn(graph, b)}

MutOnlyLastBlock(b, o) == o # out[b]
MutAgainstEmpty(b, o) == changed \/ o # {}
Changes(b, o) == changed \/ o # out[b]

VisitBlock ==
    /\ phase = "walk"
    /\ \E b \in todo :
         /\ \A d \in todo : d <= b
         /\ in' = [in EXCEPT ![b] = Transfer(b)]
         /\ LET o == Join(in', b)
            IN  /\ changed' = Changes(b, o)
                /\ out' = [out EXCEPT ![b] = o]
         /\ todo' = todo \ {b}
    /\ UNCHANGED <<graph, phase, def, use>>

Finish ==
    /\ phase = "walk"
    /\ todo = {}
    /\ ~ changed
    /\ phase' = "done"
    /\ UNCHANGED <<graph, todo, def, use, in, out, changed>>

Next == LvaInit \/ DefUse \/ StartWalk \/ VisitBlock \/ Finish

\* Nothing but lva runs.
Spec == Init /\ [][Next]_vars /\ WF_vars(Next)

-----------------------------------------------------------------------------
TypeOK ==
    /\ IsGraph(graph) /\ PreHeaders(graph)
    /\ phase \in {"init", "defuse", "walk", "done"}
    /\ todo \subseteq graph.blocks
    /\ def \in [graph.blocks -> SUBSET Vars]
    /\ use \in [graph.blocks -> SUBSET Vars]
    /\ in \in [graph.blocks -> SUBSET Vars]
    /\ out \in [graph.blocks -> SUBSET Vars]
    /\ changed \in BOOLEAN

\* What lva leaves solves the equations of liveness, though no walk has
\* compared an in set and the last walk may still have changed some.
Fixpoint ==
    phase = "done" =>
      \A b \in graph.blocks :
        /\ in[b] = use[b] \cup (out[b] \ def[b])
        /\ out[b] = UNION {in[s] : s \in SuccsIn(graph, b)}

\* The points of the graph: a place in front of each instruction of a block and
\* one at the block's end.
Points(g) == UNION {{b} \X (1 .. Len(g.ins[b]) + 1) : b \in g.blocks}

\* The variables some path of instructions from the begin of a block reads
\* before it writes them, with blocks taken apart into instructions.
LiveAtPoints(g) ==
    LET P == Points(g)
        AtEnd(p) == p[2] = Len(g.ins[p[1]]) + 1
    IN  LiveIn(P,
          [p \in P |-> IF AtEnd(p) THEN {<<s, 1>> : s \in SuccsIn(g, p[1])}
                                   ELSE {<<p[1], p[2] + 1>>}],
          [p \in P |-> IF AtEnd(p) THEN {} ELSE Uses(g.ins[p[1]][p[2]])],
          [p \in P |-> IF AtEnd(p) THEN {} ELSE Defs(g.ins[p[1]][p[2]])])

\* No variable is ever taken for live that is not: a set bit is never cleared
\* again (out only grows), so it must be right at once.
NeverTooLive ==
    phase \in {"walk", "done"} =>
      LET live == LiveAtPoints(graph)
      IN  \A b \in graph.blocks :
            /\ in[b] \subseteq live[<<b, 1>>]
            /\ out[b] \subseteq live[<<b, Len(graph.ins[b]) + 1>>]

\* In the end every live variable has been found, along loops too: the passes
\* that drop instructions (opt_unused_vars, copy_prop) drop none that is needed.
AllLiveFound ==
    phase = "done" =>
      LET live == LiveAtPoints(graph)
      IN  \A b \in graph.blocks :
            /\ live[<<b, 1>>] \subseteq in[b]
            /\ live[<<b, Len(graph.ins[b]) + 1>>] \subseteq out[b]

\* while(changed) ends.
Terminates == <>(phase = "done")

-----------------------------------------------------------------------------
(* What makes the result a solution, and the least one. *)

\* Every set is justified by those it was computed from.
Justified ==
    /\ \A b \in graph.blocks : in[b] \subseteq use[b] \cup (out[b] \ def[b])
    /\ \A b \in graph.blocks : out[b] \subseteq UNION {in[s] : s \in SuccsIn(graph, b)}

NotStarted == phase \in {"init", "defuse"} => in = AllEmpty /\ out = AllEmpty

\* A walk goes from the last block to the first.
FromTheLast ==
    phase = "walk" => \A b \in todo : \A d \in graph.blocks \ todo : b < d

\* A visited block's in set is up to date, if no out set has changed;
InUpToDate ==
    phase = "walk" =>
      \A b \in graph.blocks \ todo : changed \/ in[b] = use[b] \cup (out[b] \ def[b])

\* its out set has what the blocks behind it have.
ForwardEdges ==
    phase = "walk" =>
      \A b \in graph.blocks \ todo : \A s \in SuccsIn(graph, b) :
        s > b => in[s] \subseteq out[b]

IsPreHeader(p, s) == p \in graph.blocks /\ p < s /\ SuccsIn(graph, p) = {s}

\* A pre-header's out set is the header's in set, but between their visits.
PreHeaderAgrees ==
    phase = "walk" =>
      \A s \in graph.blocks : \A p \in graph.blocks :
        IsPreHeader(p, s) /\ (s \in todo \/ p \notin todo) => out[p] = in[s]

\* What is missing at a back edge is still to be found missing at the
\* pre-header, and then sets changed.
BackEdges ==
    phase = "walk" =>
      \A b \in graph.blocks \ todo : \A s \in SuccsIn(graph, b) :
        s <= b =>
          \A p \in graph.blocks : IsPreHeader(p, s) =>
            /\ s \in todo => in[s] \subseteq out[b]
            /\ s \notin todo /\ p \in todo => out[p] \subseteq out[b]
            /\ s \notin todo /\ p \notin todo => changed \/ in[s] \subseteq out[b]

WalkInv ==
    /\ Justified /\ NotStarted /\ FromTheLast /\ InUpToDate
    /\ ForwardEdges /\ PreHeaderAgrees /\ BackEdges

\* Behind the loop of lva_bb, def and use hold what the block's instructions
\* write and read first.
DefUseKnown ==
    phase \in {"defuse", "walk", "done"} =>
      \A b \in graph.blocks \ (IF phase = "defuse" THEN todo ELSE {}) :
        def[b] = Written(graph.ins[b]) /\ use[b] = ReadFirst(graph.ins[b])

IInv == TypeOK /\ WalkInv /\ Fixpoint /\ DefUseKnown

\* Sets that solve the equations, perhaps larger than need be ...
Solution(X, Y) ==
    \A b \in graph.blocks :
      /\ use[b] \cup (Y[b] \ def[b]) \subseteq X[b]
      /\ UNION {X[s] : s \in SuccsIn(graph, b)} \subseteq Y[b]

\* ... and lva never goes above any of them: no variable is taken for live that
\* some consistent assignment of live sets leaves out.
BelowSolutions ==
    \A X, Y \in [graph.blocks -> SUBSET Vars] :
      Solution(X, Y) =>
        \A b \in graph.blocks : in[b] \subseteq X[b] /\ out[b] \subseteq Y[b]

=============================================================================
