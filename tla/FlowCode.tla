------------------------------ MODULE FlowCode ------------------------------
(***************************************************************************)
(* Three address code in basic blocks as the optimization passes have it:   *)
(* bb_code_t and bb_t.  An instruction also has its field bb, which is TRUE  *)
(* where it names a block and FALSE where it is NULL; the passes look at no  *)
(* more of it.  The list's order is that of the blocks' numbers.             *)
(*                                                                         *)
(* A graph g also says whether the compiler still runs: g.failed is "no",   *)
(* "null" where a NULL was dereferenced, "freed" where a freed block was,   *)
(* and "zero" where the compiler itself divided by 0.                       *)
(***************************************************************************)
EXTENDS Tac, FiniteSets, SequencesExt

CONSTANT MaxPredecessors

NoBlock == -1

\* list_each over the blocks.
InOrder(S) == [n \in 1 .. Cardinality(S) |->
                 CHOOSE b \in S : Cardinality({a \in S : a < b}) = n - 1]
OverBlocks(Op(_, _), g) == FoldLeft(Op, g, InOrder(g.blocks))

\* The instructions as the code generator meets them, and where they are.
FlatOf(blocks, s) == FlattenSeq([n \in DOMAIN InOrder(blocks) |-> s[InOrder(blocks)[n]]])
Flat(g) == FlatOf(g.blocks, g.ins)
Places(g) == FlatOf(g.blocks, [b \in g.blocks |-> [j \in DOMAIN g.ins[b] |-> <<b, j>>]])

\* A loop over pred ends at the first NULL.
PredsOf(g, b) ==
    LET a == g.pred[b]
        n == Cardinality({j \in DOMAIN a : \A h \in 1 .. j : a[h] # NoBlock})
    IN  SubSeq(a, 1, n)

Failed(g, why) == [g EXCEPT !.failed = why]
\* What is read through a pointer to a block.
Through(g, b) == CASE b = NoBlock -> "null" [] b \notin g.blocks \cup {NoBlock} -> "freed"
                   [] OTHER -> "no"

=============================================================================
