-------------------------------- MODULE Cse --------------------------------
(***************************************************************************)
(* cse.c: the common subexpressions of a block.  A first walk builds nodes,  *)
(* one for a value that came from outside and one for an operation on two    *)
(* nodes, and a table from names to nodes; a second one (gen of cse.c)       *)
(* writes the block anew, an operation where its value is first wanted.      *)
(*                                                                         *)
(* The table is keyed by texts: a symbol's name, or an operation's sign and  *)
(* the numbers of its nodes, which nothing keeps apart.                      *)
(***************************************************************************)
EXTENDS FlowCode, TLC

CONSTANT NoSymbol      \* NULL

\* "%d%d", of numbers with three digits at most.
Concat(m, n) == m * (IF n < 10 THEN 10 ELSE IF n < 100 THEN 100 ELSE 1000) + n

\* nodeop's and binop's texts and those of names: a negative constant's is a TSUB's.
NameKey(a) == IF a \in Vars \/ a >= 0 THEN <<"name", a>> ELSE <<"TSUB", -a>>
MutOpKey(op, m, n) == <<op, m>>
OpKey(op, m, n) ==
    IF op \in {"TADD", "TMUL"} /\ m > n THEN <<op, Concat(n, m)>> ELSE <<op, Concat(m, n)>>

\* d holds the list of nodes and the table (and the new code, and whether it failed),
\* and how many nodes the blocks before had: node_count is never reset.
\* hash_tab_insert behind an entry of the same name is without effect, for
\* hash_tab_lookup finds the first.
Lookup(d, key) == IF key \in DOMAIN d.tab THEN d.tab[key] ELSE 0
Update(d, key, n) == [d EXCEPT !.tab[key] = n]
Insert(d, key, n) ==
    IF key \in DOMAIN d.tab THEN d ELSE [d EXCEPT !.tab = (key :> n) @@ @]

Leaf(a, s) == [op |-> "TNONE", l |-> 0, r |-> 0, s |-> s, symbols |-> <<a>>, generated |-> FALSE]
Operation(op, m, n) ==
    [op |-> op, l |-> m, r |-> n, s |-> NoSymbol, symbols |-> << >>, generated |-> FALSE]
NewNode(d, key, node) == Insert([d EXCEPT !.nodes = Append(@, node)], key, Len(d.nodes) + 1)
Ensure(d, key, node) == IF Lookup(d, key) = 0 THEN NewNode(d, key, node) ELSE d
Named(d, n, r) == [d EXCEPT !.nodes[n].symbols = Append(@, r)]
NumberOf(d, n) == d.before + n
Unnamed(d, n, r) == IF n = 0 THEN d ELSE [d EXCEPT !.nodes[n].symbols = RemoveFirst(@, r)]

\* A binop's result.  A variable written before stays the name of its old node, unless
\* the operation reads it.
NodeOfBinop(d, i) ==
    LET e  == Ensure(Ensure(d, NameKey(i.a1), Leaf(i.a1, i.a1)), NameKey(i.a2), Leaf(i.a2, i.a2))
        m  == Lookup(e, NameKey(i.a1))
        k  == Lookup(e, NameKey(i.a2))
        op == OpKey(i.op, NumberOf(e, m), NumberOf(e, k))
        f  == Ensure(e, op, Operation(i.op, m, k))
        n  == Lookup(f, op)
        g  == Unnamed(Named(f, n, i.r), Lookup(f, NameKey(i.r)), i.r)
    IN  IF i.r \in {i.a1, i.a2} THEN Update(g, NameKey(i.r), n) ELSE Insert(g, NameKey(i.r), n)

NodeOfAssign(d, i) ==
    LET e == Ensure(d, NameKey(i.a1), Leaf(i.a1, NoSymbol))
        n == Lookup(e, NameKey(i.a1))
        f == Unnamed(Named(e, n, i.r), Lookup(e, NameKey(i.r)), i.r)
    IN  Update(Insert(f, NameKey(i.r), n), NameKey(i.r), n)

\* The other instructions, a TIN among them, leave the table.
NodesOf(s, before) ==
    LET Turn(d, i) == IF i.op \in Binops THEN NodeOfBinop(d, i)
                      ELSE IF i.op = "TASSIGN" THEN NodeOfAssign(d, i) ELSE d
    IN  FoldLeft(Turn, [nodes |-> << >>, before |-> before, tab |-> << >>,
                        code |-> << >>, failed |-> "no"], s)

\* The nodes made before each block, in the order of the blocks.
NodesBefore(g) ==
    LET Turn(counts, b) ==
          Append(counts, Last(counts) + Len(NodesOf(g.ins[b], Last(counts)).nodes))
        counted == FoldLeft(Turn, <<0>>, InOrder(g.blocks))
    IN  [b \in g.blocks |-> counted[1 + Cardinality({a \in g.blocks : a < b})]]

-----------------------------------------------------------------------------
(* gen: d.code is the new block. *)

NameOf(d, n) ==
    IF d.nodes[n].symbols # << >> THEN Head(d.nodes[n].symbols) ELSE d.nodes[n].s
IsNew(d, n) == d.nodes[n].op # "TNONE" /\ ~ d.nodes[n].generated

\* gen_node: the operations a node needs, the left one first, then its own.
GenNode(d, n) ==
    LET order[k \in 0 .. n] ==
          IF k = 0 \/ ~ IsNew(d, k) THEN << >>
          ELSE order[d.nodes[k].l] \o order[d.nodes[k].r] \o <<k>>
        Emit(e, k) ==
          IF ~ IsNew(e, k) THEN e
          ELSE [e EXCEPT !.nodes[k].generated = TRUE,
                         !.code = Append(@, [op |-> e.nodes[k].op, a1 |-> NameOf(e, e.nodes[k].l),
                                             a2 |-> NameOf(e, e.nodes[k].r), r |-> NameOf(e, k),
                                             bb |-> TRUE])]
    IN  FoldLeft(Emit, d, order[n])

\* gen_s: where the value of symbol s of node n is.
Holder(d, n, s) == IF d.nodes[n].op = "TNONE" THEN s ELSE NameOf(d, n)

Copied(d, i) == [d EXCEPT !.code = Append(@, i)]

\* What is alive behind the block, in the order of the symbol table.
GenLive(d, live, order) ==
    LET Turn(e, v) ==
          IF v \in live /\ Lookup(e, NameKey(v)) # 0 THEN GenNode(e, Lookup(e, NameKey(v))) ELSE e
    IN  FoldLeft(Turn, d, order)

GenOut(d, i) ==
    LET n == Lookup(d, NameKey(i.r))
    IN  IF n = 0 THEN Copied(d, i)
        ELSE Copied(GenNode(d, n), [i EXCEPT !.r = Holder(d, n, @)])

\* An instruction whose node has just been written keeps its operand, ...
GenTest(d, i) ==
    LET n == Lookup(d, NameKey(i.a1))
    IN  IF n = 0 THEN [d EXCEPT !.failed = "null"]
        ELSE Copied(GenNode(d, n), IF IsNew(d, n) THEN i ELSE [i EXCEPT !.a1 = Holder(d, n, @)])

\* ... and an assignment is dropped for it.
GenAssign(d, i) ==
    LET n == Lookup(d, NameKey(i.r))
    IN  IF IsNew(d, n) THEN GenNode(d, n) ELSE Copied(d, [i EXCEPT !.r = Holder(d, n, @)])

\* Operations are not copied: they are where they are wanted.
GenInstruction(d, i, live, order) ==
    CASE i.op \in {"TIN", "TLABEL"} -> Copied(d, i)
      [] i.op = "TOUT" -> GenOut(d, i)
      [] i.op = "TIFF" -> GenTest(GenLive(d, live, order), i)
      [] i.op = "TJMP" -> Copied(GenLive(d, live, order), i)
      [] i.op = "TASSIGN" -> GenAssign(d, i)
      [] OTHER -> d

\* cse of one block.
CseBb(s, before, live, order) ==
    LET Turn(d, i) == GenInstruction(d, i, live, order)
    IN  GenLive(FoldLeft(Turn, NodesOf(s, before), s), live, order)

\* opt_bb_pass.  An operand that is NULL is found by one of the next two passes.
CseAll(g, out, order) ==
    LET before == NodesBefore(g)
        done == [b \in g.blocks |-> CseBb(g.ins[b], before[b], out[b], order)]
        Lacking(i) == NoSymbol \in {i.a1, i.a2, i.r}
        h == [g EXCEPT !.ins = [b \in g.blocks |-> done[b].code]]
    IN  IF \E b \in g.blocks : done[b].failed # "no" \/ \E i \in ToSet(done[b].code) : Lacking(i)
        THEN Failed(h, "null") ELSE h

=============================================================================
