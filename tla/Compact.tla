------------------------------ MODULE Compact ------------------------------
(***************************************************************************)
(* bb_compact of bb.c: blocks const_prop has found unreachable (g.gone) are  *)
(* taken out, blocks that need no jump between them are joined.  It walks    *)
(* the list three times; what a walk has marked is freed behind it.          *)
(***************************************************************************)
EXTENDS FlowCode

\* compact_preds closes holes.  It takes a hole in front for no hole, and what it
\* moves it leaves in its old place too.
CompactPreds(a) ==
    LET Turn(c, j) ==
          IF c.a[j] = NoBlock THEN c
          ELSE IF j # 1 /\ c.last # j - 1
          THEN [a |-> [c.a EXCEPT ![c.last + 1] = c.a[j]], last |-> c.last + 1]
          ELSE [c EXCEPT !.last = j]
    IN  FoldLeftDomain(Turn, [a |-> a, last |-> 1], a).a

\* bb_remove_predecessors: the first entry for the block, in front of any NULL.
RemovePredecessors(g, rem) ==
    LET Without(b) ==
          LET n == {j \in DOMAIN PredsOf(g, b) : g.pred[b][j] = rem}
          IN  IF n = {} THEN g.pred[b]
              ELSE [g.pred[b] EXCEPT ![CHOOSE j \in n : \A h \in n : j <= h] = NoBlock]
    IN  [g EXCEPT !.pred = [b \in DOMAIN @ |->
           IF b \in g.blocks \ g.gone THEN CompactPreds(Without(b)) ELSE @[b]]]

\* bb_add_predecessor: into the first hole, if there is one.
AddPredecessor(g, dst, src) ==
    IF dst = NoBlock THEN g
    ELSE IF dst \notin g.blocks THEN Failed(g, "freed")
    ELSE LET holes == {j \in DOMAIN g.pred[dst] : g.pred[dst][j] = NoBlock}
         IN  IF holes = {} THEN g
             ELSE [g EXCEPT !.pred[dst][CHOOSE j \in holes : \A h \in holes : j <= h] = src]

Freed(g) == [g EXCEPT !.blocks = @ \ g.gone, !.gone = {}]
Empty(s) == s = << >>
Running(g) == g.failed = "no"

-----------------------------------------------------------------------------
\* The first walk: whoever leads to an unreachable block leads to what is behind it.
Bypass(g, b) ==
    LET Led(h, p) ==
          IF ~ Running(h) THEN h
          ELSE IF p \notin h.blocks THEN Failed(h, "freed")
          ELSE [h EXCEPT !.next[p] = IF @ = b THEN h.next[b] ELSE @,
                         !.jmp[p] = IF @ = b THEN h.jmp[b] ELSE @]
        r == RemovePredecessors(g, b)
    IN  IF Running(g) /\ b \in g.gone
        THEN FoldLeft(Led, [r EXCEPT !.changed = TRUE], PredsOf(r, b))
        ELSE g

\* Block b takes over the instructions and the successors of n.
Joined(g, b, s, n, t) ==
    LET h == [g EXCEPT !.changed = TRUE, !.ins[b] = s \o t, !.ins[n] = t,
                       !.next[b] = g.next[n],
                       !.jmp[b] = g.jmp[n], !.gone = @ \cup {n}]
        r == RemovePredecessors(h, n)
    IN  AddPredecessor(r, r.next[b], b)

\* A block whose successor n, without its label, can follow at once.  (Nothing is
\* dropped from an empty list.)
JoinBehind(g, b, n, drop) ==
    IF Through(g, n) # "no" THEN Failed(g, Through(g, n))
    ELSE Joined(g, b, Front(g.ins[b]), n, SubSeq(g.ins[n], drop + 1, Len(g.ins[n])))

\* The second walk: a TIFF with one way left goes, and a TJMP to the next block.  The
\* label a TIFF led to is looked at, so there has to be one.
DropTest(g, b) ==
    IF ~ Running(g) \/ b \in g.gone THEN g
    ELSE IF Empty(g.ins[b]) THEN Failed(g, "null")
    ELSE LET i == Last(g.ins[b])
             behind == {d \in g.blocks : d > b}
         IN  IF i.op = "TIFF" /\ g.jmp[b] = NoBlock THEN JoinBehind(g, b, g.next[b], 0)
             ELSE IF i.op = "TIFF" /\ g.next[b] = NoBlock
             THEN IF Through(g, g.jmp[b]) = "no" /\ Empty(g.ins[g.jmp[b]])
                  THEN Failed(g, "null") ELSE JoinBehind(g, b, g.jmp[b], 1)
             ELSE IF /\ i.op = "TJMP"
                     /\ g.jmp[b] \in behind
                     /\ \A d \in behind : g.jmp[b] <= d
             THEN JoinBehind(g, b, g.jmp[b], 1)
             ELSE g

\* The third walk: a block with a label that only the block in front of it comes to.
Unlabel(g, b) ==
    LET p == g.pred[b][1]
    IN  IF ~ Running(g) \/ Cardinality({j \in DOMAIN g.pred[b] : g.pred[b][j] # NoBlock}) # 1
        THEN g
        ELSE IF Empty(g.ins[b]) THEN Failed(g, "null")
        ELSE IF Through(g, p) # "no" THEN Failed(g, Through(g, p))
        ELSE IF g.next[p] = b /\ g.ins[b][1].op = "TLABEL"
        THEN Joined(g, p, g.ins[p], b, Tail(g.ins[b]))
        ELSE g

BbCompact(g) ==
    LET bypassed == Freed(OverBlocks(Bypass, g))
        tested   == Freed(OverBlocks(DropTest, bypassed))
    IN  Freed(OverBlocks(Unlabel, tested))

=============================================================================
