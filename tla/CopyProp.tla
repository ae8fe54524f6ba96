------------------------------ MODULE CopyProp ------------------------------
(***************************************************************************)
(* copy_prop.c.  In a block, an assignment r := a is either passed on, its   *)
(* readers behind it reading a (cpp_replace), or, if r is alive behind the   *)
(* block and the instruction in front has a in its field r, r takes the      *)
(* place of a there and the assignment goes.                                 *)
(***************************************************************************)
EXTENDS FlowCode

\* What ends the replacing of r.
Redefines(i, r) == r \in Defs(i)

\* A reader of r that gets a in its place; an assignment from r does not.
Substituted(i, r, a) ==
    LET S(o) == IF o = r THEN a ELSE o
    IN  CASE i.op \in Binops -> [i EXCEPT !.a1 = S(@), !.a2 = S(@)]
          [] i.op = "TOUT"   -> [i EXCEPT !.r = S(@)]
          [] i.op = "TIFF"   -> [i EXCEPT !.a1 = S(@)]
          [] OTHER           -> i

\* The instructions cpp_replace comes to for the one at place p.
MutReach(s, p) == p + 1 .. Len(s)
Reach(s, p) == {q \in p + 1 .. Len(s) : \A h \in p + 1 .. q : ~ Redefines(s[h], s[p].r)}
CppReplace(s, p) ==
    SubSeq(s, 1, p) \o
    [q \in 1 .. Len(s) - p |-> IF p + q \in Reach(s, p) THEN Substituted(s[p + q], s[p].r, s[p].a1)
                              ELSE s[p + q]]

MutIsCopy(i) == i.op = "TASSIGN"
IsCopy(i) == i.op = "TASSIGN" /\ i.a1 \in Vars
\* tac->r == ins->a1, whatever r is there.
NamedInFront(s, p) == p > 1 /\ s[p - 1].r = s[p].a1

\* One turn of cpp_bb's loop: c holds the block's instructions and changed.
CppInstruction(c, p, out) ==
    LET s == c.ins
        i == s[p]
    IN  IF ~ IsCopy(i) THEN c
        ELSE IF i.r \notin out
        THEN [c EXCEPT !.ins = CppReplace(IF NamedInFront(s, p) THEN [s EXCEPT ![p].bb = FALSE]
                                                                 ELSE s, p)]
        ELSE IF NamedInFront(s, p)
        THEN [ins |-> [s EXCEPT ![p].bb = FALSE, ![p - 1].r = i.r], changed |-> TRUE]
        ELSE c

\* cpp_bb.  What has no block goes, which const_prop's folded instructions do too.
CppBb(s, out) ==
    LET Turn(c, p) == CppInstruction(c, p, out)
        end == FoldLeftDomain(Turn, [ins |-> s, changed |-> FALSE], s)
    IN  [end EXCEPT !.ins = SelectSeq(@, LAMBDA i : i.bb)]

\* A turn of while(changed): what the last block says counts.
CopyPropRound(g, out) ==
    LET done == [b \in g.blocks |-> CppBb(g.ins[b], out[b])]
        last == CHOOSE b \in g.blocks : \A a \in g.blocks : a <= b
    IN  [ins |-> [b \in g.blocks |-> done[b].ins], again |-> done[last].changed]

=============================================================================
