----------------------------- MODULE ConstProp -----------------------------
(***************************************************************************)
(* const_prop.c: rounds of finding what is known of the variables behind     *)
(* each instruction (cp_propagate), of one change that follows from it       *)
(* (cp_fold), and of bb_compact.                                            *)
(*                                                                         *)
(* What is known of a variable, cp_var_t, is a state c and a constant s that *)
(* may be NULL: a binop of constants is a constant to be computed.           *)
(***************************************************************************)
EXTENDS Compact, TacMachine

CONSTANT NoSymbol      \* NULL

Undef == [c |-> "UNDEF", s |-> NoSymbol]
Known(f, a) == IF a \in Vars THEN f[a] ELSE [c |-> "C", s |-> a]
NotC(k) == [k EXCEPT !.c = "NAC"]
IsC(f, a) == Known(f, a).c = "C"

\* An int of the compiler.
Wrap(n) ==
    LET size == 2 * (MaxWord + 1) IN ((n + MaxWord + 1) % size) - (MaxWord + 1)

-----------------------------------------------------------------------------
\* tmp_vars and what is known at a predecessor's end.
MutJoin(t, p) == IF p.c = "C" THEN p ELSE t
Join(t, p) ==
    IF p.c = "NAC" \/ (p.c = "C" /\ t.c = "C" /\ p.s # t.s) THEN NotC(t)
    ELSE IF p.c = "C" /\ t.c = "UNDEF" THEN p
    ELSE t

Constant(f, a) == IF IsC(f, a) /\ Known(f, a).s # NoSymbol THEN Known(f, a).s ELSE a
Propagated(f, i) ==
    IF i.op \in Binops THEN [i EXCEPT !.a1 = Constant(f, @), !.a2 = Constant(f, @)] ELSE i

\* What is known behind the (propagated) instruction i, when f is in front of it.  What
\* is assigned from a variable that is no constant leaves what was known.
Behind(f, i) ==
    CASE i.op = "TIN" -> [f EXCEPT ![i.r] = NotC(@)]
      [] i.op = "TASSIGN" /\ IsC(f, i.a1) -> [f EXCEPT ![i.r] = Known(f, i.a1)]
      [] i.op \in Binops /\ IsC(f, i.a1) /\ IsC(f, i.a2) ->
           [f EXCEPT ![i.r] = [c |-> "C", s |-> NoSymbol]]
      [] i.op \in Binops /\ "NAC" \in {Known(f, i.a1).c, Known(f, i.a2).c} ->
           [f EXCEPT ![i.r] = NotC(@)]
      [] OTHER -> f

\* The instructions of a block as rewritten, and what is known behind each.
Walked(f, s) ==
    LET Turn(c, i) ==
          LET j == Propagated(c.f, i)
              h == Behind(c.f, j)
          IN  [f |-> h, ins |-> Append(c.ins, j), outs |-> Append(c.outs, h)]
    IN  FoldLeft(Turn, [f |-> f, ins |-> << >>, outs |-> << >>], s)

\* cp_propagate.  tmp_vars is never cleared between blocks; a block not yet come to
\* knows nothing (memset).  c holds the graph, its outs and tmp_vars.
PropagateBlock(c, b) ==
    LET g == c.g
        preds == PredsOf(g, b)
        AtEnd(p) == IF c.outs[p] = << >> THEN [v \in Vars |-> Undef] ELSE Last(c.outs[p])
        With(t, p) == [v \in Vars |-> Join(t[v], AtEnd(p)[v])]
        tmp == FoldLeft(With, c.tmp, preds)
        w == Walked(tmp, g.ins[b])
    IN  IF ~ Running(g) THEN c
        ELSE IF Empty(g.ins[b]) THEN [c EXCEPT !.g = Failed(g, "null")]
        ELSE IF ~ (ToSet(preds) \subseteq g.blocks) THEN [c EXCEPT !.g = Failed(g, "freed")]
        ELSE IF \E p \in ToSet(preds) : Empty(g.ins[p]) THEN [c EXCEPT !.g = Failed(g, "null")]
        ELSE [g |-> [g EXCEPT !.ins[b] = w.ins], tmp |-> tmp, outs |-> [c.outs EXCEPT ![b] = w.outs]]

CpPropagate(g) ==
    FoldLeft(PropagateBlock,
             [g |-> g, tmp |-> [v \in Vars |-> Undef], outs |-> [b \in g.blocks |-> << >>]],
             InOrder(g.blocks))

-----------------------------------------------------------------------------
(* cp_fold over the code as one list: s its instructions, f what is known    *)
(* behind each.  prev is the last of those it stops at, in any block before.  *)

Remembered == {"TIN", "TJMP", "TLABEL", "TASSIGN"}
Prevs(s, n) == {m \in 1 .. n - 1 : s[m].op \in Remembered}
HasPrev(s, n) == Prevs(s, n) # {}
AtPrev(s, f, n) == f[CHOOSE m \in Prevs(s, n) : \A h \in Prevs(s, n) : h <= m]

Foldable(s, f, n) ==
    s[n].op \in Binops /\ Known(f[n], s[n].r) = [c |-> "C", s |-> NoSymbol]
Differs(s, f, n, a) ==
    IsC(AtPrev(s, f, n), a) /\ Known(AtPrev(s, f, n), a).s # a

\* prev is NULL and looked at.
Stumbles(s, f, n) ==
    /\ ~ HasPrev(s, n)
    /\ Foldable(s, f, n) \/ s[n].op \in {"TIFF", "TOUT"}

MutChanges(s, f, n) ==
    CASE s[n].op \in Binops    -> Foldable(s, f, n)
      [] s[n].op = "TASSIGN" -> HasPrev(s, n) /\ IsC(AtPrev(s, f, n), s[n].a1)
      [] s[n].op = "TIFF"    -> IsC(AtPrev(s, f, n), s[n].a1)
      [] s[n].op = "TOUT"    -> Differs(s, f, n, s[n].r)
      [] OTHER -> FALSE
Changes(s, f, n) ==
    CASE s[n].op \in Binops    -> Foldable(s, f, n)
      [] s[n].op = "TASSIGN" -> HasPrev(s, n) /\ Differs(s, f, n, s[n].a1)
      [] s[n].op = "TIFF"    -> IsC(AtPrev(s, f, n), s[n].a1)
      [] s[n].op = "TOUT"    -> Differs(s, f, n, s[n].r)
      [] OTHER -> FALSE

\* binop_fold.  The new instruction has no block; the division is the compiler's own.
Traps(op, a, b) == op = "TDIV" /\ (b = 0 \/ (a = - MaxWord - 1 /\ b = -1))
BinopFold(g, at, i, a, b) ==
    IF NoSymbol \in {a, b} THEN Failed(g, "null")
    ELSE IF Traps(i.op, a, b) THEN Failed(g, "zero")
    ELSE [g EXCEPT !.ins[at[1]][at[2]] =
            [i EXCEPT !.op = "TASSIGN", !.a1 = Wrap(Result(i.op, a, b)), !.a2 = 0, !.bb = FALSE]]

\* A test of a constant: the way not taken is unreachable.
DecideTest(g, b, n) ==
    LET other == IF n > 0 THEN g.jmp[b] ELSE g.next[b]
    IN  IF n = NoSymbol THEN Failed(g, "null")
        ELSE IF Through(g, other) # "no" THEN Failed(g, Through(g, other))
        ELSE [g EXCEPT !.gone = @ \cup {other}]

Changed(g, at, i, f, known) ==
    CASE i.op \in Binops    -> BinopFold(g, at, i, Known(known, i.a1).s, Known(known, i.a2).s)
      [] i.op = "TASSIGN" -> [g EXCEPT !.ins[at[1]][at[2]].a1 = Known(known, @).s]
      [] i.op = "TIFF"    -> DecideTest(g, at[1], Known(known, i.a1).s)
      [] i.op = "TOUT"    -> [g EXCEPT !.ins[at[1]][at[2]].r = Known(known, @).s]

\* The first place that changes ends the loop.
CpFold(g, outs) ==
    LET s == Flat(g)
        f == FlatOf(g.blocks, outs)
        hits == {n \in DOMAIN s : Stumbles(s, f, n) \/ (HasPrev(s, n) /\ Changes(s, f, n))}
        n == CHOOSE n \in hits : \A m \in hits : n <= m
    IN  IF hits = {} THEN g
        ELSE IF Stumbles(s, f, n) THEN Failed(g, "null")
        ELSE Changed([g EXCEPT !.changed = TRUE], Places(g)[n], s[n], f[n], AtPrev(s, f, n))

\* A turn of while(changed).
ConstPropRound(g) ==
    LET c == CpPropagate([g EXCEPT !.changed = FALSE])
        h == IF Running(c.g) THEN CpFold(c.g, c.outs) ELSE c.g
    IN  IF Running(h) THEN BbCompact(h) ELSE h

=============================================================================
