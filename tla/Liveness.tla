------------------------------ MODULE Liveness ------------------------------
(***************************************************************************)
(* What "live" means, independently of how a pass computes it: a variable  *)
(* is live into a node of a flow graph if some path from that node uses it *)
(* before writing it.  A node is a basic block (lva.c) or an instruction   *)
(* (the interference of register allocation).                              *)
(***************************************************************************)
EXTENDS Tac, FiniteSets

\* The pairs of a node and a variable live into it over paths of at most k nodes;
\* as many nodes as the graph has are enough.
LiveInWithin(Nodes, succ, use, def, k) ==
    LET L[m \in 0 .. k] ==
          IF m = 0 THEN {}
          ELSE LET shorter == L[m - 1]
               IN  {nv \in Nodes \X Vars :
                      \/ nv[2] \in use[nv[1]]
                      \/ /\ nv[2] \notin def[nv[1]]
                         /\ \E s \in succ[nv[1]] : <<s, nv[2]>> \in shorter}
    IN  L[k]

LiveIn(Nodes, succ, use, def) ==
    LET live == LiveInWithin(Nodes, succ, use, def, Cardinality(Nodes))
    IN  [n \in Nodes |-> {v \in Vars : <<n, v>> \in live}]

-----------------------------------------------------------------------------
(* The instruction-level flow graph of a three address code list. *)

LabelAt(code, l) ==
    {p \in 1 .. Len(code) : code[p].op = "TLABEL" /\ code[p].r = l}

Succs(code, p) ==
    CASE code[p].op = "TJMP" -> LabelAt(code, code[p].r)
      [] code[p].op = "TIFF" -> LabelAt(code, code[p].r) \cup ({p + 1} \cap DOMAIN code)
      [] OTHER -> {p + 1} \cap DOMAIN code

LiveBefore(code) ==
    LET P == DOMAIN code
    IN  LiveIn(P, [p \in P |-> Succs(code, p)], [p \in P |-> Uses(code[p])],
               [p \in P |-> Defs(code[p])])

LiveAfter(code) ==
    LET live == LiveBefore(code)
    IN  [p \in DOMAIN code |-> UNION {live[s] : s \in Succs(code, p)}]

\* No path reads a variable before writing it.
DefinedBeforeUse(code) == code # << >> => LiveBefore(code)[1] = {}

\* No jump goes back: there is no loop.
ForwardOnly(code) ==
    \A p \in DOMAIN code : \A s \in Succs(code, p) : s > p

=============================================================================
