--------------------------- MODULE LiveVarsProofs ---------------------------
(***************************************************************************)
(* For every set of graphs whose loops have pre-headers: lva's sets keep   *)
(* their types, stay below every solution of the equations of liveness,    *)
(* and solve the equations when lva returns.  What is live at the points   *)
(* of the instructions is a solution itself, and the least one (LiveIn,    *)
(* defined over paths, has found all there is when the paths have as many  *)
(* nodes as the graph): so lva's sets never hold more than the live        *)
(* variables, and in the end all of them.                                  *)
(***************************************************************************)
EXTENDS LiveVars, LivenessProofs, TLAPS, FiniteSetTheorems

\* Successors are blocks.
LEMMA SuccsAreBlocks ==
  ASSUME NEW g, IsGraph(g), NEW b \in g.blocks
  PROVE  SuccsIn(g, b) \subseteq g.blocks
BY DEF IsGraph, SuccsIn

\* The set operations of a block's visit, the code's loops over the bits.
LEMMA TransferType ==
  ASSUME TypeOK, NEW b \in graph.blocks
  PROVE  Transfer(b) \in SUBSET Vars
BY DEF TypeOK, Transfer

LEMMA JoinType ==
  ASSUME TypeOK, NEW b \in graph.blocks, NEW i \in [graph.blocks -> SUBSET Vars]
  PROVE  Join(i, b) \in SUBSET Vars
<1>1. SuccsIn(graph, b) \subseteq graph.blocks
  BY SuccsAreBlocks DEF TypeOK
<1>2. \A s \in SuccsIn(graph, b) : i[s] \subseteq Vars
  BY <1>1
<1>3. out[b] \subseteq Vars
  BY DEF TypeOK
<1> QED
  BY <1>2, <1>3 DEF Join

\* The initial state is typed.
LEMMA TypeInit == Init => TypeOK
BY GraphsAssumption DEF Init, Begin, TypeOK, AllEmpty

\* Every step keeps the types.
LEMMA TypeNext == TypeOK /\ [Next]_vars => TypeOK'
<1> SUFFICES ASSUME TypeOK, [Next]_vars PROVE TypeOK'
  OBVIOUS
<1>1. CASE LvaInit
  BY <1>1 DEF TypeOK, LvaInit, AllEmpty
<1>2. CASE DefUse
  <2>1. PICK b \in todo :
          /\ def' = [def EXCEPT ![b] = Written(graph.ins[b])]
          /\ use' = [use EXCEPT ![b] = ReadFirst(graph.ins[b])]
          /\ todo' = todo \ {b}
    BY <1>2 DEF DefUse
  <2>2. Written(graph.ins[b]) \in SUBSET Vars /\ ReadFirst(graph.ins[b]) \in SUBSET Vars
    BY DEF Written, Defs, ReadFirst
  <2> QED
    BY <1>2, <2>1, <2>2 DEF TypeOK, DefUse
<1>3. CASE StartWalk
  BY <1>3 DEF TypeOK, StartWalk
<1>4. CASE VisitBlock
  <2>1. PICK b \in todo :
          /\ in' = [in EXCEPT ![b] = Transfer(b)]
          /\ changed' = Changes(b, Join(in', b))
          /\ out' = [out EXCEPT ![b] = Join(in', b)]
          /\ todo' = todo \ {b}
    BY <1>4 DEF VisitBlock
  <2>2. b \in graph.blocks
    BY DEF TypeOK
  <2>3. in' \in [graph.blocks -> SUBSET Vars]
    BY <2>1, <2>2, TransferType DEF TypeOK
  <2>4. Join(in', b) \in SUBSET Vars
    BY <2>2, <2>3, JoinType
  <2>5. changed' \in BOOLEAN
    BY <2>1 DEF Changes, TypeOK
  <2> QED
    BY <1>4, <2>1, <2>3, <2>4, <2>5 DEF TypeOK, VisitBlock
<1>5. CASE Finish
  BY <1>5 DEF TypeOK, Finish
<1>6. CASE UNCHANGED vars
  BY <1>6 DEF TypeOK, vars
<1> QED
  BY <1>1, <1>2, <1>3, <1>4, <1>5, <1>6 DEF Next

\* lva's sets are sets of variables throughout.
THEOREM TypeCorrect == Spec => []TypeOK
BY TypeInit, TypeNext, PTL DEF Spec

-----------------------------------------------------------------------------
\* What a visit of b does to the sets, element by element.
Visits(b) ==
  /\ b \in todo /\ b \in graph.blocks
  /\ phase = "walk" /\ phase' = "walk"
  /\ graph' = graph /\ def' = def /\ use' = use
  /\ todo' = todo \ {b}
  /\ \A d \in todo : d <= b
  /\ in'[b] = use[b] \cup (out[b] \ def[b])
  /\ \A d \in graph.blocks \ {b} : in'[d] = in[d] /\ out'[d] = out[d]
  /\ out'[b] = out[b] \cup UNION {in'[s] : s \in SuccsIn(graph, b)}
  /\ changed' <=> changed \/ out'[b] # out[b]

LEMMA VisitEffect == TypeOK /\ VisitBlock => \E b \in todo : Visits(b)
<1> SUFFICES ASSUME TypeOK, VisitBlock PROVE \E b \in todo : Visits(b)
  OBVIOUS
<1>1. PICK b \in todo :
        /\ \A d \in todo : d <= b
        /\ in' = [in EXCEPT ![b] = Transfer(b)]
        /\ changed' = Changes(b, Join(in', b))
        /\ out' = [out EXCEPT ![b] = Join(in', b)]
        /\ todo' = todo \ {b}
  BY DEF VisitBlock
<1>2. /\ b \in graph.blocks
      /\ in \in [graph.blocks -> SUBSET Vars]
      /\ out \in [graph.blocks -> SUBSET Vars]
      /\ changed \in BOOLEAN
  BY DEF TypeOK
<1>3. in'[b] = use[b] \cup (out[b] \ def[b])
  BY <1>1, <1>2 DEF Transfer
<1>4. \A d \in graph.blocks \ {b} : in'[d] = in[d] /\ out'[d] = out[d]
  BY <1>1, <1>2
<1>5. out'[b] = Join(in', b)
  BY <1>1, <1>2
<1>6. Join(in', b) = out[b] \cup UNION {in'[s] : s \in SuccsIn(graph, b)}
  BY DEF Join
<1>7. changed' <=> changed \/ out'[b] # out[b]
  BY <1>1, <1>2, <1>5 DEF Changes
<1>8. phase = "walk" /\ phase' = "walk" /\ graph' = graph /\ def' = def /\ use' = use
  BY DEF VisitBlock
<1>9. Visits(b)
  BY <1>1, <1>2, <1>3, <1>4, <1>5, <1>6, <1>7, <1>8 DEF Visits
<1> QED
  BY <1>9

\* Sets only grow.
LEMMA VisitGrows ==
  ASSUME TypeOK, Justified, NEW b, Visits(b), NEW d \in graph.blocks
  PROVE  in[d] \subseteq in'[d] /\ out[d] \subseteq out'[d]
<1>1. CASE d = b
  BY <1>1 DEF Visits, Justified
<1>2. CASE d # b
  BY <1>2 DEF Visits
<1> QED
  BY <1>1, <1>2

\* Every set is still justified when what it was computed from has grown.
LEMMA VisitJustified ==
  ASSUME TypeOK, Justified, NEW b, Visits(b)
  PROVE  Justified'
<1>1. ASSUME NEW d \in graph.blocks
      PROVE  in'[d] \subseteq use[d] \cup (out'[d] \ def[d])
  <2>1. out[d] \subseteq out'[d]
    BY VisitGrows
  <2>2. in'[d] \subseteq use[d] \cup (out[d] \ def[d])
    <3>1. CASE d = b
      BY <3>1 DEF Visits
    <3>2. CASE d # b
      BY <3>2 DEF Visits, Justified
    <3> QED
      BY <3>1, <3>2
  <2> QED
    BY <2>1, <2>2
<1>2. ASSUME NEW d \in graph.blocks
      PROVE  out'[d] \subseteq UNION {in'[s] : s \in SuccsIn(graph, d)}
  <2>1. SuccsIn(graph, d) \subseteq graph.blocks
    BY SuccsAreBlocks DEF TypeOK
  <2>2. \A s \in SuccsIn(graph, d) : in[s] \subseteq in'[s]
    BY <2>1, VisitGrows
  <2>3. out[d] \subseteq UNION {in[s] : s \in SuccsIn(graph, d)}
    BY DEF Justified
  <2>4. out[d] \subseteq UNION {in'[s] : s \in SuccsIn(graph, d)}
    BY <2>2, <2>3
  <2>5. CASE d = b
    BY <2>4, <2>5 DEF Visits
  <2>6. CASE d # b
    BY <2>4, <2>6 DEF Visits
  <2> QED
    BY <2>5, <2>6
<1>3. graph' = graph /\ use' = use /\ def' = def
  BY DEF Visits
<1> QED
  BY <1>1, <1>2, <1>3 DEF Justified

\* The visited blocks are those from some place of the list on.
LEMMA VisitFromTheLast ==
  ASSUME TypeOK, FromTheLast, NEW b, Visits(b)
  PROVE  FromTheLast'
<1> SUFFICES ASSUME NEW d \in todo', NEW e \in graph.blocks \ todo' PROVE d < e
  BY DEF Visits, FromTheLast
<1>1. d \in todo /\ d # b /\ d <= b /\ d \in Nat /\ b \in Nat
  BY DEF Visits, TypeOK, IsGraph
<1>2. CASE e = b
  BY <1>1, <1>2
<1>3. CASE e # b
  BY <1>1, <1>3 DEF Visits, FromTheLast
<1> QED
  BY <1>2, <1>3

\* If no out set has changed, what a visited block's in set was computed from
\* is still there.
LEMMA VisitInUpToDate ==
  ASSUME TypeOK, InUpToDate, NEW b, Visits(b)
  PROVE  InUpToDate'
<1> SUFFICES ASSUME NEW d \in graph.blocks \ todo', ~ changed'
             PROVE  in'[d] = use[d] \cup (out'[d] \ def[d])
  BY DEF Visits, InUpToDate
<1>1. ~ changed /\ out'[b] = out[b]
  BY DEF Visits
<1>2. CASE d = b
  BY <1>1, <1>2 DEF Visits
<1>3. CASE d # b
  BY <1>1, <1>3 DEF Visits, InUpToDate
<1> QED
  BY <1>2, <1>3

\* The blocks behind b have been visited, and are not again.
LEMMA VisitForwardEdges ==
  ASSUME TypeOK, FromTheLast, ForwardEdges, NEW b, Visits(b)
  PROVE  ForwardEdges'
<1> SUFFICES ASSUME NEW d \in graph.blocks \ todo', NEW s \in SuccsIn(graph, d), s > d
             PROVE  in'[s] \subseteq out'[d]
  BY DEF Visits, ForwardEdges
<1>1. s \in graph.blocks
  BY SuccsAreBlocks DEF TypeOK
<1>2. b \in graph.blocks /\ b \in Nat /\ d \in Nat /\ s \in Nat
  BY <1>1 DEF Visits, TypeOK, IsGraph
<1>3. CASE d = b
  BY <1>3 DEF Visits
<1>4. CASE d # b
  <2>1. d \in graph.blocks \ todo
    BY <1>4 DEF Visits
  <2>2. b < d
    BY <2>1 DEF Visits, FromTheLast
  <2>3. s # b
    BY <1>2, <2>2
  <2>4. in[s] \subseteq out[d]
    BY <2>1 DEF Visits, ForwardEdges
  <2> QED
    BY <1>1, <1>4, <2>3, <2>4 DEF Visits
<1> QED
  BY <1>3, <1>4

\* A pre-header is visited after the header, and takes over its in set.
LEMMA VisitPreHeader ==
  ASSUME TypeOK, Justified, FromTheLast, PreHeaderAgrees, NEW b, Visits(b)
  PROVE  PreHeaderAgrees'
<1> SUFFICES ASSUME NEW s \in graph.blocks, NEW p \in graph.blocks,
                    p < s, SuccsIn(graph, p) = {s}, s \in todo' \/ p \notin todo'
             PROVE  out'[p] = in'[s]
  BY DEF Visits, PreHeaderAgrees, IsPreHeader
<1>1. b \in Nat /\ s \in Nat /\ p \in Nat
  BY DEF Visits, TypeOK, IsGraph
<1>2. CASE p = b
  <2>1. out[p] \subseteq in[s]
    BY DEF Justified
  <2>2. in[s] \subseteq in'[s]
    BY VisitGrows
  <2>3. out'[p] = out[p] \cup in'[s]
    BY <1>2 DEF Visits
  <2> QED
    BY <2>1, <2>2, <2>3
<1>3. CASE p # b
  <2>1. s # b
    <3> SUFFICES ASSUME s = b PROVE FALSE
      OBVIOUS
    <3>1. p \notin todo
      BY <1>3 DEF Visits
    <3>2. b < p
      BY <3>1 DEF Visits, FromTheLast
    <3> QED
      BY <1>1, <3>2
  <2>2. s \in todo \/ p \notin todo
    BY <1>3 DEF Visits
  <2>3. out[p] = in[s]
    BY <2>2 DEF Visits, PreHeaderAgrees, IsPreHeader
  <2> QED
    BY <1>3, <2>1, <2>3 DEF Visits
<1> QED
  BY <1>2, <1>3

\* At a back edge, the pre-header notices what the loop's last block missed.
LEMMA VisitBackEdges ==
  ASSUME TypeOK, Justified, FromTheLast, PreHeaderAgrees, BackEdges, NEW b, Visits(b)
  PROVE  BackEdges'
<1> SUFFICES ASSUME NEW d \in graph.blocks \ todo', NEW s \in SuccsIn(graph, d), s <= d,
                    NEW p \in graph.blocks, p < s, SuccsIn(graph, p) = {s}
             PROVE  /\ s \in todo' => in'[s] \subseteq out'[d]
                    /\ s \notin todo' /\ p \in todo' => out'[p] \subseteq out'[d]
                    /\ s \notin todo' /\ p \notin todo' => changed' \/ in'[s] \subseteq out'[d]
  BY DEF Visits, BackEdges, IsPreHeader
<1>1. s \in graph.blocks
  BY SuccsAreBlocks DEF TypeOK
<1>2. b \in graph.blocks /\ b \in Nat /\ d \in Nat /\ s \in Nat /\ p \in Nat
  BY <1>1 DEF Visits, TypeOK, IsGraph
<1>3. IsPreHeader(p, s)
  BY DEF IsPreHeader
<1>4. in[s] \subseteq in'[s]
  BY <1>1, VisitGrows
<1>5. out[d] \subseteq out'[d]
  BY VisitGrows
<1>6. CASE d = b
  <2>1. in'[s] \subseteq out'[d]
    BY <1>6 DEF Visits
  <2>2. s \in todo /\ p \in todo /\ p # b
    <3>1. b \in todo
      BY DEF Visits
    <3> QED
      BY <1>1, <1>2, <1>6, <3>1 DEF Visits, FromTheLast
  <2>3. out[p] = in[s] /\ out'[p] = out[p]
    BY <1>1, <1>3, <2>2 DEF Visits, PreHeaderAgrees
  <2> QED
    BY <1>4, <2>1, <2>3
<1>7. CASE d # b
  <2>1. d \in graph.blocks \ todo /\ out'[d] = out[d]
    BY <1>7 DEF Visits
  <2>2. /\ s \in todo => in[s] \subseteq out[d]
        /\ s \notin todo /\ p \in todo => out[p] \subseteq out[d]
        /\ s \notin todo /\ p \notin todo => changed \/ in[s] \subseteq out[d]
    BY <1>3, <2>1 DEF Visits, BackEdges
  <2>3. CASE s = b
    <3>1. s \in todo /\ s \notin todo' /\ p # b
      BY <1>2, <2>3 DEF Visits
    <3>2. p \in todo'
      BY <1>2, <2>3, <3>1 DEF Visits, FromTheLast
    <3>3. out'[p] = out[p] /\ out[p] = in[s]
      BY <1>1, <1>3, <3>1 DEF Visits, PreHeaderAgrees
    <3> QED
      BY <2>1, <2>2, <3>1, <3>2, <3>3
  <2>4. CASE p = b
    <3>1. s # b /\ p \notin todo' /\ p \in todo
      BY <1>2, <2>4 DEF Visits
    <3>2. s \notin todo
      BY <1>2, <2>4 DEF Visits
    <3>3. in'[s] = in[s] /\ in'[s] \subseteq out'[p]
      BY <1>1, <2>4, <3>1 DEF Visits
    <3>4. out[p] \subseteq out[d]
      BY <2>2, <3>1, <3>2
    <3>5. changed' \/ out'[p] = out[p]
      BY <2>4 DEF Visits
    <3> QED
      BY <2>1, <3>1, <3>2, <3>3, <3>4, <3>5 DEF Visits
  <2>5. CASE s # b /\ p # b
    <3>1. /\ in'[s] = in[s] /\ out'[p] = out[p]
          /\ s \in todo' <=> s \in todo
          /\ p \in todo' <=> p \in todo
          /\ changed => changed'
      BY <1>1, <2>5 DEF Visits
    <3> QED
      BY <2>1, <2>2, <3>1
  <2> QED
    BY <2>3, <2>4, <2>5
<1> QED
  BY <1>6, <1>7

\* When lva begins.
LEMMA WalkBegin == Begin => WalkInv /\ Fixpoint
<1> SUFFICES ASSUME Begin PROVE WalkInv /\ Fixpoint
  OBVIOUS
<1>1. phase = "init" /\ in = AllEmpty /\ out = AllEmpty
  BY DEF Begin
<1>2. Justified
  BY <1>1 DEF Justified, AllEmpty
<1> QED
  BY <1>1, <1>2 DEF WalkInv, NotStarted, FromTheLast, InUpToDate, ForwardEdges,
                    PreHeaderAgrees, BackEdges, Fixpoint

\* A walk that ends without a change has solved the equations.
LEMMA FinishSolves ==
  ASSUME TypeOK, WalkInv, Finish
  PROVE  Fixpoint'
<1>1. /\ phase = "walk" /\ todo = {} /\ ~ changed
      /\ graph' = graph /\ def' = def /\ use' = use /\ in' = in /\ out' = out
  BY DEF Finish
<1> SUFFICES ASSUME NEW b \in graph.blocks
             PROVE  /\ in[b] = use[b] \cup (out[b] \ def[b])
                    /\ out[b] = UNION {in[s] : s \in SuccsIn(graph, b)}
  BY <1>1 DEF Fixpoint
<1>2. in[b] = use[b] \cup (out[b] \ def[b])
  BY <1>1 DEF WalkInv, InUpToDate
<1>3. out[b] \subseteq UNION {in[s] : s \in SuccsIn(graph, b)}
  BY DEF WalkInv, Justified
<1>4. ASSUME NEW s \in SuccsIn(graph, b)
      PROVE  in[s] \subseteq out[b]
  <2>1. s \in graph.blocks
    BY SuccsAreBlocks DEF TypeOK
  <2>2. s \in Nat /\ b \in Nat
    BY <2>1 DEF TypeOK, IsGraph
  <2>3. CASE s > b
    BY <1>1, <2>3 DEF WalkInv, ForwardEdges
  <2>4. CASE s <= b
    <3>1. PICK p \in graph.blocks : p < s /\ SuccsIn(graph, p) = {s}
      BY <2>4 DEF TypeOK, PreHeaders
    <3>2. IsPreHeader(p, s)
      BY <3>1 DEF IsPreHeader
    <3> QED
      BY <1>1, <2>4, <3>2 DEF WalkInv, BackEdges
  <2> QED
    BY <2>2, <2>3, <2>4
<1> QED
  BY <1>2, <1>3, <1>4

\* Every step keeps the invariant of the walk.
LEMMA WalkNext == TypeOK /\ WalkInv /\ Fixpoint /\ [Next]_vars => WalkInv' /\ Fixpoint'
<1> SUFFICES ASSUME TypeOK, WalkInv, Fixpoint, [Next]_vars PROVE WalkInv' /\ Fixpoint'
  OBVIOUS
<1>1. CASE LvaInit
  <2>1. phase' = "defuse" /\ in' = AllEmpty /\ out' = AllEmpty /\ graph' = graph
    BY <1>1 DEF LvaInit
  <2>2. Justified' /\ NotStarted'
    BY <2>1 DEF Justified, NotStarted, AllEmpty
  <2> QED
    BY <2>1, <2>2 DEF WalkInv, FromTheLast, InUpToDate, ForwardEdges, PreHeaderAgrees,
                      BackEdges, Fixpoint
<1>2. CASE DefUse
  <2>1. phase = "defuse" /\ phase' = "defuse" /\ in' = in /\ out' = out /\ graph' = graph
    BY <1>2 DEF DefUse
  <2>2. in = AllEmpty /\ out = AllEmpty
    BY <2>1 DEF WalkInv, NotStarted
  <2>3. Justified' /\ NotStarted'
    BY <2>1, <2>2 DEF Justified, NotStarted, AllEmpty
  <2> QED
    BY <2>1, <2>3 DEF WalkInv, FromTheLast, InUpToDate, ForwardEdges, PreHeaderAgrees,
                      BackEdges, Fixpoint
<1>3. CASE StartWalk
  <2>1. /\ phase \in {"defuse", "walk"} /\ phase' = "walk"
        /\ todo = {} /\ todo' = graph.blocks
        /\ graph' = graph /\ def' = def /\ use' = use /\ in' = in /\ out' = out
    BY <1>3 DEF StartWalk
  <2>2. Justified' /\ NotStarted'
    BY <2>1 DEF WalkInv, Justified, NotStarted
  <2>3. FromTheLast' /\ InUpToDate' /\ ForwardEdges' /\ BackEdges' /\ Fixpoint'
    BY <2>1 DEF FromTheLast, InUpToDate, ForwardEdges, BackEdges, Fixpoint
  <2>4. \A s \in graph.blocks : \A p \in graph.blocks : IsPreHeader(p, s) => out[p] = in[s]
    <3>1. CASE phase = "walk"
      BY <2>1, <3>1 DEF WalkInv, PreHeaderAgrees
    <3>2. CASE phase = "defuse"
      BY <3>2 DEF WalkInv, NotStarted, AllEmpty
    <3> QED
      BY <2>1, <3>1, <3>2
  <2>5. PreHeaderAgrees'
    BY <2>1, <2>4 DEF PreHeaderAgrees, IsPreHeader
  <2> QED
    BY <2>2, <2>3, <2>5 DEF WalkInv
<1>4. CASE VisitBlock
  <2>1. PICK b \in todo : Visits(b)
    BY <1>4, VisitEffect
  <2>2. Justified' /\ FromTheLast' /\ InUpToDate'
    BY <2>1, VisitJustified, VisitFromTheLast, VisitInUpToDate DEF WalkInv
  <2>3. ForwardEdges' /\ PreHeaderAgrees' /\ BackEdges'
    BY <2>1, VisitForwardEdges, VisitPreHeader, VisitBackEdges DEF WalkInv
  <2>4. NotStarted' /\ Fixpoint'
    BY <2>1 DEF Visits, NotStarted, Fixpoint
  <2> QED
    BY <2>2, <2>3, <2>4 DEF WalkInv
<1>5. CASE Finish
  <2>1. Fixpoint'
    BY <1>5, FinishSolves
  <2>2. /\ phase' = "done"
        /\ graph' = graph /\ def' = def /\ use' = use /\ in' = in /\ out' = out
    BY <1>5 DEF Finish
  <2>3. Justified'
    BY <2>2 DEF WalkInv, Justified
  <2> QED
    BY <2>1, <2>2, <2>3 DEF WalkInv, NotStarted, FromTheLast, InUpToDate, ForwardEdges,
                            PreHeaderAgrees, BackEdges
<1>6. CASE UNCHANGED vars
  <2>1. /\ graph' = graph /\ phase' = phase /\ todo' = todo /\ def' = def /\ use' = use
        /\ in' = in /\ out' = out /\ changed' = changed
    BY <1>6 DEF vars
  <2>2. Justified' /\ NotStarted' /\ FromTheLast' /\ InUpToDate'
    BY <2>1 DEF WalkInv, Justified, NotStarted, AllEmpty, FromTheLast, InUpToDate
  <2>3. ForwardEdges' /\ PreHeaderAgrees' /\ BackEdges'
    BY <2>1 DEF WalkInv, ForwardEdges, PreHeaderAgrees, BackEdges, IsPreHeader
  <2>4. Fixpoint'
    BY <2>1 DEF Fixpoint
  <2> QED
    BY <2>2, <2>3, <2>4 DEF WalkInv
<1> QED
  BY <1>1, <1>2, <1>3, <1>4, <1>5, <1>6 DEF Next

\* When lva returns, its sets solve the equations of liveness, around loops
\* too, though it stops on a test of the out sets alone.
THEOREM FixpointAlways == Spec => []Fixpoint
<1>1. Init => TypeOK /\ WalkInv /\ Fixpoint
  BY TypeInit, WalkBegin DEF Init
<1>2. TypeOK /\ WalkInv /\ Fixpoint /\ [Next]_vars => (TypeOK /\ WalkInv /\ Fixpoint)'
  BY TypeNext, WalkNext
<1> QED
  BY <1>1, <1>2, PTL DEF Spec

-----------------------------------------------------------------------------
\* A visit stays below a solution.
LEMMA VisitBelow ==
  ASSUME TypeOK, NEW X, NEW Y, Solution(X, Y), NEW b, Visits(b),
         \A d \in graph.blocks : in[d] \subseteq X[d] /\ out[d] \subseteq Y[d]
  PROVE  \A d \in graph.blocks : in'[d] \subseteq X[d] /\ out'[d] \subseteq Y[d]
<1>1. b \in graph.blocks
  BY DEF Visits
<1>2. in'[b] \subseteq X[b]
  <2>1. use[b] \cup (Y[b] \ def[b]) \subseteq X[b]
    BY <1>1 DEF Solution
  <2>2. out[b] \subseteq Y[b]
    BY <1>1
  <2>3. in'[b] = use[b] \cup (out[b] \ def[b])
    BY DEF Visits
  <2> QED
    BY <2>1, <2>2, <2>3
<1>3. \A d \in graph.blocks : in'[d] \subseteq X[d]
  BY <1>2 DEF Visits
<1>4. out'[b] \subseteq Y[b]
  <2>1. \A s \in SuccsIn(graph, b) : in'[s] \subseteq X[s]
    BY <1>1, <1>3, SuccsAreBlocks DEF TypeOK
  <2>2. UNION {X[s] : s \in SuccsIn(graph, b)} \subseteq Y[b]
    BY <1>1 DEF Solution
  <2>3. out'[b] = out[b] \cup UNION {in'[s] : s \in SuccsIn(graph, b)}
    BY DEF Visits
  <2>4. out[b] \subseteq Y[b]
    BY <1>1
  <2> QED
    BY <2>1, <2>2, <2>3, <2>4
<1> QED
  BY <1>3, <1>4 DEF Visits

\* Every step stays below every solution.
LEMMA BelowNext ==
  TypeOK /\ NotStarted /\ BelowSolutions /\ [Next]_vars => BelowSolutions'
<1> SUFFICES ASSUME TypeOK, NotStarted, BelowSolutions, [Next]_vars PROVE BelowSolutions'
  OBVIOUS
<1>1. CASE LvaInit \/ DefUse
  <2>1. in' = AllEmpty /\ out' = AllEmpty /\ graph' = graph
    BY <1>1 DEF LvaInit, DefUse, NotStarted
  <2> QED
    BY <2>1 DEF BelowSolutions, AllEmpty
<1>2. CASE StartWalk \/ Finish \/ UNCHANGED vars
  <2>1. graph' = graph /\ def' = def /\ use' = use /\ in' = in /\ out' = out
    BY <1>2 DEF StartWalk, Finish, vars
  <2> QED
    BY <2>1 DEF BelowSolutions, Solution
<1>3. CASE VisitBlock
  <2>1. PICK b \in todo : Visits(b)
    BY <1>3, VisitEffect
  <2>2. graph' = graph /\ def' = def /\ use' = use
    BY <2>1 DEF Visits
  <2> SUFFICES ASSUME NEW X \in [graph.blocks -> SUBSET Vars],
                      NEW Y \in [graph.blocks -> SUBSET Vars], Solution(X, Y)
               PROVE  \A d \in graph.blocks : in'[d] \subseteq X[d] /\ out'[d] \subseteq Y[d]
    BY <2>2 DEF BelowSolutions, Solution
  <2>3. \A d \in graph.blocks : in[d] \subseteq X[d] /\ out[d] \subseteq Y[d]
    BY DEF BelowSolutions
  <2> QED
    BY <2>1, <2>3, VisitBelow
<1> QED
  BY <1>1, <1>2, <1>3 DEF Next

\* Whatever sets solve the equations, lva's are contained in them: it takes no
\* variable for live that need not be.  With FixpointAlways, its result is the
\* least solution.
THEOREM BelowSolutionsAlways == Spec => []BelowSolutions
<1>1. Init => TypeOK /\ WalkInv /\ Fixpoint /\ BelowSolutions
  <2>1. Init => BelowSolutions
    BY DEF Init, Begin, BelowSolutions, AllEmpty
  <2> QED
    BY <2>1, TypeInit, WalkBegin DEF Init
<1>2. TypeOK /\ WalkInv /\ Fixpoint /\ BelowSolutions /\ [Next]_vars
        => (TypeOK /\ WalkInv /\ Fixpoint /\ BelowSolutions)'
  BY TypeNext, WalkNext, BelowNext DEF WalkInv
<1> QED
  BY <1>1, <1>2, PTL DEF Spec

-----------------------------------------------------------------------------
(* The points of a graph, and what is live there. *)

LEMMA PointsFinite ==
  ASSUME NEW g, IsGraph(g)
  PROVE  IsFiniteSet(Points(g))
<1> DEFINE F == [b \in g.blocks |-> {b} \X (1 .. Len(g.ins[b]) + 1)]
           T == {{b} \X (1 .. Len(g.ins[b]) + 1) : b \in g.blocks}
<1>1. F \in Surjection(g.blocks, T) BY DEF Surjection
<1>2. IsFiniteSet(g.blocks) BY DEF IsGraph
<1>3. IsFiniteSet(T)
  <2> HIDE DEF F, T
  <2> QED BY <1>1, <1>2, FS_Surjection
<1>4. ASSUME NEW S \in T PROVE IsFiniteSet(S)
  <2>1. PICK b \in g.blocks : S = {b} \X (1 .. Len(g.ins[b]) + 1) OBVIOUS
  <2>2. Len(g.ins[b]) \in Nat BY DEF IsGraph
  <2>3. IsFiniteSet(1 .. Len(g.ins[b]) + 1) BY <2>2, FS_Interval
  <2>4. IsFiniteSet({b}) BY FS_Singleton
  <2> QED BY <2>1, <2>3, <2>4, FS_Product
<1>5. Points(g) = UNION T BY DEF Points
<1> QED
  <2> HIDE DEF T
  <2> QED BY <1>3, <1>4, <1>5, FS_UNION

\* The flow graph of points that LiveAtPoints takes LiveIn of.
AtEnd(g, p) == p[2] = Len(g.ins[p[1]]) + 1
SuccP(g) == [p \in Points(g) |-> IF AtEnd(g, p) THEN {<<s, 1>> : s \in SuccsIn(g, p[1])}
                                               ELSE {<<p[1], p[2] + 1>>}]
UseP(g) == [p \in Points(g) |-> IF AtEnd(g, p) THEN {} ELSE Uses(g.ins[p[1]][p[2]])]
DefP(g) == [p \in Points(g) |-> IF AtEnd(g, p) THEN {} ELSE Defs(g.ins[p[1]][p[2]])]

LEMMA LivePoints ==
  ASSUME NEW g
  PROVE  LiveAtPoints(g) = LiveIn(Points(g), SuccP(g), UseP(g), DefP(g))
BY DEF LiveAtPoints, SuccP, UseP, DefP, AtEnd

\* From a point, over an instruction, to the point behind it.
Passes(g, p, q, instr) ==
    /\ p \in Points(g) /\ q \in Points(g)
    /\ SuccP(g)[p] = {q}
    /\ UseP(g)[p] = Uses(instr)
    /\ DefP(g)[p] = Defs(instr)

LEMMA PointInside ==
  ASSUME NEW g, IsGraph(g), NEW b \in g.blocks, NEW i \in 1 .. Len(g.ins[b])
  PROVE  Passes(g, <<b, i>>, <<b, i + 1>>, g.ins[b][i])
<1> DEFINE p == <<b, i>>
<1>1. Len(g.ins[b]) \in Nat BY DEF IsGraph
<1>2. p \in {b} \X (1 .. Len(g.ins[b]) + 1) /\ <<b, i + 1>> \in {b} \X (1 .. Len(g.ins[b]) + 1)
  BY <1>1
<1>3. p \in Points(g) /\ <<b, i + 1>> \in Points(g) BY <1>2, Zenon DEF Points
<1>4. ~ AtEnd(g, p) /\ p[1] = b /\ p[2] = i BY <1>1 DEF AtEnd
<1> HIDE DEF p
<1>5. /\ SuccP(g)[p] = {<<p[1], p[2] + 1>>}
      /\ UseP(g)[p] = Uses(g.ins[p[1]][p[2]])
      /\ DefP(g)[p] = Defs(g.ins[p[1]][p[2]])
  BY <1>3, <1>4 DEF SuccP, UseP, DefP
<1>6. Passes(g, p, <<b, i + 1>>, g.ins[b][i]) BY <1>3, <1>4, <1>5 DEF Passes
<1> QED BY <1>6 DEF p

\* and the one at the end of the block.
LEMMA PointsAre ==
  ASSUME NEW g, IsGraph(g), NEW b \in g.blocks
  PROVE  /\ g.ins[b] \in Seq(Instrs) /\ Len(g.ins[b]) \in Nat
         /\ \A i \in 1 .. Len(g.ins[b]) + 1 : <<b, i>> \in Points(g)
         /\ SuccP(g)[<<b, Len(g.ins[b]) + 1>>] = {<<s, 1>> : s \in SuccsIn(g, b)}
         /\ UseP(g)[<<b, Len(g.ins[b]) + 1>>] = {}
         /\ DefP(g)[<<b, Len(g.ins[b]) + 1>>] = {}
<1>1. g.ins[b] \in Seq(Instrs) /\ Len(g.ins[b]) \in Nat BY DEF IsGraph
<1>2. \A i \in 1 .. Len(g.ins[b]) + 1 : <<b, i>> \in Points(g)
  <2> SUFFICES ASSUME NEW i \in 1 .. Len(g.ins[b]) + 1 PROVE <<b, i>> \in Points(g) OBVIOUS
  <2>1. <<b, i>> \in {b} \X (1 .. Len(g.ins[b]) + 1) OBVIOUS
  <2> QED BY <2>1, Zenon DEF Points
<1>4. /\ SuccP(g)[<<b, Len(g.ins[b]) + 1>>] = {<<s, 1>> : s \in SuccsIn(g, b)}
      /\ UseP(g)[<<b, Len(g.ins[b]) + 1>>] = {} /\ DefP(g)[<<b, Len(g.ins[b]) + 1>>] = {}
  <2> DEFINE p == <<b, Len(g.ins[b]) + 1>>
  <2>1. p \in Points(g) BY <1>1, <1>2
  <2>2. AtEnd(g, p) /\ p[1] = b BY DEF AtEnd
  <2> HIDE DEF p
  <2>3. SuccP(g)[p] = {<<s, 1>> : s \in SuccsIn(g, p[1])} /\ UseP(g)[p] = {} /\ DefP(g)[p] = {}
    BY <2>1, <2>2 DEF SuccP, UseP, DefP
  <2> QED BY <2>2, <2>3 DEF p
<1> QED BY <1>1, <1>2, <1>4

\* What is live at a point, from what is live at the points behind it.
LEMMA LiveAt ==
  ASSUME NEW g, IsGraph(g), NEW b \in g.blocks, NEW v \in Vars
  PROVE  /\ \A i \in 1 .. Len(g.ins[b]) :
              v \in LiveAtPoints(g)[<<b, i>>] <=>
                \/ v \in Uses(g.ins[b][i])
                \/ (v \notin Defs(g.ins[b][i]) /\ v \in LiveAtPoints(g)[<<b, i + 1>>])
         /\ v \in LiveAtPoints(g)[<<b, Len(g.ins[b]) + 1>>] <=>
              \E s \in SuccsIn(g, b) : v \in LiveAtPoints(g)[<<s, 1>>]
<1> DEFINE P == Points(g)
           live == LiveAtPoints(g)
<1>1. IsFiniteSet(P) BY PointsFinite
<1>2. ASSUME NEW p \in P
      PROVE  v \in live[p] <=> \/ v \in UseP(g)[p]
                               \/ (v \notin DefP(g)[p] /\ \E s \in SuccP(g)[p] \cap P : v \in live[s])
  <2> HIDE DEF P
  <2> QED BY <1>1, <1>2, LivePoints, LiveSolves DEF P
<1>3. ASSUME NEW i \in 1 .. Len(g.ins[b])
      PROVE  v \in live[<<b, i>>] <=>
                \/ v \in Uses(g.ins[b][i])
                \/ (v \notin Defs(g.ins[b][i]) /\ v \in live[<<b, i + 1>>])
  <2> DEFINE p == <<b, i>>
             q == <<b, i + 1>>
  <2>1. /\ p \in P /\ q \in P
        /\ SuccP(g)[p] = {q}
        /\ UseP(g)[p] = Uses(g.ins[b][i]) /\ DefP(g)[p] = Defs(g.ins[b][i])
    <3>1. Passes(g, p, q, g.ins[b][i]) BY PointInside
    <3> HIDE DEF live, p, q
    <3> QED BY <3>1 DEF Passes
  <2> HIDE DEF P, live, p, q
  <2>2. SuccP(g)[p] \cap P = {q} BY <2>1
  <2>3. v \in live[p] <=> \/ v \in UseP(g)[p]
                         \/ (v \notin DefP(g)[p] /\ \E s \in {q} : v \in live[s])
    BY <1>2, <2>1, <2>2
  <2> QED BY <2>1, <2>3 DEF p, q
<1>4. v \in live[<<b, Len(g.ins[b]) + 1>>] <=> \E s \in SuccsIn(g, b) : v \in live[<<s, 1>>]
  <2> DEFINE p == <<b, Len(g.ins[b]) + 1>>
  <2>1. p \in P BY PointsAre
  <2>2. \A s \in SuccsIn(g, b) : <<s, 1>> \in P
    <3> SUFFICES ASSUME NEW s \in SuccsIn(g, b) PROVE <<s, 1>> \in P OBVIOUS
    <3>1. s \in g.blocks BY SuccsAreBlocks
    <3>2. Len(g.ins[s]) \in Nat BY <3>1, PointsAre
    <3>3. 1 \in 1 .. Len(g.ins[s]) + 1 BY <3>2
    <3> QED BY <3>1, <3>3, PointsAre
  <2>3. SuccP(g)[p] = {<<s, 1>> : s \in SuccsIn(g, b)} /\ UseP(g)[p] = {} /\ DefP(g)[p] = {}
    BY PointsAre
  <2> HIDE DEF P, live, p
  <2>4. v \in live[p] <=> \E s \in SuccP(g)[p] \cap P : v \in live[s] BY <1>2, <2>1, <2>3
  <2> QED BY <2>2, <2>3, <2>4 DEF p
<1> QED BY <1>3, <1>4

\* What holds the variables read at a point, and those it must have for the points
\* behind, has all that are live.
LEMMA PointsBelow ==
  ASSUME NEW g, IsGraph(g), NEW X,
         \A b \in g.blocks : \A i \in 1 .. Len(g.ins[b]) : \A v \in Vars :
           \/ v \in Uses(g.ins[b][i])
           \/ v \notin Defs(g.ins[b][i]) /\ v \in X[<<b, i + 1>>]
           => v \in X[<<b, i>>],
         \A b \in g.blocks : \A v \in Vars : \A t \in SuccsIn(g, b) :
           v \in X[<<t, 1>>] => v \in X[<<b, Len(g.ins[b]) + 1>>]
  PROVE  \A p \in Points(g) : LiveAtPoints(g)[p] \subseteq X[p] /\ LiveAtPoints(g)[p] \subseteq Vars
<1> DEFINE P == Points(g)
<1>1. ASSUME NEW p \in P, NEW v \in Vars,
             \/ v \in UseP(g)[p]
             \/ v \notin DefP(g)[p] /\ \E q \in SuccP(g)[p] \cap P : v \in X[q]
      PROVE  v \in X[p]
  <2>1. PICK b \in g.blocks : \E i \in 1 .. Len(g.ins[b]) + 1 : p = <<b, i>>
    BY DEF Points
  <2>2. PICK i \in 1 .. Len(g.ins[b]) + 1 : p = <<b, i>> BY <2>1
  <2>3. Len(g.ins[b]) \in Nat BY PointsAre
  <2> HIDE DEF P
  <2>4. CASE i = Len(g.ins[b]) + 1
    <3>1. UseP(g)[p] = {} /\ SuccP(g)[p] = {<<t, 1>> : t \in SuccsIn(g, b)}
      BY <2>2, <2>4, PointsAre
    <3>2. PICK q \in SuccP(g)[p] : v \in X[q] BY <3>1, <1>1
    <3>3. PICK t \in SuccsIn(g, b) : q = <<t, 1>> BY <3>1
    <3> QED BY <2>2, <2>4, <3>2, <3>3
  <2>5. CASE i # Len(g.ins[b]) + 1
    <3>1. i \in 1 .. Len(g.ins[b]) BY <2>3, <2>5
    <3>2. Passes(g, p, <<b, i + 1>>, g.ins[b][i]) BY <2>2, <3>1, PointInside
    <3>3. \/ v \in Uses(g.ins[b][i])
          \/ v \notin Defs(g.ins[b][i]) /\ v \in X[<<b, i + 1>>]
      BY <3>2, <1>1 DEF Passes
    <3> QED BY <2>2, <3>1, <3>3
  <2> QED BY <2>4, <2>5
<1>2. LiveAtPoints(g) = LiveIn(P, SuccP(g), UseP(g), DefP(g)) BY LivePoints
<1>3. IsFiniteSet(P) BY PointsFinite
<1> SUFFICES ASSUME NEW p \in P
             PROVE  LiveAtPoints(g)[p] \subseteq X[p] /\ LiveAtPoints(g)[p] \subseteq Vars
  OBVIOUS
<1> HIDE DEF P
<1>4. LiveIn(P, SuccP(g), UseP(g), DefP(g))[p] \subseteq X[p] BY <1>1, <1>3, LiveBelow
<1>5. LiveIn(P, SuccP(g), UseP(g), DefP(g))[p] \subseteq Vars BY DEF LiveIn
<1> QED BY <1>2, <1>4, <1>5

\* A variable live behind instructions that do not write it is live in front of them.
LEMMA LiveBack ==
  ASSUME NEW g, IsGraph(g), NEW b \in g.blocks, NEW v \in Vars,
         NEW i \in 1 .. Len(g.ins[b]) + 1, v \in LiveAtPoints(g)[<<b, i>>],
         \A j \in 1 .. i - 1 : v \notin Defs(g.ins[b][j])
  PROVE  v \in LiveAtPoints(g)[<<b, 1>>]
<1> DEFINE live == LiveAtPoints(g)
           T == {j \in 1 .. i : v \in live[<<b, j>>]}
<1>1. Len(g.ins[b]) \in Nat BY PointsAre
<1>2. PICK j \in T : \A k \in T : j <= k
  <2>1. T \subseteq Nat /\ i \in T BY <1>1
  <2> HIDE DEF T
  <2> QED BY <2>1, Least
<1>3. CASE j = 1 BY <1>2, <1>3
<1>4. CASE j # 1
  <2>1. j - 1 \in 1 .. i /\ j - 1 \in 1 .. i - 1 /\ j - 1 \in 1 .. Len(g.ins[b]) /\ j - 1 + 1 = j
    BY <1>1, <1>2, <1>4
  <2>2. v \in live[<<b, j - 1>>] BY <1>2, <2>1, LiveAt
  <2>3. j - 1 \in T BY <2>1, <2>2
  <2> QED BY <1>1, <1>2, <2>1, <2>3
<1> QED BY <1>3, <1>4

-----------------------------------------------------------------------------
(* lva's sets and what is live. *)

\* DefUseKnown is kept by every step.
LEMMA DefUseNext ==
  TypeOK /\ DefUseKnown /\ [Next]_vars => DefUseKnown'
<1> SUFFICES ASSUME TypeOK, DefUseKnown, [Next]_vars PROVE DefUseKnown'
  OBVIOUS
<1>1. CASE LvaInit BY <1>1 DEF LvaInit, DefUseKnown
<1>2. CASE DefUse
  <2>1. PICK b \in todo :
          /\ def' = [def EXCEPT ![b] = Written(graph.ins[b])]
          /\ use' = [use EXCEPT ![b] = ReadFirst(graph.ins[b])]
          /\ todo' = todo \ {b}
    BY <1>2 DEF DefUse
  <2>2. phase = "defuse" /\ phase' = "defuse" /\ graph' = graph BY <1>2 DEF DefUse
  <2>3. b \in graph.blocks BY DEF TypeOK
  <2>4. /\ def'[b] = Written(graph.ins[b]) /\ use'[b] = ReadFirst(graph.ins[b])
        /\ \A d \in graph.blocks \ {b} : def'[d] = def[d] /\ use'[d] = use[d]
    BY <2>1, <2>3 DEF TypeOK
  <2>5. \A d \in graph.blocks \ todo :
          def[d] = Written(graph.ins[d]) /\ use[d] = ReadFirst(graph.ins[d])
    BY <2>2 DEF DefUseKnown
  <2> QED BY <2>1, <2>2, <2>4, <2>5 DEF DefUseKnown
<1>3. CASE StartWalk
  <2>1. /\ phase \in {"defuse", "walk"} /\ phase' = "walk" /\ todo = {}
        /\ graph' = graph /\ def' = def /\ use' = use
    BY <1>3 DEF StartWalk
  <2> QED BY <2>1 DEF DefUseKnown
<1>4. CASE VisitBlock
  <2>1. /\ phase = "walk" /\ phase' = phase /\ graph' = graph /\ def' = def /\ use' = use
    BY <1>4 DEF VisitBlock
  <2> QED BY <2>1 DEF DefUseKnown
<1>5. CASE Finish
  <2>1. /\ phase = "walk" /\ phase' = "done" /\ graph' = graph /\ def' = def /\ use' = use
    BY <1>5 DEF Finish
  <2> QED BY <2>1 DEF DefUseKnown
<1>6. CASE UNCHANGED vars
  <2>1. phase' = phase /\ todo' = todo /\ graph' = graph /\ def' = def /\ use' = use
    BY <1>6 DEF vars
  <2> QED BY <2>1 DEF DefUseKnown
<1> QED BY <1>1, <1>2, <1>3, <1>4, <1>5, <1>6 DEF Next

\* What is live at the blocks' begins and ends solves lva's equations,
LEMMA LiveIsSolution ==
  ASSUME TypeOK, \A b \in graph.blocks : def[b] = Written(graph.ins[b]) /\ use[b] = ReadFirst(graph.ins[b]),
         NEW live, live = LiveAtPoints(graph)
  PROVE  LET X == [b \in graph.blocks |-> Vars \cap live[<<b, 1>>]]
             Y == [b \in graph.blocks |-> Vars \cap live[<<b, Len(graph.ins[b]) + 1>>]]
         IN  Solution(X, Y)
<1> DEFINE X == [b \in graph.blocks |-> Vars \cap live[<<b, 1>>]]
           Y == [b \in graph.blocks |-> Vars \cap live[<<b, Len(graph.ins[b]) + 1>>]]
<1>1. IsGraph(graph) BY DEF TypeOK
<1>2. ASSUME NEW b \in graph.blocks, NEW v \in use[b] PROVE v \in X[b]
  <2>1. v \in Vars /\ \E i \in DOMAIN graph.ins[b] :
          v \in Uses(graph.ins[b][i]) /\ \A j \in 1 .. i - 1 : v \notin Defs(graph.ins[b][j])
    BY <1>2 DEF ReadFirst
  <2>2. graph.ins[b] \in Seq(Instrs) /\ Len(graph.ins[b]) \in Nat BY <1>1, PointsAre
  <2>3. PICK i \in 1 .. Len(graph.ins[b]) :
          v \in Uses(graph.ins[b][i]) /\ \A j \in 1 .. i - 1 : v \notin Defs(graph.ins[b][j])
    BY <2>1, <2>2
  <2>4. i \in 1 .. Len(graph.ins[b]) + 1 BY <2>2
  <2>5. v \in live[<<b, i>>] BY <1>1, <2>1, <2>3, LiveAt
  <2>6. v \in live[<<b, 1>>] BY <1>1, <2>1, <2>3, <2>4, <2>5, LiveBack
  <2> QED BY <2>1, <2>6
<1>3. ASSUME NEW b \in graph.blocks, NEW v \in Y[b] \ def[b] PROVE v \in X[b]
  <2>1. v \in Vars /\ v \in live[<<b, Len(graph.ins[b]) + 1>>] BY <1>3
  <2>2. graph.ins[b] \in Seq(Instrs) /\ Len(graph.ins[b]) \in Nat BY <1>1, PointsAre
  <2>3. \A j \in 1 .. Len(graph.ins[b]) + 1 - 1 : v \notin Defs(graph.ins[b][j])
    <3>1. v \notin Written(graph.ins[b]) BY <1>3
    <3> QED BY <3>1, <2>2 DEF Written
  <2> DEFINE e == Len(graph.ins[b]) + 1
  <2>4. e \in 1 .. Len(graph.ins[b]) + 1 BY <2>2
  <2>5. v \in live[<<b, e>>] /\ \A j \in 1 .. e - 1 : v \notin Defs(graph.ins[b][j])
    BY <2>1, <2>3
  <2>6. v \in live[<<b, 1>>]
    <3> HIDE DEF e, X, Y
    <3> QED BY <1>1, <2>1, <2>4, <2>5, LiveBack
  <2> QED BY <2>1, <2>6
<1>4. ASSUME NEW b \in graph.blocks, NEW s \in SuccsIn(graph, b), NEW v \in X[s] PROVE v \in Y[b]
  <2>1. s \in graph.blocks BY <1>1, SuccsAreBlocks
  <2>2. v \in Vars /\ v \in live[<<s, 1>>] BY <2>1
  <2>3. v \in live[<<b, Len(graph.ins[b]) + 1>>] BY <1>1, <2>2, LiveAt
  <2> QED BY <2>2, <2>3
<1>5. Solution(X, Y)
  <2> HIDE DEF X, Y
  <2> QED BY <1>2, <1>3, <1>4 DEF Solution
<1> QED BY <1>5

LEMMA BelowLive ==
  ASSUME TypeOK, DefUseKnown, BelowSolutions
  PROVE  NeverTooLive
<1> SUFFICES ASSUME phase \in {"walk", "done"}, NEW b \in graph.blocks,
                    NEW live, live = LiveAtPoints(graph)
             PROVE  /\ in[b] \subseteq live[<<b, 1>>]
                    /\ out[b] \subseteq live[<<b, Len(graph.ins[b]) + 1>>]
  BY DEF NeverTooLive
<1> DEFINE X == [d \in graph.blocks |-> Vars \cap live[<<d, 1>>]]
           Y == [d \in graph.blocks |-> Vars \cap live[<<d, Len(graph.ins[d]) + 1>>]]
<1>1. \A d \in graph.blocks : def[d] = Written(graph.ins[d]) /\ use[d] = ReadFirst(graph.ins[d])
  BY DEF DefUseKnown
<1>2. Solution(X, Y) BY <1>1, LiveIsSolution
<1>3. X \in [graph.blocks -> SUBSET Vars] /\ Y \in [graph.blocks -> SUBSET Vars] OBVIOUS
<1>4. in[b] \subseteq X[b] /\ out[b] \subseteq Y[b]
  <2> HIDE DEF X, Y
  <2> QED BY <1>2, <1>3 DEF BelowSolutions
<1> QED BY <1>4

\* and what lva's sets say of the points inside the blocks covers what is live.
LEMMA FixpointFindsAll ==
  ASSUME TypeOK, DefUseKnown, Fixpoint
  PROVE  AllLiveFound
<1> SUFFICES ASSUME phase = "done", NEW b \in graph.blocks,
                    NEW live, live = LiveAtPoints(graph)
             PROVE  /\ live[<<b, 1>>] \subseteq in[b]
                    /\ live[<<b, Len(graph.ins[b]) + 1>>] \subseteq out[b]
  BY DEF AllLiveFound
<1> DEFINE s(d) == graph.ins[d]
           P == Points(graph)
           Read(d, i, v) == \E j \in i .. Len(s(d)) : /\ v \in Uses(s(d)[j])
                                                      /\ \A m \in i .. j - 1 : v \notin Defs(s(d)[m])
           Kept(d, i, v) == v \in out[d] /\ \A m \in i .. Len(s(d)) : v \notin Defs(s(d)[m])
           Z == [p \in P |-> {v \in Vars : Read(p[1], p[2], v) \/ Kept(p[1], p[2], v)}]
<1>1. IsGraph(graph) /\ IsFiniteSet(P) BY PointsFinite DEF TypeOK
<1>2. \A d \in graph.blocks : def[d] = Written(s(d)) /\ use[d] = ReadFirst(s(d))
  BY DEF DefUseKnown
<1>3. \A d \in graph.blocks : /\ in[d] = use[d] \cup (out[d] \ def[d])
                              /\ out[d] = UNION {in[t] : t \in SuccsIn(graph, d)}
  BY DEF Fixpoint
<1>4. ASSUME NEW d \in graph.blocks
      PROVE  s(d) \in Seq(Instrs) /\ Len(s(d)) \in Nat /\ DOMAIN s(d) = 1 .. Len(s(d))
  <2>1. s(d) \in Seq(Instrs) BY <1>1, PointsAre
  <2> HIDE DEF s
  <2> QED BY <2>1
<1>5. \A d \in graph.blocks : in[d] \subseteq Vars /\ out[d] \subseteq Vars BY DEF TypeOK
<1>6. ASSUME NEW d \in graph.blocks, NEW i \in 1 .. Len(s(d)) + 1
      PROVE  /\ <<d, i>> \in P
             /\ \A v \in Vars : v \in Z[<<d, i>>] <=> Read(d, i, v) \/ Kept(d, i, v)
  <2>1. <<d, i>> \in P BY <1>1, PointsAre
  <2>2. <<d, i>>[1] = d /\ <<d, i>>[2] = i OBVIOUS
  <2> HIDE DEF Read, Kept, P, s
  <2> QED BY <2>1, <2>2
<1>7. ASSUME NEW d \in graph.blocks, NEW v \in Vars
      PROVE  v \in Z[<<d, 1>>] <=> v \in in[d]
  <2>1. 1 \in 1 .. Len(s(d)) + 1 BY <1>4
  <2>2. v \in Z[<<d, 1>>] <=> Read(d, 1, v) \/ Kept(d, 1, v)
    <3> HIDE DEF Z, Read, Kept
    <3> QED BY <2>1, <1>6
  <2>3. Read(d, 1, v) <=> v \in use[d] BY <1>2, <1>4 DEF ReadFirst
  <2>4. Kept(d, 1, v) <=> v \in out[d] \ def[d] BY <1>2, <1>4 DEF Written
  <2> HIDE DEF Z, Read, Kept
  <2> QED BY <2>2, <2>3, <2>4, <1>3
<1>8. ASSUME NEW d \in graph.blocks, NEW v \in Vars
      PROVE  v \in Z[<<d, Len(s(d)) + 1>>] <=> v \in out[d]
  <2>1. Len(s(d)) + 1 \in 1 .. Len(s(d)) + 1 BY <1>4
  <2>2. v \in Z[<<d, Len(s(d)) + 1>>] <=> Read(d, Len(s(d)) + 1, v) \/ Kept(d, Len(s(d)) + 1, v)
    <3> HIDE DEF Z, Read, Kept
    <3> QED BY <2>1, <1>6
  <2>3. Len(s(d)) + 1 .. Len(s(d)) = {} BY <1>4
  <2>4. ~ Read(d, Len(s(d)) + 1, v) /\ (Kept(d, Len(s(d)) + 1, v) <=> v \in out[d]) BY <2>3
  <2> HIDE DEF Z, Read, Kept
  <2> QED BY <2>2, <2>4
<1>9. ASSUME NEW d \in graph.blocks, NEW i \in 1 .. Len(s(d)), NEW v \in Vars,
             \/ v \in Uses(s(d)[i])
             \/ v \notin Defs(s(d)[i]) /\ v \in Z[<<d, i + 1>>]
      PROVE  v \in Z[<<d, i>>]
  <2>1. i \in 1 .. Len(s(d)) + 1 /\ i + 1 \in 1 .. Len(s(d)) + 1 BY <1>4
  <2>2. /\ v \in Z[<<d, i>>] <=> Read(d, i, v) \/ Kept(d, i, v)
        /\ v \in Z[<<d, i + 1>>] <=> Read(d, i + 1, v) \/ Kept(d, i + 1, v)
    <3> HIDE DEF Z, Read, Kept
    <3> QED BY <2>1, <1>6
  <2>3. CASE v \in Uses(s(d)[i])
    <3>1. i \in i .. Len(s(d)) /\ i .. i - 1 = {} BY <1>4
    <3>2. Read(d, i, v) BY <2>3, <3>1
    <3> QED BY <3>2, <2>2
  <2>4. ASSUME v \notin Defs(s(d)[i]), Read(d, i + 1, v) PROVE Read(d, i, v)
    <3>1. PICK j \in i + 1 .. Len(s(d)) : /\ v \in Uses(s(d)[j])
                                          /\ \A m \in i + 1 .. j - 1 : v \notin Defs(s(d)[m])
      BY <2>4
    <3>2. j \in i .. Len(s(d)) /\ \A m \in i .. j - 1 : m = i \/ m \in i + 1 .. j - 1 BY <1>4
    <3> QED BY <3>1, <3>2, <2>4
  <2>5. ASSUME v \notin Defs(s(d)[i]), Kept(d, i + 1, v) PROVE Kept(d, i, v)
    <3>1. \A m \in i .. Len(s(d)) : m = i \/ m \in i + 1 .. Len(s(d)) BY <1>4
    <3> QED BY <3>1, <2>5
  <2> HIDE DEF Z, Read, Kept
  <2> QED BY <1>9, <2>2, <2>3, <2>4, <2>5
<1>10. ASSUME NEW d \in graph.blocks, NEW v \in Vars, NEW t \in SuccsIn(graph, d),
              v \in Z[<<t, 1>>]
       PROVE  v \in Z[<<d, Len(s(d)) + 1>>]
  <2>1. t \in graph.blocks BY <1>1, SuccsAreBlocks
  <2> HIDE DEF Z
  <2>2. v \in in[t] BY <1>7, <1>10, <2>1
  <2> QED BY <1>3, <1>8, <2>2
<1>11. \A p \in P : live[p] \subseteq Z[p] /\ live[p] \subseteq Vars
  <2> HIDE DEF Z
  <2> QED BY <1>1, <1>9, <1>10, PointsBelow
<1>12. <<b, 1>> \in P /\ <<b, Len(s(b)) + 1>> \in P
  <2>1. 1 \in 1 .. Len(s(b)) + 1 /\ Len(s(b)) + 1 \in 1 .. Len(s(b)) + 1 BY <1>4
  <2> QED BY <1>1, <2>1, PointsAre
<1> HIDE DEF Z, P
<1> QED BY <1>7, <1>8, <1>11, <1>12

\* All that is known of a state.
Known == TypeOK /\ WalkInv /\ Fixpoint /\ BelowSolutions /\ DefUseKnown

\* Whatever graph lva is called on, if its loops have pre-headers: all is known
\* when it begins, and after each of its steps.
LEMMA KnownBegin ==
  ASSUME IsGraph(graph), PreHeaders(graph), Begin
  PROVE  Known
<1>1. TypeOK
  BY DEF Begin, TypeOK, AllEmpty
<1>2. BelowSolutions /\ DefUseKnown
  BY DEF Begin, BelowSolutions, AllEmpty, DefUseKnown
<1> QED
  BY <1>1, <1>2, WalkBegin DEF Known

LEMMA KnownNext == Known /\ [Next]_vars => Known'
BY TypeNext, WalkNext, BelowNext, DefUseNext DEF WalkInv, Known

LEMMA AllKnown == Spec => []Known
<1>1. Init => Known
  BY GraphsAssumption, KnownBegin DEF Init
<1> QED
  BY <1>1, KnownNext, PTL DEF Spec

\* From the first walk of lva on, no set of it has a variable that no path from
\* there reads before writing it: no bit would ever be cleared again.
THEOREM NeverTooLiveAlways == Spec => []NeverTooLive
<1>1. Known => NeverTooLive
  BY BelowLive DEF Known
<1> QED
  BY <1>1, AllKnown, PTL

\* When lva returns, its sets have every variable that some path reads before
\* writing it, round the loops too: no pass drops an instruction still needed.
THEOREM AllLiveFoundAlways == Spec => []AllLiveFound
<1>1. Known => AllLiveFound
  BY FixpointFindsAll DEF Known
<1> QED
  BY <1>1, AllKnown, PTL

=============================================================================
