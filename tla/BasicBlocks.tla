---------------------------- MODULE BasicBlocks ----------------------------
(***************************************************************************)
(* bb_build of 3ac.c: one block per TLABEL and per TIFF and one in front   *)
(* of them, in list order; then every instruction is put into a block and  *)
(* the blocks' next, jmp and pred are set.  A step is one instruction.      *)
(*                                                                         *)
(* A block is named by the position of the instruction it was made for, the *)
(* first block by 0, so list order is the order of the names; what a block *)
(* holds are positions too.                                                *)
(***************************************************************************)
EXTENDS Liveness

CONSTANTS
    Programs,           \* instruction lists of the front end
    MaxPredecessors     \* MAX_PREDECESSORS

Leaders(code) == {p \in 1 .. Len(code) : code[p].op \in {"TLABEL", "TIFF"}}
Blocks(code)  == {0} \cup Leaders(code)

NoBlock == -1

\* bb->id: UINT32_MAX in the first block (no label has that number), the
\* label's number, or 0 from calloc in the block behind a TIFF.
IdOf(code, b) ==
    IF b = 0 THEN -1 ELSE IF code[b].op = "TLABEL" THEN code[b].r ELSE 0

\* The first block of the list with that id; the block behind b in the list.
FirstIn(S) == CHOOSE b \in S : \A d \in S : b <= d
WithId(code, l) == {b \in Blocks(code) : IdOf(code, b) = l}
MutBehind(code, b) == {d \in Blocks(code) : d >= b}
Behind(code, b) == {d \in Blocks(code) : d > b}

\* What tac_gen and gen see to: labels are numbered from 1 and no number is
\* used twice; jumps have a target; a TJMP is followed by a TLABEL, which no
\* jump from behind goes to; only a TJMP goes back.
WellFormed(code) ==
    /\ Len(code) > 0
    /\ \A p, q \in 1 .. Len(code) :
         code[p].op = "TLABEL" /\ code[q].op = "TLABEL" /\ code[p].r = code[q].r
           => p = q
    /\ \A p \in 1 .. Len(code) :
         /\ code[p].op = "TLABEL" => code[p].r \in Nat \ {0}
         /\ code[p].op \in {"TJMP", "TIFF"} =>
              \E q \in 1 .. Len(code) :
                /\ code[q].op = "TLABEL" /\ code[q].r = code[p].r
                /\ q > p \/ (code[p].op = "TJMP" /\ (q = 1 \/ code[q - 1].op # "TJMP"))
         /\ code[p].op = "TJMP" => p < Len(code) /\ code[p + 1].op = "TLABEL"

ASSUME ProgramsAssumption ==
    Programs \subseteq Seq(Instrs) /\ \A code \in Programs : WellFormed(code)
ASSUME MaxPredecessorsAssumption == MaxPredecessors \in Nat \ {0}

VARIABLES
    code,    \* tac_code_t.ins
    pos,     \* instructions placed
    cur,     \* bb1
    ins,     \* bb_t.ins
    next,    \* bb_t.next
    jmp,     \* bb_t.jmp
    pred     \* bb_t.pred

vars == <<code, pos, cur, ins, next, jmp, pred>>

Init ==
    /\ code \in Programs
    /\ pos = 0
    /\ cur = 0
    /\ ins = [b \in Blocks(code) |-> << >>]
    /\ next = [b \in Blocks(code) |-> NoBlock]
    /\ jmp = [b \in Blocks(code) |-> NoBlock]
    /\ pred = [b \in Blocks(code) |-> << >>]

MutWithPred(pr, b, p) == [pr EXCEPT ![b] = <<p>>]
\* ADD_PREDECESSEOR: a full array drops the block.
WithPred(pr, b, p) ==
    IF Len(pr[b]) < MaxPredecessors THEN [pr EXCEPT ![b] = Append(@, p)] ELSE pr

MutPush(b) == ins' = [ins EXCEPT ![b] = Append(@, pos)]
MutPushFront(b) == ins' = [ins EXCEPT ![b] = <<pos + 1>> \o @]
Push(b) == ins' = [ins EXCEPT ![b] = Append(@, pos + 1)]

\* The first instruction of a block is put there whatever it is.
PlaceFirst ==
    /\ pos < Len(code)
    /\ ins[cur] = << >>
    /\ Push(cur)
    /\ pos' = pos + 1
    /\ UNCHANGED <<code, cur, next, jmp, pred>>

PlaceLabel ==
    /\ pos < Len(code)
    /\ ins[cur] # << >>
    /\ code[pos + 1].op = "TLABEL"
    /\ LET b == FirstIn(WithId(code, code[pos + 1].r))
       IN  /\ Push(b)
           /\ next' = [next EXCEPT ![cur] = b]
           /\ pred' = WithPred(pred, b, cur)
           /\ cur' = b
    /\ pos' = pos + 1
    /\ UNCHANGED <<code, jmp>>

PlaceJump ==
    /\ pos < Len(code)
    /\ ins[cur] # << >>
    /\ code[pos + 1].op = "TJMP"
    /\ Push(cur)
    /\ LET b == FirstIn(WithId(code, code[pos + 1].r))
       IN  /\ jmp' = [jmp EXCEPT ![cur] = b]
           /\ pred' = WithPred(pred, b, cur)
    /\ next' = [next EXCEPT ![cur] = NoBlock]
    /\ cur' = FirstIn(Behind(code, cur))
    /\ pos' = pos + 1
    /\ UNCHANGED code

PlaceBranch ==
    /\ pos < Len(code)
    /\ ins[cur] # << >>
    /\ code[pos + 1].op = "TIFF"
    /\ Push(cur)
    /\ LET b == FirstIn(WithId(code, code[pos + 1].r))
           d == FirstIn(Behind(code, cur))
       IN  /\ jmp' = [jmp EXCEPT ![cur] = b]
           /\ next' = [next EXCEPT ![cur] = d]
           /\ pred' = WithPred(WithPred(pred, b, cur), d, cur)
           /\ cur' = d
    /\ pos' = pos + 1
    /\ UNCHANGED code

PlacePlain ==
    /\ pos < Len(code)
    /\ ins[cur] # << >>
    /\ code[pos + 1].op \notin {"TLABEL", "TJMP", "TIFF"}
    /\ Push(cur)
    /\ pos' = pos + 1
    /\ UNCHANGED <<code, cur, next, jmp, pred>>

Next == PlaceFirst \/ PlaceLabel \/ PlaceJump \/ PlaceBranch \/ PlacePlain

Spec == Init /\ [][Next]_vars /\ WF_vars(Next)

-----------------------------------------------------------------------------
\* No empty block meets a TLABEL or a TIFF other than its own: the program does
\* not start with a loop or a test of a variable, and no body does.  Where it
\* does, PlaceFirst sets no edge and the following blocks lag behind (README).
NoShift ==
    /\ code[1].op \notin {"TLABEL", "TIFF", "TJMP"}
    /\ \A p \in 1 .. Len(code) - 1 :
         code[p].op = "TIFF" => code[p + 1].op \notin {"TLABEL", "TIFF", "TJMP"}

TypeOK ==
    /\ code \in Seq(Instrs)
    /\ pos \in 0 .. Len(code)
    /\ cur \in Blocks(code)
    /\ ins \in [Blocks(code) -> Seq(1 .. Len(code))]
    /\ next \in [Blocks(code) -> Blocks(code) \cup {NoBlock}]
    /\ jmp \in [Blocks(code) -> Blocks(code) \cup {NoBlock}]
    /\ pred \in [Blocks(code) -> Seq(Blocks(code))]

\* No instruction is lost, doubled or moved: read block after block, the list
\* holds the placed instructions in their order, even where bb_build misses a
\* block boundary.
CodeOrder ==
    /\ \A p \in 1 .. pos : \E b \in Blocks(code) : \E i \in 1 .. Len(ins[b]) : ins[b][i] = p
    /\ \A b, d \in Blocks(code) : \A i \in 1 .. Len(ins[b]), j \in 1 .. Len(ins[d]) :
         b < d \/ (b = d /\ i < j) => ins[b][i] < ins[d][j]

\* pred is the inverse of next and jmp: a pass that walks predecessors
\* (const_prop, bb_compact) sees every edge, once.
Edge(f, b, d) == IF f[b] = d THEN 1 ELSE 0
PredsMatchEdges ==
    \A b, d \in Blocks(code) :
      Cardinality({i \in 1 .. Len(pred[d]) : pred[d][i] = b})
        = Edge(next, b, d) + Edge(jmp, b, d)

\* The finished blocks are the flow graph of the code: within a block control
\* can only go on, and from its last instruction it goes where next and jmp say.
EdgesFollowCode ==
    pos = Len(code) /\ NoShift =>
      \A b \in Blocks(code) :
        /\ ins[b] # << >>
        /\ \A i \in 1 .. Len(ins[b]) - 1 : Succs(code, ins[b][i]) = {ins[b][i + 1]}
        /\ {ins[d][1] : d \in {next[b], jmp[b]} \ {NoBlock}}
              = Succs(code, ins[b][Len(ins[b])])

-----------------------------------------------------------------------------
(* The inductive invariants. *)

\* The first instruction of a block no boundary was missed before.
First(cd, b) == IF b = 0 THEN 1 ELSE IF cd[b].op = "TLABEL" THEN b ELSE b + 1

\* cur runs behind the instructions, but for the label a TJMP is followed by;
\* the blocks behind cur are empty.
OrderInv ==
    /\ cur > pos => cur = pos + 1 /\ pos > 0 /\ code[pos].op = "TJMP" /\ ins[cur] = << >>
    /\ \A b \in Blocks(code) : b > cur => ins[b] = << >>
    /\ \A b \in Blocks(code) : \A i \in 1 .. Len(ins[b]) : ins[b][i] <= pos

\* A block bb_build has left, with its instructions and its successors: these
\* begin where control goes.
Closed(cd, s, ends) ==
    /\ s # << >>
    /\ \A i \in 1 .. Len(s) - 1 : cd[s[i]].op \notin {"TJMP", "TIFF"}
    /\ {First(cd, d) : d \in ends} = Succs(cd, s[Len(s)])

\* cur is the last block that begins among the placed instructions,
CurIsLast == \A b \in Blocks(code) : ~ (cur < b /\ b <= pos)

\* a block holds its instructions without a gap,
Contiguous ==
    \A b \in Blocks(code) : \A i \in 1 .. Len(ins[b]) : ins[b][i] = First(code, b) + i - 1

\* cur holds all from its first up to the last placed, none of which ends it,
CurIsOpen ==
    /\ Len(ins[cur]) = pos - First(code, cur) + 1
    /\ \A i \in 1 .. Len(ins[cur]) : code[ins[cur][i]].op \notin {"TJMP", "TIFF"}

\* the blocks before it are closed, the others have no successor yet.
ClosedBefore ==
    \A b \in Blocks(code) :
      b < cur => Closed(code, ins[b], {next[b], jmp[b]} \ {NoBlock})
OpenBehind ==
    \A b \in Blocks(code) : b >= cur => next[b] = NoBlock /\ jmp[b] = NoBlock

EdgeInv ==
    NoShift => CurIsLast /\ Contiguous /\ CurIsOpen /\ ClosedBefore /\ OpenBehind

IInv == TypeOK /\ WellFormed(code) /\ OrderInv /\ CodeOrder /\ EdgeInv

=============================================================================
