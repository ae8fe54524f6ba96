------------------------- MODULE BasicBlocksProofs -------------------------
(***************************************************************************)
(* Proofs about bb_build for every well-formed instruction list: it loses, *)
(* doubles and moves no instruction, and where no boundary is missed the   *)
(* blocks' edges are the control flow of the code.  The graph it leaves is *)
(* one lva may be given, and what lva makes of it is what is live in the   *)
(* code (Analysis).                                                        *)
(***************************************************************************)
EXTENDS Analysis, LivenessProofs, FiniteSetTheorems, WellFoundedInduction,
        SequenceTheorems, TLAPS

-----------------------------------------------------------------------------
(* Looking blocks up. *)

\* Every set of block names has a first one.
LEMMA FirstInExists ==
  ASSUME NEW S, S \subseteq Nat, S # {}
  PROVE  FirstIn(S) \in S /\ \A d \in S : FirstIn(S) <= d
<1>1. \E b \in S : \A d \in S : ~ (<<d, b>> \in OpToRel(<, Nat))
  BY NatLessThanWellFounded, WFMin
<1>2. PICK b \in S : \A d \in S : ~ (<<d, b>> \in OpToRel(<, Nat))
  BY <1>1
<1>3. \A d \in S : b <= d
  <2> SUFFICES ASSUME NEW d \in S
               PROVE  b <= d
    OBVIOUS
  <2>1. ~ (d < b)
    BY <1>2 DEF OpToRel
  <2> QED
    BY <2>1
<1> QED
  BY <1>3 DEF FirstIn

\* An element below all others is the first one.
LEMMA FirstInIs ==
  ASSUME NEW S, S \subseteq Nat, NEW m \in S, \A d \in S : m <= d
  PROVE  FirstIn(S) = m
<1>1. FirstIn(S) \in S /\ FirstIn(S) <= m
  BY FirstInExists
<1>2. m <= FirstIn(S) /\ m \in Nat /\ FirstIn(S) \in Nat
  BY <1>1
<1> QED
  BY <1>1, <1>2

\* Block names are positions, or 0.
LEMMA BlockNames ==
  ASSUME NEW cd \in Seq(Instrs)
  PROVE  /\ Blocks(cd) \subseteq 0 .. Len(cd)
         /\ 0 \in Blocks(cd)
         /\ \A p \in 1 .. Len(cd) :
              p \in Blocks(cd) <=> cd[p].op \in {"TLABEL", "TIFF"}
BY DEF Blocks, Leaders

\* The block with a label's number is the one made for that label.
LEMMA LabelBlock ==
  ASSUME NEW cd \in Seq(Instrs), WellFormed(cd),
         NEW q \in 1 .. Len(cd), cd[q].op = "TLABEL"
  PROVE  FirstIn(WithId(cd, cd[q].r)) = q
<1>1. q \in Blocks(cd) /\ IdOf(cd, q) = cd[q].r /\ cd[q].r \in Nat \ {0}
  BY DEF Blocks, Leaders, IdOf, WellFormed
<1>2. ASSUME NEW b \in Blocks(cd), IdOf(cd, b) = cd[q].r
      PROVE  b = q
  <2>1. b # 0
    BY <1>1, <1>2 DEF IdOf
  <2>2. b \in 1 .. Len(cd)
    BY <2>1, BlockNames
  <2>3. cd[b].op = "TLABEL" /\ cd[b].r = cd[q].r
    BY <1>1, <1>2, <2>1, <2>2 DEF IdOf
  <2> QED
    BY <2>2, <2>3 DEF WellFormed
<1>3. WithId(cd, cd[q].r) = {q}
  BY <1>1, <1>2 DEF WithId
<1> QED
  BY <1>3 DEF FirstIn

\* A jump goes to a label, and to no other; nothing but the list's last
\* instruction comes after it.
LEMMA JumpTarget ==
  ASSUME NEW cd \in Seq(Instrs), WellFormed(cd),
         NEW p \in 1 .. Len(cd), cd[p].op \in {"TJMP", "TIFF"}
  PROVE  /\ p < Len(cd)
         /\ \E t \in 1 .. Len(cd) :
              /\ t \in Blocks(cd)
              /\ cd[t].op = "TLABEL"
              /\ FirstIn(WithId(cd, cd[p].r)) = t
              /\ LabelAt(cd, cd[p].r) = {t}
<1>1. PICK t \in 1 .. Len(cd) : /\ cd[t].op = "TLABEL"
                                /\ cd[t].r = cd[p].r
                                /\ t > p \/ cd[p].op = "TJMP"
  BY DEF WellFormed
<1>2. p < Len(cd)
  BY <1>1 DEF WellFormed
<1>3. LabelAt(cd, cd[p].r) = {t}
  BY <1>1 DEF LabelAt, WellFormed
<1>4. FirstIn(WithId(cd, cd[p].r)) = t /\ t \in Blocks(cd)
  BY <1>1, LabelBlock, BlockNames
<1> QED
  BY <1>1, <1>2, <1>3, <1>4

-----------------------------------------------------------------------------
(* Types, and the order of the instructions. *)

\* What pushing the next instruction changes.
LEMMA Pushed ==
  ASSUME TypeOK, pos < Len(code), NEW b \in Blocks(code), Push(b)
  PROVE  /\ ins' \in [Blocks(code) -> Seq(1 .. Len(code))]
         /\ \A d \in Blocks(code) : d # b => ins'[d] = ins[d]
         /\ ins'[b] # << >>
         /\ Len(ins'[b]) = Len(ins[b]) + 1
         /\ \A i \in 1 .. Len(ins[b]) : ins'[b][i] = ins[b][i]
         /\ ins'[b][Len(ins[b]) + 1] = pos + 1
<1>1. pos + 1 \in 1 .. Len(code) /\ ins[b] \in Seq(1 .. Len(code))
  BY DEF TypeOK
<1>2. ins' = [ins EXCEPT ![b] = Append(ins[b], pos + 1)]
  BY DEF Push
<1>3. ins'[b] = Append(ins[b], pos + 1) /\ \A d \in Blocks(code) : d # b => ins'[d] = ins[d]
  BY <1>2 DEF TypeOK
<1>4. Append(ins[b], pos + 1) \in Seq(1 .. Len(code))
  BY <1>1
<1>5. ins' \in [Blocks(code) -> Seq(1 .. Len(code))]
  BY <1>2, <1>4 DEF TypeOK
<1>6. LET s == Append(ins[b], pos + 1)
      IN  /\ s # << >>
          /\ Len(s) = Len(ins[b]) + 1
          /\ \A i \in 1 .. Len(ins[b]) : s[i] = ins[b][i]
          /\ s[Len(ins[b]) + 1] = pos + 1
  <2>1. ASSUME NEW s \in Seq(1 .. Len(code)), NEW p \in 1 .. Len(code)
        PROVE  /\ Append(s, p) # << >>
               /\ Len(Append(s, p)) = Len(s) + 1
               /\ \A i \in 1 .. Len(s) : Append(s, p)[i] = s[i]
               /\ Append(s, p)[Len(s) + 1] = p
    OBVIOUS
  <2> QED
    BY <1>1, <2>1
<1> QED
  BY <1>3, <1>5, <1>6

\* An instruction pushed into the last block that holds any keeps the order.
LEMMA PushKeepsOrder ==
  ASSUME TypeOK, CodeOrder, pos < Len(code), NEW b \in Blocks(code), Push(b),
         \A d \in Blocks(code) : d > b => ins[d] = << >>,
         \A d \in Blocks(code) : \A i \in 1 .. Len(ins[d]) : ins[d][i] <= pos,
         pos' = pos + 1, code' = code
  PROVE  /\ CodeOrder'
         /\ \A d \in Blocks(code) : \A i \in 1 .. Len(ins'[d]) : ins'[d][i] <= pos + 1
<1> DEFINE n == Len(ins[b])
<1>1. /\ pos \in Nat /\ n \in Nat
      /\ \A d \in Blocks(code) : /\ d \in Int
                                  /\ Len(ins[d]) \in Nat
                                  /\ \A i \in 1 .. Len(ins[d]) : ins[d][i] \in Nat
  <2>1. Blocks(code) \subseteq 0 .. Len(code)
    BY BlockNames DEF TypeOK
  <2>2. \A d \in Blocks(code) : ins[d] \in Seq(1 .. Len(code))
    BY DEF TypeOK
  <2>3. pos \in Nat
    BY DEF TypeOK
  <2> QED
    BY <2>1, <2>2, <2>3, SMTT(30)
<1>2. /\ \A d \in Blocks(code) : d # b => ins'[d] = ins[d]
      /\ Len(ins'[b]) = n + 1
      /\ \A i \in 1 .. n : ins'[b][i] = ins[b][i]
      /\ ins'[b][n + 1] = pos + 1
  BY Pushed
<1> HIDE DEF n
<1>3. \A d \in Blocks(code) : \A i \in 1 .. Len(ins'[d]) :
        \/ d = b /\ i = n + 1 /\ ins'[d][i] = pos + 1
        \/ i \in 1 .. Len(ins[d]) /\ ins'[d][i] = ins[d][i]
  <2> SUFFICES ASSUME NEW d \in Blocks(code), NEW i \in 1 .. Len(ins'[d])
               PROVE  \/ d = b /\ i = n + 1 /\ ins'[d][i] = pos + 1
                      \/ i \in 1 .. Len(ins[d]) /\ ins'[d][i] = ins[d][i]
    OBVIOUS
  <2>1. CASE d = b
    <3>1. i \in 1 .. n + 1
      BY <1>2, <2>1
    <3>2. i = n + 1 \/ i \in 1 .. n
      BY <1>1, <3>1
    <3> QED
      BY <1>2, <2>1, <3>2 DEF n
  <2>2. CASE d # b
    BY <1>2, <2>2
  <2> QED
    BY <2>1, <2>2
<1>4. \A d \in Blocks(code) : \A i \in 1 .. Len(ins'[d]) : ins'[d][i] <= pos + 1
  BY <1>1, <1>3, SMTT(30)
<1>5. ASSUME NEW p \in 1 .. pos + 1
      PROVE  \E d \in Blocks(code) : \E i \in 1 .. Len(ins'[d]) : ins'[d][i] = p
  <2>1. CASE p = pos + 1
    <3>1. n + 1 \in 1 .. Len(ins'[b])
      BY <1>1, <1>2
    <3> QED
      BY <1>2, <2>1, <3>1
  <2>2. CASE p \in 1 .. pos
    <3>1. PICK d \in Blocks(code) : \E i \in 1 .. Len(ins[d]) : ins[d][i] = p
      BY <2>2 DEF CodeOrder
    <3>2. PICK i \in 1 .. Len(ins[d]) : ins[d][i] = p
      BY <3>1
    <3>3. i \in 1 .. Len(ins'[d]) /\ ins'[d][i] = p
      BY <1>1, <1>2, <3>2, SMTT(30) DEF n
    <3> QED
      BY <3>3
  <2> QED
    BY <1>1, <2>1, <2>2
<1>6. ASSUME NEW d \in Blocks(code), NEW e \in Blocks(code),
             NEW i \in 1 .. Len(ins'[d]), NEW j \in 1 .. Len(ins'[e]),
             d < e \/ (d = e /\ i < j)
      PROVE  ins'[d][i] < ins'[e][j]
  <2>1. CASE e = b /\ j = n + 1 /\ ins'[e][j] = pos + 1
    <3>1. ~ (d = b /\ i = n + 1)
      BY <1>1, <1>6, <2>1
    <3>2. i \in 1 .. Len(ins[d]) /\ ins'[d][i] = ins[d][i]
      BY <1>3, <3>1
    <3> QED
      BY <1>1, <2>1, <3>2
  <2>2. CASE j \in 1 .. Len(ins[e]) /\ ins'[e][j] = ins[e][j]
    <3>1. ins[e] # << >>
      BY <2>2
    <3>2. ~ (e > b)
      BY <3>1
    <3>3. ~ (d = b /\ i = n + 1)
      BY <1>1, <1>6, <2>2, <3>2 DEF n
    <3>4. i \in 1 .. Len(ins[d]) /\ ins'[d][i] = ins[d][i]
      BY <1>3, <3>3
    <3> QED
      BY <1>6, <2>2, <3>4 DEF CodeOrder
  <2> QED
    BY <1>3, <2>1, <2>2
<1>7. CodeOrder'
  BY <1>5, <1>6 DEF CodeOrder
<1> QED
  BY <1>4, <1>7

\* What the order of the blocks rests on.
Placed == TypeOK /\ WellFormed(code) /\ OrderInv /\ CodeOrder

\* A full array or one more entry: pred keeps its type.
LEMMA WithPredType ==
  ASSUME NEW B, NEW pr \in [B -> Seq(B)], NEW b \in B, NEW p \in B
  PROVE  WithPred(pr, b, p) \in [B -> Seq(B)]
<1>1. Append(pr[b], p) \in Seq(B)
  OBVIOUS
<1> QED
  BY <1>1 DEF WithPred

\* Where cur stands before a push that does not open the block.
LEMMA CurBehind ==
  ASSUME Placed, pos < Len(code), ins[cur] # << >>
  PROVE  cur <= pos
BY BlockNames DEF Placed, TypeOK, OrderInv

\* No block is open: the code and its types stay, and no block behind cur' holds
\* an instruction.
LEMMA PlacedPush ==
  ASSUME Placed, pos < Len(code), NEW b \in Blocks(code), Push(b),
         b >= cur, b <= pos + 1, pos' = pos + 1, code' = code,
         cur' \in Blocks(code), cur' >= b, cur' <= pos + 2,
         cur' = pos + 2 => code[pos + 1].op = "TJMP" /\ cur' # b,
         next' \in [Blocks(code) -> Blocks(code) \cup {NoBlock}],
         jmp' \in [Blocks(code) -> Blocks(code) \cup {NoBlock}],
         pred' \in [Blocks(code) -> Seq(Blocks(code))]
  PROVE  Placed'
<1>1. /\ pos \in Nat /\ pos + 1 \in 1 .. Len(code) /\ cur \in Int /\ b \in Int /\ cur' \in Int
      /\ \A d \in Blocks(code) : d \in Int
  <2>1. Blocks(code) \subseteq 0 .. Len(code) /\ Len(code) \in Nat
    BY BlockNames DEF Placed, TypeOK
  <2> QED
    BY <2>1, SMTT(30) DEF Placed, TypeOK
<1>2. TypeOK'
  <2>1. ins' \in [Blocks(code) -> Seq(1 .. Len(code))]
    BY Pushed DEF Placed
  <2> QED
    BY <1>1, <2>1, SMTT(30) DEF Placed, TypeOK
<1>3. \A d \in Blocks(code) : d > b => ins[d] = << >>
  BY <1>1 DEF Placed, OrderInv
<1>4. /\ CodeOrder'
      /\ \A d \in Blocks(code) : \A i \in 1 .. Len(ins'[d]) : ins'[d][i] <= pos + 1
  BY <1>3, PushKeepsOrder DEF Placed, OrderInv
<1>5. \A d \in Blocks(code) : d > b => ins'[d] = << >>
  <2>1. \A d \in Blocks(code) : d # b => ins'[d] = ins[d]
    BY Pushed DEF Placed
  <2>2. \A d \in Blocks(code) : d > b => d # b
    BY <1>1
  <2> QED
    BY <1>3, <2>1, <2>2
<1>6. OrderInv'
  <2>1. \A d \in Blocks(code) : d > cur' => ins'[d] = << >>
    BY <1>1, <1>5
  <2>2. ASSUME cur' > pos + 1
        PROVE  /\ cur' = pos + 2
               /\ pos + 1 > 0
               /\ code[pos + 1].op = "TJMP"
               /\ ins'[cur'] = << >>
    <3>1. cur' = pos + 2 /\ cur' # b
      BY <1>1, <2>2
    <3>2. cur' > b
      BY <1>1, <3>1
    <3> QED
      BY <1>1, <1>5, <3>1, <3>2
  <2>3. pos + 1 + 1 = pos + 2
    BY <1>1
  <2> QED
    BY <1>4, <2>1, <2>2, <2>3 DEF OrderInv
<1> QED
  BY <1>2, <1>4, <1>6 DEF Placed

\* The block in front of the rest of the list is behind cur, and so is the label
\* a jump is followed by.
LEMMA BehindCur ==
  ASSUME Placed, pos < Len(code), ins[cur] # << >>,
         NEW p \in 1 .. Len(code), p > pos, code[p].op \in {"TLABEL", "TIFF"}
  PROVE  /\ FirstIn(Behind(code, cur)) \in Blocks(code)
         /\ FirstIn(Behind(code, cur)) > cur
         /\ FirstIn(Behind(code, cur)) <= p
<1>1. p \in Blocks(code) /\ Blocks(code) \subseteq Nat
  BY BlockNames DEF Placed, TypeOK
<1>2. p > cur
  BY <1>1, CurBehind DEF Placed, TypeOK
<1>3. Behind(code, cur) \subseteq Nat /\ p \in Behind(code, cur)
  BY <1>1, <1>2 DEF Behind
<1>4. FirstIn(Behind(code, cur)) \in Behind(code, cur) /\ FirstIn(Behind(code, cur)) <= p
  BY <1>3, FirstInExists
<1> QED
  BY <1>4 DEF Behind

\* The first instruction of a block.
LEMMA PlaceFirstStep == Placed /\ PlaceFirst => Placed'
<1> SUFFICES ASSUME Placed, PlaceFirst
             PROVE  Placed'
  OBVIOUS
<1>1. /\ cur \in Blocks(code) /\ cur \in Int /\ pos \in Int
      /\ cur <= pos + 1
  BY BlockNames DEF Placed, TypeOK, OrderInv
<1>2. cur >= cur /\ cur <= pos + 2 /\ cur # pos + 2
  BY <1>1
<1>3. /\ Push(cur) /\ pos < Len(code) /\ pos' = pos + 1 /\ code' = code
      /\ cur' = cur /\ next' = next /\ jmp' = jmp /\ pred' = pred
  BY DEF PlaceFirst
<1>4. /\ next' \in [Blocks(code) -> Blocks(code) \cup {NoBlock}]
      /\ jmp' \in [Blocks(code) -> Blocks(code) \cup {NoBlock}]
      /\ pred' \in [Blocks(code) -> Seq(Blocks(code))]
  BY <1>3 DEF Placed, TypeOK
<1> QED
  BY <1>1, <1>2, <1>3, <1>4, PlacedPush

\* An instruction inside a block.
LEMMA PlacePlainStep == Placed /\ PlacePlain => Placed'
<1> SUFFICES ASSUME Placed, PlacePlain
             PROVE  Placed'
  OBVIOUS
<1>1. /\ cur \in Blocks(code) /\ cur \in Int /\ pos \in Int
      /\ cur <= pos + 1
  BY BlockNames DEF Placed, TypeOK, OrderInv
<1>2. cur >= cur /\ cur <= pos + 2 /\ cur # pos + 2
  BY <1>1
<1>3. /\ Push(cur) /\ pos < Len(code) /\ pos' = pos + 1 /\ code' = code
      /\ cur' = cur /\ next' = next /\ jmp' = jmp /\ pred' = pred
  BY DEF PlacePlain
<1>4. /\ next' \in [Blocks(code) -> Blocks(code) \cup {NoBlock}]
      /\ jmp' \in [Blocks(code) -> Blocks(code) \cup {NoBlock}]
      /\ pred' \in [Blocks(code) -> Seq(Blocks(code))]
  BY <1>3 DEF Placed, TypeOK
<1> QED
  BY <1>1, <1>2, <1>3, <1>4, PlacedPush

\* A label: its block comes next and is entered.
LEMMA PlaceLabelStep == Placed /\ PlaceLabel => Placed'
<1> SUFFICES ASSUME Placed, PlaceLabel
             PROVE  Placed'
  OBVIOUS
<1> DEFINE p == pos + 1
<1>1. /\ code \in Seq(Instrs) /\ WellFormed(code) /\ p \in 1 .. Len(code)
      /\ code[p].op = "TLABEL" /\ cur \in Blocks(code) /\ pos \in Nat
  BY DEF PlaceLabel, Placed, TypeOK
<1>2. FirstIn(WithId(code, code[p].r)) = p /\ p \in Blocks(code)
  BY <1>1, LabelBlock, BlockNames
<1>3. /\ Push(p) /\ pos < Len(code) /\ pos' = p /\ code' = code /\ cur' = p
      /\ next' = [next EXCEPT ![cur] = p]
      /\ pred' = WithPred(pred, p, cur)
      /\ jmp' = jmp
      /\ ins[cur] # << >>
  BY <1>2 DEF PlaceLabel
<1>4. /\ next' \in [Blocks(code) -> Blocks(code) \cup {NoBlock}]
      /\ jmp' \in [Blocks(code) -> Blocks(code) \cup {NoBlock}]
      /\ pred' \in [Blocks(code) -> Seq(Blocks(code))]
  BY <1>1, <1>2, <1>3, WithPredType DEF Placed, TypeOK
<1>5. cur <= pos
  BY <1>3, CurBehind
<1>6. p >= cur /\ p <= pos + 1 /\ p >= p /\ p <= pos + 2 /\ p # pos + 2
  BY <1>1, <1>5, BlockNames
<1> QED
  BY <1>2, <1>3, <1>4, <1>6, PlacedPush

\* A jump: its target exists, and the label behind it bounds the next block.
LEMMA PlaceJumpStep == Placed /\ PlaceJump => Placed'
<1> SUFFICES ASSUME Placed, PlaceJump
             PROVE  Placed'
  OBVIOUS
<1> DEFINE p == pos + 1
           d == FirstIn(Behind(code, cur))
           t == FirstIn(WithId(code, code[p].r))
<1>1. /\ code \in Seq(Instrs) /\ WellFormed(code) /\ p \in 1 .. Len(code)
      /\ code[p].op = "TJMP" /\ cur \in Blocks(code) /\ cur \in Int /\ pos \in Nat
  <2>1. /\ code \in Seq(Instrs) /\ WellFormed(code) /\ pos \in 0 .. Len(code)
        /\ cur \in Blocks(code)
    BY DEF Placed, TypeOK
  <2>2. code[p].op = "TJMP" /\ pos < Len(code)
    BY DEF PlaceJump
  <2>3. cur \in Int
    BY <2>1, BlockNames
  <2> QED
    BY <2>1, <2>2, <2>3
<1>2. /\ Push(cur) /\ pos < Len(code) /\ pos' = p /\ code' = code /\ cur' = d
      /\ next' = [next EXCEPT ![cur] = NoBlock]
      /\ jmp' = [jmp EXCEPT ![cur] = t]
      /\ pred' = WithPred(pred, t, cur)
      /\ ins[cur] # << >>
  BY DEF PlaceJump
<1>3. t \in Blocks(code)
  BY <1>1, JumpTarget
<1>4. p + 1 \in 1 .. Len(code) /\ code[p + 1].op = "TLABEL" /\ p + 1 > pos
  BY <1>1 DEF WellFormed
<1>5. d \in Blocks(code) /\ d > cur /\ d <= p + 1
  BY <1>2, <1>4, BehindCur
<1>6. cur <= pos
  BY <1>2, CurBehind
<1>7. d \in Int
  BY <1>1, <1>5, BlockNames
<1> HIDE DEF d, t
<1>8. /\ cur >= cur /\ cur <= pos + 1 /\ d >= cur /\ d <= pos + 2
      /\ d # cur
  BY <1>1, <1>5, <1>6, <1>7
<1>9. /\ next' \in [Blocks(code) -> Blocks(code) \cup {NoBlock}]
      /\ jmp' \in [Blocks(code) -> Blocks(code) \cup {NoBlock}]
      /\ pred' \in [Blocks(code) -> Seq(Blocks(code))]
  BY <1>1, <1>2, <1>3, WithPredType DEF Placed, TypeOK
<1> QED
  BY <1>1, <1>2, <1>5, <1>8, <1>9, PlacedPush

\* A branch: its own block bounds the next one.
LEMMA PlaceBranchStep == Placed /\ PlaceBranch => Placed'
<1> SUFFICES ASSUME Placed, PlaceBranch
             PROVE  Placed'
  OBVIOUS
<1> DEFINE p == pos + 1
           d == FirstIn(Behind(code, cur))
           t == FirstIn(WithId(code, code[p].r))
<1>1. /\ code \in Seq(Instrs) /\ WellFormed(code) /\ p \in 1 .. Len(code)
      /\ code[p].op = "TIFF" /\ cur \in Blocks(code) /\ cur \in Int /\ pos \in Nat
      /\ p > pos
  <2>1. /\ code \in Seq(Instrs) /\ WellFormed(code) /\ pos \in 0 .. Len(code)
        /\ cur \in Blocks(code)
    BY DEF Placed, TypeOK
  <2>2. code[p].op = "TIFF" /\ pos < Len(code)
    BY DEF PlaceBranch
  <2>3. cur \in Int
    BY <2>1, BlockNames
  <2> QED
    BY <2>1, <2>2, <2>3
<1>2. /\ Push(cur) /\ pos < Len(code) /\ pos' = p /\ code' = code /\ cur' = d
      /\ next' = [next EXCEPT ![cur] = d]
      /\ jmp' = [jmp EXCEPT ![cur] = t]
      /\ pred' = WithPred(WithPred(pred, t, cur), d, cur)
      /\ ins[cur] # << >>
  BY DEF PlaceBranch
<1>3. t \in Blocks(code)
  BY <1>1, JumpTarget
<1>5. d \in Blocks(code) /\ d > cur /\ d <= p
  BY <1>1, <1>2, BehindCur
<1>6. cur <= pos
  BY <1>2, CurBehind
<1>7. d \in Int
  BY <1>1, <1>5, BlockNames
<1> HIDE DEF d, t
<1>8. /\ cur >= cur /\ cur <= pos + 1 /\ d >= cur /\ d <= pos + 2
      /\ d # pos + 2
  BY <1>1, <1>5, <1>6, <1>7
<1>9. WithPred(pred, t, cur) \in [Blocks(code) -> Seq(Blocks(code))]
  BY <1>1, <1>3, WithPredType DEF Placed, TypeOK
<1>10. /\ next' \in [Blocks(code) -> Blocks(code) \cup {NoBlock}]
       /\ jmp' \in [Blocks(code) -> Blocks(code) \cup {NoBlock}]
       /\ pred' \in [Blocks(code) -> Seq(Blocks(code))]
  BY <1>1, <1>2, <1>3, <1>5, <1>9, WithPredType DEF Placed, TypeOK
<1> QED
  BY <1>1, <1>2, <1>5, <1>8, <1>10, PlacedPush

\* Before the first instruction all blocks are empty.
LEMMA PlacedInit == Init => Placed
<1> SUFFICES ASSUME Init
             PROVE  Placed
  OBVIOUS
<1>1. code \in Seq(Instrs) /\ WellFormed(code)
  BY ProgramsAssumption DEF Init
<1>2. Blocks(code) \subseteq 0 .. Len(code) /\ 0 \in Blocks(code) /\ Len(code) \in Nat
  BY <1>1, BlockNames
<1>3. TypeOK
  BY <1>1, <1>2 DEF Init, TypeOK
<1>4. \A b \in Blocks(code) : ins[b] = << >> /\ Len(ins[b]) = 0
  BY DEF Init
<1>5. OrderInv
  BY <1>4 DEF Init, OrderInv
<1>6. CodeOrder
  BY <1>4 DEF Init, CodeOrder
<1> QED
  BY <1>1, <1>3, <1>5, <1>6 DEF Placed

\* Every step keeps the instructions in order.
LEMMA PlacedNext == Placed /\ [Next]_vars => Placed'
<1> SUFFICES ASSUME Placed, [Next]_vars
             PROVE  Placed'
  OBVIOUS
<1>1. CASE UNCHANGED vars
  <2>1. /\ code' = code /\ pos' = pos /\ cur' = cur /\ ins' = ins
        /\ next' = next /\ jmp' = jmp /\ pred' = pred
    BY <1>1 DEF vars
  <2>2. TypeOK' /\ WellFormed(code)'
    BY <2>1 DEF Placed, TypeOK
  <2>3. OrderInv'
    BY <2>1 DEF Placed, OrderInv
  <2>4. CodeOrder'
    BY <2>1 DEF Placed, CodeOrder
  <2> QED
    BY <2>2, <2>3, <2>4 DEF Placed
<1> QED
  BY <1>1, PlaceFirstStep, PlaceLabelStep, PlaceJumpStep, PlaceBranchStep,
     PlacePlainStep DEF Next

\* bb_build keeps the types of its variables.
THEOREM TypeCorrect == Spec => []TypeOK
<1>1. Placed => TypeOK
  BY DEF Placed
<1> QED
  BY <1>1, PlacedInit, PlacedNext, PTL DEF Spec

\* bb_build loses, doubles and moves no instruction of any well-formed list.
THEOREM CodeOrderAlways == Spec => []CodeOrder
<1>1. Placed => CodeOrder
  BY DEF Placed
<1> QED
  BY <1>1, PlacedInit, PlacedNext, PTL DEF Spec

-----------------------------------------------------------------------------
(* The edges. *)

\* Names, lengths and positions are numbers.
LEMMA Numbers ==
  ASSUME Placed
  PROVE  /\ pos \in Nat /\ cur \in Blocks(code)
         /\ Len(code) \in Nat
         /\ \A b \in Blocks(code) : b \in Nat /\ b <= Len(code) /\ b # NoBlock
         /\ \A b \in Blocks(code) : First(code, b) \in Nat
         /\ \A b \in Blocks(code) : Len(ins[b]) \in Nat
         /\ \A b \in Blocks(code) : (ins[b] = << >>) <=> (Len(ins[b]) = 0)
<1>1. Blocks(code) \subseteq 0 .. Len(code) /\ Len(code) \in Nat
  BY BlockNames DEF Placed, TypeOK
<1>2. \A b \in Blocks(code) : ins[b] \in Seq(1 .. Len(code))
  BY DEF Placed, TypeOK
<1>3. /\ \A b \in Blocks(code) : Len(ins[b]) \in Nat
      /\ \A b \in Blocks(code) : (ins[b] = << >>) <=> (Len(ins[b]) = 0)
  BY <1>2
<1>4. pos \in Nat /\ cur \in Blocks(code)
  BY DEF Placed, TypeOK
<1> QED
  BY <1>1, <1>3, <1>4 DEF First, NoBlock

\* Control goes on behind an instruction that is no jump.
LEMMA GoesOn ==
  ASSUME NEW cd \in Seq(Instrs), NEW p \in 1 .. Len(cd), cd[p].op \notin {"TJMP", "TIFF"}
  PROVE  Succs(cd, p) = {p + 1} \cap 1 .. Len(cd)
BY DEF Succs

\* What EdgeInv says, part by part.
LEMMA Edges ==
  ASSUME EdgeInv, NoShift
  PROVE  CurIsLast /\ Contiguous /\ CurIsOpen /\ ClosedBefore /\ OpenBehind
BY DEF EdgeInv

\* cur's instructions end no block, and the last one is the last placed.
LEMMA OpenEnd ==
  ASSUME Placed, EdgeInv, NoShift
  PROVE  LET n == Len(ins[cur])
         IN  /\ n \in Nat
             /\ First(code, cur) \in Nat
             /\ n = pos - First(code, cur) + 1
             /\ \A i \in 1 .. n : code[ins[cur][i]].op \notin {"TJMP", "TIFF"}
             /\ n # 0 => ins[cur][n] = pos /\ pos \in 1 .. Len(code)
<1> DEFINE n == Len(ins[cur])
<1>1. cur \in Blocks(code) /\ pos \in Nat
  BY Numbers
<1>2. n \in Nat /\ First(code, cur) \in Nat
  BY <1>1, Numbers
<1>3. /\ n = pos - First(code, cur) + 1
      /\ \A i \in 1 .. n : code[ins[cur][i]].op \notin {"TJMP", "TIFF"}
  BY Edges DEF CurIsOpen
<1>4. \A i \in 1 .. n : ins[cur][i] = First(code, cur) + i - 1 /\ ins[cur][i] \in 1 .. Len(code)
  <2>1. ins[cur] \in Seq(1 .. Len(code))
    BY <1>1 DEF Placed, TypeOK
  <2>2. \A i \in 1 .. n : ins[cur][i] = First(code, cur) + i - 1
    BY <1>1, Edges DEF Contiguous
  <2> QED
    BY <2>1, <2>2
<1> HIDE DEF n
<1>5. ASSUME n # 0
      PROVE  ins[cur][n] = pos /\ pos \in 1 .. Len(code)
  <2>1. n \in 1 .. n
    BY <1>2, <1>5
  <2>2. ins[cur][n] = First(code, cur) + n - 1 /\ ins[cur][n] \in 1 .. Len(code)
    BY <1>4, <2>1
  <2> QED
    BY <1>1, <1>2, <1>3, <2>2
<1> QED
  BY <1>2, <1>3, <1>5 DEF n

\* The blocks after an instruction was pushed to cur.
LEMMA PushedToCur ==
  ASSUME Placed, EdgeInv, NoShift, pos < Len(code), Push(cur)
  PROVE  LET s == ins'[cur]
         IN  /\ \A b \in Blocks(code) : b # cur => ins'[b] = ins[b]
             /\ \A b \in Blocks(code) : \A i \in 1 .. Len(ins'[b]) :
                  ins'[b][i] = First(code, b) + i - 1
             /\ Len(s) = pos + 1 - First(code, cur) + 1
             /\ Len(s) \in Nat \ {0}
             /\ s # << >>
             /\ \A i \in 1 .. Len(s) - 1 : code[s[i]].op \notin {"TJMP", "TIFF"}
             /\ s[Len(s)] = pos + 1
<1> DEFINE n == Len(ins[cur])
<1>1. /\ pos \in Nat /\ cur \in Blocks(code) /\ n \in Nat /\ First(code, cur) \in Nat
  BY Numbers, OpenEnd
<1>2. /\ n = pos - First(code, cur) + 1
      /\ \A i \in 1 .. n : code[ins[cur][i]].op \notin {"TJMP", "TIFF"}
  BY OpenEnd
<1>3. \A b \in Blocks(code) : \A i \in 1 .. Len(ins[b]) : ins[b][i] = First(code, b) + i - 1
  BY Edges DEF Contiguous
<1>4. /\ \A d \in Blocks(code) : d # cur => ins'[d] = ins[d]
      /\ ins'[cur] # << >>
      /\ Len(ins'[cur]) = n + 1
      /\ \A i \in 1 .. n : ins'[cur][i] = ins[cur][i]
      /\ ins'[cur][n + 1] = pos + 1
  BY <1>1, Pushed DEF Placed
<1> HIDE DEF n
<1>5. Len(ins'[cur]) = pos + 1 - First(code, cur) + 1 /\ Len(ins'[cur]) \in Nat \ {0}
  BY <1>1, <1>2, <1>4, SMTT(30)
<1>6. \A i \in 1 .. Len(ins'[cur]) - 1 : i \in 1 .. n
  BY <1>1, <1>4
<1>7. \A i \in 1 .. Len(ins'[cur]) - 1 : code[ins'[cur][i]].op \notin {"TJMP", "TIFF"}
  BY <1>2, <1>4, <1>6
<1>8. \A i \in 1 .. Len(ins'[cur]) : ins'[cur][i] = First(code, cur) + i - 1
  <2> SUFFICES ASSUME NEW i \in 1 .. Len(ins'[cur])
               PROVE  ins'[cur][i] = First(code, cur) + i - 1
    OBVIOUS
  <2>1. i = n + 1 \/ i \in 1 .. n
    BY <1>1, <1>4
  <2>2. CASE i = n + 1
    BY <1>1, <1>2, <1>4, <2>2, SMTT(30)
  <2>3. CASE i \in 1 .. n
    BY <1>1, <1>3, <1>4, <2>3 DEF n
  <2> QED
    BY <2>1, <2>2, <2>3
<1>9. \A b \in Blocks(code) : \A i \in 1 .. Len(ins'[b]) : ins'[b][i] = First(code, b) + i - 1
  BY <1>3, <1>4, <1>8
<1>10. ins'[cur][Len(ins'[cur])] = pos + 1
  BY <1>4
<1> QED
  BY <1>4, <1>5, <1>7, <1>9, <1>10

\* An instruction that ends no block is pushed to cur.
LEMMA EdgesInside ==
  ASSUME Placed, EdgeInv, NoShift, pos < Len(code), Push(cur), pos' = pos + 1,
         code' = code, cur' = cur, next' = next, jmp' = jmp,
         code[pos + 1].op \notin {"TJMP", "TIFF"},
         code[pos + 1].op = "TLABEL" => cur = pos + 1
  PROVE  EdgeInv'
<1>1. CurIsLast'
  <2> SUFFICES ASSUME NEW d \in Blocks(code), cur < d, d <= pos + 1
               PROVE  FALSE
    BY DEF CurIsLast
  <2>1. d \in Nat /\ pos \in Nat /\ cur \in Nat
    BY Numbers
  <2>2. d = pos + 1
    BY <2>1, Edges DEF CurIsLast
  <2>3. code[d].op \in {"TLABEL", "TIFF"}
    <3>1. d \in 1 .. Len(code)
      BY <2>1, <2>2, Numbers
    <3> QED
      BY <3>1, BlockNames DEF Placed, TypeOK
  <2> QED
    BY <2>1, <2>2, <2>3
<1>2. Contiguous'
  BY PushedToCur DEF Contiguous
<1>3. CurIsOpen'
  <2> DEFINE s == ins'[cur]
  <2>1. /\ Len(s) = pos + 1 - First(code, cur) + 1
        /\ Len(s) \in Nat \ {0}
        /\ \A i \in 1 .. Len(s) - 1 : code[s[i]].op \notin {"TJMP", "TIFF"}
        /\ s[Len(s)] = pos + 1
    BY PushedToCur
  <2> HIDE DEF s
  <2>2. \A i \in 1 .. Len(s) : i = Len(s) \/ i \in 1 .. Len(s) - 1
    BY <2>1
  <2>3. \A i \in 1 .. Len(s) : code[s[i]].op \notin {"TJMP", "TIFF"}
    BY <2>1, <2>2
  <2>4. ins'[cur'] = s /\ First(code', cur') = First(code, cur)
    BY DEF s
  <2>5. Len(ins'[cur']) = pos' - First(code', cur') + 1
    <3> DEFINE f == First(code, cur)
    <3>1. pos \in Nat /\ f \in Nat
      BY Numbers, OpenEnd
    <3>2. Len(s) = pos + 1 - f + 1 /\ First(code', cur') = f /\ ins'[cur'] = s
      BY <2>1, <2>4
    <3> HIDE DEF f
    <3>3. Len(s) = pos' - f + 1
      BY <3>1, <3>2
    <3> QED
      BY <3>2, <3>3
  <2>6. \A i \in 1 .. Len(ins'[cur']) : code'[ins'[cur'][i]].op \notin {"TJMP", "TIFF"}
    BY <2>3, <2>4
  <2> QED
    BY <2>5, <2>6 DEF CurIsOpen
<1>4. ClosedBefore'
  <2>1. \A b \in Blocks(code) : b < cur => b # cur
    BY Numbers
  <2>2. \A b \in Blocks(code) : b # cur => ins'[b] = ins[b]
    BY PushedToCur
  <2> QED
    BY <2>1, <2>2, Edges DEF ClosedBefore
<1>5. OpenBehind'
  BY Edges DEF OpenBehind
<1> QED
  BY <1>1, <1>2, <1>3, <1>4, <1>5 DEF EdgeInv

\* Where the first instruction of a block stands.
LEMMA EdgesFirst == Placed /\ EdgeInv /\ NoShift /\ PlaceFirst => EdgeInv'
<1> SUFFICES ASSUME Placed, EdgeInv, NoShift, PlaceFirst
             PROVE  EdgeInv'
  OBVIOUS
<1>1. /\ pos \in Nat /\ cur \in Nat /\ cur \in Blocks(code)
      /\ cur <= Len(code)
  BY Numbers
<1>2. First(code, cur) = pos + 1
  <2>1. Len(ins[cur]) = 0
    BY DEF PlaceFirst
  <2> QED
    BY <1>1, <2>1, OpenEnd
<1>3. pos < Len(code) /\ Len(code) \in Nat
  BY Numbers DEF PlaceFirst
<1>4. /\ code[pos + 1].op \notin {"TJMP", "TIFF"}
      /\ code[pos + 1].op = "TLABEL" => cur = pos + 1
  <2>1. CASE cur = 0
    BY <1>1, <1>2, <2>1 DEF First, NoShift
  <2>2. CASE cur # 0 /\ code[cur].op = "TLABEL"
    BY <1>2, <2>2 DEF First
  <2>3. CASE cur # 0 /\ code[cur].op # "TLABEL"
    <3>1. cur \in 1 .. Len(code)
      BY <1>1, <1>3, <2>3
    <3>2. code[cur].op = "TIFF"
      BY <1>1, <2>3, <3>1, BlockNames DEF Placed, TypeOK
    <3>3. cur = pos
      BY <1>1, <1>2, <2>3 DEF First
    <3>4. pos \in 1 .. Len(code) - 1
      BY <1>1, <1>3, <2>3, <3>3
    <3> QED
      BY <3>2, <3>3, <3>4 DEF NoShift
  <2> QED
    BY <2>1, <2>2, <2>3
<1> QED
  BY <1>4, EdgesInside DEF PlaceFirst

\* Inside a block.
LEMMA EdgesPlain == Placed /\ EdgeInv /\ NoShift /\ PlacePlain => EdgeInv'
BY EdgesInside DEF PlacePlain

\* A block is entered that holds nothing, and the block before it is closed.
LEMMA EdgesLeave ==
  ASSUME Placed, EdgeInv, NoShift, NEW d \in Blocks(code), d > cur,
         \A b \in Blocks(code) : ~ (cur < b /\ b < d),
         cur' = d, code' = code,
         \A b \in Blocks(code) :
           b < cur => ins'[b] = ins[b] /\ next'[b] = next[b] /\ jmp'[b] = jmp[b],
         \A b \in Blocks(code) : b > cur => next'[b] = next[b] /\ jmp'[b] = jmp[b],
         Closed(code, ins'[cur], {next'[cur], jmp'[cur]} \ {NoBlock})
  PROVE  ClosedBefore' /\ OpenBehind'
<1>1. cur \in Blocks(code) /\ \A b \in Blocks(code) : b \in Nat
  BY Numbers
<1>2. \A b \in Blocks(code) : b < d => b < cur \/ b = cur
  BY <1>1
<1>3. ClosedBefore'
  BY <1>2, Edges DEF ClosedBefore
<1>4. \A b \in Blocks(code) : b >= d => b >= cur /\ b > cur
  BY <1>1
<1>5. OpenBehind'
  BY <1>4, Edges DEF OpenBehind
<1> QED
  BY <1>3, <1>5

\* A label closes the block in front of it, which goes on to it.
LEMMA EdgesLabel == Placed /\ EdgeInv /\ NoShift /\ PlaceLabel => EdgeInv'
<1> SUFFICES ASSUME Placed, EdgeInv, NoShift, PlaceLabel
             PROVE  EdgeInv'
  OBVIOUS
<1> DEFINE p == pos + 1
           n == Len(ins[cur])
<1>1. /\ pos \in Nat /\ cur \in Nat /\ cur \in Blocks(code) /\ Len(code) \in Nat
      /\ \A b \in Blocks(code) : b \in Nat
  BY Numbers
<1>2. /\ code \in Seq(Instrs) /\ WellFormed(code) /\ pos < Len(code)
      /\ code[p].op = "TLABEL" /\ ins[cur] # << >>
  BY DEF PlaceLabel, Placed, TypeOK
<1>3. p \in 1 .. Len(code)
  BY <1>1, <1>2
<1>4. FirstIn(WithId(code, code[p].r)) = p /\ p \in Blocks(code)
  BY <1>2, <1>3, LabelBlock, BlockNames
<1>5. /\ Push(p) /\ pos' = p /\ code' = code /\ cur' = p /\ jmp' = jmp
      /\ next' = [next EXCEPT ![cur] = p]
  BY <1>4 DEF PlaceLabel
<1>6. cur < p
  BY <1>1, <1>2, CurBehind
<1>7. First(code, p) = p
  BY <1>1, <1>2 DEF First
<1>8. /\ \A b \in Blocks(code) : b # p => ins'[b] = ins[b]
      /\ Len(ins'[p]) = 1
      /\ ins'[p][1] = p
  <2>1. Len(ins[p]) = 0
    BY <1>4, <1>6 DEF Placed, OrderInv
  <2>2. /\ \A b \in Blocks(code) : b # p => ins'[b] = ins[b]
        /\ Len(ins'[p]) = Len(ins[p]) + 1
        /\ ins'[p][Len(ins[p]) + 1] = pos + 1
    BY <1>2, <1>4, <1>5, Pushed DEF Placed
  <2> QED
    BY <2>1, <2>2
<1> HIDE DEF p
<1>9. CurIsLast'
  BY <1>1, <1>4, <1>5 DEF CurIsLast
<1>10. Contiguous'
  <2> SUFFICES ASSUME NEW b \in Blocks(code), NEW i \in 1 .. Len(ins'[b])
               PROVE  ins'[b][i] = First(code, b) + i - 1
    BY <1>5 DEF Contiguous
  <2>1. CASE b = p
    <3>1. i \in 1 .. 1
      BY <1>8, <2>1
    <3>2. i = 1
      BY <3>1
    <3>3. p = p + 1 - 1
      BY <1>1, <1>4
    <3>4. ins'[b][i] = p /\ First(code, b) = p
      BY <1>7, <1>8, <2>1, <3>2
    <3> QED
      BY <3>2, <3>3, <3>4
  <2>2. CASE b # p
    BY <1>8, <2>2, Edges DEF Contiguous
  <2> QED
    BY <2>1, <2>2
<1>11. CurIsOpen'
  <2>1. Len(ins'[p]) = p - First(code, p) + 1
    BY <1>1, <1>4, <1>7, <1>8
  <2>2. ASSUME NEW i \in 1 .. Len(ins'[p])
        PROVE  code[ins'[p][i]].op \notin {"TJMP", "TIFF"}
    <3>1. i \in 1 .. 1
      BY <1>8
    <3>2. i = 1
      BY <3>1
    <3> QED
      BY <1>2, <1>8, <3>2
  <2> QED
    BY <1>5, <2>1, <2>2 DEF CurIsOpen
<1>12. Closed(code, ins'[cur], {next'[cur], jmp'[cur]} \ {NoBlock})
  <2>1. n \in Nat /\ n # 0
    BY <1>1, <1>2, Numbers
  <2>2. /\ \A i \in 1 .. n : code[ins[cur][i]].op \notin {"TJMP", "TIFF"}
        /\ ins[cur][n] = pos /\ pos \in 1 .. Len(code)
    BY <2>1, OpenEnd
  <2> HIDE DEF n
  <2>3. code[pos].op \notin {"TJMP", "TIFF"}
    <3>1. n \in 1 .. n
      BY <2>1
    <3> QED
      BY <2>2, <3>1
  <2>4. Succs(code, pos) = {p}
    <3>1. Succs(code, pos) = {pos + 1} \cap 1 .. Len(code)
      BY <1>2, <2>2, <2>3, GoesOn
    <3> QED
      BY <1>3, <3>1 DEF p
  <2>5. next'[cur] = p /\ jmp'[cur] = NoBlock
    <3>1. jmp[cur] = NoBlock
      BY <1>1, Edges DEF OpenBehind
    <3>2. next \in [Blocks(code) -> Blocks(code) \cup {NoBlock}]
      BY DEF Placed, TypeOK
    <3> QED
      BY <1>1, <1>5, <3>1, <3>2
  <2>6. {next'[cur], jmp'[cur]} \ {NoBlock} = {p}
    BY <1>4, <2>5, Numbers
  <2>7. {First(code, d) : d \in {p}} = {p}
    BY <1>7
  <2>8. ins'[cur] = ins[cur]
    BY <1>1, <1>4, <1>6, <1>8
  <2>9. \A i \in 1 .. n - 1 : i \in 1 .. n
    BY <2>1
  <2>10. Closed(code, ins[cur], {p})
    BY <1>2, <2>2, <2>4, <2>7, <2>9 DEF Closed, n
  <2> QED
    BY <2>6, <2>8, <2>10
<1>13. ClosedBefore' /\ OpenBehind'
  <2>1. \A b \in Blocks(code) : ~ (cur < b /\ b < p)
    <3>1. \A b \in Blocks(code) : b < p => b <= pos
      BY <1>1 DEF p
    <3> QED
      BY <3>1, Edges DEF CurIsLast
  <2>2. \A b \in Blocks(code) : b # cur => next'[b] = next[b] /\ jmp'[b] = jmp[b]
    BY <1>5 DEF Placed, TypeOK
  <2>3. \A b \in Blocks(code) : b < cur => b # p /\ b # cur
    BY <1>1, <1>4, <1>6
  <2>4. \A b \in Blocks(code) : b > cur => b # cur
    BY <1>1
  <2>5. p > cur
    BY <1>1, <1>4, <1>6
  <2> QED
    BY <1>4, <1>5, <1>8, <1>12, <2>1, <2>2, <2>3, <2>4, <2>5, EdgesLeave
<1> QED
  BY <1>9, <1>10, <1>11, <1>13 DEF EdgeInv

\* An instruction that ends cur is pushed to it, and the block behind is entered.
LEMMA EdgesEnd ==
  ASSUME Placed, EdgeInv, NoShift, pos < Len(code), Push(cur), pos' = pos + 1,
         code' = code, NEW d \in Blocks(code), cur' = d, d > cur, d > pos,
         \A b \in Blocks(code) : ~ (cur < b /\ b < d),
         First(code, d) = pos + 2,
         \A b \in Blocks(code) : b # cur => next'[b] = next[b] /\ jmp'[b] = jmp[b],
         {First(code, b) : b \in {next'[cur], jmp'[cur]} \ {NoBlock}} = Succs(code, pos + 1)
  PROVE  EdgeInv'
<1>1. /\ pos \in Nat /\ cur \in Blocks(code)
      /\ \A b \in Blocks(code) : b \in Nat
  BY Numbers
<1>2. CurIsLast'
  BY <1>1 DEF CurIsLast
<1>3. Contiguous'
  BY PushedToCur DEF Contiguous
<1>4. ins'[d] = << >> /\ Len(ins'[d]) = 0
  <2>1. d # cur
    BY <1>1
  <2>2. ins'[d] = ins[d]
    BY <2>1, PushedToCur
  <2>3. ins[d] = << >>
    BY DEF Placed, OrderInv
  <2> QED
    BY <2>2, <2>3
<1>5. CurIsOpen'
  <2>1. pos' - First(code, d) + 1 = 0
    BY <1>1
  <2> QED
    BY <1>4, <2>1 DEF CurIsOpen
<1>6. Closed(code, ins'[cur], {next'[cur], jmp'[cur]} \ {NoBlock})
  <2> DEFINE s == ins'[cur]
  <2>1. /\ s # << >>
        /\ \A i \in 1 .. Len(s) - 1 : code[s[i]].op \notin {"TJMP", "TIFF"}
        /\ s[Len(s)] = pos + 1
    BY PushedToCur
  <2> HIDE DEF s
  <2>2. Closed(code, s, {next'[cur], jmp'[cur]} \ {NoBlock})
    BY <2>1 DEF Closed
  <2> QED
    BY <2>2 DEF s
<1>7. ClosedBefore' /\ OpenBehind'
  <2>1. \A b \in Blocks(code) : b < cur \/ b > cur => b # cur
    BY <1>1
  <2>2. \A b \in Blocks(code) : b # cur => ins'[b] = ins[b]
    BY PushedToCur
  <2>3. /\ \A b \in Blocks(code) :
             b < cur => ins'[b] = ins[b] /\ next'[b] = next[b] /\ jmp'[b] = jmp[b]
        /\ \A b \in Blocks(code) : b > cur => next'[b] = next[b] /\ jmp'[b] = jmp[b]
    BY <2>1, <2>2
  <2> QED
    BY <1>6, <2>3, EdgesLeave
<1> QED
  BY <1>2, <1>3, <1>5, <1>7 DEF EdgeInv

\* The block behind cur is the first that begins among the instructions to come.
LEMMA NextBlock ==
  ASSUME Placed, EdgeInv, NoShift, NEW q \in Blocks(code), q > cur,
         \A b \in Blocks(code) : b > pos => q <= b
  PROVE  /\ FirstIn(Behind(code, cur)) = q
         /\ \A b \in Blocks(code) : ~ (cur < b /\ b < q)
<1>1. /\ pos \in Nat /\ cur \in Nat
      /\ \A b \in Blocks(code) : b \in Nat
  BY Numbers
<1>2. \A b \in Blocks(code) : b > cur => q <= b
  <2>1. \A b \in Blocks(code) : b > cur => b > pos
    BY <1>1, Edges DEF CurIsLast
  <2> QED
    BY <2>1
<1>3. /\ Behind(code, cur) \subseteq Nat /\ q \in Behind(code, cur)
      /\ \A b \in Behind(code, cur) : q <= b
  BY <1>1, <1>2 DEF Behind
<1>4. FirstIn(Behind(code, cur)) = q
  BY <1>3, FirstInIs
<1>5. \A b \in Blocks(code) : ~ (cur < b /\ b < q)
  BY <1>1, <1>2
<1> QED
  BY <1>4, <1>5

\* A jump closes its block; the label behind it opens the next.
LEMMA EdgesJump == Placed /\ EdgeInv /\ NoShift /\ PlaceJump => EdgeInv'
<1> SUFFICES ASSUME Placed, EdgeInv, NoShift, PlaceJump
             PROVE  EdgeInv'
  OBVIOUS
<1> DEFINE p == pos + 1
           q == pos + 2
<1>1. /\ pos \in Nat /\ cur \in Nat /\ cur \in Blocks(code) /\ Len(code) \in Nat
      /\ \A b \in Blocks(code) : b \in Nat
  BY Numbers
<1>2. /\ code \in Seq(Instrs) /\ WellFormed(code) /\ pos < Len(code)
      /\ code[p].op = "TJMP" /\ ins[cur] # << >>
  BY DEF PlaceJump, Placed, TypeOK
<1>3. p \in 1 .. Len(code)
  BY <1>1, <1>2
<1>4. q \in 1 .. Len(code) /\ code[q].op = "TLABEL"
  <2>1. p < Len(code) /\ code[p + 1].op = "TLABEL"
    BY <1>2, <1>3 DEF WellFormed
  <2>2. p + 1 = q
    BY <1>1
  <2> QED
    BY <1>1, <2>1, <2>2
<1>5. PICK t \in 1 .. Len(code) : /\ t \in Blocks(code)
                                 /\ code[t].op = "TLABEL"
                                 /\ FirstIn(WithId(code, code[p].r)) = t
                                 /\ LabelAt(code, code[p].r) = {t}
  BY <1>2, <1>3, JumpTarget
<1>6. q \in Blocks(code) /\ p \notin Blocks(code)
  BY <1>2, <1>3, <1>4, BlockNames
<1>7. cur <= pos
  BY <1>2, CurBehind
<1>8. q > cur /\ q > pos /\ \A b \in Blocks(code) : b > pos => q <= b
  BY <1>1, <1>6, <1>7
<1>9. /\ FirstIn(Behind(code, cur)) = q
      /\ \A b \in Blocks(code) : ~ (cur < b /\ b < q)
  BY <1>6, <1>8, NextBlock
<1>10. /\ Push(cur) /\ pos' = p /\ code' = code /\ cur' = q
       /\ next' = [next EXCEPT ![cur] = NoBlock]
       /\ jmp' = [jmp EXCEPT ![cur] = t]
  BY <1>5, <1>9 DEF PlaceJump
<1>11. First(code, q) = q /\ First(code, t) = t
  BY <1>1, <1>4, <1>5 DEF First
<1>12. /\ next'[cur] = NoBlock /\ jmp'[cur] = t
       /\ \A b \in Blocks(code) : b # cur => next'[b] = next[b] /\ jmp'[b] = jmp[b]
  BY <1>1, <1>10 DEF Placed, TypeOK
<1>13. {First(code, b) : b \in {next'[cur], jmp'[cur]} \ {NoBlock}} = Succs(code, p)
  <2>1. Succs(code, p) = {t}
    BY <1>2, <1>5 DEF Succs
  <2>2. t # NoBlock
    BY <1>5, Numbers
  <2>3. {next'[cur], jmp'[cur]} \ {NoBlock} = {t}
    BY <1>12, <2>2
  <2> QED
    BY <1>11, <2>1, <2>3
<1> QED
  BY <1>2, <1>6, <1>8, <1>9, <1>10, <1>11, <1>12, <1>13, EdgesEnd

\* A branch closes its block and opens its own.
LEMMA EdgesBranch == Placed /\ EdgeInv /\ NoShift /\ PlaceBranch => EdgeInv'
<1> SUFFICES ASSUME Placed, EdgeInv, NoShift, PlaceBranch
             PROVE  EdgeInv'
  OBVIOUS
<1> DEFINE p == pos + 1
<1>1. /\ pos \in Nat /\ cur \in Nat /\ cur \in Blocks(code) /\ Len(code) \in Nat
      /\ \A b \in Blocks(code) : b \in Nat
  BY Numbers
<1>2. /\ code \in Seq(Instrs) /\ WellFormed(code) /\ pos < Len(code)
      /\ code[p].op = "TIFF" /\ ins[cur] # << >>
  BY DEF PlaceBranch, Placed, TypeOK
<1>3. p \in 1 .. Len(code)
  BY <1>1, <1>2
<1>4. p < Len(code) /\ p + 1 = pos + 2 /\ p + 1 \in 1 .. Len(code)
  <2>1. p < Len(code)
    BY <1>2, <1>3, JumpTarget
  <2> QED
    BY <1>1, <2>1
<1>5. PICK t \in 1 .. Len(code) : /\ t \in Blocks(code)
                                 /\ code[t].op = "TLABEL"
                                 /\ FirstIn(WithId(code, code[p].r)) = t
                                 /\ LabelAt(code, code[p].r) = {t}
  BY <1>2, <1>3, JumpTarget
<1>6. p \in Blocks(code)
  BY <1>2, <1>3, BlockNames
<1>7. cur <= pos
  BY <1>2, CurBehind
<1>8. p > cur /\ p > pos /\ \A b \in Blocks(code) : b > pos => p <= b
  BY <1>1, <1>7
<1>9. /\ FirstIn(Behind(code, cur)) = p
      /\ \A b \in Blocks(code) : ~ (cur < b /\ b < p)
  BY <1>6, <1>8, NextBlock
<1>10. /\ Push(cur) /\ pos' = p /\ code' = code /\ cur' = p
       /\ next' = [next EXCEPT ![cur] = p]
       /\ jmp' = [jmp EXCEPT ![cur] = t]
  BY <1>5, <1>9 DEF PlaceBranch
<1>11. First(code, p) = pos + 2 /\ First(code, t) = t
  BY <1>1, <1>2, <1>4, <1>5 DEF First
<1>12. /\ next'[cur] = p /\ jmp'[cur] = t
       /\ \A b \in Blocks(code) : b # cur => next'[b] = next[b] /\ jmp'[b] = jmp[b]
  BY <1>1, <1>10 DEF Placed, TypeOK
<1>13. {First(code, b) : b \in {next'[cur], jmp'[cur]} \ {NoBlock}} = Succs(code, p)
  <2>1. Succs(code, p) = {t} \cup {pos + 2}
    <3>1. {p + 1} \cap DOMAIN code = {pos + 2}
      BY <1>2, <1>4
    <3>2. Succs(code, p) = LabelAt(code, code[p].r) \cup ({p + 1} \cap DOMAIN code)
      BY <1>2 DEF Succs
    <3> QED
      BY <1>5, <3>1, <3>2
  <2>2. t # NoBlock /\ p # NoBlock
    BY <1>5, <1>6, Numbers
  <2>3. {next'[cur], jmp'[cur]} \ {NoBlock} = {p, t}
    BY <1>12, <2>2
  <2>4. {First(code, b) : b \in {p, t}} = {pos + 2, t}
    BY <1>11
  <2> QED
    BY <2>1, <2>3, <2>4
<1> QED
  BY <1>2, <1>6, <1>8, <1>9, <1>10, <1>11, <1>12, <1>13, EdgesEnd

\* The first block is open and holds nothing.
LEMMA EdgesInit == Init => EdgeInv
<1> SUFFICES ASSUME Init
             PROVE  EdgeInv
  OBVIOUS
<1>1. code \in Seq(Instrs)
  BY ProgramsAssumption DEF Init
<1>2. Blocks(code) \subseteq 0 .. Len(code) /\ 0 \in Blocks(code)
  BY <1>1, BlockNames
<1>3. /\ pos = 0 /\ cur = 0
      /\ \A b \in Blocks(code) : /\ ins[b] = << >> /\ Len(ins[b]) = 0
                                  /\ next[b] = NoBlock /\ jmp[b] = NoBlock
  BY DEF Init
<1>4. \A b \in Blocks(code) : b \in Nat
  BY <1>2
<1>5. CurIsLast /\ ClosedBefore
  BY <1>3, <1>4 DEF CurIsLast, ClosedBefore
<1>6. Contiguous /\ OpenBehind
  BY <1>3 DEF Contiguous, OpenBehind
<1>7. CurIsOpen
  BY <1>2, <1>3 DEF CurIsOpen, First
<1> QED
  BY <1>5, <1>6, <1>7 DEF EdgeInv

\* Every step keeps the closed blocks' edges right.
LEMMA EdgesNext == Placed /\ EdgeInv /\ [Next]_vars => EdgeInv'
<1> SUFFICES ASSUME Placed, EdgeInv, [Next]_vars, NoShift'
             PROVE  EdgeInv'
  BY DEF EdgeInv
<1>1. code' = code
  BY DEF Next, vars, PlaceFirst, PlaceLabel, PlaceJump, PlaceBranch, PlacePlain
<1>2. NoShift
  BY <1>1 DEF NoShift
<1>3. CASE UNCHANGED vars
  <2>1. /\ code' = code /\ pos' = pos /\ cur' = cur /\ ins' = ins
        /\ next' = next /\ jmp' = jmp
    BY <1>3 DEF vars
  <2> QED
    BY <1>2, <2>1, Edges DEF EdgeInv, CurIsLast, Contiguous, CurIsOpen, ClosedBefore,
                             OpenBehind
<1> QED
  BY <1>2, <1>3, EdgesFirst, EdgesLabel, EdgesJump, EdgesBranch, EdgesPlain DEF Next

\* When all instructions are placed, every block is closed but the last, which
\* control leaves nowhere.
LEMMA EdgesDone == Placed /\ EdgeInv => EdgesFollowCode
<1> SUFFICES ASSUME Placed, EdgeInv, pos = Len(code), NoShift, NEW b \in Blocks(code)
             PROVE  /\ ins[b] # << >>
                    /\ \A i \in 1 .. Len(ins[b]) - 1 : Succs(code, ins[b][i]) = {ins[b][i + 1]}
                    /\ {ins[d][1] : d \in {next[b], jmp[b]} \ {NoBlock}}
                          = Succs(code, ins[b][Len(ins[b])])
  BY DEF EdgesFollowCode
<1>1. /\ pos \in Nat /\ cur \in Nat /\ cur \in Blocks(code)
      /\ \A d \in Blocks(code) : d \in Nat /\ d <= Len(code) /\ d # NoBlock
      /\ code \in Seq(Instrs) /\ WellFormed(code)
      /\ \A d \in Blocks(code) : ins[d] \in Seq(1 .. Len(code))
  <2>1. /\ code \in Seq(Instrs) /\ WellFormed(code)
        /\ \A d \in Blocks(code) : ins[d] \in Seq(1 .. Len(code))
    BY DEF Placed, TypeOK
  <2> QED
    BY <2>1, Numbers
<1>2. \A d \in Blocks(code) : d <= cur
  BY <1>1, Edges DEF CurIsLast
<1>3. ins[cur] # << >>
  <2>1. First(code, cur) <= Len(code)
    <3>1. CASE cur = 0
      BY <1>1, <3>1 DEF First, WellFormed
    <3>2. CASE cur # 0 /\ code[cur].op = "TLABEL"
      BY <1>1, <3>2 DEF First
    <3>3. CASE cur # 0 /\ code[cur].op # "TLABEL"
      <4>1. cur \in 1 .. Len(code)
        BY <1>1, <3>3
      <4>2. code[cur].op = "TIFF"
        BY <1>1, <3>3, <4>1, BlockNames
      <4>3. cur < Len(code)
        BY <1>1, <4>1, <4>2, JumpTarget
      <4> QED
        BY <1>1, <3>3, <4>3 DEF First
    <3> QED
      BY <3>1, <3>2, <3>3
  <2>2. Len(ins[cur]) = pos - First(code, cur) + 1 /\ First(code, cur) \in Nat
    BY OpenEnd
  <2>3. Len(ins[cur]) # 0
    BY <1>1, <2>1, <2>2
  <2> QED
    BY <1>1, <2>3
<1>4. \A d \in Blocks(code) : ins[d] # << >>
  <2>1. \A d \in Blocks(code) : d = cur \/ d < cur
    BY <1>1, <1>2
  <2> QED
    BY <1>3, <2>1, Edges DEF ClosedBefore, Closed
<1>5. \A d \in Blocks(code) : ins[d][1] = First(code, d)
  <2> SUFFICES ASSUME NEW d \in Blocks(code)
               PROVE  ins[d][1] = First(code, d)
    OBVIOUS
  <2>1. Len(ins[d]) \in Nat /\ Len(ins[d]) # 0 /\ First(code, d) \in Nat
    BY <1>4, Numbers
  <2>2. 1 \in 1 .. Len(ins[d])
    BY <2>1
  <2>3. ins[d][1] = First(code, d) + 1 - 1
    BY <2>2, Edges DEF Contiguous
  <2> QED
    BY <2>1, <2>3
<1>6. \A d \in {next[b], jmp[b]} \ {NoBlock} : d \in Blocks(code)
  BY DEF Placed, TypeOK
<1>7. {ins[d][1] : d \in {next[b], jmp[b]} \ {NoBlock}}
        = {First(code, d) : d \in {next[b], jmp[b]} \ {NoBlock}}
  BY <1>5, <1>6
<1>8. /\ \A i \in 1 .. Len(ins[b]) - 1 : code[ins[b][i]].op \notin {"TJMP", "TIFF"}
      /\ {First(code, d) : d \in {next[b], jmp[b]} \ {NoBlock}}
           = Succs(code, ins[b][Len(ins[b])])
  <2>1. CASE b < cur
    BY <2>1, Edges DEF ClosedBefore, Closed
  <2>2. CASE b = cur
    <3> DEFINE n == Len(ins[cur])
    <3>1. n \in Nat /\ n # 0
      BY <1>1, <1>3, Numbers
    <3>2. /\ \A i \in 1 .. n : code[ins[cur][i]].op \notin {"TJMP", "TIFF"}
          /\ ins[cur][n] = pos /\ pos \in 1 .. Len(code)
      BY <3>1, OpenEnd
    <3> HIDE DEF n
    <3>3. n \in 1 .. n /\ \A i \in 1 .. n - 1 : i \in 1 .. n
      BY <3>1
    <3>4. Succs(code, pos) = {pos + 1} \cap 1 .. Len(code)
      BY <1>1, <3>2, <3>3, GoesOn
    <3>5. Succs(code, pos) = {}
      BY <1>1, <3>4
    <3>6. next[cur] = NoBlock /\ jmp[cur] = NoBlock
      BY <1>1, Edges DEF OpenBehind
    <3> QED
      BY <2>2, <3>2, <3>3, <3>5, <3>6 DEF n
  <2>3. cur \in Nat /\ b \in Nat /\ b <= cur
    BY <1>1, <1>2, BlockNames
  <2>4. b < cur \/ b = cur
    BY <2>3
  <2> QED
    BY <2>1, <2>2, <2>4
<1>9. ASSUME NEW i \in 1 .. Len(ins[b]) - 1
      PROVE  Succs(code, ins[b][i]) = {ins[b][i + 1]}
  <2>1. i \in 1 .. Len(ins[b]) /\ i + 1 \in 1 .. Len(ins[b])
    BY <1>1
  <2>2. ins[b][i] = First(code, b) + i - 1 /\ ins[b][i + 1] = First(code, b) + (i + 1) - 1
    BY <2>1, Edges DEF Contiguous
  <2>3. ins[b][i] \in 1 .. Len(code) /\ ins[b][i + 1] \in 1 .. Len(code)
    <3>1. ins[b] \in Seq(1 .. Len(code))
      BY DEF Placed, TypeOK
    <3> QED
      BY <2>1, <3>1, SMTT(30)
  <2>4. First(code, b) \in Nat
    BY Numbers
  <2>5. ins[b][i + 1] = ins[b][i] + 1
    BY <2>2, <2>4
  <2>6. Succs(code, ins[b][i]) = {ins[b][i] + 1} \cap 1 .. Len(code)
    BY <1>1, <1>8, <2>3, GoesOn
  <2> QED
    BY <2>3, <2>5, <2>6
<1> QED
  BY <1>4, <1>7, <1>8, <1>9

\* Where no block boundary is missed, the finished blocks are the flow graph of
\* the code.
THEOREM EdgesFollowCodeAlways == Spec => []EdgesFollowCode
<1>1. Init => Placed /\ EdgeInv
  BY PlacedInit, EdgesInit
<1>2. Placed /\ EdgeInv /\ [Next]_vars => (Placed /\ EdgeInv)'
  BY PlacedNext, EdgesNext
<1> QED
  BY <1>1, <1>2, EdgesDone, PTL DEF Spec

-----------------------------------------------------------------------------
(* The predecessors. *)

\* The instructions among the first n that jump to block d.
Jumpers(cd, d, n) ==
    {p \in 1 .. n : cd[p].op \in {"TJMP", "TIFF"} /\ FirstIn(WithId(cd, cd[p].r)) = d}

\* pred has room for all of them and for the block in front.
RoomForPreds ==
    \A d \in Blocks(code) : Cardinality(Jumpers(code, d, Len(code))) < MaxPredecessors

\* How often a block is among some predecessors.
Times(s, b) == Cardinality({i \in 1 .. Len(s) : s[i] = b})

\* cur's edges are set when it is left, so it has none yet and nobody has it as
\* predecessor; besides its jumpers a block has at most one, once it is cur.
PredInv ==
    /\ PredsMatchEdges
    /\ OpenBehind
    /\ \A d \in Blocks(code) :
         Len(pred[d]) <= Cardinality(Jumpers(code, d, pos)) + IF d <= cur THEN 1 ELSE 0

\* One instruction more, one jumper more or none.
LEMMA JumpersGrow ==
  ASSUME NEW cd, NEW d, NEW n \in Nat
  PROVE  /\ IsFiniteSet(Jumpers(cd, d, n)) /\ Cardinality(Jumpers(cd, d, n)) \in Nat
         /\ Cardinality(Jumpers(cd, d, n + 1)) \in Nat
         /\ Cardinality(Jumpers(cd, d, n)) <= Cardinality(Jumpers(cd, d, n + 1))
         /\ n + 1 \in Jumpers(cd, d, n + 1) =>
              Cardinality(Jumpers(cd, d, n + 1)) = Cardinality(Jumpers(cd, d, n)) + 1
<1>1. \A m \in Nat : IsFiniteSet(Jumpers(cd, d, m)) /\ Cardinality(Jumpers(cd, d, m)) \in Nat
  <2> SUFFICES ASSUME NEW m \in Nat
               PROVE  IsFiniteSet(Jumpers(cd, d, m)) /\ Cardinality(Jumpers(cd, d, m)) \in Nat
    OBVIOUS
  <2>1. IsFiniteSet(1 .. m)
    BY FS_Interval
  <2>2. Jumpers(cd, d, m) \in SUBSET (1 .. m)
    BY DEF Jumpers
  <2>3. IsFiniteSet(Jumpers(cd, d, m))
    BY <2>1, <2>2, FS_Subset
  <2> QED BY <2>3, FS_CardinalityType
<1>2. Jumpers(cd, d, n) \in SUBSET Jumpers(cd, d, n + 1) /\ n + 1 \notin Jumpers(cd, d, n)
  BY DEF Jumpers
<1>3. IsFiniteSet(Jumpers(cd, d, n + 1)) /\ n + 1 \in Nat
  BY <1>1
<1>4. Cardinality(Jumpers(cd, d, n)) <= Cardinality(Jumpers(cd, d, n + 1))
  BY <1>2, <1>3, FS_Subset
<1>5. ASSUME n + 1 \in Jumpers(cd, d, n + 1)
      PROVE  Cardinality(Jumpers(cd, d, n + 1)) = Cardinality(Jumpers(cd, d, n)) + 1
  <2>1. Jumpers(cd, d, n + 1) = Jumpers(cd, d, n) \cup {n + 1}
    BY <1>5 DEF Jumpers
  <2> QED BY <1>1, <1>2, <2>1, FS_AddElement
<1> QED BY <1>1, <1>3, <1>4, <1>5

\* The list's end has the most.
LEMMA JumpersMost ==
  ASSUME NEW cd, NEW d, NEW n \in Nat, NEW m \in Nat, m <= n
  PROVE  Cardinality(Jumpers(cd, d, m)) <= Cardinality(Jumpers(cd, d, n))
<1>1. Jumpers(cd, d, m) \in SUBSET Jumpers(cd, d, n)
  BY DEF Jumpers
<1> QED BY <1>1, JumpersGrow, FS_Subset

\* Appending p counts for p alone.
LEMMA TimesAppend ==
  ASSUME NEW S, NEW s \in Seq(S), NEW p \in S, NEW b
  PROVE  /\ p = b => Times(Append(s, p), b) = Times(s, b) + 1
         /\ p # b => Times(Append(s, p), b) = Times(s, b)
<1> DEFINE n == Len(s)
           t == Append(s, p)
           At(u) == {i \in 1 .. Len(u) : u[i] = b}
<1>1. n \in Nat /\ Len(t) = n + 1 /\ t[n + 1] = p /\ \A i \in 1 .. n : t[i] = s[i]
  OBVIOUS
<1>2. IsFiniteSet(At(s)) /\ n + 1 \notin At(s)
  <2>1. At(s) \in SUBSET (1 .. n) /\ n + 1 \notin At(s)
    OBVIOUS
  <2>2. IsFiniteSet(1 .. n)
    <3> HIDE DEF n
    <3> QED BY <1>1, FS_Interval
  <2> HIDE DEF At, n
  <2> QED BY <2>1, <2>2, FS_Subset
<1>3. CASE p = b
  <2>1. At(t) = At(s) \cup {n + 1}
    <3> HIDE DEF t
    <3> QED BY <1>1, <1>3
  <2>2. Cardinality(At(t)) = Cardinality(At(s)) + 1
    <3> HIDE DEF At, t, n
    <3> QED BY <1>2, <2>1, FS_AddElement
  <2> QED BY <1>3, <2>2 DEF Times
<1>4. CASE p # b
  <2>1. At(t) = At(s)
    <3> HIDE DEF t
    <3> QED BY <1>1, <1>4
  <2>2. Cardinality(At(t)) = Cardinality(At(s))
    <3> HIDE DEF At, t
    <3> QED BY <2>1
  <2> QED BY <1>4, <2>2 DEF Times
<1> QED BY <1>3, <1>4

\* The type of pred.
Preds(D) == [D -> Seq(D)]

\* Nothing is among no predecessors.
LEMMA TimesNone ==
  ASSUME NEW b PROVE Times(<< >>, b) = 0
<1>1. {i \in 1 .. Len(<< >>) : << >>[i] = b} = {}
  OBVIOUS
<1> QED BY <1>1, FS_EmptySet DEF Times

\* b's predecessors have room for p.
LEMMA OneMore ==
  ASSUME NEW D, NEW pr \in Preds(D), NEW b \in D, NEW p \in D,
         Len(pr[b]) < MaxPredecessors, NEW new, new = WithPred(pr, b, p)
  PROVE  /\ new \in Preds(D)
         /\ \A d \in D : d # b => new[d] = pr[d]
         /\ Len(new[b]) = Len(pr[b]) + 1
         /\ Times(new[b], p) = Times(pr[b], p) + 1
         /\ \A c \in D : c # p => Times(new[b], c) = Times(pr[b], c)
<1>1. new = [pr EXCEPT ![b] = Append(pr[b], p)]
  BY DEF WithPred
<1>2. new[b] = Append(pr[b], p) /\ \A d \in D : d # b => new[d] = pr[d]
  BY <1>1 DEF Preds
<1>3. pr[b] \in Seq(D)
  BY DEF Preds
<1>4. Len(Append(pr[b], p)) = Len(pr[b]) + 1
  BY <1>3
<1>5. Times(Append(pr[b], p), p) = Times(pr[b], p) + 1
  BY <1>3, TimesAppend
<1>6. \A c \in D : c # p => Times(Append(pr[b], p), c) = Times(pr[b], c)
  BY <1>3, TimesAppend
<1>7. new \in Preds(D)
  BY WithPredType DEF Preds
<1> QED BY <1>2, <1>4, <1>5, <1>6, <1>7

\* What a step uses of where it stands.
LEMMA PredFacts ==
  ASSUME Placed, pos < Len(code), ins[cur] # << >>
  PROVE  /\ pos \in Nat /\ pos + 1 \in 1 .. Len(code) /\ Len(code) \in Nat
         /\ cur \in Blocks(code) /\ cur <= pos
         /\ code \in Seq(Instrs) /\ WellFormed(code)
         /\ pred \in [Blocks(code) -> Seq(Blocks(code))]
         /\ next \in [Blocks(code) -> Blocks(code) \cup {NoBlock}]
         /\ jmp \in [Blocks(code) -> Blocks(code) \cup {NoBlock}]
         /\ \A d \in Blocks(code) : d \in Nat /\ d # NoBlock
BY CurBehind, BlockNames DEF Placed, TypeOK, NoBlock

\* A step that adds the block of S, if it holds one, to p's successors in f and p
\* to that block's predecessors.
EdgeTo(D, f, p, S, f2) ==
    /\ f[p] = NoBlock
    /\ \A b \in D : b # p => f2[b] = f[b]
    /\ f2[p] \in S \cup {NoBlock} /\ S \subseteq {f2[p]}
Added(pr, p, S, new) ==
    /\ \A b, c \in S : b = c
    /\ \A b \in S : Len(pr[b]) < MaxPredecessors /\ new = WithPred(pr, b, p)
    /\ S = {} => new = pr
PredTo(D, pr, p, S, new) ==
    /\ \A c \in D : c \notin S => new[c] = pr[c]
    /\ \A c \in S : /\ Len(new[c]) = Len(pr[c]) + 1
                    /\ Times(new[c], p) = Times(pr[c], p) + 1
                    /\ \A b \in D : b # p => Times(new[c], b) = Times(pr[c], b)

\* An edge from p more to the block of S, if it holds one, for which there is room.
LEMMA OneMoreIn ==
  ASSUME NEW D, NEW S \in SUBSET D, NEW pr \in Preds(D), NEW p \in D,
         NEW new, Added(pr, p, S, new)
  PROVE  new \in Preds(D) /\ PredTo(D, pr, p, S, new)
<1>1. CASE S = {}
  BY <1>1 DEF Added, PredTo
<1>2. CASE S # {}
  <2>1. PICK b \in S : TRUE
    BY <1>2
  <2>2. S = {b} /\ b \in D
    BY <2>1 DEF Added
  <2>3. new = WithPred(pr, b, p) /\ Len(pr[b]) < MaxPredecessors
    BY <2>1 DEF Added
  <2>4. /\ new \in Preds(D)
        /\ \A d \in D : d # b => new[d] = pr[d]
        /\ Len(new[b]) = Len(pr[b]) + 1
        /\ Times(new[b], p) = Times(pr[b], p) + 1
        /\ \A c \in D : c # p => Times(new[b], c) = Times(pr[b], c)
    BY <2>2, <2>3, OneMore
  <2> QED BY <2>2, <2>4 DEF PredTo
<1> QED BY <1>1, <1>2

\* Of a block's jumpers, those up to pos and the next one.
LEMMA JumpersOf ==
  ASSUME Placed, RoomForPreds, pos < Len(code), NEW b \in Blocks(code)
  PROVE  \E x, y \in Nat :
           /\ x = Cardinality(Jumpers(code, b, pos))
           /\ y = Cardinality(Jumpers(code, b, pos + 1))
           /\ x <= y /\ y < MaxPredecessors
           /\ pos + 1 \in Jumpers(code, b, pos + 1) => y = x + 1
<1> DEFINE x == Cardinality(Jumpers(code, b, pos))
           y == Cardinality(Jumpers(code, b, pos + 1))
           z == Cardinality(Jumpers(code, b, Len(code)))
<1>1. pos \in Nat /\ pos + 1 \in Nat /\ Len(code) \in Nat /\ pos + 1 <= Len(code)
  BY DEF Placed, TypeOK
<1>2. x \in Nat /\ y \in Nat /\ x <= y /\ (pos + 1 \in Jumpers(code, b, pos + 1) => y = x + 1)
  BY <1>1, JumpersGrow
<1>3. y <= z /\ z \in Nat
  BY <1>1, JumpersMost, JumpersGrow
<1>4. z < MaxPredecessors
  BY DEF RoomForPreds
<1>5. y < MaxPredecessors
  <2> HIDE DEF y, z
  <2> QED BY <1>2, <1>3, <1>4, MaxPredecessorsAssumption
<1> QED BY <1>2, <1>5

\* PredsMatchEdges of the blocks D: it stays where pred gets what next and jmp get.
Mirrors(D, nx, jm, pr) ==
    \A b, c \in D : Times(pr[c], b) = Edge(nx, b, c) + Edge(jm, b, c)

\* p's edges are set, and the predecessors of their targets.
LEMMA EdgesAdded ==
  ASSUME NEW D, NoBlock \notin D, NEW J \in SUBSET D, NEW N \in SUBSET D, NEW p \in D,
         NEW nx, NEW jm, NEW pr, NEW nx2, NEW jm2, NEW pr1, NEW pr2,
         EdgeTo(D, nx, p, N, nx2), EdgeTo(D, jm, p, J, jm2),
         PredTo(D, pr, p, J, pr1), PredTo(D, pr1, p, N, pr2),
         Mirrors(D, nx, jm, pr)
  PROVE  Mirrors(D, nx2, jm2, pr2)
<1> SUFFICES ASSUME NEW b \in D, NEW c \in D
             PROVE  Times(pr2[c], b) = Edge(nx2, b, c) + Edge(jm2, b, c)
  BY DEF Mirrors
<1>0. Times(pr[c], b) = Edge(nx, b, c) + Edge(jm, b, c)
  BY DEF Mirrors
<1>1. CASE b # p
  <2>1. Times(pr1[c], b) = Times(pr[c], b)
    <3>1. CASE c \in J
      BY <1>1, <3>1 DEF PredTo
    <3>2. CASE c \notin J
      BY <3>2 DEF PredTo
    <3> QED BY <3>1, <3>2
  <2>2. Times(pr2[c], b) = Times(pr1[c], b)
    <3>1. CASE c \in N
      BY <1>1, <3>1 DEF PredTo
    <3>2. CASE c \notin N
      BY <3>2 DEF PredTo
    <3> QED BY <3>1, <3>2
  <2>3. Edge(nx2, b, c) = Edge(nx, b, c) /\ Edge(jm2, b, c) = Edge(jm, b, c)
    BY <1>1 DEF Edge, EdgeTo
  <2> QED BY <1>0, <2>1, <2>2, <2>3
<1>2. CASE b = p
  <2>1. Times(pr[c], p) = 0
    <3>1. Edge(nx, p, c) = 0 /\ Edge(jm, p, c) = 0
      BY DEF Edge, EdgeTo
    <3> QED BY <1>0, <1>2, <3>1
  <2>2. /\ c \in J => Times(pr1[c], p) = 1
        /\ c \notin J => Times(pr1[c], p) = 0
    BY <2>1 DEF PredTo
  <2>3. /\ c \in N => Times(pr2[c], p) = Times(pr1[c], p) + 1
        /\ c \notin N => Times(pr2[c], p) = Times(pr1[c], p)
    BY DEF PredTo
  <2>4. /\ c \in N => Edge(nx2, p, c) = 1
        /\ c \notin N => Edge(nx2, p, c) = 0
        /\ c \in J => Edge(jm2, p, c) = 1
        /\ c \notin J => Edge(jm2, p, c) = 0
    BY DEF Edge, EdgeTo
  <2>5. Times(pr2[c], p) = Edge(nx2, p, c) + Edge(jm2, p, c)
    <3>1. CASE c \in N
      BY <2>2, <2>3, <2>4, <3>1
    <3>2. CASE c \notin N
      BY <2>2, <2>3, <2>4, <3>2
    <3> QED BY <3>1, <3>2
  <2> QED BY <1>2, <2>5
<1> QED BY <1>1, <1>2

\* A step that leaves cur for d, by a jump to the block of J, by falling through
\* to the one of N, or both.
Leaves(J, N, d, pr) ==
    /\ pos < Len(code) /\ ins[cur] # << >>
    /\ J \in SUBSET Blocks(code) /\ \A b, c \in J : b = c
    /\ \A b \in J : pos + 1 \in Jumpers(code, b, pos + 1)
    /\ d \in Blocks(code) /\ d > cur /\ N \subseteq {d}
    /\ next' = [next EXCEPT ![cur] = IF N = {} THEN NoBlock ELSE d]
    /\ IF J = {} THEN jmp' = jmp /\ pr = pred
       ELSE \A b \in J : jmp' = [jmp EXCEPT ![cur] = b] /\ pr = WithPred(pred, b, cur)
    /\ IF N = {} THEN pred' = pr ELSE pred' = WithPred(pr, d, cur)
    /\ cur' = d /\ code' = code /\ pos' = pos + 1

\* Such a step keeps pred the inverse of next and jmp, within the bound.
LEMMA PredsLeave ==
  ASSUME Placed, PredInv, RoomForPreds, NEW J, NEW N, NEW d, NEW pr, Leaves(J, N, d, pr)
  PROVE  PredInv'
<1>0. /\ pos < Len(code) /\ ins[cur] # << >>
      /\ J \in SUBSET Blocks(code) /\ N \in SUBSET Blocks(code)
      /\ d \in Blocks(code) /\ d > cur /\ N \subseteq {d}
      /\ \A b, c \in J : b = c
      /\ \A b \in J : pos + 1 \in Jumpers(code, b, pos + 1)
      /\ next' = [next EXCEPT ![cur] = IF N = {} THEN NoBlock ELSE d]
      /\ J = {} => jmp' = jmp
      /\ \A b \in J : jmp' = [jmp EXCEPT ![cur] = b]
      /\ J = {} => pr = pred
      /\ \A b \in J : pr = WithPred(pred, b, cur)
      /\ N = {} => pred' = pr
      /\ \A b \in N : pred' = WithPred(pr, b, cur)
      /\ cur' = d /\ code' = code /\ pos' = pos + 1
  BY DEF Leaves
<1>1. PICK D : D = Blocks(code)
  OBVIOUS
<1>2. PICK c0, pr0, nx0, jm0 : c0 \in D /\ c0 = cur /\ pr0 = pred /\ nx0 = next /\ jm0 = jmp
  BY <1>0, <1>1, PredFacts
<1>3. PICK pr2, nx2, jm2 : pr2 = pred' /\ nx2 = next' /\ jm2 = jmp'
  OBVIOUS
<1>4. /\ d \in D /\ d \in Nat /\ c0 \in Nat /\ J \in SUBSET D /\ N \in SUBSET D
      /\ pr0 \in Preds(D)
      /\ nx0 \in [D -> D \cup {NoBlock}] /\ jm0 \in [D -> D \cup {NoBlock}]
      /\ NoBlock \notin D /\ c0 < d /\ \A b \in D : b \in Nat
  BY <1>0, <1>1, <1>2, PredFacts DEF Preds
<1>5. \A b \in D : \E x, y \in Nat :
        /\ x = Cardinality(Jumpers(code, b, pos)) /\ y = Cardinality(Jumpers(code, b, pos + 1))
        /\ x <= y /\ y < MaxPredecessors
        /\ b \in J => y = x + 1
  BY <1>0, <1>1, JumpersOf
<1>6. \A b \in D :
        /\ Len(pr0[b]) \in Nat
        /\ Len(pr0[b]) <= Cardinality(Jumpers(code, b, pos)) + IF b <= c0 THEN 1 ELSE 0
  BY <1>1, <1>2, <1>4 DEF PredInv, Preds
<1>7. Mirrors(D, nx0, jm0, pr0)
  BY <1>1, <1>2 DEF PredInv, PredsMatchEdges, Mirrors, Times
<1>8. \A b \in D : b >= c0 => nx0[b] = NoBlock /\ jm0[b] = NoBlock
  BY <1>1, <1>2 DEF PredInv, OpenBehind
<1>9. pr \in Preds(D) /\ PredTo(D, pr0, c0, J, pr)
  <2>1. \A b \in J : Len(pr0[b]) < MaxPredecessors
    <3> SUFFICES ASSUME NEW b \in J PROVE Len(pr0[b]) < MaxPredecessors
      OBVIOUS
    <3>1. PICK x \in Nat, y \in Nat :
            x = Cardinality(Jumpers(code, b, pos)) /\ y < MaxPredecessors /\ y = x + 1
      BY <1>4, <1>5
    <3>2. Len(pr0[b]) \in Nat /\ Len(pr0[b]) <= x + 1
      BY <1>4, <1>6, <3>1
    <3> QED BY <3>1, <3>2, MaxPredecessorsAssumption
  <2>2. J = {} => pr = pr0
    BY <1>0, <1>2
  <2>3. \A b \in J : pr = WithPred(pr0, b, c0)
    BY <1>0, <1>2
  <2>4. Added(pr0, c0, J, pr)
    BY <1>0, <2>1, <2>2, <2>3 DEF Added
  <2> QED BY <1>2, <1>4, <2>4, OneMoreIn
<1>10. pr2 \in Preds(D) /\ PredTo(D, pr, c0, N, pr2)
  <2>1. \A b \in N : Len(pr[b]) < MaxPredecessors
    <3> SUFFICES ASSUME NEW b \in N PROVE Len(pr[b]) < MaxPredecessors
      OBVIOUS
    <3>1. b = d /\ b \in D /\ ~ (b <= c0)
      BY <1>0, <1>2, <1>4
    <3>2. PICK x \in Nat, y \in Nat :
            /\ x = Cardinality(Jumpers(code, b, pos)) /\ y < MaxPredecessors
            /\ x <= y /\ (b \in J => y = x + 1)
      BY <1>5, <3>1
    <3>3. Len(pr0[b]) \in Nat /\ Len(pr0[b]) <= x
      BY <1>6, <3>1, <3>2
    <3>4. CASE b \in J
      BY <1>9, <3>2, <3>3, <3>4, MaxPredecessorsAssumption DEF PredTo
    <3>5. CASE b \notin J
      <4>1. pr[b] = pr0[b]
        BY <1>9, <3>1, <3>5 DEF PredTo
      <4> QED BY <3>2, <3>3, <4>1, MaxPredecessorsAssumption
    <3> QED BY <3>4, <3>5
  <2>2. N = {} => pr2 = pr
    BY <1>0, <1>3
  <2>3. \A b \in N : pr2 = WithPred(pr, b, c0)
    BY <1>0, <1>2, <1>3
  <2>4. \A b, c \in N : b = c
    BY <1>0
  <2>5. Added(pr, c0, N, pr2)
    BY <2>1, <2>2, <2>3, <2>4 DEF Added
  <2> QED BY <1>2, <1>4, <1>9, <2>5, OneMoreIn
<1>11. EdgeTo(D, nx0, c0, N, nx2) /\ EdgeTo(D, jm0, c0, J, jm2)
  <2>1. nx0[c0] = NoBlock /\ jm0[c0] = NoBlock
    BY <1>2, <1>4, <1>8
  <2>2. nx2 = [nx0 EXCEPT ![c0] = IF N = {} THEN NoBlock ELSE d]
    BY <1>0, <1>2, <1>3
  <2>3. /\ \A b \in D : b # c0 => nx2[b] = nx0[b]
        /\ nx2[c0] \in N \cup {NoBlock} /\ N \subseteq {nx2[c0]}
    <3>1. CASE N = {}
      BY <1>2, <1>4, <2>2, <3>1
    <3>2. CASE N # {}
      <4>1. N = {d}
        BY <1>0, <3>2
      <4> QED BY <1>2, <1>4, <2>2, <4>1
    <3> QED BY <3>1, <3>2
  <2>4. /\ \A b \in D : b # c0 => jm2[b] = jm0[b]
        /\ jm2[c0] \in J \cup {NoBlock} /\ J \subseteq {jm2[c0]}
    <3>1. CASE J = {}
      <4>1. jm2 = jm0
        BY <1>0, <1>2, <1>3, <3>1
      <4> QED BY <2>1, <3>1, <4>1
    <3>2. CASE J # {}
      <4>1. PICK b \in J : TRUE
        BY <3>2
      <4>2. J = {b} /\ jm2 = [jm0 EXCEPT ![c0] = b]
        BY <1>0, <1>2, <1>3, <4>1
      <4> QED BY <1>2, <1>4, <4>2
    <3> QED BY <3>1, <3>2
  <2> QED BY <2>1, <2>3, <2>4 DEF EdgeTo
<1>12. Mirrors(D, nx2, jm2, pr2)
  BY <1>2, <1>4, <1>7, <1>9, <1>10, <1>11, EdgesAdded
<1>13. ASSUME NEW b \in D, b >= d
       PROVE  nx2[b] = NoBlock /\ jm2[b] = NoBlock
  <2>1. b # c0 /\ b >= c0
    BY <1>2, <1>4, <1>13
  <2> QED BY <1>8, <1>11, <2>1 DEF EdgeTo
<1>14. ASSUME NEW b \in D
       PROVE  Len(pr2[b]) <= Cardinality(Jumpers(code, b, pos + 1)) + IF b <= d THEN 1 ELSE 0
  <2>1. PICK x \in Nat, y \in Nat :
          /\ x = Cardinality(Jumpers(code, b, pos)) /\ y = Cardinality(Jumpers(code, b, pos + 1))
          /\ x <= y /\ (b \in J => y = x + 1)
    BY <1>5
  <2>2. PICK l \in Nat : l = Len(pr0[b]) /\ l <= x + IF b <= c0 THEN 1 ELSE 0
    BY <1>6, <2>1
  <2>3. PICK l1 \in Nat : /\ l1 = Len(pr[b]) /\ (b \in J => l1 = l + 1)
                          /\ (b \notin J => l1 = l)
    <3>1. CASE b \in J
      BY <1>9, <2>2, <3>1 DEF PredTo
    <3>2. CASE b \notin J
      <4>1. pr[b] = pr0[b]
        BY <1>9, <3>2 DEF PredTo
      <4> QED BY <2>2, <3>2, <4>1
    <3> QED BY <3>1, <3>2
  <2>4. l1 <= y + IF b <= c0 THEN 1 ELSE 0
    BY <2>1, <2>2, <2>3
  <2>5. CASE b \in N
    <3>1. b = d /\ ~ (b <= c0)
      BY <1>0, <1>2, <1>4, <2>5
    <3>2. Len(pr2[b]) = l1 + 1
      BY <1>10, <2>3, <2>5 DEF PredTo
    <3> QED BY <1>4, <2>1, <2>4, <3>1, <3>2
  <2>6. CASE b \notin N
    <3>1. pr2[b] = pr[b]
      BY <1>10, <2>6 DEF PredTo
    <3>2. b <= c0 => b <= d
      <4>1. b \in Nat /\ c0 \in Nat /\ d \in Nat /\ c0 < d
        BY <1>4
      <4> QED BY <4>1
    <3> QED BY <2>1, <2>3, <2>4, <3>1, <3>2
  <2> QED BY <2>5, <2>6
<1>15. PredsMatchEdges'
  <2>1. \A b, c \in Blocks(code)' :
          Times(pred'[c], b) = Edge(next', b, c) + Edge(jmp', b, c)
    BY <1>0, <1>1, <1>3, <1>12 DEF Mirrors
  <2> QED BY <2>1 DEF PredsMatchEdges, Times
<1>16. OpenBehind'
  BY <1>0, <1>1, <1>3, <1>13 DEF OpenBehind
<1>17. \A b \in Blocks(code)' :
         Len(pred'[b]) <= Cardinality(Jumpers(code', b, pos')) + IF b <= cur' THEN 1 ELSE 0
  BY <1>0, <1>1, <1>3, <1>14
<1> QED BY <1>15, <1>16, <1>17 DEF PredInv

\* A step that touches neither the edges nor cur.
LEMMA PredsSame ==
  ASSUME PredsMatchEdges, OpenBehind, UNCHANGED <<code, cur, next, jmp, pred>>
  PROVE  PredsMatchEdges' /\ OpenBehind'
<1>1. \A b, d \in Blocks(code) : Times(pred[d], b) = Edge(next, b, d) + Edge(jmp, b, d)
  BY DEF PredsMatchEdges, Times
<1>2. \A b, d \in Blocks(code)' : Times(pred'[d], b) = Edge(next', b, d) + Edge(jmp', b, d)
  BY <1>1
<1>3. PredsMatchEdges'
  BY <1>2 DEF PredsMatchEdges, Times
<1> QED BY <1>3 DEF OpenBehind

\* A step inside of a block.
LEMMA PredsStay ==
  ASSUME Placed, PredInv, pos < Len(code), pos' = pos + 1,
         UNCHANGED <<code, cur, next, jmp, pred>>
  PROVE  PredInv'
<1>1. pos \in Nat
  BY DEF Placed, TypeOK
<1>2. \A d \in Blocks(code) :
        /\ Cardinality(Jumpers(code, d, pos)) \in Nat
        /\ Cardinality(Jumpers(code, d, pos + 1)) \in Nat
        /\ Cardinality(Jumpers(code, d, pos)) <= Cardinality(Jumpers(code, d, pos + 1))
  BY <1>1, JumpersGrow
<1>3. \A d \in Blocks(code) : Len(pred[d]) \in Nat
  BY DEF Placed, TypeOK
<1>4. \A d \in Blocks(code) :
        Len(pred[d]) <= Cardinality(Jumpers(code, d, pos + 1)) + IF d <= cur THEN 1 ELSE 0
  BY <1>2, <1>3 DEF PredInv
<1>5. PredsMatchEdges' /\ OpenBehind'
  BY PredsSame DEF PredInv
<1> QED BY <1>4, <1>5 DEF PredInv

\* Every step: the edge-setting ones are Leaves for their targets.
LEMMA PredsNext == Placed /\ PredInv /\ RoomForPreds /\ [Next]_vars => PredInv'
<1> SUFFICES ASSUME Placed, PredInv, RoomForPreds, [Next]_vars PROVE PredInv'
  OBVIOUS
<1>1. CASE PlaceFirst \/ PlacePlain
  BY <1>1, PredsStay DEF PlaceFirst, PlacePlain
<1>2. CASE PlaceLabel
  <2>0. pos < Len(code) /\ ins[cur] # << >> /\ code[pos + 1].op = "TLABEL"
    BY <1>2 DEF PlaceLabel
  <2>1. /\ pos \in Nat /\ pos + 1 \in 1 .. Len(code) /\ cur \in Blocks(code) /\ cur <= pos
        /\ code \in Seq(Instrs) /\ WellFormed(code) /\ cur \in Nat
    BY <2>0, PredFacts
  <2>2. PICK d : d = FirstIn(WithId(code, code[pos + 1].r))
    OBVIOUS
  <2>3. d = pos + 1 /\ d \in Blocks(code) /\ d > cur
    BY <2>0, <2>1, <2>2, LabelBlock, BlockNames
  <2>4. /\ next' = [next EXCEPT ![cur] = d] /\ pred' = WithPred(pred, d, cur) /\ cur' = d
        /\ pos' = pos + 1 /\ code' = code /\ jmp' = jmp
    BY <1>2, <2>2 DEF PlaceLabel
  <2> DEFINE J == {}
             N == {d}
  <2>5. /\ J \in SUBSET Blocks(code) /\ N \in SUBSET Blocks(code) /\ N \subseteq {d} /\ N # {}
        /\ \A b \in J : FALSE
    BY <2>3
  <2> HIDE DEF J, N
  <2>6. Leaves(J, N, d, pred)
    BY <2>0, <2>3, <2>4, <2>5 DEF Leaves
  <2> QED BY <2>6, PredsLeave
<1>3. CASE PlaceJump
  <2>0. pos < Len(code) /\ ins[cur] # << >> /\ code[pos + 1].op = "TJMP"
    BY <1>3 DEF PlaceJump
  <2>1. /\ pos \in Nat /\ pos + 1 \in 1 .. Len(code) /\ cur \in Blocks(code) /\ cur <= pos
        /\ code \in Seq(Instrs) /\ WellFormed(code) /\ cur \in Nat
    BY <2>0, PredFacts
  <2>2. PICK d, b : /\ d = FirstIn(Behind(code, cur))
                    /\ b = FirstIn(WithId(code, code[pos + 1].r))
    OBVIOUS
  <2>3. b \in Blocks(code)
    BY <2>0, <2>1, <2>2, JumpTarget
  <2>4. d \in Blocks(code) /\ d > cur
    <3>1. pos + 2 \in 1 .. Len(code) /\ pos + 2 > pos /\ code[pos + 2].op = "TLABEL"
      <4>1. pos + 1 < Len(code) /\ code[pos + 1 + 1].op = "TLABEL"
        BY <2>0, <2>1 DEF WellFormed
      <4> QED BY <2>1, <4>1
    <3> QED BY <2>0, <2>2, <3>1, BehindCur
  <2>5. /\ next' = [next EXCEPT ![cur] = NoBlock] /\ jmp' = [jmp EXCEPT ![cur] = b]
        /\ pred' = WithPred(pred, b, cur) /\ cur' = d
        /\ pos' = pos + 1 /\ code' = code
    BY <1>3, <2>2 DEF PlaceJump
  <2>6. pos + 1 \in Jumpers(code, b, pos + 1)
    BY <2>0, <2>1, <2>2 DEF Jumpers
  <2> DEFINE J == {b}
             N == {}
  <2>7. /\ J \in SUBSET Blocks(code) /\ N \in SUBSET Blocks(code) /\ N = {} /\ N \subseteq {d}
        /\ J # {} /\ \A c \in J : c = b
    BY <2>3
  <2> HIDE DEF J, N
  <2>8. PICK pr : pr = WithPred(pred, b, cur)
    OBVIOUS
  <2>9. Leaves(J, N, d, pr)
    BY <2>0, <2>4, <2>5, <2>6, <2>7, <2>8 DEF Leaves
  <2> QED BY <2>9, PredsLeave
<1>4. CASE PlaceBranch
  <2>0. pos < Len(code) /\ ins[cur] # << >> /\ code[pos + 1].op = "TIFF"
    BY <1>4 DEF PlaceBranch
  <2>1. /\ pos \in Nat /\ pos + 1 \in 1 .. Len(code) /\ cur \in Blocks(code) /\ cur <= pos
        /\ code \in Seq(Instrs) /\ WellFormed(code) /\ cur \in Nat
    BY <2>0, PredFacts
  <2>2. PICK d, b : /\ d = FirstIn(Behind(code, cur))
                    /\ b = FirstIn(WithId(code, code[pos + 1].r))
    OBVIOUS
  <2>3. b \in Blocks(code)
    BY <2>0, <2>1, <2>2, JumpTarget
  <2>4. d \in Blocks(code) /\ d > cur
    <3>1. pos + 1 > pos
      BY <2>1
    <3> QED BY <2>0, <2>1, <2>2, <3>1, BehindCur
  <2>5. PICK pr : pr = WithPred(pred, b, cur)
    OBVIOUS
  <2>6. /\ next' = [next EXCEPT ![cur] = d] /\ jmp' = [jmp EXCEPT ![cur] = b]
        /\ pred' = WithPred(pr, d, cur) /\ cur' = d
        /\ pos' = pos + 1 /\ code' = code
    BY <1>4, <2>2, <2>5 DEF PlaceBranch
  <2>7. pos + 1 \in Jumpers(code, b, pos + 1)
    BY <2>0, <2>1, <2>2 DEF Jumpers
  <2> DEFINE J == {b}
             N == {d}
  <2>8. /\ J \in SUBSET Blocks(code) /\ N \in SUBSET Blocks(code) /\ N # {} /\ N \subseteq {d}
        /\ J # {} /\ \A c \in J : c = b
    BY <2>3, <2>4
  <2> HIDE DEF J, N
  <2>9. Leaves(J, N, d, pr)
    BY <2>0, <2>4, <2>5, <2>6, <2>7, <2>8 DEF Leaves
  <2> QED BY <2>9, PredsLeave
<1>5. CASE UNCHANGED vars
  <2>1. UNCHANGED <<code, pos, cur, next, jmp, pred>>
    BY <1>5 DEF vars
  <2>2. PredsMatchEdges' /\ OpenBehind'
    BY <2>1, PredsSame DEF PredInv
  <2>3. \A d \in Blocks(code) :
          Len(pred[d]) <= Cardinality(Jumpers(code, d, pos)) + IF d <= cur THEN 1 ELSE 0
    BY DEF PredInv
  <2> QED BY <2>1, <2>2, <2>3 DEF PredInv
<1> QED BY <1>1, <1>2, <1>3, <1>4, <1>5 DEF Next

\* No block has an edge or a predecessor yet.
LEMMA PredsInit == Init => PredInv
<1> SUFFICES ASSUME Init PROVE PredInv
  OBVIOUS
<1>1. /\ \A b \in Blocks(code) : pred[b] = << >> /\ next[b] = NoBlock /\ jmp[b] = NoBlock
      /\ pos = 0
  BY DEF Init
<1>2. code \in Seq(Instrs)
  BY ProgramsAssumption DEF Init
<1>3. \A b \in Blocks(code) : b # NoBlock
  BY <1>2, BlockNames DEF NoBlock
<1>4. \A b, d \in Blocks(code) : Times(pred[d], b) = Edge(next, b, d) + Edge(jmp, b, d)
  BY <1>1, <1>3, TimesNone DEF Edge
<1>5. \A d \in Blocks(code) : Cardinality(Jumpers(code, d, pos)) \in Nat /\ Len(pred[d]) = 0
  BY <1>1, JumpersGrow
<1> QED BY <1>1, <1>4, <1>5 DEF PredInv, PredsMatchEdges, OpenBehind, Times

\* In every state of bb_build, for every well-formed instruction list, missed
\* boundaries or not, pred holds a block as often as next and jmp lead from it; only
\* each block may have no more jumps to it than pred has places, less the one for the
\* block in front, as ADD_PREDECESSEOR drops it from a full array.
THEOREM PredsMatchEdgesAlways == Spec => [](RoomForPreds => PredsMatchEdges)
<1> DEFINE I == RoomForPreds => PredInv
<1>1. Init => Placed /\ I
  BY PlacedInit, PredsInit
<1>2. (Placed /\ I) /\ [Next]_vars => (Placed /\ I)'
  <2> SUFFICES ASSUME Placed, I, [Next]_vars PROVE Placed' /\ I'
    OBVIOUS
  <2>1. code' = code
    BY DEF Next, PlaceFirst, PlacePlain, PlaceLabel, PlaceJump, PlaceBranch, vars
  <2>2. RoomForPreds' <=> RoomForPreds
    BY <2>1 DEF RoomForPreds
  <2> QED BY <2>2, PlacedNext, PredsNext
<1>3. Placed /\ I => (RoomForPreds => PredsMatchEdges)
  BY DEF PredInv
<1> QED BY <1>1, <1>2, <1>3, PTL DEF Spec

-----------------------------------------------------------------------------
(* The finished graph as lva gets it. *)

\* Where the finished block's control goes; all there is to know of the finished
\* graph, where no boundary was missed.
Ends(b) == {next[b], jmp[b]} \ {NoBlock}

Built == Placed /\ EdgeInv /\ pos = Len(code) /\ NoShift

\* The blocks when bb_build returns: none is empty, each begins at its First and
\* goes on without a gap.
LEMMA BuiltBlocks ==
  ASSUME Built
  PROVE  /\ code \in Seq(Instrs) /\ WellFormed(code) /\ Len(code) \in Nat
         /\ \A b \in Blocks(code) :
              /\ b \in Nat /\ b <= Len(code) /\ First(code, b) \in Nat
              /\ Ends(b) \subseteq Blocks(code)
              /\ Len(ins[b]) \in Nat \ {0}
              /\ ins[b][1] = First(code, b)
              /\ \A i \in 1 .. Len(ins[b]) :
                   ins[b][i] = First(code, b) + i - 1 /\ ins[b][i] \in 1 .. Len(code)
<1>1. EdgesFollowCode
  BY EdgesDone DEF Built
<1>2. Contiguous
  BY Edges DEF Built
<1>3. code \in Seq(Instrs) /\ WellFormed(code) /\ Len(code) \in Nat
  BY Numbers DEF Built, Placed, TypeOK
<1>4. ASSUME NEW b \in Blocks(code)
      PROVE  /\ b \in Nat /\ b <= Len(code) /\ First(code, b) \in Nat
             /\ Ends(b) \subseteq Blocks(code)
             /\ Len(ins[b]) \in Nat \ {0}
             /\ ins[b][1] = First(code, b)
             /\ \A i \in 1 .. Len(ins[b]) :
                  ins[b][i] = First(code, b) + i - 1 /\ ins[b][i] \in 1 .. Len(code)
  <2>1. b \in Nat /\ b <= Len(code) /\ First(code, b) \in Nat /\ Len(ins[b]) \in Nat
    BY Numbers DEF Built
  <2>2. ins[b] # << >>
    BY <1>1 DEF EdgesFollowCode, Built
  <2>3. Len(ins[b]) # 0
    BY <2>2, Numbers DEF Built
  <2>4. \A i \in 1 .. Len(ins[b]) : ins[b][i] = First(code, b) + i - 1
    BY <1>2 DEF Contiguous
  <2>5. ins[b] \in Seq(1 .. Len(code))
    BY DEF Built, Placed, TypeOK
  <2>6. \A i \in 1 .. Len(ins[b]) : ins[b][i] \in 1 .. Len(code)
    BY <2>5
  <2>7. ins[b][1] = First(code, b)
    <3>1. 1 \in 1 .. Len(ins[b]) BY <2>1, <2>3
    <3>2. ins[b][1] = First(code, b) + 1 - 1 BY <2>4, <3>1
    <3> QED BY <2>1, <3>2
  <2>8. Ends(b) \subseteq Blocks(code)
    BY DEF Ends, Built, Placed, TypeOK
  <2> QED BY <2>1, <2>3, <2>4, <2>6, <2>7, <2>8
<1> QED BY <1>3, <1>4

\* Where control goes from a block's last instruction its successors begin.
LEMMA BuiltEdges ==
  ASSUME Built, NEW b \in Blocks(code)
  PROVE  {First(code, d) : d \in Ends(b)} = Succs(code, ins[b][Len(ins[b])])
<1>1. {ins[d][1] : d \in Ends(b)} = Succs(code, ins[b][Len(ins[b])])
  BY EdgesDone DEF Built, EdgesFollowCode, Ends
<1>2. \A d \in Ends(b) : ins[d][1] = First(code, d)
  BY BuiltBlocks
<1>3. {ins[d][1] : d \in Ends(b)} = {First(code, d) : d \in Ends(b)}
  BY <1>2
<1> QED BY <1>1, <1>3

\* Which instruction a block begins with.
LEMMA FirstOf ==
  ASSUME NEW cd \in Seq(Instrs), NEW b \in Blocks(cd)
  PROVE  \/ b = 0 /\ First(cd, b) = 1
         \/ b \in 1 .. Len(cd) /\ cd[b].op = "TLABEL" /\ First(cd, b) = b
         \/ b \in 1 .. Len(cd) /\ cd[b].op = "TIFF" /\ First(cd, b) = b + 1
<1>1. CASE b = 0
  BY <1>1 DEF First
<1>2. CASE b # 0
  <2>1. b \in 1 .. Len(cd) BY <1>2, BlockNames
  <2>2. cd[b].op \in {"TLABEL", "TIFF"} BY <2>1, BlockNames
  <2> QED BY <1>2, <2>1, <2>2 DEF First
<1> QED BY <1>1, <1>2

\* The blocks' order is that of their first instructions.
LEMMA FirstGrows ==
  ASSUME NEW cd \in Seq(Instrs), NEW b \in Blocks(cd), NEW d \in Blocks(cd), d <= b
  PROVE  First(cd, d) <= First(cd, b)
<1>1. b \in Nat /\ d \in Nat BY BlockNames
<1> QED BY <1>1, FirstOf DEF First

\* A jump that does not go forward is a TJMP to a label which the instruction in
\* front of it alone, and nothing but it, is followed by.
LEMMA BackJump ==
  ASSUME NEW cd \in Seq(Instrs), WellFormed(cd),
         NEW e \in 1 .. Len(cd), NEW q \in Succs(cd, e), q <= e,
         cd[1].op # "TLABEL",
         \A p \in 1 .. Len(cd) - 1 : cd[p].op = "TIFF" => cd[p + 1].op # "TLABEL"
  PROVE  /\ q \in 2 .. Len(cd) /\ cd[q].op = "TLABEL" /\ cd[q - 1].op # "TIFF"
         /\ Succs(cd, q - 1) = {q}
<1>1. cd[e].op \in {"TJMP", "TIFF"} /\ q \in LabelAt(cd, cd[e].r)
  BY DEF Succs
<1>2. q \in 1 .. Len(cd) /\ cd[q].op = "TLABEL" /\ cd[q].r = cd[e].r
  BY <1>1 DEF LabelAt
<1>3. PICK t \in 1 .. Len(cd) : /\ cd[t].op = "TLABEL" /\ cd[t].r = cd[e].r
                                /\ t > e \/ t = 1 \/ cd[t - 1].op # "TJMP"
  BY <1>1 DEF WellFormed
<1>4. t = q
  BY <1>2, <1>3 DEF WellFormed
<1>5. q # 1
  BY <1>2
<1>6. Len(cd) \in Nat /\ q \in 2 .. Len(cd) /\ q - 1 \in 1 .. Len(cd) - 1 /\ q - 1 \in 1 .. Len(cd)
  BY <1>2, <1>5
<1>7. cd[q - 1].op # "TJMP"
  BY <1>2, <1>3, <1>4, <1>5
<1>8. cd[q - 1].op # "TIFF"
  <2>1. q - 1 + 1 = q BY <1>6
  <2> QED BY <1>2, <1>6, <2>1
<1>9. Succs(cd, q - 1) = {q - 1 + 1} \cap 1 .. Len(cd)
  BY <1>6, <1>7, <1>8, GoesOn
<1> QED BY <1>2, <1>6, <1>8, <1>9

\* The block a back edge goes to is the only one the block in front of it goes to.
LEMMA PreHeaderBuilt ==
  ASSUME Built, NEW b \in Blocks(code), NEW s \in Ends(b), s <= b
  PROVE  \E p \in Blocks(code) : p < s /\ Ends(p) = {s}
<1> DEFINE e == ins[b][Len(ins[b])]
           q == First(code, s)
<1>1. /\ code \in Seq(Instrs) /\ WellFormed(code) /\ Len(code) \in Nat
      /\ s \in Blocks(code) /\ b \in Nat /\ s \in Nat /\ q \in Nat
      /\ First(code, b) \in Nat /\ Len(ins[b]) \in Nat \ {0}
  BY BuiltBlocks
<1>2. Len(ins[b]) \in 1 .. Len(ins[b])
  BY <1>1
<1>3. e = First(code, b) + Len(ins[b]) - 1 /\ e \in 1 .. Len(code)
  BY <1>2, BuiltBlocks
<1>4. q <= e
  BY <1>1, <1>3, FirstGrows
<1>5. q \in Succs(code, e)
  BY BuiltEdges
<1>6. /\ code[1].op # "TLABEL"
      /\ \A p \in 1 .. Len(code) - 1 : code[p].op = "TIFF" => code[p + 1].op # "TLABEL"
  BY DEF Built, NoShift
<1> HIDE DEF e
<1>7. /\ q \in 2 .. Len(code) /\ code[q].op = "TLABEL" /\ code[q - 1].op # "TIFF"
      /\ Succs(code, q - 1) = {q}
  BY <1>1, <1>3, <1>4, <1>5, <1>6, BackJump
<1>8. ASSUME NEW d \in Blocks(code), First(code, d) = q PROVE d = q
  <2>1. d \in 1 .. Len(code) /\ code[d].op = "TIFF" /\ q = d + 1 => d = q - 1
    OBVIOUS
  <2> QED BY <1>1, <1>7, <1>8, <2>1, FirstOf
<1>9. s = q
  BY <1>1, <1>8
<1>10. q - 1 \in 1 .. pos
  BY <1>1, <1>7 DEF Built
<1>11. PICK p \in Blocks(code) : \E j \in 1 .. Len(ins[p]) : ins[p][j] = q - 1
  BY <1>10 DEF Built, Placed, CodeOrder
<1>12. PICK i \in 1 .. Len(ins[p]) : ins[p][i] = q - 1
  BY <1>11
<1>21. /\ p \in Nat /\ First(code, p) \in Nat /\ Len(ins[p]) \in Nat \ {0}
       /\ \A j \in 1 .. Len(ins[p]) : ins[p][j] = First(code, p) + j - 1
  BY BuiltBlocks
<1>13. First(code, p) <= q - 1
  <2>1. i \in Nat /\ i >= 1 /\ q - 1 = First(code, p) + i - 1
    BY <1>12, <1>21
  <2> QED BY <1>1, <1>21, <2>1
<1>14. p < s
  <2>1. p >= s => q <= First(code, p)
    BY <1>1, <1>21, FirstGrows
  <2> QED BY <1>1, <1>21, <1>13, <2>1
<1>15. i = Len(ins[p])
  <2> SUFFICES ASSUME i # Len(ins[p]) PROVE FALSE
    OBVIOUS
  <2>1. i + 1 \in 1 .. Len(ins[p])
    BY <1>12, <1>21
  <2>2. ins[p][i + 1] = q
    <3>1. ins[p][i + 1] = First(code, p) + (i + 1) - 1 /\ q - 1 = First(code, p) + i - 1
      BY <1>12, <1>21, <2>1
    <3>2. i \in Int /\ q \in Int /\ First(code, p) \in Int
      BY <1>1, <1>12, <1>21
    <3>3. \A x, y, z \in Int : x - 1 = y + z - 1 => y + (z + 1) - 1 = x
      OBVIOUS
    <3> HIDE DEF q
    <3> QED BY <3>1, <3>2, <3>3
  <2>3. ins[s][1] = q /\ 1 \in 1 .. Len(ins[s])
    BY <1>1, BuiltBlocks
  <2>4. ins[p][i + 1] < ins[s][1]
    BY <1>1, <1>14, <2>1, <2>3 DEF Built, Placed, CodeOrder
  <2> QED BY <1>1, <2>2, <2>3, <2>4
<1>16. {First(code, d) : d \in Ends(p)} = {q}
  BY <1>7, <1>12, <1>15, BuiltEdges
<1>17. \A d \in Ends(p) : d \in Blocks(code) /\ First(code, d) = q
  BY <1>16, BuiltBlocks
<1>18. \A d \in Ends(p) : d = s
  BY <1>8, <1>9, <1>17
<1>19. Ends(p) # {}
  BY <1>16
<1>20. Ends(p) = {s}
  BY <1>18, <1>19
<1> QED BY <1>14, <1>20

-----------------------------------------------------------------------------
(* bb_build and lva, one after the other. *)

\* lva leaves bb_build's state alone.
LEMMA BuildIsNext == [AnalysisNext]_analysisVars => [Next]_vars
BY DEF AnalysisNext, Build, Analyse, analysisVars

\* What bb_build leaves is a graph whose loops have pre-headers.
LEMMA BuiltGraph ==
  ASSUME Built
  PROVE  Lva!IsGraph(Flow) /\ Lva!PreHeaders(Flow)
<1> DEFINE B == Blocks(code)
<1>2. /\ Flow.blocks = B /\ Flow.next = next /\ Flow.jmp = jmp
      /\ Flow.ins = [b \in B |-> [i \in DOMAIN ins[b] |-> code[ins[b][i]]]]
  BY DEF Flow
<1>3. B \subseteq Nat /\ IsFiniteSet(B)
  <2>1. B \subseteq 0 .. Len(code) /\ Len(code) \in Nat BY BuiltBlocks, BlockNames
  <2>2. IsFiniteSet(0 .. Len(code)) BY <2>1, FS_Interval
  <2> QED BY <2>1, <2>2, FS_Subset
<1>4. Lva!NoBlock = NoBlock
  BY DEF Lva!NoBlock, NoBlock
<1>5. /\ next \in [B -> B \cup {NoBlock}] /\ jmp \in [B -> B \cup {NoBlock}]
  BY DEF Built, Placed, TypeOK
<1>6. \A b \in B : [i \in DOMAIN ins[b] |-> code[ins[b][i]]] \in Seq(Instrs)
  <2> TAKE b \in B
  <2>1. code \in [1 .. Len(code) -> Instrs] BY BuiltBlocks
  <2>2. ins[b] \in Seq(1 .. Len(code)) BY DEF Built, Placed, TypeOK
  <2>3. DOMAIN ins[b] = 1 .. Len(ins[b]) /\ Len(ins[b]) \in Nat
        /\ \A i \in 1 .. Len(ins[b]) : ins[b][i] \in 1 .. Len(code)
    BY <2>2
  <2>4. [i \in 1 .. Len(ins[b]) |-> code[ins[b][i]]] \in [1 .. Len(ins[b]) -> Instrs]
    BY <2>1, <2>3
  <2> QED BY <2>3, <2>4
<1>7. Lva!Instrs = Instrs
  BY DEF Lva!Instrs, Instrs, Lva!Ops, Ops, Lva!Binops, Binops,
    Lva!Relops, Relops, Lva!Arith, Arith, Lva!Operands, Operands
<1>8. Lva!IsFiniteSet(B) <=> IsFiniteSet(B)
  BY DEF Lva!IsFiniteSet, IsFiniteSet
<1> HIDE DEF B
<1>9. Lva!IsGraph(Flow)
  BY <1>2, <1>3, <1>4, <1>5, <1>6, <1>7, <1>8 DEF Lva!IsGraph
<1>10. \A b \in B : Lva!SuccsIn(Flow, b) = Ends(b)
  BY <1>2, <1>4 DEF Lva!SuccsIn, Ends
<1>11. Lva!PreHeaders(Flow)
  BY <1>2, <1>10, PreHeaderBuilt DEF Lva!PreHeaders, B
<1> QED BY <1>9, <1>11

\* The invariants of bb_build survive lva.
LEMMA BlocksKept == AnalysisSpec => [](Placed /\ EdgeInv)
<1>1. AnalysisInit => Placed /\ EdgeInv
  BY PlacedInit, EdgesInit DEF AnalysisInit
<1>2. Placed /\ EdgeInv /\ [AnalysisNext]_analysisVars => (Placed /\ EdgeInv)'
  BY BuildIsNext, PlacedNext, EdgesNext
<1> QED BY <1>1, <1>2, PTL DEF AnalysisSpec

\* Whenever lva is called on a graph no boundary was missed in, in front of every
\* loop there is a block that only leads into it: what lva.c relies on to find all
\* live variables (PreHeaders) is what bb_build of 3ac.c provides.
THEOREM LoopsHavePreHeadersAlways == AnalysisSpec => []LoopsHavePreHeaders
<1>1. Placed /\ EdgeInv => LoopsHavePreHeaders
  BY BuiltGraph DEF LoopsHavePreHeaders, Built
<1> QED BY <1>1, BlocksKept, PTL

-----------------------------------------------------------------------------
(* What lva makes of the graph. *)

L == INSTANCE LiveVarsProofs WITH graph <- Flow, Graphs <- {}

\* The names of the two instances mean the same.
LEMMA AnalyseIsNext == Analyse => L!Next
BY DEF Analyse, Lva!Next, L!Next, Lva!LvaInit, L!LvaInit, Lva!DefUse, L!DefUse,
  Lva!StartWalk, L!StartWalk, Lva!VisitBlock, L!VisitBlock, Lva!Finish, L!Finish, Lva!AllEmpty, L!AllEmpty, Lva!Written, L!Written,
  Lva!ReadFirst, L!ReadFirst, Lva!Transfer, L!Transfer, Lva!Join, L!Join, Lva!Changes, L!Changes,
  Lva!SuccsIn, L!SuccsIn, Lva!NoBlock, L!NoBlock, Lva!Uses, L!Uses, Lva!Defs, L!Defs,
  Lva!Binops, L!Binops, Lva!Relops, L!Relops, Lva!Arith, L!Arith

LEMMA SameUses == ASSUME NEW i PROVE L!Uses(i) = Uses(i) /\ L!Defs(i) = Defs(i)
BY DEF L!Uses, Uses, L!Defs, Defs, L!Binops, Binops, L!Relops, Relops, L!Arith, Arith

\* bb_build's graph is one all is known of, when lva is called on it (KnownBegin).
LEMMA LBuiltGraph ==
  ASSUME Built
  PROVE  L!IsGraph(Flow) /\ L!PreHeaders(Flow)
<1>1. Lva!IsGraph(Flow) <=> L!IsGraph(Flow)
  BY DEF Lva!IsGraph, L!IsGraph, Lva!NoBlock, L!NoBlock, Lva!IsFiniteSet, L!IsFiniteSet,
    Lva!Instrs, L!Instrs, Lva!Ops, L!Ops, Lva!Binops, L!Binops,
    Lva!Relops, L!Relops, Lva!Arith, L!Arith, Lva!Operands, L!Operands
<1>2. Lva!PreHeaders(Flow) <=> L!PreHeaders(Flow)
  BY DEF Lva!PreHeaders, L!PreHeaders, Lva!SuccsIn, L!SuccsIn, Lva!NoBlock, L!NoBlock
<1> QED BY <1>1, <1>2, BuiltGraph

\* bb_build has returned when lva begins, and all is known of lva's state then.
Joined ==
    /\ phase = "init" => L!Begin
    /\ phase # "init" /\ NoShift => pos = Len(code) /\ L!Known

LEMMA JoinedInit == AnalysisInit => Joined
BY DEF AnalysisInit, Joined, Lva!Begin, L!Begin, Lva!AllEmpty, L!AllEmpty

LEMMA JoinedNext ==
  (Placed /\ EdgeInv) /\ Joined /\ [AnalysisNext]_analysisVars => Joined'
<1> SUFFICES ASSUME Placed, EdgeInv, Joined, [AnalysisNext]_analysisVars PROVE Joined'
  OBVIOUS
<1>1. CASE Build
  <2>1. /\ pos < Len(code) /\ code' = code
        /\ phase' = phase /\ todo' = todo /\ def' = def /\ use' = use
        /\ in' = in /\ out' = out /\ changed' = changed
    BY <1>1 DEF Build, lvaVars, Next, PlaceFirst, PlaceLabel, PlaceJump,
      PlaceBranch, PlacePlain
  <2>2. Flow.blocks = Blocks(code) BY DEF Flow
  <2>3. Flow.blocks' = Blocks(code)' BY DEF Flow
  <2>4. Blocks(code)' = Blocks(code) BY <2>1
  <2>5. Flow.blocks' = Flow.blocks BY <2>2, <2>3, <2>4
  <2>6. L!Begin => L!Begin'
    BY <2>1, <2>5 DEF L!Begin, L!AllEmpty
  <2>7. phase # "init" => ~ NoShift
    <3>1. pos \in Nat /\ Len(code) \in Nat BY Numbers
    <3> QED BY <2>1, <3>1 DEF Joined
  <2>8. NoShift' = NoShift BY <2>1 DEF NoShift
  <2> QED BY <2>1, <2>6, <2>7, <2>8 DEF Joined
<1>2. ASSUME Analyse \/ UNCHANGED analysisVars PROVE Joined'
  <2>1. UNCHANGED <<code, pos, cur, ins, next, jmp, pred>>
    BY <1>2 DEF Analyse, analysisVars, vars
  <2>2. Flow' = Flow BY <2>1 DEF Flow, Blocks, Leaders, vars
  <2>3. [L!Next]_(L!vars)
    BY <1>2, <2>2, AnalyseIsNext DEF analysisVars, lvaVars, L!vars
  <2>4. NoShift' = NoShift BY <2>1 DEF NoShift
  <2>5. CASE phase = "init" /\ UNCHANGED analysisVars
    BY <2>2, <2>5 DEF Joined, L!Begin, L!AllEmpty, analysisVars, lvaVars
  <2>6. CASE phase = "init" /\ Analyse
    <3>1. NoShift => L!Known
      BY <2>6, LBuiltGraph, L!KnownBegin DEF Joined, Built, Analyse
    <3>2. NoShift => L!Known' BY <2>3, <3>1, L!KnownNext
    <3>3. phase' # "init"
      BY <2>6, AnalyseIsNext DEF L!Next, L!LvaInit, L!DefUse, L!StartWalk, L!VisitBlock, L!Finish
    <3> QED BY <2>1, <2>4, <2>6, <3>2, <3>3 DEF Joined, Analyse
  <2>7. CASE phase # "init"
    <3>1. NoShift => pos = Len(code) /\ L!Known BY <2>7 DEF Joined
    <3>2. NoShift => L!Known' BY <2>3, <3>1, L!KnownNext
    <3>3. phase' # "init"
      BY <2>7, <2>3 DEF L!Next, L!LvaInit, L!DefUse, L!StartWalk, L!VisitBlock, L!Finish, L!vars
    <3> QED BY <2>1, <2>4, <3>1, <3>2, <3>3 DEF Joined
  <2> QED BY <1>2, <2>5, <2>6, <2>7
<1> QED BY <1>1, <1>2 DEF AnalysisNext

\* An instruction has one place in the blocks.
LEMMA SamePlace ==
  ASSUME Built, NEW b \in Blocks(code), NEW d \in Blocks(code),
         NEW i \in 1 .. Len(ins[b]), NEW j \in 1 .. Len(ins[d]), ins[b][i] = ins[d][j]
  PROVE  b = d /\ i = j
<1>1. /\ b \in Nat /\ d \in Nat /\ i \in Nat /\ j \in Nat
      /\ ins[b][i] \in Nat /\ ins[d][j] \in Nat
  <2>1. \A e \in Blocks(code) : \A m \in 1 .. Len(ins[e]) : ins[e][m] \in 1 .. Len(code)
    BY BuiltBlocks
  <2>2. b \in Nat /\ d \in Nat
    BY BuiltBlocks
  <2>3. ins[b][i] \in 1 .. Len(code) /\ ins[d][j] \in 1 .. Len(code)
    BY <2>1
  <2> QED BY <2>2, <2>3
<1>2. ~ (b < d) /\ ~ (d < b)
  BY <1>1 DEF Built, Placed, CodeOrder
<1>3. b = d BY <1>1, <1>2
<1>4. ~ (i < j) /\ ~ (j < i)
  BY <1>1, <1>3 DEF Built, Placed, CodeOrder
<1> QED BY <1>1, <1>3, <1>4

\* The graph in terms of the blocks.
LEMMA FlowIs ==
  ASSUME Built, NEW b \in Blocks(code)
  PROVE  /\ Flow.blocks = Blocks(code)
         /\ L!SuccsIn(Flow, b) = Ends(b)
         /\ Len(Flow.ins[b]) = Len(ins[b])
         /\ \A i \in 1 .. Len(ins[b]) : Flow.ins[b][i] = code[ins[b][i]]
<1>2. /\ Flow.blocks = Blocks(code) /\ Flow.next = next /\ Flow.jmp = jmp
      /\ Flow.ins[b] = [i \in DOMAIN ins[b] |-> code[ins[b][i]]]
  BY DEF Flow
<1>3. DOMAIN ins[b] = 1 .. Len(ins[b]) /\ Len(ins[b]) \in Nat
  BY DEF Built, Placed, TypeOK
<1> QED BY <1>2, <1>3 DEF L!SuccsIn, L!NoBlock, Ends, NoBlock

\* What is live before a block's instructions: inside it what the one behind
\* leaves, at its end what its successors need.
LEMMA LiveInside ==
  ASSUME Built, NEW b \in Blocks(code), NEW i \in 1 .. Len(ins[b]), NEW v \in Vars
  PROVE  v \in LiveBefore(code)[ins[b][i]] <=>
           \/ v \in Uses(code[ins[b][i]])
           \/ /\ v \notin Defs(code[ins[b][i]])
              /\ IF i < Len(ins[b]) THEN v \in LiveBefore(code)[ins[b][i + 1]]
                 ELSE \E s \in Ends(b) : v \in LiveBefore(code)[ins[s][1]]
<1> DEFINE live == LiveBefore(code)
<1>1. /\ code \in Seq(Instrs) /\ Len(ins[b]) \in Nat /\ ins[b][i] \in DOMAIN code
  BY BuiltBlocks
<1>2. EdgesFollowCode BY EdgesDone DEF Built
<1>3. v \in live[ins[b][i]] <=>
           \/ v \in Uses(code[ins[b][i]])
           \/ v \notin Defs(code[ins[b][i]]) /\ \E s \in Succs(code, ins[b][i]) : v \in live[s]
  BY <1>1, LiveBeforeOne
<1>4. CASE i < Len(ins[b])
  <2>1. i \in 1 .. Len(ins[b]) - 1 BY <1>1, <1>4
  <2>2. Succs(code, ins[b][i]) = {ins[b][i + 1]} BY <1>2, <2>1 DEF EdgesFollowCode, Built
  <2> HIDE DEF live
  <2> QED BY <1>3, <1>4, <2>2 DEF live
<1>5. CASE ~ (i < Len(ins[b]))
  <2>1. i = Len(ins[b]) BY <1>1, <1>5
  <2>2. {ins[s][1] : s \in Ends(b)} = Succs(code, ins[b][i])
    BY <1>2, <2>1 DEF EdgesFollowCode, Built, Ends
  <2> HIDE DEF live
  <2> QED BY <1>3, <1>5, <2>2 DEF live
<1> QED BY <1>4, <1>5

\* Live at the begin of a block of the graph is what is live in the code before its
\* first instruction.  Each is below the other, as the one, carried over, solves the
\* equations of the other.
LEMMA LiveOfBlock ==
  ASSUME Built, NEW b \in Blocks(code)
  PROVE  L!LiveAtPoints(Flow)[<<b, 1>>] = LiveBefore(code)[ins[b][1]]
<1> DEFINE F == Flow
           B == Blocks(code)
           live == LiveBefore(code)
           points == L!LiveAtPoints(F)
           X == [p \in L!Points(F) |->
                   {v \in Vars : IF p[2] <= Len(ins[p[1]]) THEN v \in live[ins[p[1]][p[2]]]
                                 ELSE \E s \in Ends(p[1]) : v \in live[ins[s][1]]}]
           Z == [p \in DOMAIN code |->
                   {v \in Vars : \E d \in B : \E i \in 1 .. Len(ins[d]) :
                                   ins[d][i] = p /\ v \in points[<<d, i>>]}]
<1>1. L!IsGraph(F) BY LBuiltGraph
<1>2. /\ F.blocks = B
      /\ \A d \in B : /\ L!SuccsIn(F, d) = Ends(d) /\ Len(F.ins[d]) = Len(ins[d])
                      /\ \A i \in 1 .. Len(ins[d]) : F.ins[d][i] = code[ins[d][i]]
  BY FlowIs
<1>3. /\ code \in Seq(Instrs)
      /\ \A d \in B : /\ Ends(d) \subseteq B /\ Len(ins[d]) \in Nat \ {0}
                      /\ \A i \in 1 .. Len(ins[d]) : ins[d][i] \in DOMAIN code
  BY BuiltBlocks
<1>4. ASSUME NEW d \in B, NEW i \in 1 .. Len(ins[d]) + 1
      PROVE  <<d, i>> \in L!Points(F)
  <2> HIDE DEF F, B
  <2> QED BY <1>1, <1>2, L!PointsAre
<1>5. ASSUME NEW d \in B, NEW i \in 1 .. Len(ins[d]) + 1, NEW v \in Vars
      PROVE  v \in X[<<d, i>>] <=>
               IF i <= Len(ins[d]) THEN v \in live[ins[d][i]]
               ELSE \E s \in Ends(d) : v \in live[ins[s][1]]
  <2>1. <<d, i>>[1] = d /\ <<d, i>>[2] = i OBVIOUS
  <2> HIDE DEF F, B, live
  <2> QED BY <1>4, <2>1
<1>6. ASSUME NEW p \in L!Points(F) PROVE points[p] \subseteq X[p] /\ points[p] \subseteq Vars
  <2>1. ASSUME NEW d \in B, NEW i \in 1 .. Len(ins[d]), NEW v \in Vars,
               v \in Uses(code[ins[d][i]]) \/ (v \notin Defs(code[ins[d][i]]) /\ v \in X[<<d, i + 1>>])
        PROVE  v \in X[<<d, i>>]
    <3>1. i \in 1 .. Len(ins[d]) + 1 /\ i + 1 \in 1 .. Len(ins[d]) + 1 /\ i <= Len(ins[d])
          /\ (i + 1 <= Len(ins[d]) <=> i < Len(ins[d]))
      BY <1>3
    <3> HIDE DEF X, live, B
    <3> QED BY <1>5, <2>1, <3>1, LiveInside DEF live, B
  <2>2. ASSUME NEW d \in B, NEW v \in Vars, NEW s \in Ends(d), v \in X[<<s, 1>>]
        PROVE  v \in X[<<d, Len(ins[d]) + 1>>]
    <3>1. s \in B /\ 1 \in 1 .. Len(ins[s]) + 1 /\ 1 <= Len(ins[s])
      BY <1>3
    <3>2. Len(ins[d]) + 1 \in 1 .. Len(ins[d]) + 1 /\ ~ (Len(ins[d]) + 1 <= Len(ins[d]))
      BY <1>3
    <3> HIDE DEF X, live, B
    <3> QED BY <1>5, <2>2, <3>1, <3>2
  <2> HIDE DEF X, B, F, points
  <2>3. \A d \in F.blocks : \A i \in 1 .. Len(F.ins[d]) : \A v \in Vars :
           \/ v \in L!Uses(F.ins[d][i])
           \/ v \notin L!Defs(F.ins[d][i]) /\ v \in X[<<d, i + 1>>]
           => v \in X[<<d, i>>]
    <3> SUFFICES ASSUME NEW d \in F.blocks, NEW i \in 1 .. Len(F.ins[d]), NEW v \in Vars,
                        \/ v \in L!Uses(F.ins[d][i])
                        \/ v \notin L!Defs(F.ins[d][i]) /\ v \in X[<<d, i + 1>>]
                 PROVE  v \in X[<<d, i>>]
      OBVIOUS
    <3>1. d \in B /\ i \in 1 .. Len(ins[d]) /\ F.ins[d][i] = code[ins[d][i]] BY <1>2
    <3>2. /\ L!Uses(F.ins[d][i]) = Uses(code[ins[d][i]])
          /\ L!Defs(F.ins[d][i]) = Defs(code[ins[d][i]])
      BY <3>1, SameUses
    <3>3. v \in Uses(code[ins[d][i]]) \/ (v \notin Defs(code[ins[d][i]]) /\ v \in X[<<d, i + 1>>])
      BY <3>2
    <3> QED BY <2>1, <3>1, <3>3
  <2>4. \A d \in F.blocks : \A v \in Vars : \A s \in L!SuccsIn(F, d) :
           v \in X[<<s, 1>>] => v \in X[<<d, Len(F.ins[d]) + 1>>]
    BY <1>2, <2>2
  <2> QED BY <1>1, <2>3, <2>4, L!PointsBelow DEF points
<1>7. ASSUME NEW d \in B, NEW v \in Vars
      PROVE  /\ \A i \in 1 .. Len(ins[d]) :
                  v \in points[<<d, i>>] <=>
                    \/ v \in Uses(code[ins[d][i]])
                    \/ v \notin Defs(code[ins[d][i]]) /\ v \in points[<<d, i + 1>>]
             /\ v \in points[<<d, Len(ins[d]) + 1>>] <=>
                  \E s \in Ends(d) : v \in points[<<s, 1>>]
  <2> HIDE DEF B, F, points
  <2>1. d \in F.blocks BY <1>2
  <2>2. /\ \A i \in 1 .. Len(F.ins[d]) :
              v \in points[<<d, i>>] <=>
                \/ v \in L!Uses(F.ins[d][i])
                \/ v \notin L!Defs(F.ins[d][i]) /\ v \in points[<<d, i + 1>>]
        /\ v \in points[<<d, Len(F.ins[d]) + 1>>] <=>
              \E s \in L!SuccsIn(F, d) : v \in points[<<s, 1>>]
    BY <1>1, <2>1, L!LiveAt DEF points
  <2>3. \A i \in 1 .. Len(ins[d]) : /\ L!Uses(F.ins[d][i]) = Uses(code[ins[d][i]])
                                    /\ L!Defs(F.ins[d][i]) = Defs(code[ins[d][i]])
    BY <1>2, SameUses
  <2>4. Len(F.ins[d]) = Len(ins[d]) /\ L!SuccsIn(F, d) = Ends(d) BY <1>2
  <2>5. ASSUME NEW i \in 1 .. Len(ins[d])
        PROVE  v \in points[<<d, i>>] <=>
                 \/ v \in Uses(code[ins[d][i]])
                 \/ v \notin Defs(code[ins[d][i]]) /\ v \in points[<<d, i + 1>>]
    BY <2>2, <2>3, <2>4
  <2>6. v \in points[<<d, Len(ins[d]) + 1>>] <=> \E s \in Ends(d) : v \in points[<<s, 1>>]
    BY <2>2, <2>4
  <2> QED BY <2>5, <2>6
<1>8. ASSUME NEW d \in B, NEW i \in 1 .. Len(ins[d]), NEW v \in Vars
      PROVE  v \in Z[ins[d][i]] <=> v \in points[<<d, i>>]
  <2> HIDE DEF B, points
  <2>1. \A e \in B : \A j \in 1 .. Len(ins[e]) : ins[e][j] = ins[d][i] => e = d /\ j = i
    BY SamePlace DEF B
  <2> QED BY <1>3, <2>1
<1>9. ASSUME NEW p \in DOMAIN code, NEW v \in Vars,
             v \in Uses(code[p]) \/ (v \notin Defs(code[p]) /\ \E q \in Succs(code, p) : v \in Z[q])
      PROVE  v \in Z[p]
  <2>1. PICK d \in B : \E i \in 1 .. Len(ins[d]) : ins[d][i] = p
    BY <1>3 DEF Built, Placed, CodeOrder
  <2>2. PICK i \in 1 .. Len(ins[d]) : ins[d][i] = p BY <2>1
  <2>3. Len(ins[d]) \in Nat BY <1>3
  <2>4. EdgesFollowCode BY EdgesDone DEF Built
  <2> HIDE DEF Z, points, live, F
  <2>5. CASE i < Len(ins[d])
    <3>1. i \in 1 .. Len(ins[d]) - 1 /\ i + 1 \in 1 .. Len(ins[d]) BY <2>3, <2>5
    <3>2. Succs(code, ins[d][i]) = {ins[d][i + 1]} BY <2>4, <3>1 DEF EdgesFollowCode, Built
    <3> QED BY <1>7, <1>8, <1>9, <2>2, <3>1, <3>2
  <2>6. CASE ~ (i < Len(ins[d]))
    <3>1. i = Len(ins[d]) BY <2>3, <2>6
    <3>2. {ins[s][1] : s \in Ends(d)} = Succs(code, ins[d][i])
      BY <2>4, <3>1 DEF EdgesFollowCode, Built, Ends
    <3>3. ASSUME NEW s \in Ends(d), v \in Z[ins[s][1]] PROVE v \in points[<<d, i + 1>>]
      <4>1. s \in B /\ 1 \in 1 .. Len(ins[s]) BY <1>3
      <4>2. v \in points[<<s, 1>>] BY <1>8, <3>3, <4>1
      <4> QED BY <1>7, <3>1, <4>2
    <3>4. \/ v \in Uses(code[ins[d][i]])
          \/ v \notin Defs(code[ins[d][i]]) /\ v \in points[<<d, i + 1>>]
      <4>1. CASE v \notin Defs(code[p]) /\ \E q \in Succs(code, p) : v \in Z[q]
        <5>1. PICK q \in Succs(code, p) : v \in Z[q] BY <4>1
        <5>2. PICK s \in Ends(d) : ins[s][1] = q BY <2>2, <3>2
        <5> QED BY <2>2, <3>3, <4>1, <5>1, <5>2
      <4> QED BY <1>9, <2>2, <4>1
    <3>5. v \in points[<<d, i>>] BY <1>7, <3>4
    <3> QED BY <1>8, <2>2, <3>5
  <2> QED BY <2>5, <2>6
<1>10. ASSUME NEW p \in DOMAIN code PROVE live[p] \subseteq Z[p] /\ live[p] \subseteq Vars
  <2> DEFINE succ == [q \in DOMAIN code |-> Succs(code, q)]
             uses == [q \in DOMAIN code |-> Uses(code[q])]
             defs == [q \in DOMAIN code |-> Defs(code[q])]
  <2>1. live = LiveIn(DOMAIN code, succ, uses, defs) BY DEF LiveBefore
  <2>2. IsFiniteSet(DOMAIN code)
    <3>1. DOMAIN code = 1 .. Len(code) /\ Len(code) \in Int /\ 1 \in Int BY <1>3
    <3> QED BY <3>1, FS_Interval
  <2>3. \A q \in DOMAIN code : succ[q] = Succs(code, q) /\ uses[q] = Uses(code[q]) /\ defs[q] = Defs(code[q])
    OBVIOUS
  <2> HIDE DEF succ, uses, defs, Z, live
  <2>4. \A q \in DOMAIN code : \A v \in Vars :
           \/ v \in uses[q]
           \/ v \notin defs[q] /\ \E s \in succ[q] \cap DOMAIN code : v \in Z[s]
           => v \in Z[q]
    <3> SUFFICES ASSUME NEW q \in DOMAIN code, NEW v \in Vars,
                        \/ v \in uses[q]
                        \/ v \notin defs[q] /\ \E s \in succ[q] \cap DOMAIN code : v \in Z[s]
                 PROVE  v \in Z[q]
      OBVIOUS
    <3>1. v \in Uses(code[q]) \/ (v \notin Defs(code[q]) /\ \E s \in Succs(code, q) : v \in Z[s])
      BY <2>3
    <3> QED BY <1>9, <3>1
  <2> QED BY <1>3, <2>1, <2>2, <2>4, LiveBelow, LiveAreVars DEF live
<1>11. b \in B /\ 1 \in 1 .. Len(ins[b]) /\ ins[b][1] \in DOMAIN code /\ 1 \in 1 .. Len(ins[b]) + 1
       /\ 1 <= Len(ins[b])
  BY <1>3
<1> HIDE DEF X, Z, B, F, points, live
<1>12. points[<<b, 1>>] \subseteq live[ins[b][1]]
  BY <1>4, <1>5, <1>6, <1>11
<1>13. live[ins[b][1]] \subseteq points[<<b, 1>>]
  BY <1>8, <1>10, <1>11
<1> QED BY <1>12, <1>13 DEF points, live, F

\* bb_build and lva together: where no block boundary was missed, a variable is in
\* the in set lva leaves a block of the unoptimized code if and only if some run of
\* the code from the block's first instruction on reads it before writing it.
THEOREM LiveInCodeAlways == AnalysisSpec => []LiveInCode
<1>1. Placed /\ EdgeInv /\ Joined => LiveInCode
  <2> SUFFICES ASSUME Placed, EdgeInv, Joined, phase = "done", NoShift, NEW b \in Blocks(code)
               PROVE  in[b] = LiveBefore(code)[ins[b][1]]
    BY DEF LiveInCode
  <2>2. Built /\ L!Known BY DEF Joined, Built
  <2>4. L!NeverTooLive /\ L!AllLiveFound
    BY <2>2, L!BelowLive, L!FixpointFindsAll DEF L!Known
  <2>5. Flow.blocks = Blocks(code) BY <2>2, FlowIs
  <2>6. in[b] = L!LiveAtPoints(Flow)[<<b, 1>>]
    <3> DEFINE p == <<b, 1>>
               live == L!LiveAtPoints(Flow)
    <3>1. in[b] \subseteq live[p] BY <2>4, <2>5 DEF L!NeverTooLive
    <3>2. live[p] \subseteq in[b] BY <2>4, <2>5 DEF L!AllLiveFound
    <3> HIDE DEF p, live
    <3>3. in[b] = live[p] BY <3>1, <3>2
    <3> QED BY <3>3 DEF p, live
  <2> QED BY <2>2, <2>6, LiveOfBlock
<1>2. AnalysisInit => Placed /\ EdgeInv /\ Joined
  BY PlacedInit, EdgesInit, JoinedInit DEF AnalysisInit
<1>3. Placed /\ EdgeInv /\ Joined /\ [AnalysisNext]_analysisVars => (Placed /\ EdgeInv /\ Joined)'
  BY BuildIsNext, PlacedNext, EdgesNext, JoinedNext
<1> QED BY <1>1, <1>2, <1>3, PTL DEF AnalysisSpec

=============================================================================
