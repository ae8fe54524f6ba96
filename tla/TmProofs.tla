------------------------------ MODULE TmProofs ------------------------------
(***************************************************************************)
(* Theorems about the TINY machine at its prompt, for every program, every *)
(* memory size and every line that may be typed: how far it leaves its     *)
(* memories, how many instructions a line executes, what its counters say. *)
(***************************************************************************)
EXTENDS TmShell, SequenceTheorems, FiniteSetTheorems, TLAPS

\* Names for what a step of the machine leaves.
Results == {"okay", "halt", "imem", "dmem", "zerodivide", "killed", "outside"}
Modes   == {"load", "prompt", "letter", "execute", "over"}

MachineOK ==
    /\ iMem \in IMem
    /\ \A loc \in DOMAIN iMem : iMem[loc].op \in RR => iMem[loc].a2 \in RegNos
    /\ reg \in [RegNos -> Int]
    /\ dMem \in [0 .. DADDR_SIZE - 1 -> Int]
    /\ sim \in [Counted -> Nat]
    /\ result \in Results

ReaderOK ==
    /\ file \in Seq(FileLines) \ {<< >>}
    /\ loading \in {"reading", "read", "failed", "outside"}
    /\ lineNo \in 0 .. Len(file) + 1
    /\ overall \in [Counted -> Nat]

CommandOK ==
    /\ mode \in Modes
    /\ typed \in 0 .. MaxLines
    /\ stepcnt \in Nat /\ asked \in Nat /\ began \in Nat
    /\ word \in Seq(STRING) /\ line \in Seq(STRING) /\ nums \in Seq(Int \cup {Text})

TypeInv == MachineOK /\ ReaderOK /\ CommandOK

\* What keeps stepcnt a natural number: the machine executes only while there is
\* something left of the count, or behind a g.
ExecuteInv ==
    /\ mode = "execute" => result = "okay" /\ (cmd = "g" \/ stepcnt > 0)
    /\ result = "outside" => mode = "over"

\* Where a line of one letter stands: not yet taken, being executed, done.
LineInv ==
    /\ mode = "load" => line = << >>
    /\ Len(line) = 1 =>
         /\ mode = "letter" /\ word # << >> => word = line /\ stepcnt = 0 /\ Executed = 0
         /\ mode = "execute" =>
              /\ word = << >>
              /\ \/ line = <<"s">> /\ cmd = "s" /\ Executed + stepcnt = asked
                 \/ line = <<"g">> /\ cmd = "g"
         /\ (mode = "letter" /\ word = << >>) \/ mode = "prompt" => AsAsked

Inv == TypeInv /\ ExecuteInv /\ OutsideOnlyAtSize /\ LineInv

-----------------------------------------------------------------------------
(* The operators. *)

\* Wrapping to the width of an int gives an integer.
LEMMA WordIsInt == ASSUME NEW n \in Int PROVE Word(n) \in Int
<1>1. WordBits - 1 \in Nat
  BY SizesAssumption
<1>2. 2 ^ (WordBits - 1) \in Nat \ {0}
  BY <1>1, SizesAssumption, PowersAssumption
<1>3. \A half \in Nat \ {0} : ((n + half) % (2 * half)) - half \in Int
  OBVIOUS
<1> QED BY <1>2, <1>3 DEF Word

\* The quotient of integers is one.
LEMMA DivideIsInt == ASSUME NEW a \in Int, NEW b \in Int \ {0} PROVE Divide(a, b) \in Int
BY SMT DEF Divide

\* Counting an instruction keeps the counters, and counts it once in all.
LEMMA CountCounts ==
  ASSUME NEW c \in [Counted -> Nat], NEW op \in TmOps
  PROVE  Count(c, op) \in [Counted -> Nat] /\ Count(c, op)["?ALL"] = c["?ALL"] + 1
<1>1. "?ALL" \in Counted
  BY DEF Counted
<1>2. \A d \in Counted : Count(c, op)[d] = c[d] + IF d \in {op, ClassOf(op), "?ALL"} THEN 1 ELSE 0
  BY DEF Count
<1>3. Count(c, op) = [d \in Counted |-> c[d] + IF d \in {op, ClassOf(op), "?ALL"} THEN 1 ELSE 0]
  BY DEF Count
<1>4. Count(c, op) \in [Counted -> Nat]
  BY <1>3
<1> QED BY <1>1, <1>2, <1>4

\* An instruction of the memory has a known operation and registers.
LEMMA InstructionOK ==
  ASSUME iMem \in IMem, NEW loc \in DOMAIN iMem
  PROVE  /\ loc \in Int
         /\ iMem[loc].op \in TmOps /\ iMem[loc].a1 \in RegNos
         /\ iMem[loc].a2 \in Int /\ iMem[loc].a3 \in RegNos
BY SizesAssumption DEF IMem

-----------------------------------------------------------------------------
(* One call of stepTM. *)

\* The program counter points to the next instruction, the rest is as it was.
LEMMA AdvancedOK ==
  ASSUME reg \in [RegNos -> Int]
  PROVE  Advanced \in [RegNos -> Int] /\ Advanced[PC] = reg[PC] + 1
BY DEF Advanced, RegNos, PC

\* What an arithmetic instruction leaves in its register is an integer.
LEMMA ValueIsInt ==
  ASSUME NEW rg \in [RegNos -> Int], NEW i,
         i.op \in {"ADD", "SUB", "MUL", "DIV", "INC", "DEC", "SHL", "SHR"},
         i.a1 \in RegNos, i.a2 \in RegNos, i.a3 \in RegNos,
         i.op = "DIV" => rg[i.a3] # 0
  PROVE  Value(i.op, rg, i) \in Int
<1> DEFINE s == rg[i.a2]  t == rg[i.a3]
<1>1. s \in Int /\ t \in Int /\ rg[i.a1] \in Int
  OBVIOUS
<1>2. t % WordBits \in 0 .. WordBits
  BY <1>1, SizesAssumption
<1>3. 2 ^ (t % WordBits) \in Nat \ {0}
  BY <1>2, PowersAssumption
<1>4. s * 2 ^ (t % WordBits) \in Int /\ s \div 2 ^ (t % WordBits) \in Int
  BY <1>1, <1>3
<1>5. s + t \in Int /\ s - t \in Int /\ s * t \in Int /\ rg[i.a1] + 1 \in Int /\ rg[i.a1] - 1 \in Int
  BY <1>1
<1>6. i.op = "DIV" => Divide(s, t) \in Int
  BY <1>1, DivideIsInt
<1>7. CASE i.op = "DIV"
  <2>1. Value(i.op, rg, i) = Word(Divide(s, t))
    BY <1>7 DEF Value
  <2> QED BY <2>1, <1>6, <1>7, WordIsInt
<1>8. CASE i.op = "SHL"
  <2>1. Value(i.op, rg, i) = Word(s * 2 ^ (t % WordBits))
    BY <1>8 DEF Value
  <2> QED BY <2>1, <1>4, WordIsInt
<1>9. CASE i.op = "SHR"
  <2>1. Value(i.op, rg, i) = s \div 2 ^ (t % WordBits)
    BY <1>9 DEF Value
  <2> QED BY <2>1, <1>4
<1>10. CASE i.op \in {"ADD", "SUB", "MUL", "INC", "DEC"}
  <2>1. \/ Value(i.op, rg, i) = Word(s + t)
        \/ Value(i.op, rg, i) = Word(s - t)
        \/ Value(i.op, rg, i) = Word(s * t)
        \/ Value(i.op, rg, i) = Word(rg[i.a1] + 1)
        \/ Value(i.op, rg, i) = Word(rg[i.a1] - 1)
    BY <1>10 DEF Value
  <2> QED BY <2>1, <1>5, WordIsInt
<1> QED BY <1>7, <1>8, <1>9, <1>10

\* The address of an instruction is an integer.
LEMMA AddressIsInt ==
  ASSUME reg \in [RegNos -> Int], NEW i, i.a2 \in Int, i.a3 \in RegNos
  PROVE  Address(i) \in Int
<1>1. i.a2 + Advanced[i.a3] \in Int
  BY AdvancedOK
<1> QED BY <1>1, WordIsInt DEF Address

\* A faulting step that executes nothing: the program counter is outside.
LEMMA FaultStep ==
  ASSUME MachineOK, InstructionFault \/ InstructionOutside, UNCHANGED iMem
  PROVE  /\ MachineOK' /\ sim' = sim
         /\ result' \in {"imem", "outside"}
         /\ OutsideOnlyAtSize'
BY DEF MachineOK, InstructionFault, InstructionOutside, Results, OutsideOnlyAtSize

\* Setting a register keeps the registers.
LEMMA SetOK ==
  ASSUME reg \in [RegNos -> Int], NEW r \in RegNos, NEW n \in Int, Set(r, n)
  PROVE  reg' \in [RegNos -> Int]
BY AdvancedOK DEF Set

\* A load or a store: it leaves the data memory at its size only.
LEMMA MemoryStep ==
  ASSUME MachineOK, reg[PC] \in DOMAIN iMem, Memory, UNCHANGED iMem
  PROVE  /\ reg' \in [RegNos -> Int] /\ dMem' \in [0 .. DADDR_SIZE - 1 -> Int]
         /\ result' \in {"okay", "dmem", "outside"}
         /\ OutsideOnlyAtSize'
<1> DEFINE i == iMem[reg[PC]]  m == Address(i)
<1>1. /\ reg \in [RegNos -> Int] /\ dMem \in [0 .. DADDR_SIZE - 1 -> Int]
      /\ reg[PC] \in Int
      /\ i.a1 \in RegNos /\ i.a2 \in Int /\ i.a3 \in RegNos
  BY InstructionOK DEF MachineOK
<1>2. Advanced \in [RegNos -> Int] /\ Advanced[PC] = reg[PC] + 1
  BY <1>1, AdvancedOK
<1>3. m \in Int
  BY <1>1, AddressIsInt
<1>4. \/ MemoryFault(m) /\ Stop("dmem") /\ UNCHANGED dMem
      \/ ~ MemoryFault(m) /\ m \notin DOMAIN dMem /\ Stop("outside") /\ UNCHANGED dMem
      \/ /\ m \in DOMAIN dMem
         /\ IF i.op = "LD"
            THEN Set(i.a1, dMem[m]) /\ UNCHANGED dMem
            ELSE dMem' = [dMem EXCEPT ![m] = Advanced[i.a1]] /\ reg' = Advanced
         /\ result' = "okay"
  BY DEF Memory
<1>5. CASE MemoryFault(m) /\ Stop("dmem") /\ UNCHANGED dMem
  BY <1>1, <1>2, <1>5 DEF Stop, OutsideOnlyAtSize
<1>6. CASE ~ MemoryFault(m) /\ m \notin DOMAIN dMem /\ Stop("outside") /\ UNCHANGED dMem
  <2>1. m = DADDR_SIZE
    BY <1>1, <1>3, <1>6, SizesAssumption DEF MemoryFault
  <2>2. reg' = Advanced /\ iMem' = iMem /\ reg'[PC] - 1 = reg[PC]
    BY <1>1, <1>2, <1>6 DEF Stop
  <2>3. Word(iMem[reg'[PC] - 1].a2 + reg'[iMem[reg'[PC] - 1].a3]) = DADDR_SIZE
    BY <2>1, <2>2 DEF Address
  <2>4. OutsideOnlyAtSize'
    BY <2>2, <2>3 DEF OutsideOnlyAtSize
  <2> QED BY <1>1, <1>2, <1>6, <2>4 DEF Stop
<1>7. CASE m \in DOMAIN dMem /\ i.op = "LD" /\ Set(i.a1, dMem[m]) /\ UNCHANGED dMem /\ result' = "okay"
  <2>1. dMem[m] \in Int
    BY <1>1, <1>7
  <2>2. reg' \in [RegNos -> Int]
    BY <1>1, <1>7, <2>1, SetOK
  <2> QED BY <1>1, <1>7, <2>2 DEF OutsideOnlyAtSize
<1>8. CASE /\ m \in DOMAIN dMem /\ dMem' = [dMem EXCEPT ![m] = Advanced[i.a1]]
           /\ reg' = Advanced /\ result' = "okay"
  BY <1>1, <1>2, <1>8 DEF OutsideOnlyAtSize
<1> QED BY <1>4, <1>5, <1>6, <1>7, <1>8

\* The other instructions never leave a memory.
LEMMA ExecuteStep ==
  ASSUME MachineOK, reg[PC] \in DOMAIN iMem, NEW n \in Int,
         Halt \/ In(n) \/ Out \/ Arithmetic \/ Load \/ Jump
  PROVE  /\ reg' \in [RegNos -> Int] /\ dMem' = dMem
         /\ result' \in {"okay", "halt", "zerodivide", "killed"}
<1> DEFINE i == iMem[reg[PC]]
<1>1. /\ reg \in [RegNos -> Int]
      /\ i.op \in TmOps /\ i.a1 \in RegNos /\ i.a2 \in Int /\ i.a3 \in RegNos
      /\ i.op \in RR => i.a2 \in RegNos
  BY InstructionOK DEF MachineOK
<1>2. Advanced \in [RegNos -> Int]
  BY <1>1, AdvancedOK
<1>3. CASE Halt
  BY <1>2, <1>3 DEF Halt, Stop
<1>4. CASE In(n)
  <2>1. Set(i.a1, n) /\ result' = "okay" /\ dMem' = dMem
    BY <1>4 DEF In
  <2> QED BY <1>1, <2>1, SetOK
<1>5. CASE Out
  BY <1>2, <1>5 DEF Out, Stop
<1>6. CASE Arithmetic
  <2>1. /\ i.op \in {"ADD", "SUB", "MUL", "DIV", "INC", "DEC", "SHL", "SHR"}
        /\ dMem' = dMem
        /\ IF i.op = "DIV" /\ Advanced[i.a3] = 0 THEN Stop("zerodivide")
           ELSE IF i.op = "DIV" /\ Overflows(i) THEN Stop("killed")
           ELSE Set(i.a1, Value(i.op, Advanced, i)) /\ result' = "okay"
    BY <1>6 DEF Arithmetic, Fetch
  <2>2. CASE Stop("zerodivide") \/ Stop("killed")
    BY <1>2, <2>1, <2>2 DEF Stop
  <2>3. CASE ~ (i.op = "DIV" /\ Advanced[i.a3] = 0) /\ Set(i.a1, Value(i.op, Advanced, i)) /\ result' = "okay"
    <3>1. i.a2 \in RegNos
      BY <1>1, <2>1 DEF RR
    <3>2. Value(i.op, Advanced, i) \in Int
      BY <1>1, <1>2, <2>1, <2>3, <3>1, ValueIsInt
    <3> QED BY <1>1, <2>1, <2>3, <3>2, SetOK
  <2> QED BY <2>1, <2>2, <2>3
<1>7. CASE Load
  <2>1. /\ Set(i.a1, IF i.op = "LDA" THEN Address(i) ELSE i.a2)
        /\ result' = "okay" /\ dMem' = dMem
    BY <1>7 DEF Load
  <2>2. (IF i.op = "LDA" THEN Address(i) ELSE i.a2) \in Int
    BY <1>1, AddressIsInt
  <2> QED BY <1>1, <2>1, <2>2, SetOK
<1>8. CASE Jump
  <2>1. /\ reg' = Advanced \/ reg' = [Advanced EXCEPT ![PC] = Address(i)]
        /\ result' = "okay" /\ dMem' = dMem
    BY <1>8 DEF Jump
  <2>2. Address(i) \in Int
    BY <1>1, AddressIsInt
  <2> QED BY <1>2, <2>1, <2>2
<1> QED BY <1>3, <1>4, <1>5, <1>6, <1>7, <1>8

\* Every instruction fetched is counted.
LEMMA FetchCounts ==
  ASSUME MachineOK, reg[PC] \in DOMAIN iMem, NEW n \in Int,
         Halt \/ In(n) \/ Out \/ Arithmetic \/ Memory \/ Load \/ Jump
  PROVE  sim' \in [Counted -> Nat] /\ sim'["?ALL"] = sim["?ALL"] + 1
<1>1. sim' = Count(sim, iMem[reg[PC]].op)
  BY DEF Halt, In, Out, Arithmetic, Memory, Load, Jump, Fetch
<1> QED BY <1>1, InstructionOK, CountCounts DEF MachineOK

\* A call of stepTM: the machine stays well typed, a step that does not fault
\* is counted, and only the address behind the last cell leaves a memory.
LEMMA StepOK ==
  ASSUME MachineOK, NEW n \in Int, StepTM(n), UNCHANGED iMem
  PROVE  /\ MachineOK'
         /\ sim'["?ALL"] \in {sim["?ALL"], sim["?ALL"] + 1}
         /\ result' = "okay" => sim'["?ALL"] = sim["?ALL"] + 1
         /\ OutsideOnlyAtSize'
<1>1. CASE InstructionFault \/ InstructionOutside
  BY <1>1, FaultStep
<1>2. CASE reg[PC] \in DOMAIN iMem /\ (Halt \/ In(n) \/ Out \/ Arithmetic \/ Load \/ Jump)
  <2>1. /\ reg' \in [RegNos -> Int] /\ dMem' = dMem
        /\ result' \in {"okay", "halt", "zerodivide", "killed"}
    BY <1>2, ExecuteStep
  <2>2. sim' \in [Counted -> Nat] /\ sim'["?ALL"] = sim["?ALL"] + 1
    BY <1>2, FetchCounts
  <2>3. OutsideOnlyAtSize'
    BY <2>1 DEF OutsideOnlyAtSize
  <2> QED BY <2>1, <2>2, <2>3 DEF MachineOK, Results
<1>3. CASE reg[PC] \in DOMAIN iMem /\ Memory
  <2>1. /\ reg' \in [RegNos -> Int] /\ dMem' \in [0 .. DADDR_SIZE - 1 -> Int]
        /\ result' \in {"okay", "dmem", "outside"}
        /\ OutsideOnlyAtSize'
    BY <1>3, MemoryStep
  <2>2. sim' \in [Counted -> Nat] /\ sim'["?ALL"] = sim["?ALL"] + 1
    BY <1>3, FetchCounts
  <2> QED BY <2>1, <2>2 DEF MachineOK, Results
<1> QED BY <1>1, <1>2, <1>3 DEF StepTM

-----------------------------------------------------------------------------
(* The steps of the shell. *)

\* A word of one letter is that letter.
LEMMA OneLetter ==
  ASSUME NEW s \in Seq(STRING), Len(s) = 1
  PROVE  s = <<Head(s)>> /\ Tail(s) = << >> /\ s # << >>
<1>1. s # << >> /\ Head(s) \in STRING /\ s[1] = Head(s)
  OBVIOUS
<1>2. Tail(s) \in Seq(STRING) /\ Len(Tail(s)) = 0
  BY <1>1
<1>3. Tail(s) = << >>
  BY <1>2, EmptySeq
<1>4. <<Head(s)>> \in Seq(STRING) /\ Len(<<Head(s)>>) = 1 /\ <<Head(s)>>[1] = Head(s)
  BY <1>1
<1>5. s = <<Head(s)>>
  <2>1. Len(s) = Len(<<Head(s)>>) /\ \A i \in 1 .. Len(s) : s[i] = <<Head(s)>>[i]
    BY <1>1, <1>4
  <2> QED BY <1>4, <2>1, SeqEqual
<1> QED BY <1>1, <1>3, <1>5

\* The line read is one of the file's.
LEMMA LineIsOne ==
  ASSUME ReaderOK, NEW k \in Nat \ {0}
  PROVE  LineAt(k) \in FileLines
BY DEF ReaderOK, LineAt

\* A line that is loaded is an instruction with its registers.
LEMMA AcceptedIsInstruction ==
  ASSUME NEW l \in FileLines, Acceptable(l)
  PROVE  /\ l.op \in TmOps /\ l.a1 \in RegNos /\ l.a2 \in Int /\ l.a3 \in RegNos
         /\ l.op \in RR => l.a2 \in RegNos
BY DEF FileLines, Acceptable

\* Loading keeps the instruction memory.
LEMMA LoadedOK ==
  ASSUME MachineOK, NEW loc \in DOMAIN iMem, NEW op \in TmOps, NEW a1 \in RegNos,
         NEW a2 \in Int, NEW a3 \in RegNos, op \in RR => a2 \in RegNos,
         iMem' = [iMem EXCEPT ![loc] = TmIns(op, a1, a2, a3)]
  PROVE  /\ iMem' \in IMem
         /\ \A l \in DOMAIN iMem' : iMem'[l].op \in RR => iMem'[l].a2 \in RegNos
BY DEF MachineOK, IMem, TmIns

LEMMA ReadStep ==
  ASSUME Inv, ReadProgram
  PROVE  Inv'
<1> USE DEF Inv, TypeInv
<1>1. /\ UNCHANGED <<file, runVars, typed, word, nums, cmd, stepcnt, iloc, dloc, history>>
      /\ mode = "load"
  BY DEF ReadProgram, ReadLine, ReadEnd
<1>2. /\ loading' \in {"reading", "read", "failed", "outside"}
      /\ lineNo' \in 0 .. Len(file) + 1
  BY DEF ReadProgram, ReadLine, ReadEnd, ReaderOK
<1>3. mode' \in {"load", "prompt", "over"}
  BY DEF ReadProgram
<1>4. /\ iMem' \in IMem
      /\ \A l \in DOMAIN iMem' : iMem'[l].op \in RR => iMem'[l].a2 \in RegNos
      /\ overall' \in [Counted -> Nat]
  <2>1. CASE UNCHANGED <<iMem, overall>>
    BY <2>1 DEF MachineOK, ReaderOK
  <2>2. CASE ReadLine /\ ~ UNCHANGED <<iMem, overall>>
    <3> DEFINE l == LineAt(lineNo + 1)
    <3>1. /\ Acceptable(l) /\ overall' = Count(overall, l.op)
          /\ \/ l.loc \in DOMAIN iMem /\ iMem' = [iMem EXCEPT ![l.loc] = TmIns(l.op, l.a1, l.a2, l.a3)]
             \/ UNCHANGED iMem
      BY <2>2 DEF ReadLine
    <3>2. l \in FileLines
      <4>1. lineNo + 1 \in Nat \ {0}
        BY DEF ReaderOK
      <4> QED BY <4>1, LineIsOne
    <3>3. /\ l.op \in TmOps /\ l.a1 \in RegNos /\ l.a2 \in Int /\ l.a3 \in RegNos
          /\ l.op \in RR => l.a2 \in RegNos
      BY <3>1, <3>2, AcceptedIsInstruction
    <3>4. overall' \in [Counted -> Nat]
      BY <3>1, <3>3, CountCounts DEF ReaderOK
    <3>5. CASE UNCHANGED iMem
      BY <3>4, <3>5 DEF MachineOK
    <3>6. CASE l.loc \in DOMAIN iMem /\ iMem' = [iMem EXCEPT ![l.loc] = TmIns(l.op, l.a1, l.a2, l.a3)]
      BY <3>3, <3>4, <3>6, LoadedOK
    <3> QED BY <3>1, <3>5, <3>6
  <2> QED BY <2>1, <2>2 DEF ReadProgram, ReadEnd
<1>5. MachineOK'
  BY <1>1, <1>4 DEF MachineOK, runVars
<1>6. ReaderOK'
  BY <1>1, <1>2, <1>4 DEF ReaderOK
<1>7. CommandOK'
  BY <1>1, <1>3 DEF CommandOK, Modes, history
<1>8. ExecuteInv' /\ OutsideOnlyAtSize'
  BY <1>1, <1>3 DEF ExecuteInv, OutsideOnlyAtSize, runVars
<1>9. LineInv'
  <2>1. line' = << >>
    BY <1>1 DEF LineInv, history
  <2> QED BY <2>1 DEF LineInv
<1> QED BY <1>5, <1>6, <1>7, <1>8, <1>9

LEMMA TypeLineStep ==
  ASSUME Inv, TypeLine
  PROVE  Inv'
<1> USE DEF Inv, TypeInv
<1>1. PICK l \in Lines : word' = l.word /\ nums' = l.nums /\ line' = l.word
  BY DEF TypeLine
<1>2. l.word \in Seq(STRING) /\ l.nums \in Seq(Int \cup {Text})
  BY ShellAssumption
<1>3. /\ mode' = "letter" /\ stepcnt' = 0 /\ asked' = 0 /\ typed' = typed + 1
      /\ typed < MaxLines
      /\ began' = sim["?ALL"] /\ mode = "prompt"
      /\ UNCHANGED <<loadVars, runVars>>
  BY DEF TypeLine
<1>4. sim["?ALL"] \in Nat
  BY DEF MachineOK, Counted
<1>5. MachineOK' /\ ReaderOK'
  BY <1>3 DEF MachineOK, ReaderOK, loadVars, runVars
<1>6. CommandOK'
  BY <1>1, <1>2, <1>3, <1>4, ShellAssumption DEF CommandOK, Modes
<1>7. ExecuteInv' /\ OutsideOnlyAtSize'
  BY <1>3 DEF ExecuteInv, OutsideOnlyAtSize, loadVars, runVars
<1>8. Executed' = 0
  BY <1>3, <1>4 DEF Executed, runVars
<1>9. LineInv'
  <2>1. word' = line' /\ mode' # "load" /\ mode' # "execute" /\ mode' # "prompt"
    BY <1>1, <1>3
  <2>2. Len(line') = 1 => line' # << >>
    <3>1. Len(<< >>) = 0
      BY EmptySeq
    <3> QED BY <3>1
  <2>3. stepcnt' = 0
    BY <1>3
  <2> QED BY <1>8, <2>1, <2>2, <2>3 DEF LineInv
<1> QED BY <1>5, <1>6, <1>7, <1>9

\* What every command but q does: the next letter is taken, what it asks to be
\* executed is a natural number, and nothing is executed yet.
LEMMA LetterStep ==
  ASSUME Inv, Command, ~ QuitCommand
  PROVE  /\ mode = "letter" /\ word # << >>
         /\ cmd' = Head(word) /\ word' = Tail(word) /\ result' = "okay"
         /\ mode' = IF stepcnt' > 0 \/ Head(word) = "g" THEN "execute" ELSE "letter"
         /\ stepcnt' \in Nat /\ asked' \in Nat /\ nums' \in Seq(Int \cup {Text})
         /\ Head(word) = "s" => asked' = stepcnt'
         /\ Head(word) \notin {"s", "g"} => stepcnt' \in {0, stepcnt}
         /\ reg' \in [RegNos -> Int] /\ dMem' \in [0 .. DADDR_SIZE - 1 -> Int]
         /\ UNCHANGED <<loadVars, sim, typed, line, began>>
<1> USE DEF Inv, TypeInv, TakeLetter
<1>1. /\ reg \in [RegNos -> Int] /\ dMem \in [0 .. DADDR_SIZE - 1 -> Int]
      /\ stepcnt \in Nat /\ asked \in Nat /\ nums \in Seq(Int \cup {Text})
  BY DEF MachineOK, CommandOK
<1>2. CASE StepCommand
  <2>1. IsNumber(1) => nums # << >> /\ nums[1] \in Int
    BY <1>1 DEF IsNumber
  <2>2. nums # << >> => Tail(nums) \in Seq(Int \cup {Text})
    BY <1>1
  <2>3. stepcnt' \in Nat /\ nums' \in Seq(Int \cup {Text})
    BY <1>1, <1>2, <2>1, <2>2 DEF StepCommand, Abs
  <2> QED BY <1>1, <1>2, <2>3 DEF StepCommand
<1>3. CASE GoCommand
  BY <1>1, <1>3 DEF GoCommand
<1>4. CASE PrintCommand
  BY <1>1, <1>4 DEF PrintCommand
<1>5. CASE AnalyzeCommand
  BY <1>1, <1>5 DEF AnalyzeCommand
<1>6. CASE ListCommand
  <2>1. nums # << >> => Tail(nums) \in Seq(Int \cup {Text})
    BY <1>1
  <2>2. IsNumber(2) => nums # << >> /\ Tail(nums) # << >>
    <3>1. IsNumber(2) => 2 \in 1 .. Len(nums)
      BY <1>1 DEF IsNumber
    <3>2. Len(nums) >= 2 => nums # << >> /\ Len(Tail(nums)) = Len(nums) - 1
      BY <1>1
    <3>3. Len(nums) >= 2 => Tail(nums) # << >>
      <4>1. Len(<< >>) = 0
        BY EmptySeq
      <4>2. Len(nums) \in Nat
        BY <1>1
      <4> QED BY <3>2, <4>1, <4>2
    <3> QED BY <1>1, <3>1, <3>2, <3>3
  <2>3. Tail(nums) \in Seq(Int \cup {Text}) /\ Tail(nums) # << >> =>
          Tail(Tail(nums)) \in Seq(Int \cup {Text})
    OBVIOUS
  <2>4. IsNumber(1) => nums # << >>
    BY DEF IsNumber
  <2>5. nums' \in {nums, Tail(nums), Tail(Tail(nums))}
        /\ (nums' = Tail(nums) => IsNumber(1) \/ IsNumber(2) \/ nums' = nums)
        /\ (nums' = Tail(Tail(nums)) => IsNumber(2) \/ nums' = nums \/ nums' = Tail(nums))
    BY <1>6 DEF ListCommand
  <2>6. nums' \in Seq(Int \cup {Text})
    BY <1>1, <2>1, <2>2, <2>3, <2>4, <2>5
  <2> QED BY <1>1, <1>6, <2>6 DEF ListCommand
<1>7. CASE ClearCommand
  <2>1. reg' \in [RegNos -> Int]
    BY <1>7 DEF ClearCommand
  <2>2. dMem' \in [0 .. DADDR_SIZE - 1 -> Int]
    BY <1>7, SizesAssumption DEF ClearCommand, ClearedMemory
  <2> QED BY <1>1, <1>7, <2>1, <2>2 DEF ClearCommand
<1> QED BY <1>2, <1>3, <1>4, <1>5, <1>6, <1>7 DEF Command

LEMMA CommandStep ==
  ASSUME Inv, Command, ~ QuitCommand
  PROVE  Inv'
<1> USE DEF Inv, TypeInv
<1>1. word \in Seq(STRING) /\ word # << >> /\ line \in Seq(STRING)
  BY LetterStep DEF CommandOK
<1>2. Tail(word) \in Seq(STRING)
  BY <1>1
<1>3. MachineOK' /\ ReaderOK'
  BY LetterStep DEF MachineOK, ReaderOK, Results, loadVars
<1>4. CommandOK'
  BY <1>2, LetterStep DEF CommandOK, Modes
<1>5. ExecuteInv' /\ OutsideOnlyAtSize'
  BY LetterStep DEF ExecuteInv, OutsideOnlyAtSize
<1>6. ASSUME Len(line) = 1
      PROVE  /\ line = <<Head(word)>> /\ word' = << >>
             /\ stepcnt = 0 /\ Executed' = 0
  <2>1. word = line /\ stepcnt = 0 /\ Executed = 0
    BY <1>6, LetterStep DEF LineInv
  <2>2. Executed' = Executed
    BY LetterStep DEF Executed
  <2> QED BY <1>1, <1>6, <2>1, <2>2, OneLetter, LetterStep
<1>7. ASSUME Len(line) = 1, mode' = "execute"
      PROVE  \/ line = <<"s">> /\ cmd' = "s" /\ Executed' + stepcnt' = asked'
             \/ line = <<"g">> /\ cmd' = "g"
  BY <1>6, <1>7, LetterStep
<1>8. ASSUME Len(line) = 1, mode' = "letter"
      PROVE  AsAsked'
  <2>1. Head(word) # "g" /\ stepcnt' = 0
    BY <1>8, LetterStep
  <2>2. CASE Head(word) = "s"
    <3>1. line' = <<"s">> /\ Executed' = asked'
      BY <1>6, <1>8, <2>1, <2>2, LetterStep
    <3> QED BY <3>1 DEF AsAsked
  <2>3. CASE Head(word) # "s"
    <3>1. line' # <<"s">> /\ line' # <<"g">> /\ Executed' = 0
      BY <1>6, <1>8, <2>1, <2>3, LetterStep
    <3> QED BY <3>1 DEF AsAsked
  <2> QED BY <2>2, <2>3
<1>9. LineInv'
  <2>1. line' = line /\ mode' \in {"letter", "execute"}
    BY LetterStep
  <2> QED BY <1>6, <1>7, <1>8, <2>1 DEF LineInv
<1> QED BY <1>3, <1>4, <1>5, <1>9

LEMMA ExecuteKeeps ==
  ASSUME Inv, Execute
  PROVE  Inv'
<1> USE DEF Inv, TypeInv
<1>1. PICK n \in Answers : StepTM(n)
  BY DEF Execute
<1>2. /\ mode = "execute" /\ result = "okay" /\ (cmd = "g" \/ stepcnt > 0)
      /\ UNCHANGED <<loadVars, typed, word, cmd, history>>
      /\ nums' \in {<< >>, nums}
      /\ stepcnt' = IF cmd = "g" THEN stepcnt + 1 ELSE stepcnt - 1
      /\ mode' = CASE result' \in {"outside", "killed"} -> "over"
                   [] GoesOn -> "execute"
                   [] OTHER -> "letter"
  BY DEF Execute, ExecuteInv, StepsLeft
<1>3. n \in Int /\ UNCHANGED iMem
  BY <1>2, ShellAssumption DEF loadVars
<1>4. /\ MachineOK' /\ OutsideOnlyAtSize'
      /\ sim'["?ALL"] \in {sim["?ALL"], sim["?ALL"] + 1}
      /\ result' = "okay" => sim'["?ALL"] = sim["?ALL"] + 1
  BY <1>1, <1>3, StepOK
<1>5. stepcnt' \in Nat
  BY <1>2 DEF CommandOK
<1>6. mode' \in {"over", "execute", "letter"}
  BY <1>2
<1>7. ReaderOK'
  BY <1>2 DEF ReaderOK, loadVars
<1>8. CommandOK'
  <2>1. nums' \in Seq(Int \cup {Text})
    <3>1. << >> \in Seq(Int \cup {Text}) /\ nums \in Seq(Int \cup {Text})
      BY EmptySeq DEF CommandOK
    <3> QED BY <1>2, <3>1
  <2>2. UNCHANGED <<typed, word, line, asked, began>>
    BY <1>2 DEF history
  <2> QED BY <1>5, <1>6, <2>1, <2>2 DEF CommandOK, Modes
<1>9. ExecuteInv'
  BY <1>2, <1>4 DEF ExecuteInv, GoesOn, MachineOK, Results
<1>10. sim["?ALL"] \in Nat /\ began \in Nat /\ asked \in Nat /\ stepcnt \in Nat
  BY DEF MachineOK, CommandOK, Counted
<1>11. Executed' \in {Executed, Executed + 1} /\ (result' = "okay" => Executed' = Executed + 1) /\ Executed \in Int
  BY <1>2, <1>4, <1>10 DEF Executed, history
<1>12. ASSUME Len(line) = 1
       PROVE  /\ word = << >>
              /\ mode' = "execute" =>
                   \/ line = <<"s">> /\ cmd = "s" /\ Executed' + stepcnt' = asked
                   \/ line = <<"g">> /\ cmd = "g"
              /\ mode' = "letter" => AsAsked'
  <2>1. /\ word = << >>
        /\ \/ line = <<"s">> /\ cmd = "s" /\ Executed + stepcnt = asked
           \/ line = <<"g">> /\ cmd = "g"
    <3>1. LineInv /\ mode = "execute"
      BY <1>2
    <3> QED BY <1>12, <3>1 DEF LineInv
  <2>2. CASE line = <<"g">> /\ cmd = "g"
    <3>1. mode' = "letter" => result' # "okay"
      BY <1>2, <2>2 DEF GoesOn
    <3>2. line' = <<"g">> /\ line' # <<"s">>
      BY <1>2, <2>2 DEF history
    <3> QED BY <2>1, <2>2, <3>1, <3>2 DEF AsAsked
  <2>3. CASE line = <<"s">> /\ cmd = "s" /\ Executed + stepcnt = asked
    <3>1. stepcnt > 0 /\ stepcnt' = stepcnt - 1
      BY <1>2, <2>3
    <3>2. mode' = "execute" => result' = "okay"
      BY <1>2 DEF GoesOn
    <3>3. mode' = "letter" => Executed' = asked \/ (Executed' < asked /\ result' # "okay")
      BY <1>2, <1>10, <1>11, <2>3, <3>1 DEF GoesOn
    <3>4. line' = <<"s">> /\ asked' = asked
      BY <1>2, <2>3 DEF history
    <3> QED BY <1>10, <1>11, <2>1, <2>3, <3>1, <3>2, <3>3, <3>4 DEF AsAsked
  <2> QED BY <2>1, <2>2, <2>3
<1>13. LineInv'
  <2>1. line' = line /\ asked' = asked /\ word' = word /\ cmd' = cmd
    BY <1>2 DEF history
  <2> QED BY <1>6, <1>12, <2>1 DEF LineInv
<1> QED BY <1>4, <1>7, <1>8, <1>9, <1>13

\* Ending the line, leaving the loop and stuttering.
LEMMA RestStep ==
  ASSUME Inv, LineEnd \/ QuitCommand \/ UNCHANGED vars
  PROVE  Inv'
<1> USE DEF Inv, TypeInv
<1>1. /\ UNCHANGED <<loadVars, runVars, typed, word, nums, cmd, stepcnt, iloc, dloc, history>>
      /\ \/ mode = "letter" /\ word = << >> /\ mode' = "prompt"
         \/ mode = "letter" /\ mode' = "over"
         \/ mode' = mode
  BY DEF LineEnd, QuitCommand, vars, shellVars
<1>2. MachineOK' /\ ReaderOK' /\ CommandOK'
  BY <1>1 DEF MachineOK, ReaderOK, CommandOK, Modes, loadVars, runVars, history
<1>3. ExecuteInv' /\ OutsideOnlyAtSize'
  BY <1>1 DEF ExecuteInv, OutsideOnlyAtSize, loadVars, runVars
<1>4. Executed' = Executed /\ AsAsked' = AsAsked
  BY <1>1 DEF Executed, AsAsked, runVars, history
<1>5. LineInv'
  BY <1>1, <1>4 DEF LineInv, history
<1> QED BY <1>2, <1>3, <1>5

-----------------------------------------------------------------------------
\* The invariant holds when main begins ...
LEMMA InitInv == Init => Inv
<1> SUFFICES ASSUME Init PROVE Inv
  OBVIOUS
<1>1. "HALT" \in TmOps /\ 0 \in RegNos /\ Zeroes \in [Counted -> Nat]
  BY DEF TmOps, RR, RegNos, Zeroes
<1>2. MachineOK
  <2>1. iMem = [loc \in 0 .. IADDR_SIZE - 1 |-> [op |-> "HALT", a1 |-> 0, a2 |-> 0, a3 |-> 0]]
    BY DEF Init, LoadInit, TmIns
  <2>2. iMem \in IMem /\ \A loc \in DOMAIN iMem : iMem[loc].a2 \in RegNos
    BY <1>1, <2>1 DEF IMem
  <2>3. /\ dMem = ClearedMemory /\ reg = [r \in RegNos |-> 0]
        /\ sim = Zeroes /\ result = "okay"
    BY DEF Init, LoadInit
  <2>4. ClearedMemory \in [0 .. DADDR_SIZE - 1 -> Int]
    BY SizesAssumption DEF ClearedMemory
  <2> QED BY <1>1, <2>2, <2>3, <2>4 DEF MachineOK, Results
<1>3. ReaderOK
  <2>1. file \in Seq(FileLines) \ {<< >>}
    BY FilesAssumption DEF Init, LoadInit
  <2>2. loading = "reading" /\ lineNo = 0 /\ overall = Zeroes
    BY DEF Init, LoadInit
  <2>3. Len(file) \in Nat
    BY <2>1
  <2> QED BY <1>1, <2>1, <2>2, <2>3 DEF ReaderOK
<1>4. CommandOK
  <2>1. /\ mode = "load" /\ typed = 0 /\ stepcnt = 0 /\ asked = 0 /\ began = 0
        /\ word = << >> /\ line = << >> /\ nums = << >>
    BY DEF Init
  <2>2. << >> \in Seq(STRING) /\ << >> \in Seq(Int)
    BY EmptySeq
  <2> QED BY <2>1, <2>2, ShellAssumption DEF CommandOK, Modes
<1>5. ExecuteInv /\ OutsideOnlyAtSize /\ LineInv
  BY DEF Init, LoadInit, ExecuteInv, OutsideOnlyAtSize, LineInv
<1> QED BY <1>2, <1>3, <1>4, <1>5 DEF Inv, TypeInv

\* ... every step keeps it ...
LEMMA StepInv == Inv /\ [Next]_vars => Inv'
<1> SUFFICES ASSUME Inv, [Next]_vars PROVE Inv'
  OBVIOUS
<1>1. CASE ReadProgram
  BY <1>1, ReadStep
<1>2. CASE TypeLine
  BY <1>2, TypeLineStep
<1>3. CASE Command /\ ~ QuitCommand
  BY <1>3, CommandStep
<1>4. CASE Execute
  BY <1>4, ExecuteKeeps
<1>5. CASE LineEnd \/ QuitCommand \/ UNCHANGED vars
  BY <1>5, RestStep
<1> QED BY <1>1, <1>2, <1>3, <1>4, <1>5 DEF Next

\* ... and so it always holds.
LEMMA Invariant == Spec => []Inv
BY InitInv, StepInv, PTL DEF Spec

\* The shell's variables keep their types: registers, memory and counters of the
\* machine, and a step count that is never negative though s and g share it.
THEOREM TypeCorrect == Spec => []ShellTypeOK
<1>1. Inv => ShellTypeOK
  BY DEF Inv, TypeInv, MachineOK, ReaderOK, CommandOK, Results, Modes, ShellTypeOK
<1> QED BY <1>1, Invariant, PTL

\* The machine leaves its memories only at the address behind their last cell
\* (the tests of tm.c:334 and 355 let that one through), whatever the program and
\* the sizes of the memories.
THEOREM LeavesAtSize == Spec => []OutsideOnlyAtSize
<1>1. Inv => OutsideOnlyAtSize
  BY DEF Inv
<1> QED BY <1>1, Invariant, PTL

\* A line of one letter executes what it asks for, whatever was typed before and
\* whatever stepcnt was left behind (tm.c:519-526, 590-612).
THEOREM OneLetterExecutes == Spec => []StepsAsAsked
<1>1. Inv => StepsAsAsked
  BY DEF Inv, LineInv, StepsAsAsked
<1> QED BY <1>1, Invariant, PTL

-----------------------------------------------------------------------------
(* Total: a sum over a set, one element after the other. *)

\* The element MapThenSumSet takes next, and the sums it computes on the way.
First(s) == CHOOSE x \in s : TRUE
SumOn(g, c, D) == g = [s \in D |-> IF s = {} THEN 0 ELSE c[First(s)] + g[s \ {First(s)}]]
Sums(c, S) == CHOOSE g : SumOn(g, c, SUBSET S)

\* Total is the sum of the whole set.
LEMMA TotalIs == ASSUME NEW c, NEW S PROVE Total(c, S) = Sums(c, S)[S]
BY Zenon DEF Total, MapThenSumSet, MapThenFoldSet, Sums, SumOn, First

\* Some set of a collection of finite sets has no other in it.
LEMMA Minimal ==
  ASSUME NEW S, IsFiniteSet(S), NEW T \in SUBSET SUBSET S, T # {}
  PROVE  \E s \in T : \A t \in T : t \subseteq s => t = s
<1>1. T \subseteq FiniteSubsetsOf(S)
  BY FS_Subset DEF FiniteSubsetsOf
<1>2. PICK s \in T : \A t \in T : ~ (<<t, s>> \in StrictSubsetOrdering(S))
  <2>1. IsWellFoundedOn(StrictSubsetOrdering(S), FiniteSubsetsOf(S))
    BY FS_StrictSubsetOrderingWellFounded, Zenon
  <2> QED BY <1>1, <2>1, WFMin, Zenon
<1>3. ASSUME NEW t \in T, t \subseteq s PROVE t = s
  <2>1. t \in SUBSET S /\ s \in SUBSET S OBVIOUS
  <2> QED BY <1>2, <1>3, <2>1 DEF StrictSubsetOrdering
<1> QED BY <1>3

\* The sums of the subsets of a finite set are well defined: of the collections of
\* subsets they are defined on take one that leaves out least.
LEMMA SumsExist ==
  ASSUME NEW c, NEW S, IsFiniteSet(S)
  PROVE  SumOn(Sums(c, S), c, SUBSET S)
<1> DEFINE Closed(D) == \A s \in D : s # {} => s \ {First(s)} \in D
           Defined(D) == Closed(D) /\ \E g : SumOn(g, c, D)
           Rest(D) == (SUBSET S) \ D
           T == {C \in SUBSET SUBSET S : Defined(Rest(C))}
<1>1. IsFiniteSet(SUBSET S)
  BY FS_SUBSET
<1>2. SUBSET S \in T
  <2>1. Rest(SUBSET S) = {} OBVIOUS
  <2>2. SumOn([s \in {} |-> 0], c, {}) BY DEF SumOn
  <2>3. Defined({}) BY <2>2
  <2> HIDE DEF Defined
  <2> QED BY <2>1, <2>3
<1>3. PICK C \in T : \A B \in T : B \subseteq C => B = C
  <2>1. T \in SUBSET SUBSET (SUBSET S) /\ T # {} BY <1>2
  <2> HIDE DEF T
  <2> QED BY <1>1, <2>1, Minimal
<1>4. C = {}
  <2> SUFFICES ASSUME C # {} PROVE FALSE OBVIOUS
  <2> DEFINE D == Rest(C)
  <2>1. C \in SUBSET SUBSET S /\ Closed(D) OBVIOUS
  <2>2. PICK g : SumOn(g, c, D) OBVIOUS
  <2>3. PICK s \in C : \A t \in C : t \subseteq s => t = s
    BY <2>1, Minimal
  <2>4. s \in SUBSET S /\ s \notin D BY <2>1
  <2>5. s # {} => s \ {First(s)} \in D
    <3> SUFFICES ASSUME s # {} PROVE s \ {First(s)} \in D OBVIOUS
    <3>1. First(s) \in s BY DEF First
    <3>2. s \ {First(s)} \in SUBSET S /\ s \ {First(s)} # s /\ s \ {First(s)} \subseteq s BY <2>4, <3>1
    <3>3. s \ {First(s)} \notin C BY <2>3, <3>2
    <3> QED BY <3>2, <3>3
  <2> DEFINE E == D \cup {s}
             h == [t \in E |-> IF t = {} THEN 0 ELSE c[First(t)] + g[t \ {First(t)}]]
  <2>6. Closed(E) BY <2>1, <2>5
  <2>7. \A t \in D : h[t] = g[t]
    BY <2>2 DEF SumOn
  <2>8. \A t \in E : t # {} => t \ {First(t)} \in D
    BY <2>1, <2>5
  <2>9. SumOn(h, c, E)
    <3>1. \A t \in E : h[t] = IF t = {} THEN 0 ELSE c[First(t)] + h[t \ {First(t)}]
      <4> HIDE DEF D
      <4> QED BY <2>7, <2>8
    <3> HIDE DEF E
    <3>2. DOMAIN h = E /\ h = [t \in E |-> h[t]] OBVIOUS
    <3> HIDE DEF h
    <3> QED BY <3>1, <3>2 DEF SumOn
  <2>10. C \ {s} \in T
    <3>1. Rest(C \ {s}) = E BY <2>1, <2>3
    <3>2. Defined(E) BY <2>6, <2>9
    <3>3. C \ {s} \in SUBSET SUBSET S BY <2>1
    <3> HIDE DEF Defined, E, Rest
    <3> QED BY <3>1, <3>2, <3>3
  <2> QED BY <1>3, <2>3, <2>10
<1>5. \E g : SumOn(g, c, SUBSET S)
  <2>1. Rest(C) = SUBSET S BY <1>4
  <2> QED BY <1>3, <2>1
<1> QED BY <1>5 DEF Sums

\* Raising one of the counters summed raises the sum by one.
LEMMA TotalRaised ==
  ASSUME NEW S, IsFiniteSet(S), NEW c, NEW d, NEW op \in S,
         \A x \in S : c[x] \in Nat /\ d[x] = c[x] + IF x = op THEN 1 ELSE 0
  PROVE  Total(d, S) = Total(c, S) + 1
<1> DEFINE g == Sums(c, S)
           h == Sums(d, S)
           T == {s \in SUBSET S : ~ (g[s] \in Nat /\ h[s] = g[s] + IF op \in s THEN 1 ELSE 0)}
<1>1. SumOn(g, c, SUBSET S) /\ SumOn(h, d, SUBSET S) BY SumsExist
<1>2. T = {}
  <2> SUFFICES ASSUME T # {} PROVE FALSE OBVIOUS
  <2>1. PICK s \in T : \A t \in T : t \subseteq s => t = s
    <3>1. T \in SUBSET SUBSET S OBVIOUS
    <3> HIDE DEF T
    <3> QED BY <3>1, Minimal
  <2> HIDE DEF g, h
  <2>2. CASE s = {}
    <3>1. g[{}] = 0 /\ h[{}] = 0 BY <1>1 DEF SumOn
    <3> QED BY <2>1, <2>2, <3>1
  <2>3. CASE s # {}
    <3> DEFINE x == First(s)
               t == s \ {x}
    <3>1. x \in s BY <2>3 DEF First
    <3>2. x \in S /\ t \in SUBSET S /\ t # s /\ t \subseteq s BY <2>1, <3>1
    <3>3. g[s] = c[x] + g[t] /\ h[s] = d[x] + h[t]
      BY <1>1, <2>1, <2>3 DEF SumOn
    <3>4. g[t] \in Nat /\ h[t] = g[t] + IF op \in t THEN 1 ELSE 0
      BY <2>1, <3>2
    <3>5. op \in t <=> op \in s /\ op # x BY <3>1
    <3> HIDE DEF t, x
    <3>6. c[x] \in Nat /\ d[x] = c[x] + IF x = op THEN 1 ELSE 0 BY <3>2
    <3>7. g[s] \in Nat BY <3>3, <3>4, <3>6
    <3>8. h[s] = g[s] + IF op \in s THEN 1 ELSE 0
      <4>1. CASE x = op BY <4>1, <3>1, <3>3, <3>4, <3>5, <3>6
      <4>2. CASE x # op BY <4>2, <3>3, <3>4, <3>5, <3>6
      <4> QED BY <4>1, <4>2
    <3> QED BY <2>1, <3>7, <3>8
  <2> QED BY <2>2, <2>3
<1> QED
  <2>1. g[S] \in Nat /\ h[S] = g[S] + 1 BY <1>2
  <2> QED BY <2>1, TotalIs

\* Counters at 0 add up to 0.
LEMMA TotalOfZeroes ==
  ASSUME NEW S, IsFiniteSet(S), NEW c, \A x \in S : c[x] = 0
  PROVE  Total(c, S) = 0
<1> DEFINE g == Sums(c, S)
           T == {s \in SUBSET S : g[s] # 0}
<1>1. SumOn(g, c, SUBSET S) BY SumsExist
<1>2. T = {}
  <2> SUFFICES ASSUME T # {} PROVE FALSE OBVIOUS
  <2>1. PICK s \in T : \A t \in T : t \subseteq s => t = s
    <3>1. T \in SUBSET SUBSET S OBVIOUS
    <3> HIDE DEF T
    <3> QED BY <3>1, Minimal
  <2> HIDE DEF g
  <2>2. s # {} BY <1>1, <2>1 DEF SumOn
  <2> DEFINE x == First(s)
             t == s \ {x}
  <2>3. x \in s BY <2>2 DEF First
  <2>4. x \in S /\ t \in SUBSET S /\ t # s /\ t \subseteq s BY <2>1, <2>3
  <2>5. g[s] = c[x] + g[t] BY <1>1, <2>1, <2>2 DEF SumOn
  <2>6. g[t] = 0 BY <2>1, <2>4
  <2>7. c[x] = 0 BY <2>4
  <2> HIDE DEF x, t
  <2> QED BY <2>1, <2>5, <2>6, <2>7
<1> QED BY <1>2, TotalIs

\* There are finitely many opcodes and classes.
LEMMA OpcodesFinite == IsFiniteSet(TmOps) /\ IsFiniteSet({"?RR", "?RM", "?RA"})
<1>1. IsFiniteSet({}) BY FS_EmptySet
<1>2. \A S, x : IsFiniteSet(S) => IsFiniteSet(S \cup {x}) BY FS_AddElement
<1>4. \A a, b, c : IsFiniteSet({a, b, c})
  <2> TAKE a, b, c
  <2>1. {a, b, c} = (({} \cup {a}) \cup {b}) \cup {c} OBVIOUS
  <2>2. IsFiniteSet({} \cup {a}) BY <1>1, <1>2
  <2>3. IsFiniteSet(({} \cup {a}) \cup {b}) BY <2>2, <1>2
  <2>4. IsFiniteSet((({} \cup {a}) \cup {b}) \cup {c}) BY <2>3, <1>2
  <2> QED BY <2>1, <2>4
<1>5. \A S, T : IsFiniteSet(S) /\ IsFiniteSet(T) => IsFiniteSet(S \cup T) BY FS_Union
<1>6. TmOps = (({"HALT", "IN", "OUT"} \cup {"ADD", "SUB", "MUL"}) \cup
               ({"DIV", "INC", "DEC"} \cup {"SHL", "SHR", "LD"})) \cup
              (({"ST", "LDA", "LDC"} \cup {"JLT", "JLE", "JGT"}) \cup {"JGE", "JEQ", "JNE"})
  BY DEF TmOps, RR, RM, RA, Jumps
<1> QED BY <1>4, <1>5, <1>6

\* An instruction counted is counted under its opcode, its class and in all, and
\* none of these is among the others.
LEMMA CountAdds ==
  ASSUME NEW c \in [Counted -> Nat], NEW op \in TmOps
  PROVE  /\ Total(Count(c, op), TmOps) = Total(c, TmOps) + 1
         /\ Total(Count(c, op), {"?RR", "?RM", "?RA"}) = Total(c, {"?RR", "?RM", "?RA"}) + 1
         /\ Count(c, op)["?ALL"] = c["?ALL"] + 1
<1> DEFINE Classes == {"?RR", "?RM", "?RA"}
           d == Count(c, op)
<1>1. \A x \in Counted : c[x] \in Nat /\ d[x] = c[x] + IF x \in {op, ClassOf(op), "?ALL"} THEN 1 ELSE 0
  BY DEF Count
<1>2. TmOps \subseteq Counted /\ Classes \subseteq Counted BY DEF Counted
<1>3. ClassOf(op) \in Classes BY DEF ClassOf
<1>4. \A x \in TmOps : x \notin Classes /\ x # "?ALL" BY DEF TmOps, RR, RM, RA, Jumps
<1>5. \A x \in TmOps : d[x] = c[x] + IF x = op THEN 1 ELSE 0 BY <1>1, <1>2, <1>3, <1>4
<1>6. \A x \in Classes : d[x] = c[x] + IF x = ClassOf(op) THEN 1 ELSE 0 BY <1>1, <1>2, <1>4
<1>7. d["?ALL"] = c["?ALL"] + 1 BY CountCounts
<1> HIDE DEF Classes, d
<1>8. Total(d, TmOps) = Total(c, TmOps) + 1
  BY <1>1, <1>2, <1>5, OpcodesFinite, TotalRaised
<1>9. Total(d, Classes) = Total(c, Classes) + 1
  <2>1. IsFiniteSet(Classes) BY OpcodesFinite DEF Classes
  <2> QED BY <1>1, <1>2, <1>3, <1>6, <2>1, TotalRaised
<1> QED BY <1>7, <1>8, <1>9 DEF Classes, d

\* A step of the shell counts one instruction or none.
LEMMA CountsOne ==
  ASSUME Inv, [Next]_vars
  PROVE  sim' = sim \/ \E op \in TmOps : sim' = Count(sim, op)
<1>1. CASE Execute
  <2>1. PICK n \in Answers : StepTM(n) BY <1>1 DEF Execute
  <2>2. CASE InstructionFault \/ InstructionOutside
    BY <2>2 DEF InstructionFault, InstructionOutside
  <2>3. CASE reg[PC] \in DOMAIN iMem /\ (Halt \/ In(n) \/ Out \/ Arithmetic \/ Memory \/ Load \/ Jump)
    <3>1. sim' = Count(sim, iMem[reg[PC]].op)
      BY <2>3 DEF Halt, In, Out, Arithmetic, Memory, Load, Jump, Fetch
    <3> QED BY <2>3, <3>1, InstructionOK DEF Inv, TypeInv, MachineOK
  <2> QED BY <2>1, <2>2, <2>3 DEF StepTM
<1>2. CASE ReadProgram
  BY <1>2 DEF ReadProgram, ReadLine, ReadEnd, runVars
<1>3. CASE TypeLine
  BY <1>3 DEF TypeLine, runVars
<1>4. CASE Command
  BY <1>4 DEF Command, StepCommand, GoCommand, PrintCommand, AnalyzeCommand, ListCommand,
     ClearCommand, QuitCommand, runVars
<1>5. CASE LineEnd \/ UNCHANGED vars
  BY <1>5 DEF LineEnd, vars, runVars
<1> QED BY <1>1, <1>2, <1>3, <1>4, <1>5 DEF Next

\* The counters of the simulation agree after every command, g, s and c in any
\* order, faults included: an analysis shows the same executions three times
\* (tm.c:337-348).
THEOREM CountersAddUpAlways == Spec => []CountersAddUp
<1>1. Init => CountersAddUp
  <2> SUFFICES ASSUME Init PROVE CountersAddUp OBVIOUS
  <2>1. \A x \in Counted : sim[x] = 0 BY DEF Init, LoadInit, Zeroes
  <2>2. /\ "?ALL" \in Counted /\ TmOps \subseteq Counted
        /\ {"?RR", "?RM", "?RA"} \subseteq Counted
    BY DEF Counted
  <2>3. /\ \A x \in TmOps : sim[x] = 0
        /\ \A x \in {"?RR", "?RM", "?RA"} : sim[x] = 0
        /\ sim["?ALL"] = 0
    BY <2>1, <2>2
  <2> QED BY <2>3, OpcodesFinite, TotalOfZeroes DEF CountersAddUp
<1>2. Inv /\ CountersAddUp /\ [Next]_vars => CountersAddUp'
  <2> SUFFICES ASSUME Inv, CountersAddUp, [Next]_vars PROVE CountersAddUp' OBVIOUS
  <2>1. CASE sim' = sim BY <2>1 DEF CountersAddUp
  <2>2. ASSUME NEW op \in TmOps, sim' = Count(sim, op) PROVE CountersAddUp'
    <3>1. sim \in [Counted -> Nat] BY DEF Inv, TypeInv, MachineOK
    <3> QED BY <2>2, <3>1, CountAdds DEF CountersAddUp
  <2> QED BY <2>1, <2>2, CountsOne
<1> QED BY <1>1, <1>2, Invariant, PTL DEF Spec

-----------------------------------------------------------------------------
(* What a clear begins again. *)

\* The part of the machine a program without IN depends on, as a clear leaves it.
Machine(r, d, o) == [reg |-> r, dMem |-> d, output |-> o]
Machines == [reg : [RegNos -> Int], dMem : [0 .. DADDR_SIZE - 1 -> Int], output : Seq(Int)]
Now == Machine(reg, dMem, output)
Cleared == Machine([r \in RegNos |-> 0], ClearedMemory, << >>)

\* stepTM as a function of that part: the instruction, the registers it reads and
\* its address; what it leaves in the registers, the memory and the output.
Ins(im, m) == im[m.reg[PC]]
Read(m)    == [m.reg EXCEPT ![PC] = m.reg[PC] + 1]
At(im, m)  == Word(Ins(im, m).a2 + Read(m)[Ins(im, m).a3])

Computes(i, rg) ==
    /\ i.op \in {"ADD", "SUB", "MUL", "DIV", "INC", "DEC", "SHL", "SHR"}
    /\ ~ (i.op = "DIV" /\ rg[i.a3] = 0)
    /\ ~ (i.op = "DIV" /\ rg[i.a3] = -1 /\ rg[i.a2] = - (2 ^ (WordBits - 1)))

NextReg(im, m) ==
    LET i  == Ins(im, m)
        rg == Read(m)
        a  == At(im, m)
    IN  IF Computes(i, rg) THEN [rg EXCEPT ![i.a1] = Value(i.op, rg, i)]
        ELSE IF i.op = "LD" /\ a \in DOMAIN m.dMem THEN [rg EXCEPT ![i.a1] = m.dMem[a]]
        ELSE IF i.op = "LDA" THEN [rg EXCEPT ![i.a1] = a]
        ELSE IF i.op = "LDC" THEN [rg EXCEPT ![i.a1] = i.a2]
        ELSE IF i.op \in Jumps /\ Taken(i.op, rg[i.a1]) THEN [rg EXCEPT ![PC] = a]
        ELSE rg

NextMem(im, m) ==
    IF Ins(im, m).op = "ST" /\ At(im, m) \in DOMAIN m.dMem
    THEN [m.dMem EXCEPT ![At(im, m)] = Read(m)[Ins(im, m).a1]] ELSE m.dMem

NextOut(im, m) ==
    IF Ins(im, m).op = "OUT" THEN Append(m.output, Read(m)[Ins(im, m).a1]) ELSE m.output

NextOf(im, m) ==
    IF m.reg[PC] \in DOMAIN im
    THEN Machine(NextReg(im, m), NextMem(im, m), NextOut(im, m)) ELSE m

Program(im) == im \in IMem /\ \A l \in DOMAIN im : im[l].op \in RR => im[l].a2 \in RegNos
NoInput(im) == \A loc \in DOMAIN im : im[loc].op # "IN"

\* What comes of m: in every set that holds m and what comes next of what it holds.
After(im, m) ==
    {x \in Machines : \A I \in SUBSET Machines :
       m \in I /\ (\A y \in I : NextOf(im, y) \in I) => x \in I}

\* The registers stay registers, the memory memory, the output integers.
LEMMA NextType ==
  ASSUME NEW im, Program(im), NEW m \in Machines
  PROVE  NextOf(im, m) \in Machines
<1> SUFFICES ASSUME m.reg[PC] \in DOMAIN im PROVE NextOf(im, m) \in Machines
  BY DEF NextOf
<1> DEFINE i == Ins(im, m)
           rg == Read(m)
           a == At(im, m)
<1>1. /\ i.op \in TmOps /\ i.a1 \in RegNos /\ i.a2 \in Int /\ i.a3 \in RegNos
      /\ i.op \in RR => i.a2 \in RegNos
  BY SizesAssumption DEF Program, IMem, Ins
<1>2. rg \in [RegNos -> Int] /\ PC \in RegNos
  BY DEF Machines, Read, RegNos, PC
<1>3. a \in Int
  <2>1. i.a2 + rg[i.a3] \in Int
    BY <1>1, <1>2
  <2> QED BY <2>1, WordIsInt DEF At
<1>4. m.dMem \in [0 .. DADDR_SIZE - 1 -> Int] /\ m.output \in Seq(Int)
  BY DEF Machines
<1>5. Computes(i, rg) => Value(i.op, rg, i) \in Int
  <2> SUFFICES ASSUME Computes(i, rg) PROVE Value(i.op, rg, i) \in Int
    OBVIOUS
  <2>1. i.op \in {"ADD", "SUB", "MUL", "DIV", "INC", "DEC", "SHL", "SHR"}
    BY DEF Computes
  <2>2. i.a2 \in RegNos /\ (i.op = "DIV" => rg[i.a3] # 0)
    BY <1>1, <2>1 DEF Computes, RR
  <2> HIDE DEF i, rg
  <2> QED BY <1>1, <1>2, <2>1, <2>2, ValueIsInt
<1>6. \A r \in RegNos, n \in Int : [rg EXCEPT ![r] = n] \in [RegNos -> Int]
  BY <1>2
<1>7. NextReg(im, m) \in [RegNos -> Int]
  <2>1. a \in DOMAIN m.dMem => m.dMem[a] \in Int
    BY <1>4
  <2> HIDE DEF i, rg, a
  <2>2. CASE Computes(i, rg)
    <3>1. NextReg(im, m) = [rg EXCEPT ![i.a1] = Value(i.op, rg, i)]
      BY <2>2 DEF NextReg, i, rg
    <3> QED BY <1>1, <1>5, <1>6, <2>2, <3>1
  <2>3. CASE ~ Computes(i, rg) /\ i.op = "LD" /\ a \in DOMAIN m.dMem
    <3>1. NextReg(im, m) = [rg EXCEPT ![i.a1] = m.dMem[a]]
      BY <2>3 DEF NextReg, i, rg, a
    <3> QED BY <1>1, <1>6, <2>1, <2>3, <3>1
  <2>4. CASE ~ Computes(i, rg) /\ ~ (i.op = "LD" /\ a \in DOMAIN m.dMem)
    <3>1. \/ NextReg(im, m) = rg
          \/ NextReg(im, m) = [rg EXCEPT ![i.a1] = a]
          \/ NextReg(im, m) = [rg EXCEPT ![i.a1] = i.a2]
          \/ NextReg(im, m) = [rg EXCEPT ![PC] = a]
      BY <2>4 DEF NextReg, i, rg, a
    <3> QED BY <1>1, <1>2, <1>3, <1>6, <3>1
  <2> QED BY <2>2, <2>3, <2>4
<1>8. NextMem(im, m) \in [0 .. DADDR_SIZE - 1 -> Int]
  <2>1. rg[i.a1] \in Int
    BY <1>1, <1>2
  <2> QED BY <1>4, <2>1 DEF NextMem
<1>9. NextOut(im, m) \in Seq(Int)
  <2>1. rg[i.a1] \in Int
    BY <1>1, <1>2
  <2> QED BY <1>4, <2>1 DEF NextOut
<1> QED BY <1>7, <1>8, <1>9 DEF NextOf, Machine, Machines

\* m comes of itself, and what comes next of what comes of it.
LEMMA AfterGoesOn ==
  ASSUME NEW im, Program(im), NEW m \in Machines
  PROVE  /\ m \in After(im, m)
         /\ \A x \in After(im, m) : x \in Machines /\ NextOf(im, x) \in After(im, m)
<1>1. \A x \in Machines : NextOf(im, x) \in Machines
  BY NextType
<1> QED BY <1>1 DEF After

\* Induction over what comes of m.
LEMMA AfterInduction ==
  ASSUME NEW im, NEW m \in Machines, NEW I \in SUBSET Machines,
         m \in I, \A y \in I : NextOf(im, y) \in I
  PROVE  After(im, m) \subseteq I
BY DEF After

\* What comes of m is m or comes of what is next.
LEMMA AfterNext ==
  ASSUME NEW im, Program(im), NEW m \in Machines, NEW x \in After(im, m)
  PROVE  x = m \/ x \in After(im, NextOf(im, m))
<1> DEFINE I == {m} \cup After(im, NextOf(im, m))
<1>1. NextOf(im, m) \in Machines
  BY NextType
<1>2. /\ NextOf(im, m) \in After(im, NextOf(im, m))
      /\ \A y \in After(im, NextOf(im, m)) :
           y \in Machines /\ NextOf(im, y) \in After(im, NextOf(im, m))
  BY <1>1, AfterGoesOn
<1>3. I \in SUBSET Machines /\ m \in I /\ \A y \in I : NextOf(im, y) \in I
  BY <1>2
<1> HIDE DEF I
<1>4. After(im, m) \subseteq I
  BY <1>3, AfterInduction
<1> QED BY <1>4 DEF I

\* Of two that come of the same one, one comes of the other.
LEMMA AfterInOrder ==
  ASSUME NEW im, Program(im), NEW m \in Machines,
         NEW a \in After(im, m), NEW b \in After(im, m)
  PROVE  b \in After(im, a) \/ a \in After(im, b)
<1> DEFINE I == {y \in After(im, m) : y \in After(im, a) \/ a \in After(im, y)}
<1>1. a \in Machines
  BY AfterGoesOn
<1>2. m \in I
  BY AfterGoesOn
<1>3. ASSUME NEW y \in I PROVE NextOf(im, y) \in I
  <2>1. y \in Machines /\ NextOf(im, y) \in After(im, m)
    BY AfterGoesOn
  <2>2. CASE y \in After(im, a)
    <3>1. NextOf(im, y) \in After(im, a)
      BY <1>1, <2>2, AfterGoesOn
    <3> QED BY <2>1, <3>1
  <2>3. CASE a \in After(im, y)
    <3>1. a = y \/ a \in After(im, NextOf(im, y))
      BY <2>1, <2>3, AfterNext
    <3>2. a = y => NextOf(im, y) \in After(im, a)
      BY <1>1, AfterGoesOn
    <3> QED BY <2>1, <3>1, <3>2
  <2> QED BY <2>2, <2>3
<1>4. I \in SUBSET Machines
  BY AfterGoesOn
<1> HIDE DEF I
<1>5. After(im, m) \subseteq I
  BY <1>2, <1>3, <1>4, AfterInduction
<1> QED BY <1>5 DEF I

\* A list that begins with another one.
Begins(t, s) == Len(s) <= Len(t) /\ \A i \in 1 .. Len(s) : t[i] = s[i]

\* What comes of m has printed what m has, and perhaps more.
LEMMA OutputGrows ==
  ASSUME NEW im, Program(im), NEW m \in Machines, NEW x \in After(im, m)
  PROVE  Begins(x.output, m.output)
<1> DEFINE I == {y \in Machines : Begins(y.output, m.output)}
<1>1. m.output \in Seq(Int)
  BY DEF Machines
<1>2. m \in I
  BY <1>1 DEF Begins
<1>3. ASSUME NEW y \in I PROVE NextOf(im, y) \in I
  <2>1. NextOf(im, y) \in Machines
    BY NextType
  <2>2. NextOf(im, y).output = y.output \/ \E n : NextOf(im, y).output = Append(y.output, n)
    BY DEF NextOf, NextOut, Machine
  <2>3. y.output \in Seq(Int) /\ NextOf(im, y).output \in Seq(Int)
    BY <2>1 DEF Machines
  <2>4. Begins(NextOf(im, y).output, m.output)
    <3>1. CASE NextOf(im, y).output = y.output
      BY <3>1
    <3>2. CASE \E n : NextOf(im, y).output = Append(y.output, n)
      <4>1. PICK n : NextOf(im, y).output = Append(y.output, n)
        BY <3>2
      <4>2. PICK s, t, l : s = m.output /\ t = y.output /\ l = NextOf(im, y).output
        OBVIOUS
      <4>3. /\ s \in Seq(Int) /\ t \in Seq(Int) /\ l = Append(t, n)
            /\ Len(s) <= Len(t) /\ \A i \in 1 .. Len(s) : t[i] = s[i]
        BY <1>1, <2>3, <4>1, <4>2 DEF Begins
      <4>4. Len(l) = Len(t) + 1 /\ \A i \in 1 .. Len(t) : l[i] = t[i]
        BY <4>3
      <4>5. Len(s) <= Len(l) /\ \A i \in 1 .. Len(s) : l[i] = s[i]
        BY <4>3, <4>4
      <4> QED BY <4>2, <4>5 DEF Begins
    <3> QED BY <2>2, <3>1, <3>2
  <2> QED BY <2>1, <2>4
<1>4. I \in SUBSET Machines
  OBVIOUS
<1> HIDE DEF I
<1>5. After(im, m) \subseteq I
  BY <1>2, <1>3, <1>4, AfterInduction
<1> QED BY <1>5 DEF I

\* What two runs of the same program have printed agrees.
LEMMA RunsAgree ==
  ASSUME NEW im, Program(im), NEW m \in Machines,
         NEW a \in After(im, m), NEW b \in After(im, m)
  PROVE  Agree(a.output, b.output)
<1>1. a \in Machines /\ b \in Machines
  BY AfterGoesOn
<1>2. Begins(a.output, b.output) \/ Begins(b.output, a.output)
  BY <1>1, AfterInOrder, OutputGrows
<1>3. PICK s \in Seq(Int), t \in Seq(Int) : s = a.output /\ t = b.output
  BY <1>1 DEF Machines
<1>4. \/ Len(t) <= Len(s) /\ \A i \in 1 .. Len(t) : s[i] = t[i]
      \/ Len(s) <= Len(t) /\ \A i \in 1 .. Len(s) : t[i] = s[i]
  BY <1>2, <1>3 DEF Begins
<1>5. DOMAIN s = 1 .. Len(s) /\ DOMAIN t = 1 .. Len(t)
  OBVIOUS
<1>6. \A i \in DOMAIN s \cap DOMAIN t : s[i] = t[i]
  BY <1>4, <1>5
<1> QED BY <1>3, <1>6 DEF Agree

\* A step of a program without IN is that function, whatever was typed.
LEMMA StepIsNext ==
  ASSUME MachineOK, NEW n \in Int, StepTM(n), NoInput(iMem)
  PROVE  Now' = NextOf(iMem, Now)
<1> DEFINE i == iMem[reg[PC]]
           a == Address(i)
<1>1. /\ Ins(iMem, Now) = i /\ Read(Now) = Advanced /\ At(iMem, Now) = a
      /\ Now.reg = reg /\ Now.dMem = dMem /\ Now.output = output
  BY DEF Now, Machine, Ins, Read, At, Advanced, Address
<1>2. CASE InstructionFault \/ InstructionOutside
  <2>1. reg[PC] \notin DOMAIN iMem
    <3>1. DOMAIN iMem = 0 .. IADDR_SIZE - 1 /\ reg[PC] \in Int
      BY DEF MachineOK, IMem, RegNos, PC
    <3>2. reg[PC] < 0 \/ reg[PC] > IADDR_SIZE \/ reg[PC] = IADDR_SIZE
      BY <1>2 DEF InstructionFault, InstructionOutside
    <3> QED BY <3>1, <3>2, SizesAssumption
  <2>2. reg' = reg /\ dMem' = dMem /\ output' = output
    BY <1>2 DEF InstructionFault, InstructionOutside
  <2> QED BY <1>1, <2>1, <2>2 DEF NextOf, Now, Machine
<1>3. CASE reg[PC] \in DOMAIN iMem /\ (Halt \/ In(n) \/ Out \/ Arithmetic \/ Memory \/ Load \/ Jump)
  <2> SUFFICES /\ reg' = NextReg(iMem, Now) /\ dMem' = NextMem(iMem, Now)
               /\ output' = NextOut(iMem, Now)
    BY <1>1, <1>3 DEF NextOf, Now, Machine
  <2>1. i.op # "IN" /\ ~ In(n)
    BY <1>3 DEF NoInput, In, Fetch
  <2>2. CASE Halt
    <3>1. i.op = "HALT" /\ reg' = Advanced /\ dMem' = dMem /\ output' = output
      BY <2>2 DEF Halt, Fetch, Stop
    <3> HIDE DEF i, a
    <3> QED BY <1>1, <3>1 DEF NextReg, NextMem, NextOut, Computes, Jumps
  <2>3. CASE Out
    <3>1. /\ i.op = "OUT" /\ reg' = Advanced /\ dMem' = dMem
          /\ output' = Append(output, Advanced[i.a1])
      BY <2>3 DEF Out, Fetch, Stop
    <3> HIDE DEF i, a
    <3> QED BY <1>1, <3>1 DEF NextReg, NextMem, NextOut, Computes, Jumps
  <2>4. CASE Arithmetic
    <3>1. /\ i.op \in {"ADD", "SUB", "MUL", "DIV", "INC", "DEC", "SHL", "SHR"}
          /\ dMem' = dMem /\ output' = output
          /\ IF i.op = "DIV" /\ Advanced[i.a3] = 0 THEN reg' = Advanced
             ELSE IF i.op = "DIV" /\ Overflows(i) THEN reg' = Advanced
             ELSE reg' = [Advanced EXCEPT ![i.a1] = Value(i.op, Advanced, i)]
      BY <2>4 DEF Arithmetic, Fetch, Stop, Set
    <3>2. i.op # "ST" /\ i.op # "OUT" /\ i.op # "LD" /\ i.op # "LDA" /\ i.op # "LDC" /\ i.op \notin Jumps
      BY <3>1 DEF Jumps
    <3> HIDE DEF i, a
    <3>3. reg' = NextReg(iMem, Now)
      BY <1>1, <3>1, <3>2 DEF NextReg, Computes, Overflows
    <3> QED BY <1>1, <3>1, <3>2, <3>3 DEF NextMem, NextOut
  <2>5. CASE Memory
    <3>1. /\ i.op \in {"LD", "ST"} /\ output' = output
          /\ \/ MemoryFault(a) /\ reg' = Advanced /\ dMem' = dMem
             \/ a \notin DOMAIN dMem /\ reg' = Advanced /\ dMem' = dMem
             \/ /\ a \in DOMAIN dMem
                /\ IF i.op = "LD"
                   THEN reg' = [Advanced EXCEPT ![i.a1] = dMem[a]] /\ dMem' = dMem
                   ELSE dMem' = [dMem EXCEPT ![a] = Advanced[i.a1]] /\ reg' = Advanced
      BY <2>5 DEF Memory, Fetch, Stop, Set, RM
    <3>2. MemoryFault(a) => a \notin DOMAIN dMem
      <4> HIDE DEF a
      <4> QED BY SizesAssumption DEF MemoryFault, MachineOK
    <3>3. ~ Computes(i, Advanced) /\ i.op # "OUT" /\ i.op \notin Jumps
      BY <3>1 DEF Computes, Jumps
    <3> HIDE DEF i, a
    <3> QED BY <1>1, <3>1, <3>2, <3>3 DEF NextReg, NextMem, NextOut
  <2>6. CASE Load
    <3>1. /\ i.op \in {"LDA", "LDC"} /\ dMem' = dMem /\ output' = output
          /\ reg' = [Advanced EXCEPT ![i.a1] = IF i.op = "LDA" THEN a ELSE i.a2]
      BY <2>6 DEF Load, Fetch, Set
    <3> HIDE DEF i, a
    <3> QED BY <1>1, <3>1 DEF NextReg, NextMem, NextOut, Computes
  <2>7. CASE Jump
    <3>1. /\ i.op \in Jumps /\ dMem' = dMem /\ output' = output
          /\ reg' = IF Taken(i.op, Advanced[i.a1])
                    THEN [Advanced EXCEPT ![PC] = a] ELSE Advanced
      BY <2>7 DEF Jump, Fetch
    <3>2. /\ i.op # "LD" /\ i.op # "LDA" /\ i.op # "LDC" /\ i.op # "ST" /\ i.op # "OUT"
          /\ ~ Computes(i, Advanced)
      BY <3>1 DEF Jumps, Computes
    <3> HIDE DEF i, a
    <3> QED BY <1>1, <3>1, <3>2 DEF NextReg, NextMem, NextOut
  <2> QED BY <1>3, <2>1, <2>2, <2>3, <2>4, <2>5, <2>6, <2>7
<1> QED BY <1>2, <1>3 DEF StepTM

\* Without IN, what is printed, and what was printed before each clear, is what the program read
\* prints from the start, as far as it came.
ClearedInv ==
    /\ mode = "load" => Now = Cleared /\ earlier = << >>
    /\ output \in Seq(Int) /\ earlier \in Seq(Seq(Int))
    /\ NoInput(iMem) =>
         /\ Now \in After(iMem, Cleared)
         /\ \A k \in DOMAIN earlier : \E m \in After(iMem, Cleared) : m.output = earlier[k]

\* What a clear leaves is a machine.
LEMMA ClearedIsMachine == Cleared \in Machines
<1>1. ClearedMemory \in [0 .. DADDR_SIZE - 1 -> Int]
  BY SizesAssumption DEF ClearedMemory
<1>2. << >> \in Seq(Int)
  BY EmptySeq
<1> QED BY <1>1, <1>2 DEF Cleared, Machine, Machines

\* It is the machine main begins with, ...
LEMMA ClearedInit == Init => ClearedInv
<1> SUFFICES ASSUME Init PROVE ClearedInv
  OBVIOUS
<1>1. Now = Cleared /\ earlier = << >> /\ output = << >>
  BY DEF Init, LoadInit, Now, Cleared, Machine
<1>2. Program(iMem)
  BY InitInv DEF Inv, TypeInv, MachineOK, Program
<1>3. Cleared \in After(iMem, Cleared)
  BY <1>2, ClearedIsMachine, AfterGoesOn
<1>4. << >> \in Seq(Int) /\ << >> \in Seq(Seq(Int)) /\ DOMAIN << >> = {}
  BY EmptySeq
<1> QED BY <1>1, <1>3, <1>4 DEF ClearedInv

\* ... and no command but c and no step leaves what comes of it.
LEMMA ClearedNext == Inv /\ ClearedInv /\ [Next]_vars => ClearedInv'
<1> SUFFICES ASSUME Inv, ClearedInv, [Next]_vars PROVE ClearedInv'
  OBVIOUS
<1>1. Inv'
  BY StepInv
<1>2. MachineOK /\ MachineOK' /\ Program(iMem) /\ Program(iMem')
  BY <1>1 DEF Inv, TypeInv, MachineOK, Program
<1>3. CASE ReadProgram
  <2>1. Now' = Now /\ earlier' = earlier /\ output' = output /\ mode = "load"
    BY <1>3 DEF ReadProgram, ReadLine, ReadEnd, runVars, history, Now
  <2>2. Now' = Cleared /\ earlier' = << >> /\ output' \in Seq(Int)
    BY <2>1 DEF ClearedInv
  <2>3. Cleared \in After(iMem', Cleared)
    BY <1>2, ClearedIsMachine, AfterGoesOn
  <2>4. DOMAIN << >> = {}
    OBVIOUS
  <2> QED BY <2>2, <2>3, <2>4 DEF ClearedInv
<1>4. CASE Execute
  <2>1. PICK n \in Int : StepTM(n)
    BY <1>4, ShellAssumption DEF Execute
  <2>2. iMem' = iMem /\ earlier' = earlier /\ mode = "execute" /\ mode' # "load"
    BY <1>4 DEF Execute, loadVars, history
  <2>3. output' \in Seq(Int)
    <3>1. CASE ~ Out
      BY <2>1, <3>1 DEF StepTM, InstructionFault, InstructionOutside, Halt, In, Arithmetic,
         Memory, Load, Jump, ClearedInv
    <3>2. CASE Out
      <4>1. /\ output' = Append(output, Advanced[iMem[reg[PC]].a1])
            /\ reg[PC] \in DOMAIN iMem
        BY <3>2 DEF Out, Fetch
      <4>2. Advanced[iMem[reg[PC]].a1] \in Int
        BY <1>2, <4>1, InstructionOK, AdvancedOK DEF MachineOK
      <4> QED BY <4>1, <4>2 DEF ClearedInv
    <3> QED BY <3>1, <3>2
  <2>4. ASSUME NoInput(iMem)
        PROVE  Now' \in After(iMem, Cleared)
    <3>1. Now' = NextOf(iMem, Now)
      BY <1>2, <2>1, <2>4, StepIsNext
    <3>2. Now \in After(iMem, Cleared)
      BY <2>4 DEF ClearedInv
    <3> QED BY <1>2, <3>1, <3>2, ClearedIsMachine, AfterGoesOn
  <2> QED BY <2>2, <2>3, <2>4 DEF ClearedInv
<1>5. CASE ClearCommand
  <2>1. /\ Now' = Cleared /\ output' = << >> /\ earlier' = Append(earlier, output)
        /\ iMem' = iMem /\ mode' # "load"
    BY <1>5 DEF ClearCommand, TakeLetter, Now, Cleared, Machine, loadVars
  <2>2. << >> \in Seq(Int) /\ earlier' \in Seq(Seq(Int))
    BY <2>1, EmptySeq DEF ClearedInv
  <2>3. ASSUME NoInput(iMem), NEW k \in DOMAIN earlier'
        PROVE  \E m \in After(iMem, Cleared) : m.output = earlier'[k]
    <3>1. CASE k \in DOMAIN earlier
      <4>1. earlier'[k] = earlier[k]
        BY <2>1, <3>1 DEF ClearedInv
      <4> QED BY <2>3, <3>1, <4>1 DEF ClearedInv
    <3>2. CASE k \notin DOMAIN earlier
      <4>1. earlier'[k] = output
        BY <2>1, <2>3, <3>2 DEF ClearedInv
      <4>2. Now \in After(iMem, Cleared) /\ Now.output = output
        BY <2>3 DEF ClearedInv, Now, Machine
      <4> QED BY <4>1, <4>2
    <3> QED BY <3>1, <3>2
  <2>4. Cleared \in After(iMem, Cleared)
    BY <1>2, ClearedIsMachine, AfterGoesOn
  <2> QED BY <2>1, <2>2, <2>3, <2>4 DEF ClearedInv
<1>6. CASE TypeLine \/ LineEnd \/ UNCHANGED vars \/ (Command /\ ~ ClearCommand)
  <2>1. /\ Now' = Now /\ output' = output /\ earlier' = earlier /\ iMem' = iMem
        /\ mode' = "load" => mode = "load"
    BY <1>6 DEF TypeLine, LineEnd, vars, Command, StepCommand, GoCommand, PrintCommand,
       AnalyzeCommand, ListCommand, QuitCommand, TakeLetter, runVars, loadVars, shellVars, history, Now
  <2> QED BY <2>1 DEF ClearedInv
<1> QED BY <1>3, <1>4, <1>5, <1>6 DEF Next

\* A program without IN prints after a clear what it printed before it, as far as
\* both runs have come, however each was stepped and wherever a fault or the
\* user ended it: c resets all that the machine reads (tm.c:574-583).
THEOREM ClearedRunsRepeatAlways == Spec => []ClearedRunsRepeat
<1>1. Inv /\ ClearedInv => ClearedRunsRepeat
  <2> SUFFICES ASSUME Inv, ClearedInv, NoInput(iMem), NEW k \in DOMAIN earlier
               PROVE  Agree(earlier[k], output)
    BY DEF ClearedRunsRepeat, NoInput
  <2>1. Program(iMem)
    BY DEF Inv, TypeInv, MachineOK, Program
  <2>2. Now \in After(iMem, Cleared) /\ Now.output = output
    BY DEF ClearedInv, Now, Machine
  <2>3. PICK m \in After(iMem, Cleared) : m.output = earlier[k]
    BY DEF ClearedInv
  <2> QED BY <2>1, <2>2, <2>3, ClearedIsMachine, RunsAgree
<1> QED BY <1>1, ClearedInit, ClearedNext, Invariant, PTL DEF Spec

=============================================================================
