--------------------------------- MODULE Tm ---------------------------------
(***************************************************************************)
(* The TINY machine of tm.c: reading a program (readInstructions) and      *)
(* executing one instruction (stepTM).  The modules that run it say when a  *)
(* step is made and what an IN instruction is given; the instructions        *)
(* themselves are in TmIsa.                                                *)
(***************************************************************************)
EXTENDS TmIsa, Sequences

CONSTANTS
    IADDR_SIZE, DADDR_SIZE,
    WordBits            \* the width of an int, 32 in the build

ASSUME SizesAssumption ==
    IADDR_SIZE \in Nat \ {0} /\ DADDR_SIZE \in Nat \ {0} /\ WordBits \in Nat \ {0}

\* The powers a word is made of, for the provers.
ASSUME PowersAssumption == \A k \in 0 .. WordBits : 2 ^ k \in Nat \ {0}

IMem == [0 .. IADDR_SIZE - 1 -> [op : TmOps, a1 : RegNos, a2 : Int, a3 : RegNos]]
Zeroes == [c \in Counted |-> 0]

VARIABLES
    file,      \* the lines of the program: what an instruction line says, or
               \* a kind of line without one: "blank" or "bad"
    lineNo,    \* lines read
    loading,   \* whether readInstructions is running, returned or failed
    overall,   \* opCodeOverallCounter
    iMem, dMem, reg,
    sim,       \* opCodeSimulationCounter
    output,    \* what OUT has printed
    result     \* STEPRESULT; "outside" is an access past the end of an array

loadVars == <<file, lineNo, loading, overall, iMem>>
runVars  == <<dMem, reg, sim, output, result>>

Word(n) == LET half == 2 ^ (WordBits - 1) IN ((n + half) % (2 * half)) - half

-----------------------------------------------------------------------------
\* readInstructions, from its first loops to ...
ClearedMemory == [d \in 0 .. DADDR_SIZE - 1 |-> IF d = 0 THEN DADDR_SIZE - 1 ELSE 0]

LoadInit(files) ==
    /\ file \in files
    /\ lineNo = 0
    /\ loading = "reading"
    /\ overall = Zeroes
    /\ iMem = [loc \in 0 .. IADDR_SIZE - 1 |-> TmIns("HALT", 0, 0, 0)]
    /\ dMem = ClearedMemory
    /\ reg = [r \in RegNos |-> 0]
    /\ sim = Zeroes
    /\ output = << >>
    /\ result = "okay"

MutCount(counters, op) ==
    [c \in Counted |-> counters[c] +
       IF c = op \/ c = "?ALL" \/ (c = ClassOf(op) /\ op \notin {"LDA", "LDC"}) THEN 1 ELSE 0]

Count(counters, op) ==
    [c \in Counted |-> counters[c] + IF c \in {op, ClassOf(op), "?ALL"} THEN 1 ELSE 0]

\* The file ends with a newline, so feof is true only one fgets later: that one
\* leaves the last line in the buffer and the line is read again.
LineAt(k) == file[IF k > Len(file) THEN Len(file) ELSE k]

\* The tests of one line; a register number is never negative.
Acceptable(l) ==
    /\ l.kind = "ins"
    /\ l.loc <= IADDR_SIZE
    /\ l.op \in TmOps
    /\ l.a1 \in RegNos
    /\ l.a3 \in RegNos
    /\ l.op \in RR => l.a2 \in RegNos

\* ... the end of its loop over the lines.  A location outside of iMem is written
\* to all the same.  What a refused line counts is left out: main gives up.
ReadLine ==
    /\ loading = "reading"
    /\ lineNo <= Len(file)
    /\ LET l == LineAt(lineNo + 1)
       IN  \/ /\ l.kind = "blank"
              /\ UNCHANGED <<iMem, overall, loading>>
           \/ /\ Acceptable(l)
              /\ overall' = Count(overall, l.op)
              /\ IF l.loc \in DOMAIN iMem
                 THEN /\ iMem' = [iMem EXCEPT ![l.loc] = TmIns(l.op, l.a1, l.a2, l.a3)]
                      /\ UNCHANGED loading
                 ELSE loading' = "outside" /\ UNCHANGED iMem
           \/ /\ l.kind # "blank" /\ ~ Acceptable(l)
              /\ loading' = "failed"
              /\ UNCHANGED <<iMem, overall>>
    /\ lineNo' = lineNo + 1
    /\ UNCHANGED <<file, runVars>>

ReadEnd ==
    /\ loading = "reading"
    /\ lineNo > Len(file)
    /\ loading' = "read"
    /\ UNCHANGED <<file, lineNo, overall, iMem, runVars>>

-----------------------------------------------------------------------------
(* stepTM. *)

\* A shift takes its distance modulo the width, as the processor does.
Value(op, rg, i) ==
    LET s == rg[i.a2]
        t == rg[i.a3]
    IN  CASE op = "ADD" -> Word(s + t)
          [] op = "SUB" -> Word(s - t)
          [] op = "MUL" -> Word(s * t)
          [] op = "DIV" -> Word(Divide(s, t))
          [] op = "INC" -> Word(rg[i.a1] + 1)
          [] op = "DEC" -> Word(rg[i.a1] - 1)
          [] op = "SHL" -> Word(rg[i.a2] * 2 ^ (t % WordBits))
          [] op = "SHR" -> rg[i.a2] \div 2 ^ (t % WordBits)

InstructionFault ==
    /\ reg[PC] < 0 \/ reg[PC] > IADDR_SIZE
    /\ result' = "imem"
    /\ UNCHANGED <<reg, dMem, sim, output>>

\* The tests let an address equal to the size through.
InstructionOutside ==
    /\ reg[PC] = IADDR_SIZE
    /\ result' = "outside"
    /\ UNCHANGED <<reg, dMem, sim, output>>

\* What an instruction reads in its registers: the program counter points to
\* the next instruction already.
Advanced == [reg EXCEPT ![PC] = reg[PC] + 1]

Fetch(i, ops) ==
    /\ reg[PC] \in DOMAIN iMem
    /\ i = iMem[reg[PC]]
    /\ i.op \in ops
    /\ sim' = Count(sim, i.op)

Address(i) == Word(i.a2 + Advanced[i.a3])

Set(r, n) == reg' = [Advanced EXCEPT ![r] = n]

\* result is "okay", "halt" or the fault; a faulting instruction changes nothing
\* but the program counter.
Stop(why) == reg' = Advanced /\ result' = why

Halt ==
    \E i \in {iMem[reg[PC]]} :
      Fetch(i, {"HALT"}) /\ Stop("halt") /\ UNCHANGED <<dMem, output>>

In(n) ==
    \E i \in {iMem[reg[PC]]} :
      /\ Fetch(i, {"IN"})
      /\ Set(i.a1, n)
      /\ result' = "okay"
      /\ UNCHANGED <<dMem, output>>

Out ==
    \E i \in {iMem[reg[PC]]} :
      /\ Fetch(i, {"OUT"})
      /\ output' = Append(output, Advanced[i.a1])
      /\ Stop("okay")
      /\ UNCHANGED dMem

\* The quotient that an int cannot hold ends the process.
Overflows(i) ==
    /\ Advanced[i.a3] = -1
    /\ Advanced[i.a2] = - (2 ^ (WordBits - 1))

Arithmetic ==
    \E i \in {iMem[reg[PC]]} :
      /\ Fetch(i, {"ADD", "SUB", "MUL", "DIV", "INC", "DEC", "SHL", "SHR"})
      /\ IF i.op = "DIV" /\ Advanced[i.a3] = 0 THEN Stop("zerodivide")
         ELSE IF i.op = "DIV" /\ Overflows(i) THEN Stop("killed")
         ELSE Set(i.a1, Value(i.op, Advanced, i)) /\ result' = "okay"
      /\ UNCHANGED <<dMem, output>>

MutMemoryFault(m) == m < 0
MemoryFault(m) == m < 0 \/ m > DADDR_SIZE

Memory ==
    \E i \in {iMem[reg[PC]]} :
      /\ Fetch(i, RM)
      /\ LET m == Address(i)
         IN  \/ MemoryFault(m) /\ Stop("dmem") /\ UNCHANGED dMem
             \/ ~ MemoryFault(m) /\ m \notin DOMAIN dMem /\ Stop("outside") /\ UNCHANGED dMem
             \/ /\ m \in DOMAIN dMem
                /\ IF i.op = "LD"
                   THEN Set(i.a1, dMem[m]) /\ UNCHANGED dMem
                   ELSE dMem' = [dMem EXCEPT ![m] = Advanced[i.a1]] /\ reg' = Advanced
                /\ result' = "okay"
      /\ UNCHANGED output

Load ==
    \E i \in {iMem[reg[PC]]} :
      /\ Fetch(i, {"LDA", "LDC"})
      /\ Set(i.a1, IF i.op = "LDA" THEN Address(i) ELSE i.a2)
      /\ result' = "okay"
      /\ UNCHANGED <<dMem, output>>

Jump ==
    \E i \in {iMem[reg[PC]]} :
      /\ Fetch(i, Jumps)
      /\ reg' = IF Taken(i.op, Advanced[i.a1])
                THEN [Advanced EXCEPT ![PC] = Address(i)] ELSE Advanced
      /\ result' = "okay"
      /\ UNCHANGED <<dMem, output>>

NeedsInput == reg[PC] \in DOMAIN iMem /\ iMem[reg[PC]].op = "IN"

\* One call of stepTM; n is what an IN instruction reads.
StepTM(n) ==
    \/ InstructionFault \/ InstructionOutside
    \/ reg[PC] \in DOMAIN iMem /\ (Halt \/ In(n) \/ Out \/ Arithmetic \/ Memory \/ Load \/ Jump)

=============================================================================
