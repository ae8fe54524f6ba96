------------------------------ MODULE Compiler ------------------------------
(***************************************************************************)
(* The compiler without optimization and the machine: bb_build and lva     *)
(* (Analysis), reg_alloc (RegAlloc), gencode (CodeGen), the file it writes, *)
(* and that file read and executed by the TINY machine (Tm).  Each part is  *)
(* the module that models it, over the state the part before has left.      *)
(***************************************************************************)
EXTENDS CodeGen, TacMachine, Liveness

CONSTANTS
    Programs, Inputs,
    MaxPredecessors, RegisterCount,
    IADDR_SIZE, DADDR_SIZE, WordBits,
    MaxTurns        \* a run that has jumped back or over as often is cut off

ASSUME SymbolsAssumption ==
    NoSymbol \notin Vars \cup Int /\ Constants \subseteq Int /\ Vars \cap Int = {}

VARIABLES
    code, pos, cur, ins, next, jmp, pred,                     \* bb_build
    phase, todo, def, use, in, out, changed,                  \* lva
    raPhase, c, start, end, raTodo, intps, idx, active, regs, \* reg_alloc
    ireg, sreg, cell, raState, memloc,
    file, lineNo, loading, overall, iMem, dMem, mreg, sim,    \* tm
    output, result,
    input,      \* what the machine has yet to read
    expected,   \* the run of the three address code on that input
    covered,    \* what the generated code needs to be right about holds
    loopSpare   \* a jump back left behind a symbol in a spare register

frontVars == <<code, pos, cur, ins, next, jmp, pred,
               phase, todo, def, use, in, out, changed>>
allocVars == <<raPhase, c, start, end, raTodo, intps, idx, active, regs, ireg,
               sreg, cell, raState, memloc>>
tmVars    == <<file, lineNo, loading, overall, iMem, dMem, mreg, sim, output, result>>
runVars   == <<input, expected, covered>>
vars      == <<frontVars, allocVars, genVars, tmVars, runVars, loopSpare>>

FrontEnd == INSTANCE Analysis
Ra    == INSTANCE RegAlloc WITH phase <- raPhase, todo <- raTodo, reg <- ireg,
                                val <- cell, state <- raState
Machine == INSTANCE Tm WITH reg <- mreg

\* What the parser and tac_gen see to.
ASSUME ProgramsAssumption ==
    /\ Programs \subseteq Seq(Instrs)
    /\ \A p \in Programs : FrontEnd!WellFormed(p) /\ \A j \in DOMAIN p : InsOK(p[j])
\* reg_alloc hands out registers in front of the spare ones.
ASSUME BoundsAssumption ==
    MaxPredecessors \in Nat \ {0} /\ RegisterCount \in Nat \ {0} /\ RegisterCount <= 3

NotRun == [status |-> "none", output |-> << >>]

Init ==
    /\ FrontEnd!AnalysisInit
    /\ Ra!Init
    /\ blocks = << >> /\ reg = << >> /\ state = << >> /\ val = << >>
    /\ GenInit
    /\ Machine!LoadInit({<< >>})
    /\ input = << >>
    /\ expected = NotRun
    /\ covered = FALSE
    /\ loopSpare = FALSE

BuildAndAnalyse ==
    FrontEnd!AnalysisNext /\ UNCHANGED <<allocVars, genVars, tmVars, runVars, loopSpare>>

Allocate ==
    /\ phase = "done"
    /\ Ra!Next
    /\ UNCHANGED <<frontVars, genVars, tmVars, runVars, loopSpare>>

\* gencode finds the blocks with lva's sets, and in the symbols what reg_alloc has
\* left; a constant has no register yet.
BlockList ==
    LET all  == FrontEnd!Blocks(code)
        Nth(j) == CHOOSE b \in all : Cardinality({a \in all : a < b}) = j - 1
    IN  [j \in 1 .. Cardinality(all) |->
           [ins |-> FrontEnd!Flow.ins[Nth(j)], out |-> out[Nth(j)]]]

HandOver ==
    /\ raPhase = "done"
    /\ blocks = << >>
    /\ blocks' = BlockList
    /\ reg' = [s \in Symbols |-> IF s \in Vars THEN sreg[s] ELSE NoRegister]
    /\ state' = [s \in Symbols |-> IF s \in Vars THEN raState[s] ELSE "VS_EMPTY"]
    /\ val' = cell
    /\ UNCHANGED <<frontVars, allocVars, blk, k, inBlock, outs, spare, tm, jmps, prev,
                   loaded, finished, tmVars, runVars, loopSpare>>

\* The symbols an instruction names.
Named(i) ==
    Touched(i) \cup (Constants \cap ({i.a1, i.a2} \cup IF i.op = "TOUT" THEN {i.r} ELSE {}))
NamedFrom(b) == UNION {Named(i) : i \in UNION {ToSet(blocks[j].ins) : j \in b .. Len(blocks)}}

\* The symbols in spare registers that a jump back does not store but that the
\* loop's next turn or the code behind it uses.
Behind == NamedFrom(blk + 1)
JumpsBack == \E i \in Current : i.op = "TJMP" /\ Known(Generator, i.r) # {}
LeftBehind == {spare[i] : i \in Spare} \cap (Behind \cup BlockOut)

Generate ==
    /\ raPhase = "done"
    /\ blocks # << >>
    /\ GenNext
    /\ loopSpare' = (loopSpare \/ (JumpsBack /\ LeftBehind # {}))
    /\ UNCHANGED <<frontVars, allocVars, tmVars, runVars>>

-----------------------------------------------------------------------------
(* What the generated code needs to be right about: each is a hazard of its  *)
(* own (README).                                                             *)
Live == [p \in Programs |-> LiveAfter(p)]
Spilled == {v \in Vars : sreg[v] = Ra!NoRegister}

\* Tests are those whose jump gen_cond_jmp takes when they fail.
OrderedTests ==
    \A p \in DOMAIN code : code[p].op = "TIFF" =>
      p > 1 /\ code[p - 1].op \in {"TLT", "TGT", "TLE", "TGE"}

\* Two variables in one register are not alive together: the intervals do not see
\* that a loop comes back.
RegistersApart ==
    \A p \in DOMAIN code : \A d \in Defs(code[p]) \ Spilled :
      \A u \in Live[code][p] \ {d} : sreg[d] # sreg[u]

\* A variable in memory is written by the first instruction that has it: where it is
\* read, its state is VS_EMPTY and gen_load loads nothing.
WrittenFirst ==
    \A p \in DOMAIN code : \A v \in Uses(code[p]) \cap Spilled :
      \E q \in 1 .. p - 1 : v \in Defs(code[q])

\* What a block's last instruction reads of the block is still there: lva_bb does
\* not see that it is read.
LastReadsKept ==
    \A b \in DOMAIN blocks :
      LET s == blocks[b].ins
          n == Len(s)
      IN  \A j \in 1 .. n - 3 :
            Uses(s[n]) \cap Defs(s[j]) \cap Spilled \subseteq
              blocks[b].out \cup Touched(s[n - 1]) \cup Touched(s[n - 2])

\* 1 - x is not made a decrement of x.
NoOneLess ==
    \A p \in DOMAIN code : ~ (code[p].op = "TSUB" /\ code[p].a1 = 1 /\ code[p].r = code[p].a2)

Covered ==
    /\ FrontEnd!NoShift /\ OrderedTests /\ RegistersApart /\ WrittenFirst
    /\ LastReadsKept /\ NoOneLess /\ ~ loopSpare

-----------------------------------------------------------------------------
\* What the programs mean.
Meaning == [p \in Programs |-> [n \in Inputs |-> RunOf(p, n)]]

\* write_file prints an instruction per line; readInstructions reads them back.
WriteFile ==
    /\ finished
    /\ file = << >>
    /\ file' = [j \in DOMAIN tm |->
                  [kind |-> "ins", loc |-> j - 1, op |-> tm[j].op,
                   a1 |-> tm[j].a1, a2 |-> tm[j].a2, a3 |-> tm[j].a3]]
    /\ input' \in Inputs
    /\ expected' = Meaning[code][input']
    /\ covered' = Covered
    /\ UNCHANGED <<frontVars, allocVars, genVars, lineNo, loading, overall, iMem,
                   dMem, mreg, sim, output, result, loopSpare>>

Read ==
    /\ file # << >>
    /\ Machine!ReadLine \/ Machine!ReadEnd
    /\ UNCHANGED <<frontVars, allocVars, genVars, runVars, loopSpare>>

\* The command g: step until a result other than srOKAY.
Run ==
    /\ loading = "read"
    /\ result = "okay"
    /\ sim["LDA"] < MaxTurns
    /\ IF Machine!NeedsInput
       THEN /\ input # << >>
            /\ Machine!StepTM(Head(input))
            /\ input' = Tail(input)
       ELSE /\ Machine!StepTM(0)
            /\ UNCHANGED input
    /\ UNCHANGED <<frontVars, allocVars, genVars, file, lineNo, loading, overall,
                   iMem, expected, covered, loopSpare>>

Next ==
    \/ BuildAndAnalyse \/ Allocate \/ HandOver \/ Generate \/ WriteFile \/ Read \/ Run

Spec == Init /\ [][Next]_vars

-----------------------------------------------------------------------------
\* When an instruction's turn comes, a symbol of it that is said to be in a spare
\* register is the one the register is said to hold.
SpareAgrees ==
    ~ loopSpare =>
      \A i \in Current : \A s \in Named(i) : reg[s] \in Spare => spare[reg[s]] = s

\* The executed program prints what the three address code does.
OutputRight ==
    Meaningful(expected) /\ covered => IsPrefix(output, expected.output)

\* It stops as the three address code does, having printed all: it halts, or divides
\* by 0, or waits for a number that is not there, and it does not go on for longer.
Stops ==
    \/ result # "okay"
    \/ sim["LDA"] = MaxTurns
    \/ loading = "read" /\ Machine!NeedsInput /\ input = << >>
Ends == [end |-> "halt", waiting |-> "okay", zerodivide |-> "zerodivide"]
EndsAlike ==
    covered /\ expected.status \in DOMAIN Ends /\ Stops =>
      /\ output = expected.output
      /\ result = Ends[expected.status]
      /\ sim["LDA"] < MaxTurns

-----------------------------------------------------------------------------
\* A test like test.mila, which computes and then writes its variables: all that it
\* writes is what was assigned (test/test.mila:24-29).
WritesAssigned == Meaningful(expected) => IsPrefix(output, expected.output)

=============================================================================
