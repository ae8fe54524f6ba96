------------------------------ MODULE CodeGen ------------------------------
(***************************************************************************)
(* The code generator: gen of gen.c with the emitters of code.c and, for   *)
(* each block it begins, lva_bb of lva.c.  A step is the begin of a block,  *)
(* one instruction, or the end of a block.                                 *)
(*                                                                         *)
(* A variable reg_alloc gave a register (VS_ASSIGNED) stays there.  The     *)
(* others and the constants visit the spare registers: find_reg puts them   *)
(* in, storing what it throws out; free_regs drops what the block no longer *)
(* needs, gen_bb_loads empties them in front of a jump.  A symbol's reg and *)
(* a spare register's symbol are two records of the same thing.             *)
(***************************************************************************)
EXTENDS Tac

CONSTANTS NoSymbol,      \* NULL
          Constants      \* the SCONST symbols: numbers

NoRegister == -1
Spare   == 3 .. 5        \* registers[]: R3, R4, R5
GP      == 6
PC      == 7
Symbols == Vars \cup Constants
IsConst(s) == s \notin Vars

VARIABLES
    blocks,    \* bb_code_t.blocks: the instructions and lva.out of each
    blk,       \* blocks begun
    k,         \* instructions of the block done
    inBlock,   \* whether the loop over a block's instructions runs
    outs,      \* tac_t.out of the block's instructions
    reg,       \* symbol_t.reg
    state,     \* symbol_t.state
    val,       \* symbol_t.val of the variables: the memory cell, if any
    spare,     \* registers[i].s
    tm,        \* tm_code; an instruction's line is its place, from 0
    jmps,      \* label, instruction to be patched (0: NULL), line
    prev,      \* the instruction before, NoSymbol at first
    loaded,
    finished

genVars == <<blocks, blk, k, inBlock, outs, reg, state, val, spare, tm, jmps, prev,
             loaded, finished>>

GenInit ==
    /\ blk = 0
    /\ k = 0
    /\ inBlock = FALSE
    /\ outs = << >>
    /\ spare = [i \in Spare |-> NoSymbol]
    /\ tm = << >>
    /\ jmps = << >>
    /\ prev = NoSymbol
    /\ loaded = FALSE
    /\ finished = FALSE

\* What the front end hands over: operands are symbols, the rest names labels.
InsOK(i) ==
    /\ i.op \in Ops
    /\ i.op \in Binops => {i.a1, i.a2, i.r} \subseteq Symbols
    /\ i.op = "TASSIGN" => {i.a1, i.r} \subseteq Symbols
    /\ i.op \in {"TIN", "TOUT"} => i.r \in Symbols
    /\ i.op \in {"TIFF", "TJMP", "TLABEL"} => i.r \in Int

-----------------------------------------------------------------------------
\* lva_bb.  Walking backwards it adds what an instruction reads and writes to
\* the out set of the one behind it, and copies that set.  It begins with the
\* last but one, so what the last reads is in no set; and what is written is
\* added, never taken out.
Touched(i) == Uses(i) \cup Defs(i)
LvaBb(s, out) ==
    [i \in 1 .. Len(s) |->
       out \cup UNION {Touched(s[j]) : j \in {j \in 1 .. Len(s) - 1 : j >= i - 1}}]

-----------------------------------------------------------------------------
(* The functions below gen_ins change reg, state, spare, tm and jmps; here   *)
(* they map a record g of these five to the record they leave.              *)

Generator == [reg |-> reg, state |-> state, spare |-> spare, tm |-> tm, jmps |-> jmps]

Becomes(g) ==
    /\ reg' = g.reg
    /\ state' = g.state
    /\ spare' = g.spare
    /\ tm' = g.tm
    /\ jmps' = g.jmps

\* emit_RO and emit_RM.
Emit(g, op, r1, r2, r3) ==
    [g EXCEPT !.tm = Append(@, [op |-> op, a1 |-> r1, a2 |-> r2, a3 |-> r3])]
\* emit_RM_abs, for a jump to line a.
EmitAbs(g, a) == Emit(g, "LDA", PC, a - (Len(g.tm) + 1), PC)

Lowest(S) == CHOOSE i \in S : \A j \in S : i <= j

GenLoad(g, s) ==
    IF IsConst(s) THEN Emit(g, "LDC", g.reg[s], s, 0)
    ELSE [(IF g.state[s] = "VS_INMEM" THEN Emit(g, "LD", g.reg[s], val[s], GP) ELSE g)
            EXCEPT !.state[s] = "VS_INREG"]

PutInto(g, i, s) == GenLoad([g EXCEPT !.spare[i] = s, !.reg[s] = i], s)

\* The symbol of register i is thrown out.
MutEvict(g, i) ==
    LET s == g.spare[i]
    IN  IF IsConst(s) THEN [g EXCEPT !.reg[s] = NoRegister]
        ELSE [Emit(g, "ST", i, val[s], GP) EXCEPT !.state[s] = "VS_INMEM"]
Evict(g, i) ==
    LET s == g.spare[i]
    IN  IF IsConst(s) THEN [g EXCEPT !.reg[s] = NoRegister]
        ELSE [Emit(g, "ST", i, val[s], GP)
                EXCEPT !.reg[s] = NoRegister, !.state[s] = "VS_INMEM"]

\* A register for s, not that of a symbol of ex.
FindReg(g, s, ex) ==
    LET free == {i \in Spare : g.spare[i] = NoSymbol}
        i    == Lowest({j \in Spare : g.spare[j] \notin ex})
    IN  IF free # {} THEN PutInto(g, Lowest(free), s)
        ELSE PutInto(Evict(g, i), i, s)

Need(g, s, ex) == IF g.reg[s] = NoRegister THEN FindReg(g, s, ex) ELSE g

MutGetReg(g, i) ==
    IF i.op \in Binops THEN Need(Need(g, i.r, {i.a1, i.a2}), i.a1, {i.a2, i.r})
    ELSE Need(g, i.r, {})
\* get_reg; gen_ins passes no place for a1 when it assigns a constant.
GetReg(g, i) ==
    IF i.op \in Binops
    THEN Need(Need(Need(g, i.r, {i.a1, i.a2}), i.a1, {i.a2, i.r}), i.a2, {i.a1, i.r})
    ELSE IF i.op \in {"TIN", "TOUT"} THEN Need(g, i.r, {})
    ELSE IF i.op = "TASSIGN" THEN Need(Need(g, i.r, {i.a1}), i.a1, {i.r})
    ELSE g

\* gen_bb_loads: what the block leaves alive goes to memory.  The registers still
\* name their symbols.
StoreAtEnd(g, i, out) ==
    LET s == g.spare[i]
    IN  IF s = NoSymbol THEN g
        ELSE [(IF ~ IsConst(s) /\ s \in out THEN Emit(g, "ST", i, val[s], GP) ELSE g)
                EXCEPT !.state[s] = "VS_INMEM", !.reg[s] = NoRegister]
BbLoads(g, out) == StoreAtEnd(StoreAtEnd(StoreAtEnd(g, 3, out), 4, out), 5, out)

Dropped(g, out) == {i \in Spare : g.spare[i] \in Vars \ out}
\* free_regs drops a value without storing it.
FreeRegs(g, out) ==
    LET gone == {g.spare[i] : i \in Dropped(g, out)}
    IN  [g EXCEPT
          !.spare = [i \in Spare |-> IF i \in Dropped(g, out) THEN NoSymbol ELSE @[i]],
          !.reg = [s \in Symbols |-> IF s \in gone THEN NoRegister ELSE @[s]],
          !.state = [s \in Symbols |-> IF s \in gone THEN "VS_INMEM" ELSE @[s]]]

-----------------------------------------------------------------------------
OpName(op) ==
    CASE op = "TADD" -> "ADD" [] op = "TMUL" -> "MUL" [] op = "TDIV" -> "DIV"
      [] OTHER -> "SUB"

\* gen_binop's test for x := x + 1 and its like, and gen_inc.
IsIncrement(i) ==
    /\ i.op \in {"TADD", "TSUB"}
    /\ i.r \in {i.a1, i.a2}
    /\ 1 \in {i.a1, i.a2}

GenInc(g, i) ==
    LET h == Need(g, i.r, {})
    IN  Emit(h, IF i.op = "TADD" THEN "INC" ELSE "DEC", h.reg[i.r], 0, 0)

BinopCode(g, i) ==
    LET h == GetReg(g, i)
    IN  Emit(h, OpName(i.op), h.reg[i.r], h.reg[i.a1], h.reg[i.a2])

\* The jump over the code that a comparison guards.
MutJumpName(op) == CASE op = "TLT" -> "JGT" [] op = "TGT" -> "JLE" [] OTHER -> "JEQ"
JumpName(op) ==
    CASE op = "TEQ" -> "JEQ" [] op = "TNEQ" -> "JNE" [] op = "TLT" -> "JGE"
      [] op = "TGT" -> "JLE" [] op = "TLE" -> "JGT"  [] op = "TGE" -> "JLT"

Pending(l, at) == [label |-> l, tm |-> at, loc |-> 0]

\* gen_cond_jmp.  Behind anything but a comparison nothing is emitted, and the
\* instruction that happens to be the last one is patched later.
CondJmp(g, i, out) ==
    LET h == GetReg(g, prev)
        b == BbLoads(h, out)
        e == IF prev.op \in Relops
             THEN Emit(b, JumpName(prev.op), h.reg[prev.r], h.reg[prev.a1], h.reg[prev.a2])
             ELSE b
    IN  [e EXCEPT !.jmps = Append(@, Pending(i.r, Len(e.tm)))]

AssignCode(g, i) ==
    IF i.r = i.a1 THEN g
    ELSE IF IsConst(i.a1)
    THEN LET h == Need(g, i.r, {i.a1}) IN Emit(h, "LDC", h.reg[i.r], i.a1, 0)
    ELSE LET h == GetReg(g, i)
         IN  Emit(Emit(h, "LDC", h.reg[i.r], 0, 0), "ADD", h.reg[i.r], h.reg[i.a1], h.reg[i.r])

Known(g, l) == {j \in DOMAIN g.jmps : g.jmps[j].label = l}

\* The case TJMP: back to a label that has been met, or forward.  The jump back
\* stores nothing.
Jmp(g, i, out) ==
    LET b == EmitAbs(BbLoads(g, out), 0)
    IN  IF Known(g, i.r) # {} THEN EmitAbs(g, g.jmps[Lowest(Known(g, i.r))].loc)
        ELSE [b EXCEPT !.jmps = Append(@, Pending(i.r, Len(b.tm)))]

\* The case TLABEL: patch the jump that waits for the label, or remember its line.
MutOffset(g, at) == Len(g.tm) - at + 1
Offset(g, at) == Len(g.tm) - at
LabelHere(g, l) ==
    IF Known(g, l) = {}
    THEN [g EXCEPT !.jmps = Append(@, [label |-> l, tm |-> 0, loc |-> Len(g.tm)])]
    ELSE LET at == g.jmps[Lowest(Known(g, l))].tm
         IN  [g EXCEPT !.tm[at].a2 = Offset(g, at), !.tm[at].a3 = PC]

-----------------------------------------------------------------------------
BeginBlock ==
    /\ ~ inBlock
    /\ blk < Len(blocks)
    /\ blk' = blk + 1
    /\ k' = 0
    /\ inBlock' = TRUE
    /\ spare' = [i \in Spare |-> NoSymbol]
    /\ outs' = LvaBb(blocks[blk'].ins, blocks[blk'].out)
    /\ UNCHANGED <<blocks, reg, state, val, tm, jmps, prev, loaded, finished>>

\* One turn of the loop over the instructions: those of ops leave h.
Instruction(i, ops, h) ==
    /\ inBlock
    /\ k < Len(blocks[blk].ins)
    /\ i = blocks[blk].ins[k + 1]
    /\ i.op \in ops
    /\ Becomes(FreeRegs(h, outs[k + 1]))
    /\ k' = k + 1
    /\ prev' = i
    /\ loaded' = (loaded \/ i.op \in {"TIFF", "TJMP"})
    /\ UNCHANGED <<blocks, blk, inBlock, outs, val, finished>>

Current == IF inBlock /\ k < Len(blocks[blk].ins) THEN {blocks[blk].ins[k + 1]} ELSE {}
BlockOut == blocks[blk].out

GenBinop ==
    \E i \in Current :
      Instruction(i, Binops,
        IF IsIncrement(i) THEN GenInc(Generator, i) ELSE BinopCode(Generator, i))

GenInput ==
    \E i \in Current : Instruction(i, {"TIN"},
      LET h == GetReg(Generator, i) IN Emit(h, "IN", h.reg[i.r], 0, 0))

GenOutput ==
    \E i \in Current : Instruction(i, {"TOUT"},
      LET h == GetReg(Generator, i) IN Emit(h, "OUT", h.reg[i.r], 0, 0))

GenBranch ==
    /\ prev # NoSymbol
    /\ \E i \in Current : Instruction(i, {"TIFF"}, CondJmp(Generator, i, BlockOut))

GenAssign ==
    \E i \in Current : Instruction(i, {"TASSIGN"}, AssignCode(Generator, i))

GenJump ==
    \E i \in Current : Instruction(i, {"TJMP"}, Jmp(Generator, i, BlockOut))

GenLabel ==
    \E i \in Current : Instruction(i, {"TLABEL"}, LabelHere(Generator, i.r))

EndBlock ==
    /\ inBlock
    /\ k = Len(blocks[blk].ins)
    /\ inBlock' = FALSE
    /\ loaded' = FALSE
    /\ Becomes(IF loaded THEN Generator ELSE BbLoads(Generator, BlockOut))
    /\ UNCHANGED <<blocks, blk, k, outs, val, prev, finished>>

GenEnd ==
    /\ ~ inBlock
    /\ blk = Len(blocks)
    /\ ~ finished
    /\ Becomes(Emit(Generator, "HALT", 0, 0, 0))
    /\ finished' = TRUE
    /\ UNCHANGED <<blocks, blk, k, inBlock, outs, val, prev, loaded>>

GenNext ==
    \/ BeginBlock \/ GenBinop \/ GenInput \/ GenOutput \/ GenBranch \/ GenAssign
    \/ GenJump \/ GenLabel \/ EndBlock \/ GenEnd

-----------------------------------------------------------------------------
\* What emit_RO writes, and emit_RM or emit_RM_abs does not.
RegisterOnly == {"HALT", "IN", "OUT", "ADD", "SUB", "MUL", "DIV", "INC", "DEC"}

\* Every instruction names registers the machine has: get_reg finds one for each
\* operand ("ASSERT(*r1 != -1 && *r2 != -1 && *r3 != -1)", gen.c:154), and a label's
\* patch changes a jump only.  tm refuses the program otherwise (tm.c:261-314).
RegistersNamed ==
    \A j \in DOMAIN tm :
      /\ tm[j].a1 \in 0 .. PC /\ tm[j].a3 \in 0 .. PC
      /\ tm[j].op \in RegisterOnly => tm[j].a2 \in 0 .. PC

=============================================================================
