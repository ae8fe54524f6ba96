---------------------------- MODULE CodeGenProofs ----------------------------
(***************************************************************************)
(* Proofs about the code generator for every list of blocks, every set of   *)
(* symbols and whatever registers reg_alloc has given: its two records of    *)
(* the spare registers agree, every instruction finds registers for its      *)
(* operands, and what is written is what the machine's reader accepts.  Then *)
(* the same of the whole compiler, where what gencode is given is what       *)
(* bb_build, lva and reg_alloc leave.                                        *)
(***************************************************************************)
EXTENDS Compiler, LivenessProofs, SequenceTheorems, FiniteSetTheorems, FunctionTheorems,
        WellFoundedInduction, TLAPS

\* NULL is no symbol, and a constant's symbol is its number.
SymbolsOK == NoSymbol \notin Symbols /\ Constants \subseteq Int

Registers == 0 .. PC
TmNames == RegisterOnly \cup
           {"LD", "ST", "LDA", "LDC", "JEQ", "JNE", "JLT", "JLE", "JGT", "JGE"}
TmLines == {l \in [op : TmNames, a1 : Registers, a2 : Int, a3 : Registers] :
              l.op \in RegisterOnly => l.a2 \in Registers}
Waiting == [label : Int, tm : Nat, loc : Nat]

StateNames == {"VS_EMPTY", "VS_INREG", "VS_INMEM", "VS_ASSIGNED"}

\* What the functions below gen_ins pass on.
Generators ==
    [reg : [Symbols -> Registers \cup {NoRegister}],
     state : [Symbols -> StateNames],
     spare : [Spare -> Symbols \cup {NoSymbol}],
     tm : Seq(TmLines), jmps : Seq(Waiting)]

\* A jump that waits for its label is one that emit_RM has written.
JumpsOK(g) ==
    \A j \in DOMAIN g.jmps :
      LET at == g.jmps[j].tm
      IN  at # 0 => at \in DOMAIN g.tm /\ g.tm[at].op \notin RegisterOnly

CellsOK == val \in [Vars -> Int]

GenOK(g) == g \in Generators /\ JumpsOK(g)

\* A spare register's symbol knows the register.
OneHolder(g) == \A i \in Spare : g.spare[i] # NoSymbol => g.reg[g.spare[i]] = i

-----------------------------------------------------------------------------
(* Emitting. *)

\* The registers are a prefix of the naturals below 8.
LEMMA SpareIs ==
  /\ Spare = {3, 4, 5} /\ Spare \subseteq Registers
  /\ NoRegister \notin Registers /\ GP \in Registers /\ PC \in Registers
BY DEF Spare, Registers, NoRegister, GP, PC

\* The lowest of some spare registers is one of them.
LEMMA LowestSpare ==
  ASSUME NEW S \in SUBSET Spare, S # {}
  PROVE  Lowest(S) \in S
<1>1. \E i \in S : \A j \in S : i <= j
  <2>1. S \subseteq {3, 4, 5}
    BY SpareIs
  <2>2. CASE 3 \in S
    BY <2>1, <2>2
  <2>3. CASE 3 \notin S /\ 4 \in S
    BY <2>1, <2>3
  <2>4. CASE 3 \notin S /\ 4 \notin S
    <3>1. S = {5}
      BY <2>1, <2>4
    <3> QED BY <3>1
  <2> QED BY <2>2, <2>3, <2>4
<1> QED BY <1>1 DEF Lowest

\* The lowest of some naturals is one of them.
LEMMA LowestNat ==
  ASSUME NEW S \in SUBSET Nat, S # {}
  PROVE  Lowest(S) \in S
<1>1. \E i \in S : \A j \in S : ~ (<<j, i>> \in OpToRel(<, Nat))
  BY NatLessThanWellFounded, WFMin
<1>2. PICK i \in S : \A j \in S : ~ (<<j, i>> \in OpToRel(<, Nat))
  BY <1>1
<1>3. ASSUME NEW j \in S PROVE i <= j
  <2>1. ~ (j < i)
    BY <1>2 DEF OpToRel
  <2> QED BY <2>1
<1> QED BY <1>3 DEF Lowest

\* The instructions' names.
LEMMA EmitNames ==
  /\ \A n \in {"HALT", "IN", "OUT", "ADD", "SUB", "MUL", "DIV", "INC", "DEC"} : n \in TmNames
  /\ \A n \in {"LD", "ST", "LDA", "LDC", "JEQ", "JNE", "JLT", "JLE", "JGT", "JGE"} :
       n \in TmNames /\ n \notin RegisterOnly
BY DEF TmNames, RegisterOnly

\* Appending an instruction.
LEMMA EmitOK ==
  ASSUME NEW g, GenOK(g), NEW op \in TmNames, NEW r1 \in Registers, NEW r2 \in Int,
         NEW r3 \in Registers, op \in RegisterOnly => r2 \in Registers
  PROVE  /\ GenOK(Emit(g, op, r1, r2, r3))
         /\ Emit(g, op, r1, r2, r3).reg = g.reg /\ Emit(g, op, r1, r2, r3).spare = g.spare
         /\ Emit(g, op, r1, r2, r3).state = g.state /\ Emit(g, op, r1, r2, r3).jmps = g.jmps
         /\ Len(Emit(g, op, r1, r2, r3).tm) = Len(g.tm) + 1
         /\ Emit(g, op, r1, r2, r3).tm[Len(Emit(g, op, r1, r2, r3).tm)].op = op
<1> SUFFICES ASSUME NEW h, h = Emit(g, op, r1, r2, r3)
             PROVE  /\ GenOK(h)
               /\ h.reg = g.reg /\ h.spare = g.spare /\ h.state = g.state /\ h.jmps = g.jmps
               /\ Len(h.tm) = Len(g.tm) + 1 /\ h.tm[Len(h.tm)].op = op
  OBVIOUS
<1> DEFINE l == [op |-> op, a1 |-> r1, a2 |-> r2, a3 |-> r3]
<1>1. l \in TmLines
  BY DEF TmLines
<1>2. h = [g EXCEPT !.tm = Append(@, l)]
  BY DEF Emit
<1>3. g \in Generators /\ g.tm \in Seq(TmLines)
  BY DEF GenOK, Generators
<1> HIDE DEF l
<1>4. /\ h.tm = Append(g.tm, l)
      /\ h.reg = g.reg /\ h.spare = g.spare /\ h.state = g.state /\ h.jmps = g.jmps
      /\ h \in Generators
  <2>1. Append(g.tm, l) \in Seq(TmLines)
    BY <1>1, <1>3
  <2>2. h = [g EXCEPT !.tm = Append(g.tm, l)]
    BY <1>2
  <2> QED BY <1>3, <2>1, <2>2 DEF Generators
<1>5. /\ Len(h.tm) = Len(g.tm) + 1 /\ h.tm[Len(h.tm)] = l
      /\ \A at \in DOMAIN g.tm : at \in DOMAIN h.tm /\ h.tm[at] = g.tm[at]
  BY <1>1, <1>3, <1>4
<1>6. JumpsOK(h)
  BY <1>4, <1>5 DEF GenOK, JumpsOK
<1>7. l.op = op
  BY DEF l
<1> QED BY <1>4, <1>5, <1>6, <1>7 DEF GenOK

\* Setting one of the three records.
WithReg(g, n) == [g EXCEPT !.reg = n]
WithState(g, n) == [g EXCEPT !.state = n]
WithSpare(g, n) == [g EXCEPT !.spare = n]

LEMMA RegSet ==
  ASSUME NEW g, GenOK(g), NEW n \in [Symbols -> Registers \cup {NoRegister}]
  PROVE  GenOK(WithReg(g, n)) /\ WithReg(g, n).reg = n /\ WithReg(g, n).spare = g.spare
         /\ WithReg(g, n).tm = g.tm /\ WithReg(g, n).jmps = g.jmps
         /\ WithReg(g, n).state = g.state
<1> SUFFICES ASSUME NEW h, h = WithReg(g, n)
             PROVE  GenOK(h) /\ h.reg = n /\ h.spare = g.spare /\ h.tm = g.tm
                    /\ h.jmps = g.jmps /\ h.state = g.state
  OBVIOUS
<1>1. h \in Generators /\ h.reg = n /\ h.spare = g.spare /\ h.tm = g.tm /\ h.jmps = g.jmps /\ h.state = g.state
  BY DEF GenOK, Generators, WithReg
<1> QED BY <1>1 DEF GenOK, JumpsOK

LEMMA StateSet ==
  ASSUME NEW g, GenOK(g), NEW n \in [Symbols -> StateNames]
  PROVE  GenOK(WithState(g, n)) /\ WithState(g, n).reg = g.reg
         /\ WithState(g, n).spare = g.spare /\ WithState(g, n).tm = g.tm
         /\ WithState(g, n).jmps = g.jmps /\ WithState(g, n).state = n
<1> SUFFICES ASSUME NEW h, h = WithState(g, n)
             PROVE  GenOK(h) /\ h.reg = g.reg /\ h.spare = g.spare /\ h.tm = g.tm
                    /\ h.jmps = g.jmps /\ h.state = n
  OBVIOUS
<1>1. h \in Generators /\ h.reg = g.reg /\ h.spare = g.spare /\ h.tm = g.tm /\ h.jmps = g.jmps /\ h.state = n
  BY DEF GenOK, Generators, WithState
<1> QED BY <1>1 DEF GenOK, JumpsOK

LEMMA SpareSet ==
  ASSUME NEW g, GenOK(g), NEW n \in [Spare -> Symbols \cup {NoSymbol}]
  PROVE  GenOK(WithSpare(g, n)) /\ WithSpare(g, n).reg = g.reg /\ WithSpare(g, n).spare = n
         /\ WithSpare(g, n).tm = g.tm /\ WithSpare(g, n).jmps = g.jmps
         /\ WithSpare(g, n).state = g.state
<1> SUFFICES ASSUME NEW h, h = WithSpare(g, n)
             PROVE  GenOK(h) /\ h.reg = g.reg /\ h.spare = n /\ h.tm = g.tm
                    /\ h.jmps = g.jmps /\ h.state = g.state
  OBVIOUS
<1>1. h \in Generators /\ h.reg = g.reg /\ h.spare = n /\ h.tm = g.tm /\ h.jmps = g.jmps /\ h.state = g.state
  BY DEF GenOK, Generators, WithSpare
<1> QED BY <1>1 DEF GenOK, JumpsOK

-----------------------------------------------------------------------------
(* Finding registers. *)

\* gen_load changes neither record.
LEMMA GenLoadOK ==
  ASSUME SymbolsOK, CellsOK, NEW g, GenOK(g), NEW s \in Symbols, g.reg[s] \in Registers
  PROVE  GenOK(GenLoad(g, s)) /\ GenLoad(g, s).reg = g.reg /\ GenLoad(g, s).spare = g.spare
         /\ GenLoad(g, s).jmps = g.jmps
<1> SUFFICES ASSUME NEW h, h = GenLoad(g, s)
             PROVE  GenOK(h) /\ h.reg = g.reg /\ h.spare = g.spare /\ h.jmps = g.jmps
  OBVIOUS
<1>1. CASE IsConst(s)
  <2>1. s \in Int
    BY <1>1 DEF SymbolsOK, Symbols, IsConst
  <2>3. 0 \in Registers
    BY DEF Registers, PC
  <2>2. h = Emit(g, "LDC", g.reg[s], s, 0)
    BY <1>1 DEF GenLoad
  <2> QED BY <2>1, <2>2, <2>3, EmitNames, EmitOK
<1>2. CASE ~ IsConst(s)
  <2> DEFINE e == IF g.state[s] = "VS_INMEM" THEN Emit(g, "LD", g.reg[s], val[s], GP) ELSE g
  <2>1. val[s] \in Int
    BY <1>2 DEF CellsOK, IsConst
  <2>2. GenOK(e) /\ e.reg = g.reg /\ e.spare = g.spare /\ e.jmps = g.jmps
    <3>1. CASE g.state[s] = "VS_INMEM"
      <4>1. e = Emit(g, "LD", g.reg[s], val[s], GP)
        BY <3>1
      <4>2. "LD" \in TmNames /\ "LD" \notin RegisterOnly
        BY EmitNames
      <4>3. GP \in Registers
        BY SpareIs
      <4> HIDE DEF e
      <4> QED BY <2>1, <4>1, <4>2, <4>3, EmitOK
    <3> QED BY <3>1
  <2>3. h = [e EXCEPT !.state[s] = "VS_INREG"]
    BY <1>2 DEF GenLoad
  <2> HIDE DEF e
  <2> DEFINE n == [e.state EXCEPT ![s] = "VS_INREG"]
  <2>4. n \in [Symbols -> StateNames]
    BY <2>2 DEF GenOK, Generators, StateNames
  <2>5. h = WithState(e, n)
    BY <2>3 DEF WithState
  <2> HIDE DEF n
  <2> QED BY <2>2, <2>4, <2>5, StateSet
<1> QED BY <1>1, <1>2

\* h is g with s put into register i, which held evicted before.
Placed(g, h, i, s, evicted) ==
    /\ GenOK(h)
    /\ h.jmps = g.jmps
    /\ \A j \in Spare : h.spare[j] = IF j = i THEN s ELSE g.spare[j]
    /\ \A t \in Symbols : h.reg[t] = IF t = s THEN i
                                    ELSE IF t = evicted THEN NoRegister ELSE g.reg[t]

\* Putting a symbol into a spare register.
LEMMA PutIntoOK ==
  ASSUME SymbolsOK, CellsOK, NEW g, GenOK(g), NEW s \in Symbols, NEW i \in Spare
  PROVE  Placed(g, PutInto(g, i, s), i, s, NoSymbol)
<1> SUFFICES ASSUME NEW h, h = PutInto(g, i, s)
             PROVE  Placed(g, h, i, s, NoSymbol)
  OBVIOUS
<1> DEFINE sp == [g.spare EXCEPT ![i] = s]  rg == [g.reg EXCEPT ![s] = i]
           d == WithSpare(g, sp)  e == WithReg(d, rg)
<1>1. sp \in [Spare -> Symbols \cup {NoSymbol}] /\ rg \in [Symbols -> Registers \cup {NoRegister}]
  BY SpareIs DEF GenOK, Generators
<1>2. h = GenLoad(e, s)
  <2>1. [g EXCEPT !.spare[i] = s, !.reg[s] = i] = e
    BY DEF WithReg, WithSpare
  <2> QED BY <2>1 DEF PutInto
<1>3. rg[s] \in Registers
  BY SpareIs DEF GenOK, Generators
<1>4. /\ \A j \in Spare : sp[j] = IF j = i THEN s ELSE g.spare[j]
      /\ \A t \in Symbols : rg[t] = IF t = s THEN i ELSE g.reg[t]
  BY DEF GenOK, Generators
<1>8. NoSymbol \notin Symbols
  BY DEF SymbolsOK
<1> HIDE DEF sp, rg
<1>5. GenOK(d) /\ d.reg = g.reg /\ d.spare = sp /\ d.jmps = g.jmps
  BY <1>1, SpareSet
<1> HIDE DEF d
<1>6. GenOK(e) /\ e.reg = rg /\ e.spare = sp /\ e.jmps = g.jmps
  BY <1>1, <1>5, RegSet
<1> HIDE DEF e
<1>7. GenOK(h) /\ h.reg = e.reg /\ h.spare = e.spare /\ h.jmps = e.jmps
  BY <1>2, <1>3, <1>6, GenLoadOK
<1> QED BY <1>4, <1>6, <1>7, <1>8 DEF Placed

\* Throwing a symbol out of its register.
LEMMA EvictOK ==
  ASSUME SymbolsOK, CellsOK, NEW g, GenOK(g), NEW i \in Spare, g.spare[i] \in Symbols
  PROVE  /\ GenOK(Evict(g, i))
         /\ Evict(g, i).reg = [g.reg EXCEPT ![g.spare[i]] = NoRegister]
         /\ Evict(g, i).spare = g.spare
         /\ Evict(g, i).jmps = g.jmps
<1> SUFFICES ASSUME NEW h, h = Evict(g, i)
             PROVE  /\ GenOK(h)
               /\ h.reg = [g.reg EXCEPT ![g.spare[i]] = NoRegister] /\ h.spare = g.spare
               /\ h.jmps = g.jmps
  OBVIOUS
<1> DEFINE s == g.spare[i]
<1>1. CASE IsConst(s)
  <2> DEFINE rg == [g.reg EXCEPT ![s] = NoRegister]
  <2>1. h = WithReg(g, rg)
    BY <1>1 DEF Evict, WithReg
  <2>2. rg \in [Symbols -> Registers \cup {NoRegister}]
    BY DEF GenOK, Generators
  <2>3. rg = [g.reg EXCEPT ![s] = NoRegister]
    OBVIOUS
  <2> HIDE DEF rg
  <2> QED BY <2>1, <2>2, <2>3, RegSet
<1>2. CASE ~ IsConst(s)
  <2> DEFINE e == Emit(g, "ST", i, val[s], GP)
  <2>1. val[s] \in Int /\ i \in Registers
    BY <1>2, SpareIs DEF CellsOK, IsConst
  <2>e. e = Emit(g, "ST", i, val[s], GP)
    OBVIOUS
  <2>9. "ST" \in TmNames /\ "ST" \notin RegisterOnly /\ GP \in Registers
    BY EmitNames, SpareIs
  <2>3. h = [e EXCEPT !.reg[s] = NoRegister, !.state[s] = "VS_INMEM"]
    BY <1>2 DEF Evict
  <2>4. "VS_INMEM" \in StateNames
    BY DEF StateNames
  <2> HIDE DEF e
  <2>2. GenOK(e) /\ e.reg = g.reg /\ e.spare = g.spare /\ e.jmps = g.jmps
    BY <2>1, <2>e, <2>9, EmitOK
  <2> DEFINE rg == [g.reg EXCEPT ![s] = NoRegister]  st == [e.state EXCEPT ![s] = "VS_INMEM"]
             d == WithReg(e, rg)
  <2>5. /\ rg \in [Symbols -> Registers \cup {NoRegister}]
        /\ st \in [Symbols -> StateNames]
    BY <2>2, <2>4 DEF GenOK, Generators
  <2>6. h = WithState(d, st)
    BY <2>2, <2>3 DEF WithReg, WithState
  <2>7. rg = [g.reg EXCEPT ![s] = NoRegister]
    OBVIOUS
  <2> HIDE DEF rg, st
  <2>8. GenOK(d) /\ d.reg = rg /\ d.spare = g.spare /\ d.jmps = g.jmps
    BY <2>2, <2>5, RegSet
  <2> HIDE DEF d
  <2> QED BY <2>5, <2>6, <2>7, <2>8, StateSet
<1> QED BY <1>1, <1>2

\* There is room: of three registers with different symbols two symbols occupy two.
LEMMA HasRoom ==
  ASSUME NEW g, OneHolder(g), NEW p, NEW q, NEW ex \in SUBSET {p, q},
         \A i \in Spare : g.spare[i] # NoSymbol
  PROVE  \E j \in Spare : g.spare[j] \notin ex
<1>1. g.spare[3] # NoSymbol /\ g.spare[4] # NoSymbol /\ g.spare[5] # NoSymbol
  BY SpareIs
<1>2. g.reg[g.spare[3]] = 3 /\ g.reg[g.spare[4]] = 4 /\ g.reg[g.spare[5]] = 5
  BY <1>1, SpareIs DEF OneHolder
<1>3. g.spare[3] # g.spare[4] /\ g.spare[3] # g.spare[5] /\ g.spare[4] # g.spare[5]
  BY <1>2
<1>4. g.spare[3] \notin ex \/ g.spare[4] \notin ex \/ g.spare[5] \notin ex
  BY <1>3
<1> QED BY <1>4, SpareIs

\* find_reg puts s into a register that held no symbol of ex, and forgets what the
\* register held before.
LEMMA FindRegIs ==
  ASSUME SymbolsOK, CellsOK, NEW g, GenOK(g), OneHolder(g),
         NEW s \in Symbols, g.reg[s] = NoRegister,
         NEW p \in Symbols, NEW q \in Symbols, NEW ex \in SUBSET {p, q}
  PROVE  \E i \in Spare : g.spare[i] \notin ex
         /\ Placed(g, FindReg(g, s, ex), i, s, g.spare[i])
<1> DEFINE free == {i \in Spare : g.spare[i] = NoSymbol}
           room == {j \in Spare : g.spare[j] \notin ex}
<1>1. /\ g.reg \in [Symbols -> Registers \cup {NoRegister}]
      /\ g.spare \in [Spare -> Symbols \cup {NoSymbol}]
      /\ NoSymbol \notin Symbols
  BY DEF GenOK, Generators, SymbolsOK
<1>2. CASE free # {}
  <2>1. Lowest(free) \in free
    BY <1>2, LowestSpare
  <2>2. PICK i \in Spare : i = Lowest(free) /\ g.spare[i] = NoSymbol
    BY <2>1
  <2>3. FindReg(g, s, ex) = PutInto(g, i, s)
    BY <1>2, <2>2 DEF FindReg
  <2>4. Placed(g, FindReg(g, s, ex), i, s, g.spare[i])
    BY <2>2, <2>3, PutIntoOK
  <2> QED BY <1>1, <2>2, <2>4
<1>3. CASE free = {}
  <2>0. \A j \in Spare : g.spare[j] # NoSymbol
    BY <1>3
  <2>1. Lowest(room) \in room
    BY <2>0, HasRoom, LowestSpare
  <2>2. PICK i \in Spare : i = Lowest(room) /\ g.spare[i] \notin ex
    BY <2>1
  <2>3. PICK e : e = Evict(g, i)
    OBVIOUS
  <2>4. FindReg(g, s, ex) = PutInto(e, i, s)
    BY <1>3, <2>2, <2>3 DEF FindReg
  <2>5. g.spare[i] \in Symbols
    BY <1>1, <1>3
  <2>6. /\ GenOK(e) /\ e.spare = g.spare /\ e.jmps = g.jmps
        /\ e.reg = [g.reg EXCEPT ![g.spare[i]] = NoRegister]
    BY <2>3, <2>5, EvictOK
  <2>7. \A t \in Symbols : e.reg[t] = IF t = g.spare[i] THEN NoRegister ELSE g.reg[t]
    BY <1>1, <2>6
  <2>8. Placed(e, FindReg(g, s, ex), i, s, NoSymbol)
    BY <2>4, <2>6, PutIntoOK
  <2>9. Placed(g, FindReg(g, s, ex), i, s, g.spare[i])
    BY <1>1, <2>6, <2>7, <2>8 DEF Placed
  <2> QED BY <2>2, <2>9
<1> QED BY <1>2, <1>3

\* A spare register's symbol still knows the register, s has a register, and what is in ex keeps its own.
LEMMA NeedOK ==
  ASSUME SymbolsOK, CellsOK, NEW g, GenOK(g), OneHolder(g), NEW s \in Symbols,
         NEW p \in Symbols, NEW q \in Symbols, NEW ex \in SUBSET {p, q}
  PROVE  /\ GenOK(Need(g, s, ex)) /\ OneHolder(Need(g, s, ex))
         /\ Need(g, s, ex).reg[s] \in Registers
         /\ \A t \in ex : g.reg[t] \in Registers => Need(g, s, ex).reg[t] = g.reg[t]
<1> SUFFICES ASSUME NEW h, h = Need(g, s, ex)
             PROVE  /\ GenOK(h) /\ OneHolder(h)
               /\ h.reg[s] \in Registers
               /\ \A t \in ex : g.reg[t] \in Registers => h.reg[t] = g.reg[t]
  OBVIOUS
<1>1. /\ g.reg \in [Symbols -> Registers \cup {NoRegister}]
      /\ g.spare \in [Spare -> Symbols \cup {NoSymbol}]
  BY DEF GenOK, Generators
<1>2. CASE g.reg[s] # NoRegister
  BY <1>1, <1>2 DEF Need
<1>3. CASE g.reg[s] = NoRegister
  <2>1. h = FindReg(g, s, ex)
    BY <1>3 DEF Need
  <2>2. PICK i \in Spare : g.spare[i] \notin ex /\ Placed(g, h, i, s, g.spare[i])
    BY <1>3, <2>1, FindRegIs
  <2>3. /\ GenOK(h) /\ h.jmps = g.jmps
        /\ \A t \in Symbols : h.reg[t] = IF t = s THEN i
                                        ELSE IF t = g.spare[i] THEN NoRegister ELSE g.reg[t]
    BY <2>2 DEF Placed
  <2>4. i # NoRegister /\ i \in Registers
    BY SpareIs
  <2>5. h.reg[s] \in Registers
    BY <2>3, <2>4
  <2>6. \A t \in ex : g.reg[t] \in Registers => h.reg[t] = g.reg[t]
    BY <1>3, <2>2, <2>3, SpareIs
  <2>7. \A j \in Spare : h.spare[j] = IF j = i THEN s ELSE g.spare[j]
    BY <2>2 DEF Placed
  <2>8. OneHolder(h)
    <3> SUFFICES ASSUME NEW j \in Spare, h.spare[j] # NoSymbol
                 PROVE  h.reg[h.spare[j]] = j
      BY DEF OneHolder
    <3>1. CASE j = i
      BY <2>3, <2>7, <3>1
    <3>2. CASE j # i
      <4>1. h.spare[j] = g.spare[j] /\ g.spare[j] \in Symbols /\ g.reg[g.spare[j]] = j
        BY <1>1, <2>7, <3>2 DEF OneHolder
      <4>2. g.spare[j] # s
        BY <1>3, <4>1, SpareIs
      <4>3. g.spare[j] # g.spare[i]
        BY <3>2, <4>1 DEF OneHolder
      <4> QED BY <2>3, <4>1, <4>2, <4>3
    <3> QED BY <3>1, <3>2
  <2> QED BY <2>3, <2>5, <2>6, <2>8
<1> QED BY <1>2, <1>3

-----------------------------------------------------------------------------
(* The operands of an instruction. *)

\* The same for the operands in the order of get_reg.
LEMMA NeedBeside ==
  ASSUME SymbolsOK, CellsOK, NEW g, GenOK(g), OneHolder(g), NEW s \in Symbols,
         NEW p \in Symbols, NEW q \in Symbols
  PROVE  /\ GenOK(Need(g, s, {p, q})) /\ OneHolder(Need(g, s, {p, q}))
         /\ Need(g, s, {p, q}).reg[s] \in Registers
         /\ g.reg[p] \in Registers => Need(g, s, {p, q}).reg[p] = g.reg[p]
         /\ g.reg[q] \in Registers => Need(g, s, {p, q}).reg[q] = g.reg[q]
<1>1. PICK ex \in SUBSET {p, q} : ex = {p, q}
  OBVIOUS
<1>2. PICK h : h = Need(g, s, ex)
  OBVIOUS
<1>3. /\ GenOK(h) /\ OneHolder(h) /\ h.reg[s] \in Registers
      /\ \A t \in ex : g.reg[t] \in Registers => h.reg[t] = g.reg[t]
  BY <1>2, NeedOK
<1>4. p \in ex /\ q \in ex
  BY <1>1
<1>5. h = Need(g, s, {p, q})
  BY <1>1, <1>2
<1> QED BY <1>3, <1>4, <1>5

\* get_reg leaves a register with every operand (the ASSERT of gen.c:154).
LEMMA GetRegBinop ==
  ASSUME SymbolsOK, CellsOK, NEW g, GenOK(g), OneHolder(g),
         NEW r \in Symbols, NEW p \in Symbols, NEW q \in Symbols,
         NEW e, e = Need(g, r, {p, q}), NEW d, d = Need(e, p, {q, r}),
         NEW h, h = Need(d, q, {p, r})
  PROVE  /\ GenOK(h) /\ OneHolder(h)
         /\ h.reg[r] \in Registers /\ h.reg[p] \in Registers /\ h.reg[q] \in Registers
<1>1. GenOK(e) /\ OneHolder(e) /\ e.reg[r] \in Registers
  BY NeedBeside
<1>2. /\ GenOK(d) /\ OneHolder(d) /\ d.reg[p] \in Registers
      /\ e.reg[r] \in Registers => d.reg[r] = e.reg[r]
  BY <1>1, NeedBeside
<1>3. /\ GenOK(h) /\ OneHolder(h) /\ h.reg[q] \in Registers
      /\ d.reg[r] \in Registers => h.reg[r] = d.reg[r]
      /\ d.reg[p] \in Registers => h.reg[p] = d.reg[p]
  BY <1>2, NeedBeside
<1> QED BY <1>1, <1>2, <1>3

LEMMA GetRegAssign ==
  ASSUME SymbolsOK, CellsOK, NEW g, GenOK(g), OneHolder(g),
         NEW r \in Symbols, NEW p \in Symbols,
         NEW e, e = Need(g, r, {p}), NEW h, h = Need(e, p, {r})
  PROVE  GenOK(h) /\ OneHolder(h) /\ h.reg[r] \in Registers /\ h.reg[p] \in Registers
<1>1. {p} = {p, p} /\ {r} = {r, r}
  OBVIOUS
<1>2. GenOK(e) /\ OneHolder(e) /\ e.reg[r] \in Registers
  BY <1>1, NeedBeside
<1>3. /\ GenOK(h) /\ OneHolder(h) /\ h.reg[p] \in Registers
      /\ e.reg[r] \in Registers => h.reg[r] = e.reg[r]
  BY <1>1, <1>2, NeedBeside
<1> QED BY <1>2, <1>3

LEMMA GetRegOne ==
  ASSUME SymbolsOK, CellsOK, NEW g, GenOK(g), OneHolder(g), NEW r \in Symbols,
         NEW h, h = Need(g, r, {})
  PROVE  GenOK(h) /\ OneHolder(h) /\ h.reg[r] \in Registers
<1>1. PICK ex \in SUBSET {r, r} : ex = {}
  OBVIOUS
<1> QED BY <1>1, NeedOK

LEMMA GetRegOK ==
  ASSUME SymbolsOK, CellsOK, NEW g, GenOK(g), OneHolder(g), NEW i, InsOK(i),
         i.op \in Binops \cup {"TIN", "TOUT", "TASSIGN"}
  PROVE  /\ GenOK(GetReg(g, i)) /\ OneHolder(GetReg(g, i))
         /\ GetReg(g, i).reg[i.r] \in Registers
         /\ i.op \in Binops \cup {"TASSIGN"} => GetReg(g, i).reg[i.a1] \in Registers
         /\ i.op \in Binops => GetReg(g, i).reg[i.a2] \in Registers
<1>0. PICK h : h = GetReg(g, i)
  OBVIOUS
<1>1. CASE i.op \in Binops
  <2>1. i.a1 \in Symbols /\ i.a2 \in Symbols /\ i.r \in Symbols
    BY <1>1 DEF InsOK
  <2>2. PICK r \in Symbols, p \in Symbols, q \in Symbols : r = i.r /\ p = i.a1 /\ q = i.a2
    BY <2>1
  <2>3. PICK e : e = Need(g, r, {p, q})
    OBVIOUS
  <2>4. PICK d : d = Need(e, p, {q, r})
    OBVIOUS
  <2>5. h = Need(d, q, {p, r})
    BY <1>0, <1>1, <2>2, <2>3, <2>4 DEF GetReg
  <2>6. /\ GenOK(h) /\ OneHolder(h)
        /\ h.reg[r] \in Registers /\ h.reg[p] \in Registers /\ h.reg[q] \in Registers
    BY <2>3, <2>4, <2>5, GetRegBinop
  <2> QED BY <1>0, <2>2, <2>6
<1>2. CASE i.op = "TASSIGN"
  <2>1. i.a1 \in Symbols /\ i.r \in Symbols /\ i.op \notin Binops
    BY <1>2 DEF InsOK, Binops, Relops, Arith
  <2>2. PICK r \in Symbols, p \in Symbols : r = i.r /\ p = i.a1
    BY <2>1
  <2>3. PICK e : e = Need(g, r, {p})
    OBVIOUS
  <2>4. h = Need(e, p, {r})
    BY <1>0, <1>2, <2>1, <2>2, <2>3 DEF GetReg
  <2>5. GenOK(h) /\ OneHolder(h) /\ h.reg[r] \in Registers /\ h.reg[p] \in Registers
    BY <2>3, <2>4, GetRegAssign
  <2> QED BY <1>0, <2>1, <2>2, <2>5
<1>3. CASE i.op \in {"TIN", "TOUT"}
  <2>1. i.r \in Symbols /\ i.op \notin Binops /\ i.op # "TASSIGN"
    BY <1>3 DEF InsOK, Binops, Relops, Arith
  <2>2. h = Need(g, i.r, {})
    BY <1>0, <1>3, <2>1 DEF GetReg
  <2>3. GenOK(h) /\ OneHolder(h) /\ h.reg[i.r] \in Registers
    BY <2>1, <2>2, GetRegOne
  <2> QED BY <1>0, <2>1, <2>3
<1> QED BY <1>1, <1>2, <1>3

-----------------------------------------------------------------------------
(* The end of a block and the end of an instruction. *)

\* gen_bb_loads keeps the order of the records' types; it is the last the block does
\* with the spare registers.
LEMMA StoreAtEndOK ==
  ASSUME SymbolsOK, CellsOK, NEW g, GenOK(g), NEW i \in Spare, NEW alive
  PROVE  GenOK(StoreAtEnd(g, i, alive))
<1>1. PICK s : s = g.spare[i]
  OBVIOUS
<1>2. CASE s = NoSymbol
  BY <1>1, <1>2 DEF StoreAtEnd
<1>3. CASE s # NoSymbol
  <2>1. s \in Symbols
    BY <1>1, <1>3 DEF GenOK, Generators
  <2>2. PICK e : e = IF ~ IsConst(s) /\ s \in alive THEN Emit(g, "ST", i, val[s], GP) ELSE g
    OBVIOUS
  <2>3. GenOK(e)
    <3>1. CASE ~ IsConst(s) /\ s \in alive
      <4>1. e = Emit(g, "ST", i, val[s], GP)
        BY <2>2, <3>1
      <4>2. val[s] \in Int /\ i \in Registers
        BY <3>1, SpareIs DEF CellsOK, IsConst
      <4>3. "ST" \in TmNames /\ "ST" \notin RegisterOnly /\ GP \in Registers
        BY EmitNames, SpareIs
      <4> QED BY <4>1, <4>2, <4>3, EmitOK
    <3>2. CASE ~ (~ IsConst(s) /\ s \in alive)
      BY <2>2, <3>2
    <3> QED BY <3>1, <3>2
  <2> DEFINE st == [e.state EXCEPT ![s] = "VS_INMEM"]  rg == [e.reg EXCEPT ![s] = NoRegister]
             d == WithState(e, st)
  <2>4. st \in [Symbols -> StateNames] /\ rg \in [Symbols -> Registers \cup {NoRegister}]
    BY <2>3 DEF GenOK, Generators, StateNames
  <2>5. StoreAtEnd(g, i, alive) = WithReg(d, rg)
    BY <1>1, <1>3, <2>2 DEF StoreAtEnd, WithReg, WithState
  <2> HIDE DEF st, rg
  <2>6. GenOK(d)
    BY <2>3, <2>4, StateSet
  <2> HIDE DEF d
  <2> QED BY <2>4, <2>5, <2>6, RegSet
<1> QED BY <1>2, <1>3

LEMMA BbLoadsOK ==
  ASSUME SymbolsOK, CellsOK, NEW g, GenOK(g), NEW alive
  PROVE  GenOK(BbLoads(g, alive))
<1>1. 3 \in Spare /\ 4 \in Spare /\ 5 \in Spare
  BY SpareIs
<1>2. PICK d : d = StoreAtEnd(g, 3, alive)
  OBVIOUS
<1>3. PICK e : e = StoreAtEnd(d, 4, alive)
  OBVIOUS
<1>4. GenOK(d)
  BY <1>1, <1>2, StoreAtEndOK
<1>5. GenOK(e)
  BY <1>1, <1>3, <1>4, StoreAtEndOK
<1>6. BbLoads(g, alive) = StoreAtEnd(e, 5, alive)
  BY <1>2, <1>3 DEF BbLoads
<1> QED BY <1>1, <1>5, <1>6, StoreAtEndOK

\* free_regs forgets a symbol and its register together.
LEMMA FreeRegsOK ==
  ASSUME SymbolsOK, NEW g, GenOK(g), NEW alive
  PROVE  /\ GenOK(FreeRegs(g, alive))
         /\ OneHolder(g) => OneHolder(FreeRegs(g, alive))
<1>1. PICK h : h = FreeRegs(g, alive)
  OBVIOUS
<1>2. g \in Generators /\ JumpsOK(g)
  BY DEF GenOK
<1> DEFINE drop == Dropped(g, alive)
           gone == {g.spare[i] : i \in drop}
           sp == [i \in Spare |-> IF i \in drop THEN NoSymbol ELSE g.spare[i]]
           rg == [s \in Symbols |-> IF s \in gone THEN NoRegister ELSE g.reg[s]]
           st == [s \in Symbols |-> IF s \in gone THEN "VS_INMEM" ELSE g.state[s]]
<1>3. /\ sp \in [Spare -> Symbols \cup {NoSymbol}]
      /\ rg \in [Symbols -> Registers \cup {NoRegister}]
      /\ st \in [Symbols -> StateNames]
  BY <1>2 DEF Generators, StateNames
<1>4. h = [[[g EXCEPT !.spare = sp] EXCEPT !.reg = rg] EXCEPT !.state = st]
  BY <1>1 DEF FreeRegs
<1>5. ASSUME OneHolder(g), NEW i \in Spare, sp[i] # NoSymbol
      PROVE  rg[sp[i]] = i
  <2>1. i \notin drop /\ sp[i] = g.spare[i] /\ g.spare[i] \in Symbols /\ g.reg[g.spare[i]] = i
    BY <1>2, <1>5 DEF OneHolder, Generators
  <2>2. g.spare[i] \notin gone
    <3> SUFFICES ASSUME NEW j \in drop, g.spare[j] = g.spare[i]
                 PROVE  FALSE
      OBVIOUS
    <3>1. j \in Spare /\ g.spare[j] # NoSymbol
      BY <2>1 DEF Dropped, SymbolsOK
    <3>2. j = i
      BY <1>5, <2>1, <3>1 DEF OneHolder
    <3> QED BY <2>1, <3>2
  <2> QED BY <2>1, <2>2
<1> HIDE DEF sp, rg, st
<1>6. PICK d : d = WithSpare(g, sp)
  OBVIOUS
<1>7. PICK e : e = WithReg(d, rg)
  OBVIOUS
<1>8. h = WithState(e, st)
  BY <1>4, <1>6, <1>7 DEF WithSpare, WithReg, WithState
<1>9. GenOK(d) /\ d.spare = sp
  BY <1>3, <1>6, SpareSet
<1>10. GenOK(e) /\ e.spare = sp /\ e.reg = rg
  BY <1>3, <1>7, <1>9, RegSet
<1>11. GenOK(h) /\ h.spare = sp /\ h.reg = rg
  BY <1>3, <1>8, <1>10, StateSet
<1>12. ASSUME OneHolder(g) PROVE OneHolder(h)
  BY <1>5, <1>11, <1>12 DEF OneHolder
<1> QED BY <1>1, <1>11, <1>12

-----------------------------------------------------------------------------
(* One instruction of the block. *)

\* What EmitOK says of one kind of instruction at a time.
LEMMA EmitRegisters ==
  ASSUME NEW g, GenOK(g), NEW op \in RegisterOnly,
         NEW r1 \in Registers, NEW r2 \in Registers, NEW r3 \in Registers
  PROVE  GenOK(Emit(g, op, r1, r2, r3)) /\ (OneHolder(g) => OneHolder(Emit(g, op, r1, r2, r3)))
<1>1. op \in TmNames /\ r2 \in Int
  BY DEF TmNames, Registers, PC
<1>2. PICK h : h = Emit(g, op, r1, r2, r3)
  OBVIOUS
<1>3. GenOK(h) /\ h.reg = g.reg /\ h.spare = g.spare
  BY <1>1, <1>2, EmitOK
<1> QED BY <1>2, <1>3 DEF OneHolder

LEMMA EmitConstant ==
  ASSUME NEW g, GenOK(g), NEW r1 \in Registers, NEW n \in Int
  PROVE  /\ GenOK(Emit(g, "LDC", r1, n, 0)) /\ Emit(g, "LDC", r1, n, 0).reg = g.reg
         /\ OneHolder(g) => OneHolder(Emit(g, "LDC", r1, n, 0))
<1>1. "LDC" \in TmNames /\ "LDC" \notin RegisterOnly
  BY EmitNames
<1>4. 0 \in Registers
  BY DEF Registers, PC
<1>2. PICK h : h = Emit(g, "LDC", r1, n, 0)
  OBVIOUS
<1>3. GenOK(h) /\ h.reg = g.reg /\ h.spare = g.spare
  BY <1>1, <1>2, <1>4, EmitOK
<1> QED BY <1>2, <1>3 DEF OneHolder

LEMMA EmitAbsOK ==
  ASSUME NEW g, GenOK(g), NEW a \in Int
  PROVE  /\ GenOK(EmitAbs(g, a))
         /\ Len(EmitAbs(g, a).tm) \in DOMAIN EmitAbs(g, a).tm
         /\ EmitAbs(g, a).tm[Len(EmitAbs(g, a).tm)].op \notin RegisterOnly
<1>1. "LDA" \in TmNames /\ "LDA" \notin RegisterOnly
  BY EmitNames
<1>2. g.tm \in Seq(TmLines)
  BY DEF GenOK, Generators
<1>9. Len(g.tm) \in Nat
  BY <1>2, LenProperties
<1>10. a - (Len(g.tm) + 1) \in Int
  BY <1>9
<1>3. PICK d \in Int : d = a - (Len(g.tm) + 1)
  BY <1>10, Zenon
<1>4. PICK h : h = Emit(g, "LDA", PC, d, PC)
  OBVIOUS
<1>5. EmitAbs(g, a) = h
  BY <1>3, <1>4 DEF EmitAbs
<1>6. GenOK(h) /\ Len(h.tm) = Len(g.tm) + 1 /\ h.tm[Len(h.tm)].op = "LDA"
  BY <1>1, <1>4, SpareIs, EmitOK
<1>7. h.tm \in Seq(TmLines)
  BY <1>6 DEF GenOK, Generators
<1>8. Len(h.tm) \in DOMAIN h.tm
  BY <1>2, <1>6, <1>7
<1> QED BY <1>1, <1>5, <1>6, <1>8

LEMMA BinopOK ==
  ASSUME SymbolsOK, CellsOK, NEW g, GenOK(g), OneHolder(g), NEW i, InsOK(i), i.op \in Binops
  PROVE  LET h == IF IsIncrement(i) THEN GenInc(g, i) ELSE BinopCode(g, i)
         IN  GenOK(h) /\ OneHolder(h)
<1>1. CASE IsIncrement(i)
  <2>1. i.r \in Symbols
    BY DEF InsOK
  <2>2. PICK h : h = Need(g, i.r, {})
    OBVIOUS
  <2>3. GenOK(h) /\ OneHolder(h) /\ h.reg[i.r] \in Registers
    BY <2>1, <2>2, GetRegOne
  <2>4. PICK op \in RegisterOnly : op = IF i.op = "TADD" THEN "INC" ELSE "DEC"
    BY DEF RegisterOnly
  <2>5. PICK r \in Registers : r = h.reg[i.r]
    BY <2>3
  <2>6. GenInc(g, i) = Emit(h, op, r, 0, 0)
    BY <2>2, <2>4, <2>5 DEF GenInc
  <2>7. 0 \in Registers
    BY DEF Registers, PC
  <2>8. GenOK(GenInc(g, i)) /\ OneHolder(GenInc(g, i))
    BY <2>3, <2>6, <2>7, EmitRegisters
  <2> QED BY <1>1, <2>8
<1>2. CASE ~ IsIncrement(i)
  <2>1. PICK h : h = GetReg(g, i)
    OBVIOUS
  <2>2. /\ GenOK(h) /\ OneHolder(h) /\ h.reg[i.r] \in Registers
        /\ h.reg[i.a1] \in Registers /\ h.reg[i.a2] \in Registers
    BY <2>1, GetRegOK
  <2>3. PICK op \in RegisterOnly : op = OpName(i.op)
    BY DEF OpName, RegisterOnly
  <2>4. PICK r1 \in Registers, r2 \in Registers, r3 \in Registers :
          r1 = h.reg[i.r] /\ r2 = h.reg[i.a1] /\ r3 = h.reg[i.a2]
    BY <2>2
  <2>5. BinopCode(g, i) = Emit(h, op, r1, r2, r3)
    BY <2>1, <2>3, <2>4 DEF BinopCode
  <2>6. GenOK(BinopCode(g, i)) /\ OneHolder(BinopCode(g, i))
    BY <2>2, <2>5, EmitRegisters
  <2> QED BY <1>2, <2>6
<1> QED BY <1>1, <1>2

LEMMA ReadWriteOK ==
  ASSUME SymbolsOK, CellsOK, NEW g, GenOK(g), OneHolder(g), NEW i, InsOK(i),
         i.op \in {"TIN", "TOUT"}, NEW op \in {"IN", "OUT"},
         NEW h, h = GetReg(g, i), NEW e, e = Emit(h, op, h.reg[i.r], 0, 0)
  PROVE  GenOK(e) /\ OneHolder(e)
<1>1. GenOK(h) /\ OneHolder(h) /\ h.reg[i.r] \in Registers
  BY GetRegOK
<1>2. PICK r \in Registers : r = h.reg[i.r]
  BY <1>1
<1>3. op \in RegisterOnly /\ 0 \in Registers
  BY DEF RegisterOnly, Registers, PC
<1>4. e = Emit(h, op, r, 0, 0)
  BY <1>2
<1> QED BY <1>1, <1>3, <1>4, EmitRegisters

LEMMA AssignOK ==
  ASSUME SymbolsOK, CellsOK, NEW g, GenOK(g), OneHolder(g), NEW i, InsOK(i), i.op = "TASSIGN"
  PROVE  GenOK(AssignCode(g, i)) /\ OneHolder(AssignCode(g, i))
<1>0. i.r \in Symbols /\ i.a1 \in Symbols
  BY DEF InsOK
<1>1. CASE i.r = i.a1
  BY <1>1 DEF AssignCode
<1>2. CASE i.r # i.a1 /\ IsConst(i.a1)
  <2>1. PICK r \in Symbols, p \in Symbols : r = i.r /\ p = i.a1
    BY <1>0
  <2>2. PICK h : h = Need(g, r, {p, p})
    OBVIOUS
  <2>3. GenOK(h) /\ OneHolder(h) /\ h.reg[r] \in Registers
    BY <2>2, NeedBeside
  <2>4. {p, p} = {i.a1}
    BY <2>1
  <2>5. i.a1 \in Int
    BY <1>0, <1>2 DEF SymbolsOK, Symbols, IsConst
  <2>6. PICK n \in Int, rg \in Registers : n = i.a1 /\ rg = h.reg[r]
    BY <2>3, <2>5
  <2>7. AssignCode(g, i) = Emit(h, "LDC", rg, n, 0)
    BY <1>2, <2>1, <2>2, <2>4, <2>6 DEF AssignCode
  <2> QED BY <2>3, <2>7, EmitConstant
<1>3. CASE i.r # i.a1 /\ ~ IsConst(i.a1)
  <2>1. PICK h : h = GetReg(g, i)
    OBVIOUS
  <2>2. GenOK(h) /\ OneHolder(h) /\ h.reg[i.r] \in Registers /\ h.reg[i.a1] \in Registers
    BY <2>1, GetRegOK
  <2>3. PICK r1 \in Registers, r2 \in Registers : r1 = h.reg[i.r] /\ r2 = h.reg[i.a1]
    BY <2>2
  <2>4. PICK e : e = Emit(h, "LDC", r1, 0, 0)
    OBVIOUS
  <2>5. GenOK(e) /\ OneHolder(e)
    BY <2>2, <2>4, EmitConstant
  <2>6. AssignCode(g, i) = Emit(e, "ADD", r1, r2, r1)
    BY <1>3, <2>1, <2>3, <2>4 DEF AssignCode
  <2>7. "ADD" \in RegisterOnly
    BY DEF RegisterOnly
  <2> QED BY <2>5, <2>6, <2>7, EmitRegisters
<1> QED BY <1>1, <1>2, <1>3

\* A jump that waits for its label: the last instruction, if that is a jump.
LEMMA AddJump ==
  ASSUME NEW g, GenOK(g), NEW j \in Waiting,
         j.tm # 0 => j.tm \in DOMAIN g.tm /\ g.tm[j.tm].op \notin RegisterOnly,
         NEW h, h = [g EXCEPT !.jmps = Append(@, j)]
  PROVE  GenOK(h) /\ (OneHolder(g) => OneHolder(h))
<1>1. g \in Generators /\ JumpsOK(g) /\ g.jmps \in Seq(Waiting)
  BY DEF GenOK, Generators
<1>2. PICK js : js = Append(g.jmps, j)
  OBVIOUS
<1>3. js \in Seq(Waiting)
  BY <1>1, <1>2
<1>4. \A n \in DOMAIN js : js[n] = j \/ (n \in DOMAIN g.jmps /\ js[n] = g.jmps[n])
  BY <1>1, <1>2
<1>5. h = [g EXCEPT !.jmps = js]
  BY <1>2
<1>6. /\ h \in Generators /\ h.jmps = js
      /\ h.tm = g.tm /\ h.reg = g.reg /\ h.spare = g.spare
  BY <1>1, <1>3, <1>5 DEF Generators
<1>7. JumpsOK(h)
  BY <1>1, <1>4, <1>6 DEF JumpsOK
<1> QED BY <1>6, <1>7 DEF GenOK, OneHolder

\* The jumps that wait for a label are found.
LEMMA KnownOK ==
  ASSUME NEW g, GenOK(g), NEW l, Known(g, l) # {}
  PROVE  /\ Lowest(Known(g, l)) \in DOMAIN g.jmps
         /\ g.jmps[Lowest(Known(g, l))] \in Waiting
<1>1. g.jmps \in Seq(Waiting)
  BY DEF GenOK, Generators
<1>2. Known(g, l) \in SUBSET DOMAIN g.jmps /\ DOMAIN g.jmps \in SUBSET Nat
  BY <1>1 DEF Known
<1>3. Lowest(Known(g, l)) \in Known(g, l)
  BY <1>2, LowestNat
<1> QED BY <1>1, <1>2, <1>3

LEMMA JmpOK ==
  ASSUME SymbolsOK, CellsOK, NEW g, GenOK(g), NEW i, InsOK(i), i.op = "TJMP", NEW alive
  PROVE  GenOK(Jmp(g, i, alive))
<1>1. CASE Known(g, i.r) # {}
  <2>1. PICK a \in Int : a = g.jmps[Lowest(Known(g, i.r))].loc
    BY <1>1, KnownOK DEF Waiting
  <2>2. Jmp(g, i, alive) = EmitAbs(g, a)
    BY <1>1, <2>1 DEF Jmp
  <2> QED BY <2>2, EmitAbsOK
<1>2. CASE Known(g, i.r) = {}
  <2>1. PICK e : e = BbLoads(g, alive)
    OBVIOUS
  <2>2. GenOK(e)
    BY <2>1, BbLoadsOK
  <2>3. PICK b : b = EmitAbs(e, 0)
    OBVIOUS
  <2>4. GenOK(b) /\ Len(b.tm) \in DOMAIN b.tm /\ b.tm[Len(b.tm)].op \notin RegisterOnly
    BY <2>2, <2>3, EmitAbsOK
  <2>5. PICK j : j = Pending(i.r, Len(b.tm))
    OBVIOUS
  <2>6. Len(b.tm) \in Nat
    BY <2>4, LenProperties DEF GenOK, Generators
  <2>7. j \in Waiting /\ j.tm = Len(b.tm)
    BY <2>5, <2>6 DEF InsOK, Pending, Waiting
  <2>8. Jmp(g, i, alive) = [b EXCEPT !.jmps = Append(@, j)]
    BY <1>2, <2>1, <2>3, <2>5 DEF Jmp
  <2> QED BY <2>4, <2>7, <2>8, AddJump
<1> QED BY <1>1, <1>2

\* Behind a comparison the jump is there to be patched.
LEMMA CondJmpOK ==
  ASSUME SymbolsOK, CellsOK, NEW g, GenOK(g), OneHolder(g), NEW i, InsOK(i), i.op = "TIFF",
         InsOK(prev), prev.op \in Relops, NEW alive
  PROVE  GenOK(CondJmp(g, i, alive))
<1>1. PICK h : h = GetReg(g, prev)
  OBVIOUS
<1>2. prev.op \in Binops
  BY DEF Binops
<1>3. /\ GenOK(h) /\ h.reg[prev.r] \in Registers
      /\ h.reg[prev.a1] \in Registers /\ h.reg[prev.a2] \in Registers
  BY <1>1, <1>2, GetRegOK
<1>4. PICK r1 \in Registers, r2 \in Registers, r3 \in Registers :
        r1 = h.reg[prev.r] /\ r2 = h.reg[prev.a1] /\ r3 = h.reg[prev.a2]
  BY <1>3
<1>5. PICK b : b = BbLoads(h, alive)
  OBVIOUS
<1>6. GenOK(b)
  BY <1>3, <1>5, BbLoadsOK
<1>7. JumpName(prev.op) \in TmNames /\ JumpName(prev.op) \notin RegisterOnly
  BY EmitNames DEF JumpName, Relops
<1>8. PICK op \in TmNames : op = JumpName(prev.op) /\ op \notin RegisterOnly
  BY <1>7
<1>9. PICK e : e = Emit(b, op, r1, r2, r3)
  OBVIOUS
<1>10. r2 \in Int
  BY DEF Registers, PC
<1>11. GenOK(e) /\ Len(e.tm) = Len(b.tm) + 1 /\ e.tm[Len(e.tm)].op = op
  BY <1>6, <1>8, <1>9, <1>10, EmitOK
<1>12. e.tm \in Seq(TmLines) /\ b.tm \in Seq(TmLines)
  BY <1>6, <1>11 DEF GenOK, Generators
<1>13. Len(e.tm) \in DOMAIN e.tm /\ Len(e.tm) \in Nat
  BY <1>11, <1>12
<1>14. PICK j : j = Pending(i.r, Len(e.tm))
  OBVIOUS
<1>15. j \in Waiting /\ j.tm = Len(e.tm)
  BY <1>13, <1>14 DEF InsOK, Pending, Waiting
<1>16. CondJmp(g, i, alive) = [e EXCEPT !.jmps = Append(@, j)]
  BY <1>1, <1>4, <1>5, <1>8, <1>9, <1>14 DEF CondJmp
<1> QED BY <1>8, <1>11, <1>13, <1>15, <1>16, AddJump

\* The patch of a jump is an offset, and its register the PC.
LEMMA LabelOK ==
  ASSUME SymbolsOK, NEW g, GenOK(g), OneHolder(g), NEW l \in Int
  PROVE  GenOK(LabelHere(g, l)) /\ OneHolder(LabelHere(g, l))
<1>1. /\ g \in Generators /\ JumpsOK(g) /\ g.tm \in Seq(TmLines) /\ Len(g.tm) \in Nat
  BY LenProperties DEF GenOK, Generators
<1>2. CASE Known(g, l) = {}
  <2>1. PICK j : j = [label |-> l, tm |-> 0, loc |-> Len(g.tm)]
    OBVIOUS
  <2>2. j \in Waiting /\ j.tm = 0
    BY <1>1, <2>1 DEF Waiting
  <2>3. LabelHere(g, l) = [g EXCEPT !.jmps = Append(@, j)]
    BY <1>2, <2>1 DEF LabelHere
  <2> QED BY <2>2, <2>3, AddJump
<1>3. CASE Known(g, l) # {}
  <2>1. PICK at : at = g.jmps[Lowest(Known(g, l))].tm
    OBVIOUS
  <2>2. at \in Nat
    BY <1>3, <2>1, KnownOK DEF Waiting
  <2>3. at # 0 => at \in DOMAIN g.tm /\ g.tm[at].op \notin RegisterOnly
    BY <1>1, <1>3, <2>1, KnownOK DEF JumpsOK
  <2>0. Offset(g, at) \in Int
    BY <1>1, <2>2 DEF Offset
  <2>4. PICK d \in Int : d = Offset(g, at)
    BY <2>0
  <2>5. LabelHere(g, l) = [g EXCEPT !.tm[at].a2 = d, !.tm[at].a3 = PC]
    BY <1>3, <2>1, <2>4 DEF LabelHere
  <2>6. PICK ts : ts = [[g.tm EXCEPT ![at].a2 = d] EXCEPT ![at].a3 = PC]
    OBVIOUS
  <2>7. LabelHere(g, l) = [g EXCEPT !.tm = ts]
    BY <2>5, <2>6
  <2>8. /\ ts \in Seq(TmLines) /\ DOMAIN ts = DOMAIN g.tm
        /\ \A n \in DOMAIN ts : ts[n].op = g.tm[n].op
    <3>1. CASE at \notin DOMAIN g.tm
      <4>1. PICK u : u = g.tm
        OBVIOUS
      <4>2. u \in [1 .. Len(u) -> TmLines] /\ u \in Seq(TmLines)
        BY <1>1, <4>1
      <4>3. ts \in [1 .. Len(u) -> TmLines] /\ \A n \in 1 .. Len(u) : ts[n] = u[n]
        BY <2>6, <3>1, <4>1, <4>2
      <4>4. ts = u
        BY <4>2, <4>3
      <4> QED BY <4>1, <4>2, <4>4
    <3>2. CASE at \in DOMAIN g.tm
      <4>1. PICK w : w = [g.tm[at] EXCEPT !.a2 = d, !.a3 = PC]
        OBVIOUS
      <4>2. g.tm[at] \in TmLines /\ g.tm[at].op \notin RegisterOnly
        BY <1>1, <2>3, <3>2
      <4>3. w \in TmLines /\ w.op = g.tm[at].op
        BY <4>1, <4>2, SpareIs DEF TmLines
      <4>4. ts = [g.tm EXCEPT ![at] = w]
        BY <2>6, <3>2, <4>1
      <4> QED BY <1>1, <3>2, <4>3, <4>4
    <3> QED BY <3>1, <3>2
  <2>9. PICK h : h = LabelHere(g, l)
    OBVIOUS
  <2>10. /\ h \in Generators /\ h.tm = ts
         /\ h.jmps = g.jmps /\ h.reg = g.reg /\ h.spare = g.spare
    BY <1>1, <2>7, <2>8, <2>9 DEF Generators
  <2>11. JumpsOK(h)
    BY <1>1, <2>8, <2>10 DEF JumpsOK
  <2> QED BY <2>9, <2>10, <2>11 DEF GenOK, OneHolder
<1> QED BY <1>2, <1>3

-----------------------------------------------------------------------------
(* The code generator on any list of blocks. *)

GivenInstrs == {i \in Instrs : InsOK(i)}
GivenBlocks == [ins : Seq(GivenInstrs), out : SUBSET Vars]

\* A block ends with its jump, and a TIFF stands right behind its comparison.
BlocksOK ==
    /\ blocks \in Seq(GivenBlocks)
    /\ \A b \in DOMAIN blocks : \A j \in DOMAIN blocks[b].ins :
         LET s == blocks[b].ins
         IN  /\ s[j].op \in {"TIFF", "TJMP"} => j = Len(s)
             /\ s[j].op = "TIFF" => j > 1 /\ s[j - 1].op \in Relops

\* What reg_alloc leaves in the symbols.
GenGiven ==
    /\ BlocksOK
    /\ CellsOK
    /\ reg \in [Symbols -> Registers \cup {NoRegister}]
    /\ state \in [Symbols -> StateNames]

GenSpec == GenGiven /\ GenInit /\ [][GenNext]_genVars

\* Where the generator is in the blocks.
PlaceOK ==
    /\ blk \in 0 .. Len(blocks)
    /\ inBlock => blk \in DOMAIN blocks /\ k \in 0 .. Len(blocks[blk].ins)
    /\ inBlock /\ loaded => k = Len(blocks[blk].ins)
    /\ ~ inBlock => ~ loaded
    /\ inBlock /\ k > 0 => prev = blocks[blk].ins[k]

Inv ==
    /\ BlocksOK
    /\ CellsOK
    /\ GenOK(Generator)
    /\ PlaceOK
    /\ inBlock /\ ~ loaded => OneHolder(Generator)

\* A record of the five is what they become.
LEMMA BecomesIs ==
  ASSUME NEW g, GenOK(g), Becomes(g)
  PROVE  Generator' = g
<1>1. g \in Generators
  BY DEF GenOK
<1> QED BY <1>1 DEF Becomes, Generator, Generators

\* The instruction a block is at.
LEMMA CurrentIs ==
  ASSUME Inv, NEW i \in Current
  PROVE  /\ inBlock /\ blk \in DOMAIN blocks /\ ~ loaded /\ InsOK(i)
         /\ k \in 0 .. Len(blocks[blk].ins) - 1
         /\ k + 1 \in DOMAIN blocks[blk].ins /\ i = blocks[blk].ins[k + 1]
         /\ i.op \in {"TIFF", "TJMP"} => k + 1 = Len(blocks[blk].ins)
         /\ i.op = "TIFF" => k > 0 /\ InsOK(prev) /\ prev.op \in Relops
         /\ GenOK(Generator) /\ OneHolder(Generator)
<1>1. inBlock /\ k < Len(blocks[blk].ins) /\ i = blocks[blk].ins[k + 1]
  BY DEF Current
<1>2. blk \in DOMAIN blocks /\ k \in 0 .. Len(blocks[blk].ins) /\ ~ loaded
  BY <1>1 DEF Inv, PlaceOK
<1>3. PICK s : s = blocks[blk].ins
  OBVIOUS
<1>4. s \in Seq(GivenInstrs) /\ Len(s) \in Nat
  <2>1. blocks[blk] \in GivenBlocks
    BY <1>2 DEF Inv, BlocksOK
  <2>2. s \in Seq(GivenInstrs)
    BY <1>3, <2>1 DEF GivenBlocks
  <2> QED BY <2>2, LenProperties
<1>5. k + 1 \in DOMAIN s /\ k \in 0 .. Len(s) - 1
  BY <1>1, <1>2, <1>3, <1>4
<1>6. InsOK(i)
  BY <1>1, <1>3, <1>4, <1>5 DEF GivenInstrs
<1>7. /\ i.op \in {"TIFF", "TJMP"} => k + 1 = Len(s)
      /\ i.op = "TIFF" => k + 1 > 1 /\ s[k + 1 - 1].op \in Relops
  BY <1>1, <1>2, <1>3, <1>5 DEF Inv, BlocksOK
<1>8. ASSUME i.op = "TIFF" PROVE k > 0 /\ InsOK(prev) /\ prev.op \in Relops
  <2>1. k > 0 /\ k \in DOMAIN s /\ k + 1 - 1 = k
    BY <1>4, <1>5, <1>7, <1>8
  <2>2. prev = s[k]
    BY <1>1, <1>3, <2>1 DEF Inv, PlaceOK
  <2> QED BY <1>4, <1>7, <1>8, <2>1, <2>2 DEF GivenInstrs
<1>9. GenOK(Generator) /\ OneHolder(Generator)
  BY <1>1, <1>2 DEF Inv
<1> QED BY <1>1, <1>2, <1>3, <1>5, <1>6, <1>7, <1>8, <1>9

\* One turn of the loop over the instructions keeps the invariant.
LEMMA InstructionKeeps ==
  ASSUME SymbolsOK, Inv, NEW i \in Current, NEW ops, NEW h, Instruction(i, ops, h), GenOK(h),
         i.op \notin {"TIFF", "TJMP"} => OneHolder(h)
  PROVE  Inv'
<1>1. PICK g : g = FreeRegs(h, outs[k + 1])
  OBVIOUS
<1>2. GenOK(g) /\ (OneHolder(h) => OneHolder(g))
  BY <1>1, FreeRegsOK
<1>3. Becomes(g)
  BY <1>1 DEF Instruction
<1>4. Generator' = g
  BY <1>2, <1>3, BecomesIs
<1>5. /\ inBlock /\ blk \in DOMAIN blocks /\ ~ loaded
      /\ k \in 0 .. Len(blocks[blk].ins) - 1
      /\ i = blocks[blk].ins[k + 1]
      /\ i.op \in {"TIFF", "TJMP"} => k + 1 = Len(blocks[blk].ins)
  BY CurrentIs
<1>6. /\ k' = k + 1 /\ prev' = i /\ loaded' = (loaded \/ i.op \in {"TIFF", "TJMP"})
      /\ UNCHANGED <<blocks, blk, inBlock, val>>
  BY DEF Instruction
<1>7. BlocksOK' /\ CellsOK'
  BY <1>6 DEF Inv, BlocksOK, CellsOK
<1>8. PlaceOK'
  <2>1. blk \in 0 .. Len(blocks)
    BY DEF Inv, PlaceOK
  <2>2. k' \in 0 .. Len(blocks[blk].ins) /\ k' > 0
    BY <1>5, <1>6
  <2> QED BY <1>5, <1>6, <2>1, <2>2 DEF PlaceOK
<1>9. GenOK(Generator') /\ (inBlock' /\ ~ loaded' => OneHolder(Generator'))
  BY <1>2, <1>4, <1>6
<1> QED BY <1>7, <1>8, <1>9 DEF Inv

LEMMA InitKeeps == ASSUME SymbolsOK, GenGiven, GenInit PROVE Inv
<1>1. PICK g : g = Generator
  OBVIOUS
<1>2. /\ g.reg \in [Symbols -> Registers \cup {NoRegister}] /\ g.state \in [Symbols -> StateNames]
      /\ g.spare \in [Spare -> Symbols \cup {NoSymbol}]
      /\ g.tm = << >> /\ g.jmps = << >>
  BY <1>1 DEF Generator, GenGiven, GenInit
<1>3. g.tm \in Seq(TmLines) /\ g.jmps \in Seq(Waiting) /\ DOMAIN g.jmps = {}
  BY <1>2
<1>4. g \in Generators
  BY <1>1, <1>2, <1>3 DEF Generator, Generators
<1>5. JumpsOK(g)
  BY <1>3 DEF JumpsOK
<1>6. Len(blocks) \in Nat
  BY LenProperties DEF GenGiven, BlocksOK
<1> QED BY <1>1, <1>4, <1>5, <1>6 DEF Inv, GenOK, GenGiven, GenInit, PlaceOK

LEMMA BeginKeeps == ASSUME SymbolsOK, Inv, BeginBlock PROVE Inv'
<1>1. /\ blk' = blk + 1 /\ k' = 0 /\ inBlock' = TRUE /\ spare' = [i \in Spare |-> NoSymbol]
      /\ UNCHANGED <<blocks, reg, state, val, tm, jmps, loaded>>
      /\ ~ inBlock /\ blk < Len(blocks)
  BY DEF BeginBlock
<1>2. BlocksOK' /\ CellsOK'
  BY <1>1 DEF Inv, BlocksOK, CellsOK
<1>3. PICK sp : sp = [i \in Spare |-> NoSymbol]
  OBVIOUS
<1>4. PICK h : h = WithSpare(Generator, sp)
  OBVIOUS
<1>5. Generator' = h
  BY <1>1, <1>3, <1>4 DEF Generator, WithSpare
<1>6. sp \in [Spare -> Symbols \cup {NoSymbol}] /\ GenOK(Generator)
  BY <1>3 DEF Inv
<1>7. GenOK(h) /\ h.spare = sp
  BY <1>4, <1>6, SpareSet
<1>8. OneHolder(h)
  BY <1>3, <1>7 DEF OneHolder
<1>9. PlaceOK'
  <2>1. blk \in 0 .. Len(blocks) /\ ~ loaded /\ blocks \in Seq(GivenBlocks)
    BY <1>1 DEF Inv, PlaceOK, BlocksOK
  <2>2. blk + 1 \in DOMAIN blocks /\ blk + 1 \in 0 .. Len(blocks)
    BY <1>1, <2>1
  <2>3. blocks[blk + 1] \in GivenBlocks
    BY <2>1, <2>2
  <2>4. Len(blocks[blk + 1].ins) \in Nat
    BY <2>3, LenProperties DEF GivenBlocks
  <2> QED BY <1>1, <2>1, <2>2, <2>4 DEF PlaceOK
<1>10. GenOK(Generator') /\ OneHolder(Generator')
  BY <1>5, <1>7, <1>8
<1> QED BY <1>2, <1>9, <1>10 DEF Inv

LEMMA BinopKeeps == ASSUME SymbolsOK, Inv, GenBinop PROVE Inv'
<1>1. PICK i \in Current :
        Instruction(i, Binops, IF IsIncrement(i) THEN GenInc(Generator, i) ELSE BinopCode(Generator, i))
  BY DEF GenBinop
<1>2. PICK g : g = Generator
  OBVIOUS
<1>3. PICK h : h = IF IsIncrement(i) THEN GenInc(g, i) ELSE BinopCode(g, i)
  OBVIOUS
<1>4. Instruction(i, Binops, h)
  BY <1>1, <1>2, <1>3
<1>5. i.op \in Binops
  BY <1>4 DEF Instruction
<1>6. GenOK(g) /\ OneHolder(g) /\ InsOK(i) /\ CellsOK
  BY <1>2, CurrentIs DEF Inv
<1>7. GenOK(h) /\ OneHolder(h)
  BY <1>3, <1>5, <1>6, BinopOK
<1> QED BY <1>4, <1>7, InstructionKeeps

LEMMA InputKeeps == ASSUME SymbolsOK, Inv, GenInput PROVE Inv'
<1>1. PICK i \in Current : Instruction(i, {"TIN"},
        LET h == GetReg(Generator, i) IN Emit(h, "IN", h.reg[i.r], 0, 0))
  BY DEF GenInput
<1>2. PICK g : g = Generator
  OBVIOUS
<1>3. PICK h : h = GetReg(g, i)
  OBVIOUS
<1>4. PICK e : e = Emit(h, "IN", h.reg[i.r], 0, 0)
  OBVIOUS
<1>5. Instruction(i, {"TIN"}, e)
  BY <1>1, <1>2, <1>3, <1>4
<1>6. i.op = "TIN"
  BY <1>5 DEF Instruction
<1>7. GenOK(g) /\ OneHolder(g) /\ InsOK(i) /\ CellsOK
  BY <1>2, CurrentIs DEF Inv
<1>8. GenOK(e) /\ OneHolder(e)
  BY <1>3, <1>4, <1>6, <1>7, ReadWriteOK
<1> QED BY <1>5, <1>8, InstructionKeeps

LEMMA OutputKeeps == ASSUME SymbolsOK, Inv, GenOutput PROVE Inv'
<1>1. PICK i \in Current : Instruction(i, {"TOUT"},
        LET h == GetReg(Generator, i) IN Emit(h, "OUT", h.reg[i.r], 0, 0))
  BY DEF GenOutput
<1>2. PICK g : g = Generator
  OBVIOUS
<1>3. PICK h : h = GetReg(g, i)
  OBVIOUS
<1>4. PICK e : e = Emit(h, "OUT", h.reg[i.r], 0, 0)
  OBVIOUS
<1>5. Instruction(i, {"TOUT"}, e)
  BY <1>1, <1>2, <1>3, <1>4
<1>6. i.op = "TOUT"
  BY <1>5 DEF Instruction
<1>7. GenOK(g) /\ OneHolder(g) /\ InsOK(i) /\ CellsOK
  BY <1>2, CurrentIs DEF Inv
<1>8. GenOK(e) /\ OneHolder(e)
  BY <1>3, <1>4, <1>6, <1>7, ReadWriteOK
<1> QED BY <1>5, <1>8, InstructionKeeps

LEMMA BranchKeeps == ASSUME SymbolsOK, Inv, GenBranch PROVE Inv'
<1>1. PICK i \in Current : Instruction(i, {"TIFF"}, CondJmp(Generator, i, BlockOut))
  BY DEF GenBranch
<1>2. PICK g : g = Generator
  OBVIOUS
<1>3. PICK alive : alive = BlockOut
  OBVIOUS
<1>4. PICK h : h = CondJmp(g, i, alive)
  OBVIOUS
<1>5. Instruction(i, {"TIFF"}, h)
  BY <1>1, <1>2, <1>3, <1>4
<1>6. i.op = "TIFF"
  BY <1>5 DEF Instruction
<1>7. GenOK(g) /\ OneHolder(g) /\ InsOK(i) /\ InsOK(prev) /\ prev.op \in Relops /\ CellsOK
  BY <1>2, <1>6, CurrentIs DEF Inv
<1>8. GenOK(h)
  BY <1>4, <1>6, <1>7, CondJmpOK
<1> QED BY <1>5, <1>6, <1>8, InstructionKeeps

LEMMA AssignKeeps == ASSUME SymbolsOK, Inv, GenAssign PROVE Inv'
<1>1. PICK i \in Current : Instruction(i, {"TASSIGN"}, AssignCode(Generator, i))
  BY DEF GenAssign
<1>2. PICK g : g = Generator
  OBVIOUS
<1>3. PICK h : h = AssignCode(g, i)
  OBVIOUS
<1>4. Instruction(i, {"TASSIGN"}, h)
  BY <1>1, <1>2, <1>3
<1>5. i.op = "TASSIGN"
  BY <1>4 DEF Instruction
<1>6. GenOK(g) /\ OneHolder(g) /\ InsOK(i) /\ CellsOK
  BY <1>2, CurrentIs DEF Inv
<1>7. GenOK(h) /\ OneHolder(h)
  BY <1>3, <1>5, <1>6, AssignOK
<1> QED BY <1>4, <1>7, InstructionKeeps

LEMMA JumpKeeps == ASSUME SymbolsOK, Inv, GenJump PROVE Inv'
<1>1. PICK i \in Current : Instruction(i, {"TJMP"}, Jmp(Generator, i, BlockOut))
  BY DEF GenJump
<1>2. PICK g : g = Generator
  OBVIOUS
<1>3. PICK alive : alive = BlockOut
  OBVIOUS
<1>4. PICK h : h = Jmp(g, i, alive)
  OBVIOUS
<1>5. Instruction(i, {"TJMP"}, h)
  BY <1>1, <1>2, <1>3, <1>4
<1>6. i.op = "TJMP"
  BY <1>5 DEF Instruction
<1>7. GenOK(g) /\ InsOK(i) /\ CellsOK
  BY <1>2, CurrentIs DEF Inv
<1>8. GenOK(h)
  BY <1>4, <1>6, <1>7, JmpOK
<1> QED BY <1>5, <1>6, <1>8, InstructionKeeps

LEMMA LabelKeeps == ASSUME SymbolsOK, Inv, GenLabel PROVE Inv'
<1>1. PICK i \in Current : Instruction(i, {"TLABEL"}, LabelHere(Generator, i.r))
  BY DEF GenLabel
<1>2. PICK g : g = Generator
  OBVIOUS
<1>3. InsOK(i) /\ GenOK(g) /\ OneHolder(g)
  BY <1>2, CurrentIs
<1>4. i.op = "TLABEL"
  BY <1>1 DEF Instruction
<1>5. PICK l \in Int : l = i.r
  BY <1>3, <1>4 DEF InsOK
<1>6. PICK h : h = LabelHere(g, l)
  OBVIOUS
<1>7. Instruction(i, {"TLABEL"}, h)
  BY <1>1, <1>2, <1>5, <1>6
<1>8. GenOK(h) /\ OneHolder(h)
  BY <1>3, <1>6, LabelOK
<1> QED BY <1>7, <1>8, InstructionKeeps

LEMMA EndBlockKeeps == ASSUME SymbolsOK, Inv, EndBlock PROVE Inv'
<1>1. PICK g : g = Generator
  OBVIOUS
<1>2. PICK h : h = IF loaded THEN g ELSE BbLoads(g, BlockOut)
  OBVIOUS
<1>3. /\ inBlock' = FALSE /\ loaded' = FALSE /\ Becomes(h)
      /\ UNCHANGED <<blocks, blk, k, val, prev>>
  BY <1>1, <1>2 DEF EndBlock
<1>4. GenOK(g) /\ CellsOK
  BY <1>1 DEF Inv
<1>5. GenOK(h)
  BY <1>2, <1>4, BbLoadsOK
<1>6. Generator' = h
  BY <1>3, <1>5, BecomesIs
<1>7. BlocksOK' /\ CellsOK'
  BY <1>3 DEF Inv, BlocksOK, CellsOK
<1>8. PlaceOK'
  BY <1>3 DEF Inv, PlaceOK
<1>9. GenOK(Generator') /\ ~ inBlock'
  BY <1>3, <1>5, <1>6
<1> QED BY <1>7, <1>8, <1>9 DEF Inv

LEMMA EndKeeps == ASSUME SymbolsOK, Inv, GenEnd PROVE Inv'
<1>1. PICK g : g = Generator
  OBVIOUS
<1>2. PICK h : h = Emit(g, "HALT", 0, 0, 0)
  OBVIOUS
<1>3. /\ Becomes(h) /\ ~ inBlock
      /\ UNCHANGED <<blocks, blk, k, inBlock, val, prev, loaded>>
  BY <1>1, <1>2 DEF GenEnd
<1>4. GenOK(g) /\ "HALT" \in RegisterOnly /\ 0 \in Registers
  BY <1>1 DEF Inv, RegisterOnly, Registers, PC
<1>5. GenOK(h)
  BY <1>2, <1>4, EmitRegisters
<1>6. Generator' = h
  BY <1>3, <1>5, BecomesIs
<1>7. BlocksOK' /\ CellsOK'
  BY <1>3 DEF Inv, BlocksOK, CellsOK
<1>8. PlaceOK'
  BY <1>3 DEF Inv, PlaceOK
<1>9. GenOK(Generator') /\ ~ inBlock'
  BY <1>3, <1>5, <1>6
<1> QED BY <1>7, <1>8, <1>9 DEF Inv

LEMMA StutterKeeps == ASSUME Inv, UNCHANGED genVars PROVE Inv'
<1>1. Generator' = Generator
  BY DEF genVars, Generator
<1>2. BlocksOK' /\ CellsOK' /\ PlaceOK'
  BY DEF genVars, Inv, BlocksOK, CellsOK, PlaceOK
<1> QED BY <1>1, <1>2 DEF Inv, genVars

LEMMA Inductive == ASSUME SymbolsOK PROVE GenSpec => []Inv
<1>1. GenGiven /\ GenInit => Inv
  BY InitKeeps
<1>2. Inv /\ [GenNext]_genVars => Inv'
  BY BeginKeeps, BinopKeeps, InputKeeps, OutputKeeps, BranchKeeps, AssignKeeps, JumpKeeps,
     LabelKeeps, EndBlockKeeps, EndKeeps, StutterKeeps DEF GenNext
<1> QED BY <1>1, <1>2, PTL DEF GenSpec

\* Lines of the machine's types name its registers.
LEMMA InvNamesRegisters == Inv => RegistersNamed
<1> SUFFICES ASSUME Inv, NEW j \in DOMAIN tm
             PROVE  /\ tm[j].a1 \in 0 .. PC /\ tm[j].a3 \in 0 .. PC
                    /\ tm[j].op \in RegisterOnly => tm[j].a2 \in 0 .. PC
  BY DEF RegistersNamed
<1>1. tm \in Seq(TmLines)
  BY DEF Inv, GenOK, Generators, Generator
<1>2. tm[j] \in TmLines
  BY <1>1
<1> QED BY <1>2 DEF TmLines, Registers

-----------------------------------------------------------------------------
\* Whatever the blocks, the symbols and the registers reg_alloc has given, every
\* instruction gencode has written names registers of the machine: get_reg always
\* finds a spare register for an operand (gen.c:154), and a label patches a jump.
THEOREM RegistersAreNamed == ASSUME SymbolsOK PROVE GenSpec => []RegistersNamed
BY InvNamesRegisters, Inductive, PTL

\* Until the block's jump or end, no two spare registers hold the same symbol and each
\* one's symbol has it as its register: find_reg and free_regs keep the two records
\* in step (gen.c:46-151).
HoldersKnown == inBlock /\ ~ loaded => OneHolder(Generator)

THEOREM HoldersAreKnown == ASSUME SymbolsOK PROVE GenSpec => []HoldersKnown
<1>1. Inv => HoldersKnown
  BY DEF Inv, HoldersKnown
<1> QED BY <1>1, Inductive, PTL

-----------------------------------------------------------------------------
(* Where the code generator and the machine meet: the jump gen_cond_jmp      *)
(* writes for a comparison, executed on the difference that gen_binop has    *)
(* put into its register, for all values whose difference fits a word.       *)

\* An ordered test's jump over the code it guards is taken exactly when the test
\* fails (gen.c:294-308, against tm.c's stepTM).
THEOREM OrderedJumps ==
  ASSUME NEW op \in {"TLT", "TGT", "TLE", "TGE"}, NEW a \in Int, NEW b \in Int
  PROVE  Machine!Taken(JumpName(op), a - b) <=> ~ Holds(op, a, b)
<1>0. PICK n \in Int : n = a - b
  OBVIOUS
<1>1. CASE op = "TLT"
  <2>1. Machine!Taken(JumpName(op), n) <=> n >= 0
    BY <1>1 DEF JumpName, Machine!Taken
  <2>2. Holds(op, a, b) <=> a < b
    BY <1>1 DEF Holds
  <2> QED BY <1>0, <2>1, <2>2
<1>2. CASE op = "TGT"
  <2>1. Machine!Taken(JumpName(op), n) <=> n <= 0
    BY <1>2 DEF JumpName, Machine!Taken
  <2>2. Holds(op, a, b) <=> a > b
    BY <1>2 DEF Holds
  <2> QED BY <1>0, <2>1, <2>2
<1>3. CASE op = "TLE"
  <2>1. Machine!Taken(JumpName(op), n) <=> n > 0
    BY <1>3 DEF JumpName, Machine!Taken
  <2>2. Holds(op, a, b) <=> a <= b
    BY <1>3 DEF Holds
  <2> QED BY <1>0, <2>1, <2>2
<1>4. CASE op = "TGE"
  <2>1. Machine!Taken(JumpName(op), n) <=> n < 0
    BY <1>4 DEF JumpName, Machine!Taken
  <2>2. Holds(op, a, b) <=> a >= b
    BY <1>4 DEF Holds
  <2> QED BY <1>0, <2>1, <2>2
<1> QED BY <1>0, <1>1, <1>2, <1>3, <1>4

\* That of an equality test is taken exactly when it holds: the guarded code runs when
\* it should not (gen.c:286-292).
THEOREM EqualityJumps ==
  ASSUME NEW op \in {"TEQ", "TNEQ"}, NEW a \in Int, NEW b \in Int
  PROVE  Machine!Taken(JumpName(op), a - b) <=> Holds(op, a, b)
<1>0. PICK n \in Int : n = a - b
  OBVIOUS
<1>1. CASE op = "TEQ"
  <2>1. Machine!Taken(JumpName(op), n) <=> n = 0
    BY <1>1 DEF JumpName, Machine!Taken
  <2>2. Holds(op, a, b) <=> a = b
    BY <1>1 DEF Holds
  <2> QED BY <1>0, <2>1, <2>2
<1>2. CASE op = "TNEQ"
  <2>1. Machine!Taken(JumpName(op), n) <=> n # 0
    BY <1>2 DEF JumpName, Machine!Taken
  <2>2. Holds(op, a, b) <=> a # b
    BY <1>2 DEF Holds
  <2> QED BY <1>0, <2>1, <2>2
<1> QED BY <1>0, <1>1, <1>2

-----------------------------------------------------------------------------
(* The whole compiler.  What is proved of bb_build and lva (B) and of          *)
(* reg_alloc (R) holds of their steps here: the two modules' definitions and    *)
(* those the compiler composes are the same ones.                              *)

B == INSTANCE BasicBlocksProofs
R == INSTANCE RegAllocProofs WITH phase <- raPhase, todo <- raTodo, reg <- ireg,
                                  val <- cell, state <- raState

\* The three modules read the same instructions ...
LEMMA SameInstrs == B!Instrs = Instrs /\ R!Instrs = Instrs
BY DEF B!Instrs, Instrs, B!Ops, Ops, B!Binops, Binops, B!Relops, Relops, B!Arith, Arith,
   B!Operands, Operands, R!Instrs, R!Ops, R!Binops, R!Relops, R!Arith, R!Operands

\* ... and find the same blocks.
LEMMA SameBlocks ==
  ASSUME NEW cd
  PROVE  /\ FrontEnd!Blocks(cd) = B!Blocks(cd)
         /\ FrontEnd!WellFormed(cd) <=> B!WellFormed(cd)
BY DEF FrontEnd!Blocks, B!Blocks, FrontEnd!Leaders, B!Leaders, FrontEnd!WellFormed, B!WellFormed

\* What B and R assume of their constants.
LEMMA Given ==
  /\ Programs \subseteq Seq(B!Instrs) /\ \A p \in Programs : B!WellFormed(p)
  /\ MaxPredecessors \in Nat \ {0}
  /\ Programs \subseteq Seq(R!Instrs)
  /\ RegisterCount \in Nat \ {0}
BY SameInstrs, SameBlocks, ProgramsAssumption, BoundsAssumption

\* bb_build here is that of B.
LEMMA BuildBridge ==
  /\ FrontEnd!Init => B!Init
  /\ FrontEnd!Next => B!Next
  /\ FrontEnd!NoShift <=> B!NoShift
  /\ FrontEnd!Flow = B!Flow
<1>1. \A S : FrontEnd!FirstIn(S) = B!FirstIn(S)
  BY DEF FrontEnd!FirstIn, B!FirstIn
<1>2. \A cd, l : FrontEnd!WithId(cd, l) = B!WithId(cd, l)
  BY SameBlocks DEF FrontEnd!WithId, B!WithId, FrontEnd!IdOf, B!IdOf
<1>3. \A cd, b : FrontEnd!Behind(cd, b) = B!Behind(cd, b)
  BY SameBlocks DEF FrontEnd!Behind, B!Behind
<1>4. \A pr, b, p : FrontEnd!WithPred(pr, b, p) = B!WithPred(pr, b, p)
  BY DEF FrontEnd!WithPred, B!WithPred
<1>5. FrontEnd!NoBlock = B!NoBlock
  BY DEF FrontEnd!NoBlock, B!NoBlock
<1>6. FrontEnd!Init => B!Init
  BY <1>5, SameBlocks DEF FrontEnd!Init, B!Init
<1>7. FrontEnd!PlaceFirst => B!PlaceFirst
  BY DEF FrontEnd!PlaceFirst, B!PlaceFirst, FrontEnd!Push, B!Push
<1>8. FrontEnd!PlacePlain => B!PlacePlain
  BY DEF FrontEnd!PlacePlain, B!PlacePlain, FrontEnd!Push, B!Push
<1>9. FrontEnd!PlaceLabel => B!PlaceLabel
  BY <1>1, <1>2, <1>4 DEF FrontEnd!PlaceLabel, B!PlaceLabel, FrontEnd!Push, B!Push
<1>10. FrontEnd!PlaceJump => B!PlaceJump
  BY <1>1, <1>2, <1>3, <1>4, <1>5 DEF FrontEnd!PlaceJump, B!PlaceJump, FrontEnd!Push, B!Push
<1>11. FrontEnd!PlaceBranch => B!PlaceBranch
  BY <1>1, <1>2, <1>3, <1>4 DEF FrontEnd!PlaceBranch, B!PlaceBranch, FrontEnd!Push, B!Push
<1>12. FrontEnd!Next => B!Next
  BY <1>7, <1>8, <1>9, <1>10, <1>11 DEF FrontEnd!Next, B!Next
<1>13. FrontEnd!NoShift <=> B!NoShift
  BY DEF FrontEnd!NoShift, B!NoShift
<1>14. FrontEnd!Flow = B!Flow
  BY SameBlocks DEF FrontEnd!Flow, B!Flow
<1> QED BY <1>6, <1>12, <1>13, <1>14

\* So is lva on the blocks it has built.
LEMMA LvaBridge ==
  /\ FrontEnd!Lva!Begin => B!Lva!Begin
  /\ FrontEnd!Lva!Next => B!Lva!Next
<1>0. FrontEnd!Flow = B!Flow /\ FrontEnd!Flow' = B!Flow'
  BY SameBlocks DEF FrontEnd!Flow, B!Flow
<1>1. FrontEnd!Lva!AllEmpty = B!Lva!AllEmpty
  BY <1>0 DEF FrontEnd!Lva!AllEmpty, B!Lva!AllEmpty
<1>2. \A i : FrontEnd!Lva!Uses(i) = B!Lva!Uses(i) /\ FrontEnd!Lva!Defs(i) = B!Lva!Defs(i)
  BY DEF FrontEnd!Lva!Uses, B!Lva!Uses, FrontEnd!Lva!Defs, B!Lva!Defs, FrontEnd!Lva!Binops, B!Lva!Binops,
    FrontEnd!Lva!Relops, B!Lva!Relops, FrontEnd!Lva!Arith, B!Lva!Arith
<1>3. \A s : FrontEnd!Lva!Written(s) = B!Lva!Written(s)
  BY <1>2 DEF FrontEnd!Lva!Written, B!Lva!Written
<1>4. \A s : FrontEnd!Lva!ReadFirst(s) = B!Lva!ReadFirst(s)
  BY <1>2 DEF FrontEnd!Lva!ReadFirst, B!Lva!ReadFirst
<1>5. \A g, b : FrontEnd!Lva!SuccsIn(g, b) = B!Lva!SuccsIn(g, b)
  BY DEF FrontEnd!Lva!SuccsIn, B!Lva!SuccsIn, FrontEnd!Lva!NoBlock, B!Lva!NoBlock
<1>6. FrontEnd!Lva!Begin => B!Lva!Begin
  BY <1>1 DEF FrontEnd!Lva!Begin, B!Lva!Begin
<1>7. FrontEnd!Lva!LvaInit => B!Lva!LvaInit
  BY <1>0, <1>1 DEF FrontEnd!Lva!LvaInit, B!Lva!LvaInit
<1>8. FrontEnd!Lva!DefUse => B!Lva!DefUse
  BY <1>0, <1>3, <1>4 DEF FrontEnd!Lva!DefUse, B!Lva!DefUse
<1>9. FrontEnd!Lva!StartWalk => B!Lva!StartWalk
  BY <1>0 DEF FrontEnd!Lva!StartWalk, B!Lva!StartWalk
<1>10. FrontEnd!Lva!VisitBlock => B!Lva!VisitBlock
  BY <1>0, <1>5 DEF FrontEnd!Lva!VisitBlock, B!Lva!VisitBlock, FrontEnd!Lva!Transfer, B!Lva!Transfer,
    FrontEnd!Lva!Join, B!Lva!Join, FrontEnd!Lva!Changes, B!Lva!Changes
<1>11. FrontEnd!Lva!Finish => B!Lva!Finish
  BY <1>0 DEF FrontEnd!Lva!Finish, B!Lva!Finish
<1>12. FrontEnd!Lva!Next => B!Lva!Next
  BY <1>7, <1>8, <1>9, <1>10, <1>11 DEF FrontEnd!Lva!Next, B!Lva!Next
<1> QED BY <1>6, <1>12

\* The two together.
LEMMA AnalysisBridge ==
  /\ FrontEnd!AnalysisInit => B!AnalysisInit
  /\ FrontEnd!AnalysisNext => B!AnalysisNext
BY BuildBridge, LvaBridge DEF FrontEnd!AnalysisInit, B!AnalysisInit, FrontEnd!AnalysisNext, B!AnalysisNext,
  FrontEnd!Build, B!Build, FrontEnd!Analyse, B!Analyse, FrontEnd!lvaVars, B!lvaVars, FrontEnd!vars, B!vars

\* reg_alloc here is that of R.
LEMMA RaBridge ==
  /\ Ra!Init => R!Init
  /\ Ra!Next => R!Next
BY DEF Ra!Init, R!Init, Ra!Next, R!Next,
   Ra!Intervals, Ra!UnusedVars, Ra!FillIntervalList, Ra!InitRegs, Ra!LinScan, Ra!ScanEnd, 
   Ra!PlaceInMemory, Ra!PlaceInRegister, Ra!PlaceEnd,
   R!Intervals, R!UnusedVars, R!FillIntervalList, R!InitRegs, R!LinScan, R!ScanEnd, 
   R!PlaceInMemory, R!PlaceInRegister, R!PlaceEnd,
   Ra!NoRegister, R!NoRegister, Ra!Uses, R!Uses, Ra!Defs, R!Defs, Ra!Binops, R!Binops, Ra!Relops, R!Relops, Ra!Arith, R!Arith,
   Ra!InsertionPoint, R!InsertionPoint, Ra!InsertAfter, R!InsertAfter, Ra!ExpirePoint, R!ExpirePoint,
   Ra!FreeAfter, R!FreeAfter, Ra!ActiveAfter, R!ActiveAfter, Ra!AddActive, R!AddActive,
   Ra!LinAssign, R!LinAssign, Ra!LinSpillLast, R!LinSpillLast, Ra!LinSpillSelf, R!LinSpillSelf


-----------------------------------------------------------------------------
\* The passes in front of gencode keep what is proved of each of them.
PassesInv ==
    /\ code \in Programs
    /\ B!Placed /\ B!EdgeInv /\ B!Joined
    /\ R!IInv
    /\ raPhase = "done" => phase = "done"

\* Nothing has been built yet.
LEMMA PassesInit == Init => PassesInv
<1> SUFFICES ASSUME Init PROVE PassesInv
  OBVIOUS
<1>1. B!AnalysisInit /\ R!Init
  BY AnalysisBridge, RaBridge DEF Init
<1>2. B!Init
  BY <1>1 DEF B!AnalysisInit
<1>3. B!Placed /\ B!EdgeInv /\ B!Joined
  BY <1>1, <1>2, Given, B!PlacedInit, B!EdgesInit, B!JoinedInit
<1>4. R!IInv
  BY <1>1, Given, R!InitInv
<1>5. code \in Programs /\ raPhase # "done"
  BY <1>1, <1>2 DEF B!Init, R!Init
<1> QED BY <1>3, <1>4, <1>5 DEF PassesInv

\* A pass keeps its invariant; what comes behind leaves it alone.
LEMMA PassesNext == PassesInv /\ [Next]_vars => PassesInv'
<1> SUFFICES ASSUME PassesInv, [Next]_vars PROVE PassesInv'
  OBVIOUS
<1>1. CASE BuildAndAnalyse
  <2>1. B!AnalysisNext /\ UNCHANGED allocVars
    BY <1>1, AnalysisBridge DEF BuildAndAnalyse
  <2>2. [B!AnalysisNext]_(B!analysisVars)
    BY <2>1
  <2>3. B!Placed' /\ B!EdgeInv' /\ B!Joined'
    BY <2>2, Given, B!BuildIsNext, B!PlacedNext, B!EdgesNext, B!JoinedNext DEF PassesInv
  <2>4. code' = code
    BY <2>1 DEF B!AnalysisNext, B!Build, B!Analyse, B!vars, B!Next, B!PlaceFirst, B!PlaceLabel,
      B!PlaceJump, B!PlaceBranch, B!PlacePlain
  <2>5. UNCHANGED R!vars
    BY <2>1, <2>4 DEF allocVars, R!vars
  <2>6. R!IInv'
    BY <2>5, Given, R!NextInv DEF PassesInv
  <2>7. phase = "done" => phase' = "done"
    BY <2>1 DEF B!AnalysisNext, B!Build, B!Analyse, B!lvaVars, B!Lva!Next, B!Lva!LvaInit, B!Lva!DefUse,
      B!Lva!StartWalk, B!Lva!VisitBlock, B!Lva!Finish
  <2>8. raPhase' = raPhase
    BY <2>1 DEF allocVars
  <2> QED BY <2>3, <2>4, <2>6, <2>7, <2>8 DEF PassesInv
<1>2. ASSUME UNCHANGED frontVars, R!Next \/ UNCHANGED allocVars, phase = "done" \/ UNCHANGED allocVars
      PROVE  PassesInv'
  <2>1. UNCHANGED B!analysisVars
    BY <1>2 DEF frontVars, B!analysisVars, B!vars, B!lvaVars
  <2>2. B!Placed' /\ B!EdgeInv' /\ B!Joined'
    BY <2>1, Given, B!BuildIsNext, B!PlacedNext, B!EdgesNext, B!JoinedNext DEF PassesInv
  <2>3. code' = code /\ phase' = phase
    BY <1>2 DEF frontVars
  <2>4. [R!Next]_(R!vars)
    BY <1>2, <2>3 DEF allocVars, R!vars
  <2>5. R!IInv'
    BY <2>4, Given, R!NextInv DEF PassesInv
  <2>6. UNCHANGED allocVars => raPhase' = raPhase
    BY DEF allocVars
  <2> QED BY <1>2, <2>2, <2>3, <2>5, <2>6 DEF PassesInv
<1>3. CASE Allocate
  BY <1>2, <1>3, RaBridge DEF Allocate
<1>4. CASE HandOver \/ Generate \/ WriteFile \/ Read \/ Run \/ UNCHANGED vars
  <2>1. UNCHANGED <<frontVars, allocVars>>
    BY <1>4 DEF HandOver, Generate, WriteFile, Read, Run, vars
  <2> QED BY <1>2, <2>1
<1> QED BY <1>1, <1>3, <1>4 DEF Next

\* So they hold throughout.
LEMMA PassesAlways == Spec => []PassesInv
BY PassesInit, PassesNext, PTL DEF Spec
-----------------------------------------------------------------------------
\* A test stands behind a comparison.
TestsCompare ==
    \A p \in DOMAIN code : code[p].op = "TIFF" => p > 1 /\ code[p - 1].op \in Relops

\* lva has returned, and all is known of the blocks it leaves.
LEMMA AnalysedBlocks ==
  ASSUME PassesInv, phase = "done", FrontEnd!NoShift
  PROVE  B!Built /\ B!L!Known
<1>1. B!NoShift
  BY BuildBridge
<1>2. pos = Len(code) /\ B!L!Known
  BY <1>1 DEF PassesInv, B!Joined
<1> QED BY <1>1, <1>2 DEF PassesInv, B!Built

\* A block as gencode gets it.
LEMMA BlockGiven ==
  ASSUME PassesInv, phase = "done", FrontEnd!NoShift, TestsCompare, NEW b \in B!Blocks(code),
         NEW s, s = FrontEnd!Flow.ins[b]
  PROVE  /\ s \in Seq(GivenInstrs) /\ out[b] \in SUBSET Vars
         /\ \A j \in DOMAIN s :
              /\ s[j].op \in {"TIFF", "TJMP"} => j = Len(s)
              /\ s[j].op = "TIFF" => j > 1 /\ s[j - 1].op \in Relops
<1>1. B!Built /\ B!L!Known
  BY AnalysedBlocks
<1>2. /\ code \in Seq(Instrs) /\ Len(code) \in Nat
      /\ b \in Nat /\ Len(ins[b]) \in Nat \ {0} /\ ins[b][1] = B!First(code, b)
      /\ \A i \in 1 .. Len(ins[b]) :
           ins[b][i] = B!First(code, b) + i - 1 /\ ins[b][i] \in 1 .. Len(code)
      /\ B!First(code, b) \in Nat
  BY <1>1, Given, B!BuiltBlocks, SameInstrs
<1>3. /\ Len(s) = Len(ins[b]) /\ DOMAIN s = 1 .. Len(ins[b])
      /\ \A i \in 1 .. Len(ins[b]) : s[i] = code[ins[b][i]]
      /\ \A i \in 1 .. Len(ins[b]) : s[i] \in GivenInstrs
      /\ s \in Seq(GivenInstrs)
  <2>1. B!Flow.ins[b] = [i \in DOMAIN ins[b] |-> code[ins[b][i]]]
    BY DEF B!Flow
  <2>2. DOMAIN ins[b] = 1 .. Len(ins[b])
    BY DEF PassesInv, B!Placed, B!TypeOK
  <2>3. s = [i \in 1 .. Len(ins[b]) |-> code[ins[b][i]]]
    BY <2>1, <2>2, BuildBridge
  <2>4. \A p \in 1 .. Len(code) : code[p] \in Instrs /\ InsOK(code[p])
    BY <1>2, ProgramsAssumption DEF PassesInv
  <2>5. \A i \in 1 .. Len(ins[b]) : s[i] \in GivenInstrs
    BY <1>2, <2>3, <2>4 DEF GivenInstrs
  <2>6. s \in Seq(GivenInstrs) /\ Len(s) = Len(ins[b])
    <3>1. PICK n \in Nat : n = Len(ins[b])
      BY <1>2
    <3>2. s \in [1 .. n -> GivenInstrs]
      BY <2>3, <2>5, <3>1
    <3>3. s \in Seq(GivenInstrs) /\ DOMAIN s = 1 .. n
      BY <3>2
    <3>4. Len(s) \in Nat /\ 1 .. Len(s) = 1 .. n
      BY <3>3, LenProperties
    <3>5. Len(s) = n
      BY <3>4
    <3> QED BY <3>1, <3>3, <3>5
  <2> QED BY <2>3, <2>5, <2>6
<1>4. out[b] \in SUBSET Vars
  <2>1. B!Flow.blocks = B!Blocks(code)
    BY DEF B!Flow
  <2> QED BY <1>1, <2>1 DEF B!L!Known, B!L!TypeOK
<1>5. ASSUME NEW j \in 1 .. Len(ins[b]), s[j].op \in {"TIFF", "TJMP"}
      PROVE  j = Len(ins[b])
  <2>1. B!EdgeInv /\ B!NoShift /\ B!Placed
    BY <1>1 DEF B!Built
  <2>2. B!CurIsOpen /\ B!ClosedBefore
    BY <2>1 DEF B!EdgeInv
  <2>3. cur \in B!Blocks(code) /\ cur \in Nat
    BY <1>1, <2>1, Given, B!BuiltBlocks DEF B!Placed, B!TypeOK
  <2>4. CASE b < cur
    <3>1. B!Closed(code, ins[b], {next[b], jmp[b]} \ {B!NoBlock})
      BY <2>2, <2>4 DEF B!ClosedBefore
    <3>2. \A i \in 1 .. Len(ins[b]) - 1 : code[ins[b][i]].op \notin {"TJMP", "TIFF"}
      BY <3>1 DEF B!Closed
    <3>3. j \notin 1 .. Len(ins[b]) - 1
      BY <1>3, <1>5, <3>2
    <3> QED BY <1>2, <3>3
  <2>5. CASE b = cur
    BY <1>3, <1>5, <2>2, <2>5 DEF B!CurIsOpen
  <2>6. CASE b > cur
    <3>1. ins[b] = << >>
      BY <2>1, <2>6 DEF B!Placed, B!OrderInv
    <3> QED BY <1>2, <3>1
  <2> QED BY <1>2, <2>3, <2>4, <2>5, <2>6
<1>6. ASSUME NEW j \in 1 .. Len(ins[b]), s[j].op = "TIFF"
      PROVE  j > 1 /\ s[j - 1].op \in Relops
  <2>1. code[ins[b][j]].op = "TIFF"
    BY <1>3, <1>6
  <2>2. j # 1
    <3> SUFFICES ASSUME j = 1 PROVE FALSE
      OBVIOUS
    <3>1. code[B!First(code, b)].op = "TIFF" /\ B!First(code, b) \in 1 .. Len(code)
      BY <1>2, <2>1
    <3>2. B!NoShift
      BY BuildBridge
    <3>3. code \in Seq(B!Instrs)
      BY <1>2, SameInstrs
    <3> QED BY <1>2, <3>1, <3>2, <3>3, Given, B!FirstOf DEF B!NoShift
  <2>3. j - 1 \in 1 .. Len(ins[b])
    BY <1>2, <2>2
  <2>4. ins[b][j - 1] = ins[b][j] - 1
    <3>1. PICK f \in Nat : f = B!First(code, b)
      BY <1>2
    <3>2. ins[b][j - 1] = f + (j - 1) - 1 /\ ins[b][j] = f + j - 1
      BY <1>2, <2>3, <3>1
    <3> QED BY <3>1, <3>2
  <2>5. ins[b][j] \in DOMAIN code
    BY <1>2
  <2>6. code[ins[b][j] - 1].op \in Relops
    BY <2>1, <2>5 DEF TestsCompare
  <2>7. s[j - 1] = code[ins[b][j] - 1]
    BY <1>3, <2>3, <2>4
  <2> QED BY <1>2, <2>2, <2>6, <2>7
<1> QED BY <1>3, <1>4, <1>5, <1>6

\* reg_alloc's registers are the machine's first.
LEMMA RegistersGiven ==
  ASSUME PassesInv, raPhase = "done"
  PROVE  /\ \A v \in Vars : sreg[v] \in Registers \cup {NoRegister}
         /\ \A v \in Vars : raState[v] \in StateNames
         /\ cell \in [Vars -> Int]
<1>1. /\ sreg \in [Vars -> R!Regs \cup {R!NoRegister}]
      /\ cell \in [Vars -> Nat \cup {R!NoRegister}]
      /\ raState \in [Vars -> {"VS_EMPTY", "VS_ASSIGNED"}]
  BY DEF PassesInv, R!IInv, R!TypeOK
<1>2. R!Regs \subseteq Registers
  BY BoundsAssumption DEF R!Regs, Registers, PC
<1>3. R!NoRegister = NoRegister /\ NoRegister \in Int
  BY DEF R!NoRegister, NoRegister
<1>4. {"VS_EMPTY", "VS_ASSIGNED"} \subseteq StateNames
  BY DEF StateNames
<1> QED BY <1>1, <1>2, <1>3, <1>4

\* NULL is no symbol.
LEMMA CompilersSymbols == SymbolsOK
BY SymbolsAssumption DEF SymbolsOK, Symbols

\* gencode's blocks are lva's.
LEMMA BlockListGiven ==
  ASSUME PassesInv, phase = "done", FrontEnd!NoShift, TestsCompare, NEW bl, bl = BlockList
  PROVE  /\ bl \in Seq(GivenBlocks)
         /\ \A b \in DOMAIN bl : \A j \in DOMAIN bl[b].ins :
              LET s == bl[b].ins
              IN  /\ s[j].op \in {"TIFF", "TJMP"} => j = Len(s)
                  /\ s[j].op = "TIFF" => j > 1 /\ s[j - 1].op \in Relops
<1> DEFINE all == FrontEnd!Blocks(code)
           n == Cardinality(all)
           Nth(j) == CHOOSE b \in all : Cardinality({a \in all : a < b}) = j - 1
<1>0. all = B!Blocks(code)
  BY SameBlocks
<1>1. IsFiniteSet(all) /\ all \in SUBSET Nat /\ n \in Nat
  <2>1. B!Built
    BY AnalysedBlocks
  <2>2. Len(code) \in Nat /\ \A b \in all : b \in Nat /\ b <= Len(code)
    BY <1>0, <2>1, Given, B!BuiltBlocks
  <2> HIDE DEF all
  <2>3. all \in SUBSET Nat /\ \A b \in all : b <= Len(code)
    BY <2>2
  <2>4. IsFiniteSet(all)
    BY <2>2, <2>3, FS_BoundedSetOfNaturals
  <2> QED BY <2>3, <2>4, FS_CardinalityType DEF n
<1>2. bl = [j \in 1 .. n |-> [ins |-> FrontEnd!Flow.ins[Nth(j)], out |-> out[Nth(j)]]]
  BY DEF BlockList
<1>3. ASSUME NEW j \in 1 .. n PROVE Nth(j) \in all
  <2>1. \E b \in all : Cardinality({a \in all : a < b}) = j - 1
    <3> HIDE DEF all
    <3> QED BY <1>1, <1>3, NthExists DEF n
  <2> HIDE DEF all, n
  <2> QED BY <2>1
<1> HIDE DEF n, Nth
<1>4. ASSUME NEW j \in 1 .. n
      PROVE  /\ bl[j] \in GivenBlocks
             /\ \A i \in DOMAIN bl[j].ins :
                  /\ bl[j].ins[i].op \in {"TIFF", "TJMP"} => i = Len(bl[j].ins)
                  /\ bl[j].ins[i].op = "TIFF" => i > 1 /\ bl[j].ins[i - 1].op \in Relops
  <2>1. PICK b \in all : b = Nth(j)
    BY <1>3
  <2>2. PICK s : s = FrontEnd!Flow.ins[b]
    OBVIOUS
  <2>3. bl[j] = [ins |-> s, out |-> out[b]]
    BY <1>2, <2>1, <2>2
  <2>4. /\ s \in Seq(GivenInstrs) /\ out[b] \in SUBSET Vars
        /\ \A i \in DOMAIN s :
              /\ s[i].op \in {"TIFF", "TJMP"} => i = Len(s)
              /\ s[i].op = "TIFF" => i > 1 /\ s[i - 1].op \in Relops
    BY <1>0, <2>2, BlockGiven
  <2>5. bl[j].ins = s /\ bl[j].out = out[b]
    BY <2>3
  <2>6. bl[j] \in GivenBlocks
    BY <2>3, <2>4 DEF GivenBlocks
  <2> QED BY <2>4, <2>5, <2>6
<1>5. bl \in [1 .. n -> GivenBlocks]
  <2>1. DOMAIN bl = 1 .. n /\ bl = [j \in 1 .. n |-> bl[j]]
    BY <1>2
  <2> QED BY <1>4, <2>1
<1>6. bl \in Seq(GivenBlocks) /\ DOMAIN bl = 1 .. n
  BY <1>1, <1>5
<1> QED BY <1>4, <1>6

\* gencode is handed what its proofs assume: the blocks bb_build has made, lva's sets and
\* reg_alloc's registers.
LEMMA HandOverGives ==
  ASSUME PassesInv, FrontEnd!NoShift, TestsCompare, HandOver
  PROVE  GenGiven'
<1>1. phase = "done" /\ raPhase = "done"
  BY DEF HandOver, PassesInv
<1>2. /\ blocks' = BlockList
      /\ reg' = [s \in Symbols |-> IF s \in Vars THEN sreg[s] ELSE NoRegister]
      /\ state' = [s \in Symbols |-> IF s \in Vars THEN raState[s] ELSE "VS_EMPTY"]
      /\ val' = cell
  BY DEF HandOver
<1>3. BlocksOK'
  BY <1>1, <1>2, BlockListGiven DEF BlocksOK
<1>4. CellsOK'
  BY <1>1, <1>2, RegistersGiven DEF CellsOK
<1>5. reg' \in [Symbols -> Registers \cup {NoRegister}]
  BY <1>1, <1>2, RegistersGiven
<1>6. state' \in [Symbols -> StateNames]
  BY <1>1, <1>2, RegistersGiven DEF StateNames
<1> QED BY <1>3, <1>4, <1>5, <1>6 DEF GenGiven

\* Before gencode runs it has done nothing; then its own invariant holds.
GenPart ==
    /\ blocks = << >> => GenInit
    /\ blocks # << >> /\ FrontEnd!NoShift /\ TestsCompare => Inv

\* What InitKeeps says of a state it says of the next one.
LEMMA InitThen == (GenGiven /\ GenInit => Inv)'
<1>1. GenGiven /\ GenInit => Inv
  BY CompilersSymbols, InitKeeps
<1> QED BY <1>1, PTL

\* No pass changes the program.
LEMMA SameProgram == [Next]_vars => code' = code
<1> SUFFICES ASSUME [Next]_vars PROVE code' = code
  OBVIOUS
<1>1. CASE BuildAndAnalyse
  BY <1>1 DEF BuildAndAnalyse, FrontEnd!AnalysisNext, FrontEnd!Build, FrontEnd!Analyse, FrontEnd!vars,
    FrontEnd!Next, FrontEnd!PlaceFirst, FrontEnd!PlaceLabel,
    FrontEnd!PlaceJump, FrontEnd!PlaceBranch, FrontEnd!PlacePlain
<1>2. CASE Allocate \/ HandOver \/ Generate \/ WriteFile \/ Read \/ Run \/ UNCHANGED vars
  BY <1>2 DEF Allocate, HandOver, Generate, WriteFile, Read, Run, frontVars, vars
<1> QED BY <1>1, <1>2 DEF Next

\* A step of gencode is one of CodeGen; HandOver is its beginning.
LEMMA GenPartNext == PassesInv /\ GenPart /\ [Next]_vars => GenPart'
<1> SUFFICES ASSUME PassesInv, GenPart, [Next]_vars PROVE GenPart'
  OBVIOUS
<1>1. (FrontEnd!NoShift' <=> FrontEnd!NoShift) /\ (TestsCompare' <=> TestsCompare)
  BY SameProgram DEF FrontEnd!NoShift, TestsCompare
<1>2. CASE UNCHANGED genVars
  <2>1. GenInit => GenInit'
    BY <1>2 DEF genVars, GenInit
  <2>2. Inv => Inv'
    BY <1>2, StutterKeeps
  <2>3. blocks' = blocks
    BY <1>2 DEF genVars
  <2> QED BY <1>1, <2>1, <2>2, <2>3 DEF GenPart
<1>3. CASE BuildAndAnalyse \/ Allocate \/ WriteFile \/ Read \/ Run \/ UNCHANGED vars
  BY <1>2, <1>3 DEF BuildAndAnalyse, Allocate, WriteFile, Read, Run, vars
<1>4. CASE HandOver
  <2>1. GenInit'
    BY <1>4 DEF HandOver, GenPart, GenInit
  <2>2. FrontEnd!NoShift /\ TestsCompare => GenGiven'
    BY <1>4, HandOverGives
  <2>3. FrontEnd!NoShift /\ TestsCompare => Inv'
    BY <2>1, <2>2, InitThen
  <2> QED BY <1>1, <2>1, <2>3 DEF GenPart
<1>5. CASE Generate
  <2>1. blocks # << >> /\ GenNext
    BY <1>5 DEF Generate
  <2>2. blocks' = blocks
    BY <2>1 DEF GenNext, BeginBlock, GenBinop, GenInput, GenOutput, GenBranch, GenAssign, GenJump,
      GenLabel, EndBlock, GenEnd, Instruction
  <2>3. Inv => Inv'
    BY <2>1, CompilersSymbols, BeginKeeps, BinopKeeps, InputKeeps, OutputKeeps, BranchKeeps, AssignKeeps,
     JumpKeeps, LabelKeeps, EndBlockKeeps, EndKeeps DEF GenNext
  <2> QED BY <1>1, <2>1, <2>2, <2>3 DEF GenPart
<1> QED BY <1>3, <1>4, <1>5 DEF Next

\* So both hold throughout.
LEMMA GenPartAlways == Spec => [](PassesInv /\ GenPart)
<1>1. Init => GenPart
  BY DEF Init, GenPart
<1>2. Init => PassesInv
  BY PassesInit
<1>3. (PassesInv /\ GenPart) /\ [Next]_vars => (PassesInv /\ GenPart)'
  BY PassesNext, GenPartNext
<1> QED BY <1>1, <1>2, <1>3, PTL DEF Spec

\* Whatever program the compiler is given, with tests behind comparisons and no jump that
\* ends up in a block of its own, every instruction it writes names registers of the
\* machine: the hypotheses under which gencode is proved are what the passes before it
\* leave (gen.c:154, tm.c:261-314).
THEOREM RegistersNamedAlways ==
  Spec => [](FrontEnd!NoShift /\ TestsCompare => RegistersNamed)
<1>1. Inv => RegistersNamed
  BY InvNamesRegisters
<1>2. GenInit => RegistersNamed
  BY DEF GenInit, RegistersNamed
<1>3. PassesInv /\ GenPart => (FrontEnd!NoShift /\ TestsCompare => RegistersNamed)
  BY <1>1, <1>2 DEF GenPart
<1> QED BY <1>3, GenPartAlways, PTL

-----------------------------------------------------------------------------
(* Whether a symbol is where it is said to be: reg and registers[] agree on    *)
(* what is still to come, block by block.                                     *)

\* Every symbol of S that is said to be in a spare register is there, or none is.
Agree(g, S) == \A s \in S : g.reg[s] \in Spare => g.spare[g.reg[s]] = s
Gone(g, S)  == \A s \in S : g.reg[s] \notin Spare

\* Only the two records count.
LEMMA AgreeSame ==
  ASSUME NEW g, NEW h, h.reg = g.reg, h.spare = g.spare, NEW S, Agree(g, S)
  PROVE  Agree(h, S)
BY DEF Agree

\* Emitting moves no symbol.
LEMMA EmitSame ==
  ASSUME NEW g, GenOK(g), NEW op, NEW r1, NEW r2, NEW r3
  PROVE  Emit(g, op, r1, r2, r3).reg = g.reg /\ Emit(g, op, r1, r2, r3).spare = g.spare
BY DEF Emit, GenOK, Generators

\* find_reg takes the register of the symbol it throws out from that symbol.
LEMMA NeedAgrees ==
  ASSUME SymbolsOK, CellsOK, NEW g, GenOK(g), OneHolder(g), NEW s \in Symbols,
         NEW p \in Symbols, NEW q \in Symbols, NEW ex \in SUBSET {p, q},
         NEW S \in SUBSET Symbols, Agree(g, S)
  PROVE  Agree(Need(g, s, ex), S)
<1>1. CASE g.reg[s] # NoRegister
  BY <1>1 DEF Need
<1>2. CASE g.reg[s] = NoRegister
  <2>1. PICK h : h = FindReg(g, s, ex)
    OBVIOUS
  <2>2. PICK i \in Spare : Placed(g, h, i, s, g.spare[i])
    BY <1>2, <2>1, FindRegIs
  <2>3. ASSUME NEW t \in S, h.reg[t] \in Spare
        PROVE  h.spare[h.reg[t]] = t
    <3>1. CASE t = s
      BY <2>2, <3>1 DEF Placed
    <3>2. CASE t # s
      <4>1. t # g.spare[i] /\ h.reg[t] = g.reg[t]
        BY <2>2, <2>3, <3>2, SpareIs DEF Placed
      <4>2. g.spare[g.reg[t]] = t
        BY <2>3, <4>1 DEF Agree
      <4>3. g.reg[t] # i
        BY <4>1, <4>2
      <4> QED BY <2>2, <2>3, <4>1, <4>2, <4>3 DEF Placed
    <3> QED BY <3>1, <3>2
  <2> QED BY <1>2, <2>1, <2>3 DEF Agree, Need
<1> QED BY <1>1, <1>2

\* The same for the two forms of its last argument.
LEMMA NeedBesideAgrees ==
  ASSUME SymbolsOK, CellsOK, NEW g, GenOK(g), OneHolder(g), NEW s \in Symbols,
         NEW p \in Symbols, NEW q \in Symbols, NEW S \in SUBSET Symbols, Agree(g, S)
  PROVE  Agree(Need(g, s, {p, q}), S)
<1>1. PICK ex \in SUBSET {p, q} : ex = {p, q}
  OBVIOUS
<1>2. Agree(Need(g, s, ex), S)
  BY NeedAgrees
<1> QED BY <1>1, <1>2

\* Nothing is excluded.
LEMMA NeedAloneAgrees ==
  ASSUME SymbolsOK, CellsOK, NEW g, GenOK(g), OneHolder(g), NEW s \in Symbols,
         NEW S \in SUBSET Symbols, Agree(g, S)
  PROVE  Agree(Need(g, s, {}), S)
<1>1. PICK ex \in SUBSET {s, s} : ex = {}
  OBVIOUS
<1>2. Agree(Need(g, s, ex), S)
  BY NeedAgrees
<1> QED BY <1>1, <1>2

\* get_reg
LEMMA GetRegAgrees ==
  ASSUME SymbolsOK, CellsOK, NEW g, GenOK(g), OneHolder(g), NEW i, InsOK(i),
         i.op \in Binops \cup {"TIN", "TOUT", "TASSIGN"}, NEW S \in SUBSET Symbols, Agree(g, S)
  PROVE  Agree(GetReg(g, i), S)
<1>0. PICK h : h = GetReg(g, i)
  OBVIOUS
<1>1. CASE i.op \in Binops
  <2>1. i.a1 \in Symbols /\ i.a2 \in Symbols /\ i.r \in Symbols
    BY <1>1 DEF InsOK
  <2>2. PICK r \in Symbols, p \in Symbols, q \in Symbols : r = i.r /\ p = i.a1 /\ q = i.a2
    BY <2>1
  <2>3. PICK e : e = Need(g, r, {p, q})
    OBVIOUS
  <2>4. PICK d : d = Need(e, p, {q, r})
    OBVIOUS
  <2>5. h = Need(d, q, {p, r})
    BY <1>0, <1>1, <2>2, <2>3, <2>4 DEF GetReg
  <2>6. GenOK(e) /\ OneHolder(e) /\ Agree(e, S)
    BY <2>3, NeedBeside, NeedBesideAgrees
  <2>7. GenOK(d) /\ OneHolder(d) /\ Agree(d, S)
    BY <2>4, <2>6, NeedBeside, NeedBesideAgrees
  <2>8. Agree(h, S)
    BY <2>5, <2>7, NeedBesideAgrees
  <2> QED BY <1>0, <2>8
<1>2. CASE i.op = "TASSIGN"
  <2>1. i.a1 \in Symbols /\ i.r \in Symbols /\ i.op \notin Binops
    BY <1>2 DEF InsOK, Binops, Relops, Arith
  <2>2. PICK r \in Symbols, p \in Symbols : r = i.r /\ p = i.a1
    BY <2>1
  <2>3. PICK e : e = Need(g, r, {p, p})
    OBVIOUS
  <2>4. {p, p} = {p} /\ {r, r} = {r}
    OBVIOUS
  <2>5. h = Need(e, p, {r, r})
    BY <1>0, <1>2, <2>1, <2>2, <2>3, <2>4 DEF GetReg
  <2>6. GenOK(e) /\ OneHolder(e) /\ Agree(e, S)
    BY <2>3, NeedBeside, NeedBesideAgrees
  <2>7. Agree(h, S)
    BY <2>5, <2>6, NeedBesideAgrees
  <2> QED BY <1>0, <2>7
<1>3. CASE i.op \in {"TIN", "TOUT"}
  <2>1. i.r \in Symbols /\ i.op \notin Binops /\ i.op # "TASSIGN"
    BY <1>3 DEF InsOK, Binops, Relops, Arith
  <2>2. h = Need(g, i.r, {})
    BY <1>0, <1>3, <2>1 DEF GetReg
  <2> QED BY <1>0, <2>1, <2>2, NeedAloneAgrees
<1> QED BY <1>1, <1>2, <1>3

\* The instructions that end no block: gen_binop and gen_inc.
LEMMA BinopAgrees ==
  ASSUME SymbolsOK, CellsOK, NEW g, GenOK(g), OneHolder(g), NEW i, InsOK(i), i.op \in Binops,
         NEW S \in SUBSET Symbols, Agree(g, S),
         NEW h, h = IF IsIncrement(i) THEN GenInc(g, i) ELSE BinopCode(g, i)
  PROVE  Agree(h, S)
<1>1. CASE IsIncrement(i)
  <2>1. i.r \in Symbols
    BY DEF InsOK
  <2>2. PICK e : e = Need(g, i.r, {})
    OBVIOUS
  <2>3. GenOK(e) /\ Agree(e, S)
    BY <2>1, <2>2, GetRegOne, NeedAloneAgrees
  <2>4. h.reg = e.reg /\ h.spare = e.spare
    BY <1>1, <2>2, <2>3, EmitSame DEF GenInc
  <2> QED BY <2>3, <2>4, AgreeSame
<1>2. CASE ~ IsIncrement(i)
  <2>1. PICK e : e = GetReg(g, i)
    OBVIOUS
  <2>2. GenOK(e) /\ Agree(e, S)
    BY <2>1, GetRegOK, GetRegAgrees
  <2>3. h.reg = e.reg /\ h.spare = e.spare
    BY <1>2, <2>1, <2>2, EmitSame DEF BinopCode
  <2> QED BY <2>2, <2>3, AgreeSame
<1> QED BY <1>1, <1>2

\* The cases TIN and TOUT.
LEMMA ReadWriteAgrees ==
  ASSUME SymbolsOK, CellsOK, NEW g, GenOK(g), OneHolder(g), NEW i, InsOK(i),
         i.op \in {"TIN", "TOUT"}, NEW op, NEW S \in SUBSET Symbols, Agree(g, S),
         NEW e, e = GetReg(g, i), NEW h, h = Emit(e, op, e.reg[i.r], 0, 0)
  PROVE  Agree(h, S)
<1>1. GenOK(e) /\ Agree(e, S)
  BY GetRegOK, GetRegAgrees
<1>2. h.reg = e.reg /\ h.spare = e.spare
  BY <1>1, EmitSame
<1> QED BY <1>1, <1>2, AgreeSame

\* The case TASSIGN.
LEMMA AssignAgrees ==
  ASSUME SymbolsOK, CellsOK, NEW g, GenOK(g), OneHolder(g), NEW i, InsOK(i), i.op = "TASSIGN",
         NEW S \in SUBSET Symbols, Agree(g, S), NEW h, h = AssignCode(g, i)
  PROVE  Agree(h, S)
<1>0. i.r \in Symbols /\ i.a1 \in Symbols
  BY DEF InsOK
<1>1. CASE i.r = i.a1
  BY <1>1 DEF AssignCode
<1>2. CASE i.r # i.a1 /\ IsConst(i.a1)
  <2>1. PICK r \in Symbols, p \in Symbols : r = i.r /\ p = i.a1
    BY <1>0
  <2>2. PICK e : e = Need(g, r, {p, p})
    OBVIOUS
  <2>3. {p, p} = {i.a1}
    BY <2>1
  <2>4. GenOK(e) /\ Agree(e, S)
    BY <2>2, NeedBeside, NeedBesideAgrees
  <2>5. h = Emit(e, "LDC", e.reg[i.r], i.a1, 0)
    BY <1>2, <2>1, <2>2, <2>3 DEF AssignCode
  <2>6. h.reg = e.reg /\ h.spare = e.spare
    BY <2>4, <2>5, EmitSame
  <2> QED BY <2>4, <2>6, AgreeSame
<1>3. CASE i.r # i.a1 /\ ~ IsConst(i.a1)
  <2>1. PICK e : e = GetReg(g, i)
    OBVIOUS
  <2>2. GenOK(e) /\ e.reg[i.r] \in Registers /\ Agree(e, S)
    BY <2>1, GetRegOK, GetRegAgrees
  <2>3. PICK r1 \in Registers : r1 = e.reg[i.r]
    BY <2>2
  <2>4. PICK d : d = Emit(e, "LDC", r1, 0, 0)
    OBVIOUS
  <2>5. GenOK(d) /\ d.reg = e.reg /\ d.spare = e.spare
    BY <2>2, <2>4, EmitConstant, EmitSame
  <2>6. h = Emit(d, "ADD", e.reg[i.r], e.reg[i.a1], e.reg[i.r])
    BY <1>3, <2>1, <2>3, <2>4, <2>5 DEF AssignCode
  <2>7. h.reg = e.reg /\ h.spare = e.spare
    BY <2>5, <2>6, EmitSame
  <2> QED BY <2>2, <2>7, AgreeSame
<1> QED BY <1>1, <1>2, <1>3

\* The case TLABEL.
LEMMA LabelAgrees ==
  ASSUME NEW g, GenOK(g), NEW l, NEW S, Agree(g, S), NEW h, h = LabelHere(g, l)
  PROVE  Agree(h, S)
<1>1. h.reg = g.reg /\ h.spare = g.spare
  BY DEF LabelHere, GenOK, Generators
<1> QED BY <1>1, AgreeSame

\* The symbol of a spare register is taken out of it, and no other.
LEMMA StoreAtEndTakes ==
  ASSUME SymbolsOK, CellsOK, NEW g, GenOK(g), NEW i \in Spare, NEW alive,
         NEW h, h = StoreAtEnd(g, i, alive)
  PROVE  /\ GenOK(h) /\ h.spare = g.spare
         /\ \A t \in Symbols : h.reg[t] = IF t = g.spare[i] THEN NoRegister ELSE g.reg[t]
<1>1. GenOK(h)
  BY StoreAtEndOK
<1>2. PICK s : s = g.spare[i]
  OBVIOUS
<1>3. CASE s = NoSymbol
  BY <1>1, <1>2, <1>3 DEF StoreAtEnd, SymbolsOK
<1>4. CASE s # NoSymbol
  <2>1. s \in Symbols
    BY <1>2, <1>4 DEF GenOK, Generators
  <2>2. PICK e : e = IF ~ IsConst(s) /\ s \in alive THEN Emit(g, "ST", i, val[s], GP) ELSE g
    OBVIOUS
  <2>3. e.reg = g.reg /\ e.spare = g.spare /\ GenOK(e)
    <3>1. CASE ~ IsConst(s) /\ s \in alive
      <4>1. e = Emit(g, "ST", i, val[s], GP)
        BY <2>2, <3>1
      <4>2. val[s] \in Int /\ i \in Registers
        BY <3>1, SpareIs DEF CellsOK, IsConst
      <4>3. "ST" \in TmNames /\ "ST" \notin RegisterOnly /\ GP \in Registers
        BY EmitNames, SpareIs
      <4> QED BY <4>1, <4>2, <4>3, EmitOK
    <3>2. CASE ~ (~ IsConst(s) /\ s \in alive)
      BY <2>2, <3>2
    <3> QED BY <3>1, <3>2
  <2>4. h = [e EXCEPT !.state[s] = "VS_INMEM", !.reg[s] = NoRegister]
    BY <1>2, <1>4, <2>2 DEF StoreAtEnd
  <2>5. h.spare = e.spare /\ h.reg = [e.reg EXCEPT ![s] = NoRegister]
    BY <2>3, <2>4 DEF GenOK, Generators
  <2>6. e.reg \in [Symbols -> Registers \cup {NoRegister}]
    BY <2>3 DEF GenOK, Generators
  <2> QED BY <1>1, <1>2, <2>1, <2>3, <2>5, <2>6
<1> QED BY <1>3, <1>4

\* gen_bb_loads takes every spare register's symbol out of it.
LEMMA BbLoadsTakes ==
  ASSUME SymbolsOK, CellsOK, NEW g, GenOK(g), NEW alive, NEW S \in SUBSET Symbols, Agree(g, S),
         NEW h, h = BbLoads(g, alive)
  PROVE  GenOK(h) /\ Gone(h, S)
<1>1. 3 \in Spare /\ 4 \in Spare /\ 5 \in Spare
  BY SpareIs
<1>2. PICK d : d = StoreAtEnd(g, 3, alive)
  OBVIOUS
<1>3. PICK e : e = StoreAtEnd(d, 4, alive)
  OBVIOUS
<1>4. h = StoreAtEnd(e, 5, alive)
  BY <1>2, <1>3 DEF BbLoads
<1>5. /\ GenOK(d) /\ d.spare = g.spare
      /\ \A t \in Symbols : d.reg[t] = IF t = g.spare[3] THEN NoRegister ELSE g.reg[t]
  BY <1>1, <1>2, StoreAtEndTakes
<1>6. /\ GenOK(e) /\ e.spare = g.spare
      /\ \A t \in Symbols : e.reg[t] = IF t = g.spare[4] THEN NoRegister ELSE d.reg[t]
  BY <1>1, <1>3, <1>5, StoreAtEndTakes
<1>7. /\ GenOK(h) /\ h.spare = g.spare
      /\ \A t \in Symbols : h.reg[t] = IF t = g.spare[5] THEN NoRegister ELSE e.reg[t]
  BY <1>1, <1>4, <1>6, StoreAtEndTakes
<1>8. ASSUME NEW t \in S PROVE h.reg[t] \notin Spare
  <2>1. t \in Symbols /\ (g.reg[t] \in Spare => g.spare[g.reg[t]] = t)
    BY DEF Agree
  <2>2. CASE t \in {g.spare[3], g.spare[4], g.spare[5]}
    BY <1>5, <1>6, <1>7, <2>1, <2>2, SpareIs
  <2>3. CASE t \notin {g.spare[3], g.spare[4], g.spare[5]}
    <3>1. h.reg[t] = g.reg[t]
      BY <1>5, <1>6, <1>7, <2>1, <2>3
    <3>2. g.reg[t] \notin Spare
      BY <2>1, <2>3, SpareIs
    <3> QED BY <3>1, <3>2
  <2> QED BY <2>2, <2>3
<1> QED BY <1>7, <1>8 DEF Gone

\* free_regs brings no symbol anywhere.
LEMMA FreeRegsTakes ==
  ASSUME NEW g, GenOK(g), NEW alive, NEW S \in SUBSET Symbols, NEW h, h = FreeRegs(g, alive)
  PROVE  /\ Agree(g, S) => Agree(h, S)
         /\ Gone(g, S) => Gone(h, S)
<1> DEFINE drop == Dropped(g, alive)
           gone == {g.spare[i] : i \in drop}
<1>1. /\ h.spare = [i \in Spare |-> IF i \in drop THEN NoSymbol ELSE g.spare[i]]
      /\ h.reg = [s \in Symbols |-> IF s \in gone THEN NoRegister ELSE g.reg[s]]
  BY DEF FreeRegs, GenOK, Generators
<1>2. ASSUME NEW t \in S, h.reg[t] \in Spare
      PROVE  t \notin gone /\ h.reg[t] = g.reg[t]
  <2> HIDE DEF gone
  <2> QED BY <1>1, <1>2, SpareIs
<1>3. ASSUME NEW t \in S, h.reg[t] \in Spare, Agree(g, S)
      PROVE  h.spare[h.reg[t]] = t
  <2>1. t \notin gone /\ h.reg[t] = g.reg[t] /\ g.spare[g.reg[t]] = t
    BY <1>2, <1>3 DEF Agree
  <2>2. g.reg[t] \notin drop
    BY <2>1
  <2> HIDE DEF gone, drop
  <2> QED BY <1>1, <1>3, <2>1, <2>2
<1>4. Agree(g, S) => Agree(h, S)
  BY <1>3 DEF Agree
<1>5. Gone(g, S) => Gone(h, S)
  BY <1>2 DEF Gone
<1> QED BY <1>4, <1>5

\* gen_cond_jmp stores ...
LEMMA CondJmpTakes ==
  ASSUME SymbolsOK, CellsOK, NEW g, GenOK(g), OneHolder(g), NEW i,
         InsOK(prev), prev.op \in Relops, NEW alive, NEW S \in SUBSET Symbols, Agree(g, S),
         NEW h, h = CondJmp(g, i, alive)
  PROVE  Gone(h, S)
<1>1. PICK d : d = GetReg(g, prev)
  OBVIOUS
<1>2. GenOK(d) /\ Agree(d, S)
  BY <1>1, GetRegOK, GetRegAgrees DEF Binops
<1>3. PICK b : b = BbLoads(d, alive)
  OBVIOUS
<1>4. GenOK(b) /\ Gone(b, S)
  BY <1>2, <1>3, BbLoadsTakes
<1>5. PICK e : e = Emit(b, JumpName(prev.op), d.reg[prev.r], d.reg[prev.a1], d.reg[prev.a2])
  OBVIOUS
<1>6. h = [e EXCEPT !.jmps = Append(@, Pending(i.r, Len(e.tm)))]
  BY <1>1, <1>3, <1>5 DEF CondJmp
<1>7. h.reg = b.reg
  BY <1>4, <1>5, <1>6 DEF Emit, GenOK, Generators
<1> QED BY <1>4, <1>7 DEF Gone

\* ... and so does a jump forward.
LEMMA JmpTakes ==
  ASSUME SymbolsOK, CellsOK, NEW g, GenOK(g), NEW i, Known(g, i.r) = {}, NEW alive,
         NEW S \in SUBSET Symbols, Agree(g, S), NEW h, h = Jmp(g, i, alive)
  PROVE  Gone(h, S)
<1>1. PICK b : b = BbLoads(g, alive)
  OBVIOUS
<1>2. GenOK(b) /\ Gone(b, S)
  BY <1>1, BbLoadsTakes
<1>3. PICK e : e = EmitAbs(b, 0)
  OBVIOUS
<1>4. h = [e EXCEPT !.jmps = Append(@, Pending(i.r, Len(e.tm)))]
  BY <1>1, <1>3 DEF Jmp
<1>5. h.reg = b.reg
  BY <1>2, <1>3, <1>4 DEF EmitAbs, Emit, GenOK, Generators
<1> QED BY <1>2, <1>5 DEF Gone

\* A jump back stores nothing; what is left of what comes is in no spare register.
LEMMA JumpBackLeaves ==
  ASSUME NEW g, GenOK(g), NEW i, Known(g, i.r) # {}, NEW alive,
         NEW S \in SUBSET Symbols, Agree(g, S), {g.spare[j] : j \in Spare} \cap S = {},
         NEW h, h = Jmp(g, i, alive)
  PROVE  Gone(h, S)
<1>1. h.reg = g.reg
  BY DEF Jmp, EmitAbs, Emit, GenOK, Generators
<1>2. \A s \in S : g.reg[s] \notin Spare
  BY DEF Agree
<1> QED BY <1>1, <1>2 DEF Gone

\* In a block up to its jump the symbols of the block and of what comes are where they
\* are said to be; otherwise those of what comes are in no spare register.
SpareInv ==
    ~ loopSpare =>
      IF inBlock /\ ~ loaded THEN Agree(Generator, NamedFrom(blk))
                             ELSE Gone(Generator, NamedFrom(blk + 1))

\* What is named from a block on.
LEMMA NamedFromIs ==
  ASSUME BlocksOK, NEW b \in Nat
  PROVE  /\ NamedFrom(b) \in SUBSET Symbols
         /\ NamedFrom(b + 1) \in SUBSET NamedFrom(b)
         /\ b \in DOMAIN blocks => \A j \in DOMAIN blocks[b].ins : Named(blocks[b].ins[j]) \subseteq NamedFrom(b)
<1>1. \A i : Named(i) \subseteq Symbols
  BY DEF Named, Touched, Uses, Defs, Symbols
<1>2. Len(blocks) \in Nat /\ DOMAIN blocks = 1 .. Len(blocks)
  BY LenProperties DEF BlocksOK
<1>3. NamedFrom(b) \in SUBSET Symbols
  BY <1>1 DEF NamedFrom
<1>4. b + 1 .. Len(blocks) \subseteq b .. Len(blocks)
  BY <1>2
<1>5. NamedFrom(b + 1) \in SUBSET NamedFrom(b)
  BY <1>4 DEF NamedFrom
<1>6. ASSUME b \in DOMAIN blocks, NEW j \in DOMAIN blocks[b].ins
      PROVE  Named(blocks[b].ins[j]) \subseteq NamedFrom(b)
  <2>1. b \in b .. Len(blocks)
    BY <1>2, <1>6
  <2>2. blocks[b].ins[j] \in ToSet(blocks[b].ins)
    BY <1>6 DEF ToSet
  <2> QED BY <2>1, <2>2 DEF NamedFrom
<1> QED BY <1>3, <1>5, <1>6

\* One turn of the loop over the instructions.
LEMMA SpareInstruction ==
  ASSUME SymbolsOK, Inv, NEW i \in Current, NEW ops, NEW h, Instruction(i, ops, h), GenOK(h),
         i.op \notin {"TIFF", "TJMP"} => Agree(h, NamedFrom(blk)),
         i.op \in {"TIFF", "TJMP"} => Gone(h, NamedFrom(blk + 1))
  PROVE  IF inBlock' /\ ~ loaded' THEN Agree(Generator', NamedFrom(blk)')
                                  ELSE Gone(Generator', NamedFrom(blk + 1)')
<1>1. PICK g : g = FreeRegs(h, outs[k + 1])
  OBVIOUS
<1>2. GenOK(g)
  BY <1>1, FreeRegsOK
<1>3. Becomes(g)
  BY <1>1 DEF Instruction
<1>4. Generator' = g
  BY <1>2, <1>3, BecomesIs
<1>5. inBlock /\ ~ loaded /\ blk \in Nat /\ BlocksOK
  BY CurrentIs DEF Inv, PlaceOK
<1>6. /\ loaded' = (loaded \/ i.op \in {"TIFF", "TJMP"})
      /\ UNCHANGED <<blocks, blk, inBlock>>
  BY DEF Instruction
<1>7. NamedFrom(blk)' = NamedFrom(blk) /\ NamedFrom(blk + 1)' = NamedFrom(blk + 1)
  BY <1>6 DEF NamedFrom
<1>8. NamedFrom(blk) \in SUBSET Symbols /\ NamedFrom(blk + 1) \in SUBSET Symbols
  BY <1>5, NamedFromIs
<1>9. CASE i.op \in {"TIFF", "TJMP"}
  <2>1. Gone(g, NamedFrom(blk + 1))
    BY <1>1, <1>8, <1>9, FreeRegsTakes
  <2> QED BY <1>4, <1>6, <1>7, <1>9, <2>1
<1>10. CASE i.op \notin {"TIFF", "TJMP"}
  <2>1. Agree(g, NamedFrom(blk))
    BY <1>1, <1>8, <1>10, FreeRegsTakes
  <2> QED BY <1>4, <1>5, <1>6, <1>7, <1>10, <2>1
<1> QED BY <1>9, <1>10

\* Whatever the instruction is.
LEMMA SpareTurn ==
  ASSUME SymbolsOK, Inv, SpareInv, ~ loopSpare,
         GenBinop \/ GenInput \/ GenOutput \/ GenBranch \/ GenAssign \/ GenJump \/ GenLabel,
         ~ (JumpsBack /\ LeftBehind # {})
  PROVE  IF inBlock' /\ ~ loaded' THEN Agree(Generator', NamedFrom(blk)')
                                  ELSE Gone(Generator', NamedFrom(blk + 1)')
<1>1. PICK g : g = Generator
  OBVIOUS
<1>2. PICK S : S = NamedFrom(blk)
  OBVIOUS
<1>3. PICK T : T = NamedFrom(blk + 1)
  OBVIOUS
<1>4. ASSUME NEW i \in Current
      PROVE  /\ GenOK(g) /\ OneHolder(g) /\ InsOK(i) /\ CellsOK
             /\ S \in SUBSET Symbols /\ T \in SUBSET S /\ Agree(g, S) /\ Agree(g, T)
             /\ i.op = "TIFF" => InsOK(prev) /\ prev.op \in Relops
  <2>1. GenOK(g) /\ OneHolder(g) /\ InsOK(i) /\ inBlock /\ ~ loaded
        /\ (i.op = "TIFF" => InsOK(prev) /\ prev.op \in Relops)
    BY <1>1, CurrentIs
  <2>2. blk \in Nat /\ BlocksOK /\ CellsOK
    BY <2>1 DEF Inv, PlaceOK
  <2>3. S \in SUBSET Symbols /\ T \in SUBSET S
    BY <1>2, <1>3, <2>2, NamedFromIs
  <2>4. Agree(g, S)
    BY <1>1, <1>2, <2>1 DEF SpareInv
  <2>5. Agree(g, T)
    BY <2>3, <2>4 DEF Agree
  <2> QED BY <2>1, <2>2, <2>3, <2>4, <2>5
<1>5. CASE GenBinop
  <2>1. PICK i \in Current :
        Instruction(i, Binops, IF IsIncrement(i) THEN GenInc(Generator, i) ELSE BinopCode(Generator, i))
    BY <1>5 DEF GenBinop
  <2>2. PICK h : h = IF IsIncrement(i) THEN GenInc(g, i) ELSE BinopCode(g, i)
    OBVIOUS
  <2>3. Instruction(i, Binops, h)
    BY <1>1, <2>1, <2>2
  <2>4. i.op \in Binops /\ i.op \notin {"TIFF", "TJMP"}
    BY <2>3 DEF Instruction, Binops, Relops, Arith
  <2>5. GenOK(h)
    BY <1>4, <2>2, <2>4, BinopOK
  <2>6. Agree(h, S)
    BY <1>4, <2>2, <2>4, BinopAgrees
  <2> QED BY <1>2, <2>3, <2>4, <2>5, <2>6, SpareInstruction
<1>6. CASE GenInput \/ GenOutput
  <2>1. PICK i \in Current, op \in {"IN", "OUT"}, o \in {"TIN", "TOUT"} : Instruction(i, {o},
          LET h == GetReg(Generator, i) IN Emit(h, op, h.reg[i.r], 0, 0))
    BY <1>6 DEF GenInput, GenOutput
  <2>2. PICK h : h = GetReg(g, i)
    OBVIOUS
  <2>3. PICK e : e = Emit(h, op, h.reg[i.r], 0, 0)
    OBVIOUS
  <2>4. Instruction(i, {o}, e)
    BY <1>1, <2>1, <2>2, <2>3
  <2>5. i.op \in {"TIN", "TOUT"} /\ i.op \notin {"TIFF", "TJMP"}
    BY <2>4 DEF Instruction
  <2>6. GenOK(e)
    BY <1>4, <2>2, <2>3, <2>5, ReadWriteOK
  <2>7. Agree(e, S)
    BY <1>4, <2>2, <2>3, <2>5, ReadWriteAgrees
  <2> QED BY <1>2, <2>4, <2>5, <2>6, <2>7, SpareInstruction
<1>7. CASE GenAssign
  <2>1. PICK i \in Current : Instruction(i, {"TASSIGN"}, AssignCode(Generator, i))
    BY <1>7 DEF GenAssign
  <2>2. PICK h : h = AssignCode(g, i)
    OBVIOUS
  <2>3. Instruction(i, {"TASSIGN"}, h)
    BY <1>1, <2>1, <2>2
  <2>4. i.op = "TASSIGN"
    BY <2>3 DEF Instruction
  <2>5. GenOK(h) /\ Agree(h, S)
    BY <1>4, <2>2, <2>4, AssignOK, AssignAgrees
  <2> QED BY <1>2, <2>3, <2>4, <2>5, SpareInstruction
<1>8. CASE GenLabel
  <2>1. PICK i \in Current : Instruction(i, {"TLABEL"}, LabelHere(Generator, i.r))
    BY <1>8 DEF GenLabel
  <2>2. i.op = "TLABEL" /\ InsOK(i)
    BY <1>4, <2>1 DEF Instruction
  <2>3. PICK l \in Int : l = i.r
    BY <2>2 DEF InsOK
  <2>4. PICK h : h = LabelHere(g, l)
    OBVIOUS
  <2>5. Instruction(i, {"TLABEL"}, h)
    BY <1>1, <2>1, <2>3, <2>4
  <2>6. GenOK(h) /\ Agree(h, S)
    BY <1>4, <2>4, LabelOK, LabelAgrees
  <2> QED BY <1>2, <2>2, <2>5, <2>6, SpareInstruction
<1>9. CASE GenBranch
  <2>1. PICK i \in Current : Instruction(i, {"TIFF"}, CondJmp(Generator, i, BlockOut))
    BY <1>9 DEF GenBranch
  <2>2. PICK alive : alive = BlockOut
    OBVIOUS
  <2>3. PICK h : h = CondJmp(g, i, alive)
    OBVIOUS
  <2>4. Instruction(i, {"TIFF"}, h)
    BY <1>1, <2>1, <2>2, <2>3
  <2>5. i.op = "TIFF"
    BY <2>4 DEF Instruction
  <2>6. GenOK(h)
    BY <1>4, <2>3, <2>5, CondJmpOK
  <2>7. Gone(h, T)
    BY <1>4, <2>3, <2>5, CondJmpTakes
  <2> QED BY <1>3, <2>4, <2>5, <2>6, <2>7, SpareInstruction
<1>10. CASE GenJump
  <2>1. PICK i \in Current : Instruction(i, {"TJMP"}, Jmp(Generator, i, BlockOut))
    BY <1>10 DEF GenJump
  <2>2. PICK alive : alive = BlockOut
    OBVIOUS
  <2>3. PICK h : h = Jmp(g, i, alive)
    OBVIOUS
  <2>4. Instruction(i, {"TJMP"}, h)
    BY <1>1, <2>1, <2>2, <2>3
  <2>5. i.op = "TJMP"
    BY <2>4 DEF Instruction
  <2>6. GenOK(h)
    BY <1>4, <2>3, <2>5, JmpOK
  <2>7. Gone(h, T)
    <3>1. CASE Known(g, i.r) = {}
      BY <1>4, <2>3, <3>1, JmpTakes
    <3>2. CASE Known(g, i.r) # {}
      <4>1. LeftBehind = {}
        BY <1>1, <2>5, <3>2 DEF JumpsBack
      <4>2. {g.spare[j] : j \in Spare} \cap T = {}
        BY <1>1, <1>3, <4>1 DEF LeftBehind, Behind, Generator
      <4> QED BY <1>4, <2>3, <3>2, <4>2, JumpBackLeaves
    <3> QED BY <3>1, <3>2
  <2> QED BY <1>3, <2>4, <2>5, <2>6, <2>7, SpareInstruction
<1> QED BY <1>5, <1>6, <1>7, <1>8, <1>9, <1>10

\* A step of gencode.
LEMMA SpareGenerate ==
  ASSUME SymbolsOK, Inv, SpareInv, Generate
  PROVE  SpareInv'
<1> SUFFICES ASSUME ~ loopSpare'
             PROVE  IF inBlock' /\ ~ loaded' THEN Agree(Generator', NamedFrom(blk)')
                                             ELSE Gone(Generator', NamedFrom(blk + 1)')
  BY DEF SpareInv
<1>1. ~ loopSpare /\ ~ (JumpsBack /\ LeftBehind # {}) /\ GenNext
  BY DEF Generate
<1>2. CASE GenBinop \/ GenInput \/ GenOutput \/ GenBranch \/ GenAssign \/ GenJump \/ GenLabel
  BY <1>1, <1>2, SpareTurn
<1>3. CASE BeginBlock
  <2>1. /\ ~ inBlock /\ inBlock' /\ blk' = blk + 1 /\ ~ loaded'
        /\ reg' = reg /\ blocks' = blocks
    BY <1>3 DEF BeginBlock, Inv, PlaceOK
  <2>2. Gone(Generator, NamedFrom(blk + 1))
    BY <1>1, <2>1 DEF SpareInv
  <2>3. NamedFrom(blk)' = NamedFrom(blk + 1)
    BY <2>1 DEF NamedFrom
  <2>4. Generator'.reg = Generator.reg
    BY <2>1 DEF Generator
  <2> QED BY <2>1, <2>2, <2>3, <2>4 DEF Gone, Agree
<1>4. CASE EndBlock
  <2>1. PICK g : g = Generator
    OBVIOUS
  <2>2. PICK h : h = IF loaded THEN g ELSE BbLoads(g, BlockOut)
    OBVIOUS
  <2>3. inBlock /\ inBlock' = FALSE /\ Becomes(h) /\ UNCHANGED <<blocks, blk>>
    BY <1>4, <2>1, <2>2 DEF EndBlock
  <2>4. NamedFrom(blk + 1)' = NamedFrom(blk + 1)
    BY <2>3 DEF NamedFrom
  <2>5. GenOK(g) /\ CellsOK /\ BlocksOK /\ blk \in Nat
    BY <2>1 DEF Inv, PlaceOK
  <2>6. PICK T : T = NamedFrom(blk + 1)
    OBVIOUS
  <2>7. T \in SUBSET Symbols /\ T \in SUBSET NamedFrom(blk) /\ NamedFrom(blk) \in SUBSET Symbols
    BY <2>5, <2>6, NamedFromIs
  <2>8. GenOK(h) /\ Gone(h, T)
    <3>1. CASE loaded
      <4>1. h = g
        BY <2>2, <3>1
      <4> QED BY <1>1, <2>1, <2>3, <2>5, <2>6, <3>1, <4>1 DEF SpareInv
    <3>2. CASE ~ loaded
      <4>1. PICK alive : alive = BlockOut
        OBVIOUS
      <4>2. h = BbLoads(g, alive)
        BY <2>2, <3>2, <4>1
      <4>3. Agree(g, T)
        BY <1>1, <2>1, <2>3, <2>7, <3>2 DEF SpareInv, Agree
      <4> QED BY <2>5, <2>7, <4>2, <4>3, BbLoadsTakes
    <3> QED BY <3>1, <3>2
  <2>9. Generator' = h
    BY <2>3, <2>8, BecomesIs
  <2> QED BY <2>3, <2>4, <2>6, <2>8, <2>9
<1>5. CASE GenEnd
  <2>1. ~ inBlock /\ UNCHANGED <<blocks, blk, inBlock>> /\ Becomes(Emit(Generator, "HALT", 0, 0, 0))
    BY <1>5 DEF GenEnd
  <2>2. PICK g : g = Generator
    OBVIOUS
  <2>3. GenOK(g)
    BY <2>2 DEF Inv
  <2>4. reg' = g.reg
    BY <2>1, <2>2, <2>3, EmitSame DEF Becomes
  <2>5. NamedFrom(blk + 1)' = NamedFrom(blk + 1)
    BY <2>1 DEF NamedFrom
  <2>6. Gone(g, NamedFrom(blk + 1))
    BY <1>1, <2>1, <2>2 DEF SpareInv
  <2> QED BY <2>1, <2>4, <2>5, <2>6 DEF Gone, Generator
<1> QED BY <1>1, <1>2, <1>3, <1>4, <1>5 DEF GenNext

\* reg_alloc hands out no spare register, and gencode begins outside of every block.
LEMMA SpareHandOver ==
  ASSUME PassesInv, GenPart, HandOver
  PROVE  SpareInv'
<1>1. raPhase = "done"
  BY DEF HandOver
<1>2. /\ reg' = [s \in Symbols |-> IF s \in Vars THEN sreg[s] ELSE NoRegister]
      /\ ~ inBlock'
  BY DEF HandOver, GenPart, GenInit
<1>3. /\ sreg \in [Vars -> R!Regs \cup {R!NoRegister}]
  BY DEF PassesInv, R!IInv, R!TypeOK
<1>4. R!Regs \cap Spare = {} /\ R!NoRegister \notin Spare /\ NoRegister \notin Spare
  BY BoundsAssumption, SpareIs DEF R!Regs, R!NoRegister, NoRegister
<1>5. \A s \in Symbols : reg'[s] \notin Spare
  BY <1>2, <1>3, <1>4
<1>6. NamedFrom(blk + 1)' \subseteq Symbols
  <2>1. \A i : Named(i) \subseteq Symbols
    BY DEF Named, Touched, Uses, Defs, Symbols
  <2> QED BY <2>1 DEF NamedFrom
<1>7. Generator'.reg = reg'
  BY DEF Generator
<1>8. Gone(Generator', NamedFrom(blk + 1)')
  BY <1>5, <1>6, <1>7 DEF Gone
<1> QED BY <1>2, <1>8 DEF SpareInv

\* With gencode's invariant the records agree in whatever block is begun.
SparePart ==
    blocks # << >> /\ FrontEnd!NoShift /\ TestsCompare => SpareInv

\* A step of the compiler.
LEMMA SpareStep == PassesInv /\ GenPart /\ SparePart /\ [Next]_vars => SparePart'
<1> SUFFICES ASSUME PassesInv, GenPart, SparePart, [Next]_vars PROVE SparePart'
  OBVIOUS
<1>1. (FrontEnd!NoShift' <=> FrontEnd!NoShift) /\ (TestsCompare' <=> TestsCompare)
  BY SameProgram DEF FrontEnd!NoShift, TestsCompare
<1>2. CASE BuildAndAnalyse \/ Allocate \/ WriteFile \/ Read \/ Run \/ UNCHANGED vars
  <2>1. UNCHANGED <<genVars, loopSpare>>
    BY <1>2 DEF BuildAndAnalyse, Allocate, WriteFile, Read, Run, vars
  <2>2. blocks' = blocks /\ (SpareInv' <=> SpareInv)
    BY <2>1 DEF genVars, SpareInv, Agree, Gone, Generator, NamedFrom
  <2> QED BY <1>1, <2>2 DEF SparePart
<1>3. CASE HandOver
  BY <1>3, SpareHandOver DEF SparePart
<1>4. CASE Generate
  <2>1. blocks # << >> /\ GenNext
    BY <1>4 DEF Generate
  <2>2. blocks' = blocks
    BY <2>1 DEF GenNext, BeginBlock, GenBinop, GenInput, GenOutput, GenBranch, GenAssign, GenJump,
      GenLabel, EndBlock, GenEnd, Instruction
  <2>3. Inv /\ SpareInv => SpareInv'
    BY <1>4, CompilersSymbols, SpareGenerate
  <2> QED BY <1>1, <2>1, <2>2, <2>3 DEF SparePart, GenPart
<1> QED BY <1>2, <1>3, <1>4 DEF Next

\* What a block names is where the invariant says.
LEMMA SpareGives ==
  ASSUME Inv, SpareInv
  PROVE  SpareAgrees
<1> SUFFICES ASSUME ~ loopSpare, NEW i \in Current, NEW s \in Named(i), reg[s] \in Spare
             PROVE  spare[reg[s]] = s
  BY DEF SpareAgrees
<1>1. inBlock /\ ~ loaded
  BY CurrentIs
<1>2. blk \in DOMAIN blocks /\ blk \in Nat /\ BlocksOK
  BY <1>1 DEF Inv, PlaceOK
<1>3. i = blocks[blk].ins[k + 1] /\ k + 1 \in DOMAIN blocks[blk].ins
  BY CurrentIs DEF Current
<1>4. s \in NamedFrom(blk)
  BY <1>2, <1>3, NamedFromIs
<1>5. Agree(Generator, NamedFrom(blk))
  BY <1>1 DEF SpareInv
<1> QED BY <1>4, <1>5 DEF Agree, Generator

\* get_reg, gen_bb_loads and free_regs keep the symbols' registers and registers[]
\* alike for what is still to come: when an instruction's turn comes, a symbol of it
\* that is said to be in a spare register is there (gen.c:96-160), unless a jump back
\* has left one behind.
THEOREM SpareAgreesAlways == Spec => [](FrontEnd!NoShift /\ TestsCompare => SpareAgrees)
<1>1. Init => SparePart
  BY DEF Init, SparePart
<1>2. (PassesInv /\ GenPart) /\ SparePart /\ [Next]_vars => SparePart'
  BY SpareStep
<1>3. PassesInv /\ GenPart /\ SparePart => (FrontEnd!NoShift /\ TestsCompare => SpareAgrees)
  <2>1. GenInit => SpareAgrees
    BY DEF GenInit, SpareAgrees, Current
  <2> QED BY <2>1, SpareGives DEF GenPart, SparePart
<1> QED BY <1>1, <1>2, <1>3, GenPartAlways, PTL DEF Spec

=============================================================================
