# A model of milac

milac compiles Mila, a small Pascal, to the TINY machine: parser and syntax
tree, three address code, basic blocks, optimization passes, linear scan
register allocation, code generation; `tm.c` is the machine. The program is
sequential, so what is hard here is not interleaving but the state that passes
hand to one another, data structures changed while they are walked, iterations
that must end in the right place, and bounded resources.

## Inventory

| part | source | state | operations | what makes it correct | status |
|---|---|---|---|---|---|
| hash table | hashtab.c | slots with an inline head and a malloc'ed chain | insert, lookup, update, remove, iterate | it is a map; iterating survives a callback that removes | modelled: `HashTab`, `KeyMap` |
| symbol table | symtab.c | the table, counters of temporaries and labels | insert, insert constant, temporaries, remove, iterate | names are unique, numbers fresh | partly: `HashTab`, `TacGen` |
| syntax tree | tree.c | nodes with their instruction | one constructor per construct, constant folding | the code computed is the program's | partly: `TacGen` |
| three address code | 3ac.c | instruction list | `tac_gen`, `gen` | labels and temporaries are fresh, jumps have targets | `Tac`, `TacGen` |
| basic blocks | 3ac.c `bb_build` | blocks with instructions, next, jmp, pred | one pass over the list | the blocks are the list, their edges its flow graph | modelled: `BasicBlocks` |
| live variables | lva.c | def, use, in, out per block | `lva`; `lva_bb` within a block | in and out are exactly the live variables | modelled: `LiveVars`, `CodeGen` |
| optimizer driver, small passes | optimize.c | the list of passes of a level | `opt_algebra`, `opt_unused_vars`, `optimize` | each pass keeps what the program prints; live variables are fresh where they are used | modelled: `Optimize`, `Optimizer` |
| constant propagation | const_prop.c | the constants known behind each instruction | `cp_propagate`, `cp_fold` and their rounds | only what is constant on every way is replaced; the rounds end | modelled: `ConstProp` |
| block compaction | bb.c | the graph and its predecessor arrays | `bb_compact`'s three walks | no reachable block is lost, no edge leads to a freed one | modelled: `Compact` |
| copy propagation | copy_prop.c | a block, its out set | `cpp_replace`, `cpp_bb` and their rounds | a copy's reader sees the copied value | modelled: `CopyProp` |
| common subexpressions | cse.c | the table of nodes of a block | table walk, `gen_node`, `gen` | what is shared has the same value; what is wanted is written | modelled: `Cse` |
| register allocator | regalloc.c | intervals, active list, register stack | its four loops | one home each, no register shared | modelled: `RegAlloc`, `Homes` |
| code generator | gen.c, code.c | the symbols' registers and states, the spare registers' symbols, pending jumps, the machine code | one case per instruction, a block's begin and end | every operand has a register; the machine prints what the code says | modelled: `CodeGen` |
| TINY machine | tm.c | the two memories, registers, counters; the prompt's variables | reading a program, one step, one letter of a command line | it stays in its memories; a command does what it is asked; a cleared machine repeats itself | modelled: `Tm`, `TmShell` |
| driver | main.c | | the order of the phases | each phase finds what the one before leaves | partly: `Compiler`, `Optimizer` |
| parser, scanner, tracing | mila.y, mila.l, util.c, trace.c | | | | not modelled: generated, or input and output |
| lists, stack | list.c, queue.h, stack.c | | | | used as sequences |

The parts meet in `main`: `tac` gives `bb_build` an instruction list, `bb_build`
gives the passes a list of blocks, each pass changes it in place, `lva` leaves
its sets in the blocks, `reg_alloc` leaves a register or a memory cell in each
symbol, and `gencode` reads the blocks, the sets and the symbols and writes the
file that the machine reads. All symbols live in one hash table that passes walk
with callbacks.

`PROJECT.json` lists the hazards found while reading, with the lines where they
bite and the properties about them.

## Modules

* `Tac`: the instruction record, what an instruction reads and writes
  (`tac_is_binop`, the cases of `defuse_bb`).
* `Liveness`: what live means, over paths, for any graph and for an instruction
  list. A definition to compare with, not a model of code.
* `TacGen`: `tac_gen` and `gen`, from a syntax tree to instructions, with the
  numbering of temporaries and labels and the folding of constants. Its operators
  are recursive; only model checking uses it.
* `BasicBlocks`: `bb_build`. A block is named by the position of the instruction
  it was made for, so that the order of names is the order of the list. One
  action per case of the loop: `PlaceFirst` (the block is empty: the instruction
  goes in whatever it is, and no edge is made), `PlaceLabel`, `PlaceJump`,
  `PlaceBranch`, `PlacePlain`. `pred` has the code's bound, and a full one drops
  the entry.
* `LiveVars`: `lva`. A step is one block of one loop: `LvaInit`, `DefUse`,
  `StartWalk` (the test of `while(changed)`), `VisitBlock`, `Finish`. A visit
  computes in before it adds to out, as the code does.
* `Analysis`: composes the two: `bb_build`, then `lva` on the graph it left
  (level 0 of `optimize`). It extends `BasicBlocks` and instantiates `LiveVars` with
  its graph replaced by what `BasicBlocks` holds.
* `RegAlloc`: `reg_alloc` with its loops as phases: `Intervals` (one
  instruction), `UnusedVars`, `FillIntervalList` (one symbol, in any order, for the
  hash table's order), `InitRegs`, `LinScan` (one interval: expire, then assign
  or one of the two ways to spill), `PlaceInMemory`, `PlaceInRegister`. Which of
  several places with equal keys an insertion takes follows from the code: behind
  all of them.
* `Homes`: what `RegAlloc` promises, with no list and no order.
* `HashTab`: items at addresses, a head inline in each slot, `malloc` that may
  fail, `strdup` that may fail without being noticed (the item has data and no
  name, and the call returns `HASH_OK`), removal that copies the successor over a
  head, leaves its item behind and then returns NULL, and `hash_tab_iterate` one
  callback per step, holding the pointer it has read. To remove an item behind one
  without a name compares with NULL: the table's life ends there (`IterateCrashes`).
  The calls are those the compiler makes: a name is inserted when a lookup missed
  it, updated when one found it, and removed only by a callback, which removes
  what it was given.
* `KeyMap`: the map its callers can count on, with one call and its result visible.
  An insertion that reports success may lose the name; then every later one of the
  same hash is lost (`deaf`), as those of hash 0 are from the start. What is lost is
  found by no lookup, but an iteration gives it to its callback (`lost`). A removal
  returns what was stored, or NULL if another name has the same hash.
* `TacMachine`: what three address code means, as a machine over a record. A
  definition to compare with, not a model of code: the optimizer's passes and the
  generated code must print what it prints. It says where nothing is promised: a
  variable read that was never written, a result or a compared difference outside
  of the word.
* `CodeGen`: `gen`, the functions below it, the emitters and `lva_bb`. One action
  per case of `gen_ins` (the binary operations together, as there), `BeginBlock`,
  `EndBlock`, `GenEnd`. Every instruction action ends with `free_regs`. The functions
  of gen.c that change the symbols, the spare registers and the code map a record
  of these (`Generator`) to the record they leave.
* `TmIsa`: the instruction set: operations, how a line is read, what words are, when
  a jump is taken.
* `Tm`: `readInstructions`, a line per step, and `stepTM`, a disjunct per
  instruction kind. Words wrap at `WordBits`. An access past an array's end is an
  outcome of its own ("outside"), and what would kill the process ("killed": the
  quotient of the smallest word and -1) another.
* `TmShell`: the prompt of tm.c: `ReadProgram` (with main's exit), `TypeLine`, one
  action per letter, `Execute` (a turn of the loops of `g` and `s`), `LineEnd`.
* `Compiler`: extends `CodeGen` and composes it with `Analysis`, `RegAlloc` and `Tm`, each
  over the state the one before has left (level 0, as in `main`), and runs the result.
  `HandOver` gives `CodeGen` its blocks and symbols; `WriteFile` writes the program and
  chooses the input.
* `Optimize`, `CopyProp`, `Compact`, `ConstProp`, `Cse`: the passes, as operators from
  a graph to a graph, so that a pass is one step. `FlowCode` holds what they share.
  Where the compiler itself would crash, the graph they return has `failed` set:
  "null" for NULL followed, "zero" for a division by a constant 0, "freed" for a
  block used after it was freed.
* `Optimizer`: `bb_build`, then the passes of the chosen level in their order, an
  action each, with the rounds of `const_prop` and `copy_prop` as steps.
* `PassesRight`: its properties, and the conditions they need (below).
* `MC...`: instances for TLC. `...Proofs`: the theorems; those of `LivenessProofs` are
  about liveness itself, and `BasicBlocksProofs`, `LiveVarsProofs` and
  `RegAllocProofs` rest on them.

A definition named `Mut...` stands in front of the one it is a slip of. None is
used by a specification; putting it in the other's place shows that a property
notices.

## What the runs show

| run | configuration | shows |
|---|---|---|
| regalloc | `RegAlloc.cfg` | five intervals in every interleaving and all conditionals over eight instructions, with three registers: registers are neither lost nor handed out twice (`RegistersConserved`), meeting intervals never share (`NoSharing`), every variable has one home (`OneHome`), spilling needs pressure (`SpillOnlyUnderPressure`), in code without loops no needed value is overwritten (`LiveValuesKept`), `Homes` is implemented, and the allocator returns |
| regalloc_assert | `RegAllocAssert.cfg` | `ASSERT(i->start)` does not hold: a loop may write out a variable, in its second turn, that the list sets only further down |
| basicblocks | `BasicBlocks.cfg` | on the code of 1926 programs: nothing is lost or moved (`CodeOrder`), pred mirrors next and jmp (`PredsMatchEdges`), and the blocks are the code's flow graph (`EdgesFollowCode`) where no boundary is missed |
| livevars | `LiveVars.cfg` | on 4185 graphs: nothing is ever too live (`NeverTooLive`), all that is live is found (`AllLiveFound`), and the loop ends |
| analysis | `Analysis.cfg` | end to end on 420 programs: `bb_build` gives `lva` the pre-headers it relies on (`LoopsHavePreHeaders`), and a block's in set is what the instruction list's own liveness says (`LiveInCode`) |
| hashtab | `HashTab.cfg` | the table implements `KeyMap` (`ImplementsKeyMap`), with `malloc` and `strdup` failing at any time; an iteration gives each name that lookups find once although its callback removes some, and else only what is lost (`IterationComplete`), and no pointer in the table or in the iterator leads to freed memory (`NoDangling`) |
| tm | `Tm.cfg` | 36 programs at a prompt where any three of fourteen lines are typed: a line of one letter executes as many instructions as it asks for (`StepsAsAsked`), a program repeats its output after each clear, whatever was run before (`ClearedRunsRepeat`), the counters add up (`CountersAddUp`), the machine leaves its memories only by the one cell the bounds tests admit (`OutsideOnlyAtSize`), and every command comes to its end or to an IN that waits for the user, as none of these programs loops for ever (`CommandsEnd`) |
| compiler | `Compiler.cfg` | 175 programs on three inputs through all phases and the machine: the records of the spare registers agree where it matters (`SpareAgrees`), all instructions name registers (`RegistersNamed`), what is printed is what the three address code prints (`OutputRight`), and the machine stops in the same way, with all printed (`EndsAlike`), where `Covered` holds |
| compiler_lost | `CompilerLost.cfg` | a small test.mila prints a value that was never assigned (`WritesAssigned`) |
| optimizer | `Optimizer.cfg` | 823 programs at three levels with two orders of the symbol table: each pass keeps what the code prints (`AlgebraRight`, `UnusedRight`, `CopyPropRight`, `ConstPropRight`, `CseRight`) where its conditions hold, leaves no NULL operand and every label once (`GraphOK`), every round of `const_prop` and `copy_prop` that asks for another leaves less to do (`LoopsEnd`), and `copy_prop` and `cse` never miss a live variable (`LiveKnown`) |
| optimizer_test | `OptimizerTest.cfg` | test/cse.mila prints something else at level 1 than at level 0 (`OutputKept`) |
| hashtab_zero | `HashTabZero.cfg` | a name whose hash is 0 is stored where no lookup finds it (`FindsInserted`) |

### What the code does not do

* **Slot 0.** `hash_tab_insert` takes a slot for occupied when the head's key
  equals the hash, and an empty head's key is 0. The first item of slot 0 is
  chained behind an empty head, where `hash_tab_lookup` and `hash_tab_iterate` stop.
  Such a variable is not found after its declaration. The run `hashtab` has no
  name in slot 0; the theorem about `KeyMap` covers those too.
* **A name that could not be copied.** `hash_tab_insert` does not look at what
  `strdup` returns. The item without a name ends the lookups of its chain, so that
  what was behind it already stays as it was found and what comes later is never found.
  A callback that removes such an item, or one behind it, dies in `strcmp`.
  (`new_symbol` copies the name for itself as well; that copy is taken to succeed.)
* **What a removal returns.** For a head with a successor `hash_tab_remove` returns
  NULL and not the data, so a caller cannot tell it from a name that was not there.
  The compiler's one caller does not look.
* **`ASSERT(i->start)`.** Intervals follow the list, not the jumps.
* **Missed block boundaries.** A block that is still empty takes the next
  instruction before its kind is looked at. When a program or the body of a
  loop or conditional begins with a loop or with a test of a variable, a TLABEL
  or a TIFF is swallowed, its edges are not made, and the following blocks hold
  what belongs to the next. `CodeOrder` still holds (the emitted code follows the
  list, so it is not affected), `EdgesFollowCode` and `LiveInCode` do not:
  `NoShift` is their precondition.

* **Dropped values.** `lva_bb` walks back from the last but one instruction, so what
  the last instruction of a block reads counts as unused: a spilled variable is
  dropped from its register without a store. `test/test.mila` prints 2073600 where
  it should print 518400 (`WritesAssigned`).
* **A level that prints something else.** `copy_prop` drops a copy although an
  assignment still reads it. `test/cse.mila` prints 8 at level 0 and 4 above
  (`OutputKept`); `read b; a := 1 / b; write a` becomes `read b` and a write of a
  temporary nothing assigns.

### Conditions

Two compositions hold only on conditions, written out in the specification one by
one. Each was dropped in turn to see that a program of the instance then violates
the property.

`Compiler!Covered`, for `OutputRight` and `EndsAlike`:

| condition | without it |
|---|---|
| `NoShift` | `bb_build` misses a boundary (above) |
| `OrderedTests` | the jumps behind `=` and `<>` are taken when they should not be, and behind a test that is no comparison no jump is emitted (`ASSERT(0)`): the last instruction, whatever it is, is patched |
| `RegistersApart` | intervals do not see that a loop comes back, so two variables alive together share a register |
| `WrittenFirst` | a spilled variable that is read before the list writes it has state `VS_EMPTY` and is not loaded |
| `LastReadsKept` | dropped values (above) |
| `NoOneLess` | `x := 1 - x` becomes a decrement |
| `~ loopSpare` | a jump back stores nothing, and the symbols in spare registers keep them (gen.c:367-376) |

`PassesRight`:

| pass | conditions | without them |
|---|---|---|
| `opt_algebra` | `NoReciprocal` | `1 / x` becomes `x` |
| `opt_unused_vars` | none | |
| `copy_prop` | `NamesMoveAlone` | the instruction in front is renamed though others read its old name (`a := 1; a := b; write a` prints 1) |
| | `SourcesKept` | a reader is given the source of a copy, which has been written since |
| | `CopiesReadDirectly` | a copy goes that an assignment still reads |
| `const_prop` | `EdgesRight` | `bb_build` missed a boundary, or a walk of `bb_compact` left a wrong edge |
| | `RememberedFirst` | `prev` is NULL (`write 5` as the first statement crashes the compiler) |
| | `ConstantsStay` | a variable written again, in a loop or from a variable, keeps its old constant |
| | `NoZeroDivisor` | a constant quotient by 0 is computed in the compiler, which dies |
| | `OnlyElseGoes` | the block removed was a loop's, a then's, or shared: what follows is lost, or a freed block is used |
| `cse` | `Settled` | a variable written twice in a block keeps its first node |
| | `FirstNames` | of two names of a result that are alive behind the block one is not assigned |
| | `KeysApart` | keys join two numbers without a separator: nodes 1 and 11, 11 and 1 (numbers go on from block to block, so a block may have both) |
| | `TestsComputed` | the test's symbol has no node: NULL is followed |

Two things differ from the compiler where a property does not look. `Cse` fails at
the pass that leaves an operand NULL, the compiler where it is next used. And at the
prompt, `s` or `g` leave their count in `stepcnt`, so the letters behind them on the
same line execute as many instructions again; `TmShell` models it, and
`StepsAsAsked` is about lines of one letter (`OneLetterExecutes`). The last line of
a program is read, counted and stored twice when the file ends with a newline.

### Bounds

* Three registers, as in the build, with five variables: two spills can be
  pending, and every way in which an interval can lie to the active ones occurs.
* Programs of `MCBasicBlocks` and `MCAnalysis` nest two compound statements: a
  loop in a loop, a branch in a loop, a loop behind a branch. `bb_build` looks one
  instruction ahead at most, and `lva`'s walk is decided within one loop and its
  pre-header.
* Four blocks are a pre-header, a loop of two and its exit, or two loops closing
  at one header; bodies use, copy and redefine two variables. Graphs without
  pre-headers are left out because `lva` really fails on them (four blocks are
  enough to see it) and `bb_build` does not make them unless it misses a boundary.
* Three names in a slot give chains with a first, a middle and a last item, two
  malloc'ed items the reuse of an address and an exhausted heap; a second slot
  shows the iteration going on. The three names are alike, and so are the two values:
  TLC identifies states that differ by exchanging them, which is sound as the model
  and its properties nowhere tell them apart. `Malloc` returns the lowest free address,
  and the contents of freed memory are dropped: nothing reads them (`NoDangling`).
  Deadlock is not checked: after a crash nothing happens any more.
* `MaxPredecessors` is the code's 16. No program comes near it, as each label the
  compiler makes is the target of one jump.
* `Tm`: words of 4 bits, so that arithmetic wraps; six instructions and two cells,
  with addresses from one below to one above the sizes; three lines at the prompt
  reach a run, a clear or another command behind it, and a run again. The answers
  to IN are a negative one, 0 and 3.
* `Compiler`: two allocated registers instead of three, with three variables and six
  temporaries, so that programs of this size spill and fill the spare registers. `MaxTurns`
  cuts a run off at five jumps by LDA, which is more than any of the inputs needs
  in a program that is right. `MaxWord` is 127 and the inputs stay far below. The
  three inputs take both ways of each test, two turns of a loop, and meet the
  divisor 0; one is too short for the programs that read in a loop.
* `Optimizer`: the first families give each pass statements in all pairs, then a loop's
  body, the two ways of a test, decided tests and constants before a loop; the last
  holds programs that break the conditions. `MaxSteps` cuts a run off at 60
  instructions; what a cut-off run has printed must begin alike. The two orders of
  the symbol table are each other's reverse, as far as order matters to a pass.

### Fairness

`RegAlloc`, `BasicBlocks` and `LiveVars` assume weak fairness of their next-state
relation: each is a loop of a sequential program that waits for nothing. `TmShell`
assumes it of reading the program, the letters and the execution, which go on by
themselves, but for an IN instruction, which waits for a line as the prompt does:
nobody has to type (`TypeLine`) or to answer. So `CommandsEnd` ends at a waiting IN. The others assume none; their
properties are about states and steps. That the optimizer's rounds end is stated as
a measure that falls (`LoopsEnd`), which needs no fairness.

## What is proved

TLAPS checks these for every value of the constants.

* `RegAllocProofs`: types, `RegistersConserved`, `NoSharing`, and that `RegAlloc`
  implements `Homes`, for every instruction list, set of variables and number of
  registers. `NoSharing` alone is not inductive. `IInv` adds what each phase leaves
  to the next: intervals lie within the instructions seen, `intps` is sorted by
  start and lists exactly the referenced variables (`IntpsInv`), the active list is
  sorted by end, and a scanned interval no longer active is in memory or ended
  before all that are still to come (`ActiveInv`). The refinement follows: a
  register popped is held by no active interval, and an inactive one in the same
  register does not meet the new one.
  `OneHomeAlways` adds what the last two loops have done so far (`PlaceInv`).
  `SpillOnlyUnderPressureAlways` is a pigeonhole: when a variable is spilled the
  stack is empty, so by `RegistersConserved` the active intervals hold all the
  registers, and all of them and the new one meet where the new one starts.
  `LiveValuesKeptAlways` goes from intervals to values: where the list has no jump
  back, no unreachable instruction and no read before the first write
  (`WithoutLoops`), a variable live behind an instruction is written before and
  read after it in list order, so its interval covers it.
* `BasicBlocksProofs`: types, `CodeOrder` and `EdgesFollowCode`, for all
  well-formed instruction lists (`ProgramsAssumption`: labels are fresh, jumps have
  targets, a TJMP is followed by a TLABEL; TLC evaluates it on all that `TacGen`
  makes). `OrderInv` says that `cur` runs behind the placed instructions except
  across a TJMP, so the blocks behind it are empty. `EdgeInv`, under `NoShift`, says
  that `cur` is the last block begun, that a block holds its instructions without a
  gap, that blocks left behind are closed (their successors begin where control
  goes) and that the others have no successor.
  `PredsMatchEdgesAlways` needs no `NoShift`, but that `pred` has room (`RoomForPreds`:
  fewer than `MaxPredecessors` jumps to any block), since a full array drops the
  block. That bounds `pred` because `cur`'s edges are set once, when it is left: besides its
  jumpers so far a block has at most one predecessor, and that only once it is `cur`
  (`PredInv`).
  The same module proves `Analysis`, where the phases meet.
  `LoopsHavePreHeadersAlways`: an edge leads back only from a TJMP (`BackJump`), the
  block before its label falls into it, and so the header has a predecessor
  before it that leads nowhere else. This is the assumption of `LiveVarsProofs`.
  `LiveInCodeAlways`: an in set that `lva` has computed is what the instruction list's
  own liveness says at the block's first instruction. `Fixpoint` and `NeverTooLive`
  are carried over (`Joined`); the points inside of a block step to one another as
  the instructions do, so the points' liveness solves the equations of the
  instruction list and the other way round, and two least solutions agree.
* `LivenessProofs`: facts about numbers the others rest on (induction for sets of
  naturals, the n-th element of a finite set), and that liveness over paths solves the equations of liveness and is below
  every solution of them, for any finite graph. What a path of at most n steps finds is a
  recursive function of n. That nothing is added after as many steps as there are
  nodes is shown by least counterexamples, the naturals being well-founded as initial
  segments are under inclusion: the induction theorems themselves cannot be
  instantiated.
* `LiveVarsProofs`: types, that the result solves the equations of liveness (`Fixpoint`;
  TLC checks what follows from it) and that the sets are below every solution
  (`BelowSolutions`): together, `lva` computes the least solution. `Fixpoint` needs
  the argument the code leaves unsaid. `changed` looks at out sets only, and in the
  last walk an in set may still change. At a back edge to a header, what the loop's
  last block missed shows up at the pre-header, which is visited after the header
  and whose out set is the header's in set of the walk before (`PreHeaderAgrees`,
  `BackEdges`); then out changes there and another walk follows. So the assumption
  is `PreHeaders`, which `bb_build` meets (above). What is live at the points of the
  instructions solves the equations too and is below every solution, which
  gives `NeverTooLive` in every state and `AllLiveFound` at the end.
* `HashTabProofs`: types, `NoDangling`, `IterationComplete` and the refinement of
  `KeyMap`, for any names, hash function, number of slots and supply of memory. No set of
  items links only to itself (`Acyclic`), so a chain is followed without counting:
  what holds of an item if it holds of the next one holds of all. A slot is described by
  the data along its chain (`Contents`) and by the positions in front of the first item
  without a name, which are those that lookups come to (`Named`); a lemma per operation
  says how it changes the two. That a removal copies the successor over a head is why an
  iteration needs `IterInv`: the names still to come are those behind the pointer it
  holds, plus the slots to come, and a callback that removes what it was given takes
  nothing from either. What is behind an item without a name was inserted and is lost,
  also if a name of its kind is due from a position before it, which is why `IterInv`
  counts the names to come twice, with and without those. `TableImplementsKeyMap` has
  no condition: where `strdup` fails, and for hash 0, the map loses the name as well.

* `TmProofs`: for every size of the memories, word width, program and typed lines:
  types (`ShellTypeOK`), `OutsideOnlyAtSize` and `StepsAsAsked`. The inductive invariant
  adds what the steps need from one another: that the machine is only stepped with a
  program read and a good result (`ExecuteInv`), and what a line of one letter has
  asked for and been given so far (`LineInv`: counted instructions and the count left
  add up to the count asked). `CountersAddUp`: a step raises one opcode's
  counter, one class's and the total, and nothing else changes one, a clear neither; sums over sets are shown
  to be well defined first, as the provers know none. `ClearedRunsRepeatAlways`: without IN,
  `stepTM` is a function of the registers, the memory and the output (`NextOf`,
  `StepIsNext`). What comes of the machine a clear leaves is the least set
  closed under it (`After`); of two machines in it one comes of the other
  (`AfterInOrder`), and output only grows. Each run printed what some machine in that set
  has printed (`ClearedInv`). `PowersAssumption` gives the provers that powers of 2
  are positive, which they do not know; TLC evaluates it.
* `OptimizeProofs`: the two passes of optimize.c keep what a program prints, for all
  codes and inputs and any `MaxSteps`.
  `AlgebraKeepsSteps`: a step of the code `opt_algebra` leaves is the step of the code
  before, in every machine state, for every operation, operand and rewriting but
  `1 / x`; so the two runs go side by side and end alike (`AlgebraKeepsOutput`). Where a
  product or sum overflows, or a variable was not written, nothing is claimed, as in
  `Meaningful`.
  `UnusedKeepsOutput`: what `opt_unused_vars` leaves runs ahead of the code before. `Leaves`
  says where in that code the instructions left stand; `Beside` relates two machines that
  agree on the input, the output and all variables somebody reads, the second in front of the
  instruction left that the first comes to next. A step of the first is a step of the
  second or none (`BesideStep`), and what the second prints after that begins with what it
  has printed (`RunGoesOn`). A jump needs its label to stand once: dropping
  assignments must not change where it leads.
  `UnusedAlwaysRight` brings it into `Optimizer`: if `GraphOK` always holds, `UnusedRight` does.
  `AlgebraAlwaysRight` needs no such condition: what stands in front of `opt_algebra` is
  `bb_build`, `const_prop` and `bb_compact`, and these leave blocks of typed instructions
  (`NoNullOperandAlways`). The danger there is the constant that is NULL, which
  `cp_propagate` notes for the result of an operation of constants and hands on.
  `Reached` says of the blocks done so far that such a constant is known only behind an
  operation of constants or later in list order (`Spot`); `CodeGrounded` says so of the
  code as one list. `cp_fold` stops at the first of these operations at the latest
  (`SpotHits`), so that `prev`, which lies in front of it, knows no NULL (`CpFoldIn`).
  A pass over blocks is a fold; `FoldIn` and `FoldStays` show that it stays in a set its steps
  do not leave (`CompactIn`, `CpPropagateIn`). What `bb_build` hands over is typed
  by `TypeCorrect`'s invariant of `BasicBlocksProofs`, of which `Bp` is an instance
  (`BuildBridge`). The assumptions are that programs are well formed
  (`ProgramsAssumption`) and that `MaxWord` is a natural number.
  `CodeRelates` leads from the blocks to the whole
  code: a relation that holds of each block before and behind a pass, and of codes in a
  row if of each, holds of the graph's code. That a recursive definition has a
  value is shown each time by induction over the naturals as a set (`NatSetInduction`).
* `CodeGenProofs`: for all blocks, symbols and allocated registers, `RegistersAreNamed` and
  `HoldersAreKnown`. The first is not inductive: that a spare register can be found
  rests on three of them holding three symbols (`OneHolder`, `HasRoom`), that throwing
  one out does not take an operand's on the order of `get_reg`'s calls (`GetRegBinop`),
  and that a label patches a jump on the pending jumps (`JumpsOK`). `GenGiven` is assumed
  of the input: operands are symbols, a jump ends its block, and a TIFF stands right
  behind a comparison.
  The next section says which way the emitted jumps go, for all values. `OrderedJumps`
  is why `OutputRight` holds for ordered tests, `EqualityJumps` why it does not for the
  others.
* The rest of `CodeGenProofs` is the whole `Compiler`, for all programs, numbers of
  variables and up to three allocated registers (more would be spare ones).
  `RegistersNamedAlways`: `GenGiven` is no assumption there, but what the phases before
  leave. `B` and `R` are instances of `BasicBlocksProofs` and `RegAllocProofs` over the
  compiler's variables; a step of a phase is a step of theirs (the bridge lemmas), so
  their invariants hold throughout (`PassesInv`). A jump ends its block because a block
  bb_build has left is closed and the open one has none; registers and cells are the
  allocator's types; that the blocks of an instruction list can be numbered is a
  counting argument (`NthExists`).
  `SpareAgreesAlways` needs `SpareInv`: in a block, up to its jump, every symbol the
  block or what comes behind it names is where it is said to be; between blocks, and
  behind the jump, none of those named in what comes is in a spare register at all.
  `gen_bb_loads` leads from the first to the second (`BbLoadsTakes`), the begin of a
  block, which clears `registers[]` but no symbol, back. A jump back stores nothing;
  it keeps the second only where it leaves nothing behind, which is `~ loopSpare`.
  Both theorems have two conditions. `NoShift`: a missed boundary puts a jump into the
  middle of a block. `TestsCompare`, `OrderedTests`' first half: behind a test
  that is no comparison gen.c patches whatever instruction is the last.
  `NoSymbol` is assumed to be no integer, as NULL is no symbol.

## What is only model-checked

Termination of the loops (liveness is beyond the prover) and
what the compositions say of the meaning of whole programs: `OutputRight`,
`EndsAlike`, `LiveKnown`, `LoopsEnd`, the properties of the passes but `AlgebraRight` and
`UnusedRight`, and `GraphOK`, on which `UnusedRight` rests.

## What is not modelled

* The parser and scanner (generated from mila.y and mila.l), option handling, tracing
  and the printing of code: text, with no state the properties could tell apart.
* The text of a machine program: a line is a record of its numbers, or says that it is
  blank or cannot be read.
* The syntax tree's own table of nodes (tree.c:368 keys it by an uninitialized buffer;
  nothing looks a node up by that name), and `queue.h`, lists and stack, which are
  sequences here.
* `peephole` (gen.c), which does nothing.

## Plan

1. Model: the syntax tree's node table; the optimizer's passes followed by register
   allocation and code generation (levels 1 and 2 end to end).
2. Prove: the rest of `GraphOK` (types through `copy_prop` and `cse`; that a block is never
   joined twice, so that a label stands once, which needs the edges); the steps of `CopyProp` under
   `CopiesCovered`.
