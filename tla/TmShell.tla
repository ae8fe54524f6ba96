------------------------------ MODULE TmShell ------------------------------
(***************************************************************************)
(* The command loop of tm.c (doCommand and main): a line is typed, its     *)
(* first word is taken letter by letter as commands, and a command that    *)
(* leaves a positive stepcnt is followed by execution.  What only prints    *)
(* (h, t, r, an unknown letter) is one action.                              *)
(*                                                                         *)
(* A line is a word and what is behind it, numbers or Text that is none.  A *)
(* program that executes IN takes the next typed line instead of doCommand; *)
(* a line that is not a number is asked for again, which changes nothing.  *)
(***************************************************************************)
EXTENDS Tm, FiniteSetsExt

CONSTANTS
    Files,       \* the programs main reads
    Lines,       \* what a user types at the prompt
    Answers,     \* the numbers a user types at an IN instruction
    Text,        \* what getNum finds no number in
    MaxLines     \* bound: lines typed at the prompt

ASSUME ShellAssumption ==
    /\ MaxLines \in Nat
    /\ Text \notin Int
    /\ \A l \in Lines : l.word \in Seq(STRING) /\ l.nums \in Seq(Int \cup {Text})
    /\ Answers \subseteq Int

\* What a line of the program says; a program has one.
FileLines ==
    [kind : {"ins"}, loc : Int, op : STRING, a1 : Int, a2 : Int, a3 : Int]
      \cup [kind : {"blank", "bad"}]

ASSUME FilesAssumption == Files \subseteq Seq(FileLines) \ {<< >>}

VARIABLES
    mode,      \* "load", "prompt", "letter", "execute", "over"
    typed,     \* lines typed
    word,      \* the letters of the word still to be taken
    nums,      \* the rest of the line, not yet read
    cmd, stepcnt, iloc, dloc,
    \* What a property needs to remember: ...
    line,      \* the word typed last
    began,     \* the instructions counted when it was typed
    asked,     \* the step count it asked for, 0 if none
    earlier    \* the output of each run a clear has ended

shellVars == <<mode, typed, word, nums, cmd, stepcnt, iloc, dloc>>
history   == <<line, began, asked, earlier>>
vars == <<loadVars, runVars, shellVars, history>>

Init ==
    /\ LoadInit(Files)
    /\ mode = "load"
    /\ typed = 0
    /\ word = << >> /\ nums = << >>
    /\ cmd = "" /\ stepcnt = 0
    /\ iloc = 0 /\ dloc = 0
    /\ line = << >> /\ began = 0 /\ asked = 0 /\ earlier = << >>

\* main: exit(1) when the program cannot be read.
ReadProgram ==
    /\ mode = "load"
    /\ ReadLine \/ ReadEnd
    /\ mode' = CASE loading' = "reading" -> "load"
                 [] loading' = "read" -> "prompt"
                 [] OTHER -> "over"
    /\ UNCHANGED <<typed, word, nums, cmd, stepcnt, iloc, dloc, history>>

TypeLine ==
    /\ mode = "prompt"
    /\ typed < MaxLines
    /\ \E l \in Lines :
         /\ word' = l.word /\ nums' = l.nums /\ line' = l.word
    /\ typed' = typed + 1
    /\ stepcnt' = 0
    /\ mode' = "letter"
    /\ began' = sim["?ALL"]
    /\ asked' = 0
    /\ UNCHANGED <<loadVars, runVars, cmd, iloc, dloc, earlier>>

\* The next letter; stepcnt may be left from the one before.  stepResult is
\* srOKAY again when its execution begins.
TakeLetter(letters, count) ==
    /\ mode = "letter"
    /\ word # << >>
    /\ Head(word) \in letters
    /\ cmd' = Head(word)
    /\ word' = Tail(word)
    /\ stepcnt' = count
    /\ mode' = IF count > 0 \/ Head(word) = "g" THEN "execute" ELSE "letter"
    /\ result' = "okay"
    /\ UNCHANGED <<loadVars, typed, line, began>>

Abs(n) == IF n < 0 THEN -n ELSE n

\* getNum reads nums[i]; it reads nothing of a text, nor past it.
IsNumber(i) == i \in DOMAIN nums /\ \A j \in 1 .. i : nums[j] # Text

\* "Step count?" is asked of a text, and stepcnt is what it was.
StepCommand ==
    /\ TakeLetter({"s"}, CASE nums = << >> -> 1
                           [] IsNumber(1)  -> Abs(nums[1])
                           [] OTHER        -> stepcnt)
    /\ nums' = IF IsNumber(1) THEN Tail(nums) ELSE nums
    /\ asked' = stepcnt'
    /\ UNCHANGED <<dMem, reg, sim, output, iloc, dloc, earlier>>

\* stepcnt is 1 for the test and 0 again when the loop begins.
GoCommand ==
    /\ TakeLetter({"g"}, 0)
    /\ UNCHANGED <<dMem, reg, sim, output, nums, iloc, dloc, asked, earlier>>

PrintCommand ==
    /\ TakeLetter({"h", "t", "p", "r", "unknown"}, stepcnt)
    /\ UNCHANGED <<dMem, reg, sim, output, nums, iloc, dloc, asked, earlier>>

AnalyzeCommand ==
    /\ TakeLetter({"a"}, 0)
    /\ UNCHANGED <<dMem, reg, sim, output, nums, iloc, dloc, asked, earlier>>

\* Where a listing of printcnt cells from loc ends.
Listed(loc, printcnt, size) ==
    IF loc < 0 \/ loc >= size \/ printcnt <= 0 THEN loc
    ELSE IF loc + printcnt > size THEN size ELSE loc + printcnt

\* A command reads two numbers; with more behind them it prints a question only.
ListFrom(loc, size) ==
    LET from  == IF IsNumber(1) THEN nums[1] ELSE loc
        count == IF IsNumber(2) THEN nums[2] ELSE 1
    IN  IF nums' # << >> THEN from ELSE Listed(from, count, size)

ListCommand ==
    /\ TakeLetter({"i", "d"}, stepcnt)
    /\ nums' = CASE IsNumber(2) -> Tail(Tail(nums))
                 [] IsNumber(1) /\ ~ IsNumber(2) -> Tail(nums)
                 [] OTHER -> nums
    /\ iloc' = IF Head(word) = "i" THEN ListFrom(iloc, IADDR_SIZE) ELSE iloc
    /\ dloc' = IF Head(word) = "d" THEN ListFrom(dloc, DADDR_SIZE) ELSE dloc
    /\ UNCHANGED <<dMem, reg, sim, output, asked, earlier>>

MutClearCommand ==
    /\ TakeLetter({"c"}, 0)
    /\ iloc' = 0 /\ dloc' = 0
    /\ reg' = [r \in RegNos |-> 0]
    /\ earlier' = Append(earlier, output)
    /\ output' = << >>
    /\ UNCHANGED <<dMem, sim, nums, asked>>

\* The printed lines of a run are kept apart from those of the next.
ClearCommand ==
    /\ TakeLetter({"c"}, 0)
    /\ iloc' = 0 /\ dloc' = 0
    /\ reg' = [r \in RegNos |-> 0]
    /\ dMem' = ClearedMemory
    /\ earlier' = Append(earlier, output)
    /\ output' = << >>
    /\ UNCHANGED <<sim, nums, asked>>

QuitCommand ==
    /\ mode = "letter" /\ word # << >> /\ Head(word) = "q"
    /\ mode' = "over"
    /\ UNCHANGED <<loadVars, runVars, typed, word, nums, cmd, stepcnt, iloc, dloc, history>>

MutLineEnd ==
    /\ mode = "letter" /\ word = << >> /\ result = "okay"
    /\ mode' = "prompt"
    /\ UNCHANGED <<loadVars, runVars, typed, word, nums, cmd, stepcnt, iloc, dloc, history>>

LineEnd ==
    /\ mode = "letter" /\ word = << >>
    /\ mode' = "prompt"
    /\ UNCHANGED <<loadVars, runVars, typed, word, nums, cmd, stepcnt, iloc, dloc, history>>

MutStepsDown(n) == n - 1
MutStepsLeft(n) == IF cmd = "g" THEN n + 1 ELSE n
\* g counts up from 0, the other letters count down.
StepsLeft(n) == IF cmd = "g" THEN n + 1 ELSE n - 1

GoesOn == result' = "okay" /\ (cmd = "g" \/ stepcnt' > 0)

\* One turn of the execution loops.
Execute ==
    /\ mode = "execute"
    /\ iloc' = reg[PC]
    /\ \E n \in Answers : StepTM(n)
    /\ nums' = IF NeedsInput THEN << >> ELSE nums
    /\ stepcnt' = StepsLeft(stepcnt)
    /\ mode' = CASE result' \in {"outside", "killed"} -> "over"
                 [] GoesOn -> "execute"
                 [] OTHER -> "letter"
    /\ UNCHANGED <<loadVars, typed, word, cmd, dloc, history>>

Command ==
    \/ StepCommand \/ GoCommand \/ PrintCommand \/ AnalyzeCommand
    \/ ListCommand \/ ClearCommand \/ QuitCommand

Next == ReadProgram \/ TypeLine \/ Command \/ LineEnd \/ Execute

\* A command runs to its end by itself, but for an IN: nobody has to type a line,
\* at the prompt or at an IN instruction.
Spec ==
    /\ Init /\ [][Next]_vars
    /\ WF_vars(ReadProgram \/ Command \/ LineEnd \/ (~ NeedsInput /\ Execute))

-----------------------------------------------------------------------------
ShellTypeOK ==
    /\ loading \in {"reading", "read", "failed", "outside"}
    /\ lineNo \in 0 .. Len(file) + 1
    /\ iMem \in IMem
    /\ reg \in [RegNos -> Int] /\ dMem \in [0 .. DADDR_SIZE - 1 -> Int]
    /\ sim \in [Counted -> Nat] /\ overall \in [Counted -> Nat]
    /\ result \in {"okay", "halt", "imem", "dmem", "zerodivide", "killed", "outside"}
    /\ mode \in {"load", "prompt", "letter", "execute", "over"}
    /\ stepcnt \in Nat /\ typed \in 0 .. MaxLines

\* A line of one letter executes what it asks for: s as many instructions as it
\* names, unless one halts or faults before; g until one does; the others none
\* (tm.c:519-526, 590-612).
Executed == sim["?ALL"] - began
AsAsked ==
    CASE line = <<"s">> -> Executed = asked \/ (Executed < asked /\ result # "okay")
      [] line = <<"g">> -> result # "okay"
      [] OTHER -> Executed = 0
StepsAsAsked == mode = "prompt" /\ Len(line) = 1 => AsAsked

\* "Reset simulator for new execution of program": after a clear a program that
\* asks for no input prints what it printed before, as far as both have come.
Agree(s, t) == \A i \in DOMAIN s \cap DOMAIN t : s[i] = t[i]
ClearedRunsRepeat ==
    (\A loc \in DOMAIN iMem : iMem[loc].op # "IN") =>
      \A i \in DOMAIN earlier : Agree(earlier[i], output)

\* The analysis of the simulation adds up: each execution is counted once under
\* its opcode, its class and in all, a fault too.
Total(counters, S) == MapThenSumSet(LAMBDA c : counters[c], S)
CountersAddUp ==
    /\ Total(sim, TmOps) = sim["?ALL"]
    /\ Total(sim, {"?RR", "?RM", "?RA"}) = sim["?ALL"]

\* The machine leaves its memories only at the address behind their last cell:
\* anywhere else a wild jump or address is a fault.
OutsideOnlyAtSize ==
    result = "outside" =>
      \/ reg[PC] = IADDR_SIZE
      \/ reg[PC] - 1 \in DOMAIN iMem /\ Word(iMem[reg[PC] - 1].a2 + reg[iMem[reg[PC] - 1].a3]) = DADDR_SIZE

\* No command keeps the machine for ever (the programs read here have no endless
\* loop), whatever is left in stepcnt: the user is asked for a line, the next
\* command or the number an IN waits for, unless the simulation is over.
AsksUser == mode = "prompt" \/ (mode = "execute" /\ NeedsInput)
CommandsEnd == mode \in {"letter", "execute"} ~> AsksUser \/ mode = "over"

=============================================================================
