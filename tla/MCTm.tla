-------------------------------- MODULE MCTm --------------------------------
(***************************************************************************)
(* The machine on small programs: one that keeps a value in memory, one    *)
(* that divides by what it reads, one that loops, and programs that leave   *)
(* the memories or cannot be read.                                         *)
(***************************************************************************)
EXTENDS TmShell

L(loc, op, a1, a2, a3) ==
    [kind |-> "ins", loc |-> loc, op |-> op, a1 |-> a1, a2 |-> a2, a3 |-> a3]
Blank == [kind |-> "blank"]
Bad   == [kind |-> "bad"]

Keeps   == <<L(0, "LD", 0, 0, 6), L(1, "INC", 0, 0, 0), L(2, "ST", 0, 0, 6),
             L(3, "OUT", 0, 0, 0), Blank, L(4, "HALT", 0, 0, 0)>>
Divides == <<L(0, "IN", 0, 0, 0), L(1, "LDC", 1, -8, 0), L(2, "DIV", 1, 1, 0),
             L(3, "OUT", 1, 0, 0), L(4, "SHL", 1, 1, 0), L(5, "HALT", 0, 0, 0)>>
Loops   == <<L(0, "LDC", 0, 2, 0), L(1, "DEC", 0, 0, 0), L(2, "OUT", 0, 0, 0),
             L(3, "JGT", 0, -3, 7), L(4, "ADD", 1, 0, 0), L(5, "HALT", 0, 0, 0)>>
Wild(m) == <<L(0, "LDC", 1, m, 0), L(1, "ST", 1, 0, 1), L(2, "LD", 2, 0, 1),
             L(3, "OUT", 2, 0, 0), L(4, "HALT", 0, 0, 0)>>
Leaves(op, m) == <<L(0, "LDC", 0, m, 0), L(1, op, 0, m, 1), L(2, "LDA", 7, m, 1)>>
Unread  == {<<L(0, "OUT", 0, 0, 0), L(6, "HALT", 0, 0, 0)>>,
            <<L(0, "OUT", 0, 0, 0), L(7, "HALT", 0, 0, 0)>>,
            <<L(0, "OUT", 8, 0, 0)>>, <<Blank, Bad>>}

MCFiles == {Keeps, Divides, Loops} \cup Unread
             \cup {Wild(m) : m \in {-1, 0, 1, 2, 3}}
             \cup {Leaves(op, m) : op \in Jumps, m \in {-1, 5, 6, 7}}

Cmd(w, n) == [word |-> w, nums |-> n]
MCLines == {Cmd(<<a>>, << >>) : a \in {"s", "g", "r", "c"}}
             \cup {Cmd(<<"s">>, <<3>>), Cmd(<<"i">>, <<2, 5>>), Cmd(<<"d">>, << >>),
                   Cmd(<<"g", "d">>, <<0, 2, 1>>), Cmd(<<"g", "r">>, << >>),
                   Cmd(<<"s", "a", "c">>, <<-2>>), Cmd(<<"a", "q">>, << >>),
                   Cmd(<<"s">>, <<Text>>), Cmd(<<"g", "s">>, <<Text>>),
                   Cmd(<<"i">>, <<1, Text>>)}
MCAnswers == {-1, 0, 3}
=============================================================================
