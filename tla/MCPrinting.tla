----------------------------- MODULE MCPrinting -----------------------------
(* Instance of Formats for TLC: a screen of three lines of four cells,      *)
(* numbers of 8 bits, which take up to three decimal digits, and streams of *)
(* four slots, so that newlines come to slot 0 in either call or in none,   *)
(* and texts are clipped.                                                   *)
EXTENDS Formats

MCCR == "\r"
MCNL == "\n"
MCGarbage == {[i \in Cells |-> <<"u", IF i % 2 = 0 THEN RED ELSE GREY>>]}
MCChar == {Digits[i] : i \in 1..16} \cup
  {"\r", "\n", " ", "-", "%", "x", "s", "p", "u", "c", "d", "n", "l", "(", ")", "q"}

C(f, a) == [fmt |-> f, args |-> a]
Numbers == {0, 1, 9, 10, 15, 16, 99, 100, 127, 128, 129, 246, 255}
MCCalls ==
  {C(<<"%", c>>, <<n>>) : c \in {"d", "u", "x", "p"}, n \in Numbers} \cup
  {C(<<"e", "%", "d", "%", "x", "\r", "\n">>, <<200, 31>>),
   C(<<"%", "s", "u", "\n", "%", "s">>, <<<<"a", "b", "\r", "c">>, <<>>>>),
   C(<<"%", "s">>, <<NullString>>),
   C(<<"%", "%", "%", "q", "%", "c", "%", "c">>, <<"\n", "u">>),
   C(<<"n", "\n", "%", "c", "l", "\n", "u">>, <<"\r">>),
   C(<<>>, <<>>)}
MCTexts == {<<"b", "a", "d", "\n">>, <<"u", "%", "u", "%", "d", "\r", "n">>,
            <<"n", "\n", "u", "l", "\n">>,
            <<"b", "a", "d">>, <<"\n", "n">>}
=============================================================================
