------------------------------ MODULE Terminal ------------------------------
(***************************************************************************)
(* What the console promises: a page of lines that is written from the top *)
(* and moves up by a line when there is no room below.                     *)
(***************************************************************************)
EXTENDS Integers, Sequences

CONSTANTS Char, CR, NL, BLANK, Color, GREY, WIDTH, HEIGHT

VARIABLES
  lines,      (* the page: HEIGHT lines of WIDTH cells <<character, colour>> *)
  row, col    (* where the next character goes, from 0                     *)

BlankLine(c) == [i \in 1..WIDTH |-> <<BLANK, c>>]

Init ==
  /\ lines = [r \in 1..HEIGHT |-> BlankLine(GREY)]
  /\ row = 0 /\ col = 0

\* To the start of the next line, of page l.
Feed(l, c) ==
  /\ col' = 0
  /\ IF row < HEIGHT - 1 THEN lines' = l /\ row' = row + 1
                         ELSE lines' = Append(Tail(l), BlankLine(c)) /\ UNCHANGED row

Return  == col' = 0 /\ UNCHANGED <<lines, row>>
NewLine(c) == Feed(lines, c)

Glyph(ch, c) ==
  LET l == [lines EXCEPT ![row + 1][col + 1] = <<ch, c>>] IN
  IF col < WIDTH - 1 THEN lines' = l /\ col' = col + 1 /\ UNCHANGED row
                     ELSE Feed(l, c)

Show(ch, c) ==
  CASE ch = CR -> Return
    [] ch = NL -> NewLine(c)
    [] OTHER   -> Glyph(ch, c)

Next == \E ch \in Char, c \in Color : Show(ch, c)
Spec == Init /\ [][Next]_<<lines, row, col>>
=============================================================================
