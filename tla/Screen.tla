------------------------------- MODULE Screen -------------------------------
(***************************************************************************)
(* The cells of the screen: sh_clear, the drawing of one character by      *)
(* sh_render and sh_scroll, which copies one cell per step.  Nothing       *)
(* interrupts it here; Console has the interrupts and leaves the cells out.*)
(***************************************************************************)
EXTENDS Integers, Sequences

CONSTANTS
  Char, CR, NL, BLANK,
  WIDTH, HEIGHT,
  Garbage           (* what video memory may hold when the kernel starts   *)

GREY == 7
RED == 4
Color == {GREY, RED}
SIZE == WIDTH * HEIGHT
Cells == 0..SIZE-1
Cell == Char \X Color

ASSUME ScreenAssumption ==
  /\ {WIDTH, HEIGHT} \subseteq Nat \ {0}
  /\ {CR, NL, BLANK} \subseteq Char /\ CR # NL
  /\ Garbage \subseteq [Cells -> Cell]

VARIABLES
  cells, cursor, color,   (* the memory the shell_instance_t points to; its fields *)
  job, at                 (* "clear", "scroll" or "none"; the loop's place *)

svars == <<cells, cursor, color, job, at>>

\* sh_init, up to its call of sh_clear.
SInit ==
  /\ cells \in Garbage
  /\ color = GREY /\ cursor = 0
  /\ job = "clear" /\ at = 0

Set(i, cell) == cells' = [cells EXCEPT ![i] = cell]
Blank == <<BLANK, color>>

ClearCell ==
  /\ job = "clear" /\ at < SIZE
  /\ Set(at, Blank) /\ at' = at + 1
  /\ UNCHANGED <<cursor, color, job>>

Cleared ==
  /\ job = "clear" /\ at = SIZE
  /\ job' = "none" /\ at' = 0
  /\ UNCHANGED <<cells, cursor, color>>

\* Mutant of AtEnd: the page is full only when the cursor is beyond it.
AtEndOffByOne(c) == c > SIZE
AtEnd(c) == c >= SIZE

\* The cursor moves to c; at the end of the screen sh_scroll is called.
MoveTo(c) ==
  /\ cursor' = c
  /\ job' = IF AtEnd(c) THEN "scroll" ELSE "none"
  /\ UNCHANGED at

StartOfLine == cursor - (cursor % WIDTH)
NextLine == cursor + WIDTH - (cursor % WIDTH)

\* The body of sh_render's loops, with the colour of the stream.
Draw(ch, c) ==
  /\ job = "none"
  /\ color' = c
  /\ CASE ch = CR -> cursor' = StartOfLine /\ UNCHANGED <<cells, job, at>>
       [] ch = NL -> MoveTo(NextLine) /\ UNCHANGED cells
       [] OTHER   -> IF cursor < SIZE
                       THEN Set(cursor, <<ch, c>>) /\ MoveTo(cursor + 1)
                       ELSE UNCHANGED <<cells, cursor, job, at>>

LAST_LINE == (HEIGHT - 1) * WIDTH

\* Mutant of Below: the next cell instead of the one on the next line.
BelowIsNext(i) == i + 1
Below(i) == i + WIDTH

CopyCell ==
  /\ job = "scroll" /\ at < LAST_LINE
  /\ Set(at, cells[Below(at)]) /\ at' = at + 1
  /\ UNCHANGED <<cursor, color, job>>

BlankCell ==
  /\ job = "scroll" /\ at \in LAST_LINE..SIZE-1
  /\ Set(at, Blank) /\ at' = at + 1
  /\ UNCHANGED <<cursor, color, job>>

Scrolled ==
  /\ job = "scroll" /\ at = SIZE
  /\ cursor' = cursor - WIDTH
  /\ job' = "none" /\ at' = 0
  /\ UNCHANGED <<cells, color>>

Work == ClearCell \/ Cleared \/ CopyCell \/ BlankCell \/ Scrolled

SNext == Work \/ \E ch \in Char, c \in Color : Draw(ch, c)
SSpec == SInit /\ [][SNext]_svars
-----------------------------------------------------------------------------
(* The page that is shown once the loop in progress is done.               *)
Shown(i) ==
  CASE job = "none"  -> cells[i]
    [] job = "clear" -> <<BLANK, GREY>>
    [] OTHER -> IF i < at THEN cells[i]
                ELSE IF i < LAST_LINE THEN cells[i + WIDTH] ELSE Blank
Page == [r \in 1..HEIGHT |-> [c \in 1..WIDTH |-> Shown((r - 1) * WIDTH + c - 1)]]
Settled == IF job = "scroll" THEN cursor - WIDTH ELSE cursor

Term == INSTANCE Terminal WITH
          lines <- Page, row <- Settled \div WIDTH, col <- Settled % WIDTH

(* Types of the shell's fields; between two characters the cursor is on    *)
(* the screen, so that none is ever left out.                              *)
STypeOK ==
  /\ cells \in [Cells -> Cell] /\ color \in Color
  /\ job \in {"none", "clear", "scroll"} /\ at \in 0..SIZE
  /\ IF job = "scroll" THEN cursor \in SIZE..SIZE+WIDTH-1 ELSE cursor \in Cells
  /\ job = "none" => at = 0

(* shell.c:61-131: the linear cursor and the cell by cell copy are a page  *)
(* of lines: lines wrap, the top line and only that goes, the bottom line  *)
(* is blank, and nothing that was on the page when the kernel started is   *)
(* left on it.                                                             *)
ImplementsTerminal == Term!Spec
=============================================================================
