---------------------------- MODULE ScreenProofs -----------------------------
(***************************************************************************)
(* The screen is a page of lines: the cells in their linear order, copied  *)
(* one by one, implement module Terminal, for every width and height.      *)
(* sh_printf prints on it what the format says, the text that module       *)
(* Formats computes, as far as the streams let it through.                 *)
(***************************************************************************)
EXTENDS Formats, SequenceTheorems, WellFoundedInduction, TLAPS

(* Division with remainder.                                                *)
LEMMA DivMod ==
  ASSUME NEW k \in Nat, NEW n \in Nat \ {0}
  PROVE  /\ k \div n \in Nat /\ k % n \in 0..n-1
         /\ k = n * (k \div n) + (k % n)
  BY SMT

LEMMA Unique ==
  ASSUME NEW n \in Nat \ {0}, NEW p \in Nat, NEW q \in Nat, NEW x \in 0..n-1, NEW y \in 0..n-1,
         n * p + x = n * q + y
  PROVE  p = q /\ x = y
  <1>1. p < q => n * p + n <= n * q
    BY SMT
  <1>2. q < p => n * q + n <= n * p
    BY SMT
  <1> DEFINE a == n * p
             b == n * q
  <1>3. a \in Nat /\ b \in Nat
    BY SMT
  <1>4. (p < q => a + n <= b) /\ (q < p => b + n <= a) /\ a + x = b + y
    BY <1>1, <1>2
  <1>5. p = q => a = b
    OBVIOUS
  <1> HIDE DEF a, b
  <1> QED  BY <1>3, <1>4, <1>5

LEMMA Quotient ==
  ASSUME NEW n \in Nat \ {0}, NEW q \in Nat, NEW x \in 0..n-1
  PROVE  (n * q + x) \div n = q /\ (n * q + x) % n = x
  <1> DEFINE k == n * q + x
  <1>1. k \in Nat
    BY SMT
  <1>2. k = n * q + x
    OBVIOUS
  <1> HIDE DEF k
  <1>3. k \div n \in Nat /\ k % n \in 0..n-1 /\ k = n * (k \div n) + (k % n)
    BY <1>1, DivMod
  <1>4. k \div n = q /\ k % n = x
    BY <1>2, <1>3, Unique
  <1> QED  BY <1>2, <1>4
-----------------------------------------------------------------------------
(* Where the cells of a page are.  Row and column count from 0.            *)
Row(k) == k \div WIDTH
Col(k) == k % WIDTH
Index(r, c) == (r - 1) * WIDTH + c - 1

LEMMA Sizes ==
  /\ WIDTH \in Nat \ {0} /\ HEIGHT \in Nat \ {0} /\ SIZE \in Nat /\ LAST_LINE \in Nat
  /\ SIZE = WIDTH * HEIGHT /\ LAST_LINE = WIDTH * (HEIGHT - 1) /\ SIZE = LAST_LINE + WIDTH
  <1>1. WIDTH \in Nat \ {0} /\ HEIGHT \in Nat \ {0}
    BY ScreenAssumption
  <1>2. \A w, h \in Nat \ {0} : /\ w * h \in Nat /\ w * (h - 1) \in Nat
                                /\ (h - 1) * w = w * (h - 1) /\ w * h = w * (h - 1) + w
    BY SMT
  <1> QED  BY <1>1, <1>2 DEF SIZE, LAST_LINE

LEMMA Place ==
  ASSUME NEW k \in Nat
  PROVE  Row(k) \in Nat /\ Col(k) \in 0..WIDTH-1 /\ k = WIDTH * Row(k) + Col(k)
  BY Sizes, DivMod DEF Row, Col

LEMMA PlaceIs ==
  ASSUME NEW q \in Nat, NEW x \in 0..WIDTH-1, NEW k, k = WIDTH * q + x
  PROVE  Row(k) = q /\ Col(k) = x
  BY Sizes, Quotient DEF Row, Col

(* Products of the width with the row before, the same row and so on.      *)
LEMMA Order ==
  ASSUME NEW q \in Nat, NEW h \in Nat
  PROVE  /\ WIDTH * q \in Nat /\ WIDTH * (q + 1) = WIDTH * q + WIDTH
         /\ q < h => WIDTH * q + WIDTH <= WIDTH * h
         /\ q <= h => WIDTH * q <= WIDTH * h
  <1>1. WIDTH \in Nat \ {0}
    BY Sizes
  <1>2. \A w \in Nat \ {0} :
          /\ w * q \in Nat /\ w * (q + 1) = w * q + w
          /\ q < h => w * q + w <= w * h
          /\ q <= h => w * q <= w * h
    BY SMT
  <1> QED  BY ONLY <1>1, <1>2
LEMMA Indices ==
  ASSUME NEW r \in 1..HEIGHT, NEW c \in 1..WIDTH
  PROVE  /\ Index(r, c) \in Cells
         /\ Index(r, c) < LAST_LINE <=> r < HEIGHT
         /\ r < HEIGHT => Index(r, c) + WIDTH = Index(r + 1, c)
         /\ \A k \in Nat : Index(r, c) = k <=> r = Row(k) + 1 /\ c = Col(k) + 1
  <1> DEFINE a == WIDTH * (r - 1)
             b == WIDTH * r
             last == WIDTH * (HEIGHT - 1)
  <1>1. r - 1 \in Nat /\ r \in Nat /\ HEIGHT - 1 \in Nat /\ c - 1 \in 0..WIDTH-1 /\ WIDTH \in Nat \ {0}
    BY Sizes
  <1>2. /\ a \in Nat /\ b = a + WIDTH
        /\ r - 1 < HEIGHT - 1 => a + WIDTH <= last
        /\ HEIGHT - 1 <= r - 1 => last <= a
        /\ r - 1 <= HEIGHT - 1 => a <= last
    BY <1>1, Order
  <1>3. Index(r, c) = a + (c - 1) /\ Index(r + 1, c) = b + (c - 1)
    <2>1. \A w \in Nat : (r - 1) * w = w * (r - 1) /\ r * w = w * r
      BY <1>1
    <2>2. (r + 1) - 1 = r
      BY <1>1
    <2>3. (r - 1) * WIDTH = a /\ r * WIDTH = b
      BY <1>1, <2>1
    <2> HIDE DEF a, b
    <2>4. Index(r, c) = (r - 1) * WIDTH + c - 1 /\ Index(r + 1, c) = r * WIDTH + c - 1
      BY <2>2 DEF Index
    <2> QED  BY <1>1, <1>2, <2>3, <2>4
  <1>4. LAST_LINE = last /\ last \in Nat /\ SIZE = last + WIDTH
    BY Sizes
  <1>5. ASSUME NEW k \in Nat
        PROVE  Index(r, c) = k <=> r = Row(k) + 1 /\ c = Col(k) + 1
    <2>1. Index(r, c) = k => Row(k) = r - 1 /\ Col(k) = c - 1
      <3>1. Index(r, c) = k => k = WIDTH * (r - 1) + (c - 1)
        BY <1>3
      <3> QED  BY ONLY <1>1, <3>1, PlaceIs
    <2>2. Row(k) = r - 1 /\ Col(k) = c - 1 => k = a + (c - 1)
      BY Place
    <2> HIDE DEF a, b
    <2>3. Row(k) \in Nat /\ Col(k) \in Nat
      <3>1. Row(k) \in Nat /\ Col(k) \in 0..WIDTH-1 /\ WIDTH \in Nat
        BY Sizes, Place
      <3> QED  BY ONLY <3>1
    <2>4. r = Row(k) + 1 /\ c = Col(k) + 1 => Row(k) = r - 1 /\ Col(k) = c - 1
      BY <2>3
    <2>5. Row(k) = r - 1 /\ Col(k) = c - 1 => r = Row(k) + 1 /\ c = Col(k) + 1
      BY <1>1, <2>3
    <2> QED  BY <1>3, <2>1, <2>2, <2>4, <2>5
  <1> HIDE DEF a, b, last
  <1>6. Index(r, c) \in Cells /\ (Index(r, c) < LAST_LINE <=> r < HEIGHT)
    <2> DEFINE i == Index(r, c)
    <2>1. i = a + (c - 1) /\ i \in Nat
      BY <1>1, <1>2, <1>3
    <2> HIDE DEF i
    <2>2. a <= last /\ HEIGHT \in Nat
      <3>1. r - 1 <= HEIGHT - 1 /\ HEIGHT \in Nat
        BY <1>1, Sizes
      <3> QED  BY <1>2, <3>1
    <2>3. i < SIZE
      BY <1>1, <1>2, <1>4, <2>1, <2>2
    <2>4. r < HEIGHT => i < last
      BY <1>1, <1>2, <1>4, <2>1, <2>2
    <2>5. i < last => r < HEIGHT
      BY <1>1, <1>2, <1>4, <2>1, <2>2
    <2>6. i \in 0..SIZE-1
      BY <1>1, <1>4, <2>1, <2>3
    <2> QED  BY <1>4, <2>4, <2>5, <2>6 DEF Cells, i
  <1>7. Index(r, c) + WIDTH = Index(r + 1, c)
    BY <1>1, <1>2, <1>3
  <1> QED  BY <1>5, <1>6, <1>7

(* Where the cursor goes.                                                  *)
LEMMA Moves ==
  ASSUME NEW k \in Cells
  PROVE  /\ k \in Nat /\ Row(k) \in 0..HEIGHT-1 /\ Col(k) \in 0..WIDTH-1
         /\ LET i == k - Col(k) IN
              i \in Cells /\ Row(i) = Row(k) /\ Col(i) = 0
         /\ LET i == k + WIDTH - Col(k) IN
              /\ i \in Nat /\ i <= SIZE
              /\ i >= SIZE <=> ~ (Row(k) < HEIGHT - 1)
              /\ i < SIZE => i \in Cells /\ Row(i) = Row(k) + 1 /\ Col(i) = 0
         /\ /\ k + 1 <= SIZE
            /\ k + 1 >= SIZE <=> ~ (Row(k) < HEIGHT - 1) /\ ~ (Col(k) < WIDTH - 1)
            /\ Col(k) < WIDTH - 1 => Row(k + 1) = Row(k) /\ Col(k + 1) = Col(k) + 1
            /\ k + 1 < SIZE /\ ~ (Col(k) < WIDTH - 1) => Row(k + 1) = Row(k) + 1 /\ Col(k + 1) = 0
         /\ SIZE - WIDTH \in Nat /\ Row(SIZE - WIDTH) = HEIGHT - 1 /\ Col(SIZE - WIDTH) = 0
  <1> DEFINE q == Row(k)
             x == Col(k)
             a == WIDTH * q
             b == WIDTH * (q + 1)
             last == WIDTH * (HEIGHT - 1)
  <1>1. k \in Nat /\ q \in Nat /\ x \in 0..WIDTH-1 /\ k = a + x /\ WIDTH \in Nat \ {0} /\ k < SIZE
    BY Place, Sizes DEF Cells
  <1>2. /\ a \in Nat /\ b = a + WIDTH /\ SIZE = last + WIDTH /\ last \in Nat
        /\ HEIGHT - 1 \in Nat /\ q + 1 \in Nat
    BY <1>1, Order, Sizes
  <1>3. /\ q < HEIGHT - 1 => a + WIDTH <= last
        /\ HEIGHT - 1 < q => last + WIDTH <= a
        /\ q = HEIGHT - 1 => a = last
    BY <1>1, <1>2, Order
  <1>4. ASSUME NEW i \in Nat, NEW y \in 0..WIDTH-1
        PROVE  /\ i = a + y => Row(i) = q /\ Col(i) = y
               /\ i = b + y => Row(i) = q + 1 /\ Col(i) = y
               /\ i = last + y => Row(i) = HEIGHT - 1 /\ Col(i) = y
    <2>1. i = a + y => Row(i) = q /\ Col(i) = y
      BY <1>1, PlaceIs
    <2>2. i = b + y => Row(i) = q + 1 /\ Col(i) = y
      BY <1>1, <1>2, PlaceIs
    <2>3. i = last + y => Row(i) = HEIGHT - 1 /\ Col(i) = y
      BY <1>1, <1>2, PlaceIs
    <2> QED  BY <2>1, <2>2, <2>3
  <1> HIDE DEF a, b, last, q, x
  <1>5. q <= HEIGHT - 1 /\ 0 \in 0..WIDTH-1
    BY <1>1, <1>2, <1>3
  <1>6. /\ k - x = a /\ a \in Cells
        /\ k + WIDTH - x = b /\ b \in Nat /\ b <= SIZE /\ (b >= SIZE <=> ~ (q < HEIGHT - 1))
        /\ b < SIZE => b \in Cells
    BY <1>1, <1>2, <1>3, <1>5 DEF Cells
  <1>7. Row(a) = q /\ Col(a) = 0 /\ Row(b) = q + 1 /\ Col(b) = 0
    BY <1>1, <1>2, <1>4, <1>5, <1>6
  <1>8. k + 1 <= SIZE /\ (k + 1 >= SIZE <=> ~ (q < HEIGHT - 1) /\ ~ (x < WIDTH - 1))
    BY <1>1, <1>2, <1>3, <1>5
  <1>9. x < WIDTH - 1 => Row(k + 1) = q /\ Col(k + 1) = x + 1
    <2>1. x < WIDTH - 1 => k + 1 = a + (x + 1) /\ x + 1 \in 0..WIDTH-1 /\ k + 1 \in Nat
      BY <1>1, <1>2
    <2> QED  BY <1>4, <2>1
  <1>10. ~ (x < WIDTH - 1) => Row(k + 1) = q + 1 /\ Col(k + 1) = 0
    <2>1. ~ (x < WIDTH - 1) => k + 1 = b
      BY <1>1, <1>2
    <2> QED  BY <1>7, <2>1
  <1>11. SIZE - WIDTH = last /\ Row(last) = HEIGHT - 1 /\ Col(last) = 0
    <2>1. last = last + 0 /\ SIZE - WIDTH = last
      BY <1>1, <1>2
    <2> QED  BY <1>2, <1>4, <1>5, <2>1
  <1>12. q \in 0..HEIGHT-1
    BY <1>1, <1>2, <1>5
  <1>13. /\ k - Col(k) = a /\ k + WIDTH - Col(k) = b /\ q = Row(k) /\ x = Col(k)
    BY <1>6 DEF x, q
  <1> QED  BY <1>1, <1>2, <1>6, <1>7, <1>8, <1>9, <1>10, <1>11, <1>12, <1>13
-----------------------------------------------------------------------------
(* The types, and what has been cleared.                                   *)
Clearing ==
  job = "clear" =>
    color = GREY /\ cursor = 0 /\ \A i \in Cells : i < at => cells[i] = <<BLANK, GREY>>
ScreenInv == STypeOK /\ Clearing

LEMMA ScreenInit == SInit => ScreenInv
  <1> SUFFICES ASSUME SInit PROVE ScreenInv
    OBVIOUS
  <1>1. cells \in [Cells -> Cell] /\ 0 \in Cells /\ SIZE \in Nat
    <2>1. 0 \in Cells /\ SIZE \in Nat
      BY Sizes DEF Cells
    <2> QED  BY <2>1, ScreenAssumption DEF SInit
  <1> QED  BY <1>1 DEF SInit, ScreenInv, STypeOK, Clearing, Color, Cells

(* A character is drawn and the cursor moves.                              *)
LEMMA DrawKeepsType ==
  ASSUME ScreenInv, NEW ch \in Char, NEW c \in Color, Draw(ch, c)
  PROVE  ScreenInv'
  <1>1. job = "none" /\ at = 0 /\ cursor \in Cells /\ cells \in [Cells -> Cell] /\ color' \in Color
    BY DEF Draw, ScreenInv, STypeOK
  <1>2. cells' \in [Cells -> Cell]
    <2>1. cells' = cells \/ cells' = [cells EXCEPT ![cursor] = <<ch, c>>]
      BY DEF Draw, Set, MoveTo
    <2> QED  BY <1>1, <2>1 DEF Cell
  <1>3. /\ at' = at /\ job' \in {"none", "scroll"}
        /\ job' = "none" => cursor' \in Cells
        /\ job' = "scroll" => cursor' \in SIZE..SIZE+WIDTH-1
    <2>1. CASE ch = CR
      <3>1. cursor - Col(cursor) \in Cells
        BY <1>1, Moves
      <3>2. cursor' = cursor - Col(cursor) /\ job' = job /\ at' = at
        BY <2>1, ScreenAssumption DEF Draw, StartOfLine, Col
      <3> QED  BY <1>1, <3>1, <3>2
    <2>2. ASSUME NEW to \in Nat, to <= SIZE, MoveTo(to)
          PROVE  /\ at' = at /\ job' \in {"none", "scroll"}
                 /\ job' = "none" => cursor' \in Cells
                 /\ job' = "scroll" => cursor' \in SIZE..SIZE+WIDTH-1
      BY <2>2, Sizes DEF MoveTo, AtEnd, Cells
    <2>3. CASE ch = NL
      <3>1. MoveTo(cursor + WIDTH - Col(cursor))
        BY <2>3, ScreenAssumption DEF Draw, NextLine, Col
      <3> QED  BY <1>1, <2>2, <3>1, Moves
    <2>4. CASE ch \notin {CR, NL}
      <3>1. cursor < SIZE /\ cursor + 1 \in Nat /\ cursor + 1 <= SIZE
        BY <1>1, Sizes DEF Cells
      <3>2. MoveTo(cursor + 1)
        BY <2>4, <3>1 DEF Draw
      <3> QED  BY <2>2, <3>1, <3>2
    <2> QED  BY <2>1, <2>3, <2>4
  <1>4. at' = 0 /\ 0 \in 0..SIZE /\ job' # "clear"
    BY <1>1, <1>3, Sizes
  <1> QED  BY <1>1, <1>2, <1>3, <1>4 DEF ScreenInv, STypeOK, Clearing

LEMMA BlankType ==
  ASSUME ScreenInv
  PROVE  Blank \in Cell /\ <<BLANK, GREY>> \in Cell
  BY ScreenAssumption DEF ScreenInv, STypeOK, Blank, Cell, Color

LEMMA WorkKeepsType ==
  ASSUME ScreenInv, Work
  PROVE  ScreenInv'
  <1>1. SIZE \in Nat /\ LAST_LINE \in Nat /\ WIDTH \in Nat \ {0} /\ SIZE = LAST_LINE + WIDTH
    BY Sizes
  <1>2. /\ cells \in [Cells -> Cell] /\ at \in 0..SIZE /\ color \in Color
        /\ IF job = "scroll" THEN cursor \in SIZE..SIZE+WIDTH-1 ELSE cursor \in Cells
        /\ Blank \in Cell
    BY BlankType DEF ScreenInv, STypeOK
  <1>3. CASE ClearCell
    <2>1. /\ job = "clear" /\ at \in Cells /\ cells' = [cells EXCEPT ![at] = Blank]
          /\ at' = at + 1 /\ UNCHANGED <<cursor, color, job>>
      BY <1>1, <1>2, <1>3 DEF ClearCell, Set, Cells
    <2>2. Blank = <<BLANK, GREY>>
      BY <2>1 DEF ScreenInv, Clearing, Blank
    <2>3. \A i \in Cells : i < at' => cells'[i] = <<BLANK, GREY>>
      BY <1>2, <2>1, <2>2 DEF ScreenInv, Clearing, Cells
    <2>4. STypeOK'
      BY <1>1, <1>2, <2>1 DEF STypeOK, Cells
    <2> QED  BY <2>1, <2>3, <2>4 DEF ScreenInv, Clearing
  <1>4. CASE Cleared
    BY <1>1, <1>2, <1>4 DEF Cleared, ScreenInv, STypeOK, Clearing
  <1>5. CASE CopyCell
    <2>1. /\ job = "scroll" /\ at \in Cells /\ at + WIDTH \in Cells
          /\ cells' = [cells EXCEPT ![at] = cells[at + WIDTH]]
          /\ at' = at + 1 /\ UNCHANGED <<cursor, color, job>>
      BY <1>1, <1>2, <1>5 DEF CopyCell, Set, Below, Cells
    <2>2. STypeOK'
      BY <1>1, <1>2, <2>1 DEF STypeOK, Cells
    <2> QED  BY <2>1, <2>2 DEF ScreenInv, Clearing
  <1>6. CASE BlankCell
    <2>1. /\ job = "scroll" /\ at \in Cells /\ cells' = [cells EXCEPT ![at] = Blank]
          /\ at' = at + 1 /\ UNCHANGED <<cursor, color, job>>
      BY <1>1, <1>2, <1>6 DEF BlankCell, Set, Cells
    <2>2. STypeOK'
      BY <1>1, <1>2, <2>1 DEF STypeOK, Cells
    <2> QED  BY <2>1, <2>2 DEF ScreenInv, Clearing
  <1>7. CASE Scrolled
    <2>1. job = "scroll" /\ cursor' = cursor - WIDTH /\ job' = "none" /\ at' = 0
          /\ UNCHANGED <<cells, color>>
      BY <1>7 DEF Scrolled
    <2>2. cursor' \in Cells
      BY <1>1, <1>2, <2>1 DEF Cells
    <2> QED  BY <1>1, <1>2, <2>1, <2>2 DEF ScreenInv, STypeOK, Clearing
  <1> QED  BY <1>3, <1>4, <1>5, <1>6, <1>7 DEF Work

LEMMA ScreenNext ==
  ASSUME ScreenInv, [SNext]_svars
  PROVE  ScreenInv'
  <1>1. CASE UNCHANGED svars
    BY <1>1 DEF svars, ScreenInv, STypeOK, Clearing
  <1> QED  BY <1>1, DrawKeepsType, WorkKeepsType DEF SNext
-----------------------------------------------------------------------------
(* The page, and what becomes of it.                                       *)
Line == [1..WIDTH -> Cell]
InCells == [r \in 1..HEIGHT |-> [c \in 1..WIDTH |-> cells[Index(r, c)]]]

LEMMA PageCells ==
  /\ Page = [r \in 1..HEIGHT |-> [c \in 1..WIDTH |-> Shown(Index(r, c))]]
  /\ Page' = [r \in 1..HEIGHT |-> [c \in 1..WIDTH |-> Shown(Index(r, c))']]
  BY DEF Page, Index

LEMMA PageSame ==
  ASSUME \A i \in Cells : Shown(i)' = Shown(i)
  PROVE  Page' = Page
  <1>1. \A r \in 1..HEIGHT, c \in 1..WIDTH : Shown(Index(r, c))' = Shown(Index(r, c))
    BY Indices
  <1> DEFINE before(r, c) == Shown(Index(r, c))
             after(r, c) == Shown(Index(r, c))'
  <1>2. \A r \in 1..HEIGHT, c \in 1..WIDTH : after(r, c) = before(r, c)
    BY <1>1
  <1>3. /\ Page = [r \in 1..HEIGHT |-> [c \in 1..WIDTH |-> before(r, c)]]
        /\ Page' = [r \in 1..HEIGHT |-> [c \in 1..WIDTH |-> after(r, c)]]
    BY PageCells
  <1> HIDE DEF before, after
  <1> QED  BY <1>2, <1>3

LEMMA CellsType ==
  ASSUME cells \in [Cells -> Cell]
  PROVE  InCells \in [1..HEIGHT -> Line]
  BY Indices DEF InCells, Line

\* Nothing but the line at the top goes.
MovedUp(l, x) == [r \in 1..HEIGHT |-> IF r < HEIGHT THEN l[r + 1] ELSE x]

LEMMA Up ==
  ASSUME NEW T, NEW l \in [1..HEIGHT -> T], NEW x \in T
  PROVE  Append(Tail(l), x) = MovedUp(l, x)
  <1>1. HEIGHT \in Nat \ {0}
    BY Sizes
  <1>2. l \in Seq(T) /\ Len(l) = HEIGHT /\ l # <<>>
    BY <1>1
  <1>3. /\ Tail(l) \in Seq(T) /\ Len(Tail(l)) = HEIGHT - 1
        /\ \A r \in 1..HEIGHT-1 : Tail(l)[r] = l[r + 1]
    BY <1>1, <1>2
  <1> DEFINE t == Tail(l)
             s == Append(t, x)
  <1>4. /\ s \in Seq(T) /\ Len(s) = HEIGHT /\ s[HEIGHT] = x
        /\ \A r \in 1..HEIGHT-1 : s[r] = t[r]
    BY <1>1, <1>3
  <1>5. DOMAIN s = 1..HEIGHT /\ s = [r \in 1..HEIGHT |-> s[r]]
    <2>1. DOMAIN s = 1..Len(s) /\ s \in [1..Len(s) -> T]
      BY <1>4, LenProperties
    <2> HIDE DEF s
    <2> QED  BY <1>4, <2>1
  <1>6. \A r \in 1..HEIGHT : s[r] = IF r < HEIGHT THEN l[r + 1] ELSE x
    BY <1>1, <1>3, <1>4
  <1> HIDE DEF s
  <1>7. s = [r \in 1..HEIGHT |-> IF r < HEIGHT THEN l[r + 1] ELSE x]
    BY <1>5, <1>6
  <1> QED  BY <1>7 DEF s, MovedUp

LEMMA QuietPage ==
  ASSUME job = "none"
  PROVE  Page = InCells
  BY PageCells DEF Shown, InCells

LEMMA MovedPage ==
  ASSUME cells' \in [Cells -> Cell], NEW c \in Color, color' = c, at' = 0
  PROVE  /\ job' = "none" => Page' = InCells'
         /\ job' = "scroll" => Page' = Append(Tail(InCells'), [i \in 1..WIDTH |-> <<BLANK, c>>])
  <1>1. job' = "none" => Page' = InCells'
    BY PageCells DEF Shown, InCells
  <1>2. ASSUME job' = "scroll"
        PROVE  Page' = Append(Tail(InCells'), [i \in 1..WIDTH |-> <<BLANK, c>>])
    <2> DEFINE blank == [i \in 1..WIDTH |-> <<BLANK, c>>]
               l == InCells'
    <2>1. l \in [1..HEIGHT -> Line] /\ blank \in Line
      <3>1. \A r \in 1..HEIGHT, x \in 1..WIDTH : Index(r, x) \in Cells
        BY Indices
      <3>2. <<BLANK, c>> \in Cell
        BY ScreenAssumption DEF Cell
      <3> QED  BY <3>1, <3>2 DEF Line, InCells
    <2>2. Append(Tail(l), blank) = MovedUp(l, blank)
      <3> HIDE DEF l, blank
      <3> QED  BY <2>1, Up
    <2>3. ASSUME NEW r \in 1..HEIGHT, NEW x \in 1..WIDTH
          PROVE  Shown(Index(r, x))' = (IF r < HEIGHT THEN l[r + 1] ELSE blank)[x]
      <3>1. Index(r, x) \in Cells /\ ~ (Index(r, x) < 0)
        BY Indices, Sizes DEF Cells
      <3>2. Shown(Index(r, x))' =
              IF Index(r, x) < LAST_LINE THEN cells'[Index(r, x) + WIDTH] ELSE <<BLANK, c>>
        BY <1>2, <3>1 DEF Shown, Blank
      <3>3. CASE r < HEIGHT
        <4>1. Index(r, x) < LAST_LINE /\ Index(r, x) + WIDTH = Index(r + 1, x) /\ r + 1 \in 1..HEIGHT
          BY <3>3, Indices, Sizes
        <4>2. l[r + 1][x] = cells'[Index(r + 1, x)]
          BY <4>1 DEF InCells
        <4> QED  BY <3>2, <3>3, <4>1, <4>2
      <3>4. CASE ~ (r < HEIGHT)
        <4>1. ~ (Index(r, x) < LAST_LINE)
          BY <3>4, Indices
        <4> QED  BY <3>2, <3>4, <4>1
      <3> QED  BY <3>3, <3>4
    <2> DEFINE up(r) == IF r < HEIGHT THEN l[r + 1] ELSE blank
               shown(r, x) == Shown(Index(r, x))'
    <2>4. \A r \in 1..HEIGHT : up(r) \in Line
      <3>1. ASSUME NEW r \in 1..HEIGHT, r < HEIGHT
            PROVE  r + 1 \in 1..HEIGHT
        BY <3>1, Sizes
      <3> QED  BY <2>1, <3>1
    <2>5. \A r \in 1..HEIGHT, x \in 1..WIDTH : shown(r, x) = up(r)[x]
      BY <2>3
    <2>6. Page' = [r \in 1..HEIGHT |-> [x \in 1..WIDTH |-> shown(r, x)]]
      BY PageCells
    <2>7. Append(Tail(l), blank) = [r \in 1..HEIGHT |-> up(r)]
      BY <2>2 DEF MovedUp
    <2> HIDE DEF up, shown, l, blank
    <2>8. \A r \in 1..HEIGHT : [x \in 1..WIDTH |-> shown(r, x)] = up(r)
      BY <2>4, <2>5 DEF Line
    <2>9. Page' = Append(Tail(l), blank)
      BY <2>6, <2>7, <2>8
    <2> QED  BY <2>9 DEF l, blank
  <1> QED  BY <1>1, <1>2
-----------------------------------------------------------------------------
(* The loops change nothing that is promised.                              *)
LEMMA WorkStutters ==
  ASSUME ScreenInv, Work
  PROVE  Page' = Page /\ Settled' = Settled
  <1>1. SIZE \in Nat /\ LAST_LINE \in Nat /\ WIDTH \in Nat \ {0} /\ SIZE = LAST_LINE + WIDTH
    BY Sizes
  <1>2. /\ cells \in [Cells -> Cell] /\ at \in 0..SIZE
        /\ IF job = "scroll" THEN cursor \in SIZE..SIZE+WIDTH-1 ELSE cursor \in Cells
    BY DEF ScreenInv, STypeOK
  <1>3. CASE ClearCell
    <2>1. job = "clear" /\ job' = job /\ cursor' = cursor
      BY <1>3 DEF ClearCell
    <2>2. \A i \in Cells : Shown(i)' = Shown(i)
      BY <2>1 DEF Shown
    <2> QED  BY <2>1, <2>2, PageSame DEF Settled
  <1>4. CASE Cleared
    <2>1. job = "clear" /\ at = SIZE /\ job' = "none" /\ UNCHANGED <<cells, cursor>>
      BY <1>4 DEF Cleared
    <2>2. \A i \in Cells : cells[i] = <<BLANK, GREY>>
      BY <1>1, <2>1 DEF ScreenInv, Clearing, Cells
    <2>3. \A i \in Cells : Shown(i)' = Shown(i)
      BY <2>1, <2>2 DEF Shown
    <2> QED  BY <2>1, <2>3, PageSame DEF Settled
  <1>5. CASE CopyCell \/ BlankCell
    <2>1. /\ job = "scroll" /\ job' = job /\ cursor' = cursor /\ color' = color /\ at' = at + 1
          /\ at \in Cells
          /\ cells' = [cells EXCEPT ![at] = IF at < LAST_LINE THEN cells[at + WIDTH] ELSE Blank]
      BY <1>1, <1>2, <1>5 DEF CopyCell, BlankCell, Set, Below, Cells
    <2>2. ASSUME NEW i \in Cells
          PROVE  Shown(i)' = Shown(i)
      <3>1. i \in Nat /\ i < SIZE /\ at \in Nat
        BY <1>1, <1>2 DEF Cells
      <3>2. Shown(i) = IF i < at THEN cells[i]
                       ELSE IF i < LAST_LINE THEN cells[i + WIDTH] ELSE Blank
        BY <2>1 DEF Shown
      <3>3. Shown(i)' = IF i < at + 1 THEN cells'[i]
                        ELSE IF i < LAST_LINE THEN cells'[i + WIDTH] ELSE Blank
        BY <2>1 DEF Shown, Blank
      <3>4. CASE i < at
        BY <1>2, <2>1, <3>1, <3>2, <3>3, <3>4
      <3>5. CASE i = at
        BY <1>2, <2>1, <3>1, <3>2, <3>3, <3>5
      <3>6. CASE i > at
        <4>1. i < LAST_LINE => i + WIDTH \in Cells /\ i + WIDTH # at
          BY <1>1, <3>1, <3>6 DEF Cells
        <4>2. i < LAST_LINE => cells'[i + WIDTH] = cells[i + WIDTH]
          BY <1>2, <2>1, <4>1
        <4> QED  BY <3>1, <3>2, <3>3, <3>6, <4>2
      <3> QED  BY <3>1, <3>4, <3>5, <3>6
    <2> QED  BY <2>1, <2>2, PageSame DEF Settled
  <1>6. CASE Scrolled
    <2>1. job = "scroll" /\ at = SIZE /\ cursor' = cursor - WIDTH /\ job' = "none" /\ cells' = cells
      BY <1>6 DEF Scrolled
    <2>2. \A i \in Cells : i < SIZE
      BY <1>1 DEF Cells
    <2>3. \A i \in Cells : Shown(i)' = Shown(i)
      BY <2>1, <2>2 DEF Shown
    <2> QED  BY <2>1, <2>3, PageSame DEF Settled
  <1> QED  BY <1>3, <1>4, <1>5, <1>6 DEF Work

(* Where a character leads.                                                *)
LEMMA MovedTo ==
  ASSUME cells' \in [Cells -> Cell], NEW c \in Color, color' = c, at = 0,
         NEW to \in Nat, to <= SIZE, MoveTo(to)
  PROVE  /\ to < SIZE => Page' = InCells' /\ Settled' = to
         /\ to >= SIZE => /\ Page' = Append(Tail(InCells'), [i \in 1..WIDTH |-> <<BLANK, c>>])
                          /\ Settled' = SIZE - WIDTH
  <1>1. at' = 0 /\ cursor' = to /\ job' = IF to >= SIZE THEN "scroll" ELSE "none"
    BY DEF MoveTo, AtEnd
  <1>2. SIZE \in Nat
    BY Sizes
  <1>3. ASSUME to < SIZE
        PROVE  Page' = InCells' /\ Settled' = to
    BY <1>1, <1>2, <1>3, MovedPage DEF Settled
  <1>4. ASSUME to >= SIZE
        PROVE  /\ Page' = Append(Tail(InCells'), [i \in 1..WIDTH |-> <<BLANK, c>>])
               /\ Settled' = SIZE - WIDTH
    <2>1. job' = "scroll" /\ cursor' = SIZE
      BY <1>1, <1>2, <1>4
    <2> QED  BY <1>1, <1>2, <1>4, <2>1, MovedPage DEF Settled
  <1>5. to < SIZE \/ to >= SIZE
    BY <1>2
  <1>6. ~ (to < SIZE /\ to >= SIZE)
    BY <1>2
  <1> QED  BY ONLY <1>3, <1>4, <1>5, <1>6

LEMMA DrawnCell ==
  ASSUME NEW k \in Cells, NEW cell, cells \in [Cells -> Cell], cells' = [cells EXCEPT ![k] = cell]
  PROVE  InCells' = [InCells EXCEPT ![Row(k) + 1][Col(k) + 1] = cell]
  <1> DEFINE r0 == Row(k) + 1
             c0 == Col(k) + 1
             after(r, c) == cells'[Index(r, c)]
             before(r, c) == cells[Index(r, c)]
  <1>1. k \in Nat
    BY Sizes DEF Cells
  <1>2. \A r \in 1..HEIGHT, c \in 1..WIDTH :
          after(r, c) = IF r = r0 /\ c = c0 THEN cell ELSE before(r, c)
    BY <1>1, Indices
  <1>3. r0 \in 1..HEIGHT /\ c0 \in 1..WIDTH
    <2>1. Row(k) \in 0..HEIGHT-1 /\ Col(k) \in 0..WIDTH-1 /\ HEIGHT \in Nat /\ WIDTH \in Nat
      BY Moves, Sizes
    <2> QED  BY ONLY <2>1
  <1>4. /\ InCells = [r \in 1..HEIGHT |-> [c \in 1..WIDTH |-> before(r, c)]]
        /\ InCells' = [r \in 1..HEIGHT |-> [c \in 1..WIDTH |-> after(r, c)]]
    BY DEF InCells
  <1> HIDE DEF r0, c0, after, before
  <1>5. InCells' = [InCells EXCEPT ![r0][c0] = cell]
    <2>1. \A r \in 1..HEIGHT : [c \in 1..WIDTH |-> after(r, c)] =
            IF r = r0 THEN [InCells[r] EXCEPT ![c0] = cell] ELSE InCells[r]
      BY <1>2, <1>3, <1>4
    <2> QED  BY <1>3, <1>4, <2>1
  <1> QED  BY <1>5 DEF r0, c0
LEMMA DrawShows ==
  ASSUME ScreenInv, NEW ch \in Char, NEW c \in Color, Draw(ch, c)
  PROVE  Term!Show(ch, c)
  <1> DEFINE r == Settled \div WIDTH
             x == Settled % WIDTH
             blank == [i \in 1..WIDTH |-> <<BLANK, c>>]
  <1>1. /\ job = "none" /\ at = 0 /\ cursor \in Cells /\ cells \in [Cells -> Cell]
        /\ color' = c /\ Settled = cursor /\ CR # NL
    BY ScreenAssumption DEF Draw, ScreenInv, STypeOK, Settled
  <1>2. Page = InCells /\ r = Row(cursor) /\ x = Col(cursor)
    BY <1>1, QuietPage DEF Row, Col
  <1>3. r' = Row(Settled') /\ x' = Col(Settled')
    BY DEF Row, Col
  <1>4. cells' \in [Cells -> Cell]
    BY DrawKeepsType DEF ScreenInv, STypeOK
  <1>5. SIZE \in Nat
    BY Sizes
  <1> HIDE DEF r, x
  <1>6. ASSUME ch = CR
        PROVE  x' = 0 /\ r' = r /\ Page' = Page
    <2>1. cursor' = cursor - Col(cursor) /\ UNCHANGED <<cells, job, at>>
      BY <1>1, <1>6 DEF Draw, StartOfLine, Col
    <2>2. Settled' = cursor - Col(cursor)
      BY <1>1, <2>1 DEF Settled
    <2>3. Row(Settled') = Row(cursor) /\ Col(Settled') = 0
      BY <1>1, <2>2, Moves
    <2>4. Page' = Page
      BY <1>1, <2>1, PageSame DEF Shown
    <2> QED  BY <1>2, <1>3, <2>3, <2>4
  <1>7. ASSUME NEW to \in Nat, to <= SIZE, MoveTo(to),
               to >= SIZE <=> ~ (r < HEIGHT - 1),
               to < SIZE => Row(to) = r + 1 /\ Col(to) = 0,
               r \in 0..HEIGHT-1
        PROVE  /\ x' = 0
               /\ IF r < HEIGHT - 1
                    THEN Page' = InCells' /\ r' = r + 1
                    ELSE Page' = Append(Tail(InCells'), blank) /\ r' = r
    <2>1. CASE r < HEIGHT - 1
      <3>1. to < SIZE
        BY <1>5, <1>7, <2>1
      <3>2. Page' = InCells' /\ Settled' = to
        BY <1>1, <1>4, <1>7, <3>1, MovedTo
      <3> QED  BY <1>3, <1>7, <2>1, <3>1, <3>2
    <2>2. CASE ~ (r < HEIGHT - 1)
      <3>1. to >= SIZE
        BY <1>7, <2>2
      <3>2. Page' = Append(Tail(InCells'), blank) /\ Settled' = SIZE - WIDTH
        BY <1>1, <1>4, <1>7, <3>1, MovedTo
      <3>3. Row(SIZE - WIDTH) = HEIGHT - 1 /\ Col(SIZE - WIDTH) = 0
        BY <1>1, Moves
      <3>4. r = HEIGHT - 1
        BY <1>7, <2>2, Sizes
      <3> QED  BY <1>3, <2>2, <3>2, <3>3, <3>4
    <2> QED  BY <2>1, <2>2
  <1>8. ASSUME ch = NL
        PROVE  /\ x' = 0
               /\ IF r < HEIGHT - 1
                    THEN Page' = Page /\ r' = r + 1
                    ELSE Page' = Append(Tail(Page), blank) /\ r' = r
    <2> DEFINE to == cursor + WIDTH - Col(cursor)
    <2>1. MoveTo(to) /\ cells' = cells
      BY <1>1, <1>8 DEF Draw, NextLine, Col
    <2>2. /\ to \in Nat /\ to <= SIZE /\ r \in 0..HEIGHT-1
          /\ to >= SIZE <=> ~ (r < HEIGHT - 1)
          /\ to < SIZE => Row(to) = r + 1 /\ Col(to) = 0
      BY <1>1, <1>2, Moves
    <2>3. InCells' = Page
      BY <1>2, <2>1 DEF InCells
    <2> HIDE DEF to
    <2> QED  BY <1>7, <2>1, <2>2, <2>3
  <1>9. ASSUME ch \notin {CR, NL}
        PROVE  LET l == [Page EXCEPT ![r + 1][x + 1] = <<ch, c>>] IN
               IF x < WIDTH - 1
                 THEN Page' = l /\ x' = x + 1 /\ r' = r
                 ELSE /\ x' = 0
                      /\ IF r < HEIGHT - 1
                           THEN Page' = l /\ r' = r + 1
                           ELSE Page' = Append(Tail(l), blank) /\ r' = r
    <2> DEFINE l == [Page EXCEPT ![r + 1][x + 1] = <<ch, c>>]
               to == cursor + 1
    <2>1. cursor < SIZE
      BY <1>1, <1>5 DEF Cells
    <2>2. MoveTo(to) /\ cells' = [cells EXCEPT ![cursor] = <<ch, c>>]
      BY <1>9, <2>1 DEF Draw, Set
    <2>3. InCells' = l
      <3>1. InCells' = [InCells EXCEPT ![Row(cursor) + 1][Col(cursor) + 1] = <<ch, c>>]
        BY <1>1, <2>2, DrawnCell
      <3> QED  BY <1>2, <3>1
    <2>4. /\ to \in Nat /\ to <= SIZE /\ r \in 0..HEIGHT-1 /\ x \in 0..WIDTH-1
          /\ to >= SIZE <=> ~ (r < HEIGHT - 1) /\ ~ (x < WIDTH - 1)
          /\ x < WIDTH - 1 => Row(to) = r /\ Col(to) = x + 1
          /\ to < SIZE /\ ~ (x < WIDTH - 1) => Row(to) = r + 1 /\ Col(to) = 0
      BY <1>1, <1>2, Moves
    <2> HIDE DEF l, to
    <2>5. CASE x < WIDTH - 1
      <3>1. to < SIZE
        BY <1>5, <2>4, <2>5
      <3>2. Page' = InCells' /\ Settled' = to
        BY <1>1, <1>4, <2>2, <2>4, <3>1, MovedTo
      <3>3. Page' = l /\ x' = x + 1 /\ r' = r
        BY <1>3, <2>3, <2>4, <2>5, <3>2
      <3> QED  BY <2>5, <3>3 DEF l
    <2>6. CASE ~ (x < WIDTH - 1)
      <3>1. /\ x' = 0
            /\ IF r < HEIGHT - 1
                 THEN Page' = InCells' /\ r' = r + 1
                 ELSE Page' = Append(Tail(InCells'), blank) /\ r' = r
        BY <1>7, <2>2, <2>4, <2>6
      <3> QED  BY <2>3, <2>6, <3>1 DEF l
    <2> QED  BY <2>5, <2>6
  <1>10. CASE ch = CR
    BY <1>1, <1>6, <1>10 DEF Term!Show, Term!Return, r, x
  <1>11. CASE ch = NL
    BY <1>1, <1>8, <1>11 DEF Term!Show, Term!NewLine, Term!Feed, Term!BlankLine, r, x
  <1>12. CASE ch \notin {CR, NL}
    <2> DEFINE l == [Page EXCEPT ![r + 1][x + 1] = <<ch, c>>]
    <2>1. IF x < WIDTH - 1
            THEN Page' = l /\ x' = x + 1 /\ r' = r
            ELSE Term!Feed(l, c)
      BY <1>9, <1>12 DEF Term!Feed, Term!BlankLine, r, x
    <2>2. Term!Glyph(ch, c)
      BY <2>1 DEF Term!Glyph, r, x
    <2> QED  BY <1>12, <2>2 DEF Term!Show
  <1> QED  BY <1>10, <1>11, <1>12

LEMMA TerminalInit == SInit => Term!Init
  <1> SUFFICES ASSUME SInit PROVE Term!Init
    OBVIOUS
  <1>1. job = "clear" /\ Settled = 0
    BY DEF SInit, Settled
  <1>2. Page = [r \in 1..HEIGHT |-> [i \in 1..WIDTH |-> <<BLANK, GREY>>]]
    BY <1>1, PageCells DEF Shown
  <1>3. Settled \div WIDTH = 0 /\ Settled % WIDTH = 0
    <2>1. WIDTH \in Nat \ {0}
      BY Sizes
    <2>2. \A w \in Nat \ {0} : 0 \div w = 0 /\ 0 % w = 0
      BY SMT
    <2> QED  BY <1>1, <2>1, <2>2
  <1> QED  BY <1>2, <1>3 DEF Term!Init, Term!BlankLine

LEMMA TerminalNext ==
  ASSUME ScreenInv, [SNext]_svars
  PROVE  Term!Next \/ (UNCHANGED <<Page, Settled \div WIDTH, Settled % WIDTH>>)
  <1>1. CASE UNCHANGED svars
    <2>1. \A i \in Cells : Shown(i)' = Shown(i)
      BY <1>1 DEF svars, Shown, Blank
    <2> QED  BY <1>1, <2>1, PageSame DEF svars, Settled
  <1>2. CASE Work
    BY <1>2, WorkStutters
  <1>3. ASSUME NEW ch \in Char, NEW c \in Color, Draw(ch, c)
        PROVE  Term!Next
    BY <1>3, DrawShows DEF Term!Next
  <1> QED  BY <1>1, <1>2, <1>3 DEF SNext

(* shell.c:17-31, 61-131: types of the shell's fields, and that the cursor *)
(* is on the screen between two characters, so that none is left out.      *)
THEOREM ScreenTyped == SSpec => []STypeOK
  <1>1. ScreenInv => STypeOK
    BY DEF ScreenInv
  <1> QED  BY <1>1, ScreenInit, ScreenNext, PTL DEF SSpec

(* shell.c:61-131: drawing in a linear memory and scrolling it cell by     *)
(* cell is writing on a page of lines that moves up by one, for every size *)
(* of the screen and whatever the memory held before.                      *)
THEOREM ScreenIsTerminal == SSpec => ImplementsTerminal
  <1>1. SSpec => []ScreenInv
    BY ScreenInit, ScreenNext, PTL DEF SSpec
  <1> QED  BY <1>1, TerminalInit, TerminalNext, PTL DEF SSpec, ImplementsTerminal, Term!Spec
-----------------------------------------------------------------------------
(* sh_printf's place in the format and among the arguments.                *)
Passed == Len(call.fmt) - Len(fmt)
Used   == Len(call.args) - Len(args)
plan   == CHOOSE p \in Plans(call) : TRUE

Parsed ==
  /\ Passed \in 0..Len(call.fmt) /\ fmt = SubSeq(call.fmt, Passed + 1, Len(call.fmt))
  /\ Used \in 0..Len(call.args) /\ args = SubSeq(call.args, Used + 1, Len(call.args))
  /\ plan[Passed] = Used

Outside == {"idle", "write"}
PrintfInv ==
  /\ ScreenInv
  /\ pc \in Outside \cup {"fmt", "puts", "puts 0x", "int", "digits", "put"}
  /\ Callable(call)
  /\ {str, buffer, sent, out} \subseteq Seq(Char)
  /\ value \in Int /\ base \in {10, 16} /\ uvalue \in Nat
  /\ IF pc \in Outside THEN fmt = <<>> ELSE Parsed

Arguments(c) == {c.args[i] : i \in 1..Len(c.args)}

LEMMA ArgumentsAreList ==
  ASSUME NEW c, Callable(c)
  PROVE  c.args \in Seq(Arguments(c)) /\ c.fmt \in Seq(Char)
  <1> DEFINE n == Len(c.args)
             X == Arguments(c)
  <1>1. n \in Nat /\ c.args = [i \in 1..n |-> c.args[i]] /\ c.fmt \in Seq(Char)
    BY DEF Callable
  <1>2. c.args \in [1..n -> X]
    <2>1. \A i \in 1..n : c.args[i] \in X
      BY DEF Arguments
    <2> HIDE DEF n, X
    <2> QED  BY <1>1, <2>1
  <1> HIDE DEF n, X
  <1>3. c.args \in Seq(X)
    BY <1>1, <1>2
  <1> QED  BY <1>1, <1>3 DEF X

LEMMA PlanIs ==
  ASSUME Callable(call)
  PROVE  plan \in [0..Len(call.fmt) -> -1..Len(call.args)] /\ IsPlan(call, plan)
  BY DEF Callable, plan, Plans

(* What is left of a sequence.                                             *)
LEMMA Left ==
  ASSUME NEW X, NEW s \in Seq(X), NEW i \in 0..Len(s)-1
  PROVE  LET t == SubSeq(s, i + 1, Len(s)) IN
         /\ t \in Seq(X) /\ t # <<>> /\ Len(t) = Len(s) - i
         /\ Head(t) = s[i + 1] /\ Head(t) \in X
         /\ Tail(t) = SubSeq(s, i + 2, Len(s)) /\ Len(Tail(t)) = Len(s) - (i + 1)
         /\ i + 1 < Len(s) => t[2] = s[i + 2]
  <1> DEFINE t == SubSeq(s, i + 1, Len(s))
  <1>1. t \in Seq(X) /\ Len(t) = Len(s) - i /\ \A k \in 1..Len(t) : t[k] = s[i + k]
    OBVIOUS
  <1> HIDE DEF t
  <1>2. t # <<>> /\ Head(t) = s[i + 1] /\ Head(t) \in X
    <2>1. Len(t) # 0 /\ t[1] = s[i + 1] /\ t[1] \in X
      BY <1>1
    <2>2. t # <<>>
      BY <1>1, <2>1, EmptySeq
    <2>3. Head(t) = t[1]
      BY <1>1, <2>2
    <2> QED  BY <2>1, <2>2, <2>3
  <1>3. Tail(t) \in Seq(X) /\ Len(Tail(t)) = Len(t) - 1 /\ Len(Tail(t)) = Len(s) - (i + 1)
        /\ \A k \in 1..Len(Tail(t)) : Tail(t)[k] = t[k + 1]
    BY <1>1, <1>2
  <1> DEFINE r == SubSeq(s, i + 2, Len(s))
  <1>4. r \in Seq(X) /\ Len(r) = Len(s) - (i + 1) /\ \A k \in 1..Len(r) : r[k] = s[i + 1 + k]
    OBVIOUS
  <1> HIDE DEF r
  <1>5. \A k \in 1..Len(r) : Tail(t)[k] = r[k]
    <2>1. \A k \in 1..Len(r) : k \in 1..Len(Tail(t)) /\ k + 1 \in 1..Len(t) /\ i + (k + 1) = i + 1 + k
      BY <1>1, <1>3, <1>4
    <2> QED  BY <1>1, <1>3, <1>4, <2>1
  <1>6. Tail(t) = r
    BY <1>1, <1>3, <1>4, <1>5, SeqEqual
  <1> QED  BY <1>1, <1>2, <1>3, <1>6 DEF r, t
LEMMA NoneDropped ==
  ASSUME NEW X, NEW s \in Seq(X), NEW i \in 0..Len(s)
  PROVE  Len(s) - Len(SubSeq(s, i + 1, Len(s))) = i
  OBVIOUS

LEMMA OneDropped ==
  ASSUME NEW X, NEW s \in Seq(X), NEW i \in 0..Len(s)-1
  PROVE  LET r == Tail(SubSeq(s, i + 1, Len(s))) IN
         r = SubSeq(s, i + 2, Len(s)) /\ Len(s) - Len(r) = i + 1 /\ i + 1 \in 0..Len(s)
  <1> DEFINE n == Len(s)
             r == Tail(SubSeq(s, i + 1, n))
  <1>1. r = SubSeq(s, i + 2, n) /\ Len(r) = n - (i + 1)
    BY Left
  <1>2. n \in Nat /\ i \in 0..n-1
    OBVIOUS
  <1> HIDE DEF n, r
  <1>3. n - (n - (i + 1)) = i + 1 /\ i + 1 \in 0..n
    BY <1>2
  <1>4. n - Len(r) = i + 1
    BY <1>1, <1>3
  <1> QED  BY <1>1, <1>3, <1>4 DEF n, r

LEMMA TwoDropped ==
  ASSUME NEW X, NEW s \in Seq(X), NEW i \in 0..Len(s)-2
  PROVE  LET r == Tail(Tail(SubSeq(s, i + 1, Len(s)))) IN
         r = SubSeq(s, i + 3, Len(s)) /\ Len(s) - Len(r) = i + 2 /\ i + 2 \in 0..Len(s)
  <1> DEFINE n == Len(s)
             t == Tail(SubSeq(s, i + 1, n))
  <1>1. i \in 0..n-1 /\ i + 1 \in 0..n-1 /\ (i + 1) + 1 = i + 2 /\ (i + 1) + 2 = i + 3
    OBVIOUS
  <1>2. t = SubSeq(s, (i + 1) + 1, n)
    BY <1>1, OneDropped
  <1>3. Tail(t) = SubSeq(s, (i + 1) + 2, n) /\ n - Len(Tail(t)) = (i + 1) + 1 /\ (i + 1) + 1 \in 0..n
    BY <1>1, <1>2, OneDropped
  <1> QED  BY <1>1, <1>3

(* The piece that comes next, and the argument it uses.                    *)
LEMMA NextPiece ==
  ASSUME Callable(call), Parsed, fmt # <<>>
  PROVE  /\ Passed \in 0..Len(call.fmt)-1 /\ Len(call.fmt) \in Nat /\ plan[Passed] # -1
         /\ fmt \in Seq(Char) /\ Len(fmt) = Len(call.fmt) - Passed /\ Len(fmt) \in Nat
         /\ Head(fmt) = call.fmt[Passed + 1] /\ Head(fmt) \in Char
         /\ Len(fmt) > 1 => fmt[2] = call.fmt[Passed + 2]
         /\ Head(fmt) = "%" => Len(fmt) > 1
         /\ Converts(call.fmt, Passed) =>
              args # <<>> /\ Head(args) = call.args[plan[Passed] + 1]
              /\ Head(args) \in Fitting(fmt[2])
  <1>1. call.fmt \in Seq(Char) /\ call.args \in Seq(Arguments(call))
    BY ArgumentsAreList
  <1>2. /\ Len(call.fmt) \in Nat /\ Len(call.args) \in Nat
        /\ plan \in [0..Len(call.fmt) -> -1..Len(call.args)] /\ IsPlan(call, plan)
    BY <1>1, PlanIs
  <1>3. /\ Passed \in 0..Len(call.fmt) /\ fmt = SubSeq(call.fmt, Passed + 1, Len(call.fmt))
        /\ Used \in 0..Len(call.args) /\ args = SubSeq(call.args, Used + 1, Len(call.args))
        /\ plan[Passed] = Used
    BY DEF Parsed
  <1>4. Passed < Len(call.fmt)
    <2>1. CASE Passed = Len(call.fmt)
      <3>1. fmt = <<>>
        BY <1>1, <1>2, <1>3, <2>1, SubSeqEmpty
      <3> QED  BY <3>1
    <2> QED  BY <1>2, <1>3, <2>1
  <1>5. /\ fmt \in Seq(Char) /\ Len(fmt) = Len(call.fmt) - Passed /\ Head(fmt) = call.fmt[Passed + 1]
        /\ Head(fmt) \in Char /\ Passed + 1 < Len(call.fmt) => fmt[2] = call.fmt[Passed + 2]
    <2>1. Passed \in 0..Len(call.fmt)-1
      BY <1>2, <1>3, <1>4
    <2> QED  BY <1>1, <1>3, <2>1, Left
  <1>6. /\ Passed \in 0..Len(call.fmt)-1 /\ plan[Passed] # -1
        /\ call.fmt[Passed + 1] = "%" => Passed + 1 < Len(call.fmt)
        /\ Converts(call.fmt, Passed) =>
              plan[Passed] < Len(call.args)
              /\ call.args[plan[Passed] + 1] \in Fitting(call.fmt[Passed + 2])
    <2>1. Passed \in 0..Len(call.fmt)-1
      BY <1>2, <1>3, <1>4
    <2>2. plan[Passed] # -1
      BY <1>2, <1>3
    <2> HIDE DEF Passed, plan
    <2> QED  BY <1>2, <2>1, <2>2 DEF IsPlan
  <1>7. ASSUME Converts(call.fmt, Passed)
        PROVE  args # <<>> /\ Head(args) = call.args[plan[Passed] + 1] /\ Head(args) \in Fitting(fmt[2])
    <2>1. Used \in 0..Len(call.args)-1
      BY <1>2, <1>3, <1>6, <1>7
    <2>2. args # <<>> /\ Head(args) = call.args[Used + 1]
      BY <1>1, <1>3, <2>1, Left
    <2>3. fmt[2] = call.fmt[Passed + 2]
      BY <1>5, <1>6, <1>7 DEF Converts
    <2> QED  BY <1>3, <1>6, <1>7, <2>2, <2>3
  <1>8. Len(fmt) \in Nat /\ (Len(fmt) > 1 <=> Passed + 1 < Len(call.fmt))
    <2> DEFINE n == Len(call.fmt)
               m == Len(fmt)
               p == Passed
    <2>1. n \in Nat /\ p \in 0..n-1 /\ m = n - p
      BY <1>2, <1>5, <1>6
    <2> HIDE DEF n, m, p
    <2>2. m \in Nat /\ (m > 1 <=> p + 1 < n)
      BY <2>1
    <2> QED  BY <2>2 DEF n, m, p
  <1> QED  BY <1>2, <1>5, <1>6, <1>7, <1>8

\* sh_printf goes on behind the piece.
LEMMA Advance ==
  ASSUME Callable(call), Parsed, fmt # <<>>, call' = call,
         fmt' = IF Extent(call.fmt, Passed) = 2 THEN Tail(Tail(fmt)) ELSE Tail(fmt),
         args' = IF Converts(call.fmt, Passed) THEN Tail(args) ELSE args
  PROVE  Parsed' /\ Passed' = Passed + Extent(call.fmt, Passed) /\ plan' = plan
  <1> DEFINE F == call.fmt
             A == call.args
             w == Extent(F, Passed)
             u == Uses(F, Passed)
  <1>1. F \in Seq(Char) /\ A \in Seq(Arguments(call))
    BY ArgumentsAreList
  <1>2. /\ Len(F) \in Nat /\ Len(A) \in Nat
        /\ plan \in [0..Len(F) -> -1..Len(A)] /\ IsPlan(call, plan)
    BY <1>1, PlanIs
  <1>3. /\ Passed \in 0..Len(F)-1 /\ fmt = SubSeq(F, Passed + 1, Len(F))
        /\ Used \in 0..Len(A) /\ args = SubSeq(A, Used + 1, Len(A))
        /\ plan[Passed] = Used
    BY NextPiece DEF Parsed
  <1>4. /\ w \in {1, 2} /\ u \in {0, 1} /\ (u = 1 <=> Converts(F, Passed))
        /\ F[Passed + 1] = "%" => Passed + 1 < Len(F)
        /\ Converts(F, Passed) => plan[Passed] < Len(A)
        /\ plan[Passed + w] = plan[Passed] + u
        /\ w = 2 => F[Passed + 1] = "%"
    <2>1. plan[Passed] # -1
      BY <1>2, <1>3
    <2>2. w \in {1, 2} /\ u \in {0, 1} /\ (u = 1 <=> Converts(F, Passed)) /\ (w = 2 => F[Passed + 1] = "%")
      BY DEF Extent, Uses
    <2> QED  BY <1>2, <1>3, <2>1, <2>2 DEF IsPlan
  <1>5. plan' = plan
    BY DEF plan
  <1> HIDE DEF w, u
  <1>6. Passed + w <= Len(F) /\ Used + u <= Len(A)
    <2> DEFINE n == Len(F)
               m == Len(A)
               p == Passed
               q == Used
    <2>1. n \in Nat /\ m \in Nat /\ p \in 0..n-1 /\ q \in 0..m
      BY <1>2, <1>3
    <2>2. (w = 1 \/ (w = 2 /\ p + 1 < n)) /\ (u = 0 \/ (u = 1 /\ q < m))
      BY <1>3, <1>4
    <2> HIDE DEF n, m, p, q
    <2>3. p + w <= n /\ q + u <= m
      BY <2>1, <2>2
    <2> QED  BY <2>3 DEF n, m, p, q
  <1>7. /\ Passed + w \in 0..Len(F)
        /\ fmt' = SubSeq(F, Passed + w + 1, Len(F)) /\ Len(F) - Len(fmt') = Passed + w
    <2>1. Passed \in 0..Len(F) /\ Passed \in Int
      BY <1>2, <1>3
    <2>2. CASE w = 1
      <3>1. fmt' = Tail(fmt) /\ Passed + w + 1 = Passed + 2
        BY <1>6, <2>1, <2>2 DEF w
      <3>2. /\ Passed + 1 \in 0..Len(F) /\ fmt' = SubSeq(F, Passed + 2, Len(F))
            /\ Len(F) - Len(fmt') = Passed + 1
        BY <1>1, <1>3, <3>1, OneDropped
      <3> QED  BY <2>2, <3>1, <3>2
    <2>3. CASE w = 2
      <3>1. fmt' = Tail(Tail(fmt)) /\ Passed + w + 1 = Passed + 3
        BY <1>6, <2>1, <2>3 DEF w
      <3>3. Passed \in 0..Len(F)-2
        <4> DEFINE n == Len(F)
                   p == Passed
        <4>1. n \in Nat /\ p \in 0..n-1 /\ p + 2 <= n
          BY <1>2, <1>3, <1>6, <2>3
        <4> HIDE DEF n, p
        <4>2. p \in 0..n-2
          BY <4>1
        <4> QED  BY <4>2 DEF n, p
      <3>2. /\ Passed + 2 \in 0..Len(F) /\ fmt' = SubSeq(F, Passed + 3, Len(F))
            /\ Len(F) - Len(fmt') = Passed + 2
        BY <1>1, <1>3, <3>1, <3>3, TwoDropped
      <3> QED  BY <2>3, <3>1, <3>2
    <2> QED  BY <1>4, <2>2, <2>3
  <1>11. /\ Used + u \in 0..Len(A)
         /\ args' = SubSeq(A, Used + u + 1, Len(A)) /\ Len(A) - Len(args') = Used + u
    <2>1. Used \in 0..Len(A) /\ Used \in Int
      BY <1>2, <1>3
    <2>2. CASE u = 0
      <3>1. args' = args /\ Used + u = Used
        BY <1>4, <2>1, <2>2
      <3>2. Len(A) - Len(args) = Used
        BY <1>1, <1>3, <2>1, NoneDropped
      <3> QED  BY <1>3, <2>1, <3>1, <3>2
    <2>3. CASE u = 1
      <3>1. args' = Tail(args) /\ Used + u + 1 = Used + 2
        BY <1>4, <1>6, <2>1, <2>3
      <3>3. Used \in 0..Len(A)-1
        <4> DEFINE n == Len(A)
                   p == Used
        <4>1. n \in Nat /\ p \in 0..n /\ p + 1 <= n
          BY <1>2, <1>3, <1>6, <2>3
        <4> HIDE DEF n, p
        <4>2. p \in 0..n-1
          BY <4>1
        <4> QED  BY <4>2 DEF n, p
      <3>2. /\ Used + 1 \in 0..Len(A) /\ args' = SubSeq(A, Used + 2, Len(A))
            /\ Len(A) - Len(args') = Used + 1
        BY <1>1, <1>3, <3>1, <3>3, OneDropped
      <3> QED  BY <2>3, <3>1, <3>2
    <2> QED  BY <1>4, <2>2, <2>3
  <1>8. Passed' = Passed + w /\ Used' = Used + u
    BY <1>7, <1>11 DEF Passed, Used
  <1>9. plan'[Passed'] = Used'
    BY <1>3, <1>4, <1>5, <1>8
  <1>10. Parsed'
    BY <1>7, <1>8, <1>9, <1>11 DEF Parsed
  <1> QED  BY <1>5, <1>8, <1>10 DEF w
\* What the guards of the directives' actions say of it.
LEMMA Directives ==
  ASSUME Callable(call), Parsed
  PROVE  /\ Ordinary \/ OtherLetter =>
              /\ fmt # <<>> /\ Head(fmt) = call.fmt[Passed + 1]
              /\ Extent(call.fmt, Passed) = 1 /\ ~ Converts(call.fmt, Passed)
         /\ PerCent =>
              /\ fmt # <<>> /\ Head(fmt) = "%" /\ call.fmt[Passed + 1] = "%"
              /\ Extent(call.fmt, Passed) = 2 /\ ~ Converts(call.fmt, Passed)
         /\ \A c \in Conversions : Directive(c) =>
              /\ fmt # <<>> /\ Extent(call.fmt, Passed) = 2 /\ Converts(call.fmt, Passed)
              /\ call.fmt[Passed + 2] = c
              /\ args # <<>> /\ Head(args) = call.args[plan[Passed] + 1] /\ Head(args) \in Fitting(c)
  <1> DEFINE a == call.fmt[Passed + 1]
             b == call.fmt[Passed + 2]
  <1>1. ASSUME fmt # <<>>
        PROVE  /\ Head(fmt) = a /\ (Len(fmt) > 1 => fmt[2] = b) /\ (a = "%" => Len(fmt) > 1)
               /\ Converts(call.fmt, Passed) =>
                    args # <<>> /\ Head(args) = call.args[plan[Passed] + 1]
                    /\ Head(args) \in Fitting(fmt[2])
    BY <1>1, NextPiece
  <1>2. /\ Converts(call.fmt, Passed) <=> a = "%" /\ b \in Conversions
        /\ Extent(call.fmt, Passed) = IF a = "%" /\ b \in Conversions \cup {"%"} THEN 2 ELSE 1
    BY DEF Converts, Extent
  <1> HIDE DEF a, b
  <1>3. ASSUME PerCent
        PROVE  fmt # <<>> /\ Head(fmt) = "%" /\ a = "%" /\ b = "%" /\ b \notin Conversions
    <2>1. fmt # <<>> /\ Head(fmt) = "%" /\ fmt[2] = "%"
      BY <1>3 DEF PerCent, Directive
    <2>2. a = "%" /\ b = "%"
      BY <1>1, <2>1
    <2> QED  BY <2>1, <2>2 DEF Conversions
  <1>4. ASSUME NEW c \in Conversions, Directive(c)
        PROVE  /\ fmt # <<>> /\ Extent(call.fmt, Passed) = 2 /\ Converts(call.fmt, Passed) /\ b = c
               /\ args # <<>> /\ Head(args) = call.args[plan[Passed] + 1] /\ Head(args) \in Fitting(c)
    <2>1. fmt # <<>> /\ Head(fmt) = "%" /\ fmt[2] = c
      BY <1>4 DEF Directive
    <2>2. a = "%" /\ b = c
      BY <1>1, <2>1
    <2>3. Converts(call.fmt, Passed) /\ Extent(call.fmt, Passed) = 2
      BY <1>2, <2>2
    <2> QED  BY <1>1, <2>1, <2>2, <2>3
  <1>5. Ordinary \/ OtherLetter =>
              /\ fmt # <<>> /\ Head(fmt) = a
              /\ Extent(call.fmt, Passed) = 1 /\ ~ Converts(call.fmt, Passed)
    <2>1. CASE Ordinary
      <3>1. fmt # <<>> /\ Head(fmt) # "%"
        BY <2>1 DEF Ordinary
      <3> QED  BY <1>1, <1>2, <3>1
    <2>2. CASE OtherLetter
      <3>1. /\ fmt # <<>> /\ Head(fmt) = "%" /\ Len(fmt) > 1
            /\ fmt[2] \notin {"s", "d", "u", "x", "p", "c", "%"}
        BY <2>2, EmptySeq DEF OtherLetter
      <3>2. b \notin Conversions \cup {"%"} /\ Head(fmt) = a
        BY <1>1, <3>1 DEF Conversions
      <3> QED  BY <1>2, <3>1, <3>2
    <2> QED  BY <2>1, <2>2
  <1>6. PerCent => Extent(call.fmt, Passed) = 2 /\ ~ Converts(call.fmt, Passed)
    BY <1>2, <1>3
  <1>7. /\ Ordinary \/ OtherLetter =>
              /\ fmt # <<>> /\ Head(fmt) = a
              /\ Extent(call.fmt, Passed) = 1 /\ ~ Converts(call.fmt, Passed)
        /\ PerCent =>
              /\ fmt # <<>> /\ Head(fmt) = "%" /\ a = "%"
              /\ Extent(call.fmt, Passed) = 2 /\ ~ Converts(call.fmt, Passed)
        /\ \A c \in Conversions : Directive(c) =>
              /\ fmt # <<>> /\ Extent(call.fmt, Passed) = 2 /\ Converts(call.fmt, Passed)
              /\ b = c
              /\ args # <<>> /\ Head(args) = call.args[plan[Passed] + 1] /\ Head(args) \in Fitting(c)
    BY <1>3, <1>4, <1>5, <1>6
  <1> QED  BY <1>7 DEF a, b
LEMMA Characters ==
  /\ \A i \in 1..16 : Digits[i] \in Char
  /\ {"%", "-", "0"} \subseteq Char /\ NullText \in Seq(Char) /\ <<"0", "x">> \in Seq(Char)
  /\ GREY \in Color /\ RED \in Color
  <1>1. \A i \in 1..16 : Digits[i] \in Char
    BY PrintfAssumption
  <1>2. {"%", "-", "x", "n", "u", "l", "(", ")"} \subseteq Char
    BY PrintfAssumption
  <1>3. Digits[1] = "0"
    BY DEF Digits
  <1>4. "0" \in Char
    BY <1>1, <1>3
  <1> QED  BY <1>1, <1>2, <1>4 DEF NullText, Color

LEMMA ModIsNatural ==
  ASSUME NEW a \in Int, NEW n \in Nat \ {0}
  PROVE  a % n \in Nat
  BY SMT

LEMMA SignedIsInt ==
  ASSUME NEW a \in Number
  PROVE  Signed(a) \in Int
  BY PrintfAssumption DEF Signed, Number

\* What a step does to the screen.
Grey == job = "none" /\ color' = GREY /\ UNCHANGED <<cells, cursor, job, at>>
ScreenStep ==
  \/ Work \/ UNCHANGED svars \/ Grey
  \/ \E ch \in Char, c \in Color : Draw(ch, c)

LEMMA ScreenStepInv ==
  ASSUME ScreenInv, ScreenStep
  PROVE  ScreenInv' /\ (Term!Next \/ UNCHANGED <<Page, Settled \div WIDTH, Settled % WIDTH>>)
  <1>1. CASE Grey
    <2>1. ScreenInv'
      BY <1>1, Characters DEF Grey, ScreenInv, STypeOK, Clearing
    <2>2. \A i \in Cells : Shown(i)' = Shown(i)
      BY <1>1 DEF Grey, Shown
    <2>3. Page' = Page
      BY <2>2, PageSame
    <2> QED  BY <1>1, <2>1, <2>3 DEF Grey, Settled
  <1>2. CASE ~ Grey
    <2>1. [SNext]_svars
      BY <1>2 DEF ScreenStep, SNext
    <2> QED  BY <2>1, ScreenNext, TerminalNext
  <1> QED  BY <1>1, <1>2

\* The steps that stay behind the directive.
Conversion ==
  \/ PutsChar \/ PutsReturn \/ Minus \/ Zero \/ Positive \/ StoreDigit \/ DigitsStored
  \/ PutDigit \/ PutintReturn \/ Rendering \/ WriteChar \/ WriteReturn

\* Those that go on in the format.
Reading == Ordinary \/ String \/ Pointer \/ Numeral \/ OneChar \/ PerCent \/ OtherLetter

LEMMA Actions ==
  PNext <=> \/ \E c \in Calls : Printf(c)
            \/ \E s \in Streams, text \in Texts : Write(s, text)
            \/ Conversion \/ Reading \/ PrintfReturn
  BY DEF PNext, Printing, Conversion, Reading

\* Where they lead to, and what of the place in the format they change.
LEMMA ConversionPlaces ==
  ASSUME Conversion
  PROVE  UNCHANGED <<call, fmt, args>> /\ (pc \in Outside <=> pc' \in Outside)
         /\ (pc' = pc \/ pc' \in {"fmt", "int", "digits", "put", "idle"})
  BY DEF Conversion, PutsChar, PutsReturn, Minus, Zero, Positive, StoreDigit, DigitsStored,
         PutDigit, PutintReturn, Rendering, WriteChar, WriteReturn, Ready, Putc, number, Outside

\* A character is drawn, or only the colour is set.
LEMMA PutcDraws ==
  ASSUME PrintfInv, job = "none", NEW ch \in Char, Putc(ch)
  PROVE  ScreenStep /\ sent' = Append(sent, ch) /\ sent' \in Seq(Char) /\ out' \in Seq(Char)
  <1>1. sent \in Seq(Char) /\ out \in Seq(Char)
    BY DEF PrintfInv
  <1>2. sent' = Append(sent, ch) /\ sent' \in Seq(Char)
    BY <1>1 DEF Putc
  <1>3. CASE STREAM_STDOUT \in blocked'
    BY <1>1, <1>2, <1>3 DEF Putc, Grey, ScreenStep
  <1>4. CASE STREAM_STDOUT \notin blocked'
    <2>1. Draw(ch, GREY) /\ out' = Append(out, ch) /\ GREY \in Color
      BY <1>4, Characters DEF Putc
    <2>2. ScreenStep
      BY <2>1 DEF ScreenStep
    <2> QED  BY <1>1, <1>2, <2>1, <2>2
  <1> QED  BY <1>3, <1>4

LEMMA ConversionTypes ==
  ASSUME PrintfInv, Conversion
  PROVE  ScreenStep /\ {str, buffer, sent, out}' \subseteq Seq(Char)
         /\ value' \in Int /\ base' \in {10, 16} /\ uvalue' \in Nat
  <1>1. /\ str \in Seq(Char) /\ buffer \in Seq(Char) /\ sent \in Seq(Char) /\ out \in Seq(Char)
        /\ value \in Int /\ base \in {10, 16} /\ uvalue \in Nat
    BY DEF PrintfInv
  <1>2. WORD \in Nat \ {0, 1}
    BY PrintfAssumption
  <1>4. ASSUME NEW ch \in Char, Ready(pc), Putc(ch)
        PROVE  ScreenStep /\ sent' \in Seq(Char) /\ out' \in Seq(Char)
    BY <1>4, PutcDraws DEF Ready
  <1>5. CASE PutsChar
    <2>1. Head(str) \in Char /\ Tail(str) \in Seq(Char)
      BY <1>1, <1>5, HeadTailProperties DEF PutsChar
    <2> QED  BY <1>1, <1>4, <1>5, <2>1 DEF PutsChar, number, Ready
  <1>6. CASE PutsReturn \/ DigitsStored \/ PutintReturn
    BY <1>1, <1>6 DEF PutsReturn, DigitsStored, PutintReturn, number, said, ScreenStep
  <1>7. CASE Minus
    <2>1. Magnitude \in Nat
      BY <1>1, <1>2, ModIsNatural DEF Magnitude
    <2> QED  BY <1>1, <1>4, <1>7, <2>1, Characters DEF Minus, Ready
  <1>8. CASE Zero
    BY <1>1, <1>4, <1>8, Characters DEF Zero, Ready
  <1>9. CASE Positive
    <2>1. value % WORD \in Nat
      BY <1>1, <1>2, ModIsNatural
    <2> QED  BY <1>1, <1>9, <2>1 DEF Positive, said, ScreenStep
  <1>10. CASE StoreDigit
    <2>1. uvalue % base \in 0..15 /\ uvalue \div base \in Nat
      BY <1>1
    <2>2. Digits[(uvalue % base) + 1] \in Char
      <3>1. (uvalue % base) + 1 \in 1..16
        BY <2>1
      <3> QED  BY <3>1, Characters
    <2> QED  BY <1>1, <1>10, <2>1, <2>2 DEF StoreDigit, said, ScreenStep
  <1>11. CASE PutDigit
    <2>1. Last(buffer) \in Char /\ Front(buffer) \in Seq(Char)
      BY <1>1, <1>11 DEF PutDigit, Last, Front
    <2> QED  BY <1>1, <1>4, <1>11, <2>1 DEF PutDigit, Ready
  <1>12. CASE Rendering
    BY <1>1, <1>12 DEF Rendering, number, said, ScreenStep
  <1>13. CASE WriteChar
    <2>1. Head(str) \in Char /\ Tail(str) \in Seq(Char)
      BY <1>1, <1>13, HeadTailProperties DEF WriteChar
    <2>2. Ink(stream) \in Color /\ Draw(Head(str), Ink(stream)) /\ out' = Append(out, Head(str))
      BY <1>13, Characters DEF WriteChar, Ink
    <2>3. ScreenStep /\ out' \in Seq(Char)
      BY <1>1, <2>1, <2>2 DEF ScreenStep
    <2> QED  BY <1>1, <1>13, <2>1, <2>3 DEF WriteChar, number
  <1>14. CASE WriteReturn
    BY <1>1, <1>14 DEF WriteReturn, Ready, Grey, ScreenStep, number, said
  <1> QED  BY <1>5, <1>6, <1>7, <1>8, <1>9, <1>10, <1>11, <1>12, <1>13, <1>14 DEF Conversion
LEMMA ReadingAdvances ==
  ASSUME PrintfInv, Reading
  PROVE  /\ pc = "fmt" /\ Callable(call) /\ Parsed /\ fmt # <<>> /\ call' = call /\ plan' = plan
         /\ Parsed' /\ Passed' = Passed + Extent(call.fmt, Passed)
  <1>1. pc = "fmt" /\ call' = call
    BY DEF Reading, Ordinary, String, Pointer, Numeral, OneChar, PerCent, OtherLetter, Ready,
           Directive
  <1>2. Callable(call) /\ Parsed
    BY <1>1 DEF PrintfInv, Outside
  <1>3. CASE Ordinary \/ OtherLetter
    <2>1. /\ fmt # <<>> /\ Extent(call.fmt, Passed) = 1 /\ ~ Converts(call.fmt, Passed)
          /\ fmt' = Tail(fmt) /\ args' = args
      BY <1>2, <1>3, Directives DEF Ordinary, OtherLetter
    <2> QED  BY <1>1, <1>2, <2>1, Advance
  <1>4. CASE PerCent
    <2>1. /\ fmt # <<>> /\ Extent(call.fmt, Passed) = 2 /\ ~ Converts(call.fmt, Passed)
          /\ fmt' = Tail(Tail(fmt)) /\ args' = args
      BY <1>2, <1>4, Directives DEF PerCent, Behind
    <2> QED  BY <1>1, <1>2, <2>1, Advance
  <1>5. CASE String \/ Pointer \/ Numeral \/ OneChar
    <2>1. PICK c \in Conversions : Directive(c)
      BY <1>5 DEF String, Pointer, Numeral, OneChar, Conversions
    <2>2. fmt' = Tail(Tail(fmt)) /\ args' = Tail(args)
      BY <1>5 DEF String, Pointer, Numeral, OneChar, Behind
    <2>3. fmt # <<>> /\ Extent(call.fmt, Passed) = 2 /\ Converts(call.fmt, Passed)
      BY <1>2, <2>1, Directives
    <2> QED  BY <1>1, <1>2, <2>2, <2>3, Advance
  <1> QED  BY <1>3, <1>4, <1>5 DEF Reading

LEMMA ReadingTypes ==
  ASSUME PrintfInv, Reading
  PROVE  /\ ScreenStep /\ {str, buffer, sent, out}' \subseteq Seq(Char)
         /\ value' \in Int /\ base' \in {10, 16} /\ uvalue' \in Nat
         /\ pc' \in {"fmt", "puts", "puts 0x", "int"}
  <1>1. /\ str \in Seq(Char) /\ buffer \in Seq(Char) /\ sent \in Seq(Char) /\ out \in Seq(Char)
        /\ value \in Int /\ base \in {10, 16} /\ uvalue \in Nat
    BY DEF PrintfInv
  <1>2. pc = "fmt" /\ Callable(call) /\ Parsed /\ fmt # <<>>
    BY ReadingAdvances
  <1>3. Head(fmt) \in Char
    BY <1>2, NextPiece
  <1>4. \A c \in Conversions : Directive(c) => Head(args) \in Fitting(c)
    BY <1>2, Directives
  <1>5. ASSUME NEW ch \in Char, Ready(pc), Putc(ch)
        PROVE  ScreenStep /\ sent' \in Seq(Char) /\ out' \in Seq(Char)
    BY <1>5, PutcDraws DEF Ready
  <1>6. CASE Ordinary
    BY <1>1, <1>2, <1>3, <1>5, <1>6 DEF Ordinary, number, Ready
  <1>7. CASE OtherLetter \/ PerCent
    BY <1>1, <1>2, <1>5, <1>7, Characters DEF OtherLetter, PerCent, number, Ready, Directive
  <1>8. CASE String
    <2>1. Head(args) \in Seq(Char) \cup {NullString}
      BY <1>4, <1>8 DEF String, Conversions, Fitting
    <2> QED  BY <1>1, <1>8, <2>1, Characters DEF String, number, said, ScreenStep
  <1>9. CASE Pointer
    <2>1. Head(args) \in Number
      BY <1>4, <1>9 DEF Pointer, Conversions, Fitting
    <2>2. Signed(Head(args)) \in Int
      BY <2>1, SignedIsInt
    <2> QED  BY <1>1, <1>9, <2>2, Characters DEF Pointer, said, ScreenStep
  <1>10. CASE Numeral
    <2>1. Head(args) \in Number
      BY <1>4, <1>10 DEF Numeral, Conversions, Fitting
    <2>2. Signed(Head(args)) \in Int
      BY <2>1, SignedIsInt
    <2> QED  BY <1>1, <1>10, <2>2 DEF Numeral, said, ScreenStep
  <1>11. CASE OneChar
    <2>1. Head(args) \in Char
      BY <1>4, <1>11 DEF OneChar, Conversions, Fitting
    <2> QED  BY <1>1, <1>2, <1>5, <1>11, <2>1 DEF OneChar, number, Ready, Directive
  <1> QED  BY <1>6, <1>7, <1>8, <1>9, <1>10, <1>11 DEF Reading

\* What a stream keeps of a text is a text.
LEMMA KeepsIs ==
  ASSUME NEW text \in Texts
  PROVE  Keeps(text) \in Seq(Char)
  <1>1. text \in Seq(Char) /\ STREAM_BUF_SIZE \in Nat
    BY PrintfAssumption
  <1>2. CASE ~ (Len(text) <= STREAM_BUF_SIZE)
    <2>1. \A i \in 1..STREAM_BUF_SIZE : i \in 1..Len(text)
      BY <1>1, <1>2, LenProperties
    <2>2. \A i \in 1..STREAM_BUF_SIZE : text[i] \in Char
      BY <1>1, <2>1, ElementOfSeq
    <2>3. SubSeq(text, 1, STREAM_BUF_SIZE) \in Seq(Char)
      BY <1>1, <2>2, SubSeqProperties
    <2> QED  BY <1>2, <2>3 DEF Keeps
  <1> QED  BY <1>1, <1>2 DEF Keeps

(* A text is printed as by the format %s.                                  *)
LEMMA TextIsCallable ==
  ASSUME NEW text \in Seq(Char)
  PROVE  LET c == [fmt |-> <<"%", "s">>, args |-> <<text>>] IN
         /\ Callable(c) /\ Converts(c.fmt, 0) /\ Extent(c.fmt, 0) = 2 /\ Len(c.fmt) = 2
         /\ text \in Seq(Char) /\ text # NullString
  <1> DEFINE f == <<"%", "s">>
             a == <<text>>
             c == [fmt |-> f, args |-> a]
             p == [i \in 0..2 |-> IF i = 0 THEN 0 ELSE IF i = 1 THEN -1 ELSE 1]
  <1>1. /\ "%" \in Char /\ "s" \in Char /\ text \in Seq(Char) /\ text # NullString
    BY PrintfAssumption
  <1>2. /\ f \in Seq(Char) /\ Len(f) = 2 /\ f[1] = "%" /\ f[2] = "s"
        /\ Len(a) = 1 /\ a[1] = text /\ a = [i \in 1..Len(a) |-> a[i]]
    BY <1>1
  <1>3. Converts(f, 0) /\ Extent(f, 0) = 2 /\ Uses(f, 0) = 1
    <2>1. f[0 + 1] = "%" /\ f[0 + 2] = "s"
      BY <1>2
    <2> QED  BY <2>1 DEF Converts, Extent, Uses, Conversions
  <1>4. p \in Plans(c)
    <2>1. /\ p \in [0..2 -> -1..1] /\ p[0] = 0 /\ p[1] = -1 /\ p[2] = 1
      OBVIOUS
    <2> HIDE DEF p, f, a
    <2>2. c.fmt = f /\ c.args = a
      OBVIOUS
    <2>3. ASSUME NEW i \in 0..Len(f)-1, p[i] # -1
          PROVE  /\ f[i + 1] = "%" => i + 1 < Len(f)
                 /\ Converts(f, i) => p[i] < Len(a) /\ a[p[i] + 1] \in Fitting(f[i + 2])
                 /\ Extent(f, i) = 2 => p[i + 1] = -1
                 /\ p[i + Extent(f, i)] = p[i] + Uses(f, i)
      <3>1. i = 0
        BY <1>2, <2>1, <2>3
      <3>2. text \in Fitting("s")
        BY <1>1 DEF Fitting
      <3>3. p[i] + 1 = 1 /\ i + 1 = 1 /\ i + 2 = 2
        BY <2>1, <3>1
      <3>4. a[p[i] + 1] \in Fitting(f[i + 2])
        BY <1>2, <3>2, <3>3
      <3> QED  BY <1>2, <1>3, <2>1, <3>1, <3>3, <3>4
    <2>4. IsPlan(c, p)
      BY <2>1, <2>2, <2>3 DEF IsPlan
    <2> QED  BY <1>2, <2>1, <2>2, <2>4 DEF Plans
  <1>5. c.fmt = f /\ c.args = a /\ c.args = [i \in 1..Len(c.args) |-> c.args[i]]
    OBVIOUS
  <1> HIDE DEF f, a, p, c
  <1>6. Callable(c)
    BY <1>2, <1>4, <1>5 DEF Callable
  <1>7. Callable(c) /\ Converts(c.fmt, 0) /\ Extent(c.fmt, 0) = 2 /\ Len(c.fmt) = 2
    BY <1>2, <1>3, <1>5, <1>6
  <1> QED  BY <1>1, <1>7 DEF f, a, c
LEMMA PrintfInvInit == PInit => PrintfInv
  <1> SUFFICES ASSUME PInit PROVE PrintfInv
    OBVIOUS
  <1>1. ScreenInv
    BY ScreenInit DEF PInit
  <1>2. Callable(None)
    <2> DEFINE p == [i \in 0..0 |-> 0]
    <2>1. None.fmt = <<>> /\ None.args = <<>> /\ Len(<<>>) = 0 /\ <<>> \in Seq(Char)
      BY DEF None
    <2>2. None.args = [i \in 1..Len(None.args) |-> None.args[i]]
      <3>1. 1..Len(None.args) = {}
        BY <2>1
      <3> QED  BY <2>1, <3>1
    <2>3. p \in Plans(None)
      <3>1. p \in [0..0 -> -1..0] /\ p[0] = 0
        OBVIOUS
      <3>2. 0..Len(None.fmt)-1 = {}
        BY <2>1
      <3> HIDE DEF p
      <3>3. IsPlan(None, p)
        BY <3>1, <3>2 DEF IsPlan
      <3> QED  BY <2>1, <3>1, <3>3 DEF Plans
    <2> HIDE DEF p
    <2> QED  BY <2>1, <2>2, <2>3 DEF Callable
  <1> QED  BY <1>1, <1>2 DEF PInit, PrintfInv, Outside

\* A call begins at the start of its format.
LEMMA Beginning ==
  ASSUME NEW c \in Calls, Printf(c)
  PROVE  /\ Callable(c) /\ call' = c /\ Parsed' /\ Passed' = 0
         /\ UNCHANGED <<svars, str, number, slot, blocked>> /\ sent' = <<>> /\ out' = <<>>
         /\ stream' = STREAM_STDOUT /\ silent' = blocked /\ pc' = "fmt" /\ pc = "idle"
  <1>1. /\ pc = "idle" /\ call' = c /\ fmt' = c.fmt /\ args' = c.args /\ out' = <<>> /\ pc' = "fmt"
        /\ sent' = <<>> /\ stream' = STREAM_STDOUT /\ silent' = blocked
        /\ UNCHANGED <<svars, str, number, slot, blocked>>
    BY DEF Printf, Begin, Ready
  <1>2. Callable(c)
    BY PrintfAssumption
  <1>3. c.fmt \in Seq(Char) /\ c.args \in Seq(Arguments(c))
    BY <1>2, ArgumentsAreList
  <1>4. /\ Len(c.fmt) \in Nat /\ Len(c.args) \in Nat
        /\ c.fmt = SubSeq(c.fmt, 1, Len(c.fmt)) /\ c.args = SubSeq(c.args, 1, Len(c.args))
    BY <1>3, SubSeqFull, LenProperties
  <1>5. Passed' = 0 /\ Used' = 0
    <2>1. Passed' = Len(c.fmt) - Len(c.fmt) /\ Used' = Len(c.args) - Len(c.args)
      BY <1>1 DEF Passed, Used
    <2>2. \A n \in Nat : n - n = 0
      OBVIOUS
    <2> QED  BY <1>4, <2>1, <2>2
  <1>6. plan'[0] = 0
    <2>1. plan' = CHOOSE p \in Plans(c) : TRUE
      BY <1>1 DEF plan
    <2>2. plan' \in Plans(c)
      BY <1>2, <2>1 DEF Callable
    <2> QED  BY <2>2 DEF Plans, IsPlan
  <1>7. Passed' + 1 = 1 /\ Used' + 1 = 1 /\ 0 \in 0..Len(c.fmt) /\ 0 \in 0..Len(c.args)
    BY <1>4, <1>5
  <1>8. Parsed'
    BY <1>1, <1>4, <1>5, <1>6, <1>7 DEF Parsed
  <1> QED  BY <1>1, <1>2, <1>5, <1>8

LEMMA PrintfInvNext ==
  ASSUME PrintfInv, [PNext]_pvars
  PROVE  PrintfInv' /\ ScreenStep
  <1>1. /\ ScreenInv /\ Callable(call)
        /\ str \in Seq(Char) /\ buffer \in Seq(Char) /\ sent \in Seq(Char) /\ out \in Seq(Char)
        /\ value \in Int /\ base \in {10, 16} /\ uvalue \in Nat
        /\ pc \in Outside \cup {"fmt", "puts", "puts 0x", "int", "digits", "put"}
    BY DEF PrintfInv
  <1>2. ASSUME ScreenStep PROVE ScreenInv'
    BY <1>1, <1>2, ScreenStepInv
  <1>3. CASE Conversion
    <2>1. /\ ScreenStep /\ {str, buffer, sent, out}' \subseteq Seq(Char)
          /\ value' \in Int /\ base' \in {10, 16} /\ uvalue' \in Nat
      BY <1>3, ConversionTypes
    <2>2. /\ UNCHANGED <<call, fmt, args>> /\ (pc \in Outside <=> pc' \in Outside)
          /\ pc' \in Outside \cup {"fmt", "puts", "puts 0x", "int", "digits", "put"}
      BY <1>1, <1>3, ConversionPlaces DEF Outside
    <2>3. Parsed' <=> Parsed
      BY <2>2 DEF Parsed, Passed, Used, plan
    <2>4. IF pc' \in Outside THEN fmt' = <<>> ELSE Parsed'
      BY <2>2, <2>3 DEF PrintfInv
    <2> QED  BY <1>1, <1>2, <2>1, <2>2, <2>4 DEF PrintfInv
  <1>4. CASE Reading
    <2>1. /\ ScreenStep /\ {str, buffer, sent, out}' \subseteq Seq(Char)
          /\ value' \in Int /\ base' \in {10, 16} /\ uvalue' \in Nat
          /\ pc' \in {"fmt", "puts", "puts 0x", "int"}
      BY <1>4, ReadingTypes
    <2>2. Parsed' /\ call' = call
      BY <1>4, ReadingAdvances
    <2> QED  BY <1>1, <1>2, <2>1, <2>2 DEF PrintfInv, Outside
  <1>5. CASE \E c \in Calls : Printf(c)
    <2>1. PICK c \in Calls : Printf(c)
      BY <1>5
    <2>2. /\ Callable(c) /\ call' = c /\ Parsed' /\ UNCHANGED <<svars, str, number>>
          /\ sent' = <<>> /\ out' = <<>> /\ pc' = "fmt"
      BY <2>1, Beginning
    <2>4. str' \in Seq(Char) /\ buffer' \in Seq(Char) /\ sent' \in Seq(Char) /\ out' \in Seq(Char)
      <3>1. str' = str /\ buffer' = buffer /\ sent' = <<>> /\ out' = <<>>
        BY <2>2 DEF number
      <3>2. <<>> \in Seq(Char)
        OBVIOUS
      <3> QED  BY <1>1, <3>1, <3>2
    <2>3. ScreenStep /\ Callable(call') /\ {str, buffer, sent, out}' \subseteq Seq(Char)
      BY <2>2, <2>4 DEF ScreenStep
    <2> QED  BY <1>1, <1>2, <2>2, <2>3 DEF PrintfInv, Outside, number
  <1>6. CASE \E s \in Streams, text \in Texts : Write(s, text)
    <2>1. PICK s \in Streams, text \in Texts : Write(s, text)
      BY <1>6
    <2> DEFINE kept == Keeps(text)
    <2>2. /\ call' = [fmt |-> <<"%", "s">>, args |-> <<kept>>] /\ pc' = "write"
          /\ str' = kept \/ str' = <<>>
          /\ sent' = kept /\ out' = <<>> /\ fmt = <<>> /\ UNCHANGED <<svars, fmt, args, number>>
      BY <2>1 DEF Write, Begin, Ready, PrintfInv, Outside
    <2>3. kept \in Seq(Char)
      BY KeepsIs
    <2> HIDE DEF kept
    <2>4. Callable(call') /\ ScreenStep
      BY <2>2, <2>3, TextIsCallable DEF ScreenStep
    <2>5. str' \in Seq(Char) /\ buffer' \in Seq(Char) /\ sent' \in Seq(Char) /\ out' \in Seq(Char)
      <3>1. buffer' = buffer
        BY <2>2 DEF number
      <3>2. <<>> \in Seq(Char)
        OBVIOUS
      <3> QED  BY <1>1, <2>2, <2>3, <3>1, <3>2
    <2>6. {str, buffer, sent, out}' \subseteq Seq(Char)
      BY <2>5
    <2> QED  BY <1>1, <1>2, <2>2, <2>4, <2>6 DEF PrintfInv, Outside, number
  <1>7. CASE PrintfReturn \/ UNCHANGED pvars
    <2>1. /\ UNCHANGED <<svars, call, fmt, args, str, number, sent, out>>
          /\ (pc' = pc \/ (pc' = "idle" /\ fmt = <<>>))
      BY <1>7 DEF PrintfReturn, pvars, said
    <2>2. Parsed' <=> Parsed
      BY <2>1 DEF Parsed, Passed, Used, plan
    <2>3. IF pc' \in Outside THEN fmt' = <<>> ELSE Parsed'
      BY <2>1, <2>2 DEF PrintfInv, Outside
    <2>4. ScreenStep
      BY <2>1 DEF ScreenStep
    <2> QED  BY <1>1, <1>2, <2>1, <2>3, <2>4 DEF PrintfInv, Outside, number
  <1> QED  BY <1>3, <1>4, <1>5, <1>6, <1>7, Actions

(* sh_printf keeps to the format and its arguments: what is left of both   *)
(* is where a piece begins, with an argument of the right type for every   *)
(* conversion, for every format and every number.                          *)
THEOREM PrintfTyped == PSpec => []PrintfInv
  <1>1. PrintfInv /\ [PNext]_pvars => PrintfInv'
    BY PrintfInvNext
  <1> QED  BY <1>1, PrintfInvInit, PTL DEF PSpec

(* shell.c:55-131: what is drawn of a call's text is written on a page of  *)
(* lines that moves up, and nothing else changes the page; a character     *)
(* that a blocked stream keeps leaves it as it is.                         *)
THEOREM PrintfIsTerminal == PSpec => ImplementsTerminal
  <1>1. PInit => Term!Init
    BY ScreenInit, TerminalInit DEF PInit
  <1>2. PrintfInv /\ [PNext]_pvars =>
          Term!Next \/ UNCHANGED <<Page, Settled \div WIDTH, Settled % WIDTH>>
    <2> SUFFICES ASSUME PrintfInv, [PNext]_pvars
                 PROVE  Term!Next \/ UNCHANGED <<Page, Settled \div WIDTH, Settled % WIDTH>>
      OBVIOUS
    <2> QED  BY PrintfInvNext, ScreenStepInv DEF PrintfInv
  <1> QED  BY <1>1, <1>2, PrintfTyped, PTL DEF PSpec, ImplementsTerminal, Term!Spec
-----------------------------------------------------------------------------
(* What a format says with its arguments, as a condition on the text: what *)
(* the steps of sh_printf can be compared with.                            *)

\* d is n in base b, without leading zeros: v[i] is what its first i digits are.
Denotes(d, n, b) ==
  IF n = 0 THEN d = <<"0">>
  ELSE /\ d # <<>>
       /\ \E v \in [0..Len(d) -> 0..n] :
            /\ v[0] = 0 /\ v[1] # 0 /\ v[Len(d)] = n
            /\ \A i \in 1..Len(d) : \E x \in 0..b-1 :
                 v[i] = b * v[i - 1] + x /\ d[i] = Digits[x + 1]

Signs(s, sign, n, b) ==
  IsPrefix(sign, s) /\ Denotes(SubSeq(s, Len(sign) + 1, Len(s)), n, b)

\* s is what a conversion makes of the argument a.
Prints(letter, a, s) ==
  CASE letter = "s" -> s = IF a = NullString THEN NullText ELSE a
    [] letter = "c" -> s = <<a>>
    [] letter = "x" -> Denotes(s, a, 16)
    [] letter = "p" -> Signs(s, <<"0", "x">>, a, 16)
    [] OTHER -> IF Signed(a) >= 0 THEN Denotes(s, Signed(a), 10)
                                  ELSE Signs(s, <<"-">>, -Signed(a), 10)

\* s is what a piece says, with k arguments used before it.
Piece(c, i, k, s) ==
  IF Converts(c.fmt, i) THEN Prints(c.fmt[i + 2], c.args[k + 1], s) ELSE s = <<c.fmt[i + 1]>>

(* text, put together from what the pieces say: those up to place i end at *)
(* ends[i] in it.                                                          *)
SaysUpTo(c, i, p, ends, text) ==
  /\ ends[0] = 0 /\ ends[i] = Len(text)
  /\ \A j \in 0..i-1 : p[j] # -1 =>
       LET next == j + Extent(c.fmt, j) IN
       /\ next <= i /\ ends[j] <= ends[next] /\ ends[next] <= Len(text)
       /\ Piece(c, j, p[j], SubSeq(text, ends[j] + 1, ends[next]))
Says(c, text) ==
  \E p \in Plans(c), ends \in [0..Len(c.fmt) -> 0..Len(text)] :
    SaysUpTo(c, Len(c.fmt), p, ends, text)
-----------------------------------------------------------------------------
(* What has been printed up to a place of the format.                      *)
PlanOf(c) == CHOOSE p \in Plans(c) : TRUE
UpTo(c, i, t) ==
  /\ PlanOf(c)[i] # -1
  /\ \E ends \in [0..Len(c.fmt) -> 0..Len(t)] : SaysUpTo(c, i, PlanOf(c), ends, t)

LEMMA PlanOfIs ==
  ASSUME NEW c, Callable(c)
  PROVE  /\ PlanOf(c) \in Plans(c) /\ PlanOf(c) \in [0..Len(c.fmt) -> -1..Len(c.args)]
         /\ IsPlan(c, PlanOf(c)) /\ c.fmt \in Seq(Char) /\ Len(c.fmt) \in Nat
  <1>1. PlanOf(c) \in Plans(c)
    BY DEF Callable, PlanOf
  <1>2. c.fmt \in Seq(Char)
    BY DEF Callable
  <1> QED  BY <1>1, <1>2 DEF Plans

LEMMA UpToStart ==
  ASSUME NEW c, Callable(c)
  PROVE  UpTo(c, 0, <<>>)
  <1> DEFINE ends == [i \in 0..Len(c.fmt) |-> 0]
             p == PlanOf(c)
  <1>1. p[0] = 0 /\ Len(c.fmt) \in Nat
    BY PlanOfIs DEF IsPlan
  <1>3. 0..0-1 = {} /\ Len(<<>>) = 0 /\ 0 \in 0..0
    OBVIOUS
  <1>2. ends \in [0..Len(c.fmt) -> 0..Len(<<>>)] /\ ends[0] = 0
    BY <1>1, <1>3
  <1> HIDE DEF ends, p
  <1>4. SaysUpTo(c, 0, p, ends, <<>>)
    BY <1>2, <1>3 DEF SaysUpTo
  <1> QED  BY <1>1, <1>2, <1>4 DEF UpTo, p

LEMMA UpToEnd ==
  ASSUME NEW c, Callable(c), NEW t, UpTo(c, Len(c.fmt), t)
  PROVE  Says(c, t)
  BY PlanOfIs DEF UpTo, Says

LEMMA ConcatParts ==
  ASSUME NEW t \in Seq(Char), NEW s \in Seq(Char)
  PROVE  /\ t \o s \in Seq(Char) /\ Len(t \o s) = Len(t) + Len(s)
         /\ SubSeq(t \o s, Len(t) + 1, Len(t) + Len(s)) = s
         /\ \A a, b \in Nat : b <= Len(t) => SubSeq(t \o s, a + 1, b) = SubSeq(t, a + 1, b)
  <1>1. t \o s \in Seq(Char) /\ Len(t \o s) = Len(t) + Len(s) /\ Len(t) \in Nat /\ Len(s) \in Nat
    BY ConcatProperties, LenProperties
  <1>2. SubSeq(t \o s, Len(t) + 1, Len(t) + Len(s)) = s
    <2> DEFINE r == SubSeq(t \o s, Len(t) + 1, Len(t) + Len(s))
    <2>1. r \in Seq(Char) /\ Len(r) = Len(s) /\ \A i \in 1..Len(s) : r[i] = s[i]
      OBVIOUS
    <2> HIDE DEF r
    <2>2. r = s
      BY <2>1, SeqEqual
    <2> QED  BY <2>2 DEF r
  <1>3. ASSUME NEW a \in Nat, NEW b \in Nat, b <= Len(t)
        PROVE  SubSeq(t \o s, a + 1, b) = SubSeq(t, a + 1, b)
    <2> DEFINE r == SubSeq(t \o s, a + 1, b)
               q == SubSeq(t, a + 1, b)
    <2>1. \A i \in a + 1..b : i \in 1..Len(t) /\ (t \o s)[i] = t[i] /\ t[i] \in Char
      BY <1>3
    <2>2. /\ r \in Seq(Char) /\ Len(r) = IF a + 1 <= b THEN b - (a + 1) + 1 ELSE 0
          /\ \A i \in 1..b - (a + 1) + 1 : r[i] = (t \o s)[a + 1 + i - 1]
      BY <2>1, SubSeqProperties
    <2>3. /\ q \in Seq(Char) /\ Len(q) = IF a + 1 <= b THEN b - (a + 1) + 1 ELSE 0
          /\ \A i \in 1..b - (a + 1) + 1 : q[i] = t[a + 1 + i - 1]
      BY <2>1, SubSeqProperties
    <2> HIDE DEF r, q
    <2>4. \A i \in 1..Len(r) : r[i] = q[i]
      <3>1. SUFFICES ASSUME NEW i \in 1..Len(r) PROVE r[i] = q[i]
        OBVIOUS
      <3>2. i \in 1..b - (a + 1) + 1 /\ a + 1 + i - 1 \in a + 1..b
        BY <2>2, <3>1
      <3> QED  BY <2>1, <2>2, <2>3, <3>2
    <2>5. r = q
      BY <2>2, <2>3, <2>4, SeqEqual
    <2> QED  BY <2>5 DEF r, q
  <1> QED  BY <1>1, <1>2, <1>3

\* The next piece is printed.
LEMMA UpToNext ==
  ASSUME NEW c, Callable(c), NEW i \in 0..Len(c.fmt)-1, NEW t \in Seq(Char), NEW s \in Seq(Char),
         UpTo(c, i, t), Piece(c, i, PlanOf(c)[i], s)
  PROVE  UpTo(c, i + Extent(c.fmt, i), t \o s)
  <1> DEFINE p == PlanOf(c)
             f == c.fmt
             m == Len(c.fmt)
             w == Extent(f, i)
             n == i + w
             z == Len(t) + Len(s)
  <1>1. p \in [0..m -> -1..Len(c.args)] /\ IsPlan(c, p) /\ m \in Nat /\ p[i] # -1
    BY PlanOfIs DEF UpTo
  <1>2. /\ \A j \in Int : Extent(f, j) \in {1, 2}
        /\ f[i + 1] = "%" => i + 1 < m
        /\ w = 2 => p[i + 1] = -1 /\ f[i + 1] = "%"
        /\ p[n] = p[i] + Uses(f, i)
        /\ Uses(f, i) \in {0, 1}
    <2>1. /\ \A j \in Int : Extent(f, j) \in {1, 2}
          /\ w = 2 => f[i + 1] = "%"
          /\ Uses(f, i) \in {0, 1}
      BY DEF Extent, Uses
    <2> HIDE DEF p, w
    <2>2. /\ f[i + 1] = "%" => i + 1 < m
          /\ Extent(f, i) = 2 => p[i + 1] = -1
          /\ p[i + Extent(f, i)] = p[i] + Uses(f, i)
      BY <1>1 DEF IsPlan
    <2> QED  BY <2>1, <2>2 DEF w
  <1>3. PICK ends \in [0..m -> 0..Len(t)] : SaysUpTo(c, i, p, ends, t)
    BY DEF UpTo
  <1>4. Len(t) \in Nat /\ Len(s) \in Nat
    BY LenProperties
  <1> HIDE DEF m, w, f, p
  <1>5. n \in 1..m /\ i \in 0..m /\ i < n /\ i \in Nat /\ n \in Nat /\ z \in Nat
    <2>1. m \in Nat /\ i \in 0..m-1 /\ i \in Int
      BY <1>1 DEF m
    <2>2. w \in {1, 2}
      BY <1>2, <2>1 DEF w
    <2>3. w = 1 \/ (w = 2 /\ i + 1 < m)
      BY <1>2, <2>2
    <2>4. z \in Nat
      BY <1>4
    <2> HIDE DEF z
    <2> QED  BY <2>1, <2>3, <2>4
  <1> DEFINE e == [ends EXCEPT ![n] = z]
  <1>6. /\ e \in [0..m -> 0..z] /\ e[n] = z
        /\ \A j \in 0..m : j # n => e[j] = ends[j]
    <2>1. z \in 0..z /\ 0..Len(t) \subseteq 0..z /\ n \in 0..m
      BY <1>4, <1>5
    <2> HIDE DEF z, n
    <2>2. \A j \in 0..m : ends[j] \in 0..z
      BY <1>3, <2>1
    <2> QED  BY <1>3, <2>1, <2>2
  <1>7. p[n] # -1
    <2>1. p[i] \in -1..Len(c.args)
      BY <1>1, <1>5
    <2>2. Len(c.args) \in Nat
      BY DEF Callable
    <2>3. p[i] \in Nat
      BY <1>1, <2>1, <2>2
    <2> QED  BY <1>2, <2>3
  <1> HIDE DEF e
  <1>8. ASSUME NEW j \in 0..n-1, p[j] # -1
        PROVE  LET next == j + Extent(f, j) IN
               /\ next <= n /\ e[j] <= e[next] /\ e[next] <= z
               /\ Piece(c, j, p[j], SubSeq(t \o s, e[j] + 1, e[next]))
    <2>1. CASE j < i
      <3> DEFINE next == j + Extent(f, j)
      <3>1. /\ next <= i /\ ends[j] <= ends[next] /\ ends[next] <= Len(t)
            /\ Piece(c, j, p[j], SubSeq(t, ends[j] + 1, ends[next]))
        <4>1. j \in 0..i-1
          BY <1>5, <2>1
        <4> QED  BY <1>3, <1>8, <4>1 DEF SaysUpTo, f
      <3>2. Extent(f, j) \in {1, 2} /\ j \in Nat
        BY <1>2, <1>5
      <3> HIDE DEF z, n
      <3>3. next \in 0..m /\ next # n /\ j # n /\ j \in 0..m /\ next <= n
        <4>1. next \in Nat /\ next <= i
          BY <3>1, <3>2
        <4> HIDE DEF next
        <4>2. next \in 0..m /\ next # n /\ next <= n
          BY <1>1, <1>5, <4>1
        <4>3. j # n /\ j \in 0..m
          BY <1>1, <1>5, <2>1, <3>2
        <4> QED  BY <4>2, <4>3
      <3>4. e[j] = ends[j] /\ e[next] = ends[next] /\ ends[j] \in Nat /\ ends[next] \in Nat
        BY <1>3, <1>6, <3>3
      <3>5. SubSeq(t \o s, e[j] + 1, e[next]) = SubSeq(t, ends[j] + 1, ends[next])
        <4> DEFINE a == ends[j]
                   b == ends[next]
        <4>1. a \in Nat /\ b \in Nat /\ b <= Len(t)
          BY <3>1, <3>4
        <4> HIDE DEF a, b
        <4>2. SubSeq(t \o s, a + 1, b) = SubSeq(t, a + 1, b)
          BY <4>1, ConcatParts
        <4> QED  BY <3>4, <4>2 DEF a, b
      <3>6. e[next] <= z
        BY <1>4, <3>1, <3>4 DEF z
      <3> QED  BY <3>1, <3>3, <3>4, <3>5, <3>6
    <2>2. CASE j = i
      <3>1. j + Extent(f, j) = n /\ j # n /\ j \in 0..m
        BY <1>5, <2>2 DEF w
      <3>2. e[j] = Len(t) /\ e[n] = z
        BY <1>3, <1>6, <2>2, <3>1 DEF SaysUpTo
      <3>3. SubSeq(t \o s, e[j] + 1, e[n]) = s
        BY <3>2, ConcatParts
      <3>4. Len(t) <= z /\ z <= z /\ n <= n
        BY <1>4, <1>5
      <3>5. Piece(c, j, p[j], s)
        BY <2>2 DEF p
      <3> QED  BY <3>1, <3>2, <3>3, <3>4, <3>5
    <2>3. CASE j > i
      <3>1. w \in {1, 2}
        BY <1>2 DEF w
      <3>2. w = 2 /\ j = i + 1
        BY <1>5, <2>3, <3>1
      <3> QED  BY <1>2, <1>8, <3>2
    <2> QED  BY <1>5, <2>1, <2>2, <2>3
  <1>9. e[0] = 0 /\ e[n] = Len(t \o s)
    <2>1. 0 \in 0..m /\ 0 # n
      <3> HIDE DEF n
      <3> QED  BY <1>1, <1>5
    <2>2. e[0] = 0
      BY <1>3, <1>6, <2>1 DEF SaysUpTo
    <2> QED  BY <1>6, <2>2, ConcatParts
  <1>10. SaysUpTo(c, n, p, e, t \o s)
    <2>1. z = Len(t \o s)
      BY ConcatParts
    <2> HIDE DEF n, z
    <2> QED  BY <1>8, <1>9, <2>1 DEF SaysUpTo, f
  <1>11. e \in [0..Len(c.fmt) -> 0..Len(t \o s)]
    BY <1>6, ConcatParts DEF m
  <1>12. UpTo(c, n, t \o s)
    BY <1>7, <1>10, <1>11 DEF UpTo, p
  <1> QED  BY <1>12 DEF n, w, f
-----------------------------------------------------------------------------
(* What is printed moves from one sequence to the end of the other.        *)
LEMMA HeadMoves ==
  ASSUME NEW o \in Seq(Char), NEW s \in Seq(Char), s # <<>>
  PROVE  Append(o, Head(s)) \o Tail(s) = o \o s
  <1> DEFINE x == Head(s)
             r == Tail(s)
  <1>1. x \in Char /\ r \in Seq(Char)
    BY HeadTailProperties
  <1>2. s = <<x>> \o r
    <2>1. /\ Len(s) \in Nat \ {0} /\ Len(r) = Len(s) - 1 /\ x = s[1]
          /\ \A i \in 1..Len(r) : r[i] = s[i + 1]
      BY EmptySeq, HeadTailProperties
    <2>2. <<x>> \in Seq(Char) /\ Len(<<x>>) = 1 /\ <<x>>[1] = x
      BY <1>1
    <2> DEFINE q == <<x>> \o r
    <2>3. /\ q \in Seq(Char) /\ Len(q) = 1 + Len(r)
          /\ \A i \in 1..1 + Len(r) : q[i] = IF i <= 1 THEN <<x>>[i] ELSE r[i - 1]
      BY <1>1, <2>2, ConcatProperties
    <2> HIDE DEF q, x, r
    <2>4. \A i \in 1..Len(s) : s[i] = q[i]
      <3>1. SUFFICES ASSUME NEW i \in 1..Len(s) PROVE s[i] = q[i]
        OBVIOUS
      <3>2. i \in 1..1 + Len(r) /\ (i > 1 => i - 1 \in 1..Len(r) /\ (i - 1) + 1 = i) /\ (i <= 1 => i = 1)
        BY <2>1
      <3>3. CASE i <= 1
        BY <2>1, <2>2, <2>3, <3>2, <3>3
      <3>4. CASE i > 1
        BY <2>1, <2>3, <3>2, <3>4
      <3> QED  BY <3>2, <3>3, <3>4
    <2>5. Len(s) = Len(q)
      BY <2>1, <2>3
    <2>6. s = q
      BY <2>3, <2>4, <2>5, SeqEqual
    <2> QED  BY <2>6 DEF q
  <1>3. <<x>> \in Seq(Char) /\ Append(o, x) = o \o <<x>>
    BY <1>1, AppendIsConcat
  <1> HIDE DEF x, r
  <1>4. (o \o <<x>>) \o r = o \o (<<x>> \o r)
    BY <1>1, <1>3, ConcatAssociative
  <1> QED  BY <1>2, <1>3, <1>4 DEF x, r

LEMMA ReverseIs ==
  ASSUME NEW s \in Seq(Char)
  PROVE  /\ Reverse(s) \in Seq(Char) /\ Len(Reverse(s)) = Len(s)
         /\ \A i \in 1..Len(s) : Reverse(s)[i] = s[Len(s) - i + 1]
  <1> DEFINE n == Len(s)
             r == Reverse(s)
  <1>1. n \in Nat /\ \A i \in 1..n : s[i] \in Char
    BY LenProperties, ElementOfSeq
  <1>2. r = [i \in 1..n |-> s[(n - i) + 1]]
    BY DEF Reverse
  <1> HIDE DEF n, r
  <1>3. \A i \in 1..n : n - i + 1 \in 1..n
    BY <1>1
  <1>4. r \in [1..n -> Char]
    BY <1>1, <1>2, <1>3
  <1>5. r \in Seq(Char) /\ Len(r) = n
    BY <1>1, <1>4
  <1> QED  BY <1>2, <1>5 DEF n, r

LEMMA LastMoves ==
  ASSUME NEW o \in Seq(Char), NEW b \in Seq(Char), b # <<>>
  PROVE  Append(o, Last(b)) \o Reverse(Front(b)) = o \o Reverse(b)
  <1> DEFINE n == Len(b)
             f == Front(b)
             r == Reverse(b)
             x == Last(b)
  <1>1. n \in Nat \ {0} /\ \A i \in 1..n : b[i] \in Char
    BY EmptySeq, ElementOfSeq
  <1>2. f \in Seq(Char) /\ Len(f) = n - 1 /\ \A i \in 1..n - 1 : f[i] = b[i]
    <2>1. \A i \in 1..n - 1 : b[i] \in Char
      BY <1>1
    <2>2. /\ f \in Seq(Char) /\ Len(f) = IF 1 <= n - 1 THEN n - 1 - 1 + 1 ELSE 0
          /\ \A i \in 1..n - 1 - 1 + 1 : f[i] = b[1 + i - 1]
      BY <1>1, <2>1, SubSeqProperties DEF Front
    <2> HIDE DEF n, f
    <2> QED  BY <1>1, <2>2
  <1>3. r \in Seq(Char) /\ Len(r) = n /\ \A i \in 1..n : r[i] = b[n - i + 1]
    BY ReverseIs
  <1>4. /\ Reverse(f) \in Seq(Char) /\ Len(Reverse(f)) = n - 1
        /\ \A i \in 1..n - 1 : Reverse(f)[i] = f[(n - 1) - i + 1]
    <2> HIDE DEF f, n
    <2>1. Reverse(f) \in Seq(Char) /\ Len(Reverse(f)) = Len(f)
          /\ \A i \in 1..Len(f) : Reverse(f)[i] = f[Len(f) - i + 1]
      BY <1>2, ReverseIs
    <2> QED  BY <1>2, <2>1
  <1>5. x = b[n]
    BY DEF Last
  <1> DEFINE q == Reverse(f)
  <1> HIDE DEF n, f, r, x, q
  <1>6. r # <<>> /\ Head(r) = x
    <2>1. r # <<>>
      BY <1>1, <1>3, EmptySeq
    <2>2. Head(r) = r[1] /\ 1 \in 1..n /\ n - 1 + 1 = n
      BY <1>1, <1>3, <2>1
    <2> QED  BY <1>3, <1>5, <2>1, <2>2
  <1>7. Tail(r) = q
    <2>1. /\ Tail(r) \in Seq(Char) /\ Len(Tail(r)) = n - 1
          /\ \A i \in 1..n - 1 : Tail(r)[i] = r[i + 1]
      BY <1>3, <1>6, HeadTailProperties
    <2>2. ASSUME NEW i \in 1..n - 1 PROVE Tail(r)[i] = q[i]
      <3>1. i + 1 \in 1..n /\ n - (i + 1) + 1 = n - i /\ (n - 1) - i + 1 = n - i /\ n - i \in 1..n - 1
        BY <1>1, <2>2
      <3>2. Tail(r)[i] = b[n - i]
        BY <1>3, <2>1, <2>2, <3>1
      <3>3. q[i] = b[n - i]
        <4>1. q[i] = f[n - i]
          BY <1>4, <2>2, <3>1 DEF q
        <4> QED  BY <1>2, <3>1, <4>1
      <3> QED  BY <3>2, <3>3
    <2>3. q \in Seq(Char) /\ Len(q) = n - 1
      BY <1>4 DEF q
    <2> QED  BY <2>1, <2>2, <2>3, SeqEqual
  <1>8. Append(o, x) \o q = o \o r
    BY <1>3, <1>6, <1>7, HeadMoves
  <1> QED  BY <1>8 DEF x, q, r, f
-----------------------------------------------------------------------------
(* Numerals.                                                               *)
Numeric == {"d", "u", "x", "p"}
Radix(letter) == IF letter \in {"x", "p"} THEN 16 ELSE 10
Lead(letter)  == IF letter = "p" THEN <<"0", "x">> ELSE <<>>
Negative(letter, a) == Radix(letter) = 10 /\ Signed(a) < 0
Before(letter, a) == IF Negative(letter, a) THEN <<"-">> ELSE Lead(letter)
Amount(letter, a) ==
  IF Radix(letter) = 16 THEN a ELSE IF Signed(a) < 0 THEN -Signed(a) ELSE Signed(a)

LEMMA Bits ==
  ASSUME NEW a \in Number
  PROVE  /\ Signed(a) \in Int /\ (Signed(a) = 0 <=> a = 0) /\ Signed(a) % WORD = a
         /\ Signed(a) < 0 => -Signed(a) \in 1..WORD-1 /\ (-Signed(a)) % WORD = -Signed(a)
         /\ Signed(a) >= 0 => Signed(a) \in 0..WORD-1
  <1> DEFINE w == WORD
             h == WORD \div 2
  <1>1. w \in Nat /\ w > 1 /\ a \in 0..w-1 /\ h \in Nat /\ h >= 1 /\ h < w
    BY PrintfAssumption DEF Number
  <1>2. Signed(a) = IF a < h THEN a ELSE a - w
    BY DEF Signed
  <1> HIDE DEF w, h
  <1>3. \A k \in 0..w-1 : k % w = k
    BY <1>1, SMT
  <1>4. (a - w) % w = a
    BY <1>1, SMT
  <1>5. /\ Signed(a) \in Int /\ (Signed(a) = 0 <=> a = 0)
        /\ Signed(a) < 0 => -Signed(a) \in 1..w-1
        /\ Signed(a) >= 0 => Signed(a) \in 0..w-1
    BY <1>1, <1>2
  <1>6. Signed(a) % w = a
    BY <1>1, <1>2, <1>3, <1>4
  <1>7. Signed(a) < 0 => (-Signed(a)) % w = -Signed(a)
    <2> DEFINE k == -Signed(a)
    <2>1. Signed(a) < 0 => k \in 0..w-1
      BY <1>1, <1>5
    <2> HIDE DEF k
    <2>2. Signed(a) < 0 => k % w = k
      BY <1>3, <2>1
    <2> QED  BY <2>2 DEF k
  <1> QED  BY <1>5, <1>6, <1>7 DEF w

LEMMA SignFirst ==
  ASSUME NEW sign \in Seq(Char), NEW d \in Seq(Char), NEW n, NEW b, Denotes(d, n, b)
  PROVE  Signs(sign \o d, sign, n, b)
  <1> DEFINE s == sign \o d
             k == Len(sign)
  <1>1. /\ s \in Seq(Char) /\ Len(s) = k + Len(d) /\ k \in Nat /\ Len(d) \in Nat
        /\ SubSeq(s, k + 1, k + Len(d)) = d
        /\ \A x, y \in Nat : y <= k => SubSeq(s, x + 1, y) = SubSeq(sign, x + 1, y)
    BY ConcatParts, LenProperties
  <1> HIDE DEF s, k
  <1>2. SubSeq(s, 0 + 1, k) = SubSeq(sign, 0 + 1, k)
    <2>1. 0 \in Nat /\ k <= k
      BY <1>1
    <2> QED  BY <1>1, <2>1
  <1>3. IsPrefix(sign, s)
    <2>1. 0 + 1 = 1 /\ k <= Len(s)
      BY <1>1
    <2> QED  BY <1>2, <2>1 DEF IsPrefix, k
  <1>4. SubSeq(s, Len(sign) + 1, Len(s)) = d
    BY <1>1 DEF k
  <1>5. Signs(s, sign, n, b)
    BY <1>3, <1>4 DEF Signs
  <1> QED  BY <1>5 DEF s

\* A numeral is what the conversion makes of its argument.
LEMMA NumeralPrints ==
  ASSUME NEW letter \in Numeric, NEW a \in Number, NEW d \in Seq(Char),
         Denotes(d, Amount(letter, a), Radix(letter))
  PROVE  Prints(letter, a, Before(letter, a) \o d)
  <1>1. Signed(a) \in Int
    BY Bits
  <1>2. <<>> \o d = d
    BY ConcatEmptySeq
  <1>3. CASE letter = "x"
    <2>1. Before(letter, a) = <<>> /\ Denotes(d, a, 16)
      BY <1>3 DEF Before, Negative, Lead, Radix, Amount
    <2> QED  BY <1>2, <1>3, <2>1 DEF Prints
  <1>4. CASE letter = "p"
    <2>1. Before(letter, a) = <<"0", "x">> /\ Denotes(d, a, 16)
      BY <1>4 DEF Before, Negative, Lead, Radix, Amount
    <2>2. Signs(<<"0", "x">> \o d, <<"0", "x">>, a, 16)
      BY <2>1, SignFirst, Characters
    <2> QED  BY <1>4, <2>1, <2>2 DEF Prints
  <1>5. CASE letter \in {"d", "u"} /\ Signed(a) < 0
    <2>1. Before(letter, a) = <<"-">> /\ Denotes(d, -Signed(a), 10)
      BY <1>5 DEF Before, Negative, Lead, Radix, Amount
    <2>2. <<"-">> \in Seq(Char)
      BY Characters
    <2>3. Signs(<<"-">> \o d, <<"-">>, -Signed(a), 10)
      BY <2>1, <2>2, SignFirst
    <2>4. ~ (Signed(a) >= 0)
      BY <1>1, <1>5
    <2> QED  BY <1>5, <2>1, <2>3, <2>4 DEF Prints
  <1>6. CASE letter \in {"d", "u"} /\ ~ (Signed(a) < 0)
    <2>1. Before(letter, a) = <<>> /\ Denotes(d, Signed(a), 10)
      BY <1>6 DEF Before, Negative, Lead, Radix, Amount
    <2>2. Signed(a) >= 0
      BY <1>1, <1>6
    <2> QED  BY <1>2, <1>6, <2>1, <2>2 DEF Prints
  <1> QED  BY <1>3, <1>4, <1>5, <1>6 DEF Numeric
(* d has the digits of n, the last one first, and u is what is left of n:  *)
(* q[i] is what was left after i digits.                                   *)
Digitized(n, b, d, u) ==
  \E q \in [0..Len(d) -> 0..n] :
    /\ q[0] = n /\ q[Len(d)] = u
    /\ \A i \in 1..Len(d) :
         q[i - 1] # 0 /\ q[i] = q[i - 1] \div b /\ d[i] = Digits[(q[i - 1] % b) + 1]

LEMMA NoDigitYet ==
  ASSUME NEW n \in Nat, NEW b
  PROVE  Digitized(n, b, <<>>, n)
  <1> DEFINE q == [i \in 0..0 |-> n]
  <1>1. Len(<<>>) = 0 /\ 1..0 = {} /\ q \in [0..0 -> 0..n] /\ q[0] = n
    OBVIOUS
  <1> HIDE DEF q
  <1> QED  BY <1>1 DEF Digitized

LEMMA OneMoreDigit ==
  ASSUME NEW n \in Nat, NEW b \in {10, 16}, NEW d \in Seq(Char), NEW u \in Nat \ {0},
         Digitized(n, b, d, u)
  PROVE  LET x == Digits[(u % b) + 1] IN
         /\ x \in Char /\ u \div b \in Nat
         /\ Digitized(n, b, Append(d, x), u \div b)
  <1> DEFINE x == Digits[(u % b) + 1]
             k == Len(d)
             e == Append(d, x)
             v == u \div b
  <1>1. u % b \in 0..15 /\ v \in Nat
    OBVIOUS
  <1>2. x \in Char
    <2>1. (u % b) + 1 \in 1..16
      BY <1>1
    <2> QED  BY <2>1, Characters
  <1>3. PICK q \in [0..k -> 0..n] :
          /\ q[0] = n /\ q[k] = u
          /\ \A i \in 1..k :
               q[i - 1] # 0 /\ q[i] = q[i - 1] \div b /\ d[i] = Digits[(q[i - 1] % b) + 1]
    BY DEF Digitized
  <1>4. k \in Nat
    BY LenProperties
  <1>5. e \in Seq(Char) /\ Len(e) = k + 1 /\ (\A i \in 1..k : e[i] = d[i]) /\ e[k + 1] = x
    BY <1>2, AppendProperties
  <1> DEFINE r == [i \in 0..k + 1 |-> IF i = k + 1 THEN v ELSE q[i]]
  <1> HIDE DEF k, e
  <1>10. v \in 0..n
    <2>1. u \in 0..n
      <3>1. k \in 0..k
        BY <1>4
      <3> QED  BY <1>3, <3>1
    <2>2. u \div 10 <= u /\ u \div 16 <= u
      OBVIOUS
    <2>3. v <= u
      BY <2>2
    <2> HIDE DEF v
    <2> QED  BY <1>1, <2>1, <2>3
  <1> HIDE DEF v
  <1>6. r \in [0..k + 1 -> 0..n] /\ r[k + 1] = v /\ \A i \in 0..k : r[i] = q[i]
    BY <1>3, <1>4, <1>10
  <1> HIDE DEF r, x
  <1>7. ASSUME NEW i \in 1..k + 1
        PROVE  r[i - 1] # 0 /\ r[i] = r[i - 1] \div b /\ e[i] = Digits[(r[i - 1] % b) + 1]
    <2>1. CASE i = k + 1
      <3>1. i - 1 = k /\ k \in 0..k
        BY <1>4, <2>1
      <3>2. r[i - 1] = u /\ r[i] = v /\ e[i] = x
        BY <1>3, <1>5, <1>6, <2>1, <3>1
      <3> QED  BY <3>2 DEF v, x
    <2>2. CASE i # k + 1
      <3>1. i \in 1..k /\ i \in 0..k /\ i - 1 \in 0..k
        BY <1>4, <2>2
      <3> QED  BY <1>3, <1>5, <1>6, <3>1
    <2> QED  BY <2>1, <2>2
  <1>8. 0 \in 0..k
    BY <1>4
  <1>9. Digitized(n, b, e, v)
    <2>1. r \in [0..Len(e) -> 0..n] /\ r[0] = n /\ r[Len(e)] = v
      BY <1>3, <1>5, <1>6, <1>8
    <2>2. \A i \in 1..Len(e) :
            r[i - 1] # 0 /\ r[i] = r[i - 1] \div b /\ e[i] = Digits[(r[i - 1] % b) + 1]
      BY <1>5, <1>7
    <2> QED  BY <2>1, <2>2 DEF Digitized
  <1> QED  BY <1>1, <1>2, <1>9 DEF e, v, x

\* When nothing is left, the digits are the number, backwards.
LEMMA AllDigits ==
  ASSUME NEW n \in Nat \ {0}, NEW b \in {10, 16}, NEW d \in Seq(Char), Digitized(n, b, d, 0)
  PROVE  Denotes(Reverse(d), n, b)
  <1> DEFINE k == Len(d)
             r == Reverse(d)
  <1>1. PICK q \in [0..k -> 0..n] :
          /\ q[0] = n /\ q[k] = 0
          /\ \A i \in 1..k :
               q[i - 1] # 0 /\ q[i] = q[i - 1] \div b /\ d[i] = Digits[(q[i - 1] % b) + 1]
    BY DEF Digitized
  <1>2. k \in Nat /\ k # 0
    BY <1>1, LenProperties
  <1>3. r \in Seq(Char) /\ Len(r) = k /\ \A i \in 1..k : r[i] = d[k - i + 1]
    BY ReverseIs
  <1> DEFINE v == [i \in 0..k |-> q[k - i]]
  <1> HIDE DEF k, r
  <1>4. v \in [0..k -> 0..n] /\ \A i \in 0..k : v[i] = q[k - i]
    <2>1. \A i \in 0..k : k - i \in 0..k
      BY <1>2
    <2> QED  BY <1>1, <2>1
  <1> HIDE DEF v
  <1>5. v[0] = 0 /\ v[1] # 0 /\ v[k] = n
    <2>1. 0 \in 0..k /\ 1 \in 0..k /\ k \in 0..k /\ k \in 1..k /\ k - 0 = k /\ k - k = 0
      BY <1>2
    <2> QED  BY <1>1, <1>4, <2>1
  <1>6. ASSUME NEW i \in 1..k
        PROVE  \E x \in 0..b-1 : v[i] = b * v[i - 1] + x /\ r[i] = Digits[x + 1]
    <2> DEFINE j == k - i + 1
               w == q[j - 1]
    <2>1. j \in 1..k /\ j - 1 = k - i /\ k - (i - 1) = j /\ i - 1 \in 0..k /\ i \in 0..k
          /\ j - 1 \in 0..k
      BY <1>2
    <2>2. q[j] = w \div b /\ d[j] = Digits[(w % b) + 1] /\ w \in Nat
      BY <1>1, <2>1
    <2>3. v[i] = w /\ v[i - 1] = q[j] /\ r[i] = d[j]
      BY <1>3, <1>4, <2>1
    <2> HIDE DEF w, j
    <2>4. w % b \in 0..b-1 /\ w = b * (w \div b) + (w % b)
      <3>1. b \in Nat \ {0} /\ w \in Nat
        BY <2>2
      <3> QED  BY <3>1, DivMod
    <2> QED  BY <2>2, <2>3, <2>4
  <1>7. r # <<>>
    BY <1>2, <1>3, EmptySeq
  <1>8. Denotes(r, n, b)
    BY <1>3, <1>4, <1>5, <1>6, <1>7 DEF Denotes
  <1> QED  BY <1>8 DEF r
-----------------------------------------------------------------------------
(* The conversion at place i of the format of c, with t printed before it. *)
Letter(c, i) == c.fmt[i + 2]
Arg(c, i)    == c.args[PlanOf(c)[i] + 1]
Behindhand(c, i, t) ==
  i \in 0..Len(c.fmt)-1 /\ t \in Seq(Char) /\ Converts(c.fmt, i) /\ UpTo(c, i, t)

\* w ends in what the conversion prints.
Owed(c, i, w) ==
  \E t, s \in Seq(Char) :
    Behindhand(c, i, t) /\ Prints(Letter(c, i), Arg(c, i), s) /\ w = t \o s

\* sh_putint is called after w with the value v in base b;
OfNumber(c, i, t) ==
  Behindhand(c, i, t) /\ Letter(c, i) \in Numeric /\ Arg(c, i) \in Number
Led(c, i, w, v, b) ==
  \E t : /\ OfNumber(c, i, t)
         /\ v = Signed(Arg(c, i)) /\ b = Radix(Letter(c, i))
         /\ w = t \o Lead(Letter(c, i))

\* it has the digits d, and u is left.
Counted(c, i, w, b, d, u) ==
  \E t : /\ OfNumber(c, i, t) /\ b = Radix(Letter(c, i))
         /\ w = t \o Before(Letter(c, i), Arg(c, i))
         /\ Amount(Letter(c, i), Arg(c, i)) # 0
         /\ Digitized(Amount(Letter(c, i), Arg(c, i)), b, d, u)
         /\ Len(d) <= BUFFER - 1 /\ u < 10^(BUFFER - 1 - Len(d))

LEMMA Paid ==
  ASSUME NEW c, Callable(c), NEW i, NEW w, Owed(c, i, w)
  PROVE  UpTo(c, i + 2, w)
  <1>1. PICK t \in Seq(Char), s \in Seq(Char) :
          Behindhand(c, i, t) /\ Prints(Letter(c, i), Arg(c, i), s) /\ w = t \o s
    BY DEF Owed
  <1>2. i \in 0..Len(c.fmt)-1 /\ Converts(c.fmt, i) /\ UpTo(c, i, t)
    BY <1>1 DEF Behindhand
  <1>3. Piece(c, i, PlanOf(c)[i], s)
    BY <1>1, <1>2 DEF Piece, Letter, Arg
  <1>4. Extent(c.fmt, i) = 2
    BY <1>2 DEF Converts, Extent
  <1>5. UpTo(c, i + Extent(c.fmt, i), t \o s)
    BY <1>2, <1>3, UpToNext
  <1> QED  BY <1>1, <1>4, <1>5

LEMMA Leads ==
  ASSUME NEW letter \in Numeric, NEW a \in Number
  PROVE  /\ Lead(letter) \in Seq(Char) /\ Before(letter, a) \in Seq(Char)
         /\ Radix(letter) \in {10, 16} /\ Amount(letter, a) \in 0..WORD-1
         /\ Amount(letter, a) = 0 <=> Signed(a) = 0
         /\ IF Radix(letter) = 10 /\ Signed(a) < 0
              THEN /\ Lead(letter) = <<>> /\ Before(letter, a) = <<"-">>
                   /\ Amount(letter, a) = (-Signed(a)) % WORD
              ELSE Before(letter, a) = Lead(letter) /\ Amount(letter, a) = Signed(a) % WORD
  <1>1. <<>> \in Seq(Char) /\ <<"0", "x">> \in Seq(Char) /\ <<"-">> \in Seq(Char)
    <2>1. <<>> \in Seq(Char)
      OBVIOUS
    <2> QED  BY <2>1, Characters
  <1>2. Lead(letter) \in Seq(Char) /\ Before(letter, a) \in Seq(Char) /\ Radix(letter) \in {10, 16}
    BY <1>1 DEF Lead, Before, Radix
  <1>3. /\ Signed(a) \in Int /\ (Signed(a) = 0 <=> a = 0) /\ Signed(a) % WORD = a
        /\ Signed(a) < 0 => -Signed(a) \in 1..WORD-1 /\ (-Signed(a)) % WORD = -Signed(a)
        /\ Signed(a) >= 0 => Signed(a) \in 0..WORD-1
        /\ a \in 0..WORD-1 /\ WORD \in Nat
    BY Bits, PrintfAssumption DEF Number
  <1>4. Signed(a) >= 0 => Signed(a) = a
    BY <1>3 DEF Signed, Number
  <1>5. CASE Radix(letter) = 10 /\ Signed(a) < 0
    <2>1. Amount(letter, a) = -Signed(a)
      BY <1>5 DEF Amount
    <2>2. Lead(letter) = <<>>
      BY <1>5 DEF Lead, Radix
    <2>3. Before(letter, a) = <<"-">>
      BY <1>5 DEF Before, Negative
    <2>4. -Signed(a) \in 0..WORD-1 /\ -Signed(a) # 0 /\ Signed(a) # 0
      BY <1>3, <1>5
    <2> QED  BY <1>2, <1>3, <1>5, <2>1, <2>2, <2>3, <2>4
  <1>6. CASE ~ (Radix(letter) = 10 /\ Signed(a) < 0)
    <2>1. Before(letter, a) = Lead(letter)
      BY <1>6 DEF Before, Negative
    <2>2. Amount(letter, a) = a
      <3>1. CASE Radix(letter) = 16
        BY <3>1 DEF Amount
      <3>2. CASE Radix(letter) = 10
        <4>1. ~ (Signed(a) < 0)
          BY <1>6, <3>2
        <4>2. Signed(a) = a
          BY <1>3, <1>4, <4>1
        <4> QED  BY <3>2, <4>1, <4>2 DEF Amount
      <3> QED  BY <1>2, <3>1, <3>2
    <2> QED  BY <1>2, <1>3, <1>6, <2>1, <2>2
  <1> QED  BY <1>5, <1>6
(* The parts of sh_putint.                                                 *)
LEMMA Counting ==
  ASSUME NEW c, NEW i, NEW t, OfNumber(c, i, t), Amount(Letter(c, i), Arg(c, i)) # 0
  PROVE  Counted(c, i, t \o Before(Letter(c, i), Arg(c, i)), Radix(Letter(c, i)), <<>>,
                 Amount(Letter(c, i), Arg(c, i)))
  <1> DEFINE n == Amount(Letter(c, i), Arg(c, i))
  <1>1. n \in 0..WORD-1
    BY Leads DEF OfNumber
  <1>2. WORD \in Nat /\ BUFFER \in Nat \ {0} /\ 10^(BUFFER - 1) \in Nat /\ 10^(BUFFER - 1) >= WORD
    <2>1. BUFFER - 1 \in 0..BUFFER-1
      BY PrintfAssumption
    <2> QED  BY <2>1, PrintfAssumption
  <1>3. Len(<<>>) = 0 /\ BUFFER - 1 - 0 = BUFFER - 1 /\ 0 <= BUFFER - 1
    BY <1>2
  <1> HIDE DEF n
  <1>4. n < 10^(BUFFER - 1)
    <2> DEFINE p == 10^(BUFFER - 1)
    <2>1. p \in Nat /\ p >= WORD /\ WORD \in Nat
      BY <1>2
    <2> HIDE DEF p
    <2>2. n < p
      BY <1>1, <2>1
    <2> QED  BY <2>2 DEF p
  <1>5. Digitized(n, Radix(Letter(c, i)), <<>>, n)
    <2>1. n \in Nat
      BY <1>1, <1>2
    <2> QED  BY <2>1, NoDigitYet
  <1> QED  BY <1>3, <1>4, <1>5 DEF Counted, n

LEMMA NegativeCounted ==
  ASSUME NEW c, NEW i, NEW w, NEW v, NEW b, Led(c, i, w, v, b), b = 10, v < 0
  PROVE  Counted(c, i, Append(w, "-"), b, <<>>, (-v) % WORD)
  <1>1. PICK t : /\ OfNumber(c, i, t)
                 /\ v = Signed(Arg(c, i)) /\ b = Radix(Letter(c, i))
                 /\ w = t \o Lead(Letter(c, i))
    BY DEF Led
  <1>2. t \in Seq(Char) /\ Letter(c, i) \in Numeric /\ Arg(c, i) \in Number
    BY <1>1 DEF OfNumber, Behindhand
  <1>3. /\ Lead(Letter(c, i)) = <<>> /\ Before(Letter(c, i), Arg(c, i)) = <<"-">>
        /\ Amount(Letter(c, i), Arg(c, i)) = (-v) % WORD
        /\ Amount(Letter(c, i), Arg(c, i)) # 0
    <2>1. v # 0
      <3>1. v \in Int
        BY <1>1, <1>2, Bits
      <3> QED  BY <3>1
    <2> QED  BY <1>1, <1>2, <2>1, Leads
  <1>4. Append(w, "-") = t \o <<"-">>
    <2>1. w = t
      BY <1>1, <1>2, <1>3, ConcatEmptySeq
    <2> QED  BY <1>2, <2>1, AppendIsConcat, Characters
  <1> QED  BY <1>1, <1>3, <1>4, Counting

LEMMA OthersCounted ==
  ASSUME NEW c, NEW i, NEW w, NEW v, NEW b, Led(c, i, w, v, b), v # 0, ~ (b = 10 /\ v < 0)
  PROVE  Counted(c, i, w, b, <<>>, v % WORD)
  <1>1. PICK t : /\ OfNumber(c, i, t)
                 /\ v = Signed(Arg(c, i)) /\ b = Radix(Letter(c, i))
                 /\ w = t \o Lead(Letter(c, i))
    BY DEF Led
  <1>2. Letter(c, i) \in Numeric /\ Arg(c, i) \in Number
    BY <1>1 DEF OfNumber
  <1>3. /\ Before(Letter(c, i), Arg(c, i)) = Lead(Letter(c, i))
        /\ Amount(Letter(c, i), Arg(c, i)) = v % WORD
        /\ Amount(Letter(c, i), Arg(c, i)) # 0
    BY <1>1, <1>2, Leads
  <1> QED  BY <1>1, <1>3, Counting

LEMMA NumeralOwed ==
  ASSUME NEW c, NEW i, NEW t, OfNumber(c, i, t), NEW d \in Seq(Char),
         Denotes(d, Amount(Letter(c, i), Arg(c, i)), Radix(Letter(c, i)))
  PROVE  Owed(c, i, (t \o Before(Letter(c, i), Arg(c, i))) \o d)
  <1> DEFINE p == Before(Letter(c, i), Arg(c, i))
  <1>1. Behindhand(c, i, t) /\ t \in Seq(Char) /\ Letter(c, i) \in Numeric /\ Arg(c, i) \in Number
    BY DEF OfNumber, Behindhand
  <1>2. p \in Seq(Char)
    BY <1>1, Leads
  <1>3. Prints(Letter(c, i), Arg(c, i), p \o d)
    BY <1>1, NumeralPrints
  <1> HIDE DEF p
  <1>4. p \o d \in Seq(Char) /\ (t \o p) \o d = t \o (p \o d)
    BY <1>1, <1>2, ConcatProperties, ConcatAssociative
  <1>5. Owed(c, i, (t \o p) \o d)
    BY <1>1, <1>3, <1>4 DEF Owed
  <1> QED  BY <1>5 DEF p

LEMMA ZeroOwed ==
  ASSUME NEW c, NEW i, NEW w \in Seq(Char), NEW b, Led(c, i, w, 0, b)
  PROVE  Owed(c, i, Append(w, "0"))
  <1>1. PICK t : /\ OfNumber(c, i, t)
                 /\ 0 = Signed(Arg(c, i)) /\ w = t \o Lead(Letter(c, i))
    BY DEF Led
  <1>2. Letter(c, i) \in Numeric /\ Arg(c, i) \in Number
    BY <1>1 DEF OfNumber
  <1>3. Before(Letter(c, i), Arg(c, i)) = Lead(Letter(c, i)) /\ Amount(Letter(c, i), Arg(c, i)) = 0
    <2>1. ~ (0 < 0)
      OBVIOUS
    <2> QED  BY <1>1, <1>2, <2>1, Leads
  <1>4. <<"0">> \in Seq(Char) /\ Append(w, "0") = w \o <<"0">>
    BY AppendIsConcat, Characters
  <1>5. Denotes(<<"0">>, 0, Radix(Letter(c, i)))
    BY DEF Denotes
  <1> QED  BY <1>1, <1>3, <1>4, <1>5, NumeralOwed

LEMMA DigitCounted ==
  ASSUME NEW c, NEW i, NEW w, NEW b, NEW d \in Seq(Char), NEW u \in Nat \ {0},
         Counted(c, i, w, b, d, u), Len(d) < BUFFER - 1
  PROVE  Counted(c, i, w, b, Append(d, Digits[(u % b) + 1]), u \div b)
  <1> DEFINE n == Amount(Letter(c, i), Arg(c, i))
             x == Digits[(u % b) + 1]
             k == Len(d)
  <1>1. PICK t : /\ OfNumber(c, i, t) /\ b = Radix(Letter(c, i))
                 /\ w = t \o Before(Letter(c, i), Arg(c, i))
                 /\ n # 0 /\ Digitized(n, b, d, u)
                 /\ k <= BUFFER - 1 /\ u < 10^(BUFFER - 1 - k)
    BY DEF Counted
  <1>2. b \in {10, 16} /\ n \in 0..WORD-1 /\ WORD \in Nat /\ BUFFER \in Nat \ {0} /\ k \in Nat
    BY <1>1, Leads, PrintfAssumption, LenProperties DEF OfNumber
  <1>3. x \in Char /\ Digitized(n, b, Append(d, x), u \div b)
    <2>1. n \in Nat
      BY <1>2
    <2> HIDE DEF n
    <2> QED  BY <1>1, <1>2, <2>1, OneMoreDigit
  <1>4. Len(Append(d, x)) = k + 1
    BY <1>3, AppendProperties
  <1>5. k + 1 <= BUFFER - 1 /\ u \div b < 10^(BUFFER - 1 - (k + 1))
    <2> DEFINE j == BUFFER - 1 - (k + 1)
               p == 10^j
    <2> HIDE DEF k
    <2>1. j \in 0..BUFFER-1 /\ j + 1 = BUFFER - 1 - k /\ k + 1 <= BUFFER - 1
      BY <1>2 DEF k
    <2> HIDE DEF j
    <2>2. p \in Nat /\ 10^(j + 1) = 10 * p
      BY <2>1, PrintfAssumption
    <2>3. u < 10 * p
      BY <1>1, <2>1, <2>2
    <2> HIDE DEF p
    <2>4. u \div 10 < p /\ u \div 16 < p
      BY <2>2, <2>3
    <2>5. u \div b < p
      BY <1>2, <2>4
    <2> QED  BY <2>1, <2>5 DEF p, j
  <1> HIDE DEF x, k
  <1> QED  BY <1>1, <1>3, <1>4, <1>5 DEF Counted, x

LEMMA DigitsOwed ==
  ASSUME NEW c, NEW i, NEW w, NEW b, NEW d \in Seq(Char), NEW u \in Nat,
         Counted(c, i, w, b, d, u), ~ (u # 0 /\ Len(d) < BUFFER - 1)
  PROVE  Owed(c, i, w \o Reverse(d))
  <1> DEFINE n == Amount(Letter(c, i), Arg(c, i))
             k == Len(d)
  <1>1. PICK t : /\ OfNumber(c, i, t) /\ b = Radix(Letter(c, i))
                 /\ w = t \o Before(Letter(c, i), Arg(c, i))
                 /\ n # 0 /\ Digitized(n, b, d, u)
                 /\ k <= BUFFER - 1 /\ u < 10^(BUFFER - 1 - k)
    BY DEF Counted
  <1>2. b \in {10, 16} /\ n \in 0..WORD-1 /\ WORD \in Nat /\ BUFFER \in Nat \ {0} /\ k \in Nat
    BY <1>1, Leads, PrintfAssumption, LenProperties DEF OfNumber
  <1>3. u = 0
    <2>1. CASE k < BUFFER - 1
      BY <2>1
    <2>2. CASE ~ (k < BUFFER - 1)
      <3>1. BUFFER - 1 - k = 0
        BY <1>1, <1>2, <2>2
      <3>2. u < 1
        BY <1>1, <3>1, PrintfAssumption
      <3> QED  BY <3>2
    <2> QED  BY <2>1, <2>2
  <1>4. n \in Nat \ {0}
    BY <1>1, <1>2
  <1> HIDE DEF n
  <1>5. Denotes(Reverse(d), n, b)
    BY <1>1, <1>2, <1>3, <1>4, AllDigits
  <1>6. Reverse(d) \in Seq(Char)
    BY ReverseIs
  <1> QED  BY <1>1, <1>5, <1>6, NumeralOwed DEF n
-----------------------------------------------------------------------------
(* What is written so far, by the place the program is at.                 *)
Start == Passed - 2
Progress ==
  /\ pc \notin {"digits", "put"} => buffer = <<>>
  /\ pc = "idle" => Says(call, sent)
  /\ pc = "write" => Says(call, sent)
  /\ pc = "fmt" => UpTo(call, Passed, sent)
  /\ pc = "puts" => Owed(call, Start, sent \o str)
  /\ pc = "puts 0x" => Led(call, Start, sent \o str, value, base)
  /\ pc = "int" => Led(call, Start, sent, value, base)
  /\ pc = "digits" => Counted(call, Start, sent, base, buffer, uvalue)
  /\ pc = "put" => Owed(call, Start, sent \o Reverse(buffer))

LEMMA ProgressInit == PInit => Progress
  <1> SUFFICES ASSUME PInit PROVE Progress
    OBVIOUS
  <1>1. pc = "idle" /\ call = None /\ sent = <<>> /\ buffer = <<>>
    BY DEF PInit
  <1>2. Callable(None)
    BY <1>1, PrintfInvInit DEF PrintfInv
  <1>3. Len(None.fmt) = 0
    BY DEF None
  <1>4. Says(None, <<>>)
    BY <1>2, <1>3, UpToStart, UpToEnd
  <1> QED  BY <1>1, <1>4 DEF Progress

\* The end of a conversion.
LEMMA Converted ==
  ASSUME PrintfInv, pc \notin Outside, NEW w, Owed(call, Start, w)
  PROVE  UpTo(call, Passed, w)
  <1>1. Callable(call) /\ Parsed
    BY DEF PrintfInv
  <1>2. Passed \in Int
    <2>1. Passed \in 0..Len(call.fmt)
      BY <1>1 DEF Parsed
    <2> HIDE DEF Passed
    <2> QED  BY <2>1
  <1>3. Start + 2 = Passed
    <2>1. \A p \in Int : (p - 2) + 2 = p
      OBVIOUS
    <2> QED  BY <1>2, <2>1 DEF Start
  <1> QED  BY <1>1, <1>3, Paid

LEMMA ConversionProgress ==
  ASSUME PrintfInv, Progress, Conversion
  PROVE  Progress'
  <1>1. /\ str \in Seq(Char) /\ buffer \in Seq(Char) /\ sent \in Seq(Char) /\ sent \in Seq(Char)
        /\ value \in Int /\ base \in {10, 16} /\ uvalue \in Nat
    BY DEF PrintfInv
  <1>2. call' = call /\ Passed' = Passed /\ Start' = Start
    BY ConversionPlaces DEF Passed, Start
  <1>3. sent \o <<>> = sent /\ Reverse(<<>>) = <<>>
    <2>1. sent \o <<>> = sent
      BY <1>1, ConcatEmptySeq
    <2>2. <<>> \in Seq(Char) /\ Len(<<>>) = 0
      OBVIOUS
    <2>3. Reverse(<<>>) \in Seq(Char) /\ Len(Reverse(<<>>)) = 0
      BY <2>2, ReverseIs
    <2> QED  BY <2>1, <2>3, EmptySeq
  <1>4. CASE PutsChar
    <2>1. Append(sent, Head(str)) \o Tail(str) = sent \o str
      BY <1>1, <1>4, HeadMoves DEF PutsChar
    <2>2. /\ pc' = pc /\ pc \in {"puts", "puts 0x"} /\ sent' \o str' = sent \o str
          /\ UNCHANGED <<value, base, buffer>>
      BY <1>4, <2>1 DEF PutsChar, Ready, Putc, number
    <2> QED  BY <1>2, <2>2 DEF Progress
  <1>5. CASE PutsReturn
    <2>1. /\ str = <<>> /\ UNCHANGED <<sent, value, base, buffer>>
          /\ (pc = "puts" /\ pc' = "fmt") \/ (pc = "puts 0x" /\ pc' = "int")
      BY <1>5 DEF PutsReturn, Ready, number, said
    <2>2. CASE pc = "puts" /\ pc' = "fmt"
      <3>1. UpTo(call, Passed, sent)
        BY <1>3, <2>1, <2>2, Converted DEF Progress, Outside
      <3> QED  BY <1>2, <2>1, <2>2, <3>1 DEF Progress
    <2>3. CASE pc = "puts 0x" /\ pc' = "int"
      BY <1>2, <1>3, <2>1, <2>3 DEF Progress
    <2> QED  BY <2>1, <2>2, <2>3
  <1>6. CASE Minus
    <2>1. /\ pc = "int" /\ pc' = "digits" /\ base = 10 /\ value < 0 /\ sent' = Append(sent, "-")
          /\ uvalue' = (-value) % WORD /\ UNCHANGED <<base, buffer>>
      BY <1>6 DEF Minus, Ready, Putc, Magnitude
    <2>2. buffer = <<>> /\ Counted(call, Start, Append(sent, "-"), base, <<>>, (-value) % WORD)
      BY <2>1, NegativeCounted DEF Progress
    <2> QED  BY <1>2, <2>1, <2>2 DEF Progress
  <1>7. CASE Zero
    <2>1. /\ pc = "int" /\ pc' = "fmt" /\ value = 0 /\ sent' = Append(sent, "0") /\ UNCHANGED buffer
      BY <1>7 DEF Zero, Ready, Putc
    <2>2. buffer = <<>> /\ Owed(call, Start, Append(sent, "0"))
      BY <1>1, <2>1, ZeroOwed DEF Progress
    <2>3. UpTo(call, Passed, sent')
      BY <2>1, <2>2, Converted DEF Outside
    <2> QED  BY <1>2, <2>1, <2>2, <2>3 DEF Progress
  <1>8. CASE Positive
    <2>1. /\ pc = "int" /\ pc' = "digits" /\ value # 0 /\ ~ (base = 10 /\ value < 0)
          /\ uvalue' = value % WORD /\ UNCHANGED <<sent, base, buffer>>
      BY <1>8 DEF Positive, Ready, said
    <2>2. buffer = <<>> /\ Counted(call, Start, sent, base, <<>>, value % WORD)
      BY <2>1, OthersCounted DEF Progress
    <2> QED  BY <1>2, <2>1, <2>2 DEF Progress
  <1>9. CASE StoreDigit
    <2>1. /\ pc = "digits" /\ pc' = "digits" /\ uvalue # 0 /\ Len(buffer) < BUFFER - 1
          /\ buffer' = Append(buffer, Digits[(uvalue % base) + 1])
          /\ uvalue' = uvalue \div base /\ UNCHANGED <<sent, base>>
      BY <1>9 DEF StoreDigit, Ready, RoomForDigit, said
    <2>2. Counted(call, Start, sent, base, buffer', uvalue')
      BY <1>1, <2>1, DigitCounted DEF Progress
    <2> QED  BY <1>2, <2>1, <2>2 DEF Progress
  <1>10. CASE DigitsStored
    <2>1. /\ pc = "digits" /\ pc' = "put" /\ ~ (uvalue # 0 /\ Len(buffer) < BUFFER - 1)
          /\ UNCHANGED <<sent, buffer>>
      BY <1>10 DEF DigitsStored, Ready, RoomForDigit, number, said
    <2>2. Owed(call, Start, sent \o Reverse(buffer))
      BY <1>1, <2>1, DigitsOwed DEF Progress
    <2> QED  BY <1>2, <2>1, <2>2 DEF Progress
  <1>11. CASE PutDigit
    <2>1. /\ pc = "put" /\ pc' = "put" /\ buffer # <<>> /\ sent' = Append(sent, Last(buffer))
          /\ buffer' = Front(buffer)
      BY <1>11 DEF PutDigit, Ready, Putc
    <2>2. sent' \o Reverse(buffer') = sent \o Reverse(buffer)
      BY <1>1, <2>1, LastMoves
    <2> QED  BY <1>2, <2>1, <2>2 DEF Progress
  <1>12. CASE PutintReturn
    <2>1. pc = "put" /\ pc' = "fmt" /\ buffer = <<>> /\ UNCHANGED <<sent, buffer>>
      BY <1>12 DEF PutintReturn, Ready, number, said
    <2>2. UpTo(call, Passed, sent)
      BY <1>3, <2>1, Converted DEF Progress, Outside
    <2> QED  BY <1>2, <2>1, <2>2 DEF Progress
  <1>13. CASE Rendering
    <2>1. UNCHANGED <<pc, str, value, base, uvalue, buffer, sent>>
      BY <1>13 DEF Rendering, number, said
    <2> QED  BY <1>2, <2>1 DEF Progress
  <1>14. CASE WriteChar \/ WriteReturn
    <2>1. pc = "write" /\ pc' \in {"write", "idle"} /\ UNCHANGED <<sent, buffer>>
      BY <1>14 DEF WriteChar, WriteReturn, Ready, number, said
    <2> QED  BY <1>2, <2>1 DEF Progress
  <1> QED  BY <1>4, <1>5, <1>6, <1>7, <1>8, <1>9, <1>10, <1>11, <1>12, <1>13, <1>14
           DEF Conversion
LEMMA ReadingProgress ==
  ASSUME PrintfInv, Progress, Reading
  PROVE  Progress'
  <1> DEFINE c == call
             i == Passed
             w == Extent(c.fmt, i)
             a == Head(args)
  <1>1. /\ str \in Seq(Char) /\ sent \in Seq(Char) /\ buffer = <<>> /\ UpTo(c, i, sent)
        /\ pc = "fmt" /\ Callable(c) /\ Parsed /\ fmt # <<>> /\ call' = c
        /\ Passed' = i + w
    BY ReadingAdvances DEF PrintfInv, Progress
  <1>2. i \in 0..Len(c.fmt)-1 /\ i \in Nat /\ Head(fmt) \in Char
    <2>1. i \in 0..Len(c.fmt)-1 /\ Head(fmt) \in Char
      BY <1>1, NextPiece
    <2> HIDE DEF i, c
    <2> QED  BY <2>1
  <1>3. plan = PlanOf(c)
    BY DEF plan, PlanOf
  <1>4. ASSUME NEW ch \in Char, sent' = Append(sent, ch), pc' = "fmt", buffer' = buffer,
               Piece(c, i, PlanOf(c)[i], <<ch>>)
        PROVE  Progress'
    <2>1. sent' = sent \o <<ch>> /\ <<ch>> \in Seq(Char)
      BY <1>1, <1>4, AppendIsConcat
    <2>2. UpTo(c, i + w, sent')
      BY <1>1, <1>2, <1>4, <2>1, UpToNext
    <2> QED  BY <1>1, <1>4, <2>2 DEF Progress
  <1>5. CASE Ordinary \/ OtherLetter
    <2>1. Head(fmt) = c.fmt[i + 1] /\ ~ Converts(c.fmt, i)
      BY <1>1, <1>5, Directives
    <2>2. sent' = Append(sent, Head(fmt)) /\ pc' = "fmt" /\ buffer' = buffer
      BY <1>1, <1>5 DEF Ordinary, OtherLetter, Putc, number
    <2>3. Piece(c, i, PlanOf(c)[i], <<Head(fmt)>>)
      BY <2>1 DEF Piece
    <2> QED  BY <1>2, <1>4, <2>2, <2>3
  <1>6. CASE PerCent
    <2>1. c.fmt[i + 1] = "%" /\ ~ Converts(c.fmt, i)
      BY <1>1, <1>6, Directives
    <2>2. sent' = Append(sent, "%") /\ pc' = "fmt" /\ buffer' = buffer
      BY <1>1, <1>6 DEF PerCent, Putc, number
    <2>3. Piece(c, i, PlanOf(c)[i], <<"%">>)
      BY <2>1 DEF Piece
    <2> QED  BY <1>4, <2>2, <2>3, Characters
  <1>7. ASSUME NEW letter \in Conversions, Directive(letter)
        PROVE  /\ w = 2 /\ Converts(c.fmt, i) /\ Letter(c, i) = letter
               /\ a = Arg(c, i) /\ a \in Fitting(letter) /\ Behindhand(c, i, sent)
               /\ Start' = i
    <2>1. /\ w = 2 /\ Converts(c.fmt, i) /\ c.fmt[i + 2] = letter
          /\ a = c.args[plan[i] + 1] /\ a \in Fitting(letter)
      BY <1>1, <1>7, Directives
    <2>2. Behindhand(c, i, sent)
      BY <1>1, <1>2, <2>1 DEF Behindhand
    <2>3. Start' = i
      <3>1. Start' = (i + 2) - 2
        BY <1>1, <2>1 DEF Start
      <3> HIDE DEF i
      <3> QED  BY <1>2, <3>1
    <2> QED  BY <1>3, <2>1, <2>2, <2>3 DEF Letter, Arg
  <1>8. CASE OneChar
    <2>1. /\ Directive("c") /\ sent' = Append(sent, a) /\ pc' = "fmt" /\ buffer' = buffer
      BY <1>1, <1>8 DEF OneChar, Putc, number
    <2>2. /\ Converts(c.fmt, i) /\ Letter(c, i) = "c" /\ a = Arg(c, i) /\ a \in Fitting("c")
      BY <1>7, <2>1 DEF Conversions
    <2>3. a \in Char
      BY <2>2 DEF Fitting
    <2>4. Prints("c", a, <<a>>)
      BY DEF Prints
    <2>5. Piece(c, i, PlanOf(c)[i], <<a>>)
      BY <2>2, <2>4 DEF Piece, Letter, Arg
    <2> QED  BY <1>4, <2>1, <2>3, <2>5
  <1>9. CASE String
    <2>1. /\ Directive("s") /\ str' = (IF a = NullString THEN NullText ELSE a) /\ pc' = "puts"
          /\ sent' = sent /\ buffer' = buffer
      BY <1>9 DEF String, number, said
    <2>2. /\ Letter(c, i) = "s" /\ a = Arg(c, i) /\ Behindhand(c, i, sent) /\ Start' = i
      BY <1>7, <2>1 DEF Conversions
    <2>3. Prints("s", a, str')
      BY <2>1 DEF Prints
    <2>4. str' \in Seq(Char)
      BY ReadingTypes
    <2>5. Owed(c, i, sent \o str')
      BY <1>1, <2>2, <2>3, <2>4 DEF Owed
    <2> QED  BY <1>1, <2>1, <2>2, <2>5 DEF Progress
  <1>10. CASE Pointer
    <2>1. /\ Directive("p") /\ str' = <<"0", "x">> /\ value' = Signed(a) /\ base' = 16
          /\ pc' = "puts 0x" /\ sent' = sent /\ buffer' = buffer
      BY <1>10 DEF Pointer, said
    <2>2. /\ Letter(c, i) = "p" /\ a = Arg(c, i) /\ a \in Fitting("p") /\ Behindhand(c, i, sent)
          /\ Start' = i
      BY <1>7, <2>1 DEF Conversions
    <2>3. OfNumber(c, i, sent)
      BY <2>2 DEF OfNumber, Fitting, Numeric
    <2>4. Led(c, i, sent \o <<"0", "x">>, Signed(a), 16)
      BY <2>2, <2>3 DEF Led, Radix, Lead
    <2> QED  BY <1>1, <2>1, <2>2, <2>4 DEF Progress
  <1>11. CASE Numeral
    <2>1. PICK letter \in {"d", "u", "x"} :
            Directive(letter) /\ base' = IF letter = "x" THEN 16 ELSE 10
      BY <1>11 DEF Numeral
    <2>2. value' = Signed(a) /\ pc' = "int" /\ sent' = sent /\ buffer' = buffer
      BY <1>11 DEF Numeral, said
    <2>3. /\ Letter(c, i) = letter /\ a = Arg(c, i) /\ a \in Fitting(letter)
          /\ Behindhand(c, i, sent) /\ Start' = i
      BY <1>7, <2>1 DEF Conversions
    <2>4. OfNumber(c, i, sent)
      BY <2>1, <2>3 DEF OfNumber, Fitting, Numeric
    <2>5. base' = Radix(letter) /\ Lead(letter) = <<>>
      BY <2>1 DEF Radix, Lead
    <2>6. sent = sent \o <<>>
      BY <1>1, ConcatEmptySeq
    <2>7. Led(c, i, sent, Signed(a), base')
      BY <2>3, <2>4, <2>5, <2>6 DEF Led
    <2> QED  BY <1>1, <2>2, <2>3, <2>7 DEF Progress
  <1> QED  BY <1>5, <1>6, <1>8, <1>9, <1>10, <1>11 DEF Reading

\* sh_write_stream owes the text.
LEMMA TextIsSaid ==
  ASSUME NEW text \in Seq(Char)
  PROVE  Says([fmt |-> <<"%", "s">>, args |-> <<text>>], text)
  <1> DEFINE c == [fmt |-> <<"%", "s">>, args |-> <<text>>]
  <1>1. /\ Callable(c) /\ Converts(c.fmt, 0) /\ Extent(c.fmt, 0) = 2 /\ Len(c.fmt) = 2
        /\ text \in Seq(Char) /\ text # NullString
    BY TextIsCallable
  <1>2. c.fmt[0 + 2] = "s" /\ c.args[0 + 1] = text
    OBVIOUS
  <1> HIDE DEF c
  <1>3. PlanOf(c)[0] = 0
    BY <1>1, PlanOfIs DEF IsPlan
  <1>4. Piece(c, 0, PlanOf(c)[0], text)
    <2>1. Prints("s", text, text)
      BY <1>1 DEF Prints
    <2> QED  BY <1>1, <1>2, <1>3, <2>1 DEF Piece
  <1>5. UpTo(c, 0, <<>>)
    BY <1>1, UpToStart
  <1>6. UpTo(c, 0 + 2, <<>> \o text)
    <2>1. 0 \in 0..Len(c.fmt)-1 /\ <<>> \in Seq(Char)
      BY <1>1
    <2> QED  BY <1>1, <1>4, <1>5, <2>1, UpToNext
  <1>7. <<>> \o text = text /\ 0 + 2 = Len(c.fmt)
    BY <1>1, ConcatEmptySeq
  <1>8. Says(c, text)
    BY <1>1, <1>6, <1>7, UpToEnd
  <1> QED  BY <1>8 DEF c

LEMMA ProgressNext ==
  ASSUME PrintfInv, Progress, [PNext]_pvars
  PROVE  Progress'
  <1>1. CASE Conversion
    BY <1>1, ConversionProgress
  <1>2. CASE Reading
    BY <1>2, ReadingProgress
  <1>3. CASE \E c \in Calls : Printf(c)
    <2>1. PICK c \in Calls : Printf(c)
      BY <1>3
    <2>2. /\ Callable(c) /\ call' = c /\ Passed' = 0 /\ sent' = <<>> /\ pc' = "fmt" /\ pc = "idle"
          /\ UNCHANGED number
      BY <2>1, Beginning
    <2>3. UpTo(c, 0, <<>>)
      BY <2>2, UpToStart
    <2> QED  BY <2>2, <2>3 DEF Progress, number
  <1>4. CASE \E s \in Streams, text \in Texts : Write(s, text)
    <2>1. PICK s \in Streams, text \in Texts : Write(s, text)
      BY <1>4
    <2> DEFINE kept == Keeps(text)
    <2>2. /\ call' = [fmt |-> <<"%", "s">>, args |-> <<kept>>] /\ pc' = "write"
          /\ sent' = kept /\ pc = "idle" /\ buffer' = buffer
      BY <2>1 DEF Write, Begin, Ready, number
    <2>3. kept \in Seq(Char)
      BY KeepsIs
    <2> HIDE DEF kept
    <2>4. Says(call', kept)
      BY <2>2, <2>3, TextIsSaid
    <2> QED  BY <2>2, <2>4 DEF Progress
  <1>5. CASE PrintfReturn
    <2>1. /\ pc = "fmt" /\ pc' = "idle" /\ fmt = <<>> /\ UNCHANGED <<call, buffer, sent>>
      BY <1>5 DEF PrintfReturn, Ready, number, said
    <2>2. Callable(call)
      BY DEF PrintfInv
    <2>3. Passed = Len(call.fmt)
      <3>1. Len(call.fmt) \in Nat /\ Len(<<>>) = 0
        BY <2>2, ArgumentsAreList, LenProperties
      <3>2. \A n \in Nat : n - 0 = n
        OBVIOUS
      <3> QED  BY <2>1, <3>1, <3>2 DEF Passed
    <2>4. Says(call, sent)
      BY <2>1, <2>2, <2>3, UpToEnd DEF Progress
    <2> QED  BY <2>1, <2>4 DEF Progress
  <1>6. CASE UNCHANGED pvars
    <2>1. UNCHANGED <<call, pc, fmt, str, value, base, uvalue, buffer, sent>>
      BY <1>6 DEF pvars, number, said
    <2>2. Passed' = Passed /\ Start' = Start
      BY <2>1 DEF Passed, Start
    <2> QED  BY <2>1, <2>2 DEF Progress
  <1> QED  BY <1>1, <1>2, <1>3, <1>4, <1>5, <1>6, Actions

(* shell.c:140-244: when sh_printf returns, it has written to stdout what  *)
(* the format says: numerals to their last digit and without leading       *)
(* zeros, for every width of a word, every value and every format that its *)
(* arguments fit; sh_write_stream has written what its stream keeps.       *)
THEOREM PrintfSaysFormat == PSpec => [](pc = "idle" => Says(call, sent))
  <1>1. PInit => PrintfInv /\ Progress
    BY PrintfInvInit, ProgressInit
  <1>2. PrintfInv /\ Progress /\ [PNext]_pvars => (PrintfInv /\ Progress)'
    BY PrintfInvNext, ProgressNext
  <1>3. PrintfInv /\ Progress => (pc = "idle" => Says(call, sent))
    BY DEF Progress
  <1> QED  BY <1>1, <1>2, <1>3, PTL DEF PSpec
-----------------------------------------------------------------------------
(* No other text is said: induction is by a least counterexample.          *)
LEMMA LeastNumber ==
  ASSUME NEW S, S \subseteq Nat, S # {}
  PROVE  \E m \in S : \A k \in S : m <= k
  <1> DEFINE R == {ss \in Nat \X Nat : ss[1] < ss[2]}
  <1>1. R = OpToRel(<, Nat)
    BY DEF OpToRel
  <1>2. IsWellFoundedOn(R, Nat)
    BY <1>1, NatLessThanWellFounded
  <1>3. PICK m \in S : \A k \in S : ~ (<<k, m>> \in R)
    <2> HIDE DEF R
    <2> QED  BY <1>2, WFMin
  <1>4. \A k \in S : m <= k
    <2>1. SUFFICES ASSUME NEW k \in S, k < m PROVE FALSE
      BY SMT
    <2>2. <<k, m>> \in R
      BY <2>1
    <2> QED  BY <1>3, <2>2
  <1> QED  BY <1>4

\* InBase is the function that its definition describes.
NumeralOf(f, b, n) ==
  IF n < b THEN <<Digits[n + 1]>> ELSE Append(f[n \div b], Digits[(n % b) + 1])
IsInBase(f, b) == f = [n \in Number |-> NumeralOf(f, b, n)]

LEMMA Halves ==
  ASSUME NEW n \in Nat, NEW b \in {10, 16}
  PROVE  /\ n \div b \in Nat /\ n % b \in 0..b-1 /\ n = b * (n \div b) + (n % b)
         /\ n >= b => 0 < n \div b /\ n \div b < n
         /\ n < b => n \div b = 0 /\ n % b = n
  BY SMT

LEMMA InBaseIs ==
  ASSUME NEW b \in {10, 16}
  PROVE  \A n \in Number : InBase(b)[n] = NumeralOf(InBase(b), b, n)
  <1> DEFINE UpTill(f, m) == f \in [Number -> Seq(Char)] /\ \A n \in Number : n < m => f[n] = NumeralOf(f, b, n)
             S == {m \in Nat : ~ \E f : UpTill(f, m)}
  <1>1. S = {}
    <2>1. SUFFICES ASSUME S # {} PROVE FALSE
      OBVIOUS
    <2>2. S \subseteq Nat
      OBVIOUS
    <2> HIDE DEF S
    <2>3. PICK m \in S : \A k \in S : m <= k
      BY <2>1, <2>2, LeastNumber
    <2> USE DEF S
    <2>4. m \in Nat /\ ~ \E f : UpTill(f, m)
      OBVIOUS
    <2>5. m # 0
      <3>1. UpTill([n \in Number |-> <<>>], 0)
        BY DEF Number
      <3> QED  BY <2>4, <3>1
    <2>6. m - 1 \in Nat /\ m - 1 \notin S
      <3>1. m - 1 \in Nat /\ ~ (m <= m - 1)
        BY <2>4, <2>5
      <3> HIDE DEF S
      <3> QED  BY <2>3, <3>1
    <2>7. PICK f : UpTill(f, m - 1)
      BY <2>6
    <2> DEFINE g == [f EXCEPT ![m - 1] = NumeralOf(f, b, m - 1)]
    <2>8. ASSUME NEW n \in Number, n <= m - 1
          PROVE  NumeralOf(f, b, n) = NumeralOf(g, b, n) /\ NumeralOf(f, b, n) \in Seq(Char)
      <3>1. n \in Nat /\ n \div b \in Nat /\ n % b \in 0..b-1 /\ (n >= b => n \div b < n)
        BY Halves DEF Number
      <3>2. n >= b => n \div b \in Number /\ n \div b # m - 1
        <4> DEFINE q == n \div b
        <4>1. n \in 0..WORD-1 /\ WORD \in Nat /\ q \in Nat /\ (n >= b => q < n)
          BY <3>1, PrintfAssumption DEF Number
        <4> HIDE DEF q
        <4>2. n >= b => q \in 0..WORD-1 /\ q # m - 1
          BY <2>6, <2>8, <4>1
        <4> QED  BY <4>2 DEF q, Number
      <3>3. n >= b => g[n \div b] = f[n \div b] /\ f[n \div b] \in Seq(Char)
        BY <2>7, <3>2
      <3>4. \A k \in 1..16 : Digits[k] \in Char
        BY PrintfAssumption
      <3>5. n < b => n + 1 \in 1..16
        BY <3>1
      <3>6. (n % b) + 1 \in 1..16
        BY <3>1
      <3> HIDE DEF g
      <3>7. CASE n < b
        BY <3>4, <3>5, <3>7 DEF NumeralOf
      <3>8. CASE ~ (n < b)
        <4>1. n >= b
          BY <3>1, <3>8
        <4> DEFINE x == Digits[(n % b) + 1]
        <4>2. NumeralOf(f, b, n) = Append(f[n \div b], x) /\ NumeralOf(g, b, n) = Append(g[n \div b], x)
          BY <3>8 DEF NumeralOf
        <4>3. x \in Char
          BY <3>4, <3>6
        <4> HIDE DEF x
        <4>4. g[n \div b] = f[n \div b] /\ f[n \div b] \in Seq(Char)
          BY <3>3, <4>1
        <4> QED  BY <4>2, <4>3, <4>4
      <3> QED  BY <3>7, <3>8
    <2>9. UpTill(g, m)
      <3>1. g \in [Number -> Seq(Char)]
        <4>1. m - 1 \in Number => NumeralOf(f, b, m - 1) \in Seq(Char)
          BY <2>6, <2>8
        <4> QED  BY <2>7, <4>1
      <3>2. ASSUME NEW n \in Number, n < m
            PROVE  g[n] = NumeralOf(g, b, n)
        <4>1. n \in Nat /\ n <= m - 1 /\ (n < m - 1 \/ n = m - 1)
          BY <2>4, <3>2 DEF Number
        <4>2. g[n] = NumeralOf(f, b, n)
          <5>1. CASE n < m - 1
            BY <2>7, <4>1, <5>1
          <5>2. CASE n = m - 1
            BY <2>7, <5>2
          <5> QED  BY <4>1, <5>1, <5>2
        <4> QED  BY <2>8, <4>1, <4>2
      <3> QED  BY <3>1, <3>2
    <2> QED  BY <2>4, <2>9
  <1>2. PICK f : UpTill(f, WORD)
    <2>1. WORD \in Nat
      BY PrintfAssumption
    <2> QED  BY <1>1, <2>1
  <1>3. IsInBase(f, b)
    <2>1. \A n \in Number : n < WORD
      BY PrintfAssumption DEF Number
    <2> HIDE DEF NumeralOf
    <2>2. f = [n \in Number |-> f[n]] /\ \A n \in Number : f[n] = NumeralOf(f, b, n)
      BY <1>2, <2>1
    <2> QED  BY <2>2 DEF IsInBase
  <1>4. InBase(b) = CHOOSE g : IsInBase(g, b)
    BY DEF InBase, IsInBase, NumeralOf
  <1>5. IsInBase(InBase(b), b)
    BY <1>3, <1>4
  <1> QED  BY <1>5 DEF IsInBase

Chain(v, b, l) == \A i \in 1..l : \E x \in 0..b-1 : v[i] = b * v[i - 1] + x

LEMMA ChainRises ==
  ASSUME NEW b \in {10, 16}, NEW l \in Nat, NEW n \in Nat, NEW v \in [0..l -> 0..n], Chain(v, b, l)
  PROVE  \A j \in 0..l : \A i \in 0..j : v[i] <= v[j]
  <1> DEFINE S == {j \in Nat : j <= l /\ \E i \in 0..j : ~ (v[i] <= v[j])}
  <1>0. SUFFICES ASSUME NEW y \in 0..l, NEW w \in 0..y, ~ (v[w] <= v[y]) PROVE FALSE
    OBVIOUS
  <1>1. y \in S
    BY <1>0
  <1>2. S \subseteq Nat
    OBVIOUS
  <1> HIDE DEF S
  <1>3. PICK j \in S : \A k \in S : j <= k
    BY <1>1, <1>2, LeastNumber
  <1> USE DEF S
  <1>4. j \in 0..l
    OBVIOUS
  <1>5. PICK i \in 0..j : ~ (v[i] <= v[j])
    OBVIOUS
  <1>6. v[i] \in Nat /\ v[j] \in Nat
    BY <1>4, <1>5
  <1>7. j \in 1..l /\ i \in 0..j-1 /\ j - 1 \in 0..l
    <2>1. i # j
      BY <1>5, <1>6
    <2> QED  BY <1>4, <2>1
  <1>8. v[j - 1] <= v[j]
    <2>1. PICK x \in 0..b-1 : v[j] = b * v[j - 1] + x
      BY <1>7 DEF Chain
    <2>2. v[j - 1] \in Nat
      BY <1>7
    <2> QED  BY <1>6, <2>1, <2>2
  <1>9. v[i] <= v[j - 1]
    <2>1. j - 1 \notin S
      <3>1. j - 1 \in Nat /\ ~ (j <= j - 1)
        BY <1>7
      <3> HIDE DEF S
      <3> QED  BY <1>3, <3>1
    <2> QED  BY <1>7, <2>1
  <1>10. v[j - 1] \in Nat
    BY <1>7
  <1> QED  BY <1>5, <1>6, <1>8, <1>9, <1>10

\* Without its last digit, a numeral of more than one digit is one of the quotient.
LEMMA LastDigit ==
  ASSUME NEW b \in {10, 16}, NEW n \in Nat \ {0}, NEW d \in Seq(Char), Denotes(d, n, b)
  PROVE  /\ n < b => d = <<Digits[n + 1]>>
         /\ n >= b => \E e \in Seq(Char) :
              Denotes(e, n \div b, b) /\ d = Append(e, Digits[(n % b) + 1])
  <1> DEFINE l == Len(d)
             q == n \div b
  <1>1. l \in Nat /\ l # 0 /\ d \in [1..l -> Char]
    <2>1. d # <<>>
      BY DEF Denotes
    <2> QED  BY <2>1
  <1>2. PICK v \in [0..l -> 0..n] :
          /\ v[0] = 0 /\ v[1] # 0 /\ v[l] = n
          /\ \A i \in 1..l : \E x \in 0..b-1 : v[i] = b * v[i - 1] + x /\ d[i] = Digits[x + 1]
    BY DEF Denotes
  <1>3. \A i \in 0..l : v[i] \in Nat
    <2>1. \A i \in 0..l : v[i] \in 0..n
      BY <1>2
    <2> QED  BY <2>1
  <1>4. /\ q \in Nat /\ n % b \in 0..b-1 /\ n = b * q + (n % b)
        /\ n >= b => 0 < q
        /\ n < b => q = 0 /\ n % b = n
    BY Halves
  <1> HIDE DEF l, q
  <1>5. v[l - 1] = q /\ d[l] = Digits[(n % b) + 1]
    <2>1. l \in 1..l /\ l - 1 \in 0..l
      BY <1>1
    <2>2. PICK x \in 0..b-1 : v[l] = b * v[l - 1] + x /\ d[l] = Digits[x + 1]
      BY <1>2, <2>1
    <2>3. v[l - 1] \in Nat /\ b \in Nat \ {0}
      BY <1>3, <2>1
    <2>4. b * v[l - 1] + x = b * q + (n % b)
      BY <1>2, <1>4, <2>2
    <2>5. v[l - 1] = q /\ x = n % b
      BY <1>4, <2>3, <2>4, Unique
    <2> QED  BY <2>2, <2>5
  <1>6. Chain(v, b, l)
    BY <1>2 DEF Chain
  <1>7. \A j \in 0..l : \A i \in 0..j : v[i] <= v[j]
    BY <1>1, <1>2, <1>6, ChainRises
  <1>8. CASE n < b
    <2>1. l = 1
      <3>1. SUFFICES ASSUME l > 1 PROVE FALSE
        BY <1>1
      <3>2. l - 1 \in 0..l /\ 1 \in 0..l-1 /\ 1 \in 0..l
        BY <1>1, <3>1
      <3>3. v[1] <= v[l - 1] /\ v[1] \in Nat
        BY <1>3, <1>7, <3>2
      <3> QED  BY <1>2, <1>4, <1>5, <1>8, <3>3
    <2>2. d = <<d[1]>>
      BY <2>1 DEF l
    <2> QED  BY <1>4, <1>5, <1>8, <2>1, <2>2
  <1>9. CASE n >= b
    <2> DEFINE e == SubSeq(d, 1, l - 1)
               u == [i \in 0..l-1 |-> v[i]]
    <2>1. l > 1
      <3>1. l # 1
        BY <1>2, <1>4, <1>5, <1>9
      <3> QED  BY <1>1, <3>1
    <2>2. e \in Seq(Char) /\ Len(e) = l - 1 /\ \A i \in 1..l-1 : e[i] = d[i]
      BY <1>1, <2>1 DEF l
    <2>3. d = Append(e, d[l])
      <3>1. d[l] \in Char /\ Append(e, d[l]) \in Seq(Char) /\ Len(Append(e, d[l])) = l
        BY <1>1, <2>2
      <3>2. \A i \in 1..l : d[i] = Append(e, d[l])[i]
        BY <1>1, <2>2
      <3> HIDE DEF e
      <3> QED  BY <3>1, <3>2, SeqEqual DEF l
    <2>4. u \in [0..l-1 -> 0..q]
      <3>1. ASSUME NEW i \in 0..l-1
            PROVE  v[i] \in 0..q
        <4>1. i \in 0..l /\ l - 1 \in 0..l /\ i \in 0..l-1
          BY <1>1
        <4>2. v[i] \in Nat /\ v[i] <= v[l - 1]
          BY <1>3, <1>7, <4>1
        <4> QED  BY <1>4, <1>5, <4>2
      <3> QED  BY <3>1
    <2>5. u[0] = 0 /\ u[1] # 0 /\ u[l - 1] = q
      BY <1>1, <1>2, <1>5, <2>1
    <2>6. \A i \in 1..l-1 : \E x \in 0..b-1 : u[i] = b * u[i - 1] + x /\ e[i] = Digits[x + 1]
      <3>1. ASSUME NEW i \in 1..l-1
            PROVE  \E x \in 0..b-1 : u[i] = b * u[i - 1] + x /\ e[i] = Digits[x + 1]
        <4>1. i \in 1..l /\ i \in 0..l-1 /\ i - 1 \in 0..l-1
          BY <1>1
        <4>2. u[i] = v[i] /\ u[i - 1] = v[i - 1] /\ e[i] = d[i]
          BY <2>2, <4>1
        <4> HIDE DEF u, e
        <4> QED  BY <1>2, <4>1, <4>2
      <3> QED  BY <3>1
    <2> HIDE DEF u, e
    <2>7. e # <<>> /\ q # 0
      <3>1. Len(e) # 0
        BY <1>1, <2>1, <2>2
      <3> QED  BY <1>4, <1>9, <3>1
    <2>8. Denotes(e, q, b)
      <3>1. /\ u \in [0..Len(e) -> 0..q]
            /\ u[0] = 0 /\ u[1] # 0 /\ u[Len(e)] = q
            /\ \A i \in 1..Len(e) : \E x \in 0..b-1 : u[i] = b * u[i - 1] + x /\ e[i] = Digits[x + 1]
        BY <2>2, <2>4, <2>5, <2>6
      <3> QED  BY <2>7, <3>1 DEF Denotes
    <2> QED  BY <1>5, <1>9, <2>2, <2>3, <2>8 DEF q
  <1> QED  BY <1>8, <1>9

LEMMA DenotesInBase ==
  ASSUME NEW b \in {10, 16}
  PROVE  \A n \in Number : \A d \in Seq(Char) : Denotes(d, n, b) => d = InBase(b)[n]
  <1> DEFINE S == {n \in Nat : n \in Number /\ \E d \in Seq(Char) : Denotes(d, n, b) /\ d # InBase(b)[n]}
  <1>1. SUFFICES ASSUME S # {} PROVE FALSE
    BY DEF Number
  <1>2. S \subseteq Nat
    OBVIOUS
  <1> HIDE DEF S
  <1>3. PICK n \in S : \A k \in S : n <= k
    BY <1>1, <1>2, LeastNumber
  <1> USE DEF S
  <1>4. n \in Nat /\ n \in Number
    OBVIOUS
  <1>5. PICK d \in Seq(Char) : Denotes(d, n, b) /\ d # InBase(b)[n]
    OBVIOUS
  <1>6. InBase(b)[n] = NumeralOf(InBase(b), b, n)
    BY <1>4, InBaseIs
  <1>7. CASE n = 0
    <2>1. d = <<"0">>
      BY <1>5, <1>7 DEF Denotes
    <2>2. NumeralOf(InBase(b), b, n) = <<"0">>
      BY <1>7 DEF NumeralOf, Digits
    <2> QED  BY <1>5, <1>6, <2>1, <2>2
  <1>8. CASE n # 0 /\ n < b
    BY <1>4, <1>5, <1>6, <1>8, LastDigit DEF NumeralOf
  <1>9. CASE n # 0 /\ n >= b
    <2>1. PICK e \in Seq(Char) :
            Denotes(e, n \div b, b) /\ d = Append(e, Digits[(n % b) + 1])
      BY <1>4, <1>5, <1>9, LastDigit
    <2> DEFINE q == n \div b
    <2>2. q \in Nat /\ q < n
      BY <1>4, <1>9, Halves
    <2> HIDE DEF q
    <2>3. q \in Number /\ q \notin S
      <3>1. q \in Number
        BY <1>4, <2>2, PrintfAssumption DEF Number
      <3>2. ~ (n <= q)
        BY <1>4, <2>2
      <3> HIDE DEF S
      <3> QED  BY <1>3, <3>1, <3>2
    <2>4. e = InBase(b)[q]
      BY <2>1, <2>2, <2>3 DEF q
    <2>5. ~ (n < b)
      BY <1>4, <1>9
    <2>6. NumeralOf(InBase(b), b, n) = Append(InBase(b)[q], Digits[(n % b) + 1])
      BY <2>5 DEF NumeralOf, q
    <2> QED  BY <1>5, <1>6, <2>1, <2>4, <2>6
  <1> QED  BY <1>4, <1>7, <1>8, <1>9

LEMMA PartIs ==
  ASSUME NEW t \in Seq(Char), NEW i \in Nat, NEW j \in Nat, i <= j, j <= Len(t)
  PROVE  LET x == SubSeq(t, i + 1, j) IN
         x \in Seq(Char) /\ Len(x) = j - i /\ \A k \in 1..Len(x) : x[k] = t[i + k]
  <1> DEFINE x == SubSeq(t, i + 1, j)
             a == i + 1
  <1>1. Len(t) \in Nat
    BY LenProperties
  <1>2. a \in Nat /\ \A k \in a..j : k \in 1..Len(t)
    BY <1>1
  <1>3. (IF a <= j THEN j - a + 1 ELSE 0) = j - i /\ j - i \in Nat
    OBVIOUS
  <1>4. \A k \in 1..j - i : a + k - 1 = i + k
    OBVIOUS
  <1> HIDE DEF a
  <1>5. /\ SubSeq(t, a, j) \in Seq(Char)
        /\ Len(SubSeq(t, a, j)) = IF a <= j THEN j - a + 1 ELSE 0
        /\ \A k \in 1..j - a + 1 : SubSeq(t, a, j)[k] = t[a + k - 1]
    BY <1>2, SubSeqProperties
  <1>6. 1..j - a + 1 = 1..j - i
    BY DEF a
  <1>7. x = SubSeq(t, a, j)
    BY DEF a
  <1> HIDE DEF x
  <1>8. x \in Seq(Char) /\ Len(x) = j - i /\ \A k \in 1..Len(x) : x[k] = t[i + k]
    BY <1>3, <1>4, <1>5, <1>6, <1>7
  <1> QED  BY <1>8 DEF x

LEMMA TwoParts ==
  ASSUME NEW t \in Seq(Char), NEW i \in Nat, NEW j \in i..Len(t)
  PROVE  SubSeq(t, i + 1, Len(t)) = SubSeq(t, i + 1, j) \o SubSeq(t, j + 1, Len(t))
  <1> DEFINE r == SubSeq(t, i + 1, Len(t))
             x == SubSeq(t, i + 1, j)
             y == SubSeq(t, j + 1, Len(t))
  <1>4. Len(t) \in Nat /\ i <= j /\ j <= Len(t) /\ j \in Nat
    OBVIOUS
  <1>1. r \in Seq(Char) /\ Len(r) = Len(t) - i /\ \A k \in 1..Len(r) : r[k] = t[i + k]
    BY <1>4, PartIs
  <1>2. x \in Seq(Char) /\ Len(x) = j - i /\ \A k \in 1..Len(x) : x[k] = t[i + k]
    BY <1>4, PartIs
  <1>3. y \in Seq(Char) /\ Len(y) = Len(t) - j /\ \A k \in 1..Len(y) : y[k] = t[j + k]
    BY <1>4, PartIs
  <1> HIDE DEF r, x, y
  <1>5. x \o y \in Seq(Char) /\ Len(x \o y) = Len(r)
    BY <1>1, <1>2, <1>3, <1>4, ConcatProperties
  <1>6. \A k \in 1..Len(r) : (x \o y)[k] = r[k]
    <2>1. SUFFICES ASSUME NEW k \in 1..Len(r) PROVE (x \o y)[k] = r[k]
      OBVIOUS
    <2>2. (x \o y)[k] = IF k <= Len(x) THEN x[k] ELSE y[k - Len(x)]
      BY <1>1, <1>2, <1>3, <1>4, <2>1, ConcatProperties
    <2>3. CASE k <= Len(x)
      BY <1>1, <1>2, <1>4, <2>1, <2>2, <2>3
    <2>4. CASE ~ (k <= Len(x))
      <3>1. k - Len(x) \in 1..Len(y) /\ j + (k - Len(x)) = i + k
        BY <1>1, <1>2, <1>3, <1>4, <2>1, <2>4
      <3> QED  BY <1>1, <1>3, <2>1, <2>2, <2>4, <3>1
    <2> QED  BY <2>3, <2>4
  <1>7. r = x \o y
    BY <1>1, <1>5, <1>6, SeqEqual
  <1> QED  BY <1>7 DEF r, x, y

LEMMA SignedIs ==
  ASSUME NEW sign \in Seq(Char), NEW s \in Seq(Char), NEW n \in Number, NEW b \in {10, 16},
         Signs(s, sign, n, b)
  PROVE  s = sign \o InBase(b)[n]
  <1> DEFINE k == Len(sign)
             d == SubSeq(s, k + 1, Len(s))
  <1>1. k \in Nat /\ k <= Len(s) /\ SubSeq(s, 1, k) = SubSeq(sign, 1, k)
    BY LenProperties DEF Signs, IsPrefix
  <1>2. SubSeq(sign, 1, k) = sign /\ SubSeq(s, 1, Len(s)) = s
    OBVIOUS
  <1>3. d \in Seq(Char) /\ Denotes(d, n, b)
    BY <1>1 DEF Signs
  <1>4. d = InBase(b)[n]
    BY <1>3, DenotesInBase
  <1> HIDE DEF k
  <1>5. SubSeq(s, 0 + 1, Len(s)) = SubSeq(s, 0 + 1, k) \o d
    <2>1. 0 \in Nat /\ k \in 0..Len(s)
      BY <1>1
    <2> QED  BY <2>1, TwoParts
  <1> HIDE DEF d
  <1>6. 0 + 1 = 1
    OBVIOUS
  <1> QED  BY <1>1, <1>2, <1>4, <1>5, <1>6

LEMMA PrintsSaid ==
  ASSUME NEW letter \in Conversions, NEW a \in Fitting(letter), NEW s \in Seq(Char),
         Prints(letter, a, s)
  PROVE  s = Said(letter, a)
  <1>1. CASE letter = "s"
    BY <1>1 DEF Prints, Said
  <1>2. CASE letter = "c"
    BY <1>2 DEF Prints, Said
  <1>3. letter \in Numeric => a \in Number
    BY DEF Fitting, Numeric
  <1>4. CASE letter = "x"
    <2>1. Denotes(s, a, 16) /\ a \in Number
      BY <1>3, <1>4 DEF Prints, Numeric
    <2>2. s = InBase(16)[a]
      BY <2>1, DenotesInBase
    <2> QED  BY <1>4, <2>2 DEF Said
  <1>5. CASE letter = "p"
    <2>1. Signs(s, <<"0", "x">>, a, 16) /\ a \in Number
      BY <1>3, <1>5 DEF Prints, Numeric
    <2>2. s = <<"0", "x">> \o InBase(16)[a]
      BY <2>1, SignedIs, Characters
    <2> QED  BY <1>5, <2>2 DEF Said
  <1>6. CASE letter \in {"d", "u"}
    <2>1. a \in Number /\ Signed(a) \in Int /\ Said(letter, a) = Decimal(Signed(a))
      BY <1>3, <1>6, SignedIsInt DEF Numeric, Said
    <2>2. CASE Signed(a) >= 0
      <3>1. Denotes(s, Signed(a), 10)
        BY <1>6, <2>2 DEF Prints
      <3>2. Signed(a) \in Number
        BY <2>1, <2>2, Bits DEF Number
      <3>3. s = InBase(10)[Signed(a)]
        BY <3>1, <3>2, DenotesInBase
      <3>4. ~ (Signed(a) < 0)
        BY <2>1, <2>2
      <3> QED  BY <2>1, <3>3, <3>4 DEF Decimal
    <2>3. CASE ~ (Signed(a) >= 0)
      <3>1. Signed(a) < 0
        BY <2>1, <2>3
      <3>2. Signs(s, <<"-">>, -Signed(a), 10)
        BY <1>6, <2>3 DEF Prints
      <3>3. -Signed(a) \in Number
        <4>1. -Signed(a) \in 1..WORD-1
          BY <2>1, <3>1, Bits
        <4> QED  BY <4>1, PrintfAssumption DEF Number
      <3>4. <<"-">> \in Seq(Char)
        BY Characters
      <3>5. s = <<"-">> \o InBase(10)[-Signed(a)]
        BY <3>2, <3>3, <3>4, SignedIs
      <3> QED  BY <2>1, <3>1, <3>5 DEF Decimal
    <2> QED  BY <2>2, <2>3
  <1> QED  BY <1>1, <1>2, <1>4, <1>5, <1>6 DEF Conversions

\* Text is the function that its definition describes.
Rest(g, f, a, i) ==
  [k \in Nat |->
    IF i >= Len(f) THEN <<>>
    ELSE (IF Converts(f, i) THEN Said(f[i + 2], a[k + 1]) ELSE <<f[i + 1]>>)
           \o g[i + Extent(f, i)][k + Uses(f, i)]]
IsText(g, f, a) == g = [i \in Nat |-> Rest(g, f, a, i)]

LEMMA TextIs ==
  ASSUME NEW f, NEW a, Len(f) \in Nat
  PROVE  \E g : IsText(g, f, a) /\ Text(f, a) = g[0][0]
  <1> DEFINE n == Len(f)
             From(g, m) == g = [i \in Nat |-> g[i]] /\ \A i \in Nat : i >= m => g[i] = Rest(g, f, a, i)
             S == {d \in Nat : d <= n /\ ~ \E g : From(g, n - d)}
  <1>1. S = {}
    <2>1. SUFFICES ASSUME S # {} PROVE FALSE
      OBVIOUS
    <2>2. S \subseteq Nat
      OBVIOUS
    <2> HIDE DEF S
    <2>3. PICK d \in S : \A k \in S : d <= k
      BY <2>1, <2>2, LeastNumber
    <2> USE DEF S
    <2>4. d \in Nat /\ d <= n /\ ~ \E g : From(g, n - d)
      OBVIOUS
    <2>5. d # 0
      <3> DEFINE h == [i \in Nat |-> [k \in Nat |-> <<>>]]
      <3>1. From(h, n)
        <4>1. h = [i \in Nat |-> h[i]]
          OBVIOUS
        <4>2. ASSUME NEW i \in Nat, i >= n
              PROVE  h[i] = Rest(h, f, a, i)
          BY <4>2 DEF Rest
        <4> HIDE DEF h
        <4> QED  BY <4>1, <4>2
      <3>2. d = 0 => n - d = n
        OBVIOUS
      <3> HIDE DEF h, From, n
      <3> QED  BY <2>4, <3>1, <3>2
    <2>6. d - 1 \in Nat /\ d - 1 <= n /\ d - 1 \notin S
      <3>1. d - 1 \in Nat /\ d - 1 <= n /\ ~ (d <= d - 1)
        BY <2>4, <2>5
      <3> HIDE DEF S
      <3> QED  BY <2>3, <3>1
    <2> DEFINE m == n - d
    <2>7. m \in Nat /\ n - (d - 1) = m + 1
      BY <2>4
    <2>8. PICK g : From(g, m + 1)
      BY <2>6, <2>7
    <2> HIDE DEF m
    <2> DEFINE h == [g EXCEPT ![m] = Rest(g, f, a, m)]
    <2>9. h = [i \in Nat |-> IF i = m THEN Rest(g, f, a, m) ELSE g[i]]
      BY <2>7, <2>8
    <2> HIDE DEF h
    <2>10. From(h, m)
      <3>1. h = [i \in Nat |-> h[i]]
        BY <2>9
      <3>2. ASSUME NEW i \in Nat, i >= m
            PROVE  h[i] = Rest(h, f, a, i)
        <4> DEFINE j == i + Extent(f, i)
        <4>1. j \in Nat /\ j # m
          BY <2>7, <3>2 DEF Extent
        <4>2. h[j] = g[j]
          BY <2>9, <4>1
        <4>3. Rest(h, f, a, i) = Rest(g, f, a, i)
          BY <4>2 DEF Rest
        <4>4. CASE i = m
          BY <2>7, <2>9, <4>3, <4>4
        <4>5. CASE i # m
          <5>1. i >= m + 1 /\ h[i] = g[i]
            BY <2>7, <2>9, <3>2, <4>5
          <5> QED  BY <2>8, <4>3, <5>1
        <4> QED  BY <4>4, <4>5
      <3> QED  BY <3>1, <3>2
    <2> QED  BY <2>4, <2>10 DEF m
  <1>2. PICK g : From(g, 0)
    <2>1. n \in Nat /\ n <= n /\ n - n = 0 /\ n \notin S
      <3>1. n \in Nat /\ n <= n /\ n - n = 0
        OBVIOUS
      <3> HIDE DEF S
      <3> QED  BY <1>1, <3>1
    <2> QED  BY <2>1
  <1>3. IsText(g, f, a)
    <2> HIDE DEF Rest
    <2>1. \A i \in Nat : g[i] = Rest(g, f, a, i)
      BY <1>2
    <2> QED  BY <1>2, <2>1 DEF IsText
  <1>4. Text(f, a) = (CHOOSE h : IsText(h, f, a))[0][0]
    BY DEF Text, IsText, Rest
  <1>5. IsText(CHOOSE h : IsText(h, f, a), f, a)
    BY <1>3
  <1> QED  BY <1>4, <1>5

LEMMA NothingLeft ==
  ASSUME NEW t \in Seq(Char)
  PROVE  SubSeq(t, Len(t) + 1, Len(t)) = <<>> /\ SubSeq(t, 0 + 1, Len(t)) = t
  OBVIOUS

LEMMA SaysText ==
  ASSUME NEW c, Callable(c), NEW t \in Seq(Char), Says(c, t)
  PROVE  t = Text(c.fmt, c.args)
  <1> DEFINE f == c.fmt
             n == Len(f)
  <1>1. f \in Seq(Char) /\ n \in Nat /\ Len(c.args) \in Nat
    BY DEF Callable
  <1>2. PICK p \in Plans(c), e \in [0..n -> 0..Len(t)] : SaysUpTo(c, n, p, e, t)
    BY DEF Says
  <1>3. PICK g : IsText(g, f, c.args) /\ Text(f, c.args) = g[0][0]
    BY <1>1, TextIs
  <1> HIDE DEF f, n
  <1>4. p \in [0..n -> -1..Len(c.args)] /\ IsPlan(c, p)
    BY <1>2 DEF Plans, n, f
  <1>5. Len(t) \in Nat
    OBVIOUS
  <1> DEFINE Claim(i) == g[i][p[i]] = SubSeq(t, e[i] + 1, Len(t))
             S == {d \in Nat : d <= n /\ p[n - d] # -1 /\ ~ Claim(n - d)}
  <1>6. S = {}
    <2>1. SUFFICES ASSUME S # {} PROVE FALSE
      OBVIOUS
    <2>2. S \subseteq Nat
      OBVIOUS
    <2> HIDE DEF S
    <2>3. PICK d \in S : \A k \in S : d <= k
      BY <2>1, <2>2, LeastNumber
    <2> USE DEF S
    <2> DEFINE i == n - d
    <2>4. d \in Nat /\ d <= n /\ p[i] # -1 /\ ~ Claim(i)
      OBVIOUS
    <2>5. i \in 0..n /\ p[i] \in Nat /\ p[i] <= Len(c.args) /\ e[i] \in 0..Len(t)
      <3>1. i \in 0..n
        BY <1>1, <2>4
      <3> HIDE DEF i
      <3>2. p[i] \in -1..Len(c.args) /\ e[i] \in 0..Len(t)
        BY <1>2, <1>4, <3>1
      <3> QED  BY <1>1, <2>4, <3>1, <3>2
    <2>6. \A j \in i+1..n : p[j] # -1 => Claim(j)
      <3>1. SUFFICES ASSUME NEW j \in i+1..n, p[j] # -1 PROVE Claim(j)
        OBVIOUS
      <3>2. n - j \in Nat /\ n - j <= n /\ n - (n - j) = j /\ ~ (d <= n - j)
        BY <1>1, <2>4, <2>5, <3>1
      <3>3. n - j \notin S
        <4> HIDE DEF S
        <4> QED  BY <2>3, <3>2
      <3> HIDE DEF Claim, i
      <3> QED  BY <3>1, <3>2, <3>3
    <2> HIDE DEF i, S
    <2>7. g[i] = Rest(g, f, c.args, i)
      <3>1. i \in Nat
        BY <1>1, <2>5
      <3> QED  BY <1>3, <3>1 DEF IsText
    <2>8. CASE i = n
      <3>1. g[i][p[i]] = <<>>
        BY <1>1, <2>5, <2>7, <2>8 DEF Rest, n
      <3>2. e[i] = Len(t)
        BY <1>2, <2>8 DEF SaysUpTo
      <3> QED  BY <2>4, <3>1, <3>2, NothingLeft
    <2>9. CASE i # n
      <3> DEFINE j == i + Extent(f, i)
                 k == p[i]
                 piece == SubSeq(t, e[i] + 1, e[j])
      <3>1. i \in 0..n-1 /\ ~ (i >= n) /\ i \in Nat
        BY <1>1, <2>5, <2>9
      <3>2. /\ j <= n /\ e[i] <= e[j] /\ e[j] <= Len(t)
            /\ Piece(c, i, k, piece)
        BY <1>2, <2>4, <3>1 DEF SaysUpTo, f
      <3>3. j \in i+1..n /\ j \in 0..n
        BY <1>1, <3>1, <3>2 DEF Extent
      <3>4. /\ Converts(f, i) => k < Len(c.args) /\ c.args[k + 1] \in Fitting(f[i + 2])
            /\ p[j] = k + Uses(f, i)
        BY <1>4, <2>4, <3>1 DEF IsPlan, f, n
      <3>5. k + Uses(f, i) \in Nat
        BY <2>5 DEF Uses
      <3> HIDE DEF j, k, piece
      <3>6. Claim(j) /\ p[j] # -1
        BY <2>6, <3>3, <3>4, <3>5
      <3>7. e[i] \in Nat /\ e[j] \in e[i]..Len(t)
        <4>1. e[j] \in 0..Len(t)
          BY <1>2, <3>3
        <4> QED  BY <1>5, <2>5, <3>2, <4>1
      <3>8. piece \in Seq(Char)
        <4>1. \A m \in e[i] + 1..e[j] : m \in 1..Len(t)
          BY <1>5, <3>7
        <4> QED  BY <3>7, <4>1, SubSeqProperties DEF piece
      <3>9. piece = IF Converts(f, i) THEN Said(f[i + 2], c.args[k + 1]) ELSE <<f[i + 1]>>
        <4>1. CASE Converts(f, i)
          <5>1. Prints(f[i + 2], c.args[k + 1], piece) /\ f[i + 2] \in Conversions
            BY <3>2, <4>1 DEF Piece, Converts, f
          <5> QED  BY <3>4, <3>8, <4>1, <5>1, PrintsSaid
        <4>2. CASE ~ Converts(f, i)
          BY <3>2, <4>2 DEF Piece, f
        <4> QED  BY <4>1, <4>2
      <3>10. g[i][k] = piece \o g[j][k + Uses(f, i)]
        <4>1. k \in Nat
          BY <2>5 DEF k
        <4>2. g[i][k] = (IF Converts(f, i) THEN Said(f[i + 2], c.args[k + 1]) ELSE <<f[i + 1]>>)
                          \o g[j][k + Uses(f, i)]
          BY <2>7, <3>1, <4>1 DEF Rest, n, j
        <4> QED  BY <3>9, <4>2
      <3>11. SubSeq(t, e[i] + 1, Len(t)) = piece \o SubSeq(t, e[j] + 1, Len(t))
        BY <3>7, TwoParts DEF piece
      <3>12. Claim(i)
        BY <3>4, <3>6, <3>10, <3>11 DEF k
      <3> QED  BY <2>4, <3>12
    <2> QED  BY <2>8, <2>9
  <1>7. p[0] = 0 /\ e[0] = 0
    BY <1>2, <1>4 DEF IsPlan, SaysUpTo
  <1>8. Claim(0)
    <2>1. n \in Nat /\ n <= n /\ n - n = 0
      BY <1>1
    <2>2. n \notin S
      <3> HIDE DEF S
      <3> QED  BY <1>6
    <2> HIDE DEF Claim
    <2> QED  BY <1>7, <2>1, <2>2
  <1>9. g[0][0] = SubSeq(t, 0 + 1, Len(t))
    BY <1>7, <1>8
  <1> QED  BY <1>3, <1>9, NothingLeft DEF f

(***************************************************************************)
(* What of the text is drawn.                                              *)
(***************************************************************************)
Delivery ==
  /\ slot \in [Streams -> 0..STREAM_BUF_SIZE-1] /\ stream \in Streams
  /\ silent \subseteq blocked /\ blocked \subseteq Streams
  /\ pc \notin Outside => stream = STREAM_STDOUT
  /\ stream \in silent => out = <<>>
  /\ stream \in blocked \ silent => CutShort(out, sent)
  /\ IF pc = "write"
       THEN (stream \in blocked => str = <<>>) /\ (stream \notin blocked => out \o str = sent)
       ELSE stream \notin blocked => out = sent

LEMMA CutIs ==
  ASSUME NEW o \in Seq(Char), NEW t \in Seq(Char)
  PROVE  CutShort(o, t) <=>
           /\ Len(o) <= Len(t) /\ \A i \in 1..Len(o) : o[i] = t[i]
           /\ o # <<>> => Len(o) < Len(t) /\ t[Len(o) + 1] = NL
  <1>1. Len(o) \in Nat /\ Len(t) \in Nat /\ SubSeq(o, 1, Len(o)) = o
    BY LenProperties, SubSeqFull
  <1>2. ASSUME Len(o) <= Len(t)
        PROVE  o = SubSeq(t, 1, Len(o)) <=> \A i \in 1..Len(o) : o[i] = t[i]
    <2> DEFINE h == SubSeq(t, 1, Len(o))
    <2>1. h \in Seq(Char) /\ Len(h) = Len(o) /\ \A i \in 1..Len(o) : h[i] = t[i]
      <3>1. \A i \in 1..Len(o) : t[i] \in Char
        BY <1>1, <1>2, ElementOfSeq
      <3>2. /\ SubSeq(t, 1, Len(o)) \in Seq(Char)
            /\ Len(SubSeq(t, 1, Len(o))) = IF 1 <= Len(o) THEN Len(o) - 1 + 1 ELSE 0
            /\ \A i \in 1..Len(o) - 1 + 1 : SubSeq(t, 1, Len(o))[i] = t[1 + i - 1]
        BY <1>1, <3>1, SubSeqProperties
      <3> HIDE DEF h
      <3>3. h \in Seq(Char) /\ Len(h) = Len(o)
        BY <1>1, <3>2 DEF h
      <3>4. \A i \in 1..Len(o) : i \in 1..Len(o) - 1 + 1 /\ 1 + i - 1 = i
        BY <1>1
      <3> QED  BY <3>2, <3>3, <3>4 DEF h
    <2> HIDE DEF h
    <2>2. o = h <=> \A i \in 1..Len(o) : o[i] = t[i]
      <3>1. (\A i \in 1..Len(o) : o[i] = t[i]) => \A i \in 1..Len(o) : o[i] = h[i]
        BY <2>1
      <3>2. (\A i \in 1..Len(o) : o[i] = h[i]) => o = h
        BY <2>1, SeqEqual
      <3> QED  BY <2>1, <3>1, <3>2
    <2> QED  BY <2>2 DEF h
  <1> QED  BY <1>1, <1>2 DEF CutShort, IsPrefix

LEMMA CutBegins ==
  ASSUME NEW t \in Seq(Char)
  PROVE  CutShort(<<>>, t) /\ CutShort(t, Append(t, NL))
  <1>1. /\ Append(t, NL) \in Seq(Char) /\ Len(Append(t, NL)) = Len(t) + 1 /\ Len(t) \in Nat
        /\ Append(t, NL)[Len(t) + 1] = NL /\ \A i \in 1..Len(t) : Append(t, NL)[i] = t[i]
    BY ScreenAssumption, AppendProperties, LenProperties
  <1>2. CutShort(t, Append(t, NL))
    <2>1. Len(t) <= Len(t) + 1 /\ Len(t) < Len(t) + 1
      BY <1>1
    <2> QED  BY <1>1, <2>1, CutIs
  <1>3. CutShort(<<>>, t)
    <2>1. <<>> \in Seq(Char) /\ Len(<<>>) = 0 /\ 0 <= Len(t) /\ 1..0 = {}
      BY <1>1
    <2> QED  BY <2>1, CutIs
  <1> QED  BY <1>2, <1>3

LEMMA CutLonger ==
  ASSUME NEW o \in Seq(Char), NEW t \in Seq(Char), NEW ch \in Char, CutShort(o, t)
  PROVE  CutShort(o, Append(t, ch))
  <1> DEFINE a == Append(t, ch)
  <1>1. /\ Len(o) \in Nat /\ Len(t) \in Nat /\ Len(o) <= Len(t) /\ \A i \in 1..Len(o) : o[i] = t[i]
        /\ o # <<>> => Len(o) < Len(t) /\ t[Len(o) + 1] = NL
    BY CutIs, LenProperties
  <1>2. a \in Seq(Char) /\ Len(a) = Len(t) + 1 /\ \A i \in 1..Len(t) : a[i] = t[i]
    BY AppendProperties
  <1> HIDE DEF a
  <1>3. Len(o) <= Len(a) /\ \A i \in 1..Len(o) : i \in 1..Len(t)
    BY <1>1, <1>2
  <1>4. Len(o) < Len(t) => Len(o) < Len(a) /\ Len(o) + 1 \in 1..Len(t)
    BY <1>1, <1>2
  <1>5. CutShort(o, a)
    BY <1>1, <1>2, <1>3, <1>4, CutIs
  <1> QED  BY <1>5 DEF a

\* A text goes into a stream.
LEMMA StoreTypes ==
  ASSUME Delivery, NEW s \in Streams, NEW text \in Seq(Char), Store(s, text)
  PROVE  /\ slot' \in [Streams -> 0..STREAM_BUF_SIZE-1]
         /\ blocked \subseteq blocked' /\ blocked' \subseteq blocked \cup {s}
         /\ s \in blocked' <=> s \in blocked \/ Blocks(s, text)
  <1>1. slot \in [Streams -> 0..STREAM_BUF_SIZE-1] /\ STREAM_BUF_SIZE \in Nat \ {0} /\ Len(text) \in Nat
    BY PrintfAssumption, LenProperties DEF Delivery
  <1>2. (slot[s] + Len(text)) % STREAM_BUF_SIZE \in 0..STREAM_BUF_SIZE-1
    <2>1. \A k \in Nat, n \in Nat \ {0} : k % n \in 0..n-1
      BY DivMod
    <2>2. slot[s] \in 0..STREAM_BUF_SIZE-1
      BY <1>1
    <2>3. slot[s] + Len(text) \in Nat
      BY <1>1, <2>2
    <2> QED  BY <1>1, <2>1, <2>3
  <1>3. slot' \in [Streams -> 0..STREAM_BUF_SIZE-1]
    BY <1>1, <1>2 DEF Store
  <1> QED  BY <1>3 DEF Store

LEMMA PutcDelivers ==
  ASSUME PrintfInv, Delivery, pc \notin Outside, pc' \notin Outside, NEW ch \in Char, Putc(ch)
  PROVE  Delivery'
  <1>1. /\ sent \in Seq(Char) /\ out \in Seq(Char) /\ stream = STREAM_STDOUT /\ pc # "write"
        /\ silent \subseteq blocked /\ blocked \subseteq Streams /\ stream \in Streams
        /\ stream \in silent => out = <<>>
        /\ stream \in blocked \ silent => CutShort(out, sent)
        /\ stream \notin blocked => out = sent
    BY DEF PrintfInv, Delivery, Outside
  <1>2. <<ch>> \in Seq(Char) /\ Len(<<ch>>) = 1 /\ <<ch>>[1] = ch
    OBVIOUS
  <1>3. /\ Store(stream, <<ch>>) /\ sent' = Append(sent, ch)
        /\ stream \in blocked' => out' = out
        /\ stream \notin blocked' => out' = Append(out, ch)
        /\ stream' = stream /\ silent' = silent
    BY <1>1 DEF Putc
  <1>4. /\ slot' \in [Streams -> 0..STREAM_BUF_SIZE-1]
        /\ blocked \subseteq blocked' /\ blocked' \subseteq blocked \cup {stream}
        /\ stream \in blocked' <=> stream \in blocked \/ Blocks(stream, <<ch>>)
    BY <1>1, <1>2, <1>3, StoreTypes
  <1>5. Blocks(stream, <<ch>>) => ch = NL
    BY <1>2 DEF Blocks
  <1>6. CASE stream \in blocked
    <2>1. stream \in blocked \ silent => CutShort(out, Append(sent, ch))
      BY <1>1, CutLonger
    <2> QED  BY <1>1, <1>3, <1>4, <1>6, <2>1 DEF Delivery, Outside
  <1>7. CASE stream \notin blocked /\ stream \in blocked'
    <2>1. CutShort(out, Append(sent, ch)) /\ stream \notin silent
      BY <1>1, <1>4, <1>5, <1>7, CutBegins
    <2> QED  BY <1>1, <1>3, <1>4, <1>7, <2>1 DEF Delivery, Outside
  <1>8. CASE stream \notin blocked'
    <2>1. stream \notin blocked /\ stream \notin silent /\ out' = sent'
      BY <1>1, <1>3, <1>4, <1>8
    <2> QED  BY <1>1, <1>3, <1>4, <1>8, <2>1 DEF Delivery, Outside
  <1> QED  BY <1>6, <1>7, <1>8

\* The steps that call sh_putc.
Putting == Ordinary \/ OneChar \/ PerCent \/ OtherLetter \/ PutsChar \/ Minus \/ Zero \/ PutDigit

LEMMA PuttingIs ==
  ASSUME PrintfInv, Putting
  PROVE  pc \notin Outside /\ pc' \notin Outside /\ \E ch \in Char : Putc(ch)
  <1>1. /\ pc \in {"fmt", "puts", "puts 0x", "int", "put"}
        /\ pc' \in {"fmt", "puts", "puts 0x", "digits", "put"}
    BY DEF Putting, Ordinary, OneChar, PerCent, OtherLetter, PutsChar, Minus, Zero, PutDigit,
           Ready, Directive
  <1>2. Callable(call) /\ Parsed /\ str \in Seq(Char) /\ buffer \in Seq(Char)
    BY <1>1 DEF PrintfInv, Outside
  <1>3. Ordinary => \E ch \in Char : Putc(ch)
    <2>1. Ordinary => fmt # <<>> /\ Putc(Head(fmt))
      BY DEF Ordinary
    <2>2. fmt # <<>> => Head(fmt) \in Char
      BY <1>2, NextPiece
    <2> QED  BY <2>1, <2>2
  <1>4. OneChar => \E ch \in Char : Putc(ch)
    <2>1. OneChar => Directive("c") /\ Putc(Head(args))
      BY DEF OneChar
    <2>2. Directive("c") => Head(args) \in Fitting("c")
      BY <1>2, Directives DEF Conversions
    <2>3. Fitting("c") = Char
      BY DEF Fitting
    <2> QED  BY <2>1, <2>2, <2>3
  <1>5. PerCent \/ OtherLetter \/ Minus \/ Zero => \E ch \in Char : Putc(ch)
    <2>1. PerCent \/ OtherLetter \/ Minus \/ Zero => Putc("%") \/ Putc("-") \/ Putc("0")
      BY DEF PerCent, OtherLetter, Minus, Zero
    <2>2. "%" \in Char /\ "-" \in Char /\ "0" \in Char
      BY Characters
    <2> QED  BY <2>1, <2>2
  <1>6. PutsChar => \E ch \in Char : Putc(ch)
    <2>1. PutsChar => str # <<>> /\ Putc(Head(str))
      BY DEF PutsChar
    <2>2. str # <<>> => Head(str) \in Char
      BY <1>2, HeadTailProperties
    <2> QED  BY <2>1, <2>2
  <1>7. PutDigit => \E ch \in Char : Putc(ch)
    <2>1. PutDigit => buffer # <<>> /\ Putc(Last(buffer))
      BY DEF PutDigit
    <2>2. buffer # <<>> => Last(buffer) \in Char
      BY <1>2 DEF Last
    <2> QED  BY <2>1, <2>2
  <1>8. \E ch \in Char : Putc(ch)
    BY <1>3, <1>4, <1>5, <1>6, <1>7 DEF Putting
  <1> QED  BY <1>1, <1>8 DEF Outside

\* The steps that write nothing.
NoOutput ==
  \/ String \/ Pointer \/ Numeral \/ PutsReturn \/ Positive \/ StoreDigit \/ DigitsStored
  \/ PutintReturn \/ PrintfReturn \/ Rendering \/ UNCHANGED pvars

LEMMA NoOutputDelivers ==
  ASSUME Delivery, NoOutput
  PROVE  Delivery'
  <1>1. UNCHANGED said
    BY DEF NoOutput, String, Pointer, Numeral, PutsReturn, Positive, StoreDigit, DigitsStored,
           PutintReturn, PrintfReturn, Rendering, pvars
  <1>2. \/ UNCHANGED <<pc, str>>
        \/ pc \notin Outside /\ pc' # "write"
    BY DEF NoOutput, String, Pointer, Numeral, PutsReturn, Positive, StoreDigit, DigitsStored,
           PutintReturn, PrintfReturn, Rendering, pvars, Ready, Directive, Outside
  <1>3. UNCHANGED <<slot, blocked, stream, silent, sent, out>>
    BY <1>1 DEF said
  <1>4. CASE UNCHANGED <<pc, str>>
    BY <1>3, <1>4 DEF Delivery, CutShort, IsPrefix
  <1>5. CASE pc \notin Outside /\ pc' # "write"
    BY <1>3, <1>5 DEF Delivery, Outside, CutShort, IsPrefix
  <1> QED  BY <1>2, <1>4, <1>5

LEMMA DeliveryInit == PInit => Delivery
  <1> SUFFICES ASSUME PInit PROVE Delivery
    OBVIOUS
  <1>1. 0 \in 0..STREAM_BUF_SIZE-1
    BY PrintfAssumption
  <1> QED  BY <1>1 DEF PInit, Delivery, Outside, Streams

LEMMA DeliveryNext ==
  ASSUME PrintfInv, Delivery, [PNext]_pvars
  PROVE  Delivery'
  <1>1. /\ slot \in [Streams -> 0..STREAM_BUF_SIZE-1] /\ stream \in Streams
        /\ silent \subseteq blocked /\ blocked \subseteq Streams
        /\ sent \in Seq(Char) /\ out \in Seq(Char) /\ str \in Seq(Char)
    BY DEF Delivery, PrintfInv
  <1>2. CASE Putting
    BY <1>2, PuttingIs, PutcDelivers
  <1>3. CASE NoOutput
    BY <1>3, NoOutputDelivers
  <1>4. CASE \E c \in Calls : Printf(c)
    <2>1. PICK c \in Calls : Printf(c)
      BY <1>4
    <2>2. /\ UNCHANGED <<slot, blocked>> /\ sent' = <<>> /\ out' = <<>>
          /\ stream' = STREAM_STDOUT /\ silent' = blocked /\ pc' = "fmt"
      BY <2>1, Beginning
    <2> QED  BY <1>1, <2>2 DEF Delivery, Outside, Streams
  <1>5. CASE \E s \in Streams, text \in Texts : Write(s, text)
    <2>1. PICK s \in Streams, text \in Texts : Write(s, text)
      BY <1>5
    <2> DEFINE kept == Keeps(text)
    <2>2. kept \in Seq(Char)
      BY KeepsIs
    <2>3. /\ Store(s, kept) /\ stream' = s /\ silent' = blocked /\ sent' = kept /\ out' = <<>>
          /\ pc' = "write" /\ str' = IF s \in blocked' THEN <<>> ELSE kept
      BY <2>1 DEF Write, Begin
    <2> HIDE DEF kept
    <2>4. slot' \in [Streams -> 0..STREAM_BUF_SIZE-1] /\ blocked \subseteq blocked'
          /\ blocked' \subseteq blocked \cup {s}
      BY <2>2, <2>3, StoreTypes
    <2>5. CutShort(<<>>, kept) /\ <<>> \o kept = kept
      BY <2>2, CutBegins, ConcatEmptySeq
    <2> QED  BY <1>1, <2>3, <2>4, <2>5 DEF Delivery, Outside
  <1>6. CASE WriteChar
    <2>1. /\ pc = "write" /\ pc' = "write" /\ str # <<>> /\ out' = Append(out, Head(str))
          /\ str' = Tail(str) /\ UNCHANGED <<slot, blocked, stream, silent, sent>>
      BY <1>6 DEF WriteChar, Ready
    <2>2. stream \notin blocked /\ stream \notin silent /\ out \o str = sent
      BY <1>1, <2>1 DEF Delivery
    <2>3. out' \o str' = sent
      BY <1>1, <2>1, <2>2, HeadMoves
    <2> QED  BY <1>1, <2>1, <2>2, <2>3 DEF Delivery, Outside
  <1>7. CASE WriteReturn
    <2>1. pc = "write" /\ pc' = "idle" /\ str = <<>> /\ UNCHANGED <<slot, blocked, stream, silent, sent, out>>
      BY <1>7 DEF WriteReturn, Ready, said
    <2>2. stream \notin blocked => out = sent
      BY <1>1, <2>1, ConcatEmptySeq DEF Delivery
    <2>3. stream \in blocked \ silent => CutShort(out, sent)
      BY DEF Delivery
    <2>4. stream \in silent => out = <<>>
      BY DEF Delivery
    <2> QED  BY <1>1, <2>1, <2>2, <2>3, <2>4 DEF Delivery, Outside, CutShort, IsPrefix
  <1>8. Putting \/ NoOutput \/ (\E c \in Calls : Printf(c))
          \/ (\E s \in Streams, text \in Texts : Write(s, text)) \/ WriteChar \/ WriteReturn
    BY DEF PNext, Printing, Putting, NoOutput
  <1> QED  BY <1>2, <1>3, <1>4, <1>5, <1>6, <1>7, <1>8

(* shell.c:140-244, stream.c:26: when sh_printf returns, it has printed    *)
(* the text of its format, computed piece by piece and digit by digit, and *)
(* nothing else, and sh_write_stream what its stream keeps; of the call in *)
(* which a newline blocks the stream only what comes before a newline, and *)
(* nothing of a later one.                                                 *)
THEOREM PrintfPrintsText == PSpec => []PrintsWhatItSays
  <1>1. PInit => Delivery
    BY DeliveryInit
  <1>2. PrintfInv /\ Delivery /\ [PNext]_pvars => Delivery'
    BY DeliveryNext
  <1>3. PrintfInv /\ Delivery /\ (pc = "idle" => Says(call, sent)) => PrintsWhatItSays
    <2> SUFFICES ASSUME PrintfInv, Delivery, pc = "idle", Says(call, sent) PROVE PrintsWhatItSays
      BY DEF PrintsWhatItSays
    <2>1. sent = Text(call.fmt, call.args)
      BY SaysText DEF PrintfInv
    <2>2. /\ silent \subseteq blocked
          /\ stream \in silent => out = <<>>
          /\ stream \in blocked \ silent => CutShort(out, sent)
          /\ stream \notin blocked => out = sent
      BY DEF Delivery
    <2> HIDE DEF CutShort
    <2> QED  BY <2>1, <2>2 DEF PrintsWhatItSays
  <1> QED  BY <1>1, <1>2, <1>3, PrintfTyped, PrintfSaysFormat, PTL DEF PSpec
=============================================================================
