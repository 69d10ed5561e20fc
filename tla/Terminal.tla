------------------------------- MODULE Terminal -------------------------------
(***************************************************************************)
(* The text screen of arch/i386/tty.c: a buffer of Width * Height cells,   *)
(* the place of the next character, and the hardware cursor.               *)
(*                                                                         *)
(* column may equal Width: a full line is only left when the next          *)
(* character comes.  A tab prints its blanks through terminal_putchar(),   *)
(* which is why the characters still to be written are part of the state.  *)
(*                                                                         *)
(* Of a character a cell keeps whether there is ink on it; colours, which  *)
(* nothing in the kernel changes, are left out.                            *)
(***************************************************************************)
EXTENDS Integers, Sequences

CONSTANTS Width, Height, TabLength

ASSUME TerminalAssumption ==
  /\ Width \in Nat \ {0} /\ Height \in Nat \ {0}
  /\ TabLength \in 1..Width /\ Width % TabLength = 0

Newline == "\n"
Return  == "\r"
Tab     == "\t"
Pad     == "pad"        \* a blank that terminal_putchar() prints for a tab
Blank   == " "

Inks   == {" ", "x"}
Ink(c) == IF c \in {Blank, Pad} THEN " " ELSE "x"

VARIABLES row, column,      \* terminal_row, terminal_column
          cells,            \* terminal_buffer
          cursor            \* <<terminal_curser_x, terminal_curser_y>>

screen == <<row, column, cells, cursor>>

Index(x, y) == y * Width + x
Indices     == 0..(Width * Height - 1)
BlankCells  == [i \in Indices |-> Ink(Blank)]

terminal_initialize == /\ row = 0 /\ column = 0
                       /\ cells = BlankCells
                       /\ cursor = <<0, 0>>

\* Mutant: the line scrolled in keeps what the last line held.
KeptScroll == [i \in Indices |-> IF i + Width \in Indices THEN cells[i + Width]
                                 ELSE cells[i]]

Scrolled == [i \in Indices |-> IF i + Width \in Indices THEN cells[i + Width]
                               ELSE Ink(Blank)]

\* Mutant: the screen scrolls one line too late.
LateRow == IF row = Height THEN row ELSE row + 1

\* Row and cells after terminal_newline().
NextRow   == IF row + 1 = Height THEN row ELSE row + 1
NextCells == IF row + 1 = Height THEN Scrolled ELSE cells

terminal_newline == row' = NextRow /\ column' = 0 /\ cells' = NextCells

\* terminal_putentryat() into the cells cs.
Entry(cs, c, x, y) == [cs EXCEPT ![Index(x, y)] = Ink(c)]

PutPlain(c) ==
  IF column = Width
  THEN row' = NextRow /\ column' = 1 /\ cells' = Entry(NextCells, c, 0, NextRow)
  ELSE /\ cells' = Entry(cells, c, column, row)
       /\ column' = column + 1
       /\ UNCHANGED row

Padding == TabLength - (column % TabLength)

\* terminal_putchar() of any character but a tab, whose blanks come one by one.
terminal_putchar(c) ==
  CASE c = Newline -> terminal_newline
    [] c = Return  -> column' = 0 /\ UNCHANGED <<row, cells>>
    [] OTHER       -> PutPlain(c)

\* terminal_updatecurser() with the row and the column a step leaves.
terminal_updatecurser == cursor' = <<column', row'>>

ScreenType == /\ row \in 0..(Height - 1)
              /\ column \in 0..Width
              /\ cells \in [Indices -> Inks]
              /\ cursor \in (0..Width) \X (0..(Height - 1))
===============================================================================
