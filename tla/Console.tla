------------------------------- MODULE Console -------------------------------
(***************************************************************************)
(* The console: kernel/core/vga.c and serial.c.  kprintf first sends the   *)
(* whole string to the serial line and then walks it again for the screen. *)
(* Nothing comes between: kmain prints before it enables interrupts, and   *)
(* system calls run without.  So a call is one step of whoever makes it.   *)
(*                                                                         *)
(* A cell of the screen is the character in it; its colour never changes.  *)
(***************************************************************************)
EXTENDS Integers, Sequences

CONSTANTS
  ROWS, COLS   \* 25 and 80

ASSUME ConsoleAssumption == ROWS \in Nat \ {0, 1} /\ COLS \in Nat \ {0}

NL == "nl"
CR == "cr"
BS == "bs"
Blank == " "

CellNo == 0 .. ROWS * COLS - 1

VARIABLES
  screen,   \* vga, the cells, and the cursor as an index into them
  wire      \* history: all bytes sent over the serial line

console == <<screen, wire>>

(* The screen as the boot loader left it. *)
ConsoleInit ==
  /\ screen = [vga |-> [c \in CellNo |-> "junk"], cursor |-> 0]
  /\ wire = <<>>

kcls ==
  /\ screen' = [vga |-> [c \in CellNo |-> Blank], cursor |-> 0]
  /\ UNCHANGED wire

-----------------------------------------------------------------------------
(* The bytes a string becomes on the serial line. *)
serial_printf(str) ==
  LET sent[k \in 0 .. Len(str)] ==
        IF k = 0 THEN <<>>
        ELSE sent[k - 1] \o (IF str[k] = NL THEN <<CR, NL>> ELSE <<str[k]>>)
  IN sent[Len(str)]

(* Mutant: the last row keeps what it was. *)
scroll_NoClear(vga) ==
  [vga    |-> [c \in CellNo |-> IF c < (ROWS - 1) * COLS THEN vga[c + COLS] ELSE vga[c]],
   cursor |-> (ROWS - 1) * COLS]

(* What is on the screen moves up by a row. *)
scroll(vga) ==
  [vga    |-> [c \in CellNo |-> IF c < (ROWS - 1) * COLS THEN vga[c + COLS] ELSE Blank],
   cursor |-> (ROWS - 1) * COLS]

newline(s) ==
  LET row == s.cursor \div COLS IN
  IF row >= ROWS - 1 THEN scroll(s.vga) ELSE [s EXCEPT !.cursor = (row + 1) * COLS]

put(s, c) ==
  LET vga == [s.vga EXCEPT ![s.cursor] = c] IN
  IF s.cursor + 1 >= ROWS * COLS THEN scroll(vga) ELSE [vga |-> vga, cursor |-> s.cursor + 1]

(* tty_write has no case for a backspace or an escape: they are glyphs.    *)
tty_write(s, str) ==
  LET shown[k \in 0 .. Len(str)] ==
        IF k = 0 THEN s
        ELSE IF str[k] = NL THEN newline(shown[k - 1]) ELSE put(shown[k - 1], str[k])
  IN shown[Len(str)]

kprintf(str) ==
  /\ wire' = wire \o serial_printf(str)
  /\ screen' = tty_write(screen, str)

(* Every byte of the buffer is printed as a string of its own; none that a *)
(* program writes is a NUL, which would end its string and print nothing.  *)
sys_write(buf) == kprintf(buf)

-----------------------------------------------------------------------------
(* The screen is the last ROWS rows of an endless sheet on which the bytes *)
(* sent over the serial line are written: rows end at a newline or when    *)
(* they are full, and rows are cut off at the top only when the cursor     *)
(* needs a row at the bottom, whichever way it got there.  The carriage    *)
(* return in front of each newline is the driver's own.                    *)
Shows(s, sent) ==
  LET next(cell, c) == CASE c = CR -> cell
                         [] c = NL -> (cell \div COLS + 1) * COLS
                         [] OTHER  -> cell + 1
      at[k \in 0 .. Len(sent)] == IF k = 0 THEN 0 ELSE next(at[k - 1], sent[k])
      row   == at[Len(sent)] \div COLS   \* of the cursor, behind the last byte
      top   == IF row >= ROWS THEN (row - ROWS + 1) * COLS ELSE 0
      in(c) == {k \in DOMAIN sent : sent[k] \notin {CR, NL} /\ at[k - 1] = top + c}
  IN
  /\ s.cursor = at[Len(sent)] - top
  /\ \A c \in CellNo : IF in(c) = {} THEN s.vga[c] = Blank ELSE \A k \in in(c) : s.vga[c] = sent[k]
=============================================================================
