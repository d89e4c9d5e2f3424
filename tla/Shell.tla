-------------------------------- MODULE Shell --------------------------------
(***************************************************************************)
(* init's loop and the system call it waits in: sys_read edits the line    *)
(* and echoes it over the serial line, character by character, and the     *)
(* shell ends the string, compares it with its commands, and answers.      *)
(* Keyboard models how a character gets here, and Console what is shown.   *)
(*                                                                         *)
(* At the other end of the serial line is a terminal, of which the row the *)
(* cursor is in matters.  Its rows end: a character in the last column     *)
(* leaves the cursor waiting at the margin, and only the next one begins a *)
(* row.  A tab moves the cursor to a tab stop; behind an escape nothing is *)
(* said of it any more.                                                    *)
(***************************************************************************)
EXTENDS Console, FiniteSets, FiniteSetsExt

CONSTANTS
  LEN,        \* init.c:64, 127
  Char,       \* what the key map delivers, but for newline and backspace
  Boot,       \* what kmain and the shell print before the first prompt
  Prompt,     \* a sequence of them
  Replies,    \* what the commands answer: texts by command; exit and clear
              \* are not among them
  Ls,         \* the command whose reply may be any of Listings
  Listings,
  Exit, Clear,
  WIDTH,      \* columns of the terminal: 80
  TABS,       \* from one of its tab stops to the next: 8
  MaxTyped    \* bound: keys

HOME == "home"      \* the two escape sequences of the clear command
NUL  == "nul"
TAB  == "tab"
ESC  == "esc"

ASSUME ShellAssumption ==
  /\ LEN \in Nat \ {0} /\ MaxTyped \in Nat
  /\ WIDTH \in Nat \ {0} /\ TABS \in Nat \ {0}
  /\ Char \subseteq STRING \ {NL, CR, BS, HOME, NUL}
  /\ Prompt \in Seq(STRING \ {NL, CR, BS, HOME, TAB, ESC})
  /\ \A text \in {Replies[c] : c \in DOMAIN Replies} \cup Listings \cup {Boot} :
       text \in Seq(STRING \ {CR}) /\ (text = <<>> \/ text[Len(text)] = NL)
  /\ \A c \in DOMAIN Replies \cup {Ls, Exit, Clear} : c \in Seq(Char) /\ Len(c) < LEN - 1

VARIABLES
  pc,         \* "boot", "banner", "prompt", "read", "run" or "exited"
  buf,        \* the shell's buffer, one byte more than it asks for
  written,    \* sys_read's count; at its end what it returns
  terminal,   \* the row the cursor is in, and its column: WIDTH at the margin
  typed,      \* history: the characters sys_read was given
  ends,       \* history: how many there were each time it returned
  ran         \* history: the strings the shell compared with its commands

shell_vars == <<console, pc, buf, written, terminal, typed, ends, ran>>

TopLeft  == [row |-> <<>>, col |-> 0]
Anything == [row |-> <<>>, col |-> -1]   \* after an escape

(* The buffer is on a stack that was used before. *)
ShellInit ==
  /\ ConsoleInit
  /\ pc = "boot"
  /\ buf \in {[k \in 0 .. LEN |-> junk] : junk \in {NUL} \cup Char}
  /\ written = 0
  /\ terminal = TopLeft
  /\ typed = <<>> /\ ends = <<>> /\ ran = <<>>

(* What a byte does to the terminal. *)
Put(t, c) ==
  [row |-> [k \in 1 .. Max({Len(t.row), t.col + 1}) |->
              IF k = t.col + 1 THEN c ELSE
              IF k <= Len(t.row) THEN t.row[k] ELSE Blank],
   col |-> t.col + 1]

NextStop(col) == Min({k \in col + 1 .. WIDTH - 1 : k % TABS = 0} \cup {WIDTH - 1})

Moves(t, c) ==
  CASE c = ESC \/ t = Anything -> Anything
    [] OTHER ->
       CASE c = CR   -> [t EXCEPT !.col = 0]
         [] c = NL   -> [t EXCEPT !.row = <<>>]
         [] c = HOME -> TopLeft
         [] c = BS   -> [t EXCEPT !.col = Max({Min({@, WIDTH - 1}) - 1, 0})]
         [] c = TAB  -> [t EXCEPT !.col = NextStop(@)]
         [] OTHER    -> Put(IF t.col = WIDTH THEN TopLeft ELSE t, c)

receive(text) ==
  LET bytes == serial_printf(text)
      shown[k \in 0 .. Len(bytes)] == IF k = 0 THEN terminal ELSE Moves(shown[k - 1], bytes[k])
  IN terminal' = shown[Len(bytes)]

write(text) == sys_write(text) /\ receive(text)
echo(text)  == kprintf(text) /\ receive(text)

-----------------------------------------------------------------------------
kmain_clears ==
  /\ pc = "boot"
  /\ kcls
  /\ pc' = "banner"
  /\ UNCHANGED <<buf, written, terminal, typed, ends, ran>>

banner ==
  /\ pc = "banner"
  /\ echo(Boot)
  /\ pc' = "prompt"
  /\ UNCHANGED <<buf, written, typed, ends, ran>>

(* write_string("zepto> "), and the call. *)
prompt ==
  /\ pc = "prompt"
  /\ write(Prompt)
  /\ written' = 0
  /\ pc' = "read"
  /\ UNCHANGED <<buf, typed, ends, ran>>

(* Mutant: it does not look whether there is anything to erase. *)
backspace_Always ==
  /\ written' = Max({written - 1, 0})
  /\ echo(<<BS, Blank, BS>>)
  /\ UNCHANGED <<pc, buf, ends>>

backspace ==
  /\ IF written > 0 THEN written' = written - 1 /\ echo(<<BS, Blank, BS>>)
                    ELSE UNCHANGED <<console, written, terminal>>
  /\ UNCHANGED <<pc, buf, ends>>

(* Any other character is stored and echoed; a newline ends the call, and  *)
(* so does the last byte of the buffer.                                    *)
store(c) ==
  /\ buf' = [buf EXCEPT ![written] = c]
  /\ written' = written + 1
  /\ echo(<<c>>)
  /\ IF c = NL \/ written' = LEN
     THEN pc' = "run" /\ ends' = Append(ends, Len(typed'))
     ELSE UNCHANGED <<pc, ends>>

(* A round of sys_read's loop. *)
read_key(c) ==
  /\ pc = "read"
  /\ Len(typed) < MaxTyped
  /\ typed' = Append(typed, c)
  /\ IF c = BS THEN backspace ELSE store(c)
  /\ UNCHANGED ran

(* Mutant: the end is put behind the newline. *)
terminated_Behind ==
  LET b == [buf EXCEPT ![written] = NUL] IN
  IF written > 1 /\ b[written - 2] = CR THEN [b EXCEPT ![written - 2] = NUL] ELSE b

(* buf[len - 1] = '\0': where the newline is; and a carriage return before *)
(* it goes too, though the key map has none.  The test for len <= 0 never  *)
(* holds: sys_read returns when it has stored a byte.                      *)
terminated ==
  LET b == [buf EXCEPT ![written - 1] = NUL] IN
  IF written > 1 /\ b[written - 2] = CR THEN [b EXCEPT ![written - 2] = NUL] ELSE b

String(b) == LET end == Min({k \in DOMAIN b : b[k] = NUL}) IN [k \in 1 .. end |-> b[k - 1]]

Unknown(command) == <<"?">> \o command \o <<NL>>

reply(command) ==
  \/ command = <<>> /\ UNCHANGED <<console, terminal>>
  \/ command = Clear /\ write(<<HOME>>)
  \/ command = Ls /\ \E text \in Listings : write(text)
  \/ command \in DOMAIN Replies /\ write(Replies[command])
  \/ command = Exit /\ write(<<"!", NL>>)
  \/ command \notin DOMAIN Replies \cup {<<>>, Clear, Ls, Exit} /\ write(Unknown(command))

(* The rest of the loop: the string is ended, compared, and answered. *)
run ==
  /\ pc = "run"
  /\ buf' = terminated
  /\ ran' = Append(ran, String(buf'))
  /\ reply(String(buf'))
  /\ pc' = IF String(buf') = Exit THEN "exited" ELSE "prompt"
  /\ UNCHANGED <<written, typed, ends>>

(* Waiting for a key, and the loop after exit. *)
spin == pc \in {"read", "exited"} /\ UNCHANGED shell_vars

ShellNext == kmain_clears \/ banner \/ prompt \/ (\E c \in Char \cup {NL, BS} : read_key(c)) \/ run \/ spin

ShellSpec == ShellInit /\ [][ShellNext]_shell_vars

-----------------------------------------------------------------------------
(* The characters of a sequence that its backspaces leave: one is erased   *)
(* by the first backspace to which nothing in between is left to erase.    *)
Count(s, from, to, isBs) ==
  Cardinality({k \in from .. to : (s[k] = BS) = isBs})

Erased(s, i) ==
  \E j \in i + 1 .. Len(s) :
    s[j] = BS /\ Count(s, i + 1, j - 1, TRUE) = Count(s, i + 1, j - 1, FALSE)

Kept(s) ==
  LET left == {i \in 1 .. Len(s) : s[i] # BS /\ ~ Erased(s, i)} IN
  [n \in 1 .. Cardinality(left) |->
     s[CHOOSE i \in left : Cardinality({k \in left : k <= i}) = n]]

(* What was typed into call n. *)
Input(n) == SubSeq(typed, IF n = 1 THEN 1 ELSE ends[n - 1] + 1, ends[n])

(* The shell runs what was typed: a call ends with the first newline, and  *)
(* the string compared is what the backspaces left before it, whatever was *)
(* in the buffer.  Only a line that fills the buffer is cut: its last      *)
(* character is lost, and what follows is a line of its own.               *)
RunsWhatWasTyped ==
  \A n \in 1 .. Len(ran) :
    LET s == Input(n) IN
    /\ \A i \in 1 .. Len(s) - 1 : s[i] # NL
    /\ \A i \in 1 .. Len(s) - 1 : Len(Kept(SubSeq(s, 1, i))) < LEN
    /\ s[Len(s)] = NL \/ Len(Kept(s)) = LEN
    /\ ran[n] = SubSeq(Kept(s), 1, Len(Kept(s)) - 1)

(* Where the line that is being typed begins, and the line. *)
Start == IF ends = <<>> THEN 0 ELSE ends[Len(ends)]
Line  == SubSeq(typed, Start + 1, Len(typed))

(* Keys that the echo of a backspace can undo: no tab, and the cursor has  *)
(* never been at the margin.                                               *)
InRow(keys) ==
  /\ \A i \in 1 .. Len(keys) : keys[i] # TAB
  /\ \A i \in 0 .. Len(keys) : Len(Prompt) + Len(Kept(SubSeq(keys, 1, i))) < WIDTH

NoEscapeSent == \A k \in 1 .. Len(wire) : wire[k] # ESC

(* While a line without tabs and shorter than a row is typed, the terminal *)
(* shows the prompt and what is in the buffer, with the cursor behind it:  *)
(* no backspace erases less or more on the screen than in the buffer, nor  *)
(* a character of the prompt.  And the prompt always begins a row, also    *)
(* after a line that was cut, had tabs, or went past the margin.           *)
(*                                                                         *)
(* That is all "\b \b" is good for: it takes back one column of a row.  Of *)
(* a tab it leaves the rest of the columns skipped; at the margin it       *)
(* erases the character before the last, and behind the margin it stays in *)
(* the new row.  Once an escape was echoed, or answered in "Unknown        *)
(* command", the terminal may show anything.                               *)
TerminalShowsPlainLine ==
  LET line == Prompt \o [k \in 1 .. written |-> buf[k - 1]] IN
  NoEscapeSent =>
    /\ pc = "prompt" => terminal = TopLeft
    /\ pc = "read" /\ InRow(Line) =>
         /\ terminal.col = Len(line)
         /\ SubSeq(terminal.row, 1, Len(line)) = line
         /\ \A k \in Len(line) + 1 .. Len(terminal.row) : terminal.row[k] = Blank

(* Screen and serial line carry the same text, whatever mix of answers,    *)
(* echoes and boot messages it is: the cursor reaches the end of a row by  *)
(* a character or by a newline, and the screen scrolls exactly once.       *)
ScreenShowsWire == pc # "boot" => Shows(screen, wire)
=============================================================================
