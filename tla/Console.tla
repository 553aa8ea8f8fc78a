------------------------------- MODULE Console -------------------------------
(***************************************************************************)
(* The console of the cons server in cooked mode, with the terminal at the *)
(* other end of the line: cooked_read edits a line as its keys come in and *)
(* echoes what keeps the terminal in step, write prints.  The server does  *)
(* nothing else while a read waits for keys, so a key is one action.  Who  *)
(* reads and writes is in Terminal.                                        *)
(*                                                                         *)
(* The terminal is the row the cursor is in: characters, the row's column, *)
(* and the control sequences that the console sends.                       *)
(***************************************************************************)
EXTENDS Integers, Sequences, FiniteSetsExt, SequencesExt

CONSTANTS
  Typed,     \* the printable keys that are pressed outside a sequence
  Coded,     \* the keys that are pressed after ESC
  MaxSizes,  \* the sizes of the buffers that readers bring
  MaxLine,   \* bound: longest line
  MaxEsc,    \* bound: longest escape sequence
  MaxPrompt, \* bound: longest prompt a program writes in front of a line
  Width      \* where the terminal stops a cursor that moves right

ASSUME ConsoleAssumption == MaxSizes \subseteq Nat /\ Width \in Nat

VARIABLES
  buffer, cursor_pos, esc_buffer, \* as in the console; esc = (esc_buffer # <<>>)
  status,    \* idle | reading | undefined (reads and writes outside buffer)
  max_size,  \* of the read that is waiting, or 0
  given,     \* what a read has copied for its caller
  row, col,  \* the terminal
  start,     \* history: the column the line that is edited starts at
  cut        \* history: a line ended inside an escape sequence

console  == <<buffer, cursor_pos, esc_buffer>>
terminal == <<row, col>>
history  == <<start, cut>>
vars == <<console, status, max_size, given, terminal, history>>

Esc == "ESC"
Enter == "CR"
Newline == "LF"
Blank == " "
DigitValue(ch) == CASE ch = "0" -> 0 [] ch = "1" -> 1 [] ch = "2" -> 2 [] OTHER -> 9
Digit == {"0", "1", "2"}

-----------------------------------------------------------------------------
(* The terminal.                                                           *)

\* Row r after the characters s are printed from column c on.
Printed(r, c, s) ==
  [i \in 1 .. Max({Len(r), c + Len(s)}) |->
     IF i \in c + 1 .. c + Len(s) THEN s[i - c]
     ELSE IF i <= Len(r) THEN r[i] ELSE Blank]

\* s is printed at the cursor, which then goes back by n columns.
Echo(s, n) == row' = Printed(row, col, s) /\ col' = col + Len(s) - n

\* The cursor goes back one, s is printed and the cursor goes back n.
EchoBack(s, n) == row' = Printed(row, col - 1, s) /\ col' = col - 1 + Len(s) - n

EchoNewline == row' = <<>> /\ col' = 0

-----------------------------------------------------------------------------
(* The line editor.                                                        *)

\* What is right of the cursor, and the buffer with ch put in, or with the
\* character left of the cursor gone.
Rest == SubSeq(buffer, cursor_pos + 1, Len(buffer))

Reading == status = "reading"
Plain   == Reading /\ esc_buffer = <<>>

\* Mutant: the cursor does not come back over the rest of the line.
BugTypeEcho(ch) == Echo(<<ch>> \o Rest, 0)
TypeEcho(ch) == Echo(<<ch>> \o Rest, Len(Rest))

Type(ch) ==
  /\ Plain /\ Len(buffer) < MaxLine
  /\ IF cursor_pos <= Len(buffer)
     THEN /\ buffer' = InsertAt(buffer, cursor_pos + 1, ch)
          /\ cursor_pos' = cursor_pos + 1
          /\ TypeEcho(ch)
          /\ UNCHANGED status
     ELSE /\ status' = "undefined"
          /\ UNCHANGED <<buffer, cursor_pos, terminal>>
  /\ UNCHANGED <<esc_buffer, max_size, given, history>>

Backspace ==
  /\ Plain
  /\ \/ /\ cursor_pos > 0 /\ cursor_pos < Len(buffer)
        /\ EchoBack(Rest \o <<Blank>>, Len(Rest) + 1)
        /\ buffer' = RemoveAt(buffer, cursor_pos)
        /\ cursor_pos' = cursor_pos - 1
     \/ /\ cursor_pos > 0 /\ cursor_pos >= Len(buffer) /\ buffer # <<>>
        /\ EchoBack(<<Blank>>, 1)
        /\ buffer' = Front(buffer)
        /\ cursor_pos' = cursor_pos - 1
  /\ UNCHANGED <<esc_buffer, status, max_size, given, history>>

\* Mutant: what does not fit the reader's buffer is dropped.
BugDeliver(line, size) ==
  /\ buffer' = <<>>
  /\ given' = SubSeq(line, 1, Min({size, Len(line)}))
  /\ status' = "idle" /\ max_size' = 0 /\ start' = 0

\* The reader gets the head of the line.
Deliver(line, size) ==
  LET n == Min({size, Len(line)}) IN
  /\ buffer' = SubSeq(line, n + 1, Len(line))
  /\ given' = SubSeq(line, 1, n)
  /\ status' = "idle" /\ max_size' = 0 /\ start' = 0

EndLine ==
  /\ Plain
  /\ EchoNewline
  /\ cursor_pos' = 0
  /\ Deliver(Append(buffer, Newline), max_size)
  /\ cut' = FALSE
  /\ UNCHANGED esc_buffer

Escape ==
  /\ Plain
  /\ esc_buffer' = <<Esc>>
  /\ UNCHANGED <<buffer, cursor_pos, status, max_size, given, terminal, history>>

\* The number that digits spell.
Number(digits) ==
  LET value[n \in 0 .. Len(digits)] ==
        IF n = 0 THEN 0 ELSE 10 * value[n - 1] + DigitValue(digits[n])
  IN value[Len(digits)]

\* The number between ESC [ and the final character, 1 if there is none.
Count ==
  LET digits == SubSeq(esc_buffer, 3, Len(esc_buffer)) IN
  IF digits = <<>> THEN 1 ELSE Number(digits)

\* Mutant: the cursor may be moved behind the line.
BugMoveRight == cursor_pos' = cursor_pos + Count /\ col' = col + Count

\* A cursor that is behind the line comes back to its end, by a difference
\* that has wrapped around; the terminal goes as far as it can.
MoveRight ==
  /\ cursor_pos' = Min({cursor_pos + Count, Len(buffer)})
  /\ col' = IF cursor_pos' >= cursor_pos THEN col + cursor_pos' - cursor_pos ELSE Width

MoveLeft ==
  LET n == Min({Count, cursor_pos}) IN cursor_pos' = cursor_pos - n /\ col' = Max({0, col - n})

\* A key inside an escape sequence.  An end of line there ends the sequence
\* and the read with it, and leaves the line as it is.
EscapeKey(ch) ==
  LET seq == Append(esc_buffer, ch)
      more == seq = <<Esc, "[">> \/ (Len(seq) > 2 /\ ch \in Digit)
  IN
  /\ Reading /\ esc_buffer # <<>>
  /\ more => Len(seq) < MaxEsc
  /\ esc_buffer' = IF more THEN seq ELSE <<>>
  /\ IF Len(seq) > 2 /\ ch = "C" THEN MoveRight
     ELSE IF Len(seq) > 2 /\ ch = "D" THEN MoveLeft
     ELSE UNCHANGED <<cursor_pos, col>>
  /\ IF ch = Enter
     THEN cut' = TRUE /\ Deliver(buffer, max_size)
     ELSE UNCHANGED <<cut, buffer, given, status, max_size, start>>
  /\ UNCHANGED row

-----------------------------------------------------------------------------
(* The calls.                                                              *)

\* read returns what is left of the last line, or waits for a new one.
Read(size) ==
  /\ status = "idle"
  /\ IF buffer = <<>>
     THEN /\ status' = "reading" /\ max_size' = size /\ start' = col
          /\ UNCHANGED <<console, cut, given>>
     ELSE /\ Deliver(buffer, size)
          /\ UNCHANGED <<cursor_pos, esc_buffer, cut>>
  /\ UNCHANGED terminal

Write(ch) ==
  /\ status = "idle"
  /\ IF ch = Newline THEN EchoNewline ELSE col < MaxPrompt /\ Echo(<<ch>>, 0)
  /\ UNCHANGED <<console, status, max_size, given, history>>

Init ==
  /\ buffer = <<>> /\ cursor_pos = 0 /\ esc_buffer = <<>>
  /\ status = "idle" /\ max_size = 0 /\ given = <<>>
  /\ row = <<>> /\ col = 0
  /\ start = 0 /\ cut = FALSE

\* A key that leaves the line open.
Edit ==
  \/ \E ch \in Typed : Type(ch)
  \/ Backspace
  \/ Escape
  \/ \E ch \in Coded \ {Enter} : EscapeKey(ch)

\* A key that ends it.
End == EndLine \/ EscapeKey(Enter)

-----------------------------------------------------------------------------

\* While a line is edited the terminal shows it, behind the prompt, and has
\* its cursor where the console has its own: whatever was typed, erased or
\* put in, and wherever the cursor has been moved.
ScreenShowsLine ==
  Reading /\ ~cut =>
    /\ col = start + cursor_pos
    /\ Len(row) >= start + Len(buffer)
    /\ \A i \in 1 .. Len(row) :
         row[i] = IF i <= start THEN "p"
                  ELSE IF i <= start + Len(buffer) THEN buffer[i - start]
                  ELSE Blank

\* The editor works inside its buffer: after any keys, over any number of
\* lines, unless an end of line inside an escape sequence has left it with
\* the cursor of a line that is gone.
EditsInsideLine ==
  status = "undefined" \/ cursor_pos > Len(buffer) => cut
=============================================================================
