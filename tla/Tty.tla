-------------------------------- MODULE Tty --------------------------------
(***************************************************************************)
(* The line discipline of one terminal (tty.c): the input buffer that the  *)
(* receive interrupt fills and that readers drain, and the echo it sends   *)
(* to the port.  Module Sched has the threads; here a thread is only where *)
(* it stands in tty_readin, and whether the interrupt character has marked *)
(* it.  Module Serial puts the serial port behind it.                      *)
(***************************************************************************)
EXTENDS Naturals, Sequences, FiniteSets

CONSTANTS
  TTY_BUFIO_LEN,  \* bytes of the input buffer
  PRINTING,       \* characters that are echoed and stored as they are
  READ_LENS       \* lengths passed to tty_readin, one reader for each

ASSUME TtyAssumption ==
  /\ TTY_BUFIO_LEN \in Nat /\ TTY_BUFIO_LEN >= 2
  /\ READ_LENS \subseteq Nat
  /\ PRINTING \cap {"NUL", "LF", "CR", "DELETE", "EOT"} = {}

(* '\b' is handled like ASCII_DELETE, so DELETE stands for both. *)
Key == PRINTING \cup {"LF", "CR", "DELETE", "EOT"}
Char == PRINTING \cup {"NUL", "LF"}

(* A thread that reads the terminal is named by the length it reads with. *)
Reader == READ_LENS

VARIABLES
  buf, cursor, data_ready,  \* the fields of tty_t
  pc,        \* pc[r]: outside tty_readin, asleep in it, or woken from sleep()
  pending_sigint,           \* of the readers' tasks
  result,    \* what the read that has just returned gave, <<>> after a later step
  line,      \* history: the keys since the last read, with the deletions applied
  shown,     \* what the terminal shows of them in the row of its cursor
  dropped,   \* history: a character was echoed and not stored since the last read
  stray,     \* history: a deletion took an LF or a NUL off the buffer since the last read
  entered    \* history: line when it was ended, <<>> once a later key is echoed

typedVars == <<line, shown, dropped, stray, entered>>
ttyVars == <<buf, cursor, data_ready, pc, pending_sigint, result, typedVars>>

TypeOK ==
  /\ buf \in [0 .. TTY_BUFIO_LEN - 1 -> Char]
  /\ cursor \in 0 .. TTY_BUFIO_LEN - 1
  /\ data_ready \in BOOLEAN
  /\ pc \in [Reader -> {"outside", "asleep", "woken"}]
  /\ pending_sigint \in [Reader -> BOOLEAN]
  /\ result \in Seq(Char)
  /\ line \in Seq(Char)
  /\ shown \in Seq(PRINTING)
  /\ dropped \in BOOLEAN
  /\ stray \in BOOLEAN
  /\ entered \in Seq(Char)

tty_attach ==
  /\ buf = [i \in 0 .. TTY_BUFIO_LEN - 1 |-> "NUL"]
  /\ cursor = 0
  /\ data_ready = FALSE
  /\ pc = [r \in Reader |-> "outside"]
  /\ pending_sigint = [r \in Reader |-> FALSE]
  /\ result = <<>>
  /\ line = <<>>
  /\ shown = <<>>
  /\ dropped = FALSE
  /\ stray = FALSE
  /\ entered = <<>>

Text == [i \in 1 .. cursor |-> buf[i - 1]]

-----------------------------------------------------------------------------
(* tty_new_data, in the receive interrupt. *)

(* What the terminal shows after a character: an LF starts a new row, a NUL  *)
(* takes no cell.                                                            *)
Echo(row, c) == IF c = "LF" THEN <<>> ELSE IF c = "NUL" THEN row ELSE Append(row, c)

(* "\b \b" takes the last cell off the row, and does nothing in an empty     *)
(* one: it does not undo a newline.  (A display goes to the last cell of the *)
(* row above, whatever is there.  How a long line is wrapped is Display's.)  *)
EchoErase(row) == IF row = <<>> THEN row ELSE SubSeq(row, 1, Len(row) - 1)

(* Mutant: the deletion is not echoed. *)
Erase_without_echo ==
  \/ cursor = 0 /\ UNCHANGED <<buf, cursor, data_ready, pc, typedVars>>
  \/ /\ cursor > 0
     /\ buf' = [buf EXCEPT ![cursor] = "NUL"]
     /\ cursor' = cursor - 1
     /\ line' = SubSeq(line, 1, Len(line) - 1)
     /\ stray' = (stray \/ line[Len(line)] \notin PRINTING)
     /\ entered' = <<>>
     /\ UNCHANGED <<data_ready, pc, shown, dropped>>

(* ASCII_DELETE or '\b' takes the last character off the buffer, whatever it *)
(* is, and the last visible one off the terminal.                            *)
Erase ==
  \/ cursor = 0 /\ UNCHANGED <<buf, cursor, data_ready, pc, typedVars>>
  \/ /\ cursor > 0
     /\ buf' = [buf EXCEPT ![cursor] = "NUL"]
     /\ cursor' = cursor - 1
     /\ line' = SubSeq(line, 1, Len(line) - 1)
     /\ shown' = EchoErase(shown)
     /\ stray' = (stray \/ line[Len(line)] \notin PRINTING)
     /\ entered' = <<>>
     /\ UNCHANGED <<data_ready, pc, dropped>>

HasRoom == cursor < TTY_BUFIO_LEN - 1

CursorAfterStore == IF HasRoom THEN cursor + 1 ELSE cursor

(* Where the end of a line is stored: at the cursor if there is room, and   *)
(* also in the last byte, without being counted, if the buffer is then full. *)
LineEndAt ==
  (IF HasRoom THEN {cursor} ELSE {})
    \cup (IF CursorAfterStore = TTY_BUFIO_LEN - 1 THEN {TTY_BUFIO_LEN - 1} ELSE {})

wakeup == pc' = [r \in Reader |-> IF pc[r] = "asleep" THEN "woken" ELSE pc[r]]

(* Mutant: the sleeping readers are not woken. *)
StoreLineEnd_wakes_none ==
  /\ cursor' = CursorAfterStore
  /\ buf' = [i \in DOMAIN buf |-> IF i \in LineEndAt THEN "LF" ELSE buf[i]]
  /\ data_ready' = TRUE
  /\ line' = Append(line, "LF")
  /\ shown' = Echo(shown, "LF")
  /\ dropped' = (dropped \/ ~HasRoom)
  /\ entered' = line'
  /\ UNCHANGED <<pc, stray>>

(* '\n', or '\r' which becomes one: echoed, stored, and the readers are woken. *)
StoreLineEnd ==
  /\ cursor' = CursorAfterStore
  /\ buf' = [i \in DOMAIN buf |-> IF i \in LineEndAt THEN "LF" ELSE buf[i]]
  /\ data_ready' = TRUE
  /\ wakeup
  /\ line' = Append(line, "LF")
  /\ shown' = Echo(shown, "LF")
  /\ dropped' = (dropped \/ ~HasRoom)
  /\ entered' = line'
  /\ UNCHANGED stray

(* Any other character, NUL included: echoed, and stored while there is room. *)
StoreChar(c) ==
  /\ line' = Append(line, c)
  /\ shown' = Echo(shown, c)
  /\ \/ HasRoom /\ buf' = [buf EXCEPT ![cursor] = c] /\ cursor' = cursor + 1
     \/ ~HasRoom /\ UNCHANGED <<buf, cursor>>
  /\ dropped' = (dropped \/ ~HasRoom)
  /\ entered' = <<>>
  /\ UNCHANGED <<data_ready, pc, stray>>

(* Marks the tasks that are ready and have this terminal as standard input.   *)
(* A reader that was woken is ready, one that sleeps is not; of those outside *)
(* tty_readin only Sched knows, and only Files which file is standard input.  *)
task_interrupt_by_tty ==
  /\ \E hit \in SUBSET {r \in Reader : pc[r] # "asleep"} :
       pending_sigint' = [r \in Reader |-> pending_sigint[r] \/ r \in hit]
  /\ UNCHANGED <<buf, cursor, data_ready, pc, typedVars>>

tty_new_data(c) ==
  /\ \/ c = "EOT" /\ task_interrupt_by_tty
     \/ c = "DELETE" /\ Erase /\ UNCHANGED pending_sigint
     \/ c \in {"LF", "CR"} /\ StoreLineEnd /\ UNCHANGED pending_sigint
     \/ c \in PRINTING \cup {"NUL"} /\ StoreChar(c) /\ UNCHANGED pending_sigint
  /\ result' = <<>>

-----------------------------------------------------------------------------
(* tty_readin *)

(* Mutant: the copy starts behind the first character. *)
Drain_skips_first(n) ==
  LET count == IF n < cursor THEN n ELSE cursor
  IN  /\ result' = SubSeq(Text, 2, count)
      /\ data_ready' = FALSE
      /\ cursor' = 0
      /\ line' = <<>> /\ shown' = <<>> /\ dropped' = FALSE /\ stray' = FALSE /\ entered' = <<>>
      /\ UNCHANGED buf

(* The loop is left: the flag is cleared, up to n bytes are copied, and what *)
(* does not fit is thrown away.                                              *)
Drain(n) ==
  LET count == IF n < cursor THEN n ELSE cursor
  IN  /\ result' = SubSeq(Text, 1, count)
      /\ data_ready' = FALSE
      /\ cursor' = 0
      /\ line' = <<>> /\ shown' = <<>> /\ dropped' = FALSE /\ stray' = FALSE /\ entered' = <<>>
      /\ UNCHANGED buf

(* while (!self->data_ready) sleep(self); *)
ReadOrSleep(r) ==
  /\ \/ data_ready /\ Drain(r) /\ pc' = [pc EXCEPT ![r] = "outside"]
     \/ /\ ~data_ready
        /\ pc' = [pc EXCEPT ![r] = "asleep"]
        /\ result' = <<>>
        /\ UNCHANGED <<buf, cursor, data_ready, typedVars>>
  /\ UNCHANGED pending_sigint

tty_readin(r) == pc[r] = "outside" /\ ReadOrSleep(r)

(* A marked task exits when scheduler() has switched to it; another one may   *)
(* read the terminal in its place.                                            *)
task_handle_signals(r) ==
  /\ pending_sigint[r]
  /\ pending_sigint' = [pending_sigint EXCEPT ![r] = FALSE]
  /\ pc' = [pc EXCEPT ![r] = "outside"]
  /\ result' = <<>>
  /\ UNCHANGED <<buf, cursor, data_ready, typedVars>>

(* scheduler() comes back in sleep(): the task exits, or sleep() returns. *)
Resume(r) ==
  /\ pc[r] = "woken"
  /\ task_handle_signals(r) \/ (~pending_sigint[r] /\ ReadOrSleep(r))

(* scheduler() comes back anywhere else. *)
ResumeOutside(r) == pc[r] = "outside" /\ task_handle_signals(r)

-----------------------------------------------------------------------------
ReaderStep == \E r \in Reader : Resume(r) \/ ResumeOutside(r) \/ tty_readin(r)

-----------------------------------------------------------------------------
(* What is visible of a line s in its last row, by position; the cell in     *)
(* which the character at position i is; and whether row is that row.        *)
Visible(s) == {i \in 1 .. Len(s) : s[i] \in PRINTING /\ \A j \in i .. Len(s) : s[j] # "LF"}
Cell(s, i) == Cardinality({j \in Visible(s) : j <= i})
IsRow(row, s) ==
  /\ Len(row) = Cardinality(Visible(s))
  /\ \A i \in Visible(s) : row[Cell(s, i)] = s[i]

(* The terminal shows the last row of the line that was typed, and what a    *)
(* reader will get is that line: echo and buffer are edited together, behind *)
(* the end of a line too.  Two cases are excepted.  Once a deletion has taken *)
(* a newline or a NUL off the buffer, the terminal shows something else until *)
(* the next read; and once the buffer was full, characters may be shown and   *)
(* not stored, but never stored and not typed.                                *)
EchoMatchesLine ==
  /\ TypeOK
  /\ ~stray => IsRow(shown, line)
  /\ ~dropped => line = Text
  /\ cursor <= Len(line)

(* A line that was ended, with nothing typed behind it, is delivered whole  *)
(* and to one reader: the step that clears data_ready returns it, if its    *)
(* buffer takes it, and leaves nothing for the next reader.                 *)
DeliverStep ==
  (data_ready /\ ~data_ready')
    => /\ cursor' = 0
       /\ (entered # <<>> /\ ~dropped)
            => \E r \in Reader :
                 /\ pc'[r] = "outside"
                 /\ result' = SubSeq(entered, 1, IF r < Len(entered) THEN r ELSE Len(entered))

LineIsDelivered == [][DeliverStep]_ttyVars

(* A line does not stay in the buffer while somebody waits for one, unless  *)
(* the interrupt character hits him before he has read it.                   *)
WaitedLineIsRead ==
  \A r \in Reader : (data_ready /\ pc[r] # "outside") ~> (~data_ready \/ pending_sigint[r])
=============================================================================
