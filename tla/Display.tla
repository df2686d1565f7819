------------------------------ MODULE Display ------------------------------
(***************************************************************************)
(* The virtual displays (display.c, vuart.c): the text buffer and cursor of *)
(* each display, the dirty marks that tell the renderer thread what to     *)
(* repaint, and the one framebuffer they share.  A cell of the frame is    *)
(* one character wide and high.  Output comes from system calls, echo and  *)
(* printf while the renderer sleeps or waits to be scheduled.              *)
(***************************************************************************)
EXTENDS Naturals, Sequences

CONSTANTS
  NUM_DISPLAYS,
  textwidth, textheight,  \* the last line of the frame is the status line
  PRINTING,               \* characters that take a cell
  PANIC_MESSAGES,         \* what a panic prints
  MAX_POS                 \* bound: cells of output to each display since it was cleared

ASSUME DisplayAssumption ==
  /\ NUM_DISPLAYS \in Nat \ {0}
  /\ textwidth \in Nat \ {0}
  /\ textheight \in Nat /\ textheight >= 2
  /\ MAX_POS \in [1 .. NUM_DISPLAYS -> Nat]
  /\ PANIC_MESSAGES \subseteq Seq(PRINTING \cup {"LF"})
  /\ PRINTING \cap {"NUL", "BS", "LF", "CR", "block", "status", "boot"} = {}

Display == 1 .. NUM_DISPLAYS
Cell == 0 .. textwidth * textheight - 1
Glyph == PRINTING \cup {"NUL"}           \* NUL is drawn like an erased cell
Line(i) == i \div textwidth

VARIABLES
  g_display,       \* [textbuf, cursor, is_dirty, needs_full_repaint, last_clean_line]
  active_display,
  frame,           \* what each cell of the framebuffer shows
  renderer,        \* the renderer thread: "asleep" on active_display or "ready"
  mode,            \* "run", "halted" after a panic, or "overrun" after a repaint
                   \* that wrote behind the framebuffer
  paper,           \* history: per display the output since it was cleared, laid out
                   \* on paper of textwidth columns, where the next character goes,
                   \* and how many lines have left the screen
  cleared,         \* history: displays cleared since they were last repainted
  missed           \* history: displays with a change outside the lines to be repainted

vars == <<g_display, active_display, frame, renderer, mode, paper, cleared, missed>>

TypeOK ==
  /\ g_display \in [Display -> [textbuf : [Cell -> Glyph], cursor : Nat, is_dirty : BOOLEAN,
                                needs_full_repaint : BOOLEAN, last_clean_line : Nat]]
  /\ active_display \in Display
  /\ frame \in [Cell -> Glyph \cup {"block", "status", "boot"}]
  /\ renderer \in {"asleep", "ready"}
  /\ mode \in {"run", "halted", "overrun"}
  /\ paper \in [Display -> [cells : Seq(Glyph), pos : Nat, top : Nat]]
  /\ cleared \subseteq Display
  /\ missed \subseteq Display

Blank == [i \in Cell |-> "NUL"]
NewPaper == [cells |-> <<>>, pos |-> 0, top |-> 0]

(* init_display, and the renderer thread before its first run. *)
init_display ==
  /\ g_display = [d \in Display |->
       [textbuf |-> Blank, cursor |-> 0, is_dirty |-> FALSE, needs_full_repaint |-> FALSE,
        last_clean_line |-> 0]]
  /\ active_display = 1
  /\ frame = [i \in Cell |-> "boot"]
  /\ renderer = "ready"
  /\ mode = "run"
  /\ paper = [d \in Display |-> NewPaper]
  /\ cleared = {}
  /\ missed = Display

-----------------------------------------------------------------------------
(* The reference: the same output on paper that never runs out. *)

At(p, i) == IF i < Len(p.cells) THEN p.cells[i + 1] ELSE "NUL"

(* The lines that must leave the screen for position i to be above the status line. *)
TopFor(p, i) ==
  IF Line(i) < p.top + textheight - 1 THEN p.top ELSE Line(i) - (textheight - 2)

Printed(p, c) ==
  CASE c = "BS" -> [p EXCEPT !.pos = IF @ > p.top * textwidth THEN @ - 1 ELSE @]
    [] c = "LF" -> [p EXCEPT !.pos = (Line(@) + 1) * textwidth]
    [] OTHER -> LET size == IF p.pos < Len(p.cells) THEN Len(p.cells) ELSE p.pos + 1
                IN  [cells |-> [i \in 1 .. size |-> IF i = p.pos + 1 THEN c ELSE At(p, i - 1)],
                     pos |-> p.pos + 1,
                     top |-> TopFor(p, p.pos)]

-----------------------------------------------------------------------------
(* display_putc on the state s of one display. *)

Mark(s) ==
  [s EXCEPT !.last_clean_line = IF s.is_dirty THEN @ ELSE Line(s.cursor), !.is_dirty = TRUE]

Backspace(s) == [s EXCEPT !.cursor = IF @ > 0 THEN @ - 1 ELSE 0]

Newline(s) == [s EXCEPT !.cursor = textwidth * (1 + Line(@))]

(* Mutant: one line too few is copied up. *)
display_scroll_up_short(s) ==
  [s EXCEPT !.textbuf = [i \in Cell |-> IF i < textwidth * (textheight - 2) THEN @[i + textwidth] ELSE @[i]],
            !.cursor = @ - textwidth,
            !.last_clean_line = 0]

display_scroll_up(s) ==
  [s EXCEPT !.textbuf = [i \in Cell |-> IF i < textwidth * (textheight - 1) THEN @[i + textwidth] ELSE @[i]],
            !.cursor = @ - textwidth,
            !.last_clean_line = 0]

(* How often the loop before the store calls display_scroll_up. *)
LinesBelow(s) ==
  IF Line(s.cursor) >= textheight - 1 THEN Line(s.cursor) - (textheight - 2) ELSE 0

Scrolled(s) ==
  LET up[n \in 0 .. LinesBelow(s)] == IF n = 0 THEN s ELSE display_scroll_up(up[n - 1])
  IN  up[LinesBelow(s)]

StoreChar(s, c) ==
  LET t == Scrolled(s)
  IN  [t EXCEPT !.textbuf = [@ EXCEPT ![t.cursor] = c], !.cursor = @ + 1]

PutcTo(s, c) ==
  CASE c \in {"CR", "NUL"} -> s
    [] c = "BS" -> Backspace(Mark(s))
    [] c = "LF" -> Newline(Mark(s))
    [] c \in PRINTING -> StoreChar(Mark(s), c)

display_putc(d, c) ==
  /\ g_display' = [g_display EXCEPT ![d] = PutcTo(@, c)]
  /\ renderer' = IF d = active_display /\ c \notin {"CR", "NUL"} THEN "ready" ELSE renderer

(* The history of the output: a change above last_clean_line is a backspace *)
(* into the line before, or any output to a cleared display that was not    *)
(* repainted since.  A scroll marks every line.                             *)
Follow(d, c) ==
  LET s == g_display[d]
      scrolls == c \in PRINTING /\ LinesBelow(s) > 0
      above == \/ c = "BS" /\ s.cursor > 0 /\ s.cursor % textwidth = 0
               \/ d \in cleared
  IN  /\ paper' = [paper EXCEPT ![d] = IF c \in {"CR", "NUL"} THEN @ ELSE Printed(@, c)]
      /\ missed' = IF c \in {"CR", "NUL"} THEN missed
                   ELSE IF scrolls THEN missed \ {d}
                   ELSE IF above THEN missed \cup {d} ELSE missed
      /\ cleared' = IF scrolls THEN cleared \ {d} ELSE cleared

(* vuart_send: a character of a program, of the echo or of printf. *)
Output(d, c) ==
  /\ mode = "run"
  /\ paper[d].pos < MAX_POS[d] \/ c \notin PRINTING \cup {"LF"}
  /\ display_putc(d, c)
  /\ Follow(d, c)
  /\ UNCHANGED <<active_display, frame, mode>>

-----------------------------------------------------------------------------
(* display_clear: ^L on the active display, or a root thread that starts a  *)
(* new shell on its own display.                                            *)
ClearTo(s) ==
  [s EXCEPT !.textbuf = Blank, !.needs_full_repaint = TRUE, !.is_dirty = TRUE, !.cursor = 0]

display_clear(d) ==
  /\ g_display' = [g_display EXCEPT ![d] = ClearTo(@)]
  /\ renderer' = "ready"
  /\ paper' = [paper EXCEPT ![d] = NewPaper]
  /\ cleared' = cleared \cup {d}
  /\ missed' = missed \ {d}

Clear(d) ==
  /\ mode = "run"
  /\ display_clear(d)
  /\ UNCHANGED <<active_display, frame, mode>>

(* Mutant: the frame of the display before is not erased. *)
SwitchedTo_partly(s) == [s EXCEPT !.is_dirty = TRUE, !.last_clean_line = 0]

SwitchedTo(s) ==
  [s EXCEPT !.is_dirty = TRUE, !.needs_full_repaint = TRUE, !.last_clean_line = 0]

(* Text below the cursor, which no repaint reaches (only backspaces leave it there). *)
TextBelow(s) == \E i \in Cell : Line(i) > Line(s.cursor) /\ s.textbuf[i] # "NUL"

display_switch(d) ==
  /\ mode = "run"
  /\ d # active_display
  /\ active_display' = d
  /\ g_display' = [g_display EXCEPT ![d] = SwitchedTo(@)]
  /\ renderer' = "ready"
  /\ cleared' = cleared \ {d}
  /\ missed' = IF TextBelow(g_display[d]) THEN missed \cup {d} ELSE missed \ {d}
  /\ UNCHANGED <<frame, mode, paper>>

-----------------------------------------------------------------------------
(* display_redraw *)

Repainted(s) == [s EXCEPT !.needs_full_repaint = FALSE, !.is_dirty = FALSE]

(* draw_line has no bound, unlike draw_block and draw_char: with the cursor *)
(* below the last line, where newlines alone take it, the loop reads behind *)
(* the text and writes behind the framebuffer.                              *)
PaintsBeyond(s) == s.is_dirty /\ Line(s.cursor) >= textheight

(* The cells of the frame after the repaint; what a repaint beyond does to   *)
(* the memory behind them is not known, so the model stops there.           *)
Painted(s) ==
  LET base == IF s.needs_full_repaint THEN Blank ELSE frame
  IN  [i \in Cell |->
        IF ~s.is_dirty THEN base[i]
        ELSE IF Line(i) = textheight - 1 THEN "status"
        ELSE IF i = s.cursor THEN "block"
        ELSE IF Line(i) \in s.last_clean_line .. Line(s.cursor) THEN s.textbuf[i]
        ELSE base[i]]

display_redraw(d) ==
  /\ frame' = Painted(g_display[d])
  /\ g_display' = [g_display EXCEPT ![d] = Repainted(@)]
  /\ cleared' = cleared \ {d}

(* thread_display_update *)
thread_display_update ==
  /\ mode = "run"
  /\ renderer = "ready"
  /\ display_redraw(active_display)
  /\ mode' = IF PaintsBeyond(g_display[active_display]) THEN "overrun" ELSE mode
  /\ renderer' = "asleep"
  /\ UNCHANGED <<active_display, paper, missed>>

-----------------------------------------------------------------------------
(* panic(): the active display is cleared, the message printed on it, and   *)
(* the frame painted without the renderer, all with interrupts off.         *)

(* Mutant: the panic message is painted from where the last output was. *)
PanicMarks_keep_line(s) == [s EXCEPT !.is_dirty = TRUE, !.needs_full_repaint = TRUE]

PanicMarks(s) ==
  [s EXCEPT !.is_dirty = TRUE, !.last_clean_line = 0, !.needs_full_repaint = TRUE]

PrintAll(s, msg) ==
  LET put[n \in 0 .. Len(msg)] == IF n = 0 THEN s ELSE PutcTo(put[n - 1], msg[n])
  IN  put[Len(msg)]

PaperAfter(msg) ==
  LET put[n \in 0 .. Len(msg)] == IF n = 0 THEN NewPaper ELSE Printed(put[n - 1], msg[n])
  IN  put[Len(msg)]

panic(msg) ==
  /\ mode = "run"
  /\ LET s == PanicMarks(PrintAll(ClearTo(g_display[active_display]), msg))
     IN  /\ mode' = IF PaintsBeyond(s) THEN "overrun" ELSE "halted"
         /\ frame' = Painted(s)
         /\ g_display' = [g_display EXCEPT ![active_display] = Repainted(s)]
  /\ renderer' = "ready"
  /\ paper' = [paper EXCEPT ![active_display] = PaperAfter(msg)]
  /\ UNCHANGED <<active_display, cleared, missed>>

Halted == mode # "run" /\ UNCHANGED vars

-----------------------------------------------------------------------------
OutChar == PRINTING \cup {"BS", "LF", "CR", "NUL"}

Next ==
  \/ \E d \in Display : (\E c \in OutChar : Output(d, c)) \/ Clear(d) \/ display_switch(d)
  \/ thread_display_update
  \/ \E msg \in PANIC_MESSAGES : panic(msg)
  \/ Halted

Spec == init_display /\ [][Next]_vars

-----------------------------------------------------------------------------
(* The text buffer is the window on the end of the output: scrolling loses  *)
(* lines at the top only, moves the rest without change, and the cursor     *)
(* stays with the text.                                                     *)
TextIsTail ==
  /\ TypeOK
  /\ \A d \in Display :
       LET s == g_display[d]  p == paper[d]
       IN  /\ s.cursor + p.top * textwidth = p.pos
           /\ \A i \in Cell : s.textbuf[i] = At(p, i + p.top * textwidth)

FrameShows(s) ==
  \A i \in Cell : Line(i) < textheight - 1
                    => frame[i] = IF i = s.cursor THEN "block" ELSE s.textbuf[i]

(* A repainted display is on the screen, every line of it, whatever was on   *)
(* the screen before: after switches, scrolls and output while the renderer *)
(* had not run.  Two cases are excepted: a display in missed, one that was  *)
(* changed by a backspace into the line above or after a clear, and, since  *)
(* draw_line has no bound, whatever follows a repaint with the cursor below *)
(* the last line of the frame (mode "overrun").                             *)
RepaintShowsText ==
  (mode = "run" /\ ~g_display[active_display].is_dirty /\ active_display \notin missed)
    => FrameShows(g_display[active_display])

(* The message of a panic is on the screen when the machine stops, whatever *)
(* marks the panic found, unless the message itself ends with newlines      *)
(* beyond the frame.                                                        *)
PanicIsShown == mode = "halted" => FrameShows(g_display[active_display])

=============================================================================
