------------------------------ MODULE Keyboard ------------------------------
(***************************************************************************)
(* The PS/2 keyboard: one interrupt for every byte the keyboard sends, and *)
(* a decoder that keeps its state between the bytes of a key               *)
(* (ps2_keyboard.c, ps2_intr of ps2_controller.c, and the entry points of  *)
(* display.c that the decoded keys reach).  Bytes wait in the keyboard     *)
(* while the kernel has interrupts off, so keys go up and down long before *)
(* their bytes are decoded.  Module I8042 starts the keyboard up.          *)
(***************************************************************************)
EXTENDS Naturals, Sequences

CONSTANTS
  NUM_DISPLAYS,
  KEYS,         \* the keys that are used, by scan code
  MAX_PRESSES,  \* bound: presses and repeats
  MAX_WIRE      \* bound: bytes that wait for the interrupt

LSHIFT == 18
RSHIFT == 89
LCTRL == 20
RCTRL == 88
RELEASE_CODE == 240
Modifier == {LSHIFT, RSHIFT, LCTRL, RCTRL}

(* What the keyboard answers to a reset: ACK, and the result of its test. *)
Answer == {250, 170}

NUL == "NUL"

(* The scan codes that the decoder tells apart: a letter, the two letters   *)
(* that are commands, digits with a display, without one (0), a sign with   *)
(* two meanings, one with a single meaning, and codes without a character.  *)
ps2_to_ascii ==
  [c \in {28, 33, 75, 22, 30, 69, 78, 41} \cup Modifier \cup Answer |->
     CASE c = 28 -> "a" [] c = 33 -> "c" [] c = 75 -> "l" [] c = 22 -> "1" [] c = 30 -> "2"
       [] c = 69 -> "0" [] c = 78 -> "-" [] c = 41 -> " " [] OTHER -> NUL]

Key == DOMAIN ps2_to_ascii \ Answer

ASSUME KeyboardAssumption ==
  /\ NUM_DISPLAYS \in Nat \ {0}
  /\ KEYS \subseteq Key
  /\ MAX_PRESSES \in Nat /\ MAX_WIRE \in Nat

digit == [c \in {"0", "1", "2"} |-> IF c = "0" THEN 0 ELSE IF c = "1" THEN 1 ELSE 2]
uppercase == [c \in {"a", "c", "l"} |-> IF c = "a" THEN "A" ELSE IF c = "c" THEN "C" ELSE "L"]
shifted == [c \in {"1", "2", "0", "-"} |->
              CASE c = "1" -> "!" [] c = "2" -> "@" [] c = "0" -> ")" [] c = "-" -> "_"]
control == [c \in {"c", "l"} |-> IF c = "c" THEN "ETX" ELSE "FF"]

Byte == KEYS \cup Answer \cup {RELEASE_CODE}
Char == {NUL, "a", "c", "l", "A", "C", "L", "1", "2", "0", "-", "!", "@", ")", "_", " ", "ETX", "FF"}
Input == [display : 0 .. NUM_DISPLAYS - 1, char : Char]

VARIABLES
  is_letting_go,
  mods,       \* those of lshift, rshift, lctrl and rctrl that are true
  active,     \* active_display_idx
  inputs,     \* what display_handle_input was given, and for which display
  held,       \* the keys that are down
  wire,       \* bytes sent and not read
  presses,
  meant,      \* history: what the keys meant, and for which display, when they were pressed
  aimed       \* history: the display that is active once every byte is read

flags == <<is_letting_go, mods>>
keyVars == <<flags, active, inputs, held, wire, presses, meant, aimed>>

TypeOK ==
  /\ is_letting_go \in BOOLEAN
  /\ mods \subseteq Modifier
  /\ active \in 0 .. NUM_DISPLAYS - 1
  /\ aimed \in 0 .. NUM_DISPLAYS - 1
  /\ inputs \in Seq(Input)
  /\ meant \in Seq(Input)
  /\ held \subseteq KEYS
  /\ wire \in Seq(Byte)
  /\ presses \in 0 .. MAX_PRESSES

DecoderInit ==
  /\ is_letting_go = FALSE
  /\ mods = {}
  /\ active = 0
  /\ inputs = <<>>
  /\ held = {}
  /\ presses = 0
  /\ meant = <<>>
  /\ aimed = 0

-----------------------------------------------------------------------------
(* The decoder. *)

(* Mutant: only a press changes the state of a modifier. *)
ModsAfter_press_only(code) == IF code \in Modifier /\ ~is_letting_go THEN mods \cup {code} ELSE mods

(* The modifiers after a code. *)
ModsAfter(code) ==
  IF code \notin Modifier THEN mods
  ELSE IF is_letting_go THEN mods \ {code} ELSE mods \cup {code}

(* Mutant: shift is looked at before control. *)
Decoded_shift_first(c, shift, ctrl) ==
  IF c \in DOMAIN uppercase /\ shift THEN uppercase[c]
  ELSE IF ctrl /\ c \in DOMAIN control THEN control[c]
  ELSE IF shift /\ c \in DOMAIN shifted THEN shifted[c] ELSE c

(* The character of a key that is pressed, once the display switches are out *)
(* of the way.                                                               *)
Decoded(c, shift, ctrl) ==
  IF ctrl /\ c \in DOMAIN control THEN control[c]
  ELSE IF c \in DOMAIN uppercase THEN IF shift THEN uppercase[c] ELSE c
  ELSE IF shift /\ c \in DOMAIN shifted THEN shifted[c] ELSE c

(* display_switch(d - 1): the index is unsigned, so 0 is behind the end. *)
display_switch(d) == IF d > NUM_DISPLAYS \/ d = 0 THEN active ELSE d - 1

(* is_letting_go after a byte. *)
LettingGo(code) == code = RELEASE_CODE

(* ps2_decode_keypress of a byte other than RELEASE_CODE, and what ps2_intr  *)
(* does with the result.                                                     *)
DecodeKey(code) ==
  LET c == ps2_to_ascii[code]
      ctrl == ModsAfter(code) \cap {LCTRL, RCTRL} # {}
      shift == ModsAfter(code) \cap {LSHIFT, RSHIFT} # {}
      d == Decoded(c, shift, ctrl)
      switches == ctrl /\ c \in DOMAIN digit
  IN  /\ is_letting_go' = LettingGo(code)
      /\ mods' = ModsAfter(code)
      /\ active' = IF ~is_letting_go /\ switches THEN display_switch(digit[c]) ELSE active
      /\ inputs' = IF is_letting_go \/ switches \/ d = NUL THEN inputs
                   ELSE Append(inputs, [display |-> active, char |-> d])

(* The keyboard interrupt. *)
ps2_intr ==
  /\ wire # <<>>
  /\ wire' = Tail(wire)
  /\ IF Head(wire) = RELEASE_CODE
       THEN is_letting_go' = LettingGo(RELEASE_CODE) /\ UNCHANGED <<mods, active, inputs>>
       ELSE DecodeKey(Head(wire))
  /\ UNCHANGED <<held, presses, meant, aimed>>

-----------------------------------------------------------------------------
(* The keyboard, and what its keys mean: with Control held, c and l are the  *)
(* commands and a digit names a display; otherwise Shift held selects the    *)
(* other meaning of a key that has one.                                      *)
Means(k, down) ==
  LET c == ps2_to_ascii[k]
      upper == [x \in DOMAIN uppercase \cup DOMAIN shifted |->
                  IF x \in DOMAIN shifted THEN shifted[x] ELSE uppercase[x]]
  IN  IF down \cap {LCTRL, RCTRL} # {} /\ c \in DOMAIN control THEN control[c]
      ELSE IF down \cap {LSHIFT, RSHIFT} # {} /\ c \in DOMAIN upper THEN upper[c]
      ELSE c

Names(k, down) == /\ down \cap {LCTRL, RCTRL} # {}
                  /\ ps2_to_ascii[k] \in DOMAIN digit

(* A key goes down, or repeats because it stays down. *)
Press(k) ==
  /\ presses < MAX_PRESSES
  /\ Len(wire) < MAX_WIRE
  /\ presses' = presses + 1
  /\ held' = held \cup {k}
  /\ wire' = Append(wire, k)
  /\ LET d == IF Names(k, held') THEN digit[ps2_to_ascii[k]] ELSE 0
     IN  aimed' = IF d \in 1 .. NUM_DISPLAYS THEN d - 1 ELSE aimed
  /\ meant' = IF k \in Modifier \/ Names(k, held') THEN meant
              ELSE Append(meant, [display |-> aimed, char |-> Means(k, held')])
  /\ UNCHANGED <<flags, active, inputs>>

Release(k) ==
  /\ k \in held
  /\ Len(wire) + 1 < MAX_WIRE
  /\ held' = held \ {k}
  /\ wire' = wire \o <<RELEASE_CODE, k>>
  /\ UNCHANGED <<flags, active, inputs, presses, meant, aimed>>

KeyNext == ps2_intr \/ \E k \in KEYS : Press(k) \/ Release(k)

-----------------------------------------------------------------------------
(* However late its bytes are decoded, a key that is pressed is received     *)
(* once, as what it meant when it was pressed, by the display that the keys  *)
(* before it had made the active one; and a release is never received.       *)
KeysAreReceivedAsMeant ==
  /\ TypeOK
  /\ Len(inputs) <= Len(meant)
  /\ inputs = SubSeq(meant, 1, Len(inputs))
  /\ wire = <<>> => inputs = meant /\ active = aimed

(* Once every byte is read, the decoder knows which modifiers are down: none *)
(* sticks, and none is lost, whatever the order in which keys overlap.       *)
ModifiersMatchKeys ==
  wire = <<>> => ~is_letting_go /\ mods = held \cap Modifier
=============================================================================
