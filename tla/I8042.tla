------------------------------- MODULE I8042 -------------------------------
(***************************************************************************)
(* Starting the keyboard up (init_i8042 in ps2_controller.c), and then the *)
(* keyboard of module Keyboard.  Start-up polls, with interrupts off: it   *)
(* asks the controller for its tests, resets the keyboard, and reads until *)
(* the keyboard has said nothing for PS2_TIMEOUT polls.  How many polls an *)
(* answer takes is the hardware's.                                         *)
(*                                                                         *)
(* wire is what the keyboard has sent.  The controller passes none of it   *)
(* on while the port is off.                                               *)
(***************************************************************************)
EXTENDS Keyboard

CONSTANTS
  PS2_TIMEOUT,
  DELAY,          \* polls an answer takes at most
  LEFTOVERS       \* what the keyboard may hold from before the start

ASSUME I8042Assumption ==
  /\ PS2_TIMEOUT \in Nat
  /\ DELAY \in Nat /\ DELAY < PS2_TIMEOUT
  /\ LEFTOVERS \subseteq Seq(KEYS \cup {RELEASE_CODE})

PASS == 85      \* SELFTEST_PASS, and here PORTTEST_PASS too
FAIL == 252
NONE == 256

VARIABLES
  boot,       \* where init_i8042 is
  retries,
  chip,       \* the controller: "ok", "mute" (it never answers), "dead" (it takes no command)
  owed,       \* answers that are still to come
  quiet,      \* polls since the last command, answer or read
  reply       \* the controller's answer in its output buffer, or NONE

bootVars == <<boot, retries, chip, owed, quiet, reply>>
vars == <<keyVars, bootVars>>

BootTypeOK ==
  /\ boot \in {"start", "config", "selftest", "porttest", "drain", "done", "refused", "panic"}
  /\ retries \in 0 .. PS2_TIMEOUT + 1
  /\ chip \in {"ok", "mute", "dead"}
  /\ owed \in Seq(Answer \cup {PASS, FAIL})
  /\ quiet \in 0 .. DELAY
  /\ reply \in {NONE, PASS, FAIL}

decoder == <<flags, active, inputs, held, presses, meant, aimed>>

-----------------------------------------------------------------------------
(* Both ports are turned off, and one byte is flushed, which may be the     *)
(* first of the keyboard's.                                                 *)
DisablePorts ==
  /\ boot = "start"
  /\ wire' \in {wire} \cup (IF wire = <<>> THEN {} ELSE {Tail(wire)})
  /\ boot' = "config"
  /\ UNCHANGED <<retries, chip, owed, quiet, reply, decoder>>

(* i8042_read: a command whose answer is waited for. *)
Ask(test) ==
  /\ boot' = test
  /\ retries' = 0 /\ quiet' = 0
  /\ owed' \in {<<PASS>>, <<FAIL>>}

(* The first i8042_write, which panics when the controller takes nothing,   *)
(* and the self test's command.                                             *)
WriteConfig ==
  /\ boot = "config"
  /\ \/ chip # "dead" /\ Ask("selftest")
     \/ chip = "dead" /\ boot' = "panic" /\ UNCHANGED <<retries, owed, quiet>>
  /\ UNCHANGED <<chip, reply, wire, decoder>>

(* The hardware answers. *)
Reply ==
  /\ chip = "ok" /\ owed # <<>>
  /\ owed' = Tail(owed)
  /\ quiet' = 0
  /\ IF boot \in {"selftest", "porttest"} THEN reply' = Head(owed) /\ UNCHANGED wire
                                          ELSE wire' = Append(wire, Head(owed)) /\ UNCHANGED reply
  /\ UNCHANGED <<boot, retries, chip, decoder>>

(* A poll that finds nothing; an answer takes at most DELAY of them. *)
Polls ==
  /\ owed # <<>> /\ chip = "ok" => quiet < DELAY
  /\ quiet' = IF owed # <<>> /\ chip = "ok" THEN quiet + 1 ELSE 0
  /\ retries' = retries + 1

(* The loop of i8042_read. *)
PollReply ==
  /\ boot \in {"selftest", "porttest"}
  /\ reply = NONE
  /\ \/ retries <= PS2_TIMEOUT /\ Polls /\ UNCHANGED boot
     \/ retries > PS2_TIMEOUT /\ boot' = "panic" /\ UNCHANGED <<retries, quiet>>
  /\ UNCHANGED <<chip, owed, reply, wire, decoder>>

(* The port is turned on and the reset sent: the keyboard forgets what it   *)
(* holds and answers twice, if there is one.  A byte that it has sent       *)
(* before may still wait in the controller.                                 *)
ResetDevice ==
  /\ boot' = "drain"
  /\ retries' = 0 /\ quiet' = 0
  /\ wire' \in {<<>>} \cup (IF wire = <<>> THEN {} ELSE {SubSeq(wire, 1, 1)})
  /\ owed' \in {<<>>, <<250, 170>>}

TakeReply ==
  /\ boot \in {"selftest", "porttest"}
  /\ reply # NONE
  /\ reply' = NONE
  /\ \/ reply = FAIL /\ boot' = "refused" /\ UNCHANGED <<retries, owed, quiet, wire>>
     \/ reply = PASS /\ boot = "selftest" /\ Ask("porttest") /\ UNCHANGED wire
     \/ reply = PASS /\ boot = "porttest" /\ ResetDevice
  /\ UNCHANGED <<chip, decoder>>

(* Mutant: a byte does not start the count again. *)
RetriesAfterByte_kept == retries + 1

RetriesAfterByte == 0

(* The loop of ps2_reset_device1. *)
Drain ==
  /\ boot = "drain" /\ retries < PS2_TIMEOUT
  /\ \/ /\ wire # <<>>
        /\ wire' = Tail(wire)
        /\ retries' = RetriesAfterByte
        /\ UNCHANGED quiet
     \/ wire = <<>> /\ Polls /\ UNCHANGED wire
  /\ UNCHANGED <<boot, chip, owed, reply, decoder>>

(* The interrupt is mapped and enabled. *)
EnableInterrupt ==
  /\ boot = "drain" /\ retries = PS2_TIMEOUT
  /\ boot' = "done"
  /\ UNCHANGED <<retries, chip, owed, quiet, reply, keyVars>>

-----------------------------------------------------------------------------
Init ==
  /\ DecoderInit
  /\ wire \in LEFTOVERS \cup {<<>>}
  /\ boot = "start"
  /\ retries = 0
  /\ chip \in {"ok", "mute", "dead"}
  /\ owed = <<>>
  /\ quiet = 0
  /\ reply = NONE

Next ==
  \/ DisablePorts \/ WriteConfig \/ PollReply \/ TakeReply \/ Drain \/ EnableInterrupt
  \/ Reply
  \/ boot = "done" /\ KeyNext /\ UNCHANGED bootVars

Spec == Init /\ [][Next]_vars

-----------------------------------------------------------------------------
(* When interrupts are turned on, neither what the keyboard held before the *)
(* start nor its answers to the reset are left, or still to come, for the   *)
(* decoder: the count of polls ends after the last answer, not before it.   *)
(* Interrupts stay off when a test fails.                                   *)
StartsDrained ==
  /\ BootTypeOK
  /\ boot = "done" => owed = <<>> /\ \A i \in DOMAIN wire : wire[i] \notin Answer
  /\ boot = "done" /\ presses = 0 => wire = <<>>
  /\ boot # "done" => inputs = <<>> /\ mods = {}
=============================================================================
