------------------------------- MODULE Serial -------------------------------
(***************************************************************************)
(* The way of a byte from the serial line to the terminal of Tty: the      *)
(* receive register of the UART (uart16550.c, pl011.c), the interrupt      *)
(* controller (apic.c, gic.c, plic.c), and the interrupt handler, which    *)
(* claims the interrupt, completes it, and only then reads the byte.       *)
(*                                                                         *)
(* The handler runs with interrupts off on the only CPU, so the readers    *)
(* stand still meanwhile; the line does not.  The receive FIFOs are off,   *)
(* so a byte that comes before its predecessor was read destroys one of    *)
(* the two.  How a controller latches a request is the hardware's, and not *)
(* in the repository: the IOAPIC entries are edge triggered, the GIC       *)
(* follows the line, and the PLIC latches one request, which stays when    *)
(* the line drops, and takes the next one after completion.                *)
(***************************************************************************)
EXTENDS Tty

CONSTANTS
  CONTROLLERS,    \* the controllers to look at
  SENT,           \* bytes that come over the line
  MAX_LINE        \* bound: characters of a line, a NUL behind each byte included

NONE == "none"     \* the receive register is empty

ASSUME SerialAssumption ==
  /\ CONTROLLERS \subseteq {"apic", "gic", "plic"}
  /\ SENT \subseteq Key
  /\ NONE \notin Key
  /\ MAX_LINE \in Nat

VARIABLES
  intc,       \* the controller of the platform
  rdr,        \* the receive register, or NONE
  latched,    \* the controller holds a request of the UART
  inService,  \* it was claimed and not completed
  handler,    \* where the interrupt handler is
  timedOut    \* history: the last byte handed to the terminal was none

portVars == <<intc, rdr, latched, inService, handler, timedOut>>
vars == <<ttyVars, portVars>>

SerialTypeOK ==
  /\ intc \in CONTROLLERS
  /\ rdr \in Key \cup {NONE}
  /\ latched \in BOOLEAN /\ inService \in BOOLEAN /\ timedOut \in BOOLEAN
  /\ handler \in {"idle", "claimed", "completed"}

-----------------------------------------------------------------------------
(* Mutant: the transmitter's interrupt is enabled too. *)
IrqLine_with_transmitter(r) == TRUE

(* The UART's interrupt line: init enables the received data interrupt only. *)
IrqLine(r) == r # NONE

(* The controller asks the CPU for an interrupt. *)
Requested == ~inService /\ (latched \/ (intc = "gic" /\ IrqLine(rdr)))

(* What the controller holds once the register has become r. *)
LatchAfterArrival(r) ==
  \/ latched
  \/ intc = "apic" /\ ~IrqLine(rdr) /\ IrqLine(r)
  \/ intc = "plic" /\ ~inService /\ IrqLine(r)

(* A byte arrives.  With the register full one byte is lost: the 16550      *)
(* keeps the new one, the PL011 the old one.                                *)
Arrive(c) ==
  /\ Len(line) + 2 <= MAX_LINE \/ (c = "DELETE" /\ cursor > 0)
  /\ rdr' \in IF rdr = NONE THEN {c} ELSE {rdr, c}
  /\ latched' = LatchAfterArrival(rdr')
  /\ UNCHANGED <<intc, inService, handler, timedOut, ttyVars>>

-----------------------------------------------------------------------------
(* The interrupt handler. *)

(* claim_interrupt: apic_claim does nothing, there the CPU has accepted.    *)
claim_interrupt ==
  /\ handler = "idle" /\ Requested
  /\ latched' = FALSE
  /\ inService' = TRUE
  /\ handler' = "claimed"
  /\ UNCHANGED <<intc, rdr, timedOut, ttyVars>>

(* Mutant: the interrupt is not completed. *)
send_eoi_forgotten ==
  /\ handler = "claimed"
  /\ handler' = "completed"
  /\ UNCHANGED <<intc, rdr, inService, latched, timedOut, ttyVars>>

(* send_eoi.  The byte has not been read, so the line is still up. *)
send_eoi ==
  /\ handler = "claimed"
  /\ inService' = FALSE
  /\ latched' = (latched \/ (intc = "plic" /\ IrqLine(rdr)))
  /\ handler' = "completed"
  /\ UNCHANGED <<intc, rdr, timedOut, ttyVars>>

(* serial_getc: recv polls the status RECV_TIMEOUT times, then returns 0. *)
serial_getc == IF rdr = NONE THEN "NUL" ELSE rdr

serial_intr ==
  /\ handler = "completed"
  /\ tty_new_data(serial_getc)
  /\ rdr' = NONE
  /\ timedOut' = (rdr = NONE)
  /\ handler' = "idle"
  /\ UNCHANGED <<intc, latched, inService>>

-----------------------------------------------------------------------------
(* init_intctl and init_serial leave an idle line. *)
Init ==
  /\ tty_attach
  /\ intc \in CONTROLLERS
  /\ rdr = NONE
  /\ latched = FALSE /\ inService = FALSE
  /\ handler = "idle"
  /\ timedOut = FALSE

Next ==
  \/ \E c \in SENT : Arrive(c)
  \/ claim_interrupt
  \/ send_eoi
  \/ serial_intr
  \/ handler = "idle" /\ ReaderStep /\ UNCHANGED portVars

Spec == Init /\ [][Next]_vars

(* A thread that was woken is scheduled in the end, however many interrupts *)
(* come in between (Sched!ReadyThreadRuns), hence strong fairness: handlers *)
(* keep it from running again and again, and not for good.  A handler runs  *)
(* to its end, and an interrupt that stays requested is taken, since every  *)
(* path leads back to user mode or to the idle loop with interrupts on.     *)
FairSpec ==
  /\ Spec
  /\ \A r \in Reader : SF_vars(handler = "idle" /\ Resume(r) /\ UNCHANGED portVars)
  /\ WF_vars(claim_interrupt)
  /\ WF_vars(send_eoi)
  /\ WF_vars(serial_intr)

-----------------------------------------------------------------------------
(* An interrupt finds its byte.  Completing the interrupt before the byte   *)
(* is read makes the PLIC ask once more for a byte that is then gone, so    *)
(* there a read may time out and hand a NUL to the terminal; but never      *)
(* twice in a row, and on the other controllers never.                      *)
TimeoutsAreSpurious ==
  /\ SerialTypeOK
  /\ (handler = "completed" /\ rdr = NONE) => intc = "plic" /\ ~timedOut

(* A byte in the receive register is read: no order of its arrival, the     *)
(* claim, the completion and the read leaves it there without an interrupt. *)
ByteIsRead == rdr # NONE ~> rdr = NONE
=============================================================================
