-------------------------------- MODULE Trap --------------------------------
(***************************************************************************)
(* How a trap finds its kernel stack, what lies on the kernel stacks while *)
(* threads trap, switch and return, and when interrupts are on, on each of *)
(* the three architectures (trap_entry.s, cswitch.s, trap.c and cpu.c,     *)
(* with the parts of scheduler.c and thread.c they meet):                  *)
(*   riscv64   sscratch holds the stack of a program, and 0 in the kernel  *)
(*             until a switch back;                                        *)
(*   x86_64    the CPU and syscall_entry take the stack of a program from  *)
(*             tss.rsp0, a trap of the kernel stays on its stack;          *)
(*   aarch64   SP_EL1 is the kernel's stack pointer and keeps, while a     *)
(*             program runs, the value that eret has left in it.           *)
(* Which thread runs next, and why, is in Sched: here the scheduler may    *)
(* choose any thread that is alive.                                        *)
(***************************************************************************)
EXTENDS Naturals, Sequences

CONSTANTS
  ARCHS,       \* architectures to look at
  User,        \* user threads
  Kernel,      \* kernel threads: idle, and those that run with interrupts off
  idle

Thread == User \cup Kernel

ASSUME ThreadAssumption ==
  /\ ARCHS \subseteq {"riscv64", "x86_64", "aarch64"}
  /\ User \cap Kernel = {}
  /\ idle \in Kernel

MAX_FRAMES == 6      \* more than any thread ever has on its stack

(* What is pushed on a kernel stack: the registers of the interrupted code  *)
(* (regs_t), of which the mode, the interrupt flag and, for kernel code, the *)
(* height of the stack matter; or the registers of cswitch (kregs_t), of     *)
(* which the return address matters, with old_ints of the scheduler() that   *)
(* called it.                                                                *)
Regs(m, h, i) == [kind |-> "regs", mode |-> m, sp |-> h, ints |-> i, ra |-> "none"]
Kregs(r, i) == [kind |-> "kregs", mode |-> "KERN", sp |-> 0, ints |-> i, ra |-> r]
Blank == [kind |-> "none", mode |-> "KERN", sp |-> 0, ints |-> FALSE, ra |-> "none"]

Frame == [kind : {"regs", "kregs", "none"}, mode : {"USER", "KERN"}, sp : 0 .. MAX_FRAMES,
          ints : BOOLEAN, ra : {"none", "entrypoint", "jump_to_user", "scheduler"}]

(* Where a stack begins: thread and height. *)
StackAt(t, h) == [thread |-> t, height |-> h]
Nowhere == StackAt(idle, MAX_FRAMES)      \* 0 in sscratch, in tss.rsp0 before the first switch

VARIABLES
  arch,
  cur,         \* cur_thread
  mode,        \* what the CPU runs
  ints,        \* SIE, RFLAGS.IF, no I and F in DAIF
  sp,          \* height of the kernel stack in use, counted in frames
  entry,       \* sscratch, tss.rsp0, or SP_EL1 while a program runs
  alive,
  kstack,      \* the memory of the kernel stacks
  saved_sp,
  trapdepth,
  pc,          \* "start" of thread_idle, "code", "handler", or "switched": in a
               \* handler that came back from the scheduler
  pushed,      \* history: the frames that were pushed and not popped
  assertion,   \* no assert() has failed
  panicked

vars == <<arch, cur, mode, ints, sp, entry, alive, kstack, saved_sp, trapdepth, pc, pushed,
          assertion, panicked>>

TypeOK ==
  /\ arch \in ARCHS
  /\ cur \in Thread
  /\ mode \in {"USER", "KERN"}
  /\ ints \in BOOLEAN
  /\ sp \in 0 .. MAX_FRAMES
  /\ entry \in [thread : Thread, height : 0 .. MAX_FRAMES]
  /\ alive \in [Thread -> BOOLEAN]
  /\ kstack \in [Thread -> [1 .. MAX_FRAMES -> Frame]]
  /\ saved_sp \in [Thread -> 0 .. MAX_FRAMES]
  /\ trapdepth \in [Thread -> 0 .. 2]
  /\ pc \in [Thread -> {"start", "code", "handler", "switched"}]
  /\ pushed \in [Thread -> Seq(Frame)]
  /\ assertion \in BOOLEAN
  /\ panicked \in BOOLEAN

-----------------------------------------------------------------------------
taskmode(t) == IF t \in User THEN "USER" ELSE "KERN"

Stack(s) == [i \in 1 .. MAX_FRAMES |-> IF i <= Len(s) THEN s[i] ELSE Blank]

(* init_user_regs: RFLAGS_IF, DAIF clear in the SPSR; SPIE is clear, but     *)
(* riscv64 takes interrupts in user mode all the same.                       *)
init_user_regs == Regs("USER", 0, arch # "riscv64")

(* setup_kernel_thread and setup_user_thread. *)
NewFrames(t) == IF t \in User THEN <<init_user_regs, Kregs("jump_to_user", FALSE)>>
                              ELSE <<Kregs("entrypoint", FALSE)>>

(* init_scheduler switches to the root thread: any kernel thread that       *)
(* leaves interrupts off.  The other kernel threads are ready.              *)
Init ==
  /\ arch \in ARCHS
  /\ cur \in Kernel \ {idle}
  /\ mode = "KERN"
  /\ ints = FALSE
  /\ sp = 0
  /\ entry = IF arch = "x86_64" THEN StackAt(cur, 0) ELSE Nowhere
  /\ alive = [t \in Thread |-> t \in Kernel]
  /\ pushed = [t \in Thread |-> IF t \in Kernel /\ t # cur THEN NewFrames(t) ELSE <<>>]
  /\ kstack = [t \in Thread |-> Stack(pushed[t])]
  /\ saved_sp = [t \in Thread |-> Len(pushed[t])]
  /\ trapdepth = [t \in Thread |-> 0]
  /\ pc = [t \in Thread |-> IF t = idle THEN "start" ELSE "code"]
  /\ assertion = TRUE
  /\ panicked = FALSE

-----------------------------------------------------------------------------
(* What cpu_set_entry_kstack(t) leaves, when t has trap depth d.  It does    *)
(* nothing on aarch64.                                                       *)
cpu_set_entry_kstack(t, d) ==
  CASE arch = "riscv64" -> IF d > 1 \/ taskmode(t) = "KERN" THEN Nowhere ELSE StackAt(t, 0)
    [] arch = "x86_64"  -> StackAt(t, 0)
    [] arch = "aarch64" -> entry

(* "We're in kernel code now, so sscratch must hold zero". *)
EntryInKernel == IF arch = "riscv64" THEN Nowhere ELSE entry

(* Mutant: the stack pointer is always taken from sscratch, TSS or SP_EL1. *)
TrapStack_always_entry == entry

(* Where the frame of a trap is pushed. *)
TrapStack ==
  LET inUse == StackAt(cur, sp)
  IN  IF arch = "riscv64" THEN (IF entry # Nowhere THEN entry ELSE inUse)
      ELSE (IF mode = "USER" THEN entry ELSE inUse)

(* Mutant: the gates leave the interrupt flag as it is. *)
IntsInTrap_kept == ints

(* Interrupts are off after a trap: interrupt gates and SFMASK on x86_64,    *)
(* the CPU on riscv64, the CPU and DISABLE_INTS on aarch64.                  *)
IntsInTrap == FALSE

(* An interrupt is taken now, if there is one. *)
Interruptible == ints \/ (arch = "riscv64" /\ mode = "USER")

(* The entry code of each architecture: riscv_trap, x86_dispatch_interrupt    *)
(* and syscall_entry, exception_sync and exception_irq; then the asserts and  *)
(* thread_trap_enter at the start of the handler.                             *)
trap_entry ==
  LET s == TrapStack
      r == Regs(mode, IF mode = "KERN" THEN sp ELSE 0, ints)
      at == s.height + 1
      d == trapdepth[cur] + 1
  IN  /\ kstack' = [kstack EXCEPT ![s.thread][at] = r]
      /\ pushed' = [pushed EXCEPT ![cur] = Append(@, r)]
      /\ sp' = at
      /\ entry' = EntryInKernel
      /\ ints' = IntsInTrap
      /\ mode' = "KERN"
      /\ trapdepth' = [trapdepth EXCEPT ![cur] = d]
      /\ pc' = [pc EXCEPT ![cur] = "handler"]
      /\ assertion' = (/\ assertion
                       /\ arch = "riscv64" => entry' = Nowhere
                       /\ (mode = "USER") <=> (taskmode(cur) = "USER" /\ d = 1))
      /\ UNCHANGED <<arch, cur, alive, saved_sp>>

(* A system call or an exception of a program. *)
SyncTrap ==
  /\ mode = "USER"
  /\ trap_entry
  /\ UNCHANGED panicked

(* A timer, serial line or keyboard interrupt, in whatever code runs. *)
Interrupt ==
  /\ Interruptible
  /\ sp < MAX_FRAMES
  /\ trap_entry
  /\ UNCHANGED panicked

(* A fault in the handler of a system call, before the first switch of the  *)
(* call (copyin_args reads argv until it finds a NULL) or after it has      *)
(* slept (the memcpy of tty_readin, into a range that access_ok accepted    *)
(* because its end wraps): do_exception panics with the registers of the    *)
(* fault.                                                                   *)
KernelFault ==
  /\ cur \in User
  /\ pc[cur] \in {"handler", "switched"}
  /\ trap_entry
  /\ panicked' = TRUE

-----------------------------------------------------------------------------
(* Mutant: the switch does not set the entry stack. *)
EntryAfterSwitch_kept(next) == entry

(* switchto(next) sets the entry stack before cswitch. *)
EntryAfterSwitch(next) == cpu_set_entry_kstack(next, trapdepth[next])

(* eret leaves SP_EL1 where the frame of thread t was popped, at height h. *)
EntryAfterEret(e, t, h) == IF arch = "aarch64" THEN StackAt(t, h) ELSE e

(* The end of cswitch and, for a new user thread, jump_to_user: the frames   *)
(* of thread next are popped from its stack; m and h are the stacks' memory  *)
(* and next's saved stack pointer.  A thread that was in scheduler() goes on *)
(* to its cpu_set_ints(old_ints).                                            *)
Resume(next, m, h, frames) ==
  LET k == m[next][h]
      toUser == k.ra = "jump_to_user"
      r == m[next][h - 1]
      e == EntryAfterSwitch(next)
  IN  /\ cur' = next
      /\ kstack' = m
      /\ entry' = IF toUser THEN EntryAfterEret(e, next, h - 2) ELSE e
      /\ mode' = IF toUser THEN r.mode ELSE "KERN"
      /\ ints' = IF toUser THEN r.ints ELSE k.ints
      /\ sp' = IF toUser THEN h - 2 ELSE h - 1
      /\ pushed' = [frames EXCEPT ![next] = SubSeq(@, 1, Len(@) - (IF toUser THEN 2 ELSE 1))]
      /\ pc' = [pc EXCEPT ![next] = IF k.ra = "scheduler" /\ @ # "code" THEN "switched" ELSE @]
      /\ assertion' = (assertion /\ k.kind = "kregs" /\ (toUser => r.kind = "regs"))

(* scheduler(): from a handler, or from a kernel thread that sleeps.  The    *)
(* thread may find itself next again.                                        *)
scheduler(next) ==
  LET k == Kregs("scheduler", ints)
      m == [kstack EXCEPT ![cur][sp + 1] = k]
      frames == [pushed EXCEPT ![cur] = Append(@, k)]
      saved == [saved_sp EXCEPT ![cur] = sp + 1]
  IN  /\ mode = "KERN"
      /\ pc[cur] \in {"handler", "switched"} \/ cur # idle
      /\ sp < MAX_FRAMES
      /\ alive[next]
      /\ saved_sp' = saved
      /\ Resume(next, m, saved[next], frames)
      /\ UNCHANGED <<arch, alive, trapdepth, panicked>>

(* task_exit of the current thread, idle excepted; its stack is freed later, *)
(* and not before another thread runs.                                       *)
task_exit(next) ==
  /\ cur # idle
  /\ mode = "KERN"
  /\ next # cur
  /\ alive[next]
  /\ alive' = [alive EXCEPT ![cur] = FALSE]
  /\ Resume(next, kstack, saved_sp[next], [pushed EXCEPT ![cur] = <<>>])
  /\ UNCHANGED <<arch, saved_sp, trapdepth, panicked>>

(* setup_user_thread, in task_spawn_user of a user or a root thread. *)
setup_user_thread(t) ==
  /\ t \in User
  /\ t # cur
  /\ ~alive[t]
  /\ mode = "KERN"
  /\ IF cur \in User THEN pc[cur] = "handler" ELSE pc[cur] = "code" /\ cur # idle
  /\ alive' = [alive EXCEPT ![t] = TRUE]
  /\ pushed' = [pushed EXCEPT ![t] = NewFrames(t)]
  /\ kstack' = [kstack EXCEPT ![t] = Stack(NewFrames(t))]
  /\ saved_sp' = [saved_sp EXCEPT ![t] = Len(NewFrames(t))]
  /\ trapdepth' = [trapdepth EXCEPT ![t] = 0]
  /\ pc' = [pc EXCEPT ![t] = "code"]
  /\ UNCHANGED <<arch, cur, mode, ints, sp, entry, assertion, panicked>>

(* The start of thread_idle. *)
cpu_enable_ints ==
  /\ pc[cur] = "start"
  /\ ints' = TRUE
  /\ pc' = [pc EXCEPT ![cur] = "code"]
  /\ UNCHANGED <<arch, cur, mode, sp, entry, alive, kstack, saved_sp, trapdepth, pushed,
                 assertion, panicked>>

(* Mutant: thread_trap_exit leaves the depth. *)
DepthAfterExit_kept == trapdepth[cur]

(* thread_trap_exit: the depth that is left, and the entry stack. *)
DepthAfterExit == trapdepth[cur] - 1

EntryAfterExit(d) == IF d = 0 THEN cpu_set_entry_kstack(cur, d) ELSE entry

(* The end of the handler, with the asserts of riscv_handle_interrupt, and   *)
(* the return: sret, iretq and sysretq, eret.  run_scheduler_if_idle has     *)
(* called the scheduler.                                                     *)
TrapReturn ==
  LET r == kstack[cur][sp]
      d == DepthAfterExit
      e == EntryAfterExit(d)
  IN  /\ pc[cur] \in {"handler", "switched"}
      /\ cur = idle => pc[cur] = "switched"
      /\ trapdepth' = [trapdepth EXCEPT ![cur] = d]
      /\ entry' = IF r.mode = "USER" THEN EntryAfterEret(e, cur, sp - 1) ELSE e
      /\ mode' = r.mode
      /\ ints' = r.ints
      /\ sp' = IF r.mode = "USER" THEN 0 ELSE r.sp
      /\ pushed' = [pushed EXCEPT ![cur] = SubSeq(@, 1, Len(@) - 1)]
      /\ pc' = [pc EXCEPT ![cur] = "code"]
      /\ assertion' = (/\ assertion
                       /\ r.kind = "regs"
                       /\ trapdepth[cur] # 0
                       /\ arch = "riscv64" => IF r.mode = "USER" THEN d = 0 /\ e # Nowhere
                                                                 ELSE e = Nowhere)
      /\ UNCHANGED <<arch, cur, alive, kstack, saved_sp, panicked>>

Halted == panicked /\ UNCHANGED vars

-----------------------------------------------------------------------------
Next ==
  \/ ~panicked /\ \/ SyncTrap \/ Interrupt \/ KernelFault \/ TrapReturn \/ cpu_enable_ints
                  \/ \E t \in Thread : scheduler(t) \/ task_exit(t) \/ setup_user_thread(t)
  \/ Halted

Spec == Init /\ [][Next]_vars

-----------------------------------------------------------------------------
(* A call that has slept was switched back to by switchto, which has put the *)
(* program's stack base into sscratch although the kernel runs.              *)
SwitchedBack == arch = "riscv64" /\ cur \in User /\ mode = "KERN" /\ pc[cur] = "switched"

(* The fault that the kernel panics on was pushed below the top of the stack. *)
FaultAtBase == panicked /\ arch = "riscv64" /\ sp # Len(pushed[cur])

(* Nothing that a thread has pushed on its kernel stack is overwritten       *)
(* before it is popped: the state of an interrupted program survives its     *)
(* traps and the switches to other threads.  A fault of the kernel spares    *)
(* it too, save one on riscv64 in a call that has slept, which goes to the   *)
(* base of the stack and over the program's frame; no other thread's stack   *)
(* is touched by that, and the frame that the panic dumps is the fault's.    *)
FramesAreKept ==
  /\ \A t \in Thread : alive[t] =>
       \A i \in 1 .. Len(pushed[t]) : kstack[t][i] = pushed[t][i] \/ (FaultAtBase /\ t = cur)
  /\ panicked => kstack[cur][sp] = pushed[cur][Len(pushed[cur])]

(* Where a trap would push its frame now: in a program on its own kernel     *)
(* stack, which is empty; in the kernel on top of all that the current       *)
(* thread has pushed, but at the base of its stack, over the program's       *)
(* frame, in a call on riscv64 that has slept and was switched back to.      *)
EntryStackIsOwn ==
  /\ TypeOK
  /\ ~panicked => /\ TrapStack = StackAt(cur, IF SwitchedBack THEN 0 ELSE Len(pushed[cur]))
                  /\ IF mode = "USER" THEN pushed[cur] = <<>> ELSE sp = Len(pushed[cur])

(* What Sched builds on: a program can always be interrupted, the idle       *)
(* thread can be interrupted once it has started, and no other kernel code   *)
(* ever can, whatever flags the threads had that were switched from and to.  *)
InterruptsAsAssumed ==
  ~panicked => (Interruptible <=> mode = "USER" \/ (cur = idle /\ pc[idle] = "code"))

(* No assert of riscv_handle_interrupt, thread_trap_enter or thread_trap_exit *)
(* fails, and cswitch and jump_to_user find the frames they pop.              *)
AssertionsHold == assertion
=============================================================================
