------------------------------- MODULE Sched -------------------------------
(***************************************************************************)
(* The task pool, the thread scheduler, sleep/wakeup, spawn/wait/exit and  *)
(* the trap paths that lead into them (scheduler.c, task.c, sleep.c,       *)
(* thread.c, syscall.c, exception.c, interrupt.c, arch/*/trap.c), with     *)
(* what the terminals and the displays contribute to scheduling: the       *)
(* data_ready flag readers wait for, the interrupt character, the dirty    *)
(* flag the renderer thread waits for.                                     *)
(*                                                                         *)
(* The machine has one core and kernel code runs with interrupts off, so   *)
(* kernel code between two context switches is one step.  Interrupts are   *)
(* taken only in user code and in thread_idle.                             *)
(***************************************************************************)
EXTENDS TaskOrder

CONSTANTS
  NUM_DISPLAYS,    \* virtual displays; 0 stands for is_display_active() = false
  EXIT_CODES,      \* values user code passes to sys_exit
  INT_TTYS,        \* terminals at which the interrupt character is typed (a bound for TLC)
  SHELL_MAY_FAIL,  \* may task_spawn_user("shell") return -1 (no such file, not an ELF)?
  NULL

(* Slots that init_scheduler fills, in the order it fills them. *)
root_task == 0
idle_task == 1
renderer == 2
NumKernelTasks == IF NUM_DISPLAYS = 0 THEN 2 ELSE 3 + NUM_DISPLAYS
KernelTask == 0 .. NumKernelTasks - 1

Display == 1 .. NUM_DISPLAYS
Tty == 0 .. NUM_DISPLAYS        \* 0 is g_serial_tty, d is g_display_tty[d - 1]

ExitCode == EXIT_CODES \cup {0, 1}

ASSUME ConstantsAssumption ==
  /\ MAX_TASKS \in Nat
  /\ NUM_DISPLAYS \in Nat
  /\ NumKernelTasks <= MAX_TASKS
  /\ EXIT_CODES \subseteq Nat
  /\ SHELL_MAY_FAIL \in BOOLEAN

(* The addresses passed to sleep() and wakeup(). *)
TtyAt(y) == <<"tty", y>>
ChildOf(t) == <<"waiting_child", t>>
ActiveDisplay == <<"active_display", 0>>
Resource == {TtyAt(y) : y \in Tty} \cup {ChildOf(t) : t \in Task} \cup {ActiveDisplay}

(* NULL is no task, no terminal, no resource a thread sleeps on and no exit code. *)
ASSUME NullAssumption ==
  NULL \notin Task /\ NULL \notin Tty /\ NULL \notin Resource /\ NULL \notin ExitCode

(***************************************************************************)
(* Where a thread continues when switchto() resumes it.  A thread in       *)
(* Entrypoints runs its own code (a fresh one reaches it straight from     *)
(* cswitch); every other value names the call of scheduler() the thread is *)
(* in.  "none": the slot has no kernel stack.                              *)
(***************************************************************************)
Entrypoints == {"user", "root", "idle", "renderer"}
InScheduler == {"timer", "if_idle", "nowait", "wait", "read", "redraw", "exit"}

VARIABLES
  phase,            \* "run": cur executes; "sched": cur has called scheduler();
                    \* "resume": cur is back from switchto(); "panic"
  cur,              \* cur_thread
  valid, state, sleep_reason, trapdepth,
  parent, waiting_child, child_exit_code, pending_sigint, taskmode,
  stdin,            \* the tty of fds[FD_STDIN], NULL for /dev/null
  kpc,              \* the continuation on the kernel stack
  read_tty,         \* the argument of the tty_readin call on the kernel stack
  data_ready,       \* data_ready[y]: a line is waiting in the tty's buffer
  active_display,   \* 0 without displays
  is_dirty          \* displays with something to repaint

taskVars == <<valid, parent, child_exit_code, pending_sigint, taskmode, stdin>>
displayVars == <<active_display, is_dirty>>
vars == <<phase, cur, task_list, after, valid, state, sleep_reason, trapdepth,
          parent, waiting_child, child_exit_code, pending_sigint, taskmode,
          stdin, kpc, read_tty, data_ready, active_display, is_dirty>>

TypeOK ==
  /\ phase \in {"run", "sched", "resume", "panic"}
  /\ cur \in Task
  /\ task_list \subseteq Task
  /\ after \in [Task -> SUBSET Task]
  /\ valid \in [Task -> BOOLEAN]
  /\ state \in [Task -> {"NONE", "READY", "SLEEPING", "ZOMBIE"}]
  /\ sleep_reason \in [Task -> Resource \cup {NULL}]
  /\ trapdepth \in [Task -> {0, 1}]    \* a trap is never taken inside a trap
  /\ parent \in [Task -> Task \cup {NULL}]
  /\ waiting_child \in [Task -> Task \cup {NULL}]
  /\ child_exit_code \in [Task -> ExitCode]
  /\ pending_sigint \in [Task -> BOOLEAN]
  /\ taskmode \in [Task -> {"UNDEFINED", "KERN", "USER"}]
  /\ stdin \in [Task -> Tty \cup {NULL}]
  /\ kpc \in [Task -> Entrypoints \cup InScheduler \cup {"none"}]
  /\ read_tty \in [Task -> Tty \cup {NULL}]
  /\ data_ready \in [Tty -> BOOLEAN]
  /\ active_display \in Tty
  /\ is_dirty \subseteq Display

-----------------------------------------------------------------------------
(* init_scheduler: the kernel tasks, each added at the front of the list,  *)
(* then a switch to the root thread.                                       *)

KernelStdin(t) ==
  IF t = root_task THEN 0 ELSE IF t \in {idle_task, renderer} THEN NULL ELSE t - renderer

KernelEntry(t) ==
  IF t = idle_task THEN "idle"
  ELSE IF t = renderer /\ NUM_DISPLAYS > 0 THEN "renderer" ELSE "root"

init_scheduler ==
  /\ phase = "run"
  /\ cur = root_task
  /\ task_list = KernelTask
  /\ after = [t \in Task |-> {u \in KernelTask : t \in KernelTask /\ u < t}]
  /\ valid = [t \in Task |-> t \in KernelTask]
  /\ state = [t \in Task |-> IF t \in KernelTask THEN "READY" ELSE "NONE"]
  /\ sleep_reason = [t \in Task |-> NULL]
  /\ trapdepth = [t \in Task |-> 0]
  /\ parent = [t \in Task |-> NULL]
  /\ waiting_child = [t \in Task |-> NULL]
  /\ child_exit_code = [t \in Task |-> 0]
  /\ pending_sigint = [t \in Task |-> FALSE]
  /\ taskmode = [t \in Task |-> IF t \in KernelTask THEN "KERN" ELSE "UNDEFINED"]
  /\ stdin = [t \in Task |-> IF t \in KernelTask THEN KernelStdin(t) ELSE NULL]
  /\ kpc = [t \in Task |-> IF t \in KernelTask THEN KernelEntry(t) ELSE "none"]
  /\ read_tty = [t \in Task |-> NULL]
  /\ data_ready = [y \in Tty |-> FALSE]
  /\ active_display = IF NUM_DISPLAYS = 0 THEN 0 ELSE 1
  /\ is_dirty = {}

-----------------------------------------------------------------------------
(* sleep.c: what wakeup() on each resource of R does to a thread. *)

Woken(R) == {t \in task_list : state[t] = "SLEEPING" /\ sleep_reason[t] \in R}
StateAfterWakeup(t, R) == IF t \in Woken(R) THEN "READY" ELSE state[t]
ReasonAfterWakeup(t, R) == IF t \in Woken(R) THEN NULL ELSE sleep_reason[t]

wakeup(R) ==
  /\ state' = [t \in Task |-> StateAfterWakeup(t, R)]
  /\ sleep_reason' = [t \in Task |-> ReasonAfterWakeup(t, R)]

(* sleep() of the current thread on r, at continuation k, after wakeups of R. *)
SleepAfterWakeup(r, k, R) ==
  /\ phase' = "sched"
  /\ state' = [t \in Task |-> IF t = cur THEN "SLEEPING" ELSE StateAfterWakeup(t, R)]
  /\ sleep_reason' = [t \in Task |-> IF t = cur THEN r ELSE ReasonAfterWakeup(t, R)]
  /\ kpc' = [kpc EXCEPT ![cur] = k]

sleep(r, k) == SleepAfterWakeup(r, k, {})

-----------------------------------------------------------------------------
(* scheduler.c *)

(* Mutant: free_task does not look for children of the freed task. *)
free_task_keeps_parents(S) ==
  /\ valid' = [t \in Task |-> valid[t] /\ t \notin S]
  /\ state' = [t \in Task |-> IF t \in S THEN "NONE" ELSE state[t]]
  /\ trapdepth' = [t \in Task |-> IF t \in S THEN 0 ELSE trapdepth[t]]
  /\ taskmode' = [t \in Task |-> IF t \in S THEN "UNDEFINED" ELSE taskmode[t]]
  /\ kpc' = [t \in Task |-> IF t \in S THEN "none" ELSE kpc[t]]
  /\ UNCHANGED <<parent, child_exit_code, pending_sigint, stdin, read_tty>>

(* free_task of every task of S, never the current one, and the clearing of *)
(* the slots: create_empty_task does it when it reuses one, and between the *)
(* two nobody reads them (NoDanglingTask).                                  *)
free_task(S) ==
  /\ valid' = [t \in Task |-> valid[t] /\ t \notin S]
  /\ state' = [t \in Task |-> IF t \in S THEN "NONE" ELSE state[t]]
  /\ trapdepth' = [t \in Task |-> IF t \in S THEN 0 ELSE trapdepth[t]]
  /\ parent' = [t \in Task |-> IF t \in S \/ parent[t] \in S THEN NULL ELSE parent[t]]
  /\ child_exit_code' = [t \in Task |-> IF t \in S THEN 0 ELSE child_exit_code[t]]
  /\ pending_sigint' = [t \in Task |-> pending_sigint[t] /\ t \notin S]
  /\ taskmode' = [t \in Task |-> IF t \in S THEN "UNDEFINED" ELSE taskmode[t]]
  /\ stdin' = [t \in Task |-> IF t \in S THEN NULL ELSE stdin[t]]
  /\ kpc' = [t \in Task |-> IF t \in S THEN "none" ELSE kpc[t]]
  /\ read_tty' = [t \in Task |-> IF t \in S THEN NULL ELSE read_tty[t]]

(* Mutant: reap_zombies does not spare the current thread. *)
Zombies_with_current == {t \in task_list : state[t] = "ZOMBIE"}

Zombies == {t \in task_list : t # cur /\ state[t] = "ZOMBIE"}

reap_zombies == list_del(Zombies) /\ free_task(Zombies)

Runnable(S) == {t \in S : t # idle_task /\ state[t] = "READY"}

(* Mutant: the search always starts at the front of the list. *)
find_runnable_thread_from_front(n) ==
  LET ready == Runnable(task_list \ Zombies)
  IN  FirstOf(n, ready) \/ (ready = {} /\ n = idle_task)

(* n is the thread find_runnable_thread() returns. *)
find_runnable_thread(n) == NextReady(n, cur, Runnable(task_list \ Zombies), idle_task)

switchto(n) ==
  /\ cur' = n
  /\ phase' = IF kpc[n] \in Entrypoints THEN "run" ELSE "resume"

(* scheduler(), up to the switch; what follows it is a Resume action. *)
scheduler ==
  /\ phase = "sched"
  /\ reap_zombies
  /\ \E n \in Task : find_runnable_thread(n) /\ switchto(n)
  /\ UNCHANGED <<sleep_reason, waiting_child, data_ready, displayVars>>

(* The current thread calls scheduler() at continuation k. *)
CallScheduler(k) ==
  /\ phase' = "sched"
  /\ kpc' = [kpc EXCEPT ![cur] = k]

(* The current thread goes on with its own code. *)
BackTo(k) ==
  /\ phase' = "run"
  /\ kpc' = [kpc EXCEPT ![cur] = k]

thread_trap_enter == trapdepth' = [trapdepth EXCEPT ![cur] = @ + 1]

thread_trap_exit == trapdepth' = [trapdepth EXCEPT ![cur] = @ - 1]

InUserMode == phase = "run" /\ kpc[cur] = "user"
InterruptsOn == phase = "run" /\ kpc[cur] \in {"user", "idle"}

-----------------------------------------------------------------------------
(* task.c *)

(* n is the slot create_empty_task() takes: the first one that is not valid. *)
FreeSlot(n) == ~valid[n] /\ \A m \in Task : m < n => valid[m]

PoolFull == \A n \in Task : valid[n]

(* create_user_task_elf, the inheritance of the parent's stdio and          *)
(* list_add: everything task_spawn_user gives the new task except its       *)
(* thread and waiting_child fields, which SpawnWait and SpawnNoWait set     *)
(* together with the parent's.                                              *)
AddTask(n) ==
  /\ valid' = [valid EXCEPT ![n] = TRUE]
  /\ parent' = [parent EXCEPT ![n] = cur]
  /\ child_exit_code' = [child_exit_code EXCEPT ![n] = 0]
  /\ pending_sigint' = [pending_sigint EXCEPT ![n] = FALSE]
  /\ taskmode' = [taskmode EXCEPT ![n] = "USER"]
  /\ stdin' = [stdin EXCEPT ![n] = stdin[cur]]
  /\ read_tty' = [read_tty EXCEPT ![n] = NULL]
  /\ list_add(n)

(* task_spawn_user(path, SPAWN_NOWAIT, argv), up to its call of scheduler(). *)
SpawnNoWait(n) ==
  /\ AddTask(n)
  /\ state' = [state EXCEPT ![n] = "READY"]
  /\ sleep_reason' = [sleep_reason EXCEPT ![n] = NULL]
  /\ waiting_child' = [waiting_child EXCEPT ![n] = NULL]
  /\ trapdepth' = [trapdepth EXCEPT ![n] = 0, ![cur] = @ + 1]
  /\ kpc' = [kpc EXCEPT ![n] = "user", ![cur] = "nowait"]
  /\ phase' = "sched"

(* task_spawn_user(path, SPAWN_WAIT, argv), up to scheduler() in sleep();   *)
(* traps is 1 in a system call, 0 in thread_root; R is what was woken before. *)
SpawnWait(n, traps, R) ==
  /\ AddTask(n)
  /\ state' = [t \in Task |-> IF t = cur THEN "SLEEPING"
                              ELSE IF t = n THEN "READY" ELSE StateAfterWakeup(t, R)]
  /\ sleep_reason' = [t \in Task |-> IF t = cur THEN ChildOf(cur)
                                     ELSE IF t = n THEN NULL ELSE ReasonAfterWakeup(t, R)]
  /\ waiting_child' = [waiting_child EXCEPT ![n] = NULL, ![cur] = n]
  /\ trapdepth' = [trapdepth EXCEPT ![n] = 0, ![cur] = @ + traps]
  /\ kpc' = [kpc EXCEPT ![n] = "user", ![cur] = "wait"]
  /\ phase' = "sched"

(* Mutant: the parent's state is compared with the wrong constant. *)
ParentWaits_if_ready ==
  LET p == parent[cur]
  IN  p # NULL /\ state[p] = "READY" /\ waiting_child[p] = cur

(* Mutant: any child of a sleeping parent ends its wait. *)
ParentWaits_for_any_child ==
  LET p == parent[cur]
  IN  p # NULL /\ state[p] = "SLEEPING" /\ waiting_child[p] # NULL

(* The parent of the current task sleeps in task_spawn_user for it. *)
ParentWaits ==
  LET p == parent[cur]
  IN  p # NULL /\ state[p] = "SLEEPING" /\ waiting_child[p] = cur

(* Mutant: the parent is woken but its waiting_child is not cleared. *)
task_exit_keeps_waiting_child(reason, R) ==
  LET p == parent[cur]
      W == IF ParentWaits THEN R \cup {ChildOf(p)} ELSE R
  IN  /\ child_exit_code' = IF ParentWaits THEN [child_exit_code EXCEPT ![p] = reason]
                                           ELSE child_exit_code
      /\ state' = [t \in Task |-> IF t = cur THEN "ZOMBIE" ELSE StateAfterWakeup(t, W)]
      /\ sleep_reason' = [t \in Task |-> ReasonAfterWakeup(t, W)]
      /\ CallScheduler("exit")
      /\ UNCHANGED <<cur, listVars, valid, parent, pending_sigint, taskmode, stdin, read_tty,
                     waiting_child>>

(* task_exit(current, reason) after wakeups of R, up to its call of scheduler(). *)
task_exit(reason, R) ==
  LET p == parent[cur]
      W == IF ParentWaits THEN R \cup {ChildOf(p)} ELSE R
  IN  /\ waiting_child' = IF ParentWaits THEN [waiting_child EXCEPT ![p] = NULL]
                                         ELSE waiting_child
      /\ child_exit_code' = IF ParentWaits THEN [child_exit_code EXCEPT ![p] = reason]
                                           ELSE child_exit_code
      /\ state' = [t \in Task |-> IF t = cur THEN "ZOMBIE" ELSE StateAfterWakeup(t, W)]
      /\ sleep_reason' = [t \in Task |-> ReasonAfterWakeup(t, W)]
      /\ CallScheduler("exit")
      /\ UNCHANGED <<cur, listVars, valid, parent, pending_sigint, taskmode, stdin, read_tty>>

(* panic(): the machine stops. *)
Panic ==
  /\ phase' = "panic"
  /\ UNCHANGED <<cur, listVars, taskVars, state, sleep_reason, trapdepth, waiting_child,
                 kpc, read_tty, data_ready, displayVars>>

-----------------------------------------------------------------------------
(* Output to terminal y: a display becomes dirty, and the renderer is woken *)
(* when it is the active one.                                               *)

display_putc(y) == is_dirty' = IF y \in Display THEN is_dirty \cup {y} ELSE is_dirty
PutcWakes(y) == IF y \in Display /\ y = active_display THEN {ActiveDisplay} ELSE {}

-----------------------------------------------------------------------------
(* System calls and exceptions of the user code that runs.  The calls not   *)
(* listed here (open, close, getdents, uname, read and write of ramdisk     *)
(* files, every call that fails its checks) and a spawn that fails leave    *)
(* this state as it was: trapdepth goes up and down again.                  *)

(* A consumed line: the readers' loop condition held. *)
TakeLine(y) ==
  /\ data_ready[y]
  /\ data_ready' = [data_ready EXCEPT ![y] = FALSE]

(* sys_read of a console: tty_readin finds a line... *)
SysReadLine(y) ==
  /\ InUserMode
  /\ TakeLine(y)
  /\ UNCHANGED <<phase, cur, listVars, taskVars, state, sleep_reason, trapdepth,
                 waiting_child, kpc, read_tty, displayVars>>

(* ... or sleeps on the tty. *)
SysReadSleep(y) ==
  /\ InUserMode
  /\ ~data_ready[y]
  /\ thread_trap_enter
  /\ sleep(TtyAt(y), "read")
  /\ read_tty' = [read_tty EXCEPT ![cur] = y]
  /\ UNCHANGED <<cur, listVars, taskVars, waiting_child, data_ready, displayVars>>

(* sys_write to the console of display y. *)
SysWrite(y) ==
  /\ InUserMode
  /\ display_putc(y)
  /\ wakeup(PutcWakes(y))
  /\ UNCHANGED <<phase, cur, listVars, taskVars, trapdepth, waiting_child, kpc,
                 read_tty, data_ready, active_display>>

SysExit(code) ==
  /\ InUserMode
  /\ thread_trap_enter
  /\ task_exit(code, {})
  /\ UNCHANGED <<data_ready, displayVars>>

(* do_exception for user code: the crash message, then task_exit(t, 1). *)
Exception ==
  /\ InUserMode
  /\ thread_trap_enter
  /\ display_putc(stdin[cur])
  /\ task_exit(1, PutcWakes(stdin[cur]))
  /\ UNCHANGED <<data_ready, active_display>>

SysSpawnNoWait ==
  /\ InUserMode
  /\ \E n \in Task : FreeSlot(n) /\ SpawnNoWait(n)
  /\ UNCHANGED <<cur, data_ready, displayVars>>

SysSpawnWait ==
  /\ InUserMode
  /\ \E n \in Task : FreeSlot(n) /\ SpawnWait(n, 1, {})
  /\ UNCHANGED <<cur, data_ready, displayVars>>

(* create_empty_task's assert(NULL != t) fails. *)
SysSpawnPanic == InUserMode /\ PoolFull /\ Panic

-----------------------------------------------------------------------------
(* Interrupts, taken in user code or in the idle thread. *)

(* What follows the handler: run_scheduler_if_idle, then the return. *)
run_scheduler_if_idle ==
  \/ cur = idle_task /\ thread_trap_enter /\ CallScheduler("if_idle")
  \/ cur # idle_task /\ UNCHANGED <<phase, kpc, trapdepth>>

TimerIntr ==
  /\ InterruptsOn
  /\ thread_trap_enter
  /\ CallScheduler("timer")
  /\ UNCHANGED <<cur, listVars, taskVars, state, sleep_reason, waiting_child,
                 read_tty, data_ready, displayVars>>

(* task_interrupt_by_tty *)
Interrupted(y) == {t \in task_list : state[t] = "READY" /\ stdin[t] = y}

(* Mutant: the interrupted threads are killed on the spot. *)
TtyInterrupt_kills(y) ==
  /\ y \in INT_TTYS
  /\ state' = [t \in Task |-> IF t \in Interrupted(y) THEN "ZOMBIE" ELSE state[t]]
  /\ UNCHANGED <<pending_sigint, sleep_reason, data_ready, is_dirty>>

(* tty_new_data with the interrupt character. *)
TtyInterrupt(y) ==
  /\ y \in INT_TTYS
  /\ pending_sigint' = [t \in Task |-> pending_sigint[t] \/ t \in Interrupted(y)]
  /\ UNCHANGED <<state, sleep_reason, data_ready, is_dirty>>

(* Mutant: the readers are not woken. *)
TtyNewLine_wakes_nobody(y) ==
  /\ data_ready' = [data_ready EXCEPT ![y] = TRUE]
  /\ display_putc(y)
  /\ wakeup(PutcWakes(y))
  /\ UNCHANGED pending_sigint

(* tty_new_data with a character that ends a line, and its echo. *)
TtyNewLine(y) ==
  /\ data_ready' = [data_ready EXCEPT ![y] = TRUE]
  /\ display_putc(y)
  /\ wakeup(PutcWakes(y) \cup {TtyAt(y)})
  /\ UNCHANGED pending_sigint

(* tty_new_data with another character, and its echo. *)
TtyNewChar(y) ==
  /\ display_putc(y)
  /\ wakeup(PutcWakes(y))
  /\ UNCHANGED <<pending_sigint, data_ready>>

tty_new_data(y) == TtyInterrupt(y) \/ TtyNewLine(y) \/ TtyNewChar(y)

SerialIntr ==
  /\ InterruptsOn
  /\ tty_new_data(0)
  /\ run_scheduler_if_idle
  /\ UNCHANGED <<cur, listVars, valid, parent, child_exit_code, taskmode, stdin,
                 waiting_child, read_tty, active_display>>

(* ps2_intr: display_handle_input gives the key to the active display's tty. *)
KeyboardIntr ==
  /\ InterruptsOn
  /\ active_display \in Display
  /\ tty_new_data(active_display)
  /\ run_scheduler_if_idle
  /\ UNCHANGED <<cur, listVars, valid, parent, child_exit_code, taskmode, stdin,
                 waiting_child, read_tty, active_display>>

(* Mutant: the renderer is not woken. *)
DisplayIntr_wakes_nobody(d) ==
  /\ InterruptsOn
  /\ active_display' = d
  /\ is_dirty' = is_dirty \cup {d}
  /\ run_scheduler_if_idle
  /\ UNCHANGED <<cur, listVars, taskVars, state, sleep_reason, waiting_child, read_tty,
                 data_ready>>

(* ps2_intr with a key that clears or switches the display: display_clear   *)
(* (d is the active display) or display_switch(d).                          *)
DisplayIntr(d) ==
  /\ InterruptsOn
  /\ active_display' = d
  /\ is_dirty' = is_dirty \cup {d}
  /\ wakeup({ActiveDisplay})
  /\ run_scheduler_if_idle
  /\ UNCHANGED <<cur, listVars, taskVars, waiting_child, read_tty, data_ready>>

-----------------------------------------------------------------------------
(* The kernel threads' own code. *)

(* thread_root: display_reset_tty, then a shell in the foreground. *)
ResetDirty == IF stdin[cur] \in Display THEN is_dirty \cup {stdin[cur]} ELSE is_dirty
ResetWakes == IF stdin[cur] \in Display THEN {ActiveDisplay} ELSE {}

RootSpawn ==
  /\ phase = "run"
  /\ kpc[cur] = "root"
  /\ is_dirty' = ResetDirty
  /\ \E n \in Task : FreeSlot(n) /\ SpawnWait(n, 0, ResetWakes)
  /\ UNCHANGED <<cur, data_ready, active_display>>

(* The shell could not be loaded: thread_root tries again at once. *)
RootSpawnFails ==
  /\ SHELL_MAY_FAIL
  /\ phase = "run"
  /\ kpc[cur] = "root"
  /\ is_dirty' = ResetDirty
  /\ wakeup(ResetWakes)
  /\ UNCHANGED <<phase, cur, listVars, taskVars, trapdepth, waiting_child, kpc,
                 read_tty, data_ready, active_display>>

RootSpawnPanic == phase = "run" /\ kpc[cur] = "root" /\ PoolFull /\ Panic

(* thread_display_update: display_redraw, then sleep. *)
Redraw ==
  /\ phase = "run"
  /\ kpc[cur] = "renderer"
  /\ is_dirty' = is_dirty \ {active_display}
  /\ sleep(ActiveDisplay, "redraw")
  /\ UNCHANGED <<cur, listVars, taskVars, trapdepth, waiting_child, read_tty,
                 data_ready, active_display>>

-----------------------------------------------------------------------------
(* The return of scheduler() in the thread switched to. *)

Returns(k) == phase = "resume" /\ kpc[cur] = k /\ ~pending_sigint[cur]

(* Mutant: scheduler() returns without a look at pending_sigint. *)
HandleSignal_ignored ==
  /\ phase = "resume"
  /\ pending_sigint[cur]
  /\ BackTo("user")
  /\ thread_trap_exit
  /\ UNCHANGED <<cur, listVars, taskVars, state, sleep_reason, waiting_child, read_tty,
                 data_ready, displayVars>>

(* task_handle_signals: the thread exits instead of returning. *)
HandleSignal ==
  /\ phase = "resume"
  /\ pending_sigint[cur]
  /\ task_exit(0, {})
  /\ UNCHANGED <<trapdepth, data_ready, displayVars>>

(* Back in timer_intr(), and in the trap handler after it. *)
ReturnTimer ==
  /\ Returns("timer")
  /\ \/ cur = idle_task /\ CallScheduler("if_idle") /\ UNCHANGED trapdepth
     \/ cur # idle_task /\ BackTo("user") /\ thread_trap_exit
  /\ UNCHANGED <<cur, listVars, taskVars, state, sleep_reason, waiting_child,
                 read_tty, data_ready, displayVars>>

ReturnIfIdle ==
  /\ Returns("if_idle")
  /\ BackTo("idle")
  /\ thread_trap_exit
  /\ UNCHANGED <<cur, listVars, taskVars, state, sleep_reason, waiting_child,
                 read_tty, data_ready, displayVars>>

(* Back in task_spawn_user(SPAWN_NOWAIT) and out of the system call. *)
ReturnNoWait ==
  /\ Returns("nowait")
  /\ BackTo("user")
  /\ thread_trap_exit
  /\ UNCHANGED <<cur, listVars, taskVars, state, sleep_reason, waiting_child,
                 read_tty, data_ready, displayVars>>

(* Back in task_spawn_user(SPAWN_WAIT), in a system call or in thread_root. *)
(* It returns child_exit_code, which nobody reads again.                    *)
ReturnWait ==
  /\ Returns("wait")
  /\ \/ taskmode[cur] = "USER" /\ BackTo("user") /\ thread_trap_exit
     \/ taskmode[cur] = "KERN" /\ BackTo("root") /\ UNCHANGED trapdepth
  /\ child_exit_code' = [child_exit_code EXCEPT ![cur] = 0]
  /\ UNCHANGED <<cur, listVars, valid, parent, pending_sigint, taskmode, stdin, state,
                 sleep_reason, waiting_child, read_tty, data_ready, displayVars>>

(* Back in tty_readin: a line is there, or another reader has taken it. *)
ReturnReadLine ==
  /\ Returns("read")
  /\ TakeLine(read_tty[cur])
  /\ BackTo("user")
  /\ thread_trap_exit
  /\ read_tty' = [read_tty EXCEPT ![cur] = NULL]
  /\ UNCHANGED <<cur, listVars, taskVars, state, sleep_reason, waiting_child, displayVars>>

ReturnReadSleep ==
  /\ Returns("read")
  /\ ~data_ready[read_tty[cur]]
  /\ sleep(TtyAt(read_tty[cur]), "read")
  /\ UNCHANGED <<cur, listVars, taskVars, trapdepth, waiting_child, read_tty,
                 data_ready, displayVars>>

ReturnRedraw ==
  /\ Returns("redraw")
  /\ BackTo("renderer")
  /\ UNCHANGED <<cur, listVars, taskVars, state, sleep_reason, trapdepth, waiting_child,
                 read_tty, data_ready, displayVars>>

-----------------------------------------------------------------------------
(* panic() never returns. *)
Halted == phase = "panic" /\ UNCHANGED vars

UserStep ==
  \/ \E y \in Tty : SysReadLine(y) \/ SysReadSleep(y) \/ SysWrite(y)
  \/ \E code \in EXIT_CODES : SysExit(code)
  \/ Exception
  \/ SysSpawnNoWait
  \/ SysSpawnWait
  \/ SysSpawnPanic

DeviceIntr ==
  \/ SerialIntr
  \/ KeyboardIntr
  \/ \E d \in Display : DisplayIntr(d)

KernelStep ==
  \/ scheduler
  \/ HandleSignal
  \/ ReturnTimer
  \/ ReturnIfIdle
  \/ ReturnNoWait
  \/ ReturnWait
  \/ ReturnReadLine
  \/ ReturnReadSleep
  \/ ReturnRedraw
  \/ RootSpawn
  \/ RootSpawnFails
  \/ RootSpawnPanic
  \/ Redraw

Next == UserStep \/ TimerIntr \/ DeviceIntr \/ KernelStep \/ Halted

Spec == init_scheduler /\ [][Next]_vars

(* Kernel code does not stop half-way, and the timer goes off. *)
Fairness == WF_vars(KernelStep) /\ WF_vars(TimerIntr)

FairSpec == Spec /\ Fairness

-----------------------------------------------------------------------------
(* Safety. *)

(* The list holds exactly the valid tasks, and after is the strict total    *)
(* order of a list walk: list_add and list_del keep pool and list in step.  *)
ListMatchesPool ==
  /\ task_list = {t \in Task : valid[t]}
  /\ \A t \in Task : after[t] \subseteq task_list \ {t}
  /\ \A t \in task_list, u \in task_list : t # u => (u \in after[t] <=> t \notin after[u])
  /\ \A t \in task_list : \A u \in after[t] : after[u] \subseteq after[t]

(* The running task was not freed: free_task is never given the current     *)
(* task, its kernel stack is in use.                                        *)
CurrentIsAlive == valid[cur] /\ kpc[cur] # "none"

(* No live task points to a slot free_task has released, so no new task     *)
(* that reuses the slot is taken for a parent or for an awaited child.      *)
NoDanglingTask ==
  \A t \in task_list : /\ parent[t] \in task_list \cup {NULL}
                       /\ waiting_child[t] \in task_list \cup {NULL}

(* A parent asleep in task_spawn_user waits for a child of its own that has *)
(* yet to exit: the wakeup in task_exit is not lost.                        *)
AwaitedChildIsAlive ==
  \A t \in task_list :
    (state[t] = "SLEEPING" /\ sleep_reason[t] = ChildOf(t))
      => \E c \in task_list : /\ waiting_child[t] = c
                              /\ parent[c] = t
                              /\ state[c] # "ZOMBIE"

(* No reader sleeps on a tty that holds a line. *)
NoLostLine ==
  \A t \in task_list, y \in Tty :
    data_ready[y] => ~(state[t] = "SLEEPING" /\ sleep_reason[t] = TtyAt(y))

(* The renderer never sleeps while the active display has something to repaint. *)
NoLostRepaint ==
  \A t \in task_list :
    active_display \in is_dirty => ~(state[t] = "SLEEPING" /\ sleep_reason[t] = ActiveDisplay)

(* The asserts passed on the way back from scheduler() hold in the thread   *)
(* that passes them: those of switchto, sleep and task_spawn_user, the      *)
(* panic of task_exit, those of thread_trap_exit and of                     *)
(* find_runnable_thread.                                                    *)
AssertionsHold ==
  /\ phase \in {"run", "resume"} => state[cur] = "READY"
  /\ phase = "resume" => /\ sleep_reason[cur] = NULL
                         /\ waiting_child[cur] = NULL
                         /\ kpc[cur] # "exit"
                         /\ (taskmode[cur] = "USER" => trapdepth[cur] = 1)
  /\ phase = "run" => trapdepth[cur] = 0
  /\ state[idle_task] = "READY"

(* At most one task waits to be freed besides the one that runs. *)
OneZombie == \A t \in Zombies, u \in Zombies : t = u

-----------------------------------------------------------------------------
(* The inductive invariant.  What the fields of one task say agrees with    *)
(* where its thread is:                                                     *)
TaskConsistent(t) ==
  /\ ~valid[t] => /\ state[t] = "NONE" /\ kpc[t] = "none" /\ parent[t] = NULL
  /\ valid[t] => /\ state[t] # "NONE" /\ kpc[t] # "none" /\ taskmode[t] # "UNDEFINED"
  /\ state[t] = "ZOMBIE" <=> kpc[t] = "exit"
  /\ state[t] = "SLEEPING" <=> sleep_reason[t] # NULL
  /\ sleep_reason[t] # NULL => \/ kpc[t] = "wait" /\ sleep_reason[t] = ChildOf(t)
                               \/ kpc[t] = "read" /\ sleep_reason[t] = TtyAt(read_tty[t])
                               \/ kpc[t] = "redraw" /\ sleep_reason[t] = ActiveDisplay
  /\ waiting_child[t] # NULL => sleep_reason[t] = ChildOf(t)
  /\ kpc[t] = "read" => read_tty[t] # NULL
  /\ kpc[t] \in {"user", "nowait", "read"} => taskmode[t] = "USER"
  /\ kpc[t] \in {"root", "renderer", "redraw"} => taskmode[t] = "KERN" /\ t # idle_task
  /\ kpc[t] = "timer" => t = idle_task \/ taskmode[t] = "USER"
  /\ kpc[t] \in {"idle", "if_idle"} => t = idle_task
  /\ kpc[t] \in Entrypoints => trapdepth[t] = 0
  /\ kpc[t] \in InScheduler => trapdepth[t] = IF taskmode[t] = "USER" \/ t = idle_task THEN 1 ELSE 0

(* The idle thread is never asleep, killed or anything but idle. *)
IdleConsistent ==
  /\ valid[idle_task]
  /\ state[idle_task] = "READY"
  /\ ~pending_sigint[idle_task]
  /\ stdin[idle_task] = NULL
  /\ taskmode[idle_task] = "KERN"
  /\ kpc[idle_task] \in {"idle", "timer", "if_idle"}

(* The current thread is where the phase says. *)
CurrentConsistent ==
  /\ valid[cur]
  /\ phase = "run" => kpc[cur] \in Entrypoints /\ state[cur] = "READY"
  /\ phase = "sched" => kpc[cur] \in InScheduler
  /\ phase = "resume" => kpc[cur] \in InScheduler /\ state[cur] = "READY"

Consistent == (\A t \in Task : TaskConsistent(t)) /\ IdleConsistent /\ CurrentConsistent

(* TypeOK and the agreement of every task's fields, as one inductive claim, *)
(* and the properties that need it.                                         *)
SchedInvariant ==
  /\ TypeOK
  /\ Consistent
  /\ ListMatchesPool
  /\ NoDanglingTask
  /\ AwaitedChildIsAlive
  /\ NoLostLine
  /\ NoLostRepaint
  /\ OneZombie

-----------------------------------------------------------------------------
(* Action properties. *)

(* A thread leaves READY only by its own step; once it has exited it stays  *)
(* a zombie for as long as its slot is valid; and its slot is freed only by *)
(* another thread: reap_zombies never frees the kernel stack it runs on.    *)
OwnStateStep ==
  \A t \in Task :
    /\ state[t] = "READY" /\ state'[t] # "READY" => t = cur
    /\ valid[t] /\ state[t] = "ZOMBIE" /\ valid'[t] => state'[t] = "ZOMBIE"
    /\ valid[t] /\ ~valid'[t] => t # cur /\ state[t] = "ZOMBIE"

OwnStateOnly == [][OwnStateStep]_vars

(* A wait ends only when the awaited child exits, in that very step, and    *)
(* the exit code the parent will return is not touched at any other time.   *)
WaitEndStep ==
  \A t \in Task :
    /\ (waiting_child[t] # NULL /\ waiting_child'[t] # waiting_child[t])
         => waiting_child[t] = cur /\ state'[cur] = "ZOMBIE" /\ state'[t] = "READY"
    /\ (valid[t] /\ valid'[t] /\ child_exit_code'[t] # child_exit_code[t])
         => waiting_child[t] = cur \/ (t = cur /\ phase = "resume")

WaitEndsWithChild == [][WaitEndStep]_vars

-----------------------------------------------------------------------------
(* The abstract specification that the tasks implement.  A thread that was  *)
(* woken in its wait and has not returned from it yet holds its result.     *)
Status(t) ==
  IF ~valid[t] THEN "free" ELSE IF state[t] = "ZOMBIE" THEN "exited" ELSE "alive"

PendingResult(t) ==
  IF kpc[t] = "wait" /\ waiting_child[t] = NULL THEN child_exit_code[t] ELSE NULL

L == INSTANCE Lifecycle WITH
       Code <- ExitCode,
       Founders <- KernelTask,
       status <- [t \in Task |-> Status(t)],
       awaits <- waiting_child,
       result <- [t \in Task |-> PendingResult(t)],
       halted <- phase = "panic"

(* The scheduler, the wakeups and the reaping, with every interrupt and     *)
(* every other task in between, amount to the life cycle of Lifecycle: each *)
(* wait is ended by its own child with that child's exit code, the code     *)
(* outlives the child's slot, and only exited tasks are freed.              *)
ImplementsLifecycle == L!Spec

-----------------------------------------------------------------------------
(* Liveness. *)

(* Every ready thread is scheduled: the walk from the current thread to the *)
(* end of the list and back to its front starves nobody.                    *)
ReadyThreadRuns ==
  \A t \in Task \ {idle_task} : (valid[t] /\ state[t] = "READY") ~> (cur = t \/ phase = "panic")

(* Nobody is forgotten: every ready thread is scheduled, every task that has *)
(* exited is freed, and every result of a wait is taken or its owner exits.  *)
NobodyStarves == ReadyThreadRuns /\ L!Progress

(* A ready thread hit by the interrupt character exits, unless it goes to   *)
(* sleep first, and the exits it causes starve no other thread: a reader    *)
(* that a line has woken is still scheduled, marked or not.                 *)
InterruptKills ==
  /\ \A t \in Task : (valid[t] /\ pending_sigint[t])
                       ~> (state[t] \in {"ZOMBIE", "SLEEPING"} \/ phase = "panic")
  /\ ReadyThreadRuns

-----------------------------------------------------------------------------
(* What the sources say of the kernel's own tasks: KTHREAD functions never  *)
(* return, and root tasks manage the terminals for as long as the system    *)
(* runs.                                                                    *)
KernelTasksNeverExit == \A t \in task_list : taskmode[t] = "KERN" => state[t] # "ZOMBIE"
=============================================================================
