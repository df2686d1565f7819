---------------------------- MODULE SchedProofs ----------------------------
(***************************************************************************)
(* Machine-checked proofs about Sched, for every pool size, every number   *)
(* of displays and every set of exit codes.                                *)
(***************************************************************************)
EXTENDS Sched, TLAPS

(* What the assumptions on the constants say of slots, terminals and exit    *)
(* codes.                                                                    *)
LEMMA ConstantFacts ==
  /\ MAX_TASKS \in Nat
  /\ NUM_DISPLAYS \in Nat
  /\ root_task \in Task
  /\ idle_task \in Task
  /\ KernelTask \subseteq Task
  /\ NUM_DISPLAYS # 0 => 1 \in Display
  /\ Display \subseteq Tty
  /\ 0 \in Tty
  /\ 0 \in ExitCode /\ 1 \in ExitCode
BY ConstantsAssumption
   DEF ConstantsAssumption, NumKernelTasks, Task, KernelTask, root_task, idle_task, Display, Tty,
       ExitCode

(* The state init_scheduler leaves has its type.                             *)
LEMMA TypeInit == init_scheduler => TypeOK
<1> SUFFICES ASSUME init_scheduler PROVE TypeOK
  OBVIOUS
<1> USE ConstantFacts
<1>1. \A t \in KernelTask : KernelStdin(t) \in Tty \cup {NULL}
  BY ConstantsAssumption
     DEF KernelStdin, KernelTask, NumKernelTasks, Tty, root_task, idle_task, renderer,
         ConstantsAssumption
<1>2. \A t \in KernelTask : KernelEntry(t) \in Entrypoints
  BY DEF KernelEntry, Entrypoints
<1> QED
  BY <1>1, <1>2 DEF init_scheduler, TypeOK

(* The types of the resources a thread may sleep on.                         *)
LEMMA ResourceFacts ==
  /\ \A y \in Tty : TtyAt(y) \in Resource /\ TtyAt(y) # NULL /\ TtyAt(y) # ActiveDisplay
  /\ \A t \in Task : ChildOf(t) \in Resource /\ ChildOf(t) # NULL /\ ChildOf(t) # ActiveDisplay
  /\ \A t \in Task, y \in Tty : ChildOf(t) # TtyAt(y)
  /\ \A t \in Task, u \in Task : ChildOf(t) = ChildOf(u) => t = u
  /\ \A y \in Tty, z \in Tty : TtyAt(y) = TtyAt(z) => y = z
  /\ ActiveDisplay \in Resource /\ ActiveDisplay # NULL
<1>1. /\ \A y \in Tty : TtyAt(y) \in Resource
      /\ \A t \in Task : ChildOf(t) \in Resource
      /\ ActiveDisplay \in Resource
  BY DEF Resource
<1>2. QED
  BY <1>1, NullAssumption DEF NullAssumption, TtyAt, ChildOf, ActiveDisplay

(* What the invariant says of the running thread. *)
LEMMA CurrentFacts ==
  ASSUME SchedInvariant
  PROVE  /\ cur \in Task
         /\ phase = "run" => trapdepth[cur] = 0
         /\ phase = "resume" /\ kpc[cur] \in {"timer", "if_idle", "nowait", "read"} => trapdepth[cur] = 1
         /\ phase = "resume" /\ taskmode[cur] = "USER" => trapdepth[cur] = 1
<1>1. cur \in Task /\ TaskConsistent(cur) /\ CurrentConsistent
  BY DEF SchedInvariant, TypeOK, Consistent
<1> QED
  BY <1>1 DEF TaskConsistent, CurrentConsistent, Entrypoints, InScheduler

-----------------------------------------------------------------------------
(* Type correctness. *)

(* wakeup keeps every thread's state and reason in their types.              *)
LEMMA WakeupType ==
  ASSUME TypeOK, NEW R, wakeup(R)
  PROVE  /\ state' \in [Task -> {"NONE", "READY", "SLEEPING", "ZOMBIE"}]
         /\ sleep_reason' \in [Task -> Resource \cup {NULL}]
BY DEF TypeOK, wakeup, StateAfterWakeup, ReasonAfterWakeup

(* tty_new_data keeps the types of the flags and of the threads it wakes.    *)
LEMMA TtyNewDataType ==
  ASSUME TypeOK, NEW y \in Tty, tty_new_data(y)
  PROVE  /\ state' \in [Task -> {"NONE", "READY", "SLEEPING", "ZOMBIE"}]
         /\ sleep_reason' \in [Task -> Resource \cup {NULL}]
         /\ pending_sigint' \in [Task -> BOOLEAN]
         /\ data_ready' \in [Tty -> BOOLEAN]
         /\ is_dirty' \subseteq Display
<1>1. CASE TtyInterrupt(y)
  <2>1. pending_sigint' \in [Task -> BOOLEAN]
    BY <1>1, Zenon DEF TtyInterrupt, TypeOK
  <2> QED
    BY <1>1, <2>1 DEF TtyInterrupt, TypeOK
<1>2. CASE TtyNewLine(y)
  BY <1>2, WakeupType DEF TtyNewLine, display_putc, TypeOK
<1>3. CASE TtyNewChar(y)
  BY <1>3, WakeupType DEF TtyNewChar, display_putc, TypeOK
<1> QED
  BY <1>1, <1>2, <1>3 DEF tty_new_data

(* What tty_new_data does to one thread: nothing, or it wakes it; a parent   *)
(* that waits for its child is not woken.                                    *)
LEMMA TtyNewDataEffect ==
  ASSUME TypeOK, NEW y \in Tty, tty_new_data(y), NEW t \in Task
  PROVE  \/ state'[t] = state[t] /\ sleep_reason'[t] = sleep_reason[t]
         \/ /\ state[t] = "SLEEPING" /\ sleep_reason[t] # ChildOf(t)
            /\ state'[t] = "READY" /\ sleep_reason'[t] = NULL
<1> USE DEF TypeOK
<1>1. CASE TtyInterrupt(y)
  BY <1>1 DEF TtyInterrupt
<1>2. ASSUME NEW R, R \subseteq {ActiveDisplay, TtyAt(y)}, wakeup(R)
      PROVE  \/ state'[t] = state[t] /\ sleep_reason'[t] = sleep_reason[t]
             \/ /\ state[t] = "SLEEPING" /\ sleep_reason[t] # ChildOf(t)
                /\ state'[t] = "READY" /\ sleep_reason'[t] = NULL
  BY <1>2, ResourceFacts DEF wakeup, StateAfterWakeup, ReasonAfterWakeup, Woken
<1>3. PutcWakes(y) \subseteq {ActiveDisplay}
  BY DEF PutcWakes
<1>4. CASE TtyNewLine(y)
  BY <1>2, <1>3, <1>4 DEF TtyNewLine
<1>5. CASE TtyNewChar(y)
  BY <1>2, <1>3, <1>5 DEF TtyNewChar
<1> QED
  BY <1>1, <1>4, <1>5 DEF tty_new_data

(* A spawn with SPAWN_WAIT keeps the types of pool and list.                 *)
LEMMA SpawnWaitType ==
  ASSUME TypeOK, NEW n \in Task, NEW traps \in {0, 1}, NEW R, SpawnWait(n, traps, R),
         trapdepth[cur] = 0
  PROVE  /\ phase' = "sched"
         /\ task_list' \subseteq Task
         /\ after' \in [Task -> SUBSET Task]
         /\ valid' \in [Task -> BOOLEAN]
         /\ state' \in [Task -> {"NONE", "READY", "SLEEPING", "ZOMBIE"}]
         /\ sleep_reason' \in [Task -> Resource \cup {NULL}]
         /\ trapdepth' \in [Task -> {0, 1}]
         /\ parent' \in [Task -> Task \cup {NULL}]
         /\ waiting_child' \in [Task -> Task \cup {NULL}]
         /\ child_exit_code' \in [Task -> ExitCode]
         /\ pending_sigint' \in [Task -> BOOLEAN]
         /\ taskmode' \in [Task -> {"UNDEFINED", "KERN", "USER"}]
         /\ stdin' \in [Task -> Tty \cup {NULL}]
         /\ kpc' \in [Task -> Entrypoints \cup InScheduler \cup {"none"}]
         /\ read_tty' \in [Task -> Tty \cup {NULL}]
<1>1. /\ state' \in [Task -> {"NONE", "READY", "SLEEPING", "ZOMBIE"}]
      /\ sleep_reason' \in [Task -> Resource \cup {NULL}]
  BY ResourceFacts DEF TypeOK, SpawnWait, StateAfterWakeup, ReasonAfterWakeup
<1>2. phase' = "sched" /\ trapdepth' \in [Task -> {0, 1}]
  BY DEF TypeOK, SpawnWait
<1>3. waiting_child' \in [Task -> Task \cup {NULL}]
  BY DEF TypeOK, SpawnWait
<1>4. kpc' \in [Task -> Entrypoints \cup InScheduler \cup {"none"}]
  BY DEF TypeOK, SpawnWait, Entrypoints, InScheduler
<1>5. task_list' \subseteq Task /\ after' \in [Task -> SUBSET Task]
  BY DEF TypeOK, SpawnWait, AddTask, list_add
<1>6. /\ valid' \in [Task -> BOOLEAN]
      /\ parent' \in [Task -> Task \cup {NULL}]
      /\ pending_sigint' \in [Task -> BOOLEAN]
      /\ taskmode' \in [Task -> {"UNDEFINED", "KERN", "USER"}]
  BY DEF TypeOK, SpawnWait, AddTask
<1>7. /\ child_exit_code' \in [Task -> ExitCode]
      /\ stdin' \in [Task -> Tty \cup {NULL}]
      /\ read_tty' \in [Task -> Tty \cup {NULL}]
  BY ConstantFacts DEF TypeOK, SpawnWait, AddTask
<1> QED
  BY <1>1, <1>2, <1>3, <1>4, <1>5, <1>6, <1>7

(* Every step of the kernel keeps the types.                                 *)
LEMMA TypeNext == SchedInvariant /\ [Next]_vars => TypeOK'
<1> SUFFICES ASSUME SchedInvariant, [Next]_vars PROVE TypeOK'
  OBVIOUS
<1> USE ConstantFacts, ResourceFacts, CurrentFacts
    DEF SchedInvariant, TypeOK, listVars, taskVars, displayVars, InScheduler, Entrypoints
<1>1. ASSUME NEW y \in Tty, SysReadLine(y) PROVE TypeOK'
  BY <1>1 DEF SysReadLine, TakeLine
<1>2. ASSUME NEW y \in Tty, SysReadSleep(y) PROVE TypeOK'
  BY <1>2 DEF SysReadSleep, thread_trap_enter, InUserMode, sleep, SleepAfterWakeup,
     StateAfterWakeup, ReasonAfterWakeup
<1>3. ASSUME NEW y \in Tty, SysWrite(y) PROVE TypeOK'
  BY <1>3 DEF SysWrite, display_putc, PutcWakes, wakeup, StateAfterWakeup, ReasonAfterWakeup
<1>4. ASSUME NEW code \in EXIT_CODES, SysExit(code) PROVE TypeOK'
  BY <1>4 DEF SysExit, thread_trap_enter, InUserMode, task_exit, ParentWaits, CallScheduler,
     StateAfterWakeup, ReasonAfterWakeup, ExitCode
<1>5. CASE Exception
  BY <1>5 DEF Exception, thread_trap_enter, InUserMode, display_putc, PutcWakes, task_exit,
     ParentWaits, CallScheduler, StateAfterWakeup, ReasonAfterWakeup
<1>6. CASE SysSpawnNoWait
  <2> PICK n \in Task : SpawnNoWait(n)
    BY <1>6 DEF SysSpawnNoWait
  <2>1. trapdepth' \in [Task -> {0, 1}]
    BY <1>6 DEF SysSpawnNoWait, SpawnNoWait, InUserMode
  <2> QED
    BY <1>6, <2>1 DEF SysSpawnNoWait, SpawnNoWait, AddTask, list_add
<1>7. CASE SysSpawnWait
  <2> PICK n \in Task : SpawnWait(n, 1, {})
    BY <1>7 DEF SysSpawnWait
  <2> QED
    BY <1>7, SpawnWaitType DEF SysSpawnWait, InUserMode
<1>8. CASE SysSpawnPanic
  BY <1>8 DEF SysSpawnPanic, Panic
<1>9. CASE TimerIntr
  BY <1>9 DEF TimerIntr, InterruptsOn, thread_trap_enter, CallScheduler
<1>10. CASE SerialIntr
  <2>1. tty_new_data(0)
    BY <1>10 DEF SerialIntr
  <2>2. /\ phase' \in {"run", "sched"}
        /\ kpc' \in [Task -> Entrypoints \cup InScheduler \cup {"none"}]
        /\ trapdepth' \in [Task -> {0, 1}]
    BY <1>10 DEF SerialIntr, InterruptsOn, run_scheduler_if_idle, thread_trap_enter, CallScheduler
  <2> QED
    BY <1>10, <2>1, <2>2, TtyNewDataType DEF SerialIntr
<1>11. CASE KeyboardIntr
  <2>1. tty_new_data(active_display)
    BY <1>11 DEF KeyboardIntr
  <2>2. /\ phase' \in {"run", "sched"}
        /\ kpc' \in [Task -> Entrypoints \cup InScheduler \cup {"none"}]
        /\ trapdepth' \in [Task -> {0, 1}]
    BY <1>11 DEF KeyboardIntr, InterruptsOn, run_scheduler_if_idle, thread_trap_enter, CallScheduler
  <2> QED
    BY <1>11, <2>1, <2>2, TtyNewDataType DEF KeyboardIntr
<1>12. ASSUME NEW d \in Display, DisplayIntr(d) PROVE TypeOK'
  BY <1>12 DEF DisplayIntr, InterruptsOn, wakeup, StateAfterWakeup, ReasonAfterWakeup,
     run_scheduler_if_idle, thread_trap_enter, CallScheduler
<1>13. CASE scheduler
  BY <1>13 DEF scheduler, reap_zombies, list_del, free_task, find_runnable_thread, NextReady, FirstOf,
     Runnable, Zombies, switchto
<1>14. CASE HandleSignal
  BY <1>14 DEF HandleSignal, task_exit, ParentWaits, CallScheduler, StateAfterWakeup,
     ReasonAfterWakeup
<1>15. CASE ReturnTimer
  BY <1>15 DEF ReturnTimer, Returns, CallScheduler, BackTo, thread_trap_exit
<1>16. CASE ReturnIfIdle
  BY <1>16 DEF ReturnIfIdle, Returns, BackTo, thread_trap_exit
<1>17. CASE ReturnNoWait
  BY <1>17 DEF ReturnNoWait, Returns, BackTo, thread_trap_exit
<1>18. CASE ReturnWait
  BY <1>18 DEF ReturnWait, Returns, BackTo, thread_trap_exit
<1>19. CASE ReturnReadLine
  <2>1. data_ready' \in [Tty -> BOOLEAN]
    BY <1>19 DEF ReturnReadLine, TakeLine
  <2>2. trapdepth' \in [Task -> {0, 1}]
    BY <1>19 DEF ReturnReadLine, Returns, thread_trap_exit
  <2> QED
    BY <1>19, <2>1, <2>2 DEF ReturnReadLine, BackTo
<1>20. CASE ReturnReadSleep
  BY <1>20 DEF ReturnReadSleep, Returns, sleep, SleepAfterWakeup, StateAfterWakeup,
     ReasonAfterWakeup, Consistent, TaskConsistent
<1>21. CASE ReturnRedraw
  BY <1>21 DEF ReturnRedraw, Returns, BackTo
<1>22. CASE RootSpawn
  <2> PICK n \in Task : SpawnWait(n, 0, ResetWakes)
    BY <1>22 DEF RootSpawn
  <2> QED
    BY <1>22, SpawnWaitType DEF RootSpawn, ResetDirty
<1>23. CASE RootSpawnFails
  BY <1>23 DEF RootSpawnFails, ResetDirty, ResetWakes, wakeup, StateAfterWakeup,
     ReasonAfterWakeup
<1>24. CASE RootSpawnPanic
  BY <1>24 DEF RootSpawnPanic, Panic
<1>25. CASE Redraw
  BY <1>25 DEF Redraw, sleep, SleepAfterWakeup, StateAfterWakeup, ReasonAfterWakeup
<1>26. CASE UNCHANGED vars
  BY <1>26 DEF vars
<1> QED
  BY <1>1, <1>2, <1>3, <1>4, <1>5, <1>6, <1>7, <1>8, <1>9, <1>10, <1>11, <1>12, <1>13,
     <1>14, <1>15, <1>16, <1>17, <1>18, <1>19, <1>20, <1>21, <1>22, <1>23, <1>24, <1>25,
     <1>26
     DEF Next, UserStep, DeviceIntr, KernelStep, Halted

-----------------------------------------------------------------------------
(* The agreement of the fields of every task. *)

(* Every step keeps a task's state, reason, trap depth and call in agreement.*)
LEMMA ConsistentNext == SchedInvariant /\ [Next]_vars => Consistent'
<1> SUFFICES ASSUME SchedInvariant, [Next]_vars PROVE Consistent'
  OBVIOUS
<1>0. TypeOK'
  BY TypeNext
<1> USE <1>0, ConstantFacts, ResourceFacts, NullAssumption
    DEF NullAssumption, SchedInvariant, TaskConsistent, IdleConsistent, CurrentConsistent, TypeOK,
        ListMatchesPool, Consistent, listVars, taskVars, displayVars, InScheduler,
        Entrypoints
<1>1. ASSUME NEW y \in Tty, SysReadLine(y) PROVE Consistent'
  <2>1. \A t \in Task : TaskConsistent(t)'
    BY <1>1 DEF SysReadLine, TakeLine
  <2>2. IdleConsistent'
    BY <1>1 DEF SysReadLine, TakeLine
  <2>3. CurrentConsistent'
    BY <1>1 DEF SysReadLine, TakeLine
  <2> QED
    BY <2>1, <2>2, <2>3 DEF Consistent
<1>2. ASSUME NEW y \in Tty, SysReadSleep(y) PROVE Consistent'
  <2>1. \A t \in Task : TaskConsistent(t)'
    BY <1>2 DEF SysReadSleep, thread_trap_enter, InUserMode, sleep, SleepAfterWakeup,
       StateAfterWakeup, ReasonAfterWakeup, Woken
  <2>2. IdleConsistent'
    BY <1>2 DEF SysReadSleep, thread_trap_enter, InUserMode, sleep, SleepAfterWakeup,
       StateAfterWakeup, ReasonAfterWakeup, Woken
  <2>3. CurrentConsistent'
    BY <1>2 DEF SysReadSleep, thread_trap_enter, InUserMode, sleep, SleepAfterWakeup,
       StateAfterWakeup, ReasonAfterWakeup, Woken
  <2> QED
    BY <2>1, <2>2, <2>3 DEF Consistent
<1>3. ASSUME NEW y \in Tty, SysWrite(y) PROVE Consistent'
  <2>1. \A t \in Task : TaskConsistent(t)'
    BY <1>3 DEF SysWrite, display_putc, PutcWakes, wakeup, StateAfterWakeup, ReasonAfterWakeup,
       Woken
  <2>2. IdleConsistent'
    BY <1>3 DEF SysWrite, display_putc, PutcWakes, wakeup, StateAfterWakeup, ReasonAfterWakeup,
       Woken
  <2>3. CurrentConsistent'
    BY <1>3 DEF SysWrite, display_putc, PutcWakes, wakeup, StateAfterWakeup, ReasonAfterWakeup,
       Woken
  <2> QED
    BY <2>1, <2>2, <2>3 DEF Consistent
<1>4. ASSUME NEW code \in EXIT_CODES, SysExit(code) PROVE Consistent'
  <2>1. \A t \in Task : TaskConsistent(t)'
    BY <1>4 DEF SysExit, thread_trap_enter, InUserMode, task_exit, ParentWaits, CallScheduler,
       StateAfterWakeup, ReasonAfterWakeup, Woken
  <2>2. IdleConsistent'
    BY <1>4 DEF SysExit, thread_trap_enter, InUserMode, task_exit, ParentWaits, CallScheduler,
       StateAfterWakeup, ReasonAfterWakeup, Woken
  <2>3. CurrentConsistent'
    BY <1>4 DEF SysExit, thread_trap_enter, InUserMode, task_exit, ParentWaits, CallScheduler,
       StateAfterWakeup, ReasonAfterWakeup, Woken
  <2> QED
    BY <2>1, <2>2, <2>3 DEF Consistent
<1>5. CASE Exception
  <2>1. \A t \in Task : TaskConsistent(t)'
    BY <1>5 DEF Exception, thread_trap_enter, InUserMode, display_putc, PutcWakes, task_exit,
       ParentWaits, CallScheduler, StateAfterWakeup, ReasonAfterWakeup, Woken
  <2>2. IdleConsistent'
    BY <1>5 DEF Exception, thread_trap_enter, InUserMode, display_putc, PutcWakes, task_exit,
       ParentWaits, CallScheduler, StateAfterWakeup, ReasonAfterWakeup, Woken
  <2>3. CurrentConsistent'
    BY <1>5 DEF Exception, thread_trap_enter, InUserMode, display_putc, PutcWakes, task_exit,
       ParentWaits, CallScheduler, StateAfterWakeup, ReasonAfterWakeup, Woken
  <2> QED
    BY <2>1, <2>2, <2>3 DEF Consistent
<1>6. CASE SysSpawnNoWait
  <2>1. \A t \in Task : TaskConsistent(t)'
    BY <1>6 DEF SysSpawnNoWait, InUserMode, SpawnNoWait, AddTask, list_add, FreeSlot
  <2>2. IdleConsistent'
    BY <1>6 DEF SysSpawnNoWait, InUserMode, SpawnNoWait, AddTask, list_add, FreeSlot
  <2>3. CurrentConsistent'
    BY <1>6 DEF SysSpawnNoWait, InUserMode, SpawnNoWait, AddTask, list_add, FreeSlot
  <2> QED
    BY <2>1, <2>2, <2>3 DEF Consistent
<1>7. CASE SysSpawnWait
  <2>1. \A t \in Task : TaskConsistent(t)'
    BY <1>7 DEF SysSpawnWait, InUserMode, SpawnWait, AddTask, list_add, FreeSlot,
       StateAfterWakeup, ReasonAfterWakeup, Woken
  <2>2. IdleConsistent'
    BY <1>7 DEF SysSpawnWait, InUserMode, SpawnWait, AddTask, list_add, FreeSlot,
       StateAfterWakeup, ReasonAfterWakeup, Woken
  <2>3. CurrentConsistent'
    BY <1>7 DEF SysSpawnWait, InUserMode, SpawnWait, AddTask, list_add, FreeSlot,
       StateAfterWakeup, ReasonAfterWakeup, Woken
  <2> QED
    BY <2>1, <2>2, <2>3 DEF Consistent
<1>8. CASE SysSpawnPanic
  <2>1. \A t \in Task : TaskConsistent(t)'
    BY <1>8 DEF SysSpawnPanic, Panic
  <2>2. IdleConsistent'
    BY <1>8 DEF SysSpawnPanic, Panic
  <2>3. CurrentConsistent'
    BY <1>8 DEF SysSpawnPanic, Panic
  <2> QED
    BY <2>1, <2>2, <2>3 DEF Consistent
<1>9. CASE TimerIntr
  <2>1. \A t \in Task : TaskConsistent(t)'
    BY <1>9 DEF TimerIntr, InterruptsOn, thread_trap_enter, CallScheduler
  <2>2. IdleConsistent'
    BY <1>9 DEF TimerIntr, InterruptsOn, thread_trap_enter, CallScheduler
  <2>3. CurrentConsistent'
    BY <1>9 DEF TimerIntr, InterruptsOn, thread_trap_enter, CallScheduler
  <2> QED
    BY <2>1, <2>2, <2>3 DEF Consistent
<1>10. CASE SerialIntr
  <2>1. \A t \in Task : TaskConsistent(t)'
    <3> SUFFICES ASSUME NEW t \in Task PROVE TaskConsistent(t)'
      OBVIOUS
    <3>1. \/ state'[t] = state[t] /\ sleep_reason'[t] = sleep_reason[t]
          \/ /\ state[t] = "SLEEPING" /\ sleep_reason[t] # ChildOf(t)
             /\ state'[t] = "READY" /\ sleep_reason'[t] = NULL
      BY <1>10, TtyNewDataEffect DEF SerialIntr
    <3>2. CASE cur = idle_task
      BY <1>10, <3>1, <3>2 DEF SerialIntr, InterruptsOn, run_scheduler_if_idle, thread_trap_enter,
         CallScheduler
    <3>3. CASE cur # idle_task
      BY <1>10, <3>1, <3>3 DEF SerialIntr, InterruptsOn, run_scheduler_if_idle
    <3> QED
      BY <3>2, <3>3
  <2>2. IdleConsistent'
    <3>1. state'[idle_task] = "READY"
      BY <1>10, TtyNewDataEffect DEF SerialIntr
    <3>2. ~pending_sigint'[idle_task]
      BY <1>10 DEF SerialIntr, tty_new_data, TtyInterrupt, TtyNewLine, TtyNewChar, Interrupted
    <3>3. kpc'[idle_task] \in {"idle", "timer", "if_idle"}
      BY <1>10 DEF SerialIntr, InterruptsOn, run_scheduler_if_idle, CallScheduler
    <3> QED
      BY <1>10, <3>1, <3>2, <3>3 DEF SerialIntr
  <2>3. CurrentConsistent'
    BY <1>10 DEF SerialIntr, InterruptsOn, tty_new_data, TtyInterrupt, TtyNewLine, TtyNewChar,
       display_putc, Interrupted, PutcWakes, wakeup, StateAfterWakeup, ReasonAfterWakeup,
       run_scheduler_if_idle, thread_trap_enter, CallScheduler, Woken
  <2> QED
    BY <2>1, <2>2, <2>3 DEF Consistent
<1>11. CASE KeyboardIntr
  <2>1. \A t \in Task : TaskConsistent(t)'
    <3> SUFFICES ASSUME NEW t \in Task PROVE TaskConsistent(t)'
      OBVIOUS
    <3>1. \/ state'[t] = state[t] /\ sleep_reason'[t] = sleep_reason[t]
          \/ /\ state[t] = "SLEEPING" /\ sleep_reason[t] # ChildOf(t)
             /\ state'[t] = "READY" /\ sleep_reason'[t] = NULL
      BY <1>11, TtyNewDataEffect DEF KeyboardIntr
    <3>2. CASE cur = idle_task
      BY <1>11, <3>1, <3>2 DEF KeyboardIntr, InterruptsOn, run_scheduler_if_idle, thread_trap_enter,
         CallScheduler
    <3>3. CASE cur # idle_task
      BY <1>11, <3>1, <3>3 DEF KeyboardIntr, InterruptsOn, run_scheduler_if_idle
    <3> QED
      BY <3>2, <3>3
  <2>2. IdleConsistent'
    <3>1. state'[idle_task] = "READY"
      BY <1>11, TtyNewDataEffect DEF KeyboardIntr
    <3>2. ~pending_sigint'[idle_task]
      BY <1>11 DEF KeyboardIntr, tty_new_data, TtyInterrupt, TtyNewLine, TtyNewChar, Interrupted
    <3>3. kpc'[idle_task] \in {"idle", "timer", "if_idle"}
      BY <1>11 DEF KeyboardIntr, InterruptsOn, run_scheduler_if_idle, CallScheduler
    <3> QED
      BY <1>11, <3>1, <3>2, <3>3 DEF KeyboardIntr
  <2>3. CurrentConsistent'
    BY <1>11 DEF KeyboardIntr, InterruptsOn, tty_new_data, TtyInterrupt, TtyNewLine, TtyNewChar,
       display_putc, Interrupted, PutcWakes, wakeup, StateAfterWakeup, ReasonAfterWakeup,
       run_scheduler_if_idle, thread_trap_enter, CallScheduler, Woken
  <2> QED
    BY <2>1, <2>2, <2>3 DEF Consistent
<1>12. ASSUME NEW d \in Display, DisplayIntr(d) PROVE Consistent'
  <2>1. \A t \in Task : TaskConsistent(t)'
    BY <1>12 DEF DisplayIntr, InterruptsOn, wakeup, StateAfterWakeup, ReasonAfterWakeup,
       run_scheduler_if_idle, thread_trap_enter, CallScheduler, Woken
  <2>2. IdleConsistent'
    BY <1>12 DEF DisplayIntr, InterruptsOn, wakeup, StateAfterWakeup, ReasonAfterWakeup,
       run_scheduler_if_idle, thread_trap_enter, CallScheduler, Woken
  <2>3. CurrentConsistent'
    BY <1>12 DEF DisplayIntr, InterruptsOn, wakeup, StateAfterWakeup, ReasonAfterWakeup,
       run_scheduler_if_idle, thread_trap_enter, CallScheduler, Woken
  <2> QED
    BY <2>1, <2>2, <2>3 DEF Consistent
<1>13. CASE scheduler
  <2>1. \A t \in Task : TaskConsistent(t)'
    BY <1>13 DEF scheduler, reap_zombies, list_del, free_task, find_runnable_thread, NextReady, FirstOf,
       Runnable, Zombies, switchto
  <2>2. IdleConsistent'
    BY <1>13 DEF scheduler, reap_zombies, list_del, free_task, find_runnable_thread, NextReady, FirstOf,
       Runnable, Zombies, switchto
  <2>3. CurrentConsistent'
    BY <1>13 DEF scheduler, reap_zombies, list_del, free_task, find_runnable_thread, NextReady, FirstOf,
       Runnable, Zombies, switchto
  <2> QED
    BY <2>1, <2>2, <2>3 DEF Consistent
<1>14. CASE HandleSignal
  <2>1. \A t \in Task : TaskConsistent(t)'
    BY <1>14 DEF HandleSignal, task_exit, ParentWaits, CallScheduler, StateAfterWakeup,
       ReasonAfterWakeup, Woken
  <2>2. IdleConsistent'
    BY <1>14 DEF HandleSignal, task_exit, ParentWaits, CallScheduler, StateAfterWakeup,
       ReasonAfterWakeup, Woken
  <2>3. CurrentConsistent'
    BY <1>14 DEF HandleSignal, task_exit, ParentWaits, CallScheduler, StateAfterWakeup,
       ReasonAfterWakeup, Woken
  <2> QED
    BY <2>1, <2>2, <2>3 DEF Consistent
<1>15. CASE ReturnTimer
  <2>1. \A t \in Task : TaskConsistent(t)'
    BY <1>15 DEF ReturnTimer, Returns, CallScheduler, BackTo, thread_trap_exit
  <2>2. IdleConsistent'
    BY <1>15 DEF ReturnTimer, Returns, CallScheduler, BackTo, thread_trap_exit
  <2>3. CurrentConsistent'
    BY <1>15 DEF ReturnTimer, Returns, CallScheduler, BackTo, thread_trap_exit
  <2> QED
    BY <2>1, <2>2, <2>3 DEF Consistent
<1>16. CASE ReturnIfIdle
  <2>1. \A t \in Task : TaskConsistent(t)'
    BY <1>16 DEF ReturnIfIdle, Returns, BackTo, thread_trap_exit
  <2>2. IdleConsistent'
    BY <1>16 DEF ReturnIfIdle, Returns, BackTo, thread_trap_exit
  <2>3. CurrentConsistent'
    BY <1>16 DEF ReturnIfIdle, Returns, BackTo, thread_trap_exit
  <2> QED
    BY <2>1, <2>2, <2>3 DEF Consistent
<1>17. CASE ReturnNoWait
  <2>1. \A t \in Task : TaskConsistent(t)'
    BY <1>17 DEF ReturnNoWait, Returns, BackTo, thread_trap_exit
  <2>2. IdleConsistent'
    BY <1>17 DEF ReturnNoWait, Returns, BackTo, thread_trap_exit
  <2>3. CurrentConsistent'
    BY <1>17 DEF ReturnNoWait, Returns, BackTo, thread_trap_exit
  <2> QED
    BY <2>1, <2>2, <2>3 DEF Consistent
<1>18. CASE ReturnWait
  <2>1. \A t \in Task : TaskConsistent(t)'
    BY <1>18 DEF ReturnWait, Returns, BackTo, thread_trap_exit
  <2>2. IdleConsistent'
    BY <1>18 DEF ReturnWait, Returns, BackTo, thread_trap_exit
  <2>3. CurrentConsistent'
    BY <1>18 DEF ReturnWait, Returns, BackTo, thread_trap_exit
  <2> QED
    BY <2>1, <2>2, <2>3 DEF Consistent
<1>19. CASE ReturnReadLine
  <2>1. \A t \in Task : TaskConsistent(t)'
    BY <1>19 DEF ReturnReadLine, Returns, TakeLine, BackTo, thread_trap_exit
  <2>2. IdleConsistent'
    BY <1>19 DEF ReturnReadLine, Returns, TakeLine, BackTo, thread_trap_exit
  <2>3. CurrentConsistent'
    BY <1>19 DEF ReturnReadLine, Returns, TakeLine, BackTo, thread_trap_exit
  <2> QED
    BY <2>1, <2>2, <2>3 DEF Consistent
<1>20. CASE ReturnReadSleep
  <2>1. \A t \in Task : TaskConsistent(t)'
    BY <1>20 DEF ReturnReadSleep, Returns, sleep, SleepAfterWakeup, StateAfterWakeup,
       ReasonAfterWakeup, Woken
  <2>2. IdleConsistent'
    BY <1>20 DEF ReturnReadSleep, Returns, sleep, SleepAfterWakeup, StateAfterWakeup,
       ReasonAfterWakeup, Woken
  <2>3. CurrentConsistent'
    BY <1>20 DEF ReturnReadSleep, Returns, sleep, SleepAfterWakeup, StateAfterWakeup,
       ReasonAfterWakeup, Woken
  <2> QED
    BY <2>1, <2>2, <2>3 DEF Consistent
<1>21. CASE ReturnRedraw
  <2>1. \A t \in Task : TaskConsistent(t)'
    BY <1>21 DEF ReturnRedraw, Returns, BackTo
  <2>2. IdleConsistent'
    BY <1>21 DEF ReturnRedraw, Returns, BackTo
  <2>3. CurrentConsistent'
    BY <1>21 DEF ReturnRedraw, Returns, BackTo
  <2> QED
    BY <2>1, <2>2, <2>3 DEF Consistent
<1>22. CASE RootSpawn
  <2>1. \A t \in Task : TaskConsistent(t)'
    BY <1>22 DEF RootSpawn, ResetDirty, ResetWakes, SpawnWait, AddTask, list_add, FreeSlot,
       StateAfterWakeup, ReasonAfterWakeup, Woken
  <2>2. IdleConsistent'
    BY <1>22 DEF RootSpawn, ResetDirty, ResetWakes, SpawnWait, AddTask, list_add, FreeSlot,
       StateAfterWakeup, ReasonAfterWakeup, Woken
  <2>3. CurrentConsistent'
    BY <1>22 DEF RootSpawn, ResetDirty, ResetWakes, SpawnWait, AddTask, list_add, FreeSlot,
       StateAfterWakeup, ReasonAfterWakeup, Woken
  <2> QED
    BY <2>1, <2>2, <2>3 DEF Consistent
<1>23. CASE RootSpawnFails
  <2>1. \A t \in Task : TaskConsistent(t)'
    BY <1>23 DEF RootSpawnFails, ResetDirty, ResetWakes, wakeup, StateAfterWakeup,
       ReasonAfterWakeup, Woken
  <2>2. IdleConsistent'
    BY <1>23 DEF RootSpawnFails, ResetDirty, ResetWakes, wakeup, StateAfterWakeup,
       ReasonAfterWakeup, Woken
  <2>3. CurrentConsistent'
    BY <1>23 DEF RootSpawnFails, ResetDirty, ResetWakes, wakeup, StateAfterWakeup,
       ReasonAfterWakeup, Woken
  <2> QED
    BY <2>1, <2>2, <2>3 DEF Consistent
<1>24. CASE RootSpawnPanic
  <2>1. \A t \in Task : TaskConsistent(t)'
    BY <1>24 DEF RootSpawnPanic, Panic
  <2>2. IdleConsistent'
    BY <1>24 DEF RootSpawnPanic, Panic
  <2>3. CurrentConsistent'
    BY <1>24 DEF RootSpawnPanic, Panic
  <2> QED
    BY <2>1, <2>2, <2>3 DEF Consistent
<1>25. CASE Redraw
  <2>1. \A t \in Task : TaskConsistent(t)'
    BY <1>25 DEF Redraw, sleep, SleepAfterWakeup, StateAfterWakeup, ReasonAfterWakeup, Woken
  <2>2. IdleConsistent'
    BY <1>25 DEF Redraw, sleep, SleepAfterWakeup, StateAfterWakeup, ReasonAfterWakeup, Woken
  <2>3. CurrentConsistent'
    BY <1>25 DEF Redraw, sleep, SleepAfterWakeup, StateAfterWakeup, ReasonAfterWakeup, Woken
  <2> QED
    BY <2>1, <2>2, <2>3 DEF Consistent
<1>26. CASE UNCHANGED vars
  BY <1>26 DEF vars
<1> QED
  BY <1>1, <1>2, <1>3, <1>4, <1>5, <1>6, <1>7, <1>8, <1>9, <1>10, <1>11, <1>12, <1>13,
     <1>14, <1>15, <1>16, <1>17, <1>18, <1>19, <1>20, <1>21, <1>22, <1>23, <1>24, <1>25,
     <1>26
     DEF Next, UserStep, DeviceIntr, KernelStep, Halted

-----------------------------------------------------------------------------
(* The list and the pool. *)

(* Every step keeps task_list the set of valid slots.                        *)
LEMMA ListNext == SchedInvariant /\ [Next]_vars => ListMatchesPool'
<1> SUFFICES ASSUME SchedInvariant, [Next]_vars PROVE ListMatchesPool'
  OBVIOUS
<1>0. TypeOK'
  BY TypeNext
<1> USE <1>0, ConstantFacts
    DEF SchedInvariant, TypeOK, ListMatchesPool, listVars, taskVars, displayVars
<1>1. ASSUME NEW y \in Tty, SysReadLine(y) PROVE ListMatchesPool'
  BY <1>1 DEF SysReadLine, TakeLine
<1>2. ASSUME NEW y \in Tty, SysReadSleep(y) PROVE ListMatchesPool'
  BY <1>2 DEF SysReadSleep, thread_trap_enter, InUserMode, sleep, SleepAfterWakeup,
     StateAfterWakeup, ReasonAfterWakeup, Woken
<1>3. ASSUME NEW y \in Tty, SysWrite(y) PROVE ListMatchesPool'
  BY <1>3 DEF SysWrite, display_putc, PutcWakes, wakeup, StateAfterWakeup, ReasonAfterWakeup,
     Woken
<1>4. ASSUME NEW code \in EXIT_CODES, SysExit(code) PROVE ListMatchesPool'
  BY <1>4 DEF SysExit, thread_trap_enter, InUserMode, task_exit, ParentWaits, CallScheduler,
     StateAfterWakeup, ReasonAfterWakeup, Woken
<1>5. CASE Exception
  BY <1>5 DEF Exception, thread_trap_enter, InUserMode, display_putc, PutcWakes, task_exit,
     ParentWaits, CallScheduler, StateAfterWakeup, ReasonAfterWakeup, Woken
<1>6. CASE SysSpawnNoWait
  BY <1>6 DEF SysSpawnNoWait, InUserMode, SpawnNoWait, AddTask, list_add, FreeSlot
<1>7. CASE SysSpawnWait
  BY <1>7 DEF SysSpawnWait, InUserMode, SpawnWait, AddTask, list_add, FreeSlot,
     StateAfterWakeup, ReasonAfterWakeup, Woken
<1>8. CASE SerialIntr
  BY <1>8 DEF SerialIntr, InterruptsOn, tty_new_data, TtyInterrupt, TtyNewLine, TtyNewChar,
     display_putc, Interrupted, PutcWakes, wakeup, StateAfterWakeup, ReasonAfterWakeup,
     run_scheduler_if_idle, thread_trap_enter, CallScheduler, Woken
<1>9. CASE KeyboardIntr
  BY <1>9 DEF KeyboardIntr, InterruptsOn, tty_new_data, TtyInterrupt, TtyNewLine, TtyNewChar,
     display_putc, Interrupted, PutcWakes, wakeup, StateAfterWakeup, ReasonAfterWakeup,
     run_scheduler_if_idle, thread_trap_enter, CallScheduler, Woken
<1>10. ASSUME NEW d \in Display, DisplayIntr(d) PROVE ListMatchesPool'
  BY <1>10 DEF DisplayIntr, InterruptsOn, wakeup, StateAfterWakeup, ReasonAfterWakeup,
     run_scheduler_if_idle, thread_trap_enter, CallScheduler, Woken
<1>11. CASE scheduler
  <2>1. /\ task_list' = task_list \ Zombies
        /\ after' = [t \in Task |-> IF t \in Zombies THEN {} ELSE after[t] \ Zombies]
        /\ valid' = [t \in Task |-> valid[t] /\ t \notin Zombies]
    BY <1>11 DEF scheduler, reap_zombies, list_del, free_task
  <2>2. task_list' = {t \in Task : valid'[t]}
    BY <2>1
  <2>3. \A t \in Task : after'[t] \subseteq task_list' \ {t}
    BY <2>1
  <2>4. \A t \in task_list', u \in task_list' : t # u => (u \in after'[t] <=> t \notin after'[u])
    BY <2>1
  <2>5. \A t \in task_list' : \A u \in after'[t] : after'[u] \subseteq after'[t]
    BY <2>1
  <2> QED
    BY <2>2, <2>3, <2>4, <2>5
<1>12. CASE HandleSignal
  BY <1>12 DEF HandleSignal, task_exit, ParentWaits, CallScheduler, StateAfterWakeup,
     ReasonAfterWakeup, Woken
<1>13. CASE ReturnReadSleep
  BY <1>13 DEF ReturnReadSleep, Returns, sleep, SleepAfterWakeup, StateAfterWakeup,
     ReasonAfterWakeup, Woken
<1>14. CASE RootSpawn
  BY <1>14 DEF RootSpawn, ResetDirty, ResetWakes, SpawnWait, AddTask, list_add, FreeSlot,
     StateAfterWakeup, ReasonAfterWakeup, Woken
<1>15. CASE RootSpawnFails
  BY <1>15 DEF RootSpawnFails, ResetDirty, ResetWakes, wakeup, StateAfterWakeup,
     ReasonAfterWakeup, Woken
<1>16. CASE Redraw
  BY <1>16 DEF Redraw, sleep, SleepAfterWakeup, StateAfterWakeup, ReasonAfterWakeup, Woken
<1>17. CASE SysSpawnPanic \/ TimerIntr \/ ReturnTimer \/ ReturnIfIdle \/ ReturnNoWait
          \/ ReturnWait \/ ReturnReadLine \/ ReturnRedraw \/ RootSpawnPanic
  BY <1>17 DEF SysSpawnPanic, Panic, TimerIntr, thread_trap_enter, CallScheduler,
     ReturnTimer, Returns, BackTo, thread_trap_exit, ReturnIfIdle, ReturnNoWait, ReturnWait,
     ReturnReadLine, TakeLine, ReturnRedraw, RootSpawnPanic
<1>18. CASE UNCHANGED vars
  BY <1>18 DEF vars
<1> QED
  BY <1>1, <1>2, <1>3, <1>4, <1>5, <1>6, <1>7, <1>8, <1>9, <1>10, <1>11, <1>12, <1>13,
     <1>14, <1>15, <1>16, <1>17, <1>18
     DEF Next, UserStep, DeviceIntr, KernelStep, Halted

(* Pointers between tasks. *)

(* No step leaves a live task with a pointer to a freed one.                 *)
LEMMA DanglingNext == SchedInvariant /\ [Next]_vars => NoDanglingTask'
<1> SUFFICES ASSUME SchedInvariant, [Next]_vars PROVE NoDanglingTask'
  OBVIOUS
<1>0. TypeOK'
  BY TypeNext
<1> USE <1>0, ConstantFacts, ResourceFacts, NullAssumption
    DEF NullAssumption, SchedInvariant, AwaitedChildIsAlive, NoDanglingTask, ListMatchesPool, TypeOK,
        Consistent, TaskConsistent, CurrentConsistent, listVars, taskVars, displayVars
<1>1. ASSUME NEW y \in Tty, SysReadLine(y) PROVE NoDanglingTask'
  BY <1>1 DEF SysReadLine, TakeLine
<1>2. ASSUME NEW y \in Tty, SysReadSleep(y) PROVE NoDanglingTask'
  BY <1>2 DEF SysReadSleep, thread_trap_enter, InUserMode, sleep, SleepAfterWakeup,
     StateAfterWakeup, ReasonAfterWakeup, Woken
<1>3. ASSUME NEW y \in Tty, SysWrite(y) PROVE NoDanglingTask'
  BY <1>3 DEF SysWrite, display_putc, PutcWakes, wakeup, StateAfterWakeup, ReasonAfterWakeup,
     Woken
<1>4. ASSUME NEW code \in EXIT_CODES, SysExit(code) PROVE NoDanglingTask'
  BY <1>4 DEF SysExit, thread_trap_enter, InUserMode, task_exit, ParentWaits, CallScheduler,
     StateAfterWakeup, ReasonAfterWakeup, Woken
<1>5. CASE Exception
  BY <1>5 DEF Exception, thread_trap_enter, InUserMode, display_putc, PutcWakes, task_exit,
     ParentWaits, CallScheduler, StateAfterWakeup, ReasonAfterWakeup, Woken
<1>6. CASE SysSpawnNoWait
  BY <1>6 DEF SysSpawnNoWait, InUserMode, SpawnNoWait, AddTask, list_add, FreeSlot
<1>7. CASE SysSpawnWait
  BY <1>7 DEF SysSpawnWait, InUserMode, SpawnWait, AddTask, list_add, FreeSlot,
     StateAfterWakeup, ReasonAfterWakeup, Woken
<1>8. CASE SerialIntr
  BY <1>8 DEF SerialIntr, InterruptsOn, tty_new_data, TtyInterrupt, TtyNewLine, TtyNewChar,
     display_putc, Interrupted, PutcWakes, wakeup, StateAfterWakeup, ReasonAfterWakeup,
     run_scheduler_if_idle, thread_trap_enter, CallScheduler, Woken
<1>9. CASE KeyboardIntr
  BY <1>9 DEF KeyboardIntr, InterruptsOn, tty_new_data, TtyInterrupt, TtyNewLine, TtyNewChar,
     display_putc, Interrupted, PutcWakes, wakeup, StateAfterWakeup, ReasonAfterWakeup,
     run_scheduler_if_idle, thread_trap_enter, CallScheduler, Woken
<1>10. ASSUME NEW d \in Display, DisplayIntr(d) PROVE NoDanglingTask'
  BY <1>10 DEF DisplayIntr, InterruptsOn, wakeup, StateAfterWakeup, ReasonAfterWakeup,
     run_scheduler_if_idle, thread_trap_enter, CallScheduler, Woken
<1>11. CASE scheduler
  BY <1>11 DEF scheduler, reap_zombies, list_del, free_task, find_runnable_thread, NextReady, FirstOf,
     Runnable, Zombies, switchto
<1>12. CASE HandleSignal
  BY <1>12 DEF HandleSignal, task_exit, ParentWaits, CallScheduler, StateAfterWakeup,
     ReasonAfterWakeup, Woken
<1>13. CASE ReturnReadSleep
  BY <1>13 DEF ReturnReadSleep, Returns, sleep, SleepAfterWakeup, StateAfterWakeup,
     ReasonAfterWakeup, Woken
<1>14. CASE RootSpawn
  BY <1>14 DEF RootSpawn, ResetDirty, ResetWakes, SpawnWait, AddTask, list_add, FreeSlot,
     StateAfterWakeup, ReasonAfterWakeup, Woken
<1>15. CASE RootSpawnFails
  BY <1>15 DEF RootSpawnFails, ResetDirty, ResetWakes, wakeup, StateAfterWakeup,
     ReasonAfterWakeup, Woken
<1>16. CASE Redraw
  BY <1>16 DEF Redraw, sleep, SleepAfterWakeup, StateAfterWakeup, ReasonAfterWakeup, Woken
<1>17. CASE SysSpawnPanic \/ TimerIntr \/ ReturnTimer \/ ReturnIfIdle \/ ReturnNoWait
          \/ ReturnWait \/ ReturnReadLine \/ ReturnRedraw \/ RootSpawnPanic
  BY <1>17 DEF SysSpawnPanic, Panic, TimerIntr, thread_trap_enter, CallScheduler,
     ReturnTimer, Returns, BackTo, thread_trap_exit, ReturnIfIdle, ReturnNoWait, ReturnWait,
     ReturnReadLine, TakeLine, ReturnRedraw, RootSpawnPanic
<1>18. CASE UNCHANGED vars
  BY <1>18 DEF vars
<1> QED
  BY <1>1, <1>2, <1>3, <1>4, <1>5, <1>6, <1>7, <1>8, <1>9, <1>10, <1>11, <1>12, <1>13,
     <1>14, <1>15, <1>16, <1>17, <1>18
     DEF Next, UserStep, DeviceIntr, KernelStep, Halted

(* Waiting for a child. *)

(* No step leaves a parent asleep on a child that is gone.                   *)
LEMMA AwaitedNext == SchedInvariant /\ [Next]_vars => AwaitedChildIsAlive'
<1> SUFFICES ASSUME SchedInvariant, [Next]_vars PROVE AwaitedChildIsAlive'
  OBVIOUS
<1>0. TypeOK'
  BY TypeNext
<1> USE <1>0, ConstantFacts, ResourceFacts, NullAssumption
    DEF NullAssumption, SchedInvariant, NoDanglingTask, AwaitedChildIsAlive, ListMatchesPool, TypeOK,
        Consistent, TaskConsistent, CurrentConsistent, listVars, taskVars, displayVars
<1>1. ASSUME NEW y \in Tty, SysReadLine(y) PROVE AwaitedChildIsAlive'
  BY <1>1 DEF SysReadLine, TakeLine
<1>2. ASSUME NEW y \in Tty, SysReadSleep(y) PROVE AwaitedChildIsAlive'
  BY <1>2 DEF SysReadSleep, thread_trap_enter, InUserMode, sleep, SleepAfterWakeup,
     StateAfterWakeup, ReasonAfterWakeup, Woken
<1>3. ASSUME NEW y \in Tty, SysWrite(y) PROVE AwaitedChildIsAlive'
  BY <1>3 DEF SysWrite, display_putc, PutcWakes, wakeup, StateAfterWakeup, ReasonAfterWakeup,
     Woken
<1>4. ASSUME NEW code \in EXIT_CODES, SysExit(code) PROVE AwaitedChildIsAlive'
  BY <1>4 DEF SysExit, thread_trap_enter, InUserMode, task_exit, ParentWaits, CallScheduler,
     StateAfterWakeup, ReasonAfterWakeup, Woken
<1>5. CASE Exception
  BY <1>5 DEF Exception, thread_trap_enter, InUserMode, display_putc, PutcWakes, task_exit,
     ParentWaits, CallScheduler, StateAfterWakeup, ReasonAfterWakeup, Woken
<1>6. CASE SysSpawnNoWait
  BY <1>6 DEF SysSpawnNoWait, InUserMode, SpawnNoWait, AddTask, list_add, FreeSlot
<1>7. CASE SysSpawnWait
  BY <1>7 DEF SysSpawnWait, InUserMode, SpawnWait, AddTask, list_add, FreeSlot,
     StateAfterWakeup, ReasonAfterWakeup, Woken
<1>8. CASE SerialIntr
  BY <1>8 DEF SerialIntr, InterruptsOn, tty_new_data, TtyInterrupt, TtyNewLine, TtyNewChar,
     display_putc, Interrupted, PutcWakes, wakeup, StateAfterWakeup, ReasonAfterWakeup,
     run_scheduler_if_idle, thread_trap_enter, CallScheduler, Woken
<1>9. CASE KeyboardIntr
  BY <1>9 DEF KeyboardIntr, InterruptsOn, tty_new_data, TtyInterrupt, TtyNewLine, TtyNewChar,
     display_putc, Interrupted, PutcWakes, wakeup, StateAfterWakeup, ReasonAfterWakeup,
     run_scheduler_if_idle, thread_trap_enter, CallScheduler, Woken
<1>10. ASSUME NEW d \in Display, DisplayIntr(d) PROVE AwaitedChildIsAlive'
  BY <1>10 DEF DisplayIntr, InterruptsOn, wakeup, StateAfterWakeup, ReasonAfterWakeup,
     run_scheduler_if_idle, thread_trap_enter, CallScheduler, Woken
<1>11. CASE scheduler
  BY <1>11 DEF scheduler, reap_zombies, list_del, free_task, find_runnable_thread, NextReady, FirstOf,
     Runnable, Zombies, switchto
<1>12. CASE HandleSignal
  BY <1>12 DEF HandleSignal, task_exit, ParentWaits, CallScheduler, StateAfterWakeup,
     ReasonAfterWakeup, Woken
<1>13. CASE ReturnReadSleep
  BY <1>13 DEF ReturnReadSleep, Returns, sleep, SleepAfterWakeup, StateAfterWakeup,
     ReasonAfterWakeup, Woken
<1>14. CASE RootSpawn
  BY <1>14 DEF RootSpawn, ResetDirty, ResetWakes, SpawnWait, AddTask, list_add, FreeSlot,
     StateAfterWakeup, ReasonAfterWakeup, Woken
<1>15. CASE RootSpawnFails
  BY <1>15 DEF RootSpawnFails, ResetDirty, ResetWakes, wakeup, StateAfterWakeup,
     ReasonAfterWakeup, Woken
<1>16. CASE Redraw
  BY <1>16 DEF Redraw, sleep, SleepAfterWakeup, StateAfterWakeup, ReasonAfterWakeup, Woken
<1>17. CASE SysSpawnPanic \/ TimerIntr \/ ReturnTimer \/ ReturnIfIdle \/ ReturnNoWait
          \/ ReturnWait \/ ReturnReadLine \/ ReturnRedraw \/ RootSpawnPanic
  BY <1>17 DEF SysSpawnPanic, Panic, TimerIntr, thread_trap_enter, CallScheduler,
     ReturnTimer, Returns, BackTo, thread_trap_exit, ReturnIfIdle, ReturnNoWait, ReturnWait,
     ReturnReadLine, TakeLine, ReturnRedraw, RootSpawnPanic
<1>18. CASE UNCHANGED vars
  BY <1>18 DEF vars
<1> QED
  BY <1>1, <1>2, <1>3, <1>4, <1>5, <1>6, <1>7, <1>8, <1>9, <1>10, <1>11, <1>12, <1>13,
     <1>14, <1>15, <1>16, <1>17, <1>18
     DEF Next, UserStep, DeviceIntr, KernelStep, Halted

(* Waiting for a line. *)

(* No step leaves a reader asleep while a line is ready.                     *)
LEMMA LineNext == SchedInvariant /\ [Next]_vars => NoLostLine'
<1> SUFFICES ASSUME SchedInvariant, [Next]_vars PROVE NoLostLine'
  OBVIOUS
<1>0. TypeOK'
  BY TypeNext
<1> USE <1>0, ConstantFacts, ResourceFacts, NullAssumption
    DEF NullAssumption, SchedInvariant, NoLostLine, ListMatchesPool, TypeOK, Consistent, TaskConsistent,
        CurrentConsistent, listVars, taskVars, displayVars
<1>1. ASSUME NEW y \in Tty, SysReadLine(y) PROVE NoLostLine'
  BY <1>1 DEF SysReadLine, TakeLine
<1>2. ASSUME NEW y \in Tty, SysReadSleep(y) PROVE NoLostLine'
  BY <1>2 DEF SysReadSleep, thread_trap_enter, InUserMode, sleep, SleepAfterWakeup,
     StateAfterWakeup, ReasonAfterWakeup, Woken
<1>3. ASSUME NEW y \in Tty, SysWrite(y) PROVE NoLostLine'
  BY <1>3 DEF SysWrite, display_putc, PutcWakes, wakeup, StateAfterWakeup, ReasonAfterWakeup,
     Woken
<1>4. ASSUME NEW code \in EXIT_CODES, SysExit(code) PROVE NoLostLine'
  BY <1>4 DEF SysExit, thread_trap_enter, InUserMode, task_exit, ParentWaits, CallScheduler,
     StateAfterWakeup, ReasonAfterWakeup, Woken
<1>5. CASE Exception
  BY <1>5 DEF Exception, thread_trap_enter, InUserMode, display_putc, PutcWakes, task_exit,
     ParentWaits, CallScheduler, StateAfterWakeup, ReasonAfterWakeup, Woken
<1>6. CASE SysSpawnNoWait
  BY <1>6 DEF SysSpawnNoWait, InUserMode, SpawnNoWait, AddTask, list_add, FreeSlot
<1>7. CASE SysSpawnWait
  BY <1>7 DEF SysSpawnWait, InUserMode, SpawnWait, AddTask, list_add, FreeSlot,
     StateAfterWakeup, ReasonAfterWakeup, Woken
<1>8. CASE SerialIntr
  BY <1>8 DEF SerialIntr, InterruptsOn, tty_new_data, TtyInterrupt, TtyNewLine, TtyNewChar,
     display_putc, Interrupted, PutcWakes, wakeup, StateAfterWakeup, ReasonAfterWakeup,
     run_scheduler_if_idle, thread_trap_enter, CallScheduler, Woken
<1>9. CASE KeyboardIntr
  BY <1>9 DEF KeyboardIntr, InterruptsOn, tty_new_data, TtyInterrupt, TtyNewLine, TtyNewChar,
     display_putc, Interrupted, PutcWakes, wakeup, StateAfterWakeup, ReasonAfterWakeup,
     run_scheduler_if_idle, thread_trap_enter, CallScheduler, Woken
<1>10. ASSUME NEW d \in Display, DisplayIntr(d) PROVE NoLostLine'
  BY <1>10 DEF DisplayIntr, InterruptsOn, wakeup, StateAfterWakeup, ReasonAfterWakeup,
     run_scheduler_if_idle, thread_trap_enter, CallScheduler, Woken
<1>11. CASE scheduler
  BY <1>11 DEF scheduler, reap_zombies, list_del, free_task, find_runnable_thread, NextReady, FirstOf,
     Runnable, Zombies, switchto
<1>12. CASE HandleSignal
  BY <1>12 DEF HandleSignal, task_exit, ParentWaits, CallScheduler, StateAfterWakeup,
     ReasonAfterWakeup, Woken
<1>13. CASE ReturnReadSleep
  BY <1>13 DEF ReturnReadSleep, Returns, sleep, SleepAfterWakeup, StateAfterWakeup,
     ReasonAfterWakeup, Woken
<1>14. CASE RootSpawn
  BY <1>14 DEF RootSpawn, ResetDirty, ResetWakes, SpawnWait, AddTask, list_add, FreeSlot,
     StateAfterWakeup, ReasonAfterWakeup, Woken
<1>15. CASE RootSpawnFails
  BY <1>15 DEF RootSpawnFails, ResetDirty, ResetWakes, wakeup, StateAfterWakeup,
     ReasonAfterWakeup, Woken
<1>16. CASE Redraw
  BY <1>16 DEF Redraw, sleep, SleepAfterWakeup, StateAfterWakeup, ReasonAfterWakeup, Woken
<1>17. CASE SysSpawnPanic \/ TimerIntr \/ ReturnTimer \/ ReturnIfIdle \/ ReturnNoWait
          \/ ReturnWait \/ ReturnReadLine \/ ReturnRedraw \/ RootSpawnPanic
  BY <1>17 DEF SysSpawnPanic, Panic, TimerIntr, thread_trap_enter, CallScheduler,
     ReturnTimer, Returns, BackTo, thread_trap_exit, ReturnIfIdle, ReturnNoWait, ReturnWait,
     ReturnReadLine, TakeLine, ReturnRedraw, RootSpawnPanic
<1>18. CASE UNCHANGED vars
  BY <1>18 DEF vars
<1> QED
  BY <1>1, <1>2, <1>3, <1>4, <1>5, <1>6, <1>7, <1>8, <1>9, <1>10, <1>11, <1>12, <1>13,
     <1>14, <1>15, <1>16, <1>17, <1>18
     DEF Next, UserStep, DeviceIntr, KernelStep, Halted

(* Waiting for something to repaint. *)

(* No step leaves the renderer asleep while there is something to repaint.   *)
LEMMA RepaintNext == SchedInvariant /\ [Next]_vars => NoLostRepaint'
<1> SUFFICES ASSUME SchedInvariant, [Next]_vars PROVE NoLostRepaint'
  OBVIOUS
<1>0. TypeOK'
  BY TypeNext
<1> USE <1>0, ConstantFacts, ResourceFacts, NullAssumption
    DEF NullAssumption, SchedInvariant, NoLostRepaint, ListMatchesPool, TypeOK, Consistent, TaskConsistent,
        CurrentConsistent, listVars, taskVars, displayVars
<1>1. ASSUME NEW y \in Tty, SysReadLine(y) PROVE NoLostRepaint'
  BY <1>1 DEF SysReadLine, TakeLine
<1>2. ASSUME NEW y \in Tty, SysReadSleep(y) PROVE NoLostRepaint'
  BY <1>2 DEF SysReadSleep, thread_trap_enter, InUserMode, sleep, SleepAfterWakeup,
     StateAfterWakeup, ReasonAfterWakeup, Woken
<1>3. ASSUME NEW y \in Tty, SysWrite(y) PROVE NoLostRepaint'
  BY <1>3 DEF SysWrite, display_putc, PutcWakes, wakeup, StateAfterWakeup, ReasonAfterWakeup,
     Woken
<1>4. ASSUME NEW code \in EXIT_CODES, SysExit(code) PROVE NoLostRepaint'
  BY <1>4 DEF SysExit, thread_trap_enter, InUserMode, task_exit, ParentWaits, CallScheduler,
     StateAfterWakeup, ReasonAfterWakeup, Woken
<1>5. CASE Exception
  BY <1>5 DEF Exception, thread_trap_enter, InUserMode, display_putc, PutcWakes, task_exit,
     ParentWaits, CallScheduler, StateAfterWakeup, ReasonAfterWakeup, Woken
<1>6. CASE SysSpawnNoWait
  BY <1>6 DEF SysSpawnNoWait, InUserMode, SpawnNoWait, AddTask, list_add, FreeSlot
<1>7. CASE SysSpawnWait
  BY <1>7 DEF SysSpawnWait, InUserMode, SpawnWait, AddTask, list_add, FreeSlot,
     StateAfterWakeup, ReasonAfterWakeup, Woken
<1>8. CASE SerialIntr
  BY <1>8 DEF SerialIntr, InterruptsOn, tty_new_data, TtyInterrupt, TtyNewLine, TtyNewChar,
     display_putc, Interrupted, PutcWakes, wakeup, StateAfterWakeup, ReasonAfterWakeup,
     run_scheduler_if_idle, thread_trap_enter, CallScheduler, Woken
<1>9. CASE KeyboardIntr
  BY <1>9 DEF KeyboardIntr, InterruptsOn, tty_new_data, TtyInterrupt, TtyNewLine, TtyNewChar,
     display_putc, Interrupted, PutcWakes, wakeup, StateAfterWakeup, ReasonAfterWakeup,
     run_scheduler_if_idle, thread_trap_enter, CallScheduler, Woken
<1>10. ASSUME NEW d \in Display, DisplayIntr(d) PROVE NoLostRepaint'
  BY <1>10 DEF DisplayIntr, InterruptsOn, wakeup, StateAfterWakeup, ReasonAfterWakeup,
     run_scheduler_if_idle, thread_trap_enter, CallScheduler, Woken
<1>11. CASE scheduler
  BY <1>11 DEF scheduler, reap_zombies, list_del, free_task, find_runnable_thread, NextReady, FirstOf,
     Runnable, Zombies, switchto
<1>12. CASE HandleSignal
  BY <1>12 DEF HandleSignal, task_exit, ParentWaits, CallScheduler, StateAfterWakeup,
     ReasonAfterWakeup, Woken
<1>13. CASE ReturnReadSleep
  BY <1>13 DEF ReturnReadSleep, Returns, sleep, SleepAfterWakeup, StateAfterWakeup,
     ReasonAfterWakeup, Woken
<1>14. CASE RootSpawn
  BY <1>14 DEF RootSpawn, ResetDirty, ResetWakes, SpawnWait, AddTask, list_add, FreeSlot,
     StateAfterWakeup, ReasonAfterWakeup, Woken
<1>15. CASE RootSpawnFails
  BY <1>15 DEF RootSpawnFails, ResetDirty, ResetWakes, wakeup, StateAfterWakeup,
     ReasonAfterWakeup, Woken
<1>16. CASE Redraw
  BY <1>16 DEF Redraw, sleep, SleepAfterWakeup, StateAfterWakeup, ReasonAfterWakeup, Woken
<1>17. CASE SysSpawnPanic \/ TimerIntr \/ ReturnTimer \/ ReturnIfIdle \/ ReturnNoWait
          \/ ReturnWait \/ ReturnReadLine \/ ReturnRedraw \/ RootSpawnPanic
  BY <1>17 DEF SysSpawnPanic, Panic, TimerIntr, thread_trap_enter, CallScheduler,
     ReturnTimer, Returns, BackTo, thread_trap_exit, ReturnIfIdle, ReturnNoWait, ReturnWait,
     ReturnReadLine, TakeLine, ReturnRedraw, RootSpawnPanic
<1>18. CASE UNCHANGED vars
  BY <1>18 DEF vars
<1> QED
  BY <1>1, <1>2, <1>3, <1>4, <1>5, <1>6, <1>7, <1>8, <1>9, <1>10, <1>11, <1>12, <1>13,
     <1>14, <1>15, <1>16, <1>17, <1>18
     DEF Next, UserStep, DeviceIntr, KernelStep, Halted

(* Zombies. *)

(* No step leaves two tasks waiting for reap_zombies.                        *)
LEMMA ZombieNext == SchedInvariant /\ [Next]_vars => OneZombie'
<1> SUFFICES ASSUME SchedInvariant, [Next]_vars PROVE OneZombie'
  OBVIOUS
<1>0. TypeOK'
  BY TypeNext
<1> USE <1>0, ConstantFacts, ResourceFacts, NullAssumption
    DEF NullAssumption, SchedInvariant, OneZombie, Zombies, ListMatchesPool, TypeOK, Consistent,
        TaskConsistent, CurrentConsistent, listVars, taskVars, displayVars
<1>1. ASSUME NEW y \in Tty, SysReadLine(y) PROVE OneZombie'
  BY <1>1 DEF SysReadLine, TakeLine
<1>2. ASSUME NEW y \in Tty, SysReadSleep(y) PROVE OneZombie'
  BY <1>2 DEF SysReadSleep, thread_trap_enter, InUserMode, sleep, SleepAfterWakeup,
     StateAfterWakeup, ReasonAfterWakeup, Woken
<1>3. ASSUME NEW y \in Tty, SysWrite(y) PROVE OneZombie'
  BY <1>3 DEF SysWrite, display_putc, PutcWakes, wakeup, StateAfterWakeup, ReasonAfterWakeup,
     Woken
<1>4. ASSUME NEW code \in EXIT_CODES, SysExit(code) PROVE OneZombie'
  BY <1>4 DEF SysExit, thread_trap_enter, InUserMode, task_exit, ParentWaits, CallScheduler,
     StateAfterWakeup, ReasonAfterWakeup, Woken
<1>5. CASE Exception
  BY <1>5 DEF Exception, thread_trap_enter, InUserMode, display_putc, PutcWakes, task_exit,
     ParentWaits, CallScheduler, StateAfterWakeup, ReasonAfterWakeup, Woken
<1>6. CASE SysSpawnNoWait
  BY <1>6 DEF SysSpawnNoWait, InUserMode, SpawnNoWait, AddTask, list_add, FreeSlot
<1>7. CASE SysSpawnWait
  BY <1>7 DEF SysSpawnWait, InUserMode, SpawnWait, AddTask, list_add, FreeSlot,
     StateAfterWakeup, ReasonAfterWakeup, Woken
<1>8. CASE SerialIntr
  BY <1>8 DEF SerialIntr, InterruptsOn, tty_new_data, TtyInterrupt, TtyNewLine, TtyNewChar,
     display_putc, Interrupted, PutcWakes, wakeup, StateAfterWakeup, ReasonAfterWakeup,
     run_scheduler_if_idle, thread_trap_enter, CallScheduler, Woken
<1>9. CASE KeyboardIntr
  BY <1>9 DEF KeyboardIntr, InterruptsOn, tty_new_data, TtyInterrupt, TtyNewLine, TtyNewChar,
     display_putc, Interrupted, PutcWakes, wakeup, StateAfterWakeup, ReasonAfterWakeup,
     run_scheduler_if_idle, thread_trap_enter, CallScheduler, Woken
<1>10. ASSUME NEW d \in Display, DisplayIntr(d) PROVE OneZombie'
  BY <1>10 DEF DisplayIntr, InterruptsOn, wakeup, StateAfterWakeup, ReasonAfterWakeup,
     run_scheduler_if_idle, thread_trap_enter, CallScheduler, Woken
<1>11. CASE scheduler
  BY <1>11 DEF scheduler, reap_zombies, list_del, free_task, find_runnable_thread, NextReady, FirstOf,
     Runnable, Zombies, switchto
<1>12. CASE HandleSignal
  BY <1>12 DEF HandleSignal, task_exit, ParentWaits, CallScheduler, StateAfterWakeup,
     ReasonAfterWakeup, Woken
<1>13. CASE ReturnReadSleep
  BY <1>13 DEF ReturnReadSleep, Returns, sleep, SleepAfterWakeup, StateAfterWakeup,
     ReasonAfterWakeup, Woken
<1>14. CASE RootSpawn
  BY <1>14 DEF RootSpawn, ResetDirty, ResetWakes, SpawnWait, AddTask, list_add, FreeSlot,
     StateAfterWakeup, ReasonAfterWakeup, Woken
<1>15. CASE RootSpawnFails
  BY <1>15 DEF RootSpawnFails, ResetDirty, ResetWakes, wakeup, StateAfterWakeup,
     ReasonAfterWakeup, Woken
<1>16. CASE Redraw
  BY <1>16 DEF Redraw, sleep, SleepAfterWakeup, StateAfterWakeup, ReasonAfterWakeup, Woken
<1>17. CASE SysSpawnPanic \/ TimerIntr \/ ReturnTimer \/ ReturnIfIdle \/ ReturnNoWait
          \/ ReturnWait \/ ReturnReadLine \/ ReturnRedraw \/ RootSpawnPanic
  BY <1>17 DEF SysSpawnPanic, Panic, TimerIntr, thread_trap_enter, CallScheduler,
     ReturnTimer, Returns, BackTo, thread_trap_exit, ReturnIfIdle, ReturnNoWait, ReturnWait,
     ReturnReadLine, TakeLine, ReturnRedraw, RootSpawnPanic
<1>18. CASE UNCHANGED vars
  BY <1>18 DEF vars
<1> QED
  BY <1>1, <1>2, <1>3, <1>4, <1>5, <1>6, <1>7, <1>8, <1>9, <1>10, <1>11, <1>12, <1>13,
     <1>14, <1>15, <1>16, <1>17, <1>18
     DEF Next, UserStep, DeviceIntr, KernelStep, Halted

-----------------------------------------------------------------------------
(* The state init_scheduler leaves satisfies the inductive invariant.        *)
LEMMA InvariantInit == init_scheduler => SchedInvariant
<1> SUFFICES ASSUME init_scheduler PROVE SchedInvariant
  OBVIOUS
<1> USE ConstantFacts, ResourceFacts
<1>1. TypeOK
  BY TypeInit
<1>2. \A t \in KernelTask : /\ KernelEntry(t) \in {"root", "idle", "renderer"}
                            /\ KernelEntry(t) = "idle" <=> t = idle_task
  BY DEF KernelEntry
<1>3. idle_task \in KernelTask /\ root_task \in KernelTask /\ root_task # idle_task
  BY ConstantsAssumption
     DEF ConstantsAssumption, KernelTask, NumKernelTasks, idle_task, root_task
<1>4. \A t \in Task : TaskConsistent(t)
  BY <1>2, <1>3 DEF init_scheduler, TaskConsistent, Entrypoints, InScheduler
<1>5. IdleConsistent
  BY <1>2, <1>3 DEF init_scheduler, IdleConsistent, KernelStdin, idle_task, root_task
<1>6. CurrentConsistent
  BY <1>2, <1>3 DEF init_scheduler, CurrentConsistent, Entrypoints
<1>7. ListMatchesPool
  <2>1. KernelTask \subseteq Nat
    BY DEF KernelTask
  <2>2. \A t \in Task : after[t] = {u \in KernelTask : t \in KernelTask /\ u < t}
    BY DEF init_scheduler
  <2>3. \A t \in KernelTask, u \in KernelTask : u \in after[t] <=> u < t
    BY <2>2
  <2>4. task_list = KernelTask /\ task_list = {t \in Task : valid[t]}
    BY DEF init_scheduler
  <2>5. \A t \in Task : after[t] \subseteq KernelTask \ {t}
    BY <2>1, <2>2
  <2>6. \A t \in KernelTask, u \in KernelTask : t # u => (u \in after[t] <=> t \notin after[u])
    BY <2>1, <2>3
  <2>7. \A t \in KernelTask : \A u \in after[t] : after[u] \subseteq after[t]
    <3> SUFFICES ASSUME NEW t \in KernelTask, NEW u \in after[t], NEW v \in after[u]
                 PROVE  v \in after[t]
      OBVIOUS
    <3>1. u \in KernelTask /\ v \in KernelTask
      BY <2>5
    <3>2. v < u /\ u < t
      BY <2>3, <3>1
    <3> QED
      BY <2>1, <2>3, <3>1, <3>2
  <2> QED
    BY <2>4, <2>5, <2>6, <2>7 DEF ListMatchesPool
<1>8. NoDanglingTask /\ AwaitedChildIsAlive /\ NoLostLine /\ NoLostRepaint /\ OneZombie
  BY DEF init_scheduler, NoDanglingTask, AwaitedChildIsAlive, NoLostLine, NoLostRepaint,
         OneZombie, Zombies
<1> QED
  BY <1>1, <1>4, <1>5, <1>6, <1>7, <1>8 DEF SchedInvariant, Consistent

(* The inductive invariant holds in every reachable state: the fields of     *)
(* every task agree with each other and with the list, whatever user code,   *)
(* interrupts and the scheduler do.                                          *)
THEOREM SchedInvariance == Spec => []SchedInvariant
<1>1. SchedInvariant /\ [Next]_vars => SchedInvariant'
  BY TypeNext, ConsistentNext, ListNext, DanglingNext, AwaitedNext, LineNext, RepaintNext,
     ZombieNext DEF SchedInvariant
<1> QED
  BY <1>1, InvariantInit, PTL DEF Spec

(* Every variable keeps its type: trapdepth stays within {0, 1}, so traps do *)
(* not nest, and every pointer between tasks is NULL or a slot of the pool.  *)
THEOREM TypeCorrect == Spec => []TypeOK
<1>1. SchedInvariant => TypeOK
  BY DEF SchedInvariant
<1> QED
  BY <1>1, SchedInvariance, PTL

(* task_list is exactly the set of valid slots and a walk of it visits every *)
(* task once.                                                                *)
THEOREM ListCorrect == Spec => []ListMatchesPool
<1>1. SchedInvariant => ListMatchesPool
  BY DEF SchedInvariant
<1> QED
  BY <1>1, SchedInvariance, PTL

(* The task that runs is never freed under its feet, and no live task holds  *)
(* a pointer to a freed slot.                                                *)
THEOREM NoUseAfterFree == Spec => [](CurrentIsAlive /\ NoDanglingTask)
<1>1. SchedInvariant => CurrentIsAlive /\ NoDanglingTask
  BY DEF SchedInvariant, TypeOK, Consistent, CurrentConsistent, TaskConsistent, CurrentIsAlive
<1> QED
  BY <1>1, SchedInvariance, PTL

(* The wakeup of a parent in task_spawn_user is not lost: the child it sleeps *)
(* for is its own and has yet to run task_exit.                              *)
THEOREM ChildWakeup == Spec => []AwaitedChildIsAlive
<1>1. SchedInvariant => AwaitedChildIsAlive
  BY DEF SchedInvariant
<1> QED
  BY <1>1, SchedInvariance, PTL

(* The wakeup of a reader in tty_readin is not lost: none sleeps on a tty    *)
(* that holds a line.                                                        *)
THEOREM LineWakeup == Spec => []NoLostLine
<1>1. SchedInvariant => NoLostLine
  BY DEF SchedInvariant
<1> QED
  BY <1>1, SchedInvariance, PTL

(* The wakeup of thread_display_update is not lost: it does not sleep while  *)
(* the active display is dirty.                                              *)
THEOREM RepaintWakeup == Spec => []NoLostRepaint
<1>1. SchedInvariant => NoLostRepaint
  BY DEF SchedInvariant
<1> QED
  BY <1>1, SchedInvariance, PTL

(* At most one task is waiting for reap_zombies.                             *)
THEOREM ZombiesBounded == Spec => []OneZombie
<1>1. SchedInvariant => OneZombie
  BY DEF SchedInvariant
<1> QED
  BY <1>1, SchedInvariance, PTL

(* The asserts of switchto, sleep, task_spawn_user, thread_trap_exit and     *)
(* find_runnable_thread never fail, and scheduler() never returns to a task  *)
(* that has exited.                                                          *)
THEOREM AssertionsNeverFail == Spec => []AssertionsHold
<1>1. SchedInvariant => AssertionsHold
  <2> SUFFICES ASSUME SchedInvariant PROVE AssertionsHold
    OBVIOUS
  <2> USE ConstantFacts, ResourceFacts
  <2>1. TaskConsistent(cur) /\ IdleConsistent /\ CurrentConsistent /\ cur \in Task
    BY DEF SchedInvariant, TypeOK, Consistent
  <2> QED
    BY <2>1 DEF TaskConsistent, IdleConsistent, CurrentConsistent, AssertionsHold
<1> QED
  BY <1>1, SchedInvariance, PTL

-----------------------------------------------------------------------------
(* Steps. *)

(* Every step changes the state of threads as OwnStateOnly allows.           *)
LEMMA OwnStateNext == SchedInvariant /\ [Next]_vars => OwnStateStep
<1> SUFFICES ASSUME SchedInvariant, [Next]_vars PROVE OwnStateStep
  OBVIOUS
<1>0. TypeOK'
  BY TypeNext
<1> USE <1>0, ConstantFacts, ResourceFacts, NullAssumption
    DEF NullAssumption, SchedInvariant, OwnStateStep, ListMatchesPool, TypeOK, Consistent, TaskConsistent,
        CurrentConsistent, listVars, taskVars, displayVars
<1>1. ASSUME NEW y \in Tty, SysReadLine(y) PROVE OwnStateStep
  BY <1>1 DEF SysReadLine, TakeLine
<1>2. ASSUME NEW y \in Tty, SysReadSleep(y) PROVE OwnStateStep
  BY <1>2 DEF SysReadSleep, thread_trap_enter, InUserMode, sleep, SleepAfterWakeup,
     StateAfterWakeup, ReasonAfterWakeup, Woken
<1>3. ASSUME NEW y \in Tty, SysWrite(y) PROVE OwnStateStep
  BY <1>3 DEF SysWrite, display_putc, PutcWakes, wakeup, StateAfterWakeup, ReasonAfterWakeup,
     Woken
<1>4. ASSUME NEW code \in EXIT_CODES, SysExit(code) PROVE OwnStateStep
  BY <1>4 DEF SysExit, thread_trap_enter, InUserMode, task_exit, ParentWaits, CallScheduler,
     StateAfterWakeup, ReasonAfterWakeup, Woken
<1>5. CASE Exception
  BY <1>5 DEF Exception, thread_trap_enter, InUserMode, display_putc, PutcWakes, task_exit,
     ParentWaits, CallScheduler, StateAfterWakeup, ReasonAfterWakeup, Woken
<1>6. CASE SysSpawnNoWait
  BY <1>6 DEF SysSpawnNoWait, InUserMode, SpawnNoWait, AddTask, list_add, FreeSlot
<1>7. CASE SysSpawnWait
  BY <1>7 DEF SysSpawnWait, InUserMode, SpawnWait, AddTask, list_add, FreeSlot,
     StateAfterWakeup, ReasonAfterWakeup, Woken
<1>8. CASE SerialIntr
  BY <1>8 DEF SerialIntr, InterruptsOn, tty_new_data, TtyInterrupt, TtyNewLine, TtyNewChar,
     display_putc, Interrupted, PutcWakes, wakeup, StateAfterWakeup, ReasonAfterWakeup,
     run_scheduler_if_idle, thread_trap_enter, CallScheduler, Woken
<1>9. CASE KeyboardIntr
  BY <1>9 DEF KeyboardIntr, InterruptsOn, tty_new_data, TtyInterrupt, TtyNewLine, TtyNewChar,
     display_putc, Interrupted, PutcWakes, wakeup, StateAfterWakeup, ReasonAfterWakeup,
     run_scheduler_if_idle, thread_trap_enter, CallScheduler, Woken
<1>10. ASSUME NEW d \in Display, DisplayIntr(d) PROVE OwnStateStep
  BY <1>10 DEF DisplayIntr, InterruptsOn, wakeup, StateAfterWakeup, ReasonAfterWakeup,
     run_scheduler_if_idle, thread_trap_enter, CallScheduler, Woken
<1>11. CASE scheduler
  BY <1>11 DEF scheduler, reap_zombies, list_del, free_task, find_runnable_thread, NextReady, FirstOf,
     Runnable, Zombies, switchto
<1>12. CASE HandleSignal
  BY <1>12 DEF HandleSignal, task_exit, ParentWaits, CallScheduler, StateAfterWakeup,
     ReasonAfterWakeup, Woken
<1>13. CASE ReturnReadSleep
  BY <1>13 DEF ReturnReadSleep, Returns, sleep, SleepAfterWakeup, StateAfterWakeup,
     ReasonAfterWakeup, Woken
<1>14. CASE RootSpawn
  BY <1>14 DEF RootSpawn, ResetDirty, ResetWakes, SpawnWait, AddTask, list_add, FreeSlot,
     StateAfterWakeup, ReasonAfterWakeup, Woken
<1>15. CASE RootSpawnFails
  BY <1>15 DEF RootSpawnFails, ResetDirty, ResetWakes, wakeup, StateAfterWakeup,
     ReasonAfterWakeup, Woken
<1>16. CASE Redraw
  BY <1>16 DEF Redraw, sleep, SleepAfterWakeup, StateAfterWakeup, ReasonAfterWakeup, Woken
<1>17. CASE SysSpawnPanic \/ TimerIntr \/ ReturnTimer \/ ReturnIfIdle \/ ReturnNoWait
          \/ ReturnWait \/ ReturnReadLine \/ ReturnRedraw \/ RootSpawnPanic
  BY <1>17 DEF SysSpawnPanic, Panic, TimerIntr, thread_trap_enter, CallScheduler,
     ReturnTimer, Returns, BackTo, thread_trap_exit, ReturnIfIdle, ReturnNoWait, ReturnWait,
     ReturnReadLine, TakeLine, ReturnRedraw, RootSpawnPanic
<1>18. CASE UNCHANGED vars
  BY <1>18 DEF vars
<1> QED
  BY <1>1, <1>2, <1>3, <1>4, <1>5, <1>6, <1>7, <1>8, <1>9, <1>10, <1>11, <1>12, <1>13,
     <1>14, <1>15, <1>16, <1>17, <1>18
     DEF Next, UserStep, DeviceIntr, KernelStep, Halted

(* Every step that ends a wait is the exit of the awaited child.             *)
LEMMA WaitEndNext == SchedInvariant /\ [Next]_vars => WaitEndStep
<1> SUFFICES ASSUME SchedInvariant, [Next]_vars PROVE WaitEndStep
  OBVIOUS
<1>0. TypeOK'
  BY TypeNext
<1> USE <1>0, ConstantFacts, ResourceFacts, NullAssumption
    DEF NullAssumption, SchedInvariant, WaitEndStep, ListMatchesPool, AwaitedChildIsAlive, NoDanglingTask,
        TypeOK, Consistent, TaskConsistent, CurrentConsistent, listVars, taskVars,
        displayVars
<1>1. ASSUME NEW y \in Tty, SysReadLine(y) PROVE WaitEndStep
  BY <1>1 DEF SysReadLine, TakeLine
<1>2. ASSUME NEW y \in Tty, SysReadSleep(y) PROVE WaitEndStep
  BY <1>2 DEF SysReadSleep, thread_trap_enter, InUserMode, sleep, SleepAfterWakeup,
     StateAfterWakeup, ReasonAfterWakeup, Woken
<1>3. ASSUME NEW y \in Tty, SysWrite(y) PROVE WaitEndStep
  BY <1>3 DEF SysWrite, display_putc, PutcWakes, wakeup, StateAfterWakeup, ReasonAfterWakeup,
     Woken
<1>4. ASSUME NEW code \in EXIT_CODES, SysExit(code) PROVE WaitEndStep
  BY <1>4 DEF SysExit, thread_trap_enter, InUserMode, task_exit, ParentWaits, CallScheduler,
     StateAfterWakeup, ReasonAfterWakeup, Woken
<1>5. CASE Exception
  BY <1>5 DEF Exception, thread_trap_enter, InUserMode, display_putc, PutcWakes, task_exit,
     ParentWaits, CallScheduler, StateAfterWakeup, ReasonAfterWakeup, Woken
<1>6. CASE SysSpawnNoWait
  BY <1>6 DEF SysSpawnNoWait, InUserMode, SpawnNoWait, AddTask, list_add, FreeSlot
<1>7. CASE SysSpawnWait
  BY <1>7 DEF SysSpawnWait, InUserMode, SpawnWait, AddTask, list_add, FreeSlot,
     StateAfterWakeup, ReasonAfterWakeup, Woken
<1>8. CASE SerialIntr
  BY <1>8 DEF SerialIntr, InterruptsOn, tty_new_data, TtyInterrupt, TtyNewLine, TtyNewChar,
     display_putc, Interrupted, PutcWakes, wakeup, StateAfterWakeup, ReasonAfterWakeup,
     run_scheduler_if_idle, thread_trap_enter, CallScheduler, Woken
<1>9. CASE KeyboardIntr
  BY <1>9 DEF KeyboardIntr, InterruptsOn, tty_new_data, TtyInterrupt, TtyNewLine, TtyNewChar,
     display_putc, Interrupted, PutcWakes, wakeup, StateAfterWakeup, ReasonAfterWakeup,
     run_scheduler_if_idle, thread_trap_enter, CallScheduler, Woken
<1>10. ASSUME NEW d \in Display, DisplayIntr(d) PROVE WaitEndStep
  BY <1>10 DEF DisplayIntr, InterruptsOn, wakeup, StateAfterWakeup, ReasonAfterWakeup,
     run_scheduler_if_idle, thread_trap_enter, CallScheduler, Woken
<1>11. CASE scheduler
  BY <1>11 DEF scheduler, reap_zombies, list_del, free_task, find_runnable_thread, NextReady, FirstOf,
     Runnable, Zombies, switchto
<1>12. CASE HandleSignal
  BY <1>12 DEF HandleSignal, task_exit, ParentWaits, CallScheduler, StateAfterWakeup,
     ReasonAfterWakeup, Woken
<1>13. CASE ReturnReadSleep
  BY <1>13 DEF ReturnReadSleep, Returns, sleep, SleepAfterWakeup, StateAfterWakeup,
     ReasonAfterWakeup, Woken
<1>14. CASE RootSpawn
  BY <1>14 DEF RootSpawn, ResetDirty, ResetWakes, SpawnWait, AddTask, list_add, FreeSlot,
     StateAfterWakeup, ReasonAfterWakeup, Woken
<1>15. CASE RootSpawnFails
  BY <1>15 DEF RootSpawnFails, ResetDirty, ResetWakes, wakeup, StateAfterWakeup,
     ReasonAfterWakeup, Woken
<1>16. CASE Redraw
  BY <1>16 DEF Redraw, sleep, SleepAfterWakeup, StateAfterWakeup, ReasonAfterWakeup, Woken
<1>17. CASE SysSpawnPanic \/ TimerIntr \/ ReturnTimer \/ ReturnIfIdle \/ ReturnNoWait
          \/ ReturnWait \/ ReturnReadLine \/ ReturnRedraw \/ RootSpawnPanic
  BY <1>17 DEF SysSpawnPanic, Panic, TimerIntr, thread_trap_enter, CallScheduler,
     ReturnTimer, Returns, BackTo, thread_trap_exit, ReturnIfIdle, ReturnNoWait, ReturnWait,
     ReturnReadLine, TakeLine, ReturnRedraw, RootSpawnPanic
<1>18. CASE UNCHANGED vars
  BY <1>18 DEF vars
<1> QED
  BY <1>1, <1>2, <1>3, <1>4, <1>5, <1>6, <1>7, <1>8, <1>9, <1>10, <1>11, <1>12, <1>13,
     <1>14, <1>15, <1>16, <1>17, <1>18
     DEF Next, UserStep, DeviceIntr, KernelStep, Halted

(* Only the running thread leaves READY, by its own system call, fault or    *)
(* kernel code: an interrupt or another thread never puts it to sleep or     *)
(* kills it.  A zombie stays one until another thread frees its slot.        *)
THEOREM OwnState == Spec => OwnStateOnly
BY OwnStateNext, SchedInvariance, PTL DEF Spec, OwnStateOnly

(* task_spawn_user(SPAWN_WAIT) returns only after the very child it spawned  *)
(* exited, with the code that child left.                                    *)
THEOREM WaitEnds == Spec => WaitEndsWithChild
BY WaitEndNext, SchedInvariance, PTL DEF Spec, WaitEndsWithChild

-----------------------------------------------------------------------------
(***************************************************************************)
(* Sched implements Lifecycle: the scheduler, with its sleeps, wakeups,    *)
(* interrupts and reaping, keeps what spawn, wait and exit promise, for    *)
(* every pool size and every number of displays.                           *)
(***************************************************************************)

(* The abstract steps, said of the variables of Sched. *)

(* What Lifecycle does not see. *)
Quiet ==
  /\ \A t \in Task : Status(t)' = Status(t) /\ PendingResult(t)' = PendingResult(t)
  /\ waiting_child' = waiting_child
  /\ phase # "panic" /\ phase' # "panic"

(* A step that changes no status, no wait and no result is a stutter. *)
LEMMA QuietStutters == Quiet => UNCHANGED L!vars
BY DEF Quiet, L!vars

(* What the invariant says of the thread that runs its own code: it is alive, *)
(* and it neither waits nor holds a result.                                   *)
LEMMA RunningIsActive ==
  ASSUME SchedInvariant, phase = "run"
  PROVE  L!Active(cur) /\ Status(cur) = "alive" /\ waiting_child[cur] = NULL
<1>1. cur \in Task /\ TaskConsistent(cur) /\ CurrentConsistent
  BY DEF SchedInvariant, TypeOK, Consistent
<1>2. valid[cur] /\ state[cur] = "READY" /\ waiting_child[cur] = NULL
  BY <1>1, ResourceFacts DEF TaskConsistent, CurrentConsistent
<1>3. kpc[cur] # "wait"
  BY <1>1 DEF CurrentConsistent, Entrypoints
<1> QED
  BY <1>1, <1>2, <1>3 DEF L!Active, Status, PendingResult

(* The current thread is no zombie while it runs.                             *)
LEMMA CurrentReady ==
  ASSUME SchedInvariant, phase \in {"run", "resume"}
  PROVE  state[cur] = "READY"
BY DEF SchedInvariant, Consistent, CurrentConsistent

(* What the invariant says of a slot that create_empty_task takes.            *)
LEMMA FreeSlotFacts ==
  ASSUME SchedInvariant, NEW n \in Task, FreeSlot(n)
  PROVE  /\ Status(n) = "free" /\ n # cur /\ ~valid[n]
         /\ waiting_child[n] = NULL /\ kpc[n] = "none"
<1>1. TaskConsistent(n) /\ CurrentConsistent
  BY DEF SchedInvariant, Consistent
<1> QED
  BY <1>1, ResourceFacts DEF TaskConsistent, CurrentConsistent, FreeSlot, Status

(* Only the parent waits for a task, and task_exit finds it asleep.           *)
LEMMA OnlyParentWaits ==
  ASSUME SchedInvariant, NEW p \in Task, waiting_child[p] = cur
  PROVE  ParentWaits /\ parent[cur] = p /\ kpc[p] = "wait" /\ valid[p] /\ state[p] # "ZOMBIE"
<1>1. cur \in Task /\ TaskConsistent(p)
  BY DEF SchedInvariant, TypeOK, Consistent
<1>2. sleep_reason[p] = ChildOf(p) /\ sleep_reason[p] # NULL
  BY <1>1, NullAssumption, ResourceFacts DEF TaskConsistent, NullAssumption
<1>3. state[p] = "SLEEPING" /\ valid[p] /\ kpc[p] = "wait"
  <2>1. \A y \in Tty : ChildOf(p) # TtyAt(y)
    BY ResourceFacts
  <2>2. kpc[p] = "read" => read_tty[p] \in Tty
    BY <1>1 DEF TaskConsistent, SchedInvariant, TypeOK
  <2> QED
    BY <1>1, <1>2, <2>1, <2>2, ResourceFacts DEF TaskConsistent
<1>4. p \in task_list
  BY <1>3 DEF SchedInvariant, ListMatchesPool
<1>5. parent[cur] = p
  BY <1>2, <1>3, <1>4 DEF SchedInvariant, AwaitedChildIsAlive
<1> QED
  BY <1>3, <1>5, NullAssumption DEF ParentWaits, NullAssumption

-----------------------------------------------------------------------------
(* The state init_scheduler leaves is an initial state of Lifecycle.          *)
LEMMA LifecycleInit == init_scheduler => L!Init
<1> SUFFICES ASSUME init_scheduler PROVE L!Init
  OBVIOUS
<1>1. \A t \in Task : Status(t) = IF t \in KernelTask THEN "alive" ELSE "free"
  BY DEF init_scheduler, Status
<1>2. \A t \in Task : PendingResult(t) = NULL
  <2> TAKE t \in Task
  <2>1. kpc[t] # "wait"
    BY DEF init_scheduler, KernelEntry
  <2> QED
    BY <2>1 DEF PendingResult
<1>3. waiting_child = [t \in Task |-> NULL] /\ phase # "panic"
  BY DEF init_scheduler
<1> QED
  BY <1>1, <1>2, <1>3 DEF L!Init

(* An exit of the current task is an exit in Lifecycle: of all the tasks, the *)
(* one that awaits it is given the code.                                      *)
LEMMA ExitStep ==
  ASSUME SchedInvariant, NEW code \in ExitCode, NEW R, task_exit(code, R),
         phase \in {"run", "resume"}
  PROVE  L!Exit(cur, code) /\ phase # "panic"
<1>1. cur \in Task /\ TaskConsistent(cur) /\ CurrentConsistent
  BY DEF SchedInvariant, TypeOK, Consistent
<1>2. valid[cur] /\ state[cur] = "READY" /\ waiting_child[cur] = NULL
  BY <1>1, ResourceFacts DEF TaskConsistent, CurrentConsistent
<1>3. Status(cur) = "alive"
  BY <1>2 DEF Status
<1>4. \A t \in Task : Status(t)' = IF t = cur THEN "exited" ELSE Status(t)
  BY <1>1, <1>2 DEF task_exit, Status, StateAfterWakeup, Woken, SchedInvariant, TypeOK
<1>5. \A p \in Task : waiting_child'[p] = IF waiting_child[p] = cur THEN NULL ELSE waiting_child[p]
  BY <1>1, OnlyParentWaits DEF task_exit, ParentWaits, SchedInvariant, TypeOK
<1>6. \A p \in Task : PendingResult(p)' = IF waiting_child[p] = cur THEN code
                                          ELSE IF p = cur THEN NULL ELSE PendingResult(p)
  <2> TAKE p \in Task
  <2>1. CASE waiting_child[p] = cur
    <3>1. p # cur /\ kpc[p] = "wait" /\ ParentWaits /\ parent[cur] = p
      BY <1>1, <1>2, <2>1, OnlyParentWaits, NullAssumption DEF NullAssumption
    <3>2. kpc'[p] = "wait" /\ waiting_child'[p] = NULL /\ child_exit_code'[p] = code
      BY <1>1, <3>1 DEF task_exit, CallScheduler, SchedInvariant, TypeOK
    <3> QED
      BY <2>1, <3>2 DEF PendingResult
  <2>2. CASE waiting_child[p] # cur /\ p = cur
    <3>1. kpc'[p] = "exit"
      BY <1>1, <2>2 DEF task_exit, CallScheduler, SchedInvariant, TypeOK
    <3> QED
      BY <2>2, <3>1 DEF PendingResult
  <2>3. CASE waiting_child[p] # cur /\ p # cur
    <3>1. /\ kpc'[p] = kpc[p] /\ waiting_child'[p] = waiting_child[p]
          /\ child_exit_code'[p] = child_exit_code[p]
      BY <1>1, <2>3 DEF task_exit, ParentWaits, CallScheduler, SchedInvariant, TypeOK
    <3> QED
      BY <2>3, <3>1 DEF PendingResult
  <2> QED
    BY <2>1, <2>2, <2>3
<1>7. waiting_child' = [p \in Task |-> IF waiting_child[p] = cur THEN NULL ELSE waiting_child[p]]
  <2>1. waiting_child' \in [Task -> Task \cup {NULL}]
    BY DEF task_exit, SchedInvariant, TypeOK
  <2> QED
    BY <1>5, <2>1
<1>8. phase' # "panic" /\ phase # "panic"
  BY DEF task_exit, CallScheduler
<1> QED
  BY <1>1, <1>2, <1>3, <1>4, <1>6, <1>7, <1>8 DEF L!Exit

(* A spawn with SPAWN_NOWAIT is a spawn in Lifecycle.                         *)
LEMMA SpawnStep ==
  ASSUME SchedInvariant, phase = "run", NEW n \in Task, FreeSlot(n), SpawnNoWait(n)
  PROVE  L!Spawn(cur, n)
<1> USE DEF SchedInvariant, TypeOK
<1>1. \A t \in Task : Status(t)' = IF t = n THEN "alive" ELSE Status(t)
  BY FreeSlotFacts DEF SpawnNoWait, AddTask, Status
<1>2. \A t \in Task : PendingResult(t)' = PendingResult(t)
  <2> TAKE t \in Task
  <2>1. CASE t \in {n, cur}
    BY <2>1, FreeSlotFacts, RunningIsActive DEF SpawnNoWait, PendingResult, L!Active
  <2>2. CASE t \notin {n, cur}
    BY <2>2 DEF SpawnNoWait, AddTask, PendingResult
  <2> QED
    BY <2>1, <2>2
<1>3. waiting_child' = waiting_child
  BY FreeSlotFacts DEF SpawnNoWait
<1>4. phase' # "panic"
  BY DEF SpawnNoWait
<1> QED
  BY <1>1, <1>2, <1>3, <1>4, FreeSlotFacts, RunningIsActive DEF L!Spawn

(* A spawn with SPAWN_WAIT, of a shell or by a program, is a spawn in         *)
(* Lifecycle after which the parent waits.                                    *)
LEMMA SpawnWaitStep ==
  ASSUME SchedInvariant, phase = "run", NEW n \in Task, FreeSlot(n),
         NEW traps, NEW R, SpawnWait(n, traps, R)
  PROVE  L!SpawnAndWait(cur, n)
<1> USE DEF SchedInvariant, TypeOK
<1>1. \A t \in Task : Status(t)' = IF t = n THEN "alive" ELSE Status(t)
  BY FreeSlotFacts, RunningIsActive DEF SpawnWait, AddTask, Status, StateAfterWakeup, Woken
<1>2. \A t \in Task : PendingResult(t)' = PendingResult(t)
  <2> TAKE t \in Task
  <2>1. CASE t = n
    BY <2>1, FreeSlotFacts DEF SpawnWait, PendingResult
  <2>2. CASE t = cur
    BY <2>2, FreeSlotFacts, RunningIsActive, NullAssumption
       DEF SpawnWait, PendingResult, L!Active, NullAssumption
  <2>3. CASE t \notin {n, cur}
    BY <2>3 DEF SpawnWait, AddTask, PendingResult
  <2> QED
    BY <2>1, <2>2, <2>3
<1>3. waiting_child' = [waiting_child EXCEPT ![cur] = n]
  BY FreeSlotFacts DEF SpawnWait
<1>4. phase' # "panic"
  BY DEF SpawnWait
<1> QED
  BY <1>1, <1>2, <1>3, <1>4, FreeSlotFacts, RunningIsActive DEF L!SpawnAndWait

(* reap_zombies frees tasks that have exited, and no result is lost by it.    *)
LEMMA SchedulerStep == SchedInvariant /\ scheduler => L!Free(Zombies) /\ Zombies \subseteq L!Exited
<1> SUFFICES ASSUME SchedInvariant, scheduler
             PROVE  L!Free(Zombies) /\ Zombies \subseteq L!Exited
  OBVIOUS
<1> USE DEF SchedInvariant, TypeOK
<1>1. Zombies \subseteq Task /\ \A t \in Zombies : valid[t] /\ state[t] = "ZOMBIE" /\ kpc[t] = "exit"
  BY DEF Zombies, ListMatchesPool, Consistent, TaskConsistent
<1>2. Zombies \subseteq L!Exited
  BY <1>1 DEF L!Exited, Status
<1>3. \A t \in Task : Status(t)' = IF t \in Zombies THEN "free" ELSE Status(t)
  BY <1>1 DEF scheduler, reap_zombies, free_task, Status
<1>4. \A t \in Task : PendingResult(t)' = PendingResult(t)
  BY <1>1 DEF scheduler, reap_zombies, free_task, PendingResult
<1>5. waiting_child' = waiting_child /\ phase # "panic" /\ phase' # "panic"
  BY DEF scheduler, switchto
<1> QED
  BY <1>2, <1>3, <1>4, <1>5 DEF L!Free

(* task_spawn_user(SPAWN_WAIT) returns the exit code that was left for it.    *)
LEMMA ReturnWaitStep == SchedInvariant /\ ReturnWait => L!Take(cur)
<1> SUFFICES ASSUME SchedInvariant, ReturnWait PROVE L!Take(cur)
  OBVIOUS
<1> USE DEF SchedInvariant, TypeOK
<1>1. cur \in Task /\ TaskConsistent(cur) /\ CurrentConsistent
  BY DEF Consistent
<1>2. /\ valid[cur] /\ state[cur] = "READY" /\ waiting_child[cur] = NULL /\ kpc[cur] = "wait"
      /\ phase = "resume"
  BY <1>1, ResourceFacts DEF TaskConsistent, CurrentConsistent, ReturnWait, Returns
<1>3. Status(cur) = "alive" /\ PendingResult(cur) # NULL
  BY <1>1, <1>2, NullAssumption DEF Status, PendingResult, NullAssumption
<1>4. /\ \A t \in Task : kpc'[t] = kpc[t] \/ t = cur
      /\ kpc'[cur] # "wait"
      /\ phase' # "panic"
  BY <1>1 DEF ReturnWait, BackTo
<1>5. \A t \in Task : PendingResult(t)' = IF t = cur THEN NULL ELSE PendingResult(t)
  BY <1>1, <1>4 DEF ReturnWait, PendingResult
<1>6. (\A t \in Task : Status(t)' = Status(t)) /\ waiting_child' = waiting_child
  BY DEF ReturnWait, Status
<1> QED
  BY <1>1, <1>2, <1>3, <1>4, <1>5, <1>6 DEF L!Take

(* A step that leaves pool and waits alone, puts no task among the zombies    *)
(* and starts or ends no wait is not seen in Lifecycle.                       *)
LEMMA UnseenStep ==
  ASSUME phase # "panic", phase' # "panic",
         UNCHANGED <<valid, waiting_child, child_exit_code>>,
         \A t \in Task : state'[t] = "ZOMBIE" <=> state[t] = "ZOMBIE",
         \A t \in Task : kpc'[t] = "wait" <=> kpc[t] = "wait"
  PROVE  UNCHANGED L!vars
<1>1. \A t \in Task : Status(t)' = Status(t)
  BY DEF Status
<1>2. \A t \in Task : PendingResult(t)' = PendingResult(t)
  BY DEF PendingResult
<1> QED
  BY <1>1, <1>2, QuietStutters DEF Quiet

(* Every step of Sched is a step of Lifecycle or a stutter.                   *)
LEMMA LifecycleNext == SchedInvariant /\ [Next]_vars => [L!Next]_L!vars
<1> SUFFICES ASSUME SchedInvariant, [Next]_vars PROVE [L!Next]_L!vars
  OBVIOUS
<1>0. cur \in Task /\ TypeOK
  BY DEF SchedInvariant, TypeOK
<1> USE <1>0, ConstantFacts DEF TypeOK, listVars, taskVars, displayVars
<1>1. ASSUME NEW y \in Tty, SysReadLine(y) PROVE UNCHANGED L!vars
  BY <1>1, UnseenStep DEF SysReadLine, InUserMode
<1>2. ASSUME NEW y \in Tty, SysReadSleep(y) PROVE UNCHANGED L!vars
  BY <1>2, UnseenStep, CurrentReady DEF SysReadSleep, InUserMode, sleep, SleepAfterWakeup, StateAfterWakeup,
     Woken
<1>3. ASSUME NEW y \in Tty, SysWrite(y) PROVE UNCHANGED L!vars
  BY <1>3, UnseenStep DEF SysWrite, InUserMode, wakeup, StateAfterWakeup, Woken
<1>4. ASSUME NEW code \in EXIT_CODES, SysExit(code) PROVE L!Next
  <2>1. code \in ExitCode
    BY DEF ExitCode
  <2> QED
    BY <1>4, <2>1, ExitStep DEF SysExit, InUserMode, L!Next
<1>5. CASE Exception
  BY <1>5, ExitStep DEF Exception, InUserMode, L!Next
<1>6. CASE SysSpawnNoWait
  BY <1>6, SpawnStep DEF SysSpawnNoWait, InUserMode, L!Next
<1>7. CASE SysSpawnWait
  BY <1>7, SpawnWaitStep DEF SysSpawnWait, InUserMode, L!Next
<1>8. CASE SysSpawnPanic \/ RootSpawnPanic
  <2>1. phase # "panic" /\ phase' = "panic"
    BY <1>8 DEF SysSpawnPanic, RootSpawnPanic, InUserMode, Panic
  <2>2. (\A t \in Task : Status(t)' = Status(t) /\ PendingResult(t)' = PendingResult(t))
    BY <1>8 DEF SysSpawnPanic, RootSpawnPanic, Panic, Status, PendingResult
  <2>3. waiting_child' = waiting_child
    BY <1>8 DEF SysSpawnPanic, RootSpawnPanic, Panic
  <2>4. L!Halt
    BY <2>1, <2>2, <2>3 DEF L!Halt
  <2> QED
    BY <2>1, <2>4 DEF L!Next
<1>9. CASE TimerIntr
  BY <1>9, UnseenStep DEF TimerIntr, InterruptsOn, CallScheduler
<1>10. CASE SerialIntr
  <2>1. \A t \in Task : state'[t] = "ZOMBIE" <=> state[t] = "ZOMBIE"
    BY <1>10, TtyNewDataEffect DEF SerialIntr
  <2> QED
    BY <1>10, <2>1, UnseenStep DEF SerialIntr, InterruptsOn, run_scheduler_if_idle, CallScheduler
<1>11. CASE KeyboardIntr
  <2>1. \A t \in Task : state'[t] = "ZOMBIE" <=> state[t] = "ZOMBIE"
    BY <1>11, TtyNewDataEffect DEF KeyboardIntr
  <2> QED
    BY <1>11, <2>1, UnseenStep DEF KeyboardIntr, InterruptsOn, run_scheduler_if_idle, CallScheduler
<1>12. ASSUME NEW d \in Display, DisplayIntr(d) PROVE UNCHANGED L!vars
  BY <1>12, UnseenStep DEF DisplayIntr, InterruptsOn, run_scheduler_if_idle, CallScheduler, wakeup,
     StateAfterWakeup, Woken
<1>13. CASE scheduler
  <2>1. phase # "panic"
    BY <1>13 DEF scheduler
  <2> QED
    BY <1>13, <2>1, SchedulerStep DEF L!Next
<1>14. CASE HandleSignal
  BY <1>14, ExitStep DEF HandleSignal, L!Next
<1>15. CASE ReturnTimer
  BY <1>15, UnseenStep DEF ReturnTimer, Returns, BackTo, CallScheduler
<1>16. CASE ReturnIfIdle
  BY <1>16, UnseenStep DEF ReturnIfIdle, Returns, BackTo
<1>17. CASE ReturnNoWait
  BY <1>17, UnseenStep DEF ReturnNoWait, Returns, BackTo
<1>18. CASE ReturnWait
  <2>1. phase # "panic"
    BY <1>18 DEF ReturnWait, Returns
  <2> QED
    BY <1>18, <2>1, ReturnWaitStep DEF L!Next
<1>19. CASE ReturnReadLine
  BY <1>19, UnseenStep DEF ReturnReadLine, Returns, BackTo
<1>20. CASE ReturnReadSleep
  BY <1>20, UnseenStep, CurrentReady DEF ReturnReadSleep, Returns, sleep, SleepAfterWakeup, StateAfterWakeup,
     Woken
<1>21. CASE ReturnRedraw
  BY <1>21, UnseenStep DEF ReturnRedraw, Returns, BackTo
<1>22. CASE RootSpawn
  BY <1>22, SpawnWaitStep DEF RootSpawn, L!Next
<1>23. CASE RootSpawnFails
  BY <1>23, UnseenStep DEF RootSpawnFails, wakeup, StateAfterWakeup, Woken
<1>24. CASE Redraw
  BY <1>24, UnseenStep, CurrentReady DEF Redraw, sleep, SleepAfterWakeup, StateAfterWakeup, Woken
<1>25. CASE UNCHANGED vars
  BY <1>25 DEF vars, L!vars, Status, PendingResult
<1> QED
  BY <1>1, <1>2, <1>3, <1>4, <1>5, <1>6, <1>7, <1>8, <1>9, <1>10, <1>11, <1>12, <1>13,
     <1>14, <1>15, <1>16, <1>17, <1>18, <1>19, <1>20, <1>21, <1>22, <1>23, <1>24, <1>25
     DEF Next, UserStep, DeviceIntr, KernelStep, Halted

(* Sched implements Lifecycle: every wait of task_spawn_user is ended by the  *)
(* task_exit of its own child and returns that child's code, however late the *)
(* parent runs and whatever the child's slot holds by then, and reap_zombies  *)
(* frees tasks that have exited and no others.                                *)
THEOREM LifecycleRefinement == Spec => ImplementsLifecycle
<1>1. Spec => L!Init /\ [][L!Next]_L!vars
  BY LifecycleInit, LifecycleNext, SchedInvariance, PTL DEF Spec
<1> QED
  BY <1>1 DEF ImplementsLifecycle, L!Spec

=============================================================================
