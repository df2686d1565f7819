-------------------------------- MODULE List --------------------------------
(***************************************************************************)
(* The ring of list.h and the walks of scheduler() over it, pointer by     *)
(* pointer: links are set when a thread is created, reap_zombies unlinks   *)
(* and frees threads while it walks, and the search for a thread starts at *)
(* the link of the current one.  Interrupts are off in all of it; the      *)
(* steps are those of the loops, so that a pointer is followed in the      *)
(* state that the iteration before has left.                               *)
(***************************************************************************)
EXTENDS Naturals, FiniteSets

CONSTANTS
  MAX_TASKS,
  HEAD,             \* &task_list
  NULL

Task == 0 .. MAX_TASKS - 1
Link == Task \cup {HEAD}

ASSUME ListAssumption ==
  /\ MAX_TASKS \in Nat /\ MAX_TASKS >= 2
  /\ HEAD \notin Task /\ NULL \notin Link /\ HEAD # NULL

root_task == 0
idle_task == 1

VARIABLES
  next, prev,       \* the links of the threads and of the head; NULL before list_init and after list_del
  state,            \* state of the thread, "NONE" for a slot that is not valid
  cur,              \* cur_thread
  pc,               \* "boot", "run", or the loop: "reap", "behind", "whole"
  pos, tmp          \* the loop's variables

vars == <<next, prev, state, cur, pc, pos, tmp>>

TypeOK ==
  /\ next \in [Link -> Link \cup {NULL}]
  /\ prev \in [Link -> Link \cup {NULL}]
  /\ state \in [Task -> {"NONE", "READY", "SLEEPING", "ZOMBIE"}]
  /\ cur \in Task
  /\ pc \in {"boot", "run", "reap", "behind", "whole"}
  /\ pos \in Link \cup {NULL}
  /\ tmp \in Link \cup {NULL}

(* list_init(&task_list) in init_scheduler. *)
Init ==
  /\ next = [l \in Link |-> IF l = HEAD THEN HEAD ELSE NULL]
  /\ prev = [l \in Link |-> IF l = HEAD THEN HEAD ELSE NULL]
  /\ state = [t \in Task |-> "NONE"]
  /\ cur = root_task
  /\ pc = "boot"
  /\ pos = HEAD
  /\ tmp = HEAD

(* Mutant: the element behind the head is not linked back. *)
list_add_one_way(e) ==
  /\ prev' = [prev EXCEPT ![e] = HEAD]
  /\ next' = [next EXCEPT ![e] = next[HEAD], ![HEAD] = e]

(* The assignments of list_add(&e->link, &task_list), in their order. *)
list_add(e) ==
  /\ prev' = [prev EXCEPT ![next[HEAD]] = e, ![e] = HEAD]
  /\ next' = [next EXCEPT ![e] = next[HEAD], ![HEAD] = e]

list_del(e) ==
  /\ prev' = [prev EXCEPT ![next[e]] = prev[e], ![e] = NULL]
  /\ next' = [next EXCEPT ![prev[e]] = next[e], ![e] = NULL]

-----------------------------------------------------------------------------
(* create_empty_task takes the first free slot; setup_blank_thread makes    *)
(* the thread ready.                                                        *)
FreeSlot(n) == state[n] = "NONE" /\ \A m \in Task : m < n => state[m] # "NONE"

Create(n) ==
  /\ FreeSlot(n)
  /\ state' = [state EXCEPT ![n] = "READY"]
  /\ list_add(n)

(* task_spawn_kernel of the root and of the idle task. *)
BootSpawn ==
  /\ pc = "boot"
  /\ \E n \in {root_task, idle_task} : Create(n)
  /\ pc' = IF state[root_task] = "READY" THEN "run" ELSE "boot"
  /\ UNCHANGED <<cur, pos, tmp>>

(* scheduler(), up to the head of the loop of reap_zombies. *)
CallScheduler ==
  /\ pc' = "reap"
  /\ pos' = next'[HEAD]
  /\ tmp' = next'[next'[HEAD]]
  /\ UNCHANGED cur

(* task_spawn_user without wait, and with it: the parent is asleep then. *)
SpawnNoWait ==
  /\ pc = "run" /\ cur # idle_task
  /\ \E n \in Task : Create(n)
  /\ CallScheduler

SpawnWait ==
  /\ pc = "run" /\ cur # idle_task
  /\ \E n \in Task : /\ FreeSlot(n)
                     /\ state' = [state EXCEPT ![n] = "READY", ![cur] = "SLEEPING"]
                     /\ list_add(n)
  /\ CallScheduler

(* Any other way into scheduler(): a sleep, an exit, or a preemption. *)
Block(s) ==
  /\ pc = "run"
  /\ s # "READY" => cur # idle_task
  /\ state' = [state EXCEPT ![cur] = s]
  /\ UNCHANGED <<next, prev>>
  /\ CallScheduler

(* wakeup(), by an interrupt or by the current thread. *)
Wake(t) ==
  /\ pc = "run"
  /\ state[t] = "SLEEPING"
  /\ state' = [state EXCEPT ![t] = "READY"]
  /\ UNCHANGED <<next, prev, cur, pc, pos, tmp>>

-----------------------------------------------------------------------------
(* The third clause of list_for_each_safe. *)
StepSafe ==
  /\ pos' = tmp
  /\ tmp' = next'[tmp]

(* Mutant: the current thread is not spared. *)
IsReaped_with_current(t) == state[t] = "ZOMBIE"

IsReaped(t) == t # cur /\ state[t] = "ZOMBIE"

(* One iteration of the loop of reap_zombies: list_del and free_task. *)
ReapStep ==
  /\ pc = "reap"
  /\ pos # HEAD
  /\ \/ /\ IsReaped(pos)
        /\ list_del(pos)
        /\ state' = [state EXCEPT ![pos] = "NONE"]
     \/ /\ ~IsReaped(pos)
        /\ UNCHANGED <<next, prev, state>>
  /\ StepSafe
  /\ UNCHANGED <<cur, pc>>

(* find_runnable_thread begins at the link of the current thread. *)
ReapEnd ==
  /\ pc = "reap"
  /\ pos = HEAD
  /\ pc' = "behind"
  /\ pos' = next[cur]
  /\ UNCHANGED <<next, prev, state, cur, tmp>>

IsRunnable(t) == t # idle_task /\ state[t] = "READY"

switchto(n) ==
  /\ cur' = n
  /\ pc' = "run"
  /\ pos' = HEAD
  /\ tmp' = HEAD

(* One iteration of either loop of find_runnable_thread.  tmp matters in no *)
(* iteration without a deletion.                                            *)
SearchStep ==
  /\ pc \in {"behind", "whole"}
  /\ pos # HEAD
  /\ \/ IsRunnable(pos) /\ switchto(pos)
     \/ ~IsRunnable(pos) /\ pos' = next[pos] /\ UNCHANGED <<cur, pc, tmp>>
  /\ UNCHANGED <<next, prev, state>>

(* Mutant: nothing behind the current thread, and the idle thread is taken. *)
BehindEnd_idle ==
  /\ pc = "behind"
  /\ pos = HEAD
  /\ switchto(idle_task)
  /\ UNCHANGED <<next, prev, state>>

BehindEnd ==
  /\ pc = "behind"
  /\ pos = HEAD
  /\ pc' = "whole"
  /\ pos' = next[HEAD]
  /\ UNCHANGED <<next, prev, state, cur, tmp>>

WholeEnd ==
  /\ pc = "whole"
  /\ pos = HEAD
  /\ switchto(idle_task)
  /\ UNCHANGED <<next, prev, state>>

LoopStep == ReapStep \/ ReapEnd \/ SearchStep \/ BehindEnd \/ WholeEnd

Next ==
  \/ BootSpawn
  \/ SpawnNoWait
  \/ SpawnWait
  \/ \E s \in {"READY", "SLEEPING", "ZOMBIE"} : Block(s)
  \/ \E t \in Task : Wake(t)
  \/ LoopStep

Spec == Init /\ [][Next]_vars

-----------------------------------------------------------------------------
(* What a walk of the ring visits that starts at l: l, and so on to the head. *)
Visited(l) ==
  LET reached[k \in 0 .. Cardinality(Task)] ==
        IF k = 0 THEN {l} ELSE reached[k - 1] \cup {next[m] : m \in reached[k - 1] \ {HEAD, NULL}}
  IN  reached[Cardinality(Task)] \ {HEAD, NULL}

T == INSTANCE TaskOrder WITH
       task_list <- Visited(next[HEAD]),
       after <- [t \in Task |-> Visited(next[t])]

(* list_init, list_add and list_del on the pointers, in whatever order the  *)
(* threads come and go, are those operations on the order of the threads    *)
(* that the scheduler is specified over.                                    *)
ImplementsTaskOrder == T!OrderSpec

(* The ring is the same in both directions, holds the valid threads and no  *)
(* other, and no loop stands on a link that is not in it: reap_zombies      *)
(* never follows the link of a thread it has freed, and the search never    *)
(* starts at one.                                                           *)
WalkStaysOnRing ==
  LET ring == {t \in Task : state[t] # "NONE"} \cup {HEAD}
  IN  /\ TypeOK
      /\ \A l \in ring : next[l] \in ring /\ prev[next[l]] = l
      /\ pc # "boot" => {pos, cur} \subseteq ring
      /\ pc = "reap" => tmp \in ring

(* scheduler() frees every zombie but the current thread, and switches to   *)
(* the thread that is next in the order.                                    *)
ScheduleStep ==
  (pc \in {"behind", "whole"} /\ pc' = "run")
     => /\ \A t \in Task \ {cur} : state[t] # "ZOMBIE"
        /\ T!NextReady(cur', cur, {t \in Task : IsRunnable(t)}, idle_task)

SchedulerTakesNext == [][ScheduleStep]_vars
=============================================================================
