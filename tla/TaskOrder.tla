----------------------------- MODULE TaskOrder -----------------------------
(***************************************************************************)
(* The list of threads as the scheduler relies on it: which threads are    *)
(* linked, and what a walk of list.h's macros visits behind each of them.  *)
(* Sched is written over this module, List shows that the pointers         *)
(* implement it.                                                           *)
(***************************************************************************)
EXTENDS Naturals

CONSTANT MAX_TASKS       \* slots of task_pool

Task == 0 .. MAX_TASKS - 1

VARIABLES
  task_list,        \* threads linked in task_list
  after             \* after[t]: what list_for_each_from(t->link.next) visits

listVars == <<task_list, after>>

list_init ==
  /\ task_list = {}
  /\ after = [t \in Task |-> {}]

(* list_add(&t->link, &task_list) puts t at the front. *)
list_add(t) ==
  /\ task_list' = task_list \cup {t}
  /\ after' = [after EXCEPT ![t] = task_list]

(* list_del of every thread of S. *)
list_del(S) ==
  /\ task_list' = task_list \ S
  /\ after' = [t \in Task |-> IF t \in S THEN {} ELSE after[t] \ S]

(* t is the first thread of S that a walk meets. *)
FirstOf(t, S) == t \in S /\ S \ {t} \subseteq after[t]

(* Of the threads that are ready, n is the first one behind c, else the     *)
(* first of the list; without any it is idle.                               *)
NextReady(n, c, ready, idle) ==
  \/ FirstOf(n, ready \cap after[c])
  \/ ready \cap after[c] = {} /\ FirstOf(n, ready)
  \/ ready = {} /\ n = idle

OrderNext ==
  \/ \E t \in Task \ task_list : list_add(t)
  \/ \E t \in task_list : list_del({t})

OrderSpec == list_init /\ [][OrderNext]_listVars
=============================================================================
