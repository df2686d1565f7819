----------------------------- MODULE Lifecycle -----------------------------
(***************************************************************************)
(* What spawn, wait and exit promise to the tasks (task.c), with neither   *)
(* scheduler nor sleep nor interrupts: a task exits once; the one parent   *)
(* that waits for it is given its exit code, in the same step and from it  *)
(* alone; the code is kept until the parent has taken it or has exited     *)
(* itself, whatever happens to the child's slot in between; and a slot is  *)
(* given to a new task only after the old one has exited and was freed.    *)
(* Sched implements it.                                                    *)
(***************************************************************************)

CONSTANTS
  Task,      \* slots of the pool
  Code,      \* exit codes
  Founders,  \* tasks that are there from the start
  NULL

VARIABLES
  status,    \* status[t]: "free", "alive" or "exited"
  awaits,    \* awaits[t]: the child that t waits for
  result,    \* result[t]: the exit code that t is about to take
  halted     \* the machine has panicked

vars == <<status, awaits, result, halted>>

Init ==
  /\ status = [t \in Task |-> IF t \in Founders THEN "alive" ELSE "free"]
  /\ awaits = [t \in Task |-> NULL]
  /\ result = [t \in Task |-> NULL]
  /\ halted = FALSE

(* t is alive, and neither waiting nor about to take a result. *)
Active(t) == status[t] = "alive" /\ awaits[t] = NULL /\ result[t] = NULL

Spawn(t, n) ==
  /\ Active(t)
  /\ status[n] = "free"
  /\ status' = [status EXCEPT ![n] = "alive"]
  /\ UNCHANGED <<awaits, result, halted>>

SpawnAndWait(t, n) ==
  /\ Active(t)
  /\ status[n] = "free"
  /\ status' = [status EXCEPT ![n] = "alive"]
  /\ awaits' = [awaits EXCEPT ![t] = n]
  /\ UNCHANGED <<result, halted>>

(* The exit of t with code c.  A task may be killed before it takes its result. *)
Exit(t, c) ==
  /\ status[t] = "alive"
  /\ awaits[t] = NULL
  /\ status' = [status EXCEPT ![t] = "exited"]
  /\ awaits' = [p \in Task |-> IF awaits[p] = t THEN NULL ELSE awaits[p]]
  /\ result' = [p \in Task |-> IF awaits[p] = t THEN c
                               ELSE IF p = t THEN NULL ELSE result[p]]
  /\ UNCHANGED halted

(* The wait of t returns its result. *)
Take(t) ==
  /\ status[t] = "alive"
  /\ result[t] # NULL
  /\ result' = [result EXCEPT ![t] = NULL]
  /\ UNCHANGED <<status, awaits, halted>>

Exited == {t \in Task : status[t] = "exited"}

(* The slots of S, all of exited tasks, are freed. *)
Free(S) ==
  /\ status' = [t \in Task |-> IF t \in S THEN "free" ELSE status[t]]
  /\ UNCHANGED <<awaits, result, halted>>

Halt ==
  /\ halted' = TRUE
  /\ UNCHANGED <<status, awaits, result>>

Next ==
  /\ ~halted
  /\ \/ \E t \in Task, n \in Task : Spawn(t, n) \/ SpawnAndWait(t, n)
     \/ \E t \in Task, c \in Code : Exit(t, c)
     \/ \E t \in Task : Take(t)
     \/ \E S \in SUBSET Exited : Free(S)
     \/ Halt

Spec == Init /\ [][Next]_vars

(* An exited task is freed, and a result is taken, or its owner exits. *)
Progress ==
  \A t \in Task : /\ status[t] = "exited" ~> (status[t] = "free" \/ halted)
                  /\ result[t] # NULL ~> (result[t] = NULL \/ halted)
=============================================================================
