----------------------------- MODULE ListProofs -----------------------------
(***************************************************************************)
(* Machine-checked proofs about List, for every number of tasks: the loops *)
(* of scheduler() follow the links of list.h and never leave the ring,     *)
(* though reap_zombies unlinks and frees the threads it walks over; the    *)
(* links implement TaskOrder; and scheduler() switches to the thread that  *)
(* is next in that order.                                                  *)
(***************************************************************************)
EXTENDS List, FiniteSetTheorems, WellFoundedInduction, TLAPS

(* The links that the ring is made of. *)
Ring == {t \in Task : state[t] # "NONE"} \cup {HEAD}

(* Both directions agree, and stay in the ring. *)
LinksAgree ==
  \A l \in Ring : /\ next[l] \in Ring /\ prev[next[l]] = l
                  /\ prev[l] \in Ring /\ next[prev[l]] = l

(* There is one ring: no set of threads is closed under next without the     *)
(* head.  In particular no thread is its own successor, which is what lets   *)
(* list_for_each_safe unlink the thread it stands on.                        *)
OneRing ==
  \A S \in SUBSET (Ring \ {HEAD}) : S # {} => \E l \in S : next[l] \notin S

(* At boot only the root task may exist; afterwards the idle task is ready,  *)
(* the current thread is linked, and so is the position of every loop.       *)
WalkIsSafe ==
  /\ pc = "boot" => /\ \A t \in Task : t # root_task => state[t] = "NONE"
                    /\ state[root_task] \in {"NONE", "READY"}
                    /\ cur = root_task /\ pos = HEAD
  /\ pc # "boot" => /\ state[idle_task] = "READY"
                    /\ cur \in Ring /\ pos \in Ring
  /\ pc = "reap" => tmp \in Ring /\ (pos # HEAD => tmp = next[pos])

(* The inductive invariant. *)
RingInvariant == TypeOK /\ LinksAgree /\ OneRing /\ WalkIsSafe

-----------------------------------------------------------------------------
(* The first two slots, and the values that are no thread.                    *)
LEMMA SlotFacts ==
  /\ root_task \in Task /\ idle_task \in Task /\ root_task # idle_task
  /\ HEAD \notin Task /\ NULL \notin Link /\ HEAD \in Link /\ Task \subseteq Link
BY ListAssumption DEF ListAssumption, root_task, idle_task, Task, Link

(* list_init leaves the head alone in the ring.                               *)
LEMMA RingInit == Init => RingInvariant
<1> SUFFICES ASSUME Init PROVE RingInvariant
  OBVIOUS
<1>1. TypeOK
  BY SlotFacts DEF Init, TypeOK
<1>2. Ring = {HEAD}
  BY DEF Init, Ring
<1>3. next[HEAD] = HEAD /\ prev[HEAD] = HEAD
  BY SlotFacts DEF Init
<1>4. LinksAgree /\ OneRing
  BY <1>2, <1>3 DEF LinksAgree, OneRing
<1>5. WalkIsSafe
  BY <1>1, SlotFacts DEF Init, WalkIsSafe
<1> QED
  BY <1>1, <1>4, <1>5 DEF RingInvariant

(* Steps that leave the links alone and neither create nor free a thread.     *)
LEMMA SameRing ==
  ASSUME RingInvariant, next' = next, prev' = prev,
         \A t \in Task : state'[t] = "NONE" <=> state[t] = "NONE"
  PROVE  Ring' = Ring /\ LinksAgree' /\ OneRing'
<1>1. Ring' = Ring
  BY DEF Ring
<1> QED
  BY <1>1 DEF RingInvariant, LinksAgree, OneRing

(* list_add of a new thread.                                                  *)
LEMMA AddStep ==
  ASSUME RingInvariant, NEW e \in Task, state[e] = "NONE", list_add(e),
         \A t \in Task : state'[t] = "NONE" <=> state[t] = "NONE" /\ t # e
  PROVE  /\ Ring' = Ring \cup {e} /\ LinksAgree' /\ OneRing'
         /\ next' \in [Link -> Link \cup {NULL}] /\ prev' \in [Link -> Link \cup {NULL}]
<1> DEFINE f == next[HEAD]
<1>1. TypeOK /\ LinksAgree /\ OneRing
  BY DEF RingInvariant
<1>2. HEAD \in Ring /\ e \notin Ring /\ Ring \subseteq Link /\ e \in Link /\ e # HEAD
  BY SlotFacts DEF Ring
<1>3. f \in Ring /\ prev[f] = HEAD /\ f # e
  BY <1>1, <1>2 DEF LinksAgree
<1>4. Ring' = Ring \cup {e}
  BY DEF Ring
<1>5. next \in [Link -> Link \cup {NULL}] /\ prev \in [Link -> Link \cup {NULL}]
  BY <1>1 DEF TypeOK
<1>6. next' \in [Link -> Link \cup {NULL}] /\ prev' \in [Link -> Link \cup {NULL}]
  BY <1>2, <1>3, <1>5 DEF list_add
<1>7. /\ next'[e] = f /\ next'[HEAD] = e
      /\ \A l \in Link : l # e /\ l # HEAD => next'[l] = next[l]
  BY <1>2, <1>5 DEF list_add
<1>8. /\ prev'[e] = HEAD /\ prev'[f] = e
      /\ \A l \in Link : l # e /\ l # f => prev'[l] = prev[l]
  BY <1>2, <1>3, <1>5 DEF list_add
<1> HIDE DEF f
<1>9. LinksAgree'
  <2> SUFFICES ASSUME NEW l \in Ring \cup {e}
               PROVE  /\ next'[l] \in Ring \cup {e} /\ prev'[next'[l]] = l
                      /\ prev'[l] \in Ring \cup {e} /\ next'[prev'[l]] = l
    BY <1>4 DEF LinksAgree
  <2>1. \A k \in Ring : /\ next[k] \in Ring /\ prev[next[k]] = k
                        /\ prev[k] \in Ring /\ next[prev[k]] = k
    BY <1>1 DEF LinksAgree
  <2>2. next'[l] \in Ring \cup {e} /\ prev'[next'[l]] = l
    <3>1. CASE l = e \/ l = HEAD
      BY <1>2, <1>3, <1>7, <1>8, <3>1
    <3>2. CASE l # e /\ l # HEAD
      <4>1. next'[l] = next[l] /\ next[l] \in Ring /\ prev[next[l]] = l
        BY <1>2, <1>7, <2>1, <3>2
      <4>2. next[l] # f /\ next[l] # e
        BY <1>2, <1>3, <3>2, <4>1
      <4> QED
        BY <1>2, <1>8, <4>1, <4>2
    <3> QED
      BY <3>1, <3>2
  <2>3. prev'[l] \in Ring \cup {e} /\ next'[prev'[l]] = l
    <3>1. CASE l = e \/ l = f
      BY <1>2, <1>3, <1>7, <1>8, <3>1
    <3>2. CASE l # e /\ l # f
      <4>1. prev'[l] = prev[l] /\ prev[l] \in Ring /\ next[prev[l]] = l
        BY <1>2, <1>8, <2>1, <3>2
      <4>2. prev[l] # HEAD /\ prev[l] # e
        BY <1>2, <3>2, <4>1 DEF f
      <4> QED
        BY <1>2, <1>7, <4>1, <4>2
    <3> QED
      BY <3>1, <3>2
  <2> QED
    BY <2>2, <2>3
<1>10. OneRing'
  <2> SUFFICES ASSUME NEW S \in SUBSET ((Ring \cup {e}) \ {HEAD}), S # {}
               PROVE  \E l \in S : next'[l] \notin S
    BY <1>4 DEF OneRing
  <2>1. CASE S = {e}
    BY <1>3, <1>7, <2>1
  <2>2. CASE S # {e}
    <3> DEFINE R == S \ {e}
    <3>1. R \in SUBSET (Ring \ {HEAD}) /\ R # {}
      BY <2>2
    <3>2. PICK l \in R : next[l] \notin R
      BY <1>1, <3>1 DEF OneRing
    <3>3. l \in S /\ l # e /\ l # HEAD /\ l \in Ring
      OBVIOUS
    <3>4. next'[l] = next[l] /\ next[l] \in Ring
      BY <1>1, <1>2, <1>7, <3>3 DEF LinksAgree
    <3> QED
      BY <1>2, <3>2, <3>3, <3>4
  <2> QED
    BY <2>1, <2>2
<1> QED
  BY <1>4, <1>6, <1>9, <1>10

(* list_del of a thread that the walk stands on.                              *)
LEMMA DelStep ==
  ASSUME RingInvariant, NEW e \in Task, state[e] # "NONE", list_del(e),
         \A t \in Task : state'[t] = "NONE" <=> state[t] = "NONE" \/ t = e
  PROVE  /\ Ring' = Ring \ {e} /\ next[e] \in Ring \ {e} /\ LinksAgree' /\ OneRing'
         /\ next' \in [Link -> Link \cup {NULL}] /\ prev' \in [Link -> Link \cup {NULL}]
<1> DEFINE n == next[e]
           p == prev[e]
<1>1. TypeOK /\ LinksAgree /\ OneRing
  BY DEF RingInvariant
<1>2. HEAD \in Ring /\ e \in Ring /\ Ring \subseteq Link /\ e # HEAD
  BY SlotFacts DEF Ring
<1>3. \A k \in Ring : /\ next[k] \in Ring /\ prev[next[k]] = k
                      /\ prev[k] \in Ring /\ next[prev[k]] = k
  BY <1>1 DEF LinksAgree
<1>4. n # e
  <2>1. {e} \in SUBSET (Ring \ {HEAD}) /\ {e} # {}
    BY <1>2
  <2> QED
    BY <1>1, <2>1 DEF OneRing
<1>5. n \in Ring /\ p \in Ring /\ prev[n] = e /\ next[p] = e /\ p # e
  BY <1>2, <1>3, <1>4
<1>6. Ring' = Ring \ {e}
  BY SlotFacts DEF Ring
<1>7. next \in [Link -> Link \cup {NULL}] /\ prev \in [Link -> Link \cup {NULL}]
  BY <1>1 DEF TypeOK
<1>8. next' \in [Link -> Link \cup {NULL}] /\ prev' \in [Link -> Link \cup {NULL}]
  BY <1>2, <1>5, <1>7 DEF list_del
<1>9. next'[p] = n /\ \A l \in Link : l # e /\ l # p => next'[l] = next[l]
  BY <1>2, <1>5, <1>7 DEF list_del
<1>10. prev'[n] = p /\ \A l \in Link : l # e /\ l # n => prev'[l] = prev[l]
  BY <1>2, <1>4, <1>5, <1>7 DEF list_del
<1>11. next[e] \in Ring \ {e}
  BY <1>4, <1>5
<1> HIDE DEF n, p
<1>12. LinksAgree'
  <2> SUFFICES ASSUME NEW l \in Ring \ {e}
               PROVE  /\ next'[l] \in Ring \ {e} /\ prev'[next'[l]] = l
                      /\ prev'[l] \in Ring \ {e} /\ next'[prev'[l]] = l
    BY <1>6 DEF LinksAgree
  <2>1. next'[l] \in Ring \ {e} /\ prev'[next'[l]] = l
    <3>1. CASE l = p
      BY <1>4, <1>5, <1>9, <1>10, <3>1
    <3>2. CASE l # p
      <4>1. next'[l] = next[l] /\ next[l] \in Ring /\ prev[next[l]] = l
        BY <1>2, <1>3, <1>9, <3>2
      <4>2. next[l] # e /\ next[l] # n
        BY <1>5, <3>2, <4>1 DEF p
      <4> QED
        BY <1>2, <1>10, <4>1, <4>2
    <3> QED
      BY <3>1, <3>2
  <2>2. prev'[l] \in Ring \ {e} /\ next'[prev'[l]] = l
    <3>1. CASE l = n
      BY <1>5, <1>9, <1>10, <3>1
    <3>2. CASE l # n
      <4>1. prev'[l] = prev[l] /\ prev[l] \in Ring /\ next[prev[l]] = l
        BY <1>2, <1>3, <1>10, <3>2
      <4>2. prev[l] # e /\ prev[l] # p
        BY <1>5, <3>2, <4>1 DEF n
      <4> QED
        BY <1>2, <1>9, <4>1, <4>2
    <3> QED
      BY <3>1, <3>2
  <2> QED
    BY <2>1, <2>2
<1>13. OneRing'
  <2> SUFFICES ASSUME NEW S \in SUBSET ((Ring \ {e}) \ {HEAD}), S # {}
               PROVE  \E l \in S : next'[l] \notin S
    BY <1>6 DEF OneRing
  <2>1. CASE p \notin S
    <3>1. PICK l \in S : next[l] \notin S
      BY <1>1 DEF OneRing
    <3>2. next'[l] = next[l]
      BY <1>2, <1>9, <2>1
    <3> QED
      BY <3>1, <3>2
  <2>2. CASE p \in S
    <3> DEFINE R == S \cup {e}
    <3>1. R \in SUBSET (Ring \ {HEAD}) /\ R # {}
      BY <1>2
    <3>2. PICK l \in R : next[l] \notin R
      BY <1>1, <3>1 DEF OneRing
    <3>3. CASE l = e
      BY <1>9, <2>2, <3>2, <3>3 DEF n
    <3>4. CASE l # e
      <4>1. l \in S /\ l # p /\ l \in Link
        BY <1>2, <1>5, <3>2, <3>4
      <4>2. next'[l] = next[l]
        BY <1>9, <3>4, <4>1
      <4> QED
        BY <3>2, <4>1, <4>2
    <3> QED
      BY <3>3, <3>4
  <2> QED
    BY <2>1, <2>2
<1> QED
  BY <1>6, <1>8, <1>11, <1>12, <1>13

(* A call of scheduler() from a thread that is linked: the walk starts at     *)
(* the head of the new list.                                                  *)
LEMMA CallStep ==
  ASSUME LinksAgree', HEAD \in Ring', state'[idle_task] = "READY", cur \in Ring', CallScheduler
  PROVE  WalkIsSafe'
<1>1. pc' = "reap" /\ pos' = next'[HEAD] /\ tmp' = next'[next'[HEAD]] /\ cur' = cur
  BY DEF CallScheduler
<1>2. pos' \in Ring' /\ tmp' \in Ring'
  BY <1>1 DEF LinksAgree
<1> QED
  BY <1>1, <1>2 DEF WalkIsSafe

(* The invariant with a new thread, spawned by one that may go to sleep.      *)
LEMMA SpawnSafe ==
  ASSUME RingInvariant, pc = "run", NEW n \in Task, state[n] = "NONE", list_add(n), CallScheduler,
         cur # idle_task, NEW s \in {"READY", "SLEEPING"},
         state' = [state EXCEPT ![n] = "READY", ![cur] = s] \/ state' = [state EXCEPT ![n] = "READY"]
  PROVE  RingInvariant'
<1>1. TypeOK /\ WalkIsSafe /\ cur \in Task /\ cur \in Ring /\ state[idle_task] = "READY"
  BY DEF RingInvariant, WalkIsSafe, TypeOK
<1>2. state[cur] # "NONE" /\ n # idle_task /\ cur # n
  BY <1>1, SlotFacts DEF Ring
<1>3. /\ \A t \in Task : state'[t] = "NONE" <=> state[t] = "NONE" /\ t # n
      /\ state' \in [Task -> {"NONE", "READY", "SLEEPING", "ZOMBIE"}]
      /\ state'[idle_task] = "READY"
  BY <1>1, <1>2, SlotFacts DEF TypeOK
<1>4. /\ Ring' = Ring \cup {n} /\ LinksAgree' /\ OneRing'
      /\ next' \in [Link -> Link \cup {NULL}] /\ prev' \in [Link -> Link \cup {NULL}]
  BY <1>3, AddStep
<1>5. HEAD \in Ring' /\ cur \in Ring'
  BY <1>1, <1>4 DEF Ring
<1>6. WalkIsSafe'
  BY <1>3, <1>4, <1>5, CallStep
<1>7. TypeOK'
  <2>1. pc' = "reap" /\ pos' = next'[HEAD] /\ tmp' = next'[next'[HEAD]] /\ cur' = cur
    BY DEF CallScheduler
  <2>2. pos' \in Ring' /\ tmp' \in Ring' /\ Ring' \subseteq Link
    BY <1>4, <1>5, <2>1, SlotFacts DEF LinksAgree, Ring
  <2> QED
    BY <1>1, <1>3, <1>4, <2>1, <2>2 DEF TypeOK
<1> QED
  BY <1>4, <1>6, <1>7 DEF RingInvariant

(* task_spawn_kernel of the root task, then of the idle task.                 *)
LEMMA BootSafe == RingInvariant /\ BootSpawn => RingInvariant'
<1> SUFFICES ASSUME RingInvariant, BootSpawn PROVE RingInvariant'
  OBVIOUS
<1>1. TypeOK /\ WalkIsSafe /\ pc = "boot"
  BY DEF RingInvariant, BootSpawn
<1>2. /\ \A t \in Task : t # root_task => state[t] = "NONE"
      /\ state[root_task] \in {"NONE", "READY"} /\ cur = root_task /\ pos = HEAD
  BY <1>1 DEF WalkIsSafe
<1>3. PICK n \in {root_task, idle_task} : Create(n)
  BY DEF BootSpawn
<1>4. /\ state[n] = "NONE" /\ state' = [state EXCEPT ![n] = "READY"] /\ list_add(n) /\ n \in Task
      /\ \A m \in Task : m < n => state[m] # "NONE"
  BY <1>3, SlotFacts DEF Create, FreeSlot
<1>5. UNCHANGED <<cur, pos, tmp>> /\ pc' = IF state[root_task] = "READY" THEN "run" ELSE "boot"
  BY DEF BootSpawn
<1>6. /\ \A t \in Task : state'[t] = IF t = n THEN "READY" ELSE state[t]
      /\ state' \in [Task -> {"NONE", "READY", "SLEEPING", "ZOMBIE"}]
  BY <1>1, <1>4 DEF TypeOK
<1>7. /\ Ring' = Ring \cup {n} /\ LinksAgree' /\ OneRing'
      /\ next' \in [Link -> Link \cup {NULL}] /\ prev' \in [Link -> Link \cup {NULL}]
  BY <1>4, <1>6, AddStep
<1>8. TypeOK'
  BY <1>1, <1>5, <1>6, <1>7 DEF TypeOK
<1>9. n = IF state[root_task] = "READY" THEN idle_task ELSE root_task
  <2>1. root_task < idle_task
    BY DEF root_task, idle_task
  <2> QED
    BY <1>2, <1>3, <1>4, <2>1, SlotFacts
<1>10. WalkIsSafe'
  <2>1. CASE state[root_task] = "READY"
    <3>1. pc' = "run" /\ n = idle_task /\ state'[idle_task] = "READY"
      BY <1>4, <1>5, <1>6, <1>9, <2>1
    <3>2. cur' \in Ring' /\ pos' \in Ring'
      BY <1>2, <1>5, <1>7, <2>1, SlotFacts DEF Ring
    <3> QED
      BY <3>1, <3>2 DEF WalkIsSafe
  <2>2. CASE state[root_task] # "READY"
    BY <1>2, <1>5, <1>6, <1>9, <2>2, SlotFacts DEF WalkIsSafe
  <2> QED
    BY <2>1, <2>2
<1> QED
  BY <1>7, <1>8, <1>10 DEF RingInvariant

(* One iteration of reap_zombies: tmp was read before the thread was freed.   *)
LEMMA ReapSafe == RingInvariant /\ ReapStep => RingInvariant'
<1> SUFFICES ASSUME RingInvariant, ReapStep PROVE RingInvariant'
  OBVIOUS
<1>1. TypeOK /\ WalkIsSafe /\ LinksAgree /\ pc = "reap" /\ pos # HEAD
  BY DEF RingInvariant, ReapStep
<1>2. /\ state[idle_task] = "READY" /\ cur \in Ring /\ pos \in Ring
      /\ tmp \in Ring /\ tmp = next[pos]
  BY <1>1 DEF WalkIsSafe
<1>3. pos' = tmp /\ tmp' = next'[tmp] /\ cur' = cur /\ pc' = pc
  BY DEF ReapStep, StepSafe
<1>4. pos \in Task /\ state[pos] # "NONE"
  BY <1>1, <1>2 DEF Ring
<1>5. Ring' \subseteq Link
  BY SlotFacts DEF Ring
<1>6. CASE IsReaped(pos)
  <2>1. /\ pos # cur /\ state[pos] = "ZOMBIE" /\ list_del(pos)
        /\ state' = [state EXCEPT ![pos] = "NONE"]
    BY <1>6 DEF ReapStep, IsReaped
  <2>2. /\ \A t \in Task : state'[t] = IF t = pos THEN "NONE" ELSE state[t]
        /\ state' \in [Task -> {"NONE", "READY", "SLEEPING", "ZOMBIE"}]
    BY <1>1, <1>4, <2>1 DEF TypeOK
  <2>3. /\ Ring' = Ring \ {pos} /\ next[pos] \in Ring \ {pos} /\ LinksAgree' /\ OneRing'
        /\ next' \in [Link -> Link \cup {NULL}] /\ prev' \in [Link -> Link \cup {NULL}]
    BY <1>4, <2>1, <2>2, DelStep
  <2>4. tmp \in Ring' /\ cur \in Ring' /\ next'[tmp] \in Ring'
    BY <1>2, <2>1, <2>3 DEF LinksAgree
  <2>5. state'[idle_task] = "READY"
    BY <1>2, <2>1, <2>2, SlotFacts
  <2>6. WalkIsSafe'
    BY <1>1, <1>3, <2>4, <2>5 DEF WalkIsSafe
  <2>7. TypeOK'
    BY <1>1, <1>3, <1>5, <2>2, <2>3, <2>4 DEF TypeOK
  <2> QED
    BY <2>3, <2>6, <2>7 DEF RingInvariant
<1>7. CASE ~IsReaped(pos)
  <2>1. next' = next /\ prev' = prev /\ state' = state
    BY <1>7 DEF ReapStep
  <2>2. Ring' = Ring /\ LinksAgree' /\ OneRing'
    BY <2>1, SameRing
  <2>3. next'[tmp] \in Ring'
    BY <1>2, <2>2 DEF LinksAgree
  <2>4. WalkIsSafe'
    BY <1>1, <1>2, <1>3, <2>1, <2>2, <2>3 DEF WalkIsSafe
  <2>5. TypeOK'
    BY <1>1, <1>2, <1>3, <1>5, <2>1, <2>2, <2>3 DEF TypeOK
  <2> QED
    BY <2>2, <2>4, <2>5 DEF RingInvariant
<1> QED
  BY <1>6, <1>7

(* The other steps of the loops, and a thread that is put to sleep or woken.  *)
LEMMA RingNext == RingInvariant /\ [Next]_vars => RingInvariant'
<1> SUFFICES ASSUME RingInvariant, [Next]_vars PROVE RingInvariant'
  OBVIOUS
<1>1. TypeOK /\ WalkIsSafe /\ LinksAgree
  BY DEF RingInvariant
<1>2. ASSUME pc # "boot" PROVE state[idle_task] = "READY" /\ cur \in Ring /\ pos \in Ring /\ cur \in Task
  BY <1>1, <1>2 DEF WalkIsSafe, TypeOK
<1>3. HEAD \in Ring /\ Ring \subseteq Link
  BY SlotFacts DEF Ring
<1>4. CASE SpawnNoWait
  <2>1. PICK n \in Task : Create(n)
    BY <1>4 DEF SpawnNoWait
  <2>2. state[n] = "NONE" /\ list_add(n) /\ state' = [state EXCEPT ![n] = "READY"]
    BY <2>1 DEF Create, FreeSlot
  <2> QED
    BY <1>4, <2>2, SpawnSafe DEF SpawnNoWait
<1>5. CASE SpawnWait
  <2>1. PICK n \in Task : /\ FreeSlot(n) /\ list_add(n)
                          /\ state' = [state EXCEPT ![n] = "READY", ![cur] = "SLEEPING"]
    BY <1>5 DEF SpawnWait
  <2>2. state[n] = "NONE"
    BY <2>1 DEF FreeSlot
  <2> QED
    BY <1>5, <2>1, <2>2, SpawnSafe DEF SpawnWait
<1>6. ASSUME NEW s \in {"READY", "SLEEPING", "ZOMBIE"}, Block(s) PROVE RingInvariant'
  <2>1. /\ pc = "run" /\ (s # "READY" => cur # idle_task) /\ state' = [state EXCEPT ![cur] = s]
        /\ next' = next /\ prev' = prev /\ CallScheduler
    BY <1>6 DEF Block
  <2>2. state[cur] # "NONE" /\ cur \in Task
    BY <1>2, <2>1, SlotFacts DEF Ring
  <2>3. /\ \A t \in Task : state'[t] = "NONE" <=> state[t] = "NONE"
        /\ state' \in [Task -> {"NONE", "READY", "SLEEPING", "ZOMBIE"}]
        /\ state'[idle_task] = "READY"
    BY <1>1, <1>2, <2>1, <2>2, SlotFacts DEF TypeOK
  <2>4. Ring' = Ring /\ LinksAgree' /\ OneRing'
    BY <2>1, <2>3, SameRing
  <2>5. WalkIsSafe'
    BY <1>2, <1>3, <2>1, <2>3, <2>4, CallStep
  <2>6. TypeOK'
    <3>1. pc' = "reap" /\ pos' = next[HEAD] /\ tmp' = next[next[HEAD]] /\ cur' = cur
      BY <2>1 DEF CallScheduler
    <3>2. pos' \in Link /\ tmp' \in Link
      BY <1>1, <1>3, <3>1 DEF LinksAgree
    <3> QED
      BY <1>1, <2>1, <2>3, <3>1, <3>2 DEF TypeOK
  <2> QED
    BY <2>4, <2>5, <2>6 DEF RingInvariant
<1>7. ASSUME NEW t \in Task, Wake(t) PROVE RingInvariant'
  <2>1. /\ pc = "run" /\ state[t] = "SLEEPING" /\ state' = [state EXCEPT ![t] = "READY"]
        /\ UNCHANGED <<next, prev, cur, pc, pos, tmp>>
    BY <1>7 DEF Wake
  <2>2. /\ \A u \in Task : state'[u] = "NONE" <=> state[u] = "NONE"
        /\ state' \in [Task -> {"NONE", "READY", "SLEEPING", "ZOMBIE"}]
        /\ state'[idle_task] = "READY"
    BY <1>1, <1>2, <2>1, SlotFacts DEF TypeOK
  <2>3. Ring' = Ring /\ LinksAgree' /\ OneRing'
    BY <2>1, <2>2, SameRing
  <2>4. WalkIsSafe' /\ TypeOK'
    BY <1>1, <1>2, <2>1, <2>2, <2>3 DEF WalkIsSafe, TypeOK
  <2> QED
    BY <2>3, <2>4 DEF RingInvariant
<1>8. CASE ReapEnd \/ SearchStep \/ BehindEnd \/ WholeEnd
  <2>1. UNCHANGED <<next, prev, state>> /\ pc # "boot"
    BY <1>8 DEF ReapEnd, SearchStep, BehindEnd, WholeEnd
  <2>2. Ring' = Ring /\ LinksAgree' /\ OneRing'
    BY <2>1, SameRing
  <2>3. cur \in Ring /\ pos \in Ring /\ cur \in Task /\ idle_task \in Ring /\ state[idle_task] = "READY"
    BY <1>2, <2>1, SlotFacts DEF Ring
  <2>4. next[cur] \in Ring /\ next[pos] \in Ring /\ next[HEAD] \in Ring
    BY <1>1, <1>3, <2>3 DEF LinksAgree
  <2>5. /\ pc' \in {"run", "behind", "whole"} /\ tmp' \in {tmp, HEAD}
        /\ pos' \in {next[cur], next[pos], next[HEAD], HEAD}
        /\ cur' = cur \/ cur' = idle_task \/ (cur' = pos /\ pos # HEAD)
    BY <1>8 DEF ReapEnd, SearchStep, BehindEnd, WholeEnd, switchto
  <2>6. cur' \in Ring /\ cur' \in Task /\ pos' \in Ring
    BY <1>3, <2>3, <2>4, <2>5, SlotFacts DEF Ring
  <2>7. WalkIsSafe'
    BY <2>1, <2>2, <2>3, <2>5, <2>6 DEF WalkIsSafe
  <2>8. TypeOK'
    BY <1>1, <1>3, <2>1, <2>5, <2>6 DEF TypeOK
  <2> QED
    BY <2>2, <2>7, <2>8 DEF RingInvariant
<1>9. CASE UNCHANGED vars
  <2>1. UNCHANGED <<next, prev, state, cur, pc, pos, tmp>>
    BY <1>9 DEF vars
  <2>2. Ring' = Ring /\ LinksAgree' /\ OneRing'
    BY <2>1, SameRing
  <2>3. WalkIsSafe' /\ TypeOK'
    BY <1>1, <2>1, <2>2 DEF WalkIsSafe, TypeOK
  <2> QED
    BY <2>2, <2>3 DEF RingInvariant
<1> QED
  BY <1>4, <1>5, <1>6, <1>7, <1>8, <1>9, BootSafe, ReapSafe DEF Next, LoopStep

(* No loop of scheduler() stands on a link that is not in the ring, however   *)
(* threads come, go and are reaped under it.                                  *)
THEOREM WalksStayOnRing == Spec => []WalkStaysOnRing
<1>1. RingInvariant => WalkStaysOnRing
  <2> SUFFICES ASSUME RingInvariant PROVE WalkStaysOnRing
    OBVIOUS
  <2>1. TypeOK /\ LinksAgree /\ WalkIsSafe
    BY DEF RingInvariant
  <2> QED
    BY <2>1 DEF WalkStaysOnRing, LinksAgree, WalkIsSafe, Ring
<1> QED
  BY <1>1, RingInit, RingNext, PTL DEF Spec

-----------------------------------------------------------------------------
(* Walks: what following next from a link meets, before the head.             *)

(* Visited, with the links as a parameter. *)
VisitedIn(nx, l) ==
  LET reached[k \in 0 .. Cardinality(Task)] ==
        IF k = 0 THEN {l} ELSE reached[k - 1] \cup {nx[m] : m \in reached[k - 1] \ {HEAD, NULL}}
  IN  reached[Cardinality(Task)] \ {HEAD, NULL}

(* The links in R, and those they point to. *)
Further(nx, R) == R \cup {nx[m] : m \in R \ {HEAD, NULL}}

(* r is the loop of VisitedIn: r[k] after k iterations of n. *)
IsLoop(nx, l, n, r) ==
  /\ r[0] = {l}
  /\ \A k \in 0 .. n - 1 : r[k + 1] = Further(nx, r[k])
  /\ VisitedIn(nx, l) = r[n] \ {HEAD, NULL}

(* D holds l and is closed under nx, up to the head. *)
IsClosed(nx, l, D) ==
  /\ l \in D \cup {HEAD, NULL}
  /\ \A m \in D : nx[m] \in D \cup {HEAD, NULL}

(* V is the least such set. *)
IsWalk(nx, l, V) ==
  /\ V \in SUBSET Task
  /\ IsClosed(nx, l, V)
  /\ \A D \in SUBSET Task : IsClosed(nx, l, D) => V \subseteq D

(* Induction over an interval, from the least counterexample.                 *)
LEMMA Least ==
  ASSUME NEW S, S \subseteq Nat, S # {}
  PROVE  \E x \in S : \A y \in S : x <= y
<1>1. PICK R : R = OpToRel(<, Nat)
  OBVIOUS
<1>2. IsWellFoundedOn(R, Nat)
  BY <1>1, NatLessThanWellFounded, Zenon
<1>3. \A a \in Nat, b \in Nat : a < b => <<a, b>> \in R
  BY <1>1 DEF OpToRel
<1>4. PICK x \in S : \A y \in S : ~ (<<y, x>> \in R)
  BY <1>2, WFMin
<1>5. ASSUME NEW y \in S PROVE x <= y
  <2>1. x \in Nat /\ y \in Nat /\ ~ (<<y, x>> \in R)
    BY <1>4
  <2>2. ~ (y < x)
    BY <1>3, <2>1, Zenon
  <2> QED
    BY <2>1, <2>2
<1> QED
  BY <1>5

(* Over 0 .. n, for the members of a set.                                     *)
LEMMA Induction ==
  ASSUME NEW P, NEW n \in Nat, 0 \in P, \A k \in 0 .. n - 1 : k \in P => k + 1 \in P
  PROVE  \A k \in 0 .. n : k \in P
<1> SUFFICES ASSUME NEW k \in 0 .. n, k \notin P PROVE FALSE
  OBVIOUS
<1> DEFINE S == {i \in 0 .. n : i \notin P}
<1>1. PICK x \in S : \A y \in S : x <= y
  <2>1. S \subseteq Nat /\ S # {}
    OBVIOUS
  <2> HIDE DEF S
  <2> QED
    BY <2>1, Least
<1>2. x # 0 /\ x - 1 \in 0 .. n - 1 /\ x - 1 \in P
  BY <1>1
<1> QED
  BY <1>1, <1>2

(* The number of threads.                                                     *)
LEMMA TaskCount ==
  /\ IsFiniteSet(Task) /\ Cardinality(Task) \in Nat
  /\ \A S \in SUBSET Task : IsFiniteSet(S) /\ Cardinality(S) <= Cardinality(Task)
<1>1. IsFiniteSet(Task)
  <2>1. 0 \in Int /\ MAX_TASKS - 1 \in Int
    BY ListAssumption DEF ListAssumption
  <2> QED
    BY <2>1, FS_Interval, Zenon DEF Task
<1>2. Cardinality(Task) \in Nat
  BY <1>1, FS_CardinalityType, Zenon
<1>3. ASSUME NEW S \in SUBSET Task PROVE IsFiniteSet(S) /\ Cardinality(S) <= Cardinality(Task)
  BY <1>1, FS_Subset, Zenon
<1> QED
  BY <1>1, <1>2, <1>3

(* The loop of VisitedIn defines a function of the iteration.                 *)
LEMMA WalkLoop ==
  ASSUME NEW nx, NEW l, NEW n \in Nat, n = Cardinality(Task)
  PROVE  \E r : IsLoop(nx, l, n, r)
<1> DEFINE P == {k \in 0 .. n : \E f : f = [i \in 0 .. k |-> IF i = 0 THEN {l} ELSE Further(nx, f[i - 1])]}
<1>1. 0 \in P
  <2> DEFINE g == [i \in 0 .. 0 |-> {l}]
  <2>1. \A i \in 0 .. 0 : i = 0
    OBVIOUS
  <2>2. g = [i \in 0 .. 0 |-> IF i = 0 THEN {l} ELSE Further(nx, g[i - 1])]
    BY <2>1, Zenon
  <2>3. 0 \in 0 .. n
    OBVIOUS
  <2> HIDE DEF g
  <2> QED
    BY <2>2, <2>3
<1>2. ASSUME NEW k \in 0 .. n - 1, k \in P PROVE k + 1 \in P
  <2>1. PICK f : f = [i \in 0 .. k |-> IF i = 0 THEN {l} ELSE Further(nx, f[i - 1])]
    BY <1>2
  <2> DEFINE g == [i \in 0 .. k + 1 |-> IF i = k + 1 THEN Further(nx, f[k]) ELSE f[i]]
  <2>2. ASSUME NEW i \in 0 .. k + 1
        PROVE  g[i] = IF i = 0 THEN {l} ELSE Further(nx, g[i - 1])
    <3>1. CASE i = 0
      <4>1. 0 \in 0 .. k /\ i # k + 1
        BY <1>2, <3>1
      <4>2. f[0] = {l}
        BY <2>1, <4>1
      <4> QED
        BY <3>1, <4>1, <4>2
    <3>2. CASE i = k + 1
      <4>1. i - 1 = k /\ k \in 0 .. k + 1 /\ k # k + 1 /\ i # 0
        BY <1>2, <3>2
      <4>2. g[k] = f[k]
        BY <4>1
      <4> QED
        BY <3>2, <4>1, <4>2
    <3>3. CASE i # 0 /\ i # k + 1
      <4>1. i \in 0 .. k /\ i - 1 \in 0 .. k + 1 /\ i - 1 # k + 1
        BY <1>2, <3>3
      <4>2. g[i - 1] = f[i - 1] /\ g[i] = f[i]
        BY <3>3, <4>1
      <4>3. f[i] = Further(nx, f[i - 1])
        BY <2>1, <3>3, <4>1
      <4> QED
        BY <3>3, <4>2, <4>3
    <3> QED
      BY <3>1, <3>2, <3>3
  <2>3. g = [i \in 0 .. k + 1 |-> IF i = 0 THEN {l} ELSE Further(nx, g[i - 1])]
    BY <2>2, Zenon
  <2>4. k + 1 \in 0 .. n
    BY <1>2
  <2> HIDE DEF g
  <2> QED
    BY <2>3, <2>4
<1>3. n \in P
  <2> HIDE DEF P
  <2>1. \A k \in 0 .. n : k \in P
    BY <1>1, <1>2, Induction
  <2> QED
    BY <2>1
<1>4. PICK f : f = [i \in 0 .. n |-> IF i = 0 THEN {l} ELSE Further(nx, f[i - 1])]
  BY <1>3
<1> DEFINE r[i \in 0 .. n] == IF i = 0 THEN {l} ELSE Further(nx, r[i - 1])
<1>5. r = [i \in 0 .. n |-> IF i = 0 THEN {l} ELSE Further(nx, r[i - 1])]
  BY <1>4, Zenon
<1>6. VisitedIn(nx, l) = r[n] \ {HEAD, NULL}
  BY Zenon DEF VisitedIn, Further
<1> HIDE DEF r
<1>7. ASSUME NEW k \in 0 .. n - 1 PROVE r[k + 1] = Further(nx, r[k])
  <2>1. k + 1 \in 0 .. n /\ k + 1 # 0 /\ (k + 1) - 1 = k
    OBVIOUS
  <2> QED
    BY <1>5, <2>1
<1>8. r[0] = {l}
  BY <1>5
<1> QED
  BY <1>6, <1>7, <1>8, Zenon DEF IsLoop

(* As many iterations as there are threads: a walk that had not come back to  *)
(* a link it knows would have met more threads than there are.                *)
LEMMA VisitedIsWalk ==
  ASSUME NEW nx \in [Link -> Link \cup {NULL}], NEW l \in Link \cup {NULL}
  PROVE  IsWalk(nx, l, VisitedIn(nx, l))
<1>1. PICK n \in Nat : n = Cardinality(Task)
  BY TaskCount
<1>2. PICK r : IsLoop(nx, l, n, r)
  BY <1>1, WalkLoop, Zenon
<1> DEFINE Back(R) == \A m \in R \ {HEAD, NULL} : nx[m] \in R
           Ahead(R, k) == /\ R \in SUBSET Task /\ Cardinality(R) = k + 1
                          /\ \E f \in R : \A m \in R \ {f} : nx[m] \in R
           Good(R, k) == /\ R \in SUBSET (Link \cup {NULL}) /\ l \in R
                         /\ \A D \in SUBSET Task : IsClosed(nx, l, D) => R \subseteq D \cup {HEAD, NULL}
                         /\ Back(R) \/ Ahead(R, k)
           P == {k \in 0 .. n : Good(r[k], k)}
<1>3. 0 \in P
  <2>1. r[0] = {l} /\ 0 \in 0 .. n
    BY <1>2 DEF IsLoop
  <2>2. Back({l}) \/ Ahead({l}, 0)
    <3>1. CASE l \in {HEAD, NULL}
      BY <3>1
    <3>2. CASE l \notin {HEAD, NULL}
      <4>1. l \in Task
        BY <3>2 DEF Link
      <4>2. Cardinality({l}) = 0 + 1
        BY FS_Singleton
      <4> QED
        BY <4>1, <4>2
    <3> QED
      BY <3>1, <3>2
  <2>3. \A D \in SUBSET Task : IsClosed(nx, l, D) => {l} \subseteq D \cup {HEAD, NULL}
    BY DEF IsClosed
  <2> HIDE DEF Back, Ahead
  <2> QED
    BY <2>1, <2>2, <2>3
<1>4. ASSUME NEW k \in 0 .. n - 1, k \in P PROVE k + 1 \in P
  <2>1. PICK R : R = r[k]
    OBVIOUS
  <2>2. PICK Q : Q = R \cup {nx[m] : m \in R \ {HEAD, NULL}}
    OBVIOUS
  <2>3. r[k + 1] = Q /\ k + 1 \in 0 .. n
    BY <1>2, <2>1, <2>2 DEF IsLoop, Further
  <2>4. Good(R, k)
    BY <1>4, <2>1, Zenon
  <2>5. Q \in SUBSET (Link \cup {NULL}) /\ l \in Q
    <3>1. \A m \in R \ {HEAD, NULL} : nx[m] \in Link \cup {NULL}
      BY <2>4 DEF Link
    <3> QED
      BY <2>2, <2>4, <3>1
  <2>6. ASSUME NEW D \in SUBSET Task, IsClosed(nx, l, D) PROVE Q \subseteq D \cup {HEAD, NULL}
    <3>1. R \subseteq D \cup {HEAD, NULL}
      BY <2>4, <2>6
    <3>2. \A m \in R \ {HEAD, NULL} : nx[m] \in D \cup {HEAD, NULL}
      BY <2>6, <3>1 DEF IsClosed
    <3> QED
      BY <2>2, <3>1, <3>2
  <2>7. Back(Q) \/ Ahead(Q, k + 1)
    <3>1. CASE Back(R)
      <4>1. Q = R
        BY <2>2, <3>1
      <4> QED
        BY <3>1, <4>1
    <3>2. CASE Ahead(R, k) /\ ~ Back(R)
      <4>1. PICK f \in R : \A m \in R \ {f} : nx[m] \in R
        BY <3>2
      <4>2. R \in SUBSET Task /\ HEAD \notin R /\ NULL \notin R
        BY <3>2, SlotFacts DEF Link
      <4>3. nx[f] \notin R
        BY <3>2, <4>1, <4>2
      <4>4. Q = R \cup {nx[f]}
        BY <2>2, <4>1, <4>2
      <4>5. \A m \in R : nx[m] \in Q
        BY <4>1, <4>4
      <4>6. CASE nx[f] \in {HEAD, NULL}
        <5>1. Back(Q)
          BY <4>4, <4>5, <4>6
        <5> QED
          BY <5>1
      <4>7. CASE nx[f] \notin {HEAD, NULL}
        <5>1. nx[f] \in Task
          BY <2>5, <4>4, <4>7 DEF Link
        <5>2. Q \in SUBSET Task
          BY <4>2, <4>4, <5>1
        <5>3. Cardinality(Q) = Cardinality(R) + 1
          BY <4>2, <4>3, <4>4, TaskCount, FS_AddElement, Zenon
        <5>4. Cardinality(Q) = (k + 1) + 1
          BY <3>2, <5>3, Zenon
        <5>5. nx[f] \in Q /\ \A m \in Q \ {nx[f]} : nx[m] \in Q
          BY <4>4, <4>5
        <5>6. Ahead(Q, k + 1)
          BY <5>2, <5>4, <5>5, Zenon
        <5> QED
          BY <5>6
      <4> QED
        BY <4>6, <4>7
    <3> HIDE DEF Back, Ahead
    <3> QED
      BY <2>4, <3>1, <3>2
  <2> HIDE DEF Back, Ahead
  <2>8. Good(Q, k + 1)
    BY <2>5, <2>6, <2>7
  <2> HIDE DEF Good
  <2> QED
    BY <2>3, <2>8
<1>5. n \in P
  <2> HIDE DEF P
  <2>1. \A k \in 0 .. n : k \in P
    BY <1>3, <1>4, Induction
  <2> QED
    BY <2>1
<1>6. Good(r[n], n)
  BY <1>5, Zenon
<1>7. PICK R : R = r[n] /\ Good(R, n)
  BY <1>6
<1>8. Back(R)
  <2>1. ASSUME Ahead(R, n) PROVE FALSE
    <3>1. Cardinality(R) <= n /\ Cardinality(R) = n + 1
      BY <1>1, <2>1, TaskCount, Zenon
    <3> QED
      BY <3>1
  <2> HIDE DEF Back, Ahead
  <2> QED
    BY <1>7, <2>1
<1>9. PICK V : V = VisitedIn(nx, l) /\ V = R \ {HEAD, NULL}
  BY <1>2, <1>7 DEF IsLoop
<1>10. V \in SUBSET Task
  BY <1>7, <1>9 DEF Link
<1>11. IsClosed(nx, l, V)
  BY <1>7, <1>8, <1>9 DEF IsClosed
<1>12. \A D \in SUBSET Task : IsClosed(nx, l, D) => V \subseteq D
  BY <1>7, <1>9
<1> QED
  BY <1>9, <1>10, <1>11, <1>12 DEF IsWalk

(* There is one walk from a link.                                             *)
LEMMA WalkUnique ==
  ASSUME NEW nx, NEW l, NEW V, NEW W, IsWalk(nx, l, V), IsWalk(nx, l, W)
  PROVE  V = W
BY DEF IsWalk

(* A walk that is at the head visits nothing more.                            *)
LEMMA WalkOfNone ==
  ASSUME NEW nx, NEW l \in {HEAD, NULL}
  PROVE  IsWalk(nx, l, {})
BY DEF IsWalk, IsClosed

(* A walk visits the thread it starts at, and goes on behind it.              *)
LEMMA WalkFrom ==
  ASSUME NEW nx, NEW l \in Task, NEW V, IsWalk(nx, nx[l], V)
  PROVE  IsWalk(nx, l, V \cup {l})
<1>1. l \notin {HEAD, NULL}
  BY SlotFacts DEF Link
<1>2. IsClosed(nx, l, V \cup {l}) /\ V \cup {l} \in SUBSET Task
  BY DEF IsWalk, IsClosed
<1>3. ASSUME NEW D \in SUBSET Task, IsClosed(nx, l, D) PROVE V \cup {l} \subseteq D
  <2>1. l \in D /\ IsClosed(nx, nx[l], D)
    BY <1>1, <1>3 DEF IsClosed
  <2> QED
    BY <2>1 DEF IsWalk
<1> QED
  BY <1>2, <1>3 DEF IsWalk

(* Links that a walk does not visit may change under it.                      *)
LEMMA WalkKept ==
  ASSUME NEW nx, NEW mx, NEW l, NEW V, IsWalk(nx, l, V), \A m \in V : mx[m] = nx[m]
  PROVE  IsWalk(mx, l, V)
<1>1. V \in SUBSET Task /\ IsClosed(mx, l, V)
  BY DEF IsWalk, IsClosed
<1>2. ASSUME NEW D \in SUBSET Task, IsClosed(mx, l, D) PROVE V \subseteq D
  <2>1. IsClosed(nx, l, D \cap V) /\ D \cap V \in SUBSET Task
    BY <1>1, <1>2 DEF IsClosed
  <2> QED
    BY <2>1 DEF IsWalk
<1> QED
  BY <1>1, <1>2 DEF IsWalk

(* A thread is taken out between the one that pointed to it and its next.     *)
LEMMA WalkDeleted ==
  ASSUME NEW nx, NEW mx, NEW l, NEW V, IsWalk(nx, l, V),
         NEW e \in Task, NEW p, l # e, p # e, nx[p] = e, nx[e] # e, mx[p] = nx[e],
         \A m \in V : m # e /\ m # p => mx[m] = nx[m] /\ nx[m] # e
  PROVE  IsWalk(mx, l, V \ {e})
<1>1. V \in SUBSET Task /\ l \in V \cup {HEAD, NULL} /\ e \notin {HEAD, NULL}
  BY SlotFacts DEF IsWalk, IsClosed, Link
<1>2. \A m \in V : nx[m] \in V \cup {HEAD, NULL}
  BY DEF IsWalk, IsClosed
<1>3. \A D \in SUBSET Task : IsClosed(nx, l, D) => V \subseteq D
  BY DEF IsWalk
<1>4. CASE e \notin V
  <2>1. p \notin V
    BY <1>1, <1>2, <1>4
  <2>2. \A m \in V : mx[m] = nx[m]
    BY <1>4, <2>1
  <2>3. V \ {e} = V
    BY <1>4
  <2> QED
    BY <2>2, <2>3, WalkKept
<1>5. CASE e \in V
  <2>1. ASSUME NEW m \in V \ {e} PROVE mx[m] \in (V \ {e}) \cup {HEAD, NULL}
    <3>1. CASE m = p
      BY <1>2, <1>5, <3>1
    <3>2. CASE m # p
      BY <1>2, <2>1, <3>2
    <3> QED
      BY <3>1, <3>2
  <2>2. IsClosed(mx, l, V \ {e}) /\ V \ {e} \in SUBSET Task
    BY <1>1, <2>1 DEF IsClosed
  <2>3. ASSUME NEW D \in SUBSET Task, IsClosed(mx, l, D) PROVE V \ {e} \subseteq D
    <3> DEFINE E == (D \cap V) \ {e}
    <3>1. l \in E \cup {HEAD, NULL} /\ \A m \in D : mx[m] \in D \cup {HEAD, NULL}
      BY <1>1, <2>3 DEF IsClosed
    <3>2. ASSUME NEW m \in E, m # p PROVE nx[m] \in E \cup {HEAD, NULL}
      <4>1. mx[m] = nx[m] /\ nx[m] # e
        BY <3>2
      <4>2. nx[m] \in D \cup {HEAD, NULL} /\ nx[m] \in V \cup {HEAD, NULL}
        BY <1>2, <3>1, <4>1
      <4> QED
        BY <4>1, <4>2
    <3>3. CASE p \notin E
      <4>1. IsClosed(nx, l, E) /\ E \in SUBSET Task
        BY <3>1, <3>2, <3>3 DEF IsClosed
      <4> QED
        BY <1>3, <4>1
    <3>4. CASE p \in E
      <4>1. nx[e] \in E \cup {HEAD, NULL}
        BY <1>2, <1>5, <3>1, <3>4
      <4> HIDE DEF E
      <4>2. IsClosed(nx, l, E \cup {e})
        BY <3>1, <3>2, <4>1 DEF IsClosed
      <4>3. E \cup {e} \in SUBSET Task
        BY DEF E
      <4>4. V \subseteq E \cup {e}
        BY <1>3, <4>2, <4>3
      <4> QED
        BY <4>4 DEF E
    <3> QED
      BY <3>3, <3>4
  <2> QED
    BY <2>2, <2>3 DEF IsWalk
<1> QED
  BY <1>4, <1>5

-----------------------------------------------------------------------------
(* The order of the threads in List.                                          *)

(* Visited is VisitedIn of the links.                                         *)
LEMMA VisitedLinks == \A l : Visited(l) = VisitedIn(next, l)
BY Zenon DEF Visited, VisitedIn

(* What Visited is, in the links of the state.                                *)
LEMMA VisitedNow ==
  ASSUME NEW l \in Link \cup {NULL}, TypeOK
  PROVE  IsWalk(next, l, Visited(l))
<1>1. Visited(l) = VisitedIn(next, l)
  BY VisitedLinks
<1>2. IsWalk(next, l, VisitedIn(next, l))
  BY VisitedIsWalk DEF TypeOK
<1> QED
  BY <1>1, <1>2

(* The thread that a walk starts at, and the rest of it.                      *)
LEMMA VisitedStep ==
  ASSUME TypeOK
  PROVE  /\ Visited(HEAD) = {} /\ Visited(NULL) = {}
         /\ \A l \in Task : Visited(l) = Visited(next[l]) \cup {l}
<1>1. HEAD \in Link \cup {NULL} /\ NULL \in Link \cup {NULL}
  BY DEF Link
<1>2. Visited(HEAD) = {}
  BY <1>1, VisitedNow, WalkOfNone, WalkUnique
<1>3. Visited(NULL) = {}
  BY <1>1, VisitedNow, WalkOfNone, WalkUnique
<1>4. ASSUME NEW l \in Task PROVE Visited(l) = Visited(next[l]) \cup {l}
  <2>1. l \in Link \cup {NULL} /\ next[l] \in Link \cup {NULL}
    BY DEF TypeOK, Link
  <2>2. IsWalk(next, l, Visited(l)) /\ IsWalk(next, next[l], Visited(next[l]))
    BY <2>1, VisitedNow
  <2>3. IsWalk(next, l, Visited(next[l]) \cup {l})
    BY <2>2, WalkFrom
  <2> QED
    BY <2>2, <2>3, WalkUnique
<1> QED
  BY <1>2, <1>3, <1>4

(* A walk on the ring visits threads of the ring, and where it goes on is     *)
(* part of it.                                                                *)
LEMMA VisitedInRing ==
  ASSUME RingInvariant, NEW l \in Ring
  PROVE  /\ Visited(l) \subseteq Ring \ {HEAD}
         /\ l \in Visited(l) \cup {HEAD}
         /\ \A m \in Visited(l) : next[m] \in Visited(l) \cup {HEAD}
<1>1. TypeOK /\ LinksAgree /\ l \in Link \cup {NULL} /\ Ring \ {HEAD} \in SUBSET Task /\ NULL \notin Ring
  BY SlotFacts DEF RingInvariant, Ring, Link
<1>2. IsWalk(next, l, Visited(l))
  BY <1>1, VisitedNow
<1>3. IsClosed(next, l, Ring \ {HEAD})
  BY <1>1 DEF IsClosed, LinksAgree
<1>4. Visited(l) \subseteq Ring \ {HEAD}
  BY <1>1, <1>2, <1>3 DEF IsWalk
<1>5. l \in Visited(l) \cup {HEAD, NULL} /\ \A m \in Visited(l) : next[m] \in Visited(l) \cup {HEAD, NULL}
  BY <1>2 DEF IsWalk, IsClosed
<1>6. \A m \in Visited(l) : next[m] \in Ring
  BY <1>1, <1>4 DEF LinksAgree
<1> QED
  BY <1>1, <1>4, <1>5, <1>6

(* The walk of the whole list meets every valid thread.                       *)
LEMMA WholeRing == RingInvariant => Visited(next[HEAD]) = Ring \ {HEAD}
<1> SUFFICES ASSUME RingInvariant PROVE Visited(next[HEAD]) = Ring \ {HEAD}
  OBVIOUS
<1>1. TypeOK /\ LinksAgree /\ OneRing /\ HEAD \in Ring
  BY DEF RingInvariant, Ring
<1>2. \A k \in Ring : /\ next[k] \in Ring /\ prev[next[k]] = k
                      /\ prev[k] \in Ring /\ next[prev[k]] = k
  BY <1>1 DEF LinksAgree
<1>3. PICK V : V = Visited(next[HEAD])
  OBVIOUS
<1>4. /\ V \subseteq Ring \ {HEAD} /\ next[HEAD] \in V \cup {HEAD}
      /\ \A m \in V : next[m] \in V \cup {HEAD}
  BY <1>1, <1>2, <1>3, VisitedInRing
<1>5. /\ V \in SUBSET Task
      /\ \A D \in SUBSET Task : IsClosed(next, next[HEAD], D) => V \subseteq D
  <2>1. next[HEAD] \in Link \cup {NULL}
    BY <1>1, SlotFacts DEF TypeOK
  <2> QED
    BY <1>1, <1>3, <2>1, VisitedNow DEF IsWalk
<1>6. ASSUME NEW w \in V, w # next[HEAD] PROVE prev[w] \in V
  <2> SUFFICES ASSUME prev[w] \notin V PROVE FALSE
    OBVIOUS
  <2>1. ASSUME NEW m \in V PROVE next[m] # w
    BY <1>2, <1>4, <2>1
  <2>2. IsClosed(next, next[HEAD], V \ {w}) /\ V \ {w} \in SUBSET Task
    BY <1>4, <1>5, <1>6, <2>1 DEF IsClosed
  <2> QED
    BY <1>5, <2>2
<1>7. V # Ring \ {HEAD} => FALSE
  <2> SUFFICES ASSUME V # Ring \ {HEAD} PROVE FALSE
    OBVIOUS
  <2> DEFINE S == (Ring \ {HEAD}) \ V
  <2>1. S \in SUBSET (Ring \ {HEAD}) /\ S # {}
    BY <1>4
  <2>2. PICK l \in S : next[l] \notin S
    BY <1>1, <2>1 DEF OneRing
  <2>3. l \in Ring /\ l # HEAD /\ l \notin V /\ next[l] \in V \cup {HEAD} /\ prev[next[l]] = l
    BY <1>2, <2>2
  <2>4. CASE next[l] \in V
    <3>1. next[l] # next[HEAD]
      BY <1>1, <1>2, <2>3
    <3> QED
      BY <1>6, <2>3, <2>4, <3>1
  <2>5. CASE next[l] = HEAD
    <3>1. prev[HEAD] = l
      BY <2>3, <2>5
    <3>2. CASE V = {}
      <4>1. next[HEAD] = HEAD
        BY <1>4, <3>2
      <4> QED
        BY <1>1, <1>2, <2>3, <3>1, <4>1
    <3>3. CASE V # {}
      <4>1. V \in SUBSET (Ring \ {HEAD})
        BY <1>4
      <4>2. PICK v \in V : next[v] \notin V
        BY <1>1, <3>3, <4>1 DEF OneRing
      <4>3. next[v] = HEAD /\ v \in Ring
        BY <1>4, <4>2
      <4>4. prev[HEAD] = v
        BY <1>2, <4>3
      <4> QED
        BY <2>3, <3>1, <4>4
    <3> QED
      BY <3>2, <3>3
  <2> QED
    BY <2>3, <2>4, <2>5
<1> QED
  BY <1>3, <1>7

(* The variables of TaskOrder, as List defines them. *)
TaskList == Visited(next[HEAD])
After == [t \in Task |-> Visited(next[t])]

(* A thread that is not linked points nowhere. *)
Unlinked == \A t \in Task : state[t] = "NONE" => next[t] = NULL

(* Visited in the next state. *)
LEMMA VisitedNext ==
  /\ TaskList' = VisitedIn(next', next'[HEAD])
  /\ \A t \in Task : After'[t] = VisitedIn(next', next'[t])
  /\ After' = [t \in Task |-> After'[t]]
  /\ Visited(pos)' = VisitedIn(next', pos')
  /\ Visited(next[cur])' = VisitedIn(next', next'[cur'])
<1>1. TaskList' = VisitedIn(next', next'[HEAD])
  BY Zenon DEF TaskList, Visited, VisitedIn
<1>2. After' = [t \in Task |-> VisitedIn(next', next'[t])]
  BY Zenon DEF After, Visited, VisitedIn
<1>3. Visited(pos)' = VisitedIn(next', pos') /\ Visited(next[cur])' = VisitedIn(next', next'[cur'])
  BY Zenon DEF Visited, VisitedIn
<1>4. \A t \in Task : After'[t] = VisitedIn(next', next'[t])
  BY <1>2, Zenon
<1>5. After' = [t \in Task |-> After'[t]]
  BY <1>2, Zenon
<1> QED
  BY <1>1, <1>3, <1>4, <1>5, Zenon

(* list_add puts the thread in front of all the others.                       *)
LEMMA OrderAdd ==
  ASSUME RingInvariant, Unlinked, NEW e \in Task, state[e] = "NONE", list_add(e),
         \A t \in Task : state'[t] = "NONE" <=> state[t] = "NONE" /\ t # e
  PROVE  Unlinked' /\ e \notin TaskList /\ T!list_add(e)
<1>1. /\ TypeOK /\ LinksAgree /\ HEAD \in Ring /\ e \notin Ring /\ e # HEAD /\ e \in Link
      /\ next[HEAD] \in Ring /\ Ring \subseteq Link
  BY SlotFacts DEF RingInvariant, Ring, LinksAgree
<1>2. next' \in [Link -> Link \cup {NULL}]
  BY AddStep
<1>3. /\ next'[e] = next[HEAD] /\ next'[HEAD] = e
      /\ \A l \in Link : l # e /\ l # HEAD => next'[l] = next[l]
  BY <1>1, SlotFacts DEF list_add, TypeOK
<1>4. ASSUME NEW l \in Link \cup {NULL}, e \notin Visited(l)
      PROVE  IsWalk(next', l, Visited(l)) /\ VisitedIn(next', l) = Visited(l)
  <2>1. IsWalk(next, l, Visited(l))
    BY <1>1, VisitedNow
  <2>2. \A m \in Visited(l) : next'[m] = next[m]
    BY <1>3, <1>4, <2>1, SlotFacts DEF IsWalk
  <2>3. IsWalk(next', l, Visited(l))
    BY <2>1, <2>2, WalkKept
  <2>4. IsWalk(next', l, VisitedIn(next', l))
    BY <1>2, VisitedIsWalk
  <2> QED
    BY <2>3, <2>4, WalkUnique
<1>5. \A l \in Ring : e \notin Visited(l)
  BY <1>1, VisitedInRing
<1>6. IsWalk(next', next[HEAD], TaskList) /\ VisitedIn(next', next[HEAD]) = TaskList /\ e \notin TaskList
  BY <1>1, <1>4, <1>5 DEF TaskList
<1>7. VisitedIn(next', e) = TaskList \cup {e}
  <2>1. IsWalk(next', e, TaskList \cup {e})
    BY <1>3, <1>6, WalkFrom
  <2>2. IsWalk(next', e, VisitedIn(next', e))
    BY <1>1, <1>2, VisitedIsWalk
  <2> QED
    BY <2>1, <2>2, WalkUnique
<1>8. TaskList' = TaskList \cup {e}
  BY <1>3, <1>7, VisitedNext
<1>9. ASSUME NEW t \in Task, t # e PROVE After'[t] = After[t]
  <2>1. next'[t] = next[t] /\ next[t] \in Link \cup {NULL}
    BY <1>1, <1>3, <1>9, SlotFacts DEF TypeOK
  <2>2. e \notin Visited(next[t])
    <3>1. CASE state[t] = "NONE"
      BY <1>1, <3>1, VisitedStep DEF Unlinked
    <3>2. CASE state[t] # "NONE"
      BY <1>1, <1>5, <3>2 DEF LinksAgree, Ring
    <3> QED
      BY <3>1, <3>2
  <2>3. VisitedIn(next', next'[t]) = Visited(next[t])
    BY <1>4, <2>1, <2>2
  <2>4. After'[t] = VisitedIn(next', next'[t])
    BY VisitedNext
  <2> QED
    BY <2>3, <2>4 DEF After
<1>10. After'[e] = TaskList
  BY <1>3, <1>6, VisitedNext
<1>11. After' = [After EXCEPT ![e] = TaskList]
  <2>1. After' = [t \in Task |-> After'[t]]
    BY VisitedNext
  <2>2. DOMAIN After = Task
    BY DEF After
  <2> QED
    BY <1>9, <1>10, <2>1, <2>2
<1>12. T!list_add(e)
  BY <1>8, <1>11, Zenon DEF T!list_add, TaskList, After
<1>13. Unlinked'
  BY <1>1, <1>3, SlotFacts DEF Unlinked
<1> QED
  BY <1>6, <1>12, <1>13

(* list_del takes one thread out of every walk, and leaves the order of the   *)
(* others.                                                                    *)
LEMMA OrderDel ==
  ASSUME RingInvariant, Unlinked, NEW e \in Task, state[e] # "NONE", list_del(e),
         \A t \in Task : state'[t] = "NONE" <=> state[t] = "NONE" \/ t = e
  PROVE  /\ Unlinked' /\ e \in TaskList /\ T!list_del({e})
         /\ VisitedIn(next', next[e]) = Visited(next[e]) \ {e}
<1> DEFINE p == prev[e]
<1>1. /\ TypeOK /\ LinksAgree /\ OneRing /\ HEAD \in Ring /\ e \in Ring /\ e # HEAD /\ e \in Link
      /\ NULL \notin Ring /\ Ring \subseteq Link
  BY SlotFacts DEF RingInvariant, Ring, Link
<1>2. \A k \in Ring : /\ next[k] \in Ring /\ prev[next[k]] = k
                      /\ prev[k] \in Ring /\ next[prev[k]] = k
  BY <1>1 DEF LinksAgree
<1>3. next' \in [Link -> Link \cup {NULL}] /\ next[e] \in Ring \ {e}
  BY DelStep
<1>4. p \in Ring /\ next[p] = e /\ p # e
  BY <1>1, <1>2, <1>3
<1>5. /\ next'[p] = next[e] /\ next'[e] = NULL
      /\ \A l \in Link : l # e /\ l # p => next'[l] = next[l]
  BY <1>1, <1>4, SlotFacts DEF list_del, TypeOK
<1> HIDE DEF p
<1>6. ASSUME NEW t \in Link, t # p PROVE next[t] # e
  <2>1. CASE t \in Ring
    BY <1>2, <1>4, <1>6, <2>1 DEF p
  <2>2. CASE t \notin Ring
    <3>1. t \in Task /\ state[t] = "NONE"
      BY <2>2 DEF Ring, Link
    <3> QED
      BY <1>1, <3>1 DEF Unlinked
  <2> QED
    BY <2>1, <2>2
<1>7. ASSUME NEW l \in Link \cup {NULL}, l # e PROVE VisitedIn(next', l) = Visited(l) \ {e}
  <2>1. IsWalk(next, l, Visited(l))
    BY <1>1, VisitedNow
  <2>2. \A m \in Visited(l) : m # e /\ m # p => next'[m] = next[m] /\ next[m] # e
    BY <1>5, <1>6, <2>1, SlotFacts DEF IsWalk
  <2>3. next[e] # e
    BY <1>3
  <2>4. IsWalk(next', l, Visited(l) \ {e})
    BY <1>4, <1>5, <1>7, <2>1, <2>2, <2>3, WalkDeleted
  <2>5. IsWalk(next', l, VisitedIn(next', l))
    BY <1>3, VisitedIsWalk
  <2> QED
    BY <2>4, <2>5, WalkUnique
<1>8. VisitedIn(next', next[e]) = Visited(next[e]) \ {e}
  BY <1>1, <1>3, <1>7
<1>9. ASSUME NEW t \in Link, t # e PROVE VisitedIn(next', next'[t]) = Visited(next[t]) \ {e}
  <2>1. CASE t = p
    <3>1. Visited(e) = Visited(next[e]) \cup {e}
      BY <1>1, VisitedStep
    <3>2. next[t] = e /\ next'[t] = next[e]
      BY <1>4, <1>5, <2>1
    <3> QED
      BY <1>8, <3>1, <3>2
  <2>2. CASE t # p
    <3>1. next'[t] = next[t] /\ next[t] # e /\ next[t] \in Link \cup {NULL}
      BY <1>1, <1>5, <1>6, <1>9, <2>2 DEF TypeOK
    <3> QED
      BY <1>7, <3>1
  <2> QED
    BY <2>1, <2>2
<1>10. TaskList' = TaskList \ {e}
  BY <1>1, <1>9, VisitedNext, SlotFacts DEF TaskList
<1>11. After' = [t \in Task |-> IF t \in {e} THEN {} ELSE After[t] \ {e}]
  <2>1. ASSUME NEW t \in Task PROVE After'[t] = IF t \in {e} THEN {} ELSE After[t] \ {e}
    <3>1. After'[t] = VisitedIn(next', next'[t]) /\ After[t] = Visited(next[t]) /\ t \in Link
      BY VisitedNext, SlotFacts DEF After
    <3>2. CASE t = e
      <4>1. NULL \in Link \cup {NULL} /\ NULL # e
        BY SlotFacts
      <4>2. VisitedIn(next', NULL) = {}
        BY <1>1, <1>7, <4>1, VisitedStep
      <4> QED
        BY <1>5, <3>1, <3>2, <4>2
    <3>3. CASE t # e
      BY <1>9, <3>1, <3>3
    <3> QED
      BY <3>2, <3>3
  <2>2. After' = [t \in Task |-> After'[t]]
    BY VisitedNext
  <2> QED
    BY <2>1, <2>2
<1>12. T!list_del({e})
  BY <1>10, <1>11, Zenon DEF T!list_del, TaskList, After, Task, T!Task
<1>13. Unlinked'
  <2> SUFFICES ASSUME NEW t \in Task, state[t] = "NONE" \/ t = e PROVE next'[t] = NULL
    BY DEF Unlinked
  <2>1. CASE t = e
    BY <1>5, <2>1
  <2>2. CASE t # e
    <3>1. t # p /\ t \in Link /\ next[t] = NULL
      BY <1>4, <2>2, SlotFacts DEF Ring, Unlinked
    <3> QED
      BY <1>5, <2>2, <3>1
  <2> QED
    BY <2>1, <2>2
<1>14. e \in TaskList
  BY <1>1, WholeRing DEF TaskList
<1> QED
  BY <1>8, <1>12, <1>13, <1>14

(* reap_zombies has the zombies ahead of it that it will free, the search for *)
(* a thread what it can still find; and the second loop begins when there is  *)
(* nothing behind the current thread.                                         *)
LoopsMissNothing ==
  /\ pc = "reap" => \A t \in Task \ {cur} : state[t] = "ZOMBIE" => t \in Visited(pos)
  /\ pc \in {"behind", "whole"} => \A t \in Task \ {cur} : state[t] # "ZOMBIE"
  /\ pc = "behind" => /\ pos \in Visited(next[cur]) \cup {HEAD}
                      /\ \A t \in Visited(next[cur]) : IsRunnable(t) => t \in Visited(pos)
  /\ pc = "whole" => /\ \A t \in Visited(next[cur]) : ~IsRunnable(t)
                     /\ \A t \in Task : IsRunnable(t) => t \in Visited(pos)

(* The inductive invariant of the order. *)
OrderInvariant == RingInvariant /\ Unlinked /\ LoopsMissNothing

(* What a step does to the links: list_add, list_del, or nothing.             *)
LEMMA LinkSteps ==
  ASSUME RingInvariant, [Next]_vars
  PROVE  \/ \E e \in Task : /\ state[e] = "NONE" /\ list_add(e)
                            /\ \A t \in Task : state'[t] = "NONE" <=> state[t] = "NONE" /\ t # e
         \/ /\ pos \in Task /\ state[pos] # "NONE" /\ list_del(pos)
            /\ \A t \in Task : state'[t] = "NONE" <=> state[t] = "NONE" \/ t = pos
         \/ next' = next /\ \A t \in Task : state'[t] = "NONE" <=> state[t] = "NONE"
<1>1. TypeOK /\ WalkIsSafe
  BY DEF RingInvariant
<1>2. ASSUME pc # "boot" PROVE cur \in Task /\ state[cur] # "NONE" /\ pos \in Ring
  BY <1>1, <1>2, SlotFacts DEF WalkIsSafe, TypeOK, Ring
<1>3. ASSUME NEW n \in Task, Create(n)
      PROVE  /\ state[n] = "NONE" /\ list_add(n)
             /\ \A t \in Task : state'[t] = "NONE" <=> state[t] = "NONE" /\ t # n
  BY <1>1, <1>3 DEF Create, FreeSlot, TypeOK
<1>4. CASE BootSpawn
  BY <1>3, <1>4, SlotFacts DEF BootSpawn
<1>5. CASE SpawnNoWait
  BY <1>3, <1>5 DEF SpawnNoWait
<1>6. CASE SpawnWait
  <2>1. PICK n \in Task : /\ FreeSlot(n) /\ list_add(n)
                          /\ state' = [state EXCEPT ![n] = "READY", ![cur] = "SLEEPING"]
    BY <1>6 DEF SpawnWait
  <2>2. state[n] = "NONE" /\ pc = "run"
    BY <1>6, <2>1 DEF FreeSlot, SpawnWait
  <2>3. \A t \in Task : state'[t] = "NONE" <=> state[t] = "NONE" /\ t # n
    BY <1>1, <1>2, <2>1, <2>2 DEF TypeOK
  <2> QED
    BY <2>1, <2>2, <2>3
<1>7. ASSUME NEW s \in {"READY", "SLEEPING", "ZOMBIE"}, Block(s)
      PROVE  next' = next /\ \A t \in Task : state'[t] = "NONE" <=> state[t] = "NONE"
  BY <1>1, <1>2, <1>7 DEF Block, TypeOK
<1>8. ASSUME NEW u \in Task, Wake(u)
      PROVE  next' = next /\ \A t \in Task : state'[t] = "NONE" <=> state[t] = "NONE"
  BY <1>1, <1>8 DEF Wake, TypeOK
<1>9. CASE ReapStep
  <2>1. pc = "reap" /\ pos # HEAD
    BY <1>9 DEF ReapStep
  <2>2. pos \in Task /\ state[pos] # "NONE"
    BY <1>2, <2>1 DEF Ring
  <2>3. CASE IsReaped(pos)
    <3>1. list_del(pos) /\ state' = [state EXCEPT ![pos] = "NONE"]
      BY <1>9, <2>3 DEF ReapStep
    <3> QED
      BY <1>1, <2>2, <3>1 DEF TypeOK
  <2>4. CASE ~IsReaped(pos)
    BY <1>9, <2>4 DEF ReapStep
  <2> QED
    BY <2>3, <2>4
<1>10. CASE ReapEnd \/ SearchStep \/ BehindEnd \/ WholeEnd \/ UNCHANGED vars
  BY <1>10 DEF ReapEnd, SearchStep, BehindEnd, WholeEnd, vars
<1> QED
  BY <1>4, <1>5, <1>6, <1>7, <1>8, <1>9, <1>10 DEF Next, LoopStep

(* Every step is one of TaskOrder, or none.                                   *)
LEMMA OrderStep ==
  ASSUME RingInvariant, Unlinked, [Next]_vars
  PROVE  Unlinked' /\ [T!OrderNext]_(T!listVars)
<1>1. ASSUME NEW e \in Task, state[e] = "NONE", list_add(e),
             \A t \in Task : state'[t] = "NONE" <=> state[t] = "NONE" /\ t # e
      PROVE  Unlinked' /\ T!OrderNext
  <2>1. Unlinked' /\ e \notin TaskList /\ T!list_add(e)
    BY <1>1, OrderAdd
  <2> QED
    BY <2>1, Zenon DEF T!OrderNext, T!Task, Task, TaskList
<1>2. ASSUME pos \in Task, state[pos] # "NONE", list_del(pos),
             \A t \in Task : state'[t] = "NONE" <=> state[t] = "NONE" \/ t = pos
      PROVE  Unlinked' /\ T!OrderNext
  <2>1. Unlinked' /\ pos \in TaskList /\ T!list_del({pos})
    BY <1>2, OrderDel
  <2> QED
    BY <2>1, Zenon DEF T!OrderNext, TaskList
<1>3. ASSUME next' = next, \A t \in Task : state'[t] = "NONE" <=> state[t] = "NONE"
      PROVE  Unlinked' /\ UNCHANGED T!listVars
  <2>1. Unlinked'
    BY <1>3 DEF Unlinked
  <2>2. UNCHANGED T!listVars
    <3>1. TaskList' = TaskList
      BY <1>3, VisitedNext, VisitedLinks, Zenon DEF TaskList
    <3>2. \A t \in Task : After'[t] = After[t]
      <4>1. \A t \in Task : After[t] = VisitedIn(next, next[t])
        BY VisitedLinks, Zenon DEF After
      <4> QED
        BY <1>3, <4>1, VisitedNext, Zenon
    <3>3. After' = After
      <4>1. After = [t \in Task |-> After[t]] /\ After' = [t \in Task |-> After'[t]]
        BY VisitedNext, Zenon DEF After
      <4> QED
        BY <3>2, <4>1, Zenon
    <3> QED
      BY <3>1, <3>3, Zenon DEF T!listVars, TaskList, After
  <2> QED
    BY <2>1, <2>2
<1> QED
  BY <1>1, <1>2, <1>3, LinkSteps

(* The walk of the whole list in the next state.                              *)
LEMMA WholeRingNext == RingInvariant' => (Visited(next[HEAD]) = Ring \ {HEAD})'
BY WholeRing, PTL

(* scheduler() begins with all threads ahead of it.                           *)
LEMMA CallMissesNothing ==
  ASSUME RingInvariant', CallScheduler
  PROVE  LoopsMissNothing'
<1>1. pc' = "reap" /\ pos' = next'[HEAD]
  BY DEF CallScheduler
<1>2. TaskList' = (Ring \ {HEAD})' /\ TaskList' = VisitedIn(next', next'[HEAD])
  BY WholeRingNext, VisitedNext, Zenon DEF TaskList
<1>3. Visited(pos)' = VisitedIn(next', pos')
  BY VisitedNext
<1>4. \A t \in Task : state'[t] = "ZOMBIE" => t \in (Ring \ {HEAD})'
  BY SlotFacts DEF Ring
<1>5. \A t \in Task : state'[t] = "ZOMBIE" => t \in Visited(pos)'
  BY <1>1, <1>2, <1>3, <1>4, Zenon
<1> QED
  BY <1>1, <1>5 DEF LoopsMissNothing

(* One iteration of reap_zombies: the thread it leaves behind is no zombie,   *)
(* or is freed, or is the current one.                                        *)
LEMMA ReapMissesNothing ==
  ASSUME OrderInvariant, ReapStep
  PROVE  LoopsMissNothing'
<1>1. /\ RingInvariant /\ Unlinked /\ TypeOK /\ WalkIsSafe
      /\ pc = "reap" /\ pos # HEAD /\ pc' = pc /\ cur' = cur /\ pos' = tmp
  BY DEF OrderInvariant, RingInvariant, ReapStep, StepSafe
<1>2. pos \in Ring /\ pos \in Task /\ state[pos] # "NONE" /\ tmp = next[pos]
  BY <1>1 DEF WalkIsSafe, Ring
<1>3. \A t \in Task \ {cur} : state[t] = "ZOMBIE" => t \in Visited(pos)
  BY <1>1 DEF OrderInvariant, LoopsMissNothing
<1>4. Visited(pos) = Visited(next[pos]) \cup {pos}
  BY <1>1, <1>2, VisitedStep
<1>5. Visited(pos)' = VisitedIn(next', next[pos])
  BY <1>1, <1>2, VisitedNext
<1>6. ASSUME NEW t \in Task \ {cur}, state'[t] = "ZOMBIE" PROVE t \in Visited(pos)'
  <2>1. CASE IsReaped(pos)
    <3>1. list_del(pos) /\ state' = [state EXCEPT ![pos] = "NONE"]
      BY <2>1 DEF ReapStep
    <3>2. \A u \in Task : state'[u] = IF u = pos THEN "NONE" ELSE state[u]
      BY <1>1, <1>2, <3>1 DEF TypeOK
    <3>3. VisitedIn(next', next[pos]) = Visited(next[pos]) \ {pos}
      BY <1>1, <1>2, <3>1, <3>2, OrderDel
    <3>4. t # pos /\ state[t] = "ZOMBIE"
      BY <1>6, <3>2
    <3> QED
      BY <1>3, <1>4, <1>5, <3>3, <3>4
  <2>2. CASE ~IsReaped(pos)
    <3>1. next' = next /\ state' = state
      BY <2>2 DEF ReapStep
    <3>2. VisitedIn(next', next[pos]) = Visited(next[pos])
      BY <3>1, VisitedLinks, Zenon
    <3>3. t # pos /\ state[t] = "ZOMBIE"
      BY <1>6, <2>2, <3>1 DEF IsReaped
    <3> QED
      BY <1>3, <1>4, <1>5, <3>2, <3>3
  <2> QED
    BY <2>1, <2>2
<1> QED
  BY <1>1, <1>6 DEF LoopsMissNothing

(* The steps of the search, which changes no link and no thread.              *)
LEMMA SearchMissesNothing ==
  ASSUME OrderInvariant, ReapEnd \/ SearchStep \/ BehindEnd \/ WholeEnd \/ UNCHANGED vars
  PROVE  LoopsMissNothing'
<1>1. /\ RingInvariant /\ TypeOK /\ WalkIsSafe /\ LinksAgree /\ LoopsMissNothing
  BY DEF OrderInvariant, RingInvariant
<1>2. Visited(HEAD) = {} /\ \A l \in Task : Visited(l) = Visited(next[l]) \cup {l}
  BY <1>1, VisitedStep
<1>3. ASSUME pc # "boot"
      PROVE  /\ cur \in Task /\ pos \in Ring /\ next[cur] \in Ring /\ (pos # HEAD => pos \in Task)
             /\ Visited(next[cur]) \subseteq Task /\ next[cur] \in Visited(next[cur]) \cup {HEAD}
             /\ \A m \in Visited(next[cur]) : next[m] \in Visited(next[cur]) \cup {HEAD}
  <2>1. cur \in Task /\ pos \in Ring /\ next[cur] \in Ring /\ (pos # HEAD => pos \in Task)
    BY <1>1, <1>3 DEF WalkIsSafe, LinksAgree, TypeOK, Ring
  <2> QED
    BY <1>1, <2>1, VisitedInRing DEF Ring
<1>4. CASE pc' = "run"
  BY <1>4 DEF LoopsMissNothing
<1>5. ASSUME next' = next, cur' = cur
      PROVE  /\ Visited(next[cur])' = Visited(next[cur])
             /\ \A l : l = pos' => Visited(pos)' = Visited(l)
  BY <1>5, VisitedNext, VisitedLinks, Zenon
<1>6. ASSUME state' = state PROVE \A t \in Task : IsRunnable(t)' <=> IsRunnable(t)
  BY <1>6 DEF IsRunnable
<1>7. CASE ReapEnd
  <2>1. /\ pc = "reap" /\ pos = HEAD /\ pc' = "behind" /\ pos' = next[cur]
        /\ UNCHANGED <<next, prev, state, cur, tmp>>
    BY <1>7 DEF ReapEnd
  <2>2. Visited(pos)' = Visited(next[cur]) /\ Visited(next[cur])' = Visited(next[cur])
    BY <1>5, <2>1
  <2>3. \A t \in Task \ {cur} : state[t] # "ZOMBIE"
    BY <1>1, <1>2, <2>1 DEF LoopsMissNothing
  <2> QED
    BY <1>3, <2>1, <2>2, <2>3 DEF LoopsMissNothing
<1>8. CASE BehindEnd
  <2>1. /\ pc = "behind" /\ pos = HEAD /\ pc' = "whole" /\ pos' = next[HEAD]
        /\ UNCHANGED <<next, prev, state, cur, tmp>>
    BY <1>8 DEF BehindEnd
  <2>2. Visited(pos)' = Visited(next[HEAD]) /\ Visited(next[cur])' = Visited(next[cur])
    BY <1>5, <2>1
  <2>3. /\ \A t \in Visited(next[cur]) : ~IsRunnable(t)
        /\ \A t \in Task \ {cur} : state[t] # "ZOMBIE"
    BY <1>1, <1>2, <2>1 DEF LoopsMissNothing
  <2>4. \A t \in Task : IsRunnable(t) => t \in Visited(next[HEAD])
    BY <1>1, WholeRing, SlotFacts DEF IsRunnable, Ring
  <2>5. \A t \in Task : IsRunnable(t)' <=> IsRunnable(t)
    BY <1>6, <2>1
  <2>6. Visited(next[cur]) \subseteq Task
    BY <1>3, <2>1
  <2> QED
    BY <2>1, <2>2, <2>3, <2>4, <2>5, <2>6 DEF LoopsMissNothing
<1>9. CASE SearchStep /\ pc' # "run"
  <2>1. /\ pc \in {"behind", "whole"} /\ pos # HEAD /\ ~IsRunnable(pos) /\ pos' = next[pos]
        /\ UNCHANGED <<next, prev, state, cur, pc>>
    BY <1>9 DEF SearchStep, switchto
  <2>2. Visited(pos)' = Visited(next[pos]) /\ Visited(next[cur])' = Visited(next[cur])
    BY <1>5, <2>1
  <2>3. \A t \in Task : IsRunnable(t)' <=> IsRunnable(t)
    BY <1>6, <2>1
  <2>4. pos \in Task /\ Visited(pos) = Visited(next[pos]) \cup {pos} /\ Visited(next[cur]) \subseteq Task
    BY <1>2, <1>3, <2>1
  <2>5. \A t \in Task \ {cur} : state[t] # "ZOMBIE"
    BY <1>1, <2>1 DEF LoopsMissNothing
  <2>6. CASE pc = "behind"
    <3>1. /\ pos \in Visited(next[cur])
          /\ \A t \in Visited(next[cur]) : IsRunnable(t) => t \in Visited(pos)
      BY <1>1, <2>1, <2>6 DEF LoopsMissNothing
    <3>2. pos' \in Visited(next[cur]) \cup {HEAD}
      BY <1>3, <2>1, <3>1
    <3>3. \A t \in Visited(next[cur]) : IsRunnable(t) => t \in Visited(next[pos])
      BY <2>1, <2>4, <3>1
    <3> QED
      BY <2>1, <2>2, <2>3, <2>4, <2>5, <2>6, <3>2, <3>3 DEF LoopsMissNothing
  <2>7. CASE pc = "whole"
    <3>1. /\ \A t \in Visited(next[cur]) : ~IsRunnable(t)
          /\ \A t \in Task : IsRunnable(t) => t \in Visited(pos)
      BY <1>1, <2>7 DEF LoopsMissNothing
    <3>2. \A t \in Task : IsRunnable(t) => t \in Visited(next[pos])
      BY <2>1, <2>4, <3>1
    <3> QED
      BY <2>1, <2>2, <2>3, <2>4, <2>5, <2>7, <3>1, <3>2 DEF LoopsMissNothing
  <2> QED
    BY <2>1, <2>6, <2>7
<1>10. CASE UNCHANGED vars
  <2>1. UNCHANGED <<next, state, cur, pc, pos>>
    BY <1>10 DEF vars
  <2>2. Visited(pos)' = Visited(pos) /\ Visited(next[cur])' = Visited(next[cur])
    BY <1>5, <2>1
  <2>3. pc # "boot" => Visited(next[cur]) \subseteq Task
    BY <1>3
  <2> QED
    BY <1>1, <1>5, <1>6, <2>1, <2>2, <2>3 DEF LoopsMissNothing
<1>11. CASE WholeEnd
  BY <1>4, <1>11 DEF WholeEnd, switchto
<1> QED
  BY <1>4, <1>7, <1>8, <1>9, <1>10, <1>11

(* No step makes a loop miss a thread.                                        *)
LEMMA OrderInductive == OrderInvariant /\ [Next]_vars => OrderInvariant'
<1> SUFFICES ASSUME OrderInvariant, [Next]_vars PROVE OrderInvariant'
  OBVIOUS
<1>1. RingInvariant /\ Unlinked /\ RingInvariant' /\ Unlinked'
  BY RingNext, OrderStep DEF OrderInvariant
<1>2. LoopsMissNothing'
  <2>1. CASE CallScheduler
    BY <1>1, <2>1, CallMissesNothing
  <2>2. CASE ReapStep
    BY <2>2, ReapMissesNothing
  <2>3. CASE BootSpawn
    BY <2>3 DEF BootSpawn, LoopsMissNothing
  <2>4. CASE \E t \in Task : Wake(t)
    BY <2>4 DEF Wake, LoopsMissNothing
  <2>5. CASE ReapEnd \/ SearchStep \/ BehindEnd \/ WholeEnd \/ UNCHANGED vars
    BY <2>5, SearchMissesNothing
  <2> QED
    BY <2>1, <2>2, <2>3, <2>4, <2>5 DEF Next, LoopStep, SpawnNoWait, SpawnWait, Block
<1> QED
  BY <1>1, <1>2 DEF OrderInvariant

(* list_init is the empty order.                                              *)
LEMMA OrderInit == Init => OrderInvariant /\ T!list_init
<1> SUFFICES ASSUME Init PROVE OrderInvariant /\ T!list_init
  OBVIOUS
<1>1. RingInvariant /\ TypeOK
  BY RingInit DEF RingInvariant
<1>2. next[HEAD] = HEAD /\ \A t \in Task : next[t] = NULL
  BY SlotFacts DEF Init
<1>3. Visited(HEAD) = {} /\ Visited(NULL) = {}
  BY <1>1, VisitedStep
<1>4. Unlinked /\ LoopsMissNothing
  BY <1>2 DEF Init, Unlinked, LoopsMissNothing
<1>5. T!list_init
  <2>1. Visited(next[HEAD]) = {} /\ \A t \in Task : Visited(next[t]) = {}
    BY <1>2, <1>3
  <2> QED
    BY <2>1, Zenon DEF T!list_init, T!Task, Task
<1> QED
  BY <1>1, <1>4, <1>5 DEF OrderInvariant

(* The pointers of list.h implement the order of the threads that the        *)
(* scheduler is specified over: list_add and list_del on the links are those  *)
(* operations on the order, for any number of threads.                        *)
THEOREM ListImplementsOrder == Spec => ImplementsTaskOrder
<1>1. OrderInvariant /\ [Next]_vars => [T!OrderNext]_(T!listVars)
  BY OrderStep DEF OrderInvariant
<1> QED
  BY <1>1, OrderInit, OrderInductive, PTL DEF Spec, ImplementsTaskOrder, T!OrderSpec

(* scheduler() has freed every zombie but the current thread when it          *)
(* switches, and switches to the ready thread that is next in the order.      *)
THEOREM TakesNext == Spec => SchedulerTakesNext
<1>1. OrderInvariant /\ [Next]_vars => [ScheduleStep]_vars
  <2> SUFFICES ASSUME OrderInvariant, Next, pc \in {"behind", "whole"}, pc' = "run"
               PROVE  /\ \A t \in Task \ {cur} : state[t] # "ZOMBIE"
                      /\ T!NextReady(cur', cur, {t \in Task : IsRunnable(t)}, idle_task)
    BY DEF ScheduleStep
  <2> DEFINE ready == {t \in Task : IsRunnable(t)}
  <2>1. TypeOK /\ WalkIsSafe /\ LoopsMissNothing
    BY DEF OrderInvariant, RingInvariant
  <2>2. \A t \in Task \ {cur} : state[t] # "ZOMBIE"
    BY <2>1 DEF LoopsMissNothing
  <2>3. /\ pos \in Ring /\ cur \in Task /\ After[cur] = Visited(next[cur])
        /\ \A t \in Task : After[t] = Visited(next[t])
    BY <2>1 DEF WalkIsSafe, TypeOK, After
  <2>4. Visited(HEAD) = {} /\ \A l \in Task : Visited(l) = Visited(next[l]) \cup {l}
    BY <2>1, VisitedStep
  <2>5. \/ pos # HEAD /\ IsRunnable(pos) /\ cur' = pos
        \/ pc = "whole" /\ pos = HEAD /\ cur' = idle_task
    BY DEF Next, BootSpawn, SpawnNoWait, SpawnWait, Block, Wake, CallScheduler,
           LoopStep, ReapStep, ReapEnd, SearchStep, BehindEnd, WholeEnd, switchto
  <2>6. CASE pos # HEAD /\ IsRunnable(pos) /\ cur' = pos
    <3>1. pos \in ready /\ After[pos] = Visited(next[pos]) /\ Visited(pos) = After[pos] \cup {pos}
      BY <2>3, <2>4, <2>6 DEF Ring
    <3>2. CASE pc = "behind"
      <4>1. pos \in ready \cap After[cur] /\ (ready \cap After[cur]) \ {pos} \subseteq After[pos]
        BY <2>1, <2>3, <2>6, <3>1, <3>2 DEF LoopsMissNothing
      <4> HIDE DEF ready
      <4>2. T!FirstOf(cur', ready \cap After[cur])
        BY <2>6, <4>1, Zenon DEF T!FirstOf, After
      <4>3. T!NextReady(cur', cur, ready, idle_task)
        BY <4>2, Zenon DEF T!NextReady, After
      <4> QED
        BY <2>2, <4>3 DEF ready
    <3>3. CASE pc = "whole"
      <4>1. pos \in ready /\ ready \ {pos} \subseteq After[pos] /\ ready \cap After[cur] = {}
        BY <2>1, <2>3, <2>6, <3>1, <3>3 DEF LoopsMissNothing
      <4> HIDE DEF ready
      <4>2. T!FirstOf(cur', ready)
        BY <2>6, <4>1, Zenon DEF T!FirstOf, After
      <4>3. T!NextReady(cur', cur, ready, idle_task)
        BY <4>1, <4>2, Zenon DEF T!NextReady, After
      <4> QED
        BY <2>2, <4>3 DEF ready
    <3> QED
      BY <3>2, <3>3
  <2>7. CASE pc = "whole" /\ pos = HEAD /\ cur' = idle_task
    <3>1. ready = {}
      BY <2>1, <2>4, <2>7 DEF LoopsMissNothing
    <3> HIDE DEF ready
    <3>2. T!NextReady(cur', cur, ready, idle_task)
      BY <2>7, <3>1, Zenon DEF T!NextReady
    <3> QED
      BY <2>2, <3>2 DEF ready
  <2> QED
    BY <2>5, <2>6, <2>7
<1> QED
  BY <1>1, OrderInit, OrderInductive, PTL DEF Spec, SchedulerTakesNext
=============================================================================
