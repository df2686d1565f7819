----------------------------- MODULE TrapProofs -----------------------------
(***************************************************************************)
(* Machine-checked proofs about Trap, for any number of user and kernel    *)
(* threads and on each of the three architectures.                         *)
(***************************************************************************)
EXTENDS Trap, SequenceTheorems, TLAPS

-----------------------------------------------------------------------------
(* The inductive invariant: what lies on the kernel stack of a thread follows *)
(* from where the thread is.                                                  *)

(* The frame of a program that traps: it will be interruptible again. *)
UserRegs(f) == f.kind = "regs" /\ f.mode = "USER" /\ (f.ints \/ arch = "riscv64")

(* s begins with the frame of the trap that t is in.  Of the kernel threads   *)
(* only idle is ever interrupted.                                             *)
Trapped(t, s) ==
  IF t \in User THEN UserRegs(s[1]) ELSE t = idle /\ s[1] = Regs("KERN", 0, TRUE)

InTrap(t) == pc[t] \in {"handler", "switched"}

(* A thread outside of traps is a program, a kernel thread in its own code,   *)
(* or idle before it enables interrupts.                                      *)
OutsideTrap(t) == pc[t] \in {"start", "code"} /\ trapdepth[t] = 0 /\ (pc[t] = "start" => t = idle)

(* Thread t was switched from, or not yet to: s is on its stack, of height h. *)
Suspended(t, s, h) ==
  /\ h = Len(s)
  /\ \/ /\ OutsideTrap(t)
        /\ t \in User
        /\ h = 2 /\ UserRegs(s[1]) /\ s[2] = Kregs("jump_to_user", FALSE)
     \/ /\ OutsideTrap(t)
        /\ t \in Kernel
        /\ t = idle => pc[t] = "start"
        /\ h = 1
        /\ s[1] = Kregs("entrypoint", FALSE) \/ (s[1] = Kregs("scheduler", FALSE) /\ t # idle)
     \/ /\ InTrap(t)
        /\ trapdepth[t] = 1
        /\ h = 2 /\ Trapped(t, s) /\ s[2] = Kregs("scheduler", FALSE)

(* The thread that runs, in a program or in its own code ... *)
RunsOutside ==
  /\ OutsideTrap(cur)
  /\ mode = taskmode(cur)
  /\ pushed[cur] = <<>>
  /\ IF mode = "USER" THEN ints \/ arch = "riscv64" ELSE ints = (cur = idle /\ pc[cur] = "code")

(* ... or in a handler. *)
RunsHandler ==
  /\ InTrap(cur)
  /\ trapdepth[cur] = 1
  /\ mode = "KERN"
  /\ Len(pushed[cur]) = 1 /\ Trapped(cur, pushed[cur])
  /\ ~ints

(* sscratch is 0 in the kernel, save in a handler that was switched back to;  *)
(* tss.rsp0 is the stack of the current thread; SP_EL1 is what eret left.     *)
EntryConsistent ==
  /\ mode = "USER" \/ arch = "x86_64" => entry = StackAt(cur, 0)
  /\ arch = "riscv64" /\ mode = "KERN" /\ (cur \in Kernel \/ pc[cur] \in {"handler", "code"})
       => entry = Nowhere
  /\ SwitchedBack => entry = StackAt(cur, 0)

Running ==
  /\ alive[cur]
  /\ RunsOutside \/ RunsHandler
  /\ mode = "KERN" => sp = Len(pushed[cur])
  /\ EntryConsistent

(* The stacks hold what was pushed on them. *)
StacksIntact ==
  \A t \in Thread : alive[t] => \A i \in 1 .. Len(pushed[t]) : kstack[t][i] = pushed[t][i]

TrapInvariant ==
  /\ TypeOK
  /\ assertion
  /\ panicked => FramesAreKept
  /\ ~panicked => /\ StacksIntact
                  /\ Running
                  /\ \A t \in Thread : alive[t] /\ t # cur => Suspended(t, pushed[t], saved_sp[t])
-----------------------------------------------------------------------------
(* Frames and sequences of frames. *)

(* regs_t and kregs_t are frames.                                             *)
LEMMA FrameFacts ==
  /\ \A m \in {"USER", "KERN"}, h \in 0 .. MAX_FRAMES, i \in BOOLEAN : Regs(m, h, i) \in Frame
  /\ \A r \in {"none", "entrypoint", "jump_to_user", "scheduler"}, i \in BOOLEAN : Kregs(r, i) \in Frame
  /\ Blank \in Frame
BY DEF Regs, Kregs, Blank, Frame, MAX_FRAMES

(* What a push leaves on a stack.                                             *)
LEMMA PushFacts ==
  ASSUME NEW s \in Seq(Frame), NEW f \in Frame
  PROVE  /\ Append(s, f) \in Seq(Frame)
         /\ Len(s) \in Nat /\ Len(Append(s, f)) = Len(s) + 1
         /\ \A i \in 1 .. Len(s) : Append(s, f)[i] = s[i]
         /\ Append(s, f)[Len(s) + 1] = f
BY AppendProperties, LenProperties

(* What a pop of n frames leaves on a stack.                                  *)
LEMMA PopFacts ==
  ASSUME NEW s \in Seq(Frame), NEW n \in 1 .. 2, n <= Len(s)
  PROVE  /\ SubSeq(s, 1, Len(s) - n) \in Seq(Frame)
         /\ Len(s) \in Nat /\ Len(SubSeq(s, 1, Len(s) - n)) = Len(s) - n
         /\ \A i \in 1 .. Len(s) - n : SubSeq(s, 1, Len(s) - n)[i] = s[i]
         /\ n = Len(s) => SubSeq(s, 1, Len(s) - n) = <<>>
<1>1. Len(s) \in Nat
  BY LenProperties
<1>2. \A i \in 1 .. Len(s) - n : s[i] \in Frame
  BY <1>1, ElementOfSeq
<1>3. Len(s) - n \in Int
  BY <1>1
<1> DEFINE p == SubSeq(s, 1, Len(s) - n)
<1>4. /\ p \in Seq(Frame)
      /\ Len(p) = IF 1 <= Len(s) - n THEN Len(s) - n - 1 + 1 ELSE 0
      /\ \A i \in 1 .. Len(s) - n - 1 + 1 : p[i] = s[1 + i - 1]
  BY <1>2, <1>3, SubSeqProperties
<1>5. n = Len(s) => p = <<>>
  BY <1>3, SubSeqEmpty
<1> HIDE DEF p
<1>6. Len(p) = Len(s) - n /\ \A i \in 1 .. Len(s) - n : p[i] = s[i]
  BY <1>1, <1>4
<1> QED
  BY <1>1, <1>4, <1>5, <1>6, Zenon DEF p

(* The stack that setup_user_thread and setup_kernel_thread prepare.          *)
LEMMA NewFramesFacts ==
  ASSUME NEW t \in Thread
  PROVE  /\ NewFrames(t) \in Seq(Frame)
         /\ Len(NewFrames(t)) \in 1 .. 2
         /\ t \in User => /\ Len(NewFrames(t)) = 2
                          /\ UserRegs(NewFrames(t)[1])
                          /\ NewFrames(t)[2] = Kregs("jump_to_user", FALSE)
         /\ t \notin User => /\ Len(NewFrames(t)) = 1
                             /\ NewFrames(t)[1] = Kregs("entrypoint", FALSE)
<1>1. init_user_regs \in Frame /\ UserRegs(init_user_regs)
  <2> DEFINE i == arch # "riscv64"
  <2>1. i \in BOOLEAN /\ (i \/ arch = "riscv64") /\ init_user_regs = Regs("USER", 0, i)
    BY Zenon DEF init_user_regs
  <2> HIDE DEF i
  <2>2. 0 \in 0 .. MAX_FRAMES
    BY DEF MAX_FRAMES
  <2> QED
    BY <2>1, <2>2, FrameFacts DEF UserRegs, Regs
<1>2. Kregs("jump_to_user", FALSE) \in Frame /\ Kregs("entrypoint", FALSE) \in Frame
  BY FrameFacts
<1> QED
  <2>1. \A f \in Frame, g \in Frame : /\ <<f, g>> \in Seq(Frame) /\ Len(<<f, g>>) = 2
                                      /\ <<f, g>>[1] = f /\ <<f, g>>[2] = g
    OBVIOUS
  <2>2. \A f \in Frame : <<f>> \in Seq(Frame) /\ Len(<<f>>) = 1 /\ <<f>>[1] = f
    OBVIOUS
  <2>3. 1 \in 1 .. 2 /\ 2 \in 1 .. 2
    OBVIOUS
  <2>4. CASE t \in User
    BY <1>1, <1>2, <2>1, <2>3, <2>4, Zenon DEF NewFrames
  <2>5. CASE t \notin User
    BY <1>1, <1>2, <2>2, <2>3, <2>5, Zenon DEF NewFrames
  <2> QED
    BY <2>4, <2>5

(* Stack(s) is the memory of a stack that holds s.                            *)
LEMMA StackFacts ==
  ASSUME NEW s \in Seq(Frame), Len(s) <= MAX_FRAMES
  PROVE  /\ Stack(s) \in [1 .. MAX_FRAMES -> Frame]
         /\ \A i \in 1 .. Len(s) : Stack(s)[i] = s[i]
<1>1. Len(s) \in Nat /\ \A i \in 1 .. Len(s) : s[i] \in Frame
  BY LenProperties
<1> QED
  BY <1>1, FrameFacts DEF Stack, MAX_FRAMES

-----------------------------------------------------------------------------
(* The state in which init_scheduler switches to the root thread.             *)
LEMMA TrapInit == Init => TrapInvariant
<1> SUFFICES ASSUME Init PROVE TrapInvariant
  OBVIOUS
<1> USE ThreadAssumption DEF ThreadAssumption
<1>1. cur \in Thread /\ cur \in Kernel /\ cur \notin User /\ cur # idle /\ arch \in ARCHS
  BY DEF Init, Thread
<1>2. \A t \in Thread : /\ t \in Kernel /\ t # cur => pushed[t] = NewFrames(t)
                        /\ ~(t \in Kernel /\ t # cur) => pushed[t] = <<>>
  BY Zenon DEF Init
<1>3. \A t \in Thread : pushed[t] \in Seq(Frame) /\ Len(pushed[t]) \in 0 .. 2
  <2> TAKE t \in Thread
  <2>1. CASE t \in Kernel /\ t # cur
    <3>1. pushed[t] \in Seq(Frame) /\ Len(pushed[t]) \in 1 .. 2
      BY <1>2, <2>1, NewFramesFacts, Zenon
    <3>2. \A n \in 1 .. 2 : n \in 0 .. 2
      OBVIOUS
    <3> QED
      BY <3>1, <3>2, Zenon
  <2>2. CASE ~(t \in Kernel /\ t # cur)
    <3>1. pushed[t] \in Seq(Frame) /\ Len(pushed[t]) = 0
      BY <1>2, <2>2, EmptySeq, Zenon
    <3> QED
      BY <3>1
  <2> QED
    BY <2>1, <2>2, Zenon
<1>4. \A t \in Thread : /\ kstack[t] \in [1 .. MAX_FRAMES -> Frame]
                        /\ \A i \in 1 .. Len(pushed[t]) : kstack[t][i] = pushed[t][i]
  <2> TAKE t \in Thread
  <2>1. kstack[t] = Stack(pushed[t])
    BY Zenon DEF Init
  <2>2. pushed[t] \in Seq(Frame) /\ Len(pushed[t]) <= MAX_FRAMES
    <3>1. \A n \in 0 .. 2 : n <= MAX_FRAMES
      BY DEF MAX_FRAMES
    <3> QED
      BY <1>3, <3>1, Zenon
  <2> QED
    BY <2>1, <2>2, StackFacts, Zenon
<1>5. StacksIntact
  BY <1>4 DEF StacksIntact
<1>6. entry \in [thread : Thread, height : 0 .. MAX_FRAMES]
  BY <1>1 DEF Init, StackAt, Nowhere, MAX_FRAMES, Thread
<1>7. TypeOK
  <2>1. kstack \in [Thread -> [1 .. MAX_FRAMES -> Frame]]
    BY <1>4 DEF Init
  <2>2. pushed \in [Thread -> Seq(Frame)]
    BY <1>3 DEF Init
  <2>3. saved_sp \in [Thread -> 0 .. MAX_FRAMES]
    BY <1>3 DEF Init, MAX_FRAMES
  <2>4. alive \in [Thread -> BOOLEAN]
    BY DEF Init
  <2>5. sp \in 0 .. MAX_FRAMES
    BY DEF Init, MAX_FRAMES
  <2>6. mode \in {"USER", "KERN"} /\ ints \in BOOLEAN /\ assertion \in BOOLEAN /\ panicked \in BOOLEAN
    BY Zenon DEF Init
  <2>7. trapdepth \in [Thread -> 0 .. 2] /\ pc \in [Thread -> {"start", "code", "handler", "switched"}]
    BY DEF Init
  <2> QED
    BY <1>1, <1>6, <2>1, <2>2, <2>3, <2>4, <2>5, <2>6, <2>7, Zenon DEF TypeOK
<1>8. Running
  <2>1. RunsOutside
    BY <1>1, <1>2 DEF Init, RunsOutside, OutsideTrap, taskmode
  <2>2. EntryConsistent
    BY <1>1 DEF Init, EntryConsistent, SwitchedBack
  <2>3. sp = Len(pushed[cur])
    BY <1>1, <1>2, EmptySeq DEF Init
  <2> QED
    BY <1>1, <2>1, <2>2, <2>3 DEF Init, Running
<1>9. ASSUME NEW t \in Thread, alive[t], t # cur PROVE Suspended(t, pushed[t], saved_sp[t])
  <2>1. t \in Kernel /\ t \notin User
    BY <1>9 DEF Init
  <2>2. saved_sp[t] = Len(pushed[t])
    BY DEF Init
  <2>3. OutsideTrap(t) /\ (t = idle => pc[t] = "start")
    BY DEF Init, OutsideTrap
  <2> QED
    BY <1>2, <1>9, <2>1, <2>2, <2>3, NewFramesFacts DEF Suspended
<1> QED
  BY <1>5, <1>7, <1>8, <1>9 DEF Init, TrapInvariant
-----------------------------------------------------------------------------
(* What the invariant says of the thread that runs.                           *)
LEMMA RunningFacts ==
  ASSUME TrapInvariant, ~panicked
  PROVE  /\ TypeOK /\ Running /\ cur \in Thread /\ cur \in User \cup Kernel
         /\ pushed[cur] \in Seq(Frame) /\ Len(pushed[cur]) \in 0 .. 1
         /\ \A i \in 1 .. Len(pushed[cur]) : kstack[cur][i] = pushed[cur][i]
         /\ mode = "USER" => RunsOutside /\ Len(pushed[cur]) = 0 /\ cur \in User /\ pc[cur] = "code"
         /\ mode = "KERN" => sp = Len(pushed[cur])
         /\ RunsOutside => Len(pushed[cur]) = 0
<1>1. TypeOK /\ Running /\ StacksIntact /\ cur \in Thread /\ pushed[cur] \in Seq(Frame)
  BY DEF TrapInvariant, TypeOK
<1>2. \A i \in 1 .. Len(pushed[cur]) : kstack[cur][i] = pushed[cur][i]
  BY <1>1 DEF Running, StacksIntact
<1>3. RunsOutside => Len(pushed[cur]) = 0
  BY EmptySeq DEF RunsOutside
<1>4. mode = "USER" => RunsOutside /\ cur \in User /\ pc[cur] = "code"
  BY <1>1, ThreadAssumption
     DEF Running, RunsOutside, RunsHandler, OutsideTrap, taskmode, ThreadAssumption
<1>5. RunsHandler => Len(pushed[cur]) = 1
  BY DEF RunsHandler
<1>6. Len(pushed[cur]) \in 0 .. 1
  BY <1>1, <1>3, <1>5 DEF Running
<1>7. mode = "KERN" => sp = Len(pushed[cur])
  BY <1>1 DEF Running
<1> QED
  BY <1>1, <1>2, <1>3, <1>4, <1>6, <1>7, Zenon DEF Thread

(* A thread that a step does not touch stays as it was suspended.             *)
LEMMA StaysSuspended ==
  ASSUME NEW t \in Thread, Suspended(t, pushed[t], saved_sp[t]),
         pc'[t] = pc[t], trapdepth'[t] = trapdepth[t], arch' = arch,
         pushed'[t] = pushed[t], saved_sp'[t] = saved_sp[t]
  PROVE  Suspended(t, pushed[t], saved_sp[t])'
BY DEF Suspended, OutsideTrap, InTrap, Trapped, UserRegs

(* No stack is Nowhere's.                                                     *)
LEMMA StackIsSomewhere == \A t \in Thread : StackAt(t, 0) # Nowhere
BY DEF StackAt, Nowhere, MAX_FRAMES

(* A trap pushes its frame on top of what the current thread has on its own   *)
(* stack, save in a call on riscv64 that was switched back to.                *)
LEMMA TrapStackFacts ==
  ASSUME TrapInvariant, ~panicked
  PROVE  TrapStack = StackAt(cur, IF SwitchedBack THEN 0 ELSE Len(pushed[cur]))
<1> DEFINE n == Len(pushed[cur])
<1>1. /\ TypeOK /\ Running /\ cur \in Thread /\ cur \in User \cup Kernel /\ mode \in {"USER", "KERN"}
      /\ mode = "KERN" => sp = n
      /\ mode = "USER" => n = 0
  BY RunningFacts DEF TypeOK
<1>2. CASE mode = "USER"
  <2>1. entry = StackAt(cur, 0) /\ n = 0 /\ ~SwitchedBack
    BY <1>1, <1>2 DEF Running, EntryConsistent, SwitchedBack
  <2> QED
    BY <1>1, <1>2, <2>1, StackIsSomewhere DEF TrapStack
<1>3. CASE SwitchedBack
  BY <1>1, <1>3, StackIsSomewhere DEF TrapStack, Running, EntryConsistent, SwitchedBack
<1>4. CASE mode = "KERN" /\ ~SwitchedBack
  <2>1. sp = n
    BY <1>1, <1>4
  <2>2. arch = "riscv64" => entry = Nowhere
    BY <1>1, <1>4, ThreadAssumption
       DEF Running, EntryConsistent, SwitchedBack, RunsOutside, RunsHandler, OutsideTrap, InTrap,
           ThreadAssumption
  <2> QED
    BY <1>4, <2>1, <2>2 DEF TrapStack
<1> QED
  BY <1>1, <1>2, <1>3, <1>4

(* A trap of a program, of idle or of a system call's handler, whose frame    *)
(* goes to height h: the asserts at the start of the handler hold, and no     *)
(* frame is lost if h is the top of the stack.                                *)
LEMMA TrapEntryStep ==
  ASSUME TrapInvariant, ~panicked, trap_entry, panicked' \in BOOLEAN,
         \/ mode = "USER"
         \/ cur = idle /\ pc[cur] = "code"
         \/ cur \in User /\ pc[cur] \in {"handler", "switched"},
         NEW h \in 0 .. Len(pushed[cur]), TrapStack = StackAt(cur, h)
  PROVE  /\ TypeOK' /\ assertion' /\ (h = Len(pushed[cur]) => StacksIntact')
         /\ sp' = h + 1
         /\ kstack'[cur][h + 1] = Regs(mode, IF mode = "KERN" THEN sp ELSE 0, ints)
         /\ \A t \in Thread : t # cur => kstack'[t] = kstack[t]
         /\ pushed'[cur] \in Seq(Frame)
         /\ Len(pushed'[cur]) = Len(pushed[cur]) + 1
         /\ pushed'[cur][Len(pushed[cur]) + 1]
              = Regs(mode, IF mode = "KERN" THEN sp ELSE 0, ints)
         /\ \A t \in Thread : t # cur => pushed'[t] = pushed[t]
<1> DEFINE n == Len(pushed[cur])
<1> DEFINE r == Regs(mode, IF mode = "KERN" THEN sp ELSE 0, ints)
<1>1. /\ TypeOK /\ Running /\ cur \in Thread /\ n \in 0 .. 1 /\ pushed[cur] \in Seq(Frame)
      /\ mode = "KERN" => sp = n
      /\ mode = "USER" => RunsOutside /\ n = 0 /\ cur \in User
  BY RunningFacts, Zenon
<1>2. \A i \in 1 .. n : kstack[cur][i] = pushed[cur][i]
  BY RunningFacts, Zenon
<1>3. mode \in {"USER", "KERN"} /\ ints \in BOOLEAN /\ sp \in 0 .. MAX_FRAMES /\ 0 \in 0 .. MAX_FRAMES
  BY <1>1 DEF TypeOK, MAX_FRAMES
<1>4. r \in Frame
  BY <1>3, FrameFacts
<1>5. h \in 0 .. 1 /\ h \in 0 .. n
  <2>1. n \in 0 .. 1 /\ h \in 0 .. n
    BY <1>1, Zenon
  <2> HIDE DEF n
  <2> QED
    BY <2>1
<1>6. StackAt(cur, h).thread = cur /\ StackAt(cur, h).height = h
  BY DEF StackAt
<1> HIDE DEF n, r
<1>7. /\ kstack' = [kstack EXCEPT ![cur][h + 1] = r]
      /\ pushed' = [pushed EXCEPT ![cur] = Append(@, r)]
      /\ sp' = h + 1
      /\ entry' = EntryInKernel
      /\ ints' = FALSE /\ mode' = "KERN"
      /\ trapdepth' = [trapdepth EXCEPT ![cur] = trapdepth[cur] + 1]
      /\ pc' = [pc EXCEPT ![cur] = "handler"]
      /\ arch' = arch /\ cur' = cur /\ alive' = alive /\ saved_sp' = saved_sp
  BY <1>6, Zenon DEF trap_entry, IntsInTrap, r
<1>8. trapdepth[cur] \in 0 .. 1
  BY <1>1 DEF Running, RunsOutside, RunsHandler, OutsideTrap
<1>9. /\ Append(pushed[cur], r) \in Seq(Frame)
      /\ Len(Append(pushed[cur], r)) = n + 1
      /\ \A i \in 1 .. n : Append(pushed[cur], r)[i] = pushed[cur][i]
      /\ Append(pushed[cur], r)[n + 1] = r
  BY <1>1, <1>4, PushFacts, Zenon DEF n
<1>10. /\ pushed' \in [Thread -> Seq(Frame)]
       /\ pushed'[cur] = Append(pushed[cur], r)
       /\ \A t \in Thread : t # cur => pushed'[t] = pushed[t]
  BY <1>1, <1>7, <1>9, Zenon DEF TypeOK
<1>11. /\ kstack' \in [Thread -> [1 .. MAX_FRAMES -> Frame]]
       /\ \A i \in 1 .. h : kstack'[cur][i] = kstack[cur][i]
       /\ kstack'[cur][h + 1] = r
       /\ \A t \in Thread : t # cur => kstack'[t] = kstack[t]
  BY <1>1, <1>4, <1>5, <1>7 DEF TypeOK, MAX_FRAMES
<1>12. ASSUME h = n PROVE StacksIntact'
  <2> SUFFICES ASSUME NEW t \in Thread, alive[t], NEW i \in 1 .. Len(pushed'[t])
               PROVE  kstack'[t][i] = pushed'[t][i]
    BY <1>7 DEF StacksIntact
  <2>1. CASE t # cur
    BY <1>10, <1>11, <2>1 DEF TrapInvariant, StacksIntact
  <2>2. CASE t = cur
    <3>1. i \in 1 .. n \/ i = n + 1
      BY <1>1, <1>9, <1>10, <2>2
    <3> QED
      BY <1>2, <1>9, <1>10, <1>11, <1>12, <2>2, <3>1
  <2> QED
    BY <2>1, <2>2
<1>13. TypeOK'
  <2>1. entry' \in [thread : Thread, height : 0 .. MAX_FRAMES]
    BY <1>1, <1>7, ThreadAssumption
       DEF EntryInKernel, Nowhere, StackAt, MAX_FRAMES, TypeOK, Thread, ThreadAssumption
  <2>2. sp' \in 0 .. MAX_FRAMES
    BY <1>5, <1>7 DEF MAX_FRAMES
  <2>3. /\ trapdepth' \in [Thread -> 0 .. 2]
        /\ pc' \in [Thread -> {"start", "code", "handler", "switched"}]
    BY <1>1, <1>7, <1>8 DEF TypeOK
  <2>4. assertion' \in BOOLEAN
    BY Zenon DEF trap_entry
  <2> QED
    BY <1>1, <1>7, <1>10, <1>11, <2>1, <2>2, <2>3, <2>4, Zenon DEF TypeOK
<1>14. assertion'
  <2>1. arch = "riscv64" => entry' = Nowhere
    BY <1>7 DEF EntryInKernel
  <2>2. (mode = "USER") <=> (taskmode(cur) = "USER" /\ trapdepth[cur] + 1 = 1)
    BY <1>1, ThreadAssumption
       DEF Running, RunsOutside, RunsHandler, OutsideTrap, InTrap, taskmode, ThreadAssumption
  <2>3. assertion
    BY DEF TrapInvariant
  <2> QED
    BY <2>1, <2>2, <2>3, Zenon DEF trap_entry
<1> QED
  BY <1>7, <1>9, <1>10, <1>11, <1>12, <1>13, <1>14, Zenon DEF n, r
(* After a trap of a program or of idle the thread runs in its handler.       *)
LEMMA TrapStep ==
  ASSUME TrapInvariant, ~panicked, trap_entry, UNCHANGED panicked,
         mode = "USER" \/ (cur = idle /\ pc[cur] = "code")
  PROVE  TrapInvariant'
<1>1. /\ TypeOK /\ Running /\ RunsOutside /\ cur \in Thread /\ Len(pushed[cur]) = 0
      /\ mode \in {"USER", "KERN"}
  <2>1. RunsOutside
    BY RunningFacts DEF Running, RunsHandler, InTrap
  <2> QED
    BY <2>1, RunningFacts DEF TypeOK
<1>2. panicked' \in BOOLEAN
  BY <1>1 DEF TypeOK
<1> DEFINE r == Regs(mode, IF mode = "KERN" THEN sp ELSE 0, ints)
<1>3. /\ TypeOK' /\ assertion' /\ StacksIntact'
      /\ sp' = Len(pushed[cur]) + 1 /\ Len(pushed'[cur]) = Len(pushed[cur]) + 1
      /\ pushed'[cur][Len(pushed[cur]) + 1] = r
      /\ \A t \in Thread : t # cur => pushed'[t] = pushed[t]
  <2>1. ~SwitchedBack
    BY <1>1, ThreadAssumption DEF SwitchedBack, RunsOutside, OutsideTrap
  <2>2. TrapStack = StackAt(cur, Len(pushed[cur])) /\ Len(pushed[cur]) \in 0 .. Len(pushed[cur])
    BY <1>1, <2>1, TrapStackFacts
  <2> QED
    BY <1>2, <2>2, TrapEntryStep, Zenon
<1>4. /\ entry' = EntryInKernel /\ ints' = FALSE /\ mode' = "KERN"
      /\ trapdepth' = [trapdepth EXCEPT ![cur] = trapdepth[cur] + 1]
      /\ pc' = [pc EXCEPT ![cur] = "handler"]
      /\ arch' = arch /\ cur' = cur /\ alive' = alive /\ saved_sp' = saved_sp
  BY Zenon DEF trap_entry, IntsInTrap
<1>5. sp' = 1 /\ Len(pushed'[cur]) = 1 /\ pushed'[cur][1] = r
  BY <1>1, <1>3
<1>6. Trapped(cur, pushed[cur])'
  <2>1. CASE mode = "USER"
    <3>1. cur \in User /\ (ints \/ arch = "riscv64")
      BY <1>1, <2>1 DEF RunsOutside, taskmode
    <3> QED
      BY <1>4, <1>5, <2>1, <3>1 DEF Trapped, UserRegs, Regs
  <2>2. CASE mode # "USER"
    <3>1. mode = "KERN" /\ cur = idle /\ cur \notin User /\ sp = 0
      BY <1>1, <2>2, ThreadAssumption DEF Running, ThreadAssumption
    <3>2. ints = TRUE
      BY <1>1, <2>2, Zenon DEF RunsOutside
    <3>3. r = Regs("KERN", 0, TRUE)
      BY <3>1, <3>2, Zenon
    <3> QED
      BY <1>4, <1>5, <3>1, <3>3, Zenon DEF Trapped
  <2> QED
    BY <2>1, <2>2
<1>7. RunsHandler'
  BY <1>1, <1>4, <1>5, <1>6 DEF RunsHandler, RunsOutside, OutsideTrap, InTrap, TypeOK
<1>8. EntryConsistent'
  <2>1. pc'[cur] = "handler"
    BY <1>1, <1>4 DEF TypeOK
  <2> QED
    BY <1>1, <1>4, <2>1 DEF Running, EntryConsistent, EntryInKernel, SwitchedBack
<1>9. Running'
  BY <1>1, <1>4, <1>5, <1>7, <1>8 DEF Running
<1>10. ASSUME NEW t \in Thread, alive'[t], t # cur' PROVE Suspended(t, pushed[t], saved_sp[t])'
  BY <1>1, <1>3, <1>4, <1>10, StaysSuspended DEF TrapInvariant, TypeOK
<1> QED
  BY <1>1, <1>3, <1>9, <1>10 DEF TrapInvariant

(* The end of a handler finds the frame of its trap, and the code that was    *)
(* interrupted goes on with its own entry stack.                              *)
LEMMA TrapReturnStep == TrapInvariant /\ ~panicked /\ TrapReturn => TrapInvariant'
<1> SUFFICES ASSUME TrapInvariant, ~panicked, TrapReturn PROVE TrapInvariant'
  OBVIOUS
<1>1. /\ TypeOK /\ Running /\ RunsHandler /\ cur \in Thread /\ pushed[cur] \in Seq(Frame) /\ sp = 1
      /\ Len(pushed[cur]) = 1 /\ mode = "KERN"
  <2>1. RunsHandler
    BY RunningFacts DEF Running, RunsOutside, OutsideTrap, TrapReturn
  <2> QED
    BY <2>1, RunningFacts DEF RunsHandler
<1> DEFINE r == kstack[cur][sp]
<1>2. r = pushed[cur][1] /\ Trapped(cur, pushed[cur])
  <2>1. kstack[cur][1] = pushed[cur][1]
    BY <1>1, RunningFacts
  <2> QED
    BY <1>1, <2>1 DEF RunsHandler
<1>3. \/ r.kind = "regs" /\ r.mode = "USER" /\ (r.ints \/ arch = "riscv64") /\ cur \in User
      \/ r = Regs("KERN", 0, TRUE) /\ cur = idle
  BY <1>1, <1>2 DEF Trapped, UserRegs
<1>4. r \in Frame
  BY <1>1 DEF TypeOK, MAX_FRAMES
<1>5. DepthAfterExit = 0
  BY <1>1 DEF RunsHandler, DepthAfterExit
<1>6. arch \in {"riscv64", "x86_64", "aarch64"}
  BY <1>1, ThreadAssumption DEF TypeOK, ThreadAssumption
<1> DEFINE e == EntryAfterExit(0)
<1>7. /\ arch = "riscv64" => e = IF cur \in User THEN StackAt(cur, 0) ELSE Nowhere
      /\ arch = "x86_64" => e = StackAt(cur, 0)
      /\ arch = "aarch64" => e = entry
  BY <1>6 DEF EntryAfterExit, cpu_set_entry_kstack, taskmode
<1> HIDE DEF r, e
<1>8. /\ trapdepth' = [trapdepth EXCEPT ![cur] = 0]
      /\ entry' = IF r.mode = "USER" THEN EntryAfterEret(e, cur, sp - 1) ELSE e
      /\ mode' = r.mode
      /\ ints' = r.ints
      /\ sp' = IF r.mode = "USER" THEN 0 ELSE r.sp
      /\ pushed' = [pushed EXCEPT ![cur] = SubSeq(@, 1, Len(@) - 1)]
      /\ pc' = [pc EXCEPT ![cur] = "code"]
      /\ arch' = arch /\ cur' = cur /\ alive' = alive /\ kstack' = kstack /\ saved_sp' = saved_sp
      /\ panicked' = panicked
  BY <1>5, Zenon DEF TrapReturn, r, e
<1>9. SubSeq(pushed[cur], 1, Len(pushed[cur]) - 1) = <<>> /\ <<>> \in Seq(Frame) /\ Len(<<>>) = 0
  BY <1>1, SubSeqEmpty, EmptySeq
<1>10. /\ pushed' \in [Thread -> Seq(Frame)]
       /\ pushed'[cur] = <<>> /\ Len(pushed'[cur]) = 0
       /\ \A t \in Thread : t # cur => pushed'[t] = pushed[t]
  BY <1>1, <1>8, <1>9, Zenon DEF TypeOK
<1>11. StacksIntact'
  <2> SUFFICES ASSUME NEW t \in Thread, alive[t], NEW i \in 1 .. Len(pushed'[t])
               PROVE  kstack[t][i] = pushed'[t][i]
    BY <1>8 DEF StacksIntact
  <2>1. t # cur
    BY <1>10
  <2> QED
    BY <1>10, <2>1 DEF TrapInvariant, StacksIntact
<1>12. r.mode = "USER" => entry' = StackAt(cur, 0)
  BY <1>1, <1>3, <1>6, <1>7, <1>8, ThreadAssumption DEF EntryAfterEret, ThreadAssumption, Regs
<1>13. entry' \in [thread : Thread, height : 0 .. MAX_FRAMES]
  <2>1. CASE r.mode = "USER"
    BY <1>1, <1>12, <2>1 DEF StackAt, MAX_FRAMES
  <2>2. CASE r.mode # "USER"
    BY <1>1, <1>6, <1>7, <1>8, <2>2, ThreadAssumption
       DEF StackAt, Nowhere, MAX_FRAMES, TypeOK, Thread, ThreadAssumption
  <2> QED
    BY <2>1, <2>2
<1>14. /\ r.mode \in {"USER", "KERN"} /\ r.ints \in BOOLEAN /\ sp' \in 0 .. MAX_FRAMES
  BY <1>4, <1>8 DEF Frame, MAX_FRAMES
<1>15. assertion'
  <2>1. r.kind = "regs" /\ trapdepth[cur] # 0 /\ assertion
    BY <1>1, <1>3 DEF RunsHandler, Regs, TrapInvariant
  <2>2. arch = "riscv64" => IF r.mode = "USER" THEN e # Nowhere ELSE e = Nowhere
    BY <1>1, <1>3, <1>7, StackIsSomewhere, ThreadAssumption DEF Regs, ThreadAssumption
  <2> QED
    BY <1>5, <2>1, <2>2, Zenon DEF TrapReturn, r, e
<1>16. TypeOK'
  <2>1. /\ trapdepth' \in [Thread -> 0 .. 2]
        /\ pc' \in [Thread -> {"start", "code", "handler", "switched"}]
    BY <1>1, <1>8 DEF TypeOK
  <2>2. assertion' \in BOOLEAN
    BY <1>15
  <2> QED
    BY <1>1, <1>8, <1>10, <1>13, <1>14, <2>1, <2>2, Zenon DEF TypeOK
<1>17. RunsOutside'
  <2>1. OutsideTrap(cur)' /\ pc'[cur] = "code"
    BY <1>1, <1>8 DEF OutsideTrap, TypeOK
  <2>2. CASE r.mode = "USER"
    BY <1>3, <1>8, <1>10, <2>1, <2>2 DEF RunsOutside, taskmode, Regs
  <2>3. CASE r.mode # "USER"
    <3>1. cur = idle /\ cur \notin User /\ r.mode = "KERN" /\ r.ints = TRUE
      BY <1>3, <2>3, ThreadAssumption DEF ThreadAssumption, Regs
    <3> QED
      BY <1>8, <1>10, <2>1, <3>1 DEF RunsOutside, taskmode
  <2> QED
    BY <2>2, <2>3
<1>18. EntryConsistent'
  <2>1. pc'[cur] = "code"
    BY <1>1, <1>8 DEF TypeOK
  <2> QED
    BY <1>1, <1>3, <1>7, <1>8, <1>12, <2>1, ThreadAssumption
       DEF EntryConsistent, SwitchedBack, ThreadAssumption, Regs
<1>19. Running'
  <2>1. r.mode = "KERN" => sp' = 0
    BY <1>3, <1>8 DEF Regs
  <2> QED
    BY <1>1, <1>8, <1>10, <1>17, <1>18, <2>1 DEF Running
<1>20. ASSUME NEW t \in Thread, alive'[t], t # cur' PROVE Suspended(t, pushed[t], saved_sp[t])'
  BY <1>1, <1>8, <1>10, <1>20, StaysSuspended DEF TrapInvariant, TypeOK
<1> QED
  BY <1>8, <1>11, <1>15, <1>16, <1>19, <1>20 DEF TrapInvariant
(* thread_idle enables interrupts in its own code.                            *)
LEMMA EnableStep == TrapInvariant /\ ~panicked /\ cpu_enable_ints => TrapInvariant'
<1> SUFFICES ASSUME TrapInvariant, ~panicked, cpu_enable_ints PROVE TrapInvariant'
  OBVIOUS
<1>1. TypeOK /\ Running /\ RunsOutside /\ cur \in Thread /\ cur = idle
  <2>1. RunsOutside
    BY RunningFacts DEF Running, RunsHandler, InTrap, cpu_enable_ints
  <2> QED
    BY <2>1, RunningFacts DEF RunsOutside, OutsideTrap, cpu_enable_ints
<1>2. cur \in Kernel /\ cur \notin User
  BY <1>1, ThreadAssumption DEF ThreadAssumption
<1>3. /\ ints' = TRUE /\ pc' = [pc EXCEPT ![cur] = "code"]
      /\ UNCHANGED <<arch, cur, mode, sp, entry, alive, kstack, saved_sp, trapdepth, pushed,
                     assertion, panicked>>
  BY DEF cpu_enable_ints
<1>4. TypeOK'
  <2>1. pc' \in [Thread -> {"start", "code", "handler", "switched"}]
    BY <1>1, <1>3 DEF TypeOK
  <2> QED
    BY <1>1, <1>3, <2>1, Zenon DEF TypeOK
<1>5. StacksIntact' /\ assertion'
  BY <1>3 DEF TrapInvariant, StacksIntact
<1>6. Running'
  <2>1. pc'[cur] = "code"
    BY <1>1, <1>3 DEF TypeOK
  <2>2. RunsOutside'
    BY <1>1, <1>2, <1>3, <2>1 DEF RunsOutside, OutsideTrap, taskmode
  <2>3. EntryConsistent'
    BY <1>1, <1>2, <1>3, <2>1 DEF Running, EntryConsistent, SwitchedBack
  <2> QED
    BY <1>1, <1>3, <2>2, <2>3 DEF Running
<1>7. ASSUME NEW t \in Thread, alive'[t], t # cur' PROVE Suspended(t, pushed[t], saved_sp[t])'
  BY <1>1, <1>3, <1>7, StaysSuspended DEF TrapInvariant, TypeOK
<1> QED
  BY <1>3, <1>4, <1>5, <1>6, <1>7 DEF TrapInvariant

(* setup_user_thread prepares a stack that a switch can take up.              *)
LEMMA SetupStep ==
  ASSUME TrapInvariant, ~panicked, NEW u \in Thread, setup_user_thread(u)
  PROVE  TrapInvariant'
<1> DEFINE s == NewFrames(u)
<1>1. TypeOK /\ Running /\ cur \in Thread /\ u # cur /\ u \in User
  BY RunningFacts DEF setup_user_thread
<1>2. /\ s \in Seq(Frame) /\ Len(s) = 2 /\ UserRegs(s[1]) /\ s[2] = Kregs("jump_to_user", FALSE)
  BY <1>1, NewFramesFacts, Zenon
<1>3. Stack(s) \in [1 .. MAX_FRAMES -> Frame] /\ \A i \in 1 .. Len(s) : Stack(s)[i] = s[i]
  <2>1. Len(s) <= MAX_FRAMES
    BY <1>2 DEF MAX_FRAMES
  <2> QED
    BY <1>2, <2>1, StackFacts, Zenon
<1> HIDE DEF s
<1>4. /\ alive' = [alive EXCEPT ![u] = TRUE]
      /\ pushed' = [pushed EXCEPT ![u] = s]
      /\ kstack' = [kstack EXCEPT ![u] = Stack(s)]
      /\ saved_sp' = [saved_sp EXCEPT ![u] = Len(s)]
      /\ trapdepth' = [trapdepth EXCEPT ![u] = 0]
      /\ pc' = [pc EXCEPT ![u] = "code"]
      /\ UNCHANGED <<arch, cur, mode, ints, sp, entry, assertion, panicked>>
  BY Zenon DEF setup_user_thread, s
<1>5. /\ alive' \in [Thread -> BOOLEAN]
      /\ pushed' \in [Thread -> Seq(Frame)] /\ pushed'[u] = s
      /\ kstack' \in [Thread -> [1 .. MAX_FRAMES -> Frame]] /\ kstack'[u] = Stack(s)
      /\ \A t \in Thread : t # u => /\ alive'[t] = alive[t] /\ pushed'[t] = pushed[t]
                                   /\ kstack'[t] = kstack[t]
  BY <1>1, <1>2, <1>3, <1>4, Zenon DEF TypeOK
<1>6. /\ saved_sp' \in [Thread -> 0 .. MAX_FRAMES] /\ saved_sp'[u] = Len(s)
      /\ trapdepth' \in [Thread -> 0 .. 2] /\ trapdepth'[u] = 0
      /\ pc' \in [Thread -> {"start", "code", "handler", "switched"}] /\ pc'[u] = "code"
      /\ \A t \in Thread : t # u => /\ saved_sp'[t] = saved_sp[t] /\ trapdepth'[t] = trapdepth[t]
                                   /\ pc'[t] = pc[t]
  BY <1>1, <1>2, <1>4 DEF TypeOK, MAX_FRAMES
<1>7. TypeOK'
  BY <1>1, <1>4, <1>5, <1>6, Zenon DEF TypeOK
<1>8. StacksIntact' /\ assertion'
  <2>1. assertion'
    BY <1>4 DEF TrapInvariant
  <2>2. ASSUME NEW t \in Thread, alive'[t], NEW i \in 1 .. Len(pushed'[t])
        PROVE  kstack'[t][i] = pushed'[t][i]
    <3>1. CASE t = u
      BY <1>3, <1>5, <2>2, <3>1
    <3>2. CASE t # u
      BY <1>5, <2>2, <3>2 DEF TrapInvariant, StacksIntact
    <3> QED
      BY <3>1, <3>2
  <2> QED
    BY <2>1, <2>2 DEF StacksIntact
<1>9. Running'
  <2>1. /\ alive'[cur] = alive[cur] /\ pushed'[cur] = pushed[cur] /\ pc'[cur] = pc[cur]
        /\ trapdepth'[cur] = trapdepth[cur]
        /\ UNCHANGED <<arch, cur, mode, ints, sp, entry>>
    BY <1>1, <1>4, <1>5, <1>6
  <2>2. RunsOutside => RunsOutside'
    BY <2>1 DEF RunsOutside, OutsideTrap
  <2>3. RunsHandler => RunsHandler'
    BY <2>1 DEF RunsHandler, InTrap, Trapped, UserRegs
  <2>4. EntryConsistent'
    BY <1>1, <2>1 DEF Running, EntryConsistent, SwitchedBack
  <2> QED
    BY <1>1, <2>1, <2>2, <2>3, <2>4 DEF Running
<1>10. ASSUME NEW t \in Thread, alive'[t], t # cur' PROVE Suspended(t, pushed[t], saved_sp[t])'
  <2>1. CASE t = u
    <3>1. OutsideTrap(u)'
      BY <1>6 DEF OutsideTrap
    <3>2. UserRegs(pushed[u][1])'
      BY <1>2, <1>4, <1>5 DEF UserRegs
    <3>3. pushed'[u][2] = Kregs("jump_to_user", FALSE) /\ saved_sp'[u] = 2 /\ Len(pushed'[u]) = 2
      BY <1>2, <1>5, <1>6
    <3> QED
      BY <1>1, <2>1, <3>1, <3>2, <3>3, Zenon DEF Suspended
  <2>2. CASE t # u
    BY <1>4, <1>5, <1>6, <1>10, <2>2, StaysSuspended DEF TrapInvariant
  <2> QED
    BY <2>1, <2>2
<1> QED
  BY <1>4, <1>7, <1>8, <1>9, <1>10 DEF TrapInvariant
-----------------------------------------------------------------------------
(* The switch.  A thread that is suspended, with s on its stack in memory m,  *)
(* is resumed where it was: cswitch and jump_to_user pop what was pushed.     *)
LEMMA ResumeStep ==
  ASSUME TypeOK, assertion, NEW next \in Thread,
         NEW m \in [Thread -> [1 .. MAX_FRAMES -> Frame]],
         NEW frames \in [Thread -> Seq(Frame)], NEW h,
         Suspended(next, frames[next], h),
         \A i \in 1 .. Len(frames[next]) : m[next][i] = frames[next][i],
         Resume(next, m, h, frames), UNCHANGED <<arch, trapdepth>>, alive'[next]
  PROVE  /\ cur' = next /\ kstack' = m /\ assertion' /\ Running'
         /\ mode' \in {"USER", "KERN"} /\ ints' \in BOOLEAN /\ sp' \in 0 .. MAX_FRAMES
         /\ entry' \in [thread : Thread, height : 0 .. MAX_FRAMES]
         /\ pc' \in [Thread -> {"start", "code", "handler", "switched"}]
         /\ pushed' \in [Thread -> Seq(Frame)]
         /\ \A i \in 1 .. Len(pushed'[next]) : m[next][i] = pushed'[next][i]
         /\ \A t \in Thread : t # next => pushed'[t] = frames[t] /\ pc'[t] = pc[t]
<1> DEFINE s == frames[next]
<1> DEFINE k == m[next][h]
<1> DEFINE toUser == k.ra = "jump_to_user"
<1> DEFINE r == m[next][h - 1]
<1> DEFINE e == EntryAfterSwitch(next)
<1> DEFINE n == IF toUser THEN 2 ELSE 1
<1> DEFINE p == SubSeq(s, 1, Len(s) - n)
<1> DEFINE q == IF k.ra = "scheduler" /\ pc[next] # "code" THEN "switched" ELSE pc[next]
<1>1. s \in Seq(Frame) /\ arch \in {"riscv64", "x86_64", "aarch64"} /\ next \in User \cup Kernel
  BY ThreadAssumption DEF TypeOK, ThreadAssumption, Thread
<1>2. /\ arch = "riscv64" => e = IF next \in User /\ trapdepth[next] <= 1 THEN StackAt(next, 0)
                                                                         ELSE Nowhere
      /\ arch = "x86_64" => e = StackAt(next, 0)
      /\ arch = "aarch64" => e = entry
  <2>1. trapdepth[next] \in 0 .. 2
    BY DEF TypeOK
  <2> QED
    BY <1>1, <2>1 DEF EntryAfterSwitch, cpu_set_entry_kstack, taskmode
<1>3. \/ /\ OutsideTrap(next) /\ next \in User /\ pc[next] = "code"
         /\ h = 2 /\ Len(s) = 2 /\ UserRegs(r) /\ k = Kregs("jump_to_user", FALSE)
      \/ /\ OutsideTrap(next) /\ next \in Kernel /\ (next = idle => pc[next] = "start")
         /\ h = 1 /\ Len(s) = 1
         /\ k = Kregs("entrypoint", FALSE) \/ (k = Kregs("scheduler", FALSE) /\ next # idle)
      \/ /\ InTrap(next) /\ trapdepth[next] = 1
         /\ h = 2 /\ Len(s) = 2 /\ Trapped(next, s) /\ k = Kregs("scheduler", FALSE)
  <2>1. h = Len(s) /\ \A i \in 1 .. Len(s) : m[next][i] = s[i]
    BY DEF Suspended
  <2>2. h = 2 => m[next][1] = s[1] /\ m[next][2] = s[2] /\ h - 1 = 1
    BY <2>1
  <2>3. h = 1 => m[next][1] = s[1]
    BY <2>1
  <2>4. next \in User => next # idle
    BY ThreadAssumption DEF ThreadAssumption
  <2> QED
    BY <2>1, <2>2, <2>3, <2>4 DEF Suspended, OutsideTrap
<1>4. k.kind = "kregs" /\ k.ints = FALSE /\ (toUser => next \in User /\ h = 2 /\ UserRegs(r))
  BY <1>3 DEF Kregs
<1>5. h \in 1 .. 2 /\ Len(s) = h /\ n \in 1 .. 2 /\ n <= Len(s)
  <2>1. h \in {1, 2} /\ Len(s) = h
    BY <1>3, Zenon
  <2>2. n = 1 \/ (n = 2 /\ h = 2)
    BY <1>4, Zenon
  <2> HIDE DEF n, s
  <2> QED
    BY <2>1, <2>2
<1>6. k \in Frame /\ (toUser => r \in Frame)
  BY <1>4, <1>5 DEF MAX_FRAMES
<1>7. /\ p \in Seq(Frame) /\ Len(p) = Len(s) - n
      /\ \A i \in 1 .. Len(s) - n : p[i] = s[i]
      /\ n = Len(s) => p = <<>>
  <2> HIDE DEF n, s
  <2> QED
    BY <1>1, <1>5, PopFacts, Zenon
<1> HIDE DEF k, r, e, p, q, s
<1>8. /\ cur' = next /\ kstack' = m
      /\ entry' = IF toUser THEN EntryAfterEret(e, next, h - 2) ELSE e
      /\ mode' = IF toUser THEN r.mode ELSE "KERN"
      /\ ints' = IF toUser THEN r.ints ELSE k.ints
      /\ sp' = IF toUser THEN h - 2 ELSE h - 1
      /\ pushed' = [frames EXCEPT ![next] = p]
      /\ pc' = [pc EXCEPT ![next] = q]
      /\ assertion' = (assertion /\ k.kind = "kregs" /\ (toUser => r.kind = "regs"))
  BY Zenon DEF Resume, k, r, e, p, q, s
<1>9. assertion'
  BY <1>4, <1>8, Zenon DEF UserRegs
<1> HIDE DEF n
<1>10. /\ pushed' \in [Thread -> Seq(Frame)] /\ pushed'[next] = p
       /\ \A t \in Thread : t # next => pushed'[t] = frames[t]
  BY <1>7, <1>8, Zenon
<1>11. q \in {"start", "code", "handler", "switched"}
  BY DEF q, TypeOK
<1>12. /\ pc' \in [Thread -> {"start", "code", "handler", "switched"}] /\ pc'[next] = q
       /\ \A t \in Thread : t # next => pc'[t] = pc[t]
  BY <1>8, <1>11, Zenon DEF TypeOK
<1>13. /\ mode' \in {"USER", "KERN"} /\ ints' \in BOOLEAN
  BY <1>6, <1>8 DEF Frame
<1>14. sp' \in 0 .. MAX_FRAMES
  BY <1>4, <1>5, <1>8 DEF MAX_FRAMES
<1>15. entry' \in [thread : Thread, height : 0 .. MAX_FRAMES]
  BY <1>1, <1>2, <1>4, <1>8, ThreadAssumption
     DEF EntryAfterEret, StackAt, Nowhere, MAX_FRAMES, TypeOK, Thread, ThreadAssumption
<1>16. \A i \in 1 .. Len(p) : m[next][i] = p[i]
  BY <1>5, <1>7 DEF s
<1>17. Running'
  <2>1. CASE toUser
    <3>1. /\ OutsideTrap(next) /\ next \in User /\ pc[next] = "code" /\ h = 2 /\ Len(s) = 2
          /\ UserRegs(r) /\ k.ra = "jump_to_user"
      BY <1>3, <2>1 DEF Kregs
    <3>2. p = <<>> /\ Len(p) = 0
      BY <1>7, <2>1, <3>1 DEF n
    <3>3. entry' = StackAt(next, 0)
      BY <1>1, <1>2, <1>8, <2>1, <3>1 DEF EntryAfterEret, OutsideTrap
    <3>4. pc'[next] = "code" /\ mode' = "USER" /\ (ints' \/ arch' = "riscv64")
      BY <1>8, <1>12, <2>1, <3>1 DEF q, UserRegs
    <3>5. RunsOutside'
      BY <1>8, <1>10, <3>1, <3>2, <3>4 DEF RunsOutside, OutsideTrap, taskmode
    <3>6. EntryConsistent'
      BY <1>8, <3>3, <3>4 DEF EntryConsistent, SwitchedBack
    <3> QED
      BY <1>8, <3>4, <3>5, <3>6 DEF Running
  <2>2. CASE ~toUser /\ OutsideTrap(next)
    <3>1. /\ next \in Kernel /\ next \notin User /\ (next = idle => pc[next] = "start") /\ h = 1
          /\ Len(s) = 1 /\ (k.ra = "scheduler" => next # idle) /\ n = 1
      BY <1>3, <2>2, ThreadAssumption DEF Kregs, OutsideTrap, InTrap, ThreadAssumption, n
    <3>2. p = <<>> /\ Len(p) = 0
      BY <1>7, <3>1
    <3>3. pc'[next] = pc[next] /\ (pc[next] = "start" <=> next = idle) /\ pc[next] \in {"start", "code"}
      BY <1>12, <2>2, <3>1 DEF q, OutsideTrap
    <3>4. mode' = "KERN" /\ ints' = FALSE /\ sp' = 0 /\ entry' = e
      BY <1>4, <1>8, <2>2, <3>1
    <3>5. RunsOutside'
      BY <1>8, <1>10, <2>2, <3>1, <3>2, <3>3, <3>4 DEF RunsOutside, OutsideTrap, taskmode
    <3>6. EntryConsistent'
      BY <1>2, <1>8, <3>1, <3>4 DEF EntryConsistent, SwitchedBack
    <3> QED
      BY <1>8, <1>10, <3>2, <3>4, <3>5, <3>6 DEF Running
  <2>3. CASE ~toUser /\ ~OutsideTrap(next)
    <3>1. /\ InTrap(next) /\ trapdepth[next] = 1 /\ h = 2 /\ Len(s) = 2 /\ Trapped(next, s)
          /\ k.ra = "scheduler" /\ n = 1
      BY <1>3, <2>3 DEF Kregs, n
    <3>2. Len(p) = 1 /\ p[1] = s[1]
      BY <1>7, <3>1
    <3>3. pc'[next] = "switched"
      BY <1>12, <3>1 DEF q, InTrap
    <3>4. mode' = "KERN" /\ ints' = FALSE /\ sp' = 1 /\ entry' = e
      BY <1>4, <1>8, <2>3, <3>1
    <3>5. Trapped(cur, pushed[cur])'
      BY <1>8, <1>10, <3>1, <3>2 DEF Trapped, UserRegs
    <3>6. RunsHandler'
      BY <1>8, <1>10, <3>1, <3>2, <3>3, <3>4, <3>5 DEF RunsHandler, InTrap
    <3>7. EntryConsistent'
      BY <1>2, <1>8, <3>1, <3>3, <3>4, ThreadAssumption
         DEF EntryConsistent, SwitchedBack, ThreadAssumption
    <3> QED
      BY <1>8, <1>10, <3>2, <3>4, <3>6, <3>7 DEF Running
  <2> QED
    BY <2>1, <2>2, <2>3
<1> QED
  BY <1>8, <1>9, <1>10, <1>12, <1>13, <1>14, <1>15, <1>16, <1>17, Zenon
(* A thread that calls scheduler() is suspended once its registers are saved. *)
LEMMA SavedIsSuspended ==
  ASSUME TrapInvariant, ~panicked, mode = "KERN",
         pc[cur] \in {"handler", "switched"} \/ cur # idle
  PROVE  /\ ints = FALSE /\ sp = Len(pushed[cur]) /\ sp \in 0 .. 1
         /\ Suspended(cur, Append(pushed[cur], Kregs("scheduler", FALSE)), sp + 1)
<1> DEFINE k == Kregs("scheduler", FALSE)
<1> DEFINE s == Append(pushed[cur], k)
<1>1. /\ TypeOK /\ Running /\ cur \in Thread /\ cur \in User \cup Kernel
      /\ pushed[cur] \in Seq(Frame) /\ sp = Len(pushed[cur]) /\ sp \in 0 .. 1
      /\ RunsOutside => sp = 0
  BY RunningFacts, Zenon
<1>2. k \in Frame
  BY FrameFacts
<1>3. /\ Len(s) = sp + 1
      /\ \A i \in 1 .. sp : s[i] = pushed[cur][i]
      /\ s[sp + 1] = k
  BY <1>1, <1>2, PushFacts, Zenon
<1> HIDE DEF s, k
<1>4. CASE RunsOutside
  <2>1. /\ OutsideTrap(cur) /\ cur \in Kernel /\ cur # idle /\ sp = 0 /\ ints = FALSE
    BY <1>1, <1>4 DEF RunsOutside, OutsideTrap, taskmode
  <2>2. Len(s) = 1 /\ s[1] = k
    BY <1>3, <2>1
  <2>3. Suspended(cur, s, sp + 1)
    <3>1. sp + 1 = 1
      BY <2>1
    <3> QED
      BY <2>1, <2>2, <3>1, Zenon DEF Suspended, k
  <2> QED
    BY <1>1, <2>1, <2>3 DEF s, k
<1>5. CASE RunsHandler
  <2>1. /\ InTrap(cur) /\ trapdepth[cur] = 1 /\ sp = 1 /\ ints = FALSE /\ Trapped(cur, pushed[cur])
    BY <1>1, <1>5 DEF RunsHandler, TypeOK
  <2>2. Len(s) = 2 /\ s[1] = pushed[cur][1] /\ s[2] = k
    BY <1>3, <2>1
  <2>3. Trapped(cur, s)
    BY <2>1, <2>2 DEF Trapped
  <2>4. Suspended(cur, s, sp + 1)
    BY <2>1, <2>2, <2>3 DEF Suspended, k
  <2> QED
    BY <1>1, <2>1, <2>4 DEF s, k
<1> QED
  BY <1>1, <1>4, <1>5 DEF Running

(* scheduler() saves the current thread and resumes any that is alive, itself *)
(* included.                                                                  *)
LEMMA SchedulerStep ==
  ASSUME TrapInvariant, ~panicked, NEW next \in Thread, scheduler(next)
  PROVE  TrapInvariant'
<1> DEFINE k == Kregs("scheduler", FALSE)
<1> DEFINE m == [kstack EXCEPT ![cur][sp + 1] = k]
<1> DEFINE frames == [pushed EXCEPT ![cur] = Append(@, k)]
<1> DEFINE saved == [saved_sp EXCEPT ![cur] = sp + 1]
<1>1. /\ ints = FALSE /\ sp = Len(pushed[cur]) /\ sp \in 0 .. 1
      /\ Suspended(cur, Append(pushed[cur], k), sp + 1)
  BY SavedIsSuspended DEF scheduler
<1>2. /\ TypeOK /\ cur \in Thread /\ pushed[cur] \in Seq(Frame)
      /\ \A i \in 1 .. sp : kstack[cur][i] = pushed[cur][i]
  BY <1>1, RunningFacts, Zenon
<1>3. k \in Frame
  BY FrameFacts
<1>4. /\ Append(pushed[cur], k) \in Seq(Frame) /\ Len(Append(pushed[cur], k)) = sp + 1
      /\ \A i \in 1 .. sp : Append(pushed[cur], k)[i] = pushed[cur][i]
      /\ Append(pushed[cur], k)[sp + 1] = k
  BY <1>1, <1>2, <1>3, PushFacts, Zenon
<1>5. /\ saved_sp' = saved /\ Resume(next, m, saved[next], frames) /\ alive[next]
      /\ UNCHANGED <<arch, alive, trapdepth, panicked>>
  BY <1>1, Zenon DEF scheduler
<1> HIDE DEF k
<1>6. /\ m \in [Thread -> [1 .. MAX_FRAMES -> Frame]]
      /\ \A i \in 1 .. sp : m[cur][i] = kstack[cur][i]
      /\ m[cur][sp + 1] = k
      /\ \A t \in Thread : t # cur => m[t] = kstack[t]
  <2>1. sp \in 0 .. 1 /\ cur \in Thread /\ kstack \in [Thread -> [1 .. MAX_FRAMES -> Frame]]
    BY <1>1, <1>2 DEF TypeOK
  <2> QED
    BY <1>3, <2>1 DEF MAX_FRAMES
<1>7. /\ frames \in [Thread -> Seq(Frame)] /\ frames[cur] = Append(pushed[cur], k)
      /\ \A t \in Thread : t # cur => frames[t] = pushed[t]
  BY <1>2, <1>4, Zenon DEF TypeOK
<1>8. /\ saved \in [Thread -> 0 .. MAX_FRAMES] /\ saved[cur] = sp + 1
      /\ \A t \in Thread : t # cur => saved[t] = saved_sp[t]
  BY <1>1, <1>2 DEF TypeOK, MAX_FRAMES
<1> HIDE DEF m, frames, saved
<1>9. ASSUME NEW t \in Thread, alive[t] PROVE Suspended(t, frames[t], saved[t])
  <2>1. CASE t = cur
    BY <1>1, <1>7, <1>8, <2>1, Zenon
  <2>2. CASE t # cur
    BY <1>7, <1>8, <1>9, <2>2, Zenon DEF TrapInvariant
  <2> QED
    BY <2>1, <2>2
<1>10. ASSUME NEW t \in Thread, alive[t], NEW i \in 1 .. Len(frames[t])
       PROVE  m[t][i] = frames[t][i]
  <2>1. CASE t = cur
    <3>1. i \in 1 .. sp \/ i = sp + 1
      BY <1>1, <1>4, <1>7, <2>1
    <3> QED
      BY <1>2, <1>4, <1>6, <1>7, <2>1, <3>1
  <2>2. CASE t # cur
    BY <1>6, <1>7, <1>10, <2>2 DEF TrapInvariant, StacksIntact
  <2> QED
    BY <2>1, <2>2
<1>11. /\ Suspended(next, frames[next], saved[next]) /\ alive'[next] /\ assertion
       /\ \A i \in 1 .. Len(frames[next]) : m[next][i] = frames[next][i]
  BY <1>5, <1>9, <1>10 DEF TrapInvariant
<1>12. UNCHANGED <<arch, trapdepth>>
  BY <1>5
<1>13. /\ cur' = next /\ kstack' = m /\ assertion' /\ Running'
       /\ mode' \in {"USER", "KERN"} /\ ints' \in BOOLEAN /\ sp' \in 0 .. MAX_FRAMES
       /\ entry' \in [thread : Thread, height : 0 .. MAX_FRAMES]
       /\ pc' \in [Thread -> {"start", "code", "handler", "switched"}]
       /\ pushed' \in [Thread -> Seq(Frame)]
       /\ \A i \in 1 .. Len(pushed'[next]) : m[next][i] = pushed'[next][i]
       /\ \A t \in Thread : t # next => pushed'[t] = frames[t] /\ pc'[t] = pc[t]
  BY <1>2, <1>5, <1>6, <1>7, <1>11, <1>12, ResumeStep, Zenon
<1>14. TypeOK'
  BY <1>2, <1>5, <1>6, <1>8, <1>13, Zenon DEF TypeOK
<1>15. StacksIntact'
  <2> SUFFICES ASSUME NEW t \in Thread, alive[t], NEW i \in 1 .. Len(pushed'[t])
               PROVE  kstack'[t][i] = pushed'[t][i]
    BY <1>5 DEF StacksIntact
  <2>1. CASE t = next
    BY <1>13, <2>1
  <2>2. CASE t # next
    BY <1>10, <1>13, <2>2
  <2> QED
    BY <2>1, <2>2
<1>16. ASSUME NEW t \in Thread, alive'[t], t # cur' PROVE Suspended(t, pushed[t], saved_sp[t])'
  <2>1. /\ Suspended(t, frames[t], saved[t]) /\ pushed'[t] = frames[t] /\ saved_sp'[t] = saved[t]
        /\ pc'[t] = pc[t] /\ trapdepth'[t] = trapdepth[t] /\ arch' = arch
    BY <1>5, <1>9, <1>13, <1>16
  <2> QED
    BY <2>1 DEF Suspended, OutsideTrap, InTrap, Trapped, UserRegs
<1> QED
  BY <1>5, <1>13, <1>14, <1>15, <1>16 DEF TrapInvariant

(* task_exit leaves a stack that nobody resumes, and resumes another thread.  *)
LEMMA ExitStep ==
  ASSUME TrapInvariant, ~panicked, NEW next \in Thread, task_exit(next)
  PROVE  TrapInvariant'
<1> DEFINE frames == [pushed EXCEPT ![cur] = <<>>]
<1>1. TypeOK /\ cur \in Thread /\ assertion /\ StacksIntact
  BY RunningFacts DEF TrapInvariant
<1>2. /\ next # cur /\ alive[next] /\ alive' = [alive EXCEPT ![cur] = FALSE]
      /\ Resume(next, kstack, saved_sp[next], frames)
      /\ UNCHANGED <<arch, saved_sp, trapdepth, panicked>>
  BY Zenon DEF task_exit
<1>3. <<>> \in Seq(Frame)
  BY EmptySeq
<1>4. /\ frames \in [Thread -> Seq(Frame)]
      /\ \A t \in Thread : t # cur => frames[t] = pushed[t]
  BY <1>1, <1>3, Zenon DEF TypeOK
<1>5. /\ alive' \in [Thread -> BOOLEAN] /\ ~alive'[cur]
      /\ \A t \in Thread : t # cur => alive'[t] = alive[t]
  BY <1>1, <1>2, Zenon DEF TypeOK
<1> HIDE DEF frames
<1>6. ASSUME NEW t \in Thread, alive'[t]
      PROVE  /\ Suspended(t, frames[t], saved_sp[t])
             /\ \A i \in 1 .. Len(frames[t]) : kstack[t][i] = frames[t][i]
  <2>1. t # cur /\ alive[t] /\ frames[t] = pushed[t]
    BY <1>4, <1>5, <1>6
  <2> QED
    BY <2>1, Zenon DEF TrapInvariant, StacksIntact
<1>7. kstack \in [Thread -> [1 .. MAX_FRAMES -> Frame]] /\ alive'[next] /\ UNCHANGED <<arch, trapdepth>>
  BY <1>1, <1>2, <1>5 DEF TypeOK
<1>8. /\ Suspended(next, frames[next], saved_sp[next])
      /\ \A i \in 1 .. Len(frames[next]) : kstack[next][i] = frames[next][i]
  BY <1>6, <1>7
<1>9. /\ cur' = next /\ kstack' = kstack /\ assertion' /\ Running'
      /\ mode' \in {"USER", "KERN"} /\ ints' \in BOOLEAN /\ sp' \in 0 .. MAX_FRAMES
      /\ entry' \in [thread : Thread, height : 0 .. MAX_FRAMES]
      /\ pc' \in [Thread -> {"start", "code", "handler", "switched"}]
      /\ pushed' \in [Thread -> Seq(Frame)]
      /\ \A i \in 1 .. Len(pushed'[next]) : kstack[next][i] = pushed'[next][i]
      /\ \A t \in Thread : t # next => pushed'[t] = frames[t] /\ pc'[t] = pc[t]
  BY <1>1, <1>2, <1>4, <1>7, <1>8, ResumeStep, Zenon
<1>10. TypeOK'
  BY <1>1, <1>2, <1>5, <1>9, Zenon DEF TypeOK
<1>11. StacksIntact'
  <2> SUFFICES ASSUME NEW t \in Thread, alive'[t], NEW i \in 1 .. Len(pushed'[t])
               PROVE  kstack'[t][i] = pushed'[t][i]
    BY DEF StacksIntact
  <2>1. CASE t = next
    BY <1>9, <2>1
  <2>2. CASE t # next
    BY <1>6, <1>9, <2>2
  <2> QED
    BY <2>1, <2>2
<1>12. ASSUME NEW t \in Thread, alive'[t], t # cur' PROVE Suspended(t, pushed[t], saved_sp[t])'
  <2>1. /\ Suspended(t, frames[t], saved_sp[t]) /\ pushed'[t] = frames[t] /\ saved_sp'[t] = saved_sp[t]
        /\ pc'[t] = pc[t] /\ trapdepth'[t] = trapdepth[t] /\ arch' = arch
    BY <1>2, <1>6, <1>9, <1>12
  <2> QED
    BY <2>1 DEF Suspended, OutsideTrap, InTrap, Trapped, UserRegs
<1> QED
  BY <1>2, <1>9, <1>10, <1>11, <1>12 DEF TrapInvariant

(* A fault of the kernel: its frame is the one the panic dumps, and lies over *)
(* the program's only in a call on riscv64 that was switched back to.         *)
LEMMA FaultStep == TrapInvariant /\ ~panicked /\ KernelFault => TrapInvariant'
<1> SUFFICES ASSUME TrapInvariant, ~panicked, KernelFault PROVE TrapInvariant'
  OBVIOUS
<1> DEFINE n == Len(pushed[cur])
<1> DEFINE h == IF SwitchedBack THEN 0 ELSE n
<1> DEFINE r == Regs(mode, IF mode = "KERN" THEN sp ELSE 0, ints)
<1>1. trap_entry /\ cur \in User /\ pc[cur] \in {"handler", "switched"} /\ panicked' = TRUE
  BY DEF KernelFault
<1>2. n \in 0 .. 1 /\ cur \in Thread /\ StacksIntact
  BY RunningFacts DEF TrapInvariant
<1>3. h \in 0 .. n /\ TrapStack = StackAt(cur, h) /\ (h # n => arch = "riscv64")
  <2>1. TrapStack = StackAt(cur, h) /\ h \in {0, n} /\ (h # n => SwitchedBack)
    BY TrapStackFacts, Zenon
  <2> QED
    BY <1>2, <2>1 DEF SwitchedBack
<1>4. arch' = arch /\ cur' = cur /\ alive' = alive
  BY <1>1, Zenon DEF trap_entry
<1> HIDE DEF h, n, r
<1>5. /\ TypeOK' /\ assertion' /\ (h = n => StacksIntact')
      /\ sp' = h + 1 /\ kstack'[cur][h + 1] = r
      /\ Len(pushed'[cur]) = n + 1 /\ pushed'[cur][n + 1] = r
      /\ \A t \in Thread : t # cur => kstack'[t] = kstack[t] /\ pushed'[t] = pushed[t]
  BY <1>1, <1>3, TrapEntryStep, Zenon DEF n, r
<1>6. kstack'[cur][sp'] = pushed'[cur][Len(pushed'[cur])]
  BY <1>5, Zenon
<1>7. ASSUME NEW t \in Thread, alive'[t], NEW i \in 1 .. Len(pushed'[t])
      PROVE  kstack'[t][i] = pushed'[t][i] \/ (FaultAtBase' /\ t = cur')
  <2>1. CASE t # cur
    BY <1>2, <1>4, <1>5, <1>7, <2>1 DEF StacksIntact
  <2>2. CASE h = n
    BY <1>5, <1>7, <2>2, Zenon DEF StacksIntact
  <2>3. CASE t = cur /\ h # n
    <3>1. sp' # Len(pushed'[cur])
      BY <1>2, <1>3, <1>5, <2>3
    <3> QED
      BY <1>1, <1>3, <1>4, <2>3, <3>1 DEF FaultAtBase
  <2> QED
    BY <2>1, <2>2, <2>3
<1>8. FramesAreKept'
  BY <1>4, <1>6, <1>7 DEF FramesAreKept
<1> QED
  BY <1>1, <1>5, <1>8 DEF TrapInvariant
-----------------------------------------------------------------------------
(* Every step keeps the invariant.                                            *)
LEMMA TrapNext == TrapInvariant /\ [Next]_vars => TrapInvariant'
<1> SUFFICES ASSUME TrapInvariant, [Next]_vars PROVE TrapInvariant'
  OBVIOUS
<1>1. ASSUME ~panicked, SyncTrap PROVE TrapInvariant'
  BY <1>1, TrapStep DEF SyncTrap
<1>2. ASSUME ~panicked, Interrupt PROVE TrapInvariant'
  <2>1. mode = "USER" \/ (cur = idle /\ pc[cur] = "code")
    BY <1>2, RunningFacts DEF Interrupt, Interruptible, Running, RunsOutside, RunsHandler
  <2> QED
    BY <1>2, <2>1, TrapStep DEF Interrupt
<1>3. ASSUME ~panicked, KernelFault PROVE TrapInvariant'
  BY <1>3, FaultStep
<1>4. ASSUME ~panicked, TrapReturn PROVE TrapInvariant'
  BY <1>4, TrapReturnStep
<1>5. ASSUME ~panicked, cpu_enable_ints PROVE TrapInvariant'
  BY <1>5, EnableStep
<1>6. ASSUME ~panicked, NEW t \in Thread, scheduler(t) PROVE TrapInvariant'
  BY <1>6, SchedulerStep
<1>7. ASSUME ~panicked, NEW t \in Thread, task_exit(t) PROVE TrapInvariant'
  BY <1>7, ExitStep
<1>8. ASSUME ~panicked, NEW t \in Thread, setup_user_thread(t) PROVE TrapInvariant'
  BY <1>8, SetupStep
<1>9. CASE UNCHANGED vars
  <2> USE <1>9 DEF vars
  <2>1. TypeOK' /\ assertion' /\ (StacksIntact => StacksIntact') /\ panicked' = panicked
    BY DEF TrapInvariant, TypeOK, StacksIntact
  <2>4. FramesAreKept => FramesAreKept'
    BY DEF FramesAreKept, FaultAtBase
  <2>2. Running => Running'
    BY DEF Running, RunsOutside, RunsHandler, EntryConsistent, SwitchedBack, OutsideTrap, InTrap,
           Trapped, UserRegs
  <2>3. \A t \in Thread : Suspended(t, pushed[t], saved_sp[t]) => Suspended(t, pushed[t], saved_sp[t])'
    BY StaysSuspended
  <2> QED
    BY <2>1, <2>2, <2>3, <2>4 DEF TrapInvariant
<1> QED
  BY <1>1, <1>2, <1>3, <1>4, <1>5, <1>6, <1>7, <1>8, <1>9, Zenon DEF Next, Halted

(* What lies on every kernel stack follows from where its thread is, in every *)
(* state that traps, switches, exits and faults can lead to.                  *)
THEOREM TrapInvariance == Spec => []TrapInvariant
BY TrapInit, TrapNext, PTL DEF Spec

(* No frame on the kernel stack of a live thread is overwritten, however many *)
(* threads trap, switch and exit, on any architecture, save by the fault that *)
(* the kernel panics on, and there only the faulting program's own.           *)
THEOREM StacksAreKept == Spec => []FramesAreKept
<1>1. TrapInvariant => FramesAreKept
  BY DEF TrapInvariant, StacksIntact, FramesAreKept
<1> QED
  BY <1>1, TrapInvariance, PTL

(* Where a trap would push its frame: a program enters the kernel on its own, *)
(* empty kernel stack, and kernel code on top of what it has pushed, save in  *)
(* a call on riscv64 that was switched back to; sscratch, tss.rsp0 and SP_EL1 *)
(* are never another thread's.                                                *)
THEOREM EntryIsOwn == Spec => []EntryStackIsOwn
<1>1. TrapInvariant => EntryStackIsOwn
  <2> SUFFICES ASSUME TrapInvariant, ~panicked
               PROVE  IF mode = "USER" THEN pushed[cur] = <<>> ELSE sp = Len(pushed[cur])
    BY TrapStackFacts DEF TrapInvariant, EntryStackIsOwn
  <2>1. CASE mode = "USER"
    BY <2>1, RunningFacts DEF RunsOutside
  <2>2. CASE mode # "USER"
    BY <2>2, RunningFacts DEF TypeOK
  <2> QED
    BY <2>1, <2>2
<1> QED
  BY <1>1, TrapInvariance, PTL

(* Interrupts are taken in programs and in idle's loop and nowhere else in    *)
(* the kernel: the assumption under which Sched makes kernel code one step.   *)
THEOREM InterruptsAreAsAssumed == Spec => []InterruptsAsAssumed
<1>1. TrapInvariant => InterruptsAsAssumed
  BY RunningFacts, ThreadAssumption
     DEF InterruptsAsAssumed, Interruptible, Running, RunsOutside, RunsHandler, OutsideTrap,
         InTrap, taskmode, ThreadAssumption
<1> QED
  BY <1>1, TrapInvariance, PTL

(* The asserts of the trap handlers, of thread_trap_enter and of              *)
(* thread_trap_exit never fail, and a switch finds the frame it pops.         *)
THEOREM TrapAssertionsHold == Spec => []AssertionsHold
<1>1. TrapInvariant => AssertionsHold
  BY DEF TrapInvariant, AssertionsHold
<1> QED
  BY <1>1, TrapInvariance, PTL
=============================================================================
