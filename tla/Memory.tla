------------------------------- MODULE Memory -------------------------------
(***************************************************************************)
(* The kernel heap's small pages and the address spaces built from them:   *)
(* kheap.c, vm.c, and what task.c, thread.c, elf.c and arg.c allocate, map *)
(* and free when a task is created, fails to be created, or is reaped.     *)
(* Creating a task and freeing one run with interrupts off and without a   *)
(* context switch, so each is one step.                                    *)
(*                                                                         *)
(* A page is its index in the heap.  A virtual address is the sequence of  *)
(* its table indices, from level 4 down; a table is a page whose memory    *)
(* holds entries.  Giant pages of the kernel's direct map have no backing  *)
(* page in the heap.                                                       *)
(***************************************************************************)
EXTENDS Naturals, Sequences, FiniteSets, SequencesExt

CONSTANTS
  KHEAP_NUM_SMALL_PAGES,
  NUM_PT_ENTRIES,
  KERN_L4,          \* level 4 indices of the kernel's maps (link address, devices, framebuffer)
  MAX_TASKS,
  MAX_TEXT,         \* bound: pages of a program's segment
  NULL

Page == 0 .. KHEAP_NUM_SMALL_PAGES - 1
Index == 0 .. NUM_PT_ENTRIES - 1
Task == 1 .. MAX_TASKS

N_PAGETABLE_LEVELS == 4
Walk == [table : Page, index : Index, depth : 1 .. N_PAGETABLE_LEVELS]
GiantLevel == 2       \* indices in the address of a giant page

ASSUME MemoryAssumption ==
  /\ KHEAP_NUM_SMALL_PAGES \in Nat \ {0}
  /\ NUM_PT_ENTRIES \in Nat /\ NUM_PT_ENTRIES >= 2
  /\ KERN_L4 \subseteq Index \ {0}
  /\ MAX_TASKS \in Nat \ {0}
  /\ MAX_TEXT \in 1 .. NUM_PT_ENTRIES
  /\ NULL \notin Nat \cup Walk

(* The addresses in use: the program's segment at the bottom, the argument  *)
(* page and the stack in the giant page above it, under different tables.   *)
TextVa(i) == <<0, 0, 0, i>>
DEFAULT_ARG_LOCATION == <<0, 1, 0, 0>>
DEFAULT_USER_STACK == <<0, 1, 1, 0>>
KernelVa == KERN_L4 \X Index
UserVa == {TextVa(i) : i \in 0 .. MAX_TEXT - 1} \cup {DEFAULT_ARG_LOCATION, DEFAULT_USER_STACK}

(* Page table entries: the heap page (or giant page) they point to. *)
GIANT == NULL
Invalid == [valid |-> FALSE, leaf |-> FALSE, phys |-> NULL]
Pte == [valid : BOOLEAN, leaf : BOOLEAN, phys : Page \cup {GIANT}]
ZeroTable == [i \in Index |-> Invalid]

VARIABLES
  heap,     \* [used: the allocated pages, mem: what each page holds as a table,
            \*  panic: alloc_page or free_page has panicked]
  task,     \* per slot: [valid, taskmode, pagetable, kstack_pg]
  maps      \* history: the user mappings each task was given

vars == <<heap, task, maps>>

Mode == {"MODE_KERN", "MODE_USER"}
NoTask == [valid |-> FALSE, taskmode |-> "MODE_KERN", pagetable |-> NULL, kstack_pg |-> NULL]

TypeOK ==
  /\ heap.used \subseteq Page
  /\ heap.mem \in [Page -> [Index -> Pte]]
  /\ heap.panic \in BOOLEAN
  /\ task \in [Task -> [valid : BOOLEAN, taskmode : Mode,
                        pagetable : Page \cup {NULL}, kstack_pg : Page \cup {NULL}]]
  /\ \A t \in Task : DOMAIN maps[t] \subseteq UserVa

-----------------------------------------------------------------------------
(* kheap.c.  The operators from here on map a heap to a heap. *)

Free(h) == Page \ h.used
Lowest(S) == CHOOSE p \in S : \A q \in S : p <= q

(* alloc_page: the first free page, or a panic. *)
PageOf(h) == IF Free(h) = {} THEN 0 ELSE Lowest(Free(h))
alloc_page(h) == IF Free(h) = {} THEN [h EXCEPT !.panic = TRUE]
                                 ELSE [h EXCEPT !.used = @ \cup {PageOf(h)}]

(* free_page of every page of a family: a page outside the heap, or one     *)
(* that is free already, is a panic.                                        *)
free_pages(h, ps) ==
  [h EXCEPT !.used = @ \ Range(ps),
            !.panic = @ \/ ~(Range(ps) \subseteq h.used) \/ ~IsInjective(ps)]

-----------------------------------------------------------------------------
(* vm.c *)

(* Mutant: the page is not zeroed, and keeps the entries of an earlier table. *)
alloc_pagetable_dirty(h) == alloc_page(h)

alloc_pagetable(h) == [alloc_page(h) EXCEPT !.mem[PageOf(h)] = ZeroTable]

(* The tables map_page goes through for va, and the heap after it has       *)
(* filled in the missing ones.                                              *)
TableFor(h, root, va) ==
  LET at[l \in 1 .. Len(va)] ==
        IF l = 1 THEN [heap |-> h, table |-> root]
        ELSE LET w == at[l - 1]
                 e == w.heap.mem[w.table][va[l - 1]]
                 new == [valid |-> TRUE, leaf |-> FALSE, phys |-> PageOf(w.heap)]
             IN  IF e.valid THEN [heap |-> w.heap, table |-> e.phys]
                 ELSE [heap |-> [alloc_pagetable(w.heap) EXCEPT !.mem[w.table][va[l - 1]] = new],
                       table |-> new.phys]
  IN  at[Len(va)]

map_page(h, root, va, pa) ==
  LET w == TableFor(h, root, va)
  IN  [w.heap EXCEPT !.mem[w.table][va[Len(va)]] = [valid |-> TRUE, leaf |-> TRUE, phys |-> pa]]

(* walk_page: the entry of the leaf that va goes through and the number of  *)
(* indices that lead to it, or NULL at the first invalid entry.             *)
walk_page(h, root, va) ==
  LET at[l \in 1 .. Len(va)] ==
        IF l = 1 THEN [table |-> root, index |-> va[1], depth |-> 1]
        ELSE LET e == IF at[l - 1] = NULL THEN Invalid ELSE h.mem[at[l - 1].table][at[l - 1].index]
             IN  IF ~e.valid THEN NULL
                 ELSE IF e.leaf THEN at[l - 1] ELSE [table |-> e.phys, index |-> va[l], depth |-> l]
      end == at[Len(va)]
  IN  IF end = NULL \/ ~h.mem[end.table][end.index].valid THEN NULL ELSE end

translate_page(h, root, va) ==
  LET w == walk_page(h, root, va)
  IN  IF w = NULL THEN NULL ELSE h.mem[w.table][w.index].phys

unmap_page(h, root, va) ==
  LET w == walk_page(h, root, va)
  IN  IF w = NULL THEN h ELSE [h EXCEPT !.mem[w.table][w.index].valid = FALSE]

(* The direct maps.  The order in which their pages are mapped only decides *)
(* which pages the tables get.                                              *)
KernelSeq == SetToSeq(KernelVa)

map_kernel(h, root) ==
  LET done[i \in 0 .. Len(KernelSeq)] ==
        IF i = 0 THEN h ELSE map_page(done[i - 1], root, KernelSeq[i], GIANT)
  IN  done[Len(KernelSeq)]

unmap_kernel(h, root) ==
  LET done[i \in 0 .. Len(KernelSeq)] ==
        IF i = 0 THEN h ELSE unmap_page(done[i - 1], root, KernelSeq[i])
  IN  done[Len(KernelSeq)]

(* _free_pagetable_recursive: the pages it frees, by the indices that lead  *)
(* to them.  At level 1 every valid entry is a leaf, above it leaves have   *)
(* no page of their own.                                                    *)
Path == BoundedSeq(Index, N_PAGETABLE_LEVELS)

PagesUnder(h, root) ==
  LET page[p \in Path] ==
        IF p = <<>> THEN root
        ELSE LET table == page[Front(p)]
                 e == IF table = NULL THEN Invalid ELSE h.mem[table][Last(p)]
             IN  IF e.valid /\ (e.leaf => Len(p) = N_PAGETABLE_LEVELS) THEN e.phys ELSE NULL
  IN  [p \in {q \in Path : page[q] # NULL} |-> page[p]]

free_pagetable(h, root) == free_pages(h, PagesUnder(h, root))

-----------------------------------------------------------------------------
(* task.c, thread.c, elf.c, arg.c *)

(* The new address space of create_empty_task, and its root. *)
NewSpace(h) == map_kernel(alloc_pagetable(h), PageOf(h))

(* Map a fresh page at va; maps gathers where the pages went. *)
MapFresh(w, root, va) ==
  [heap |-> map_page(alloc_page(w.heap), root, va, PageOf(w.heap)),
   maps |-> [v \in DOMAIN w.maps \cup {va} |-> IF v = va THEN PageOf(w.heap) ELSE w.maps[v]]]

load_seg(h, root, n) ==
  LET done[i \in 0 .. n] == IF i = 0 THEN [heap |-> h, maps |-> <<>>]
                            ELSE MapFresh(done[i - 1], root, TextVa(i - 1))
  IN  done[n]

(* Mutant: the kernel stack is not freed. *)
free_task_keeps_stack(h, t) == free_pagetable(unmap_kernel(h, t.pagetable), t.pagetable)

(* Mutant: a kernel stack is freed even if there is none. *)
free_task_frees_null(h, t) ==
  free_pages(free_pagetable(unmap_kernel(h, t.pagetable), t.pagetable), <<t.kstack_pg>>)

(* free_task: the address space, then the kernel stack if there is one. *)
free_task(h, t) ==
  LET g == free_pagetable(unmap_kernel(h, t.pagetable), t.pagetable)
  IN  IF t.kstack_pg = NULL THEN g ELSE free_pages(g, <<t.kstack_pg>>)

Panicked == heap.panic

FreeSlot(t) == ~task[t].valid /\ \A u \in Task : u < t => task[u].valid

(* task_spawn_user of a program with a segment of n pages, up to the point  *)
(* where copyin_args fails or the task is linked: the address space, the    *)
(* segment, the kernel stack, the user stack, the argument page.            *)
Spawned(h, n) ==
  LET root == PageOf(h)
      loaded == load_seg(NewSpace(h), root, n)
      kstack == PageOf(loaded.heap)
      stacked == MapFresh([loaded EXCEPT !.heap = alloc_page(@)], root, DEFAULT_USER_STACK)
      all == MapFresh(stacked, root, DEFAULT_ARG_LOCATION)
  IN  [heap |-> all.heap,
       maps |-> all.maps,
       task |-> [valid |-> TRUE, taskmode |-> "MODE_USER", pagetable |-> root, kstack_pg |-> kstack]]

SpawnUser(t, n) ==
  /\ ~Panicked
  /\ FreeSlot(t)
  /\ LET s == Spawned(heap, n)
     IN  /\ heap' = s.heap
         /\ task' = [task EXCEPT ![t] = IF s.heap.panic THEN @ ELSE s.task]
         /\ maps' = [maps EXCEPT ![t] = IF s.heap.panic THEN @ ELSE s.maps]

(* An argument could not be copied: the new task is freed. *)
SpawnBadArgs(t, n) ==
  /\ ~Panicked
  /\ FreeSlot(t)
  /\ LET s == Spawned(heap, n)
     IN  heap' = IF s.heap.panic THEN s.heap ELSE free_task(s.heap, s.task)
  /\ UNCHANGED <<task, maps>>

(* load_elf refuses the file: the empty task is freed, it has no stack yet. *)
SpawnBadElf(t) ==
  /\ ~Panicked
  /\ FreeSlot(t)
  /\ LET h == NewSpace(heap)
         new == [NoTask EXCEPT !.valid = TRUE, !.pagetable = PageOf(heap)]
     IN  heap' = IF h.panic THEN h ELSE free_task(h, new)
  /\ UNCHANGED <<task, maps>>

(* reap_zombies frees a task that has exited. *)
Reap(t) ==
  /\ ~Panicked
  /\ task[t].valid
  /\ heap' = free_task(heap, task[t])
  /\ task' = [task EXCEPT ![t] = NoTask]
  /\ maps' = [maps EXCEPT ![t] = <<>>]

(* init_vm, the terminal's buffer and a kernel task: an address space that  *)
(* is never given back, a page of data, an address space with a stack.      *)
EmptyHeap == [used |-> {}, mem |-> [p \in Page |-> ZeroTable], panic |-> FALSE]
BootHeap == alloc_page(NewSpace(EmptyHeap))
BootTask ==
  [valid |-> TRUE, taskmode |-> "MODE_KERN",
   pagetable |-> PageOf(BootHeap), kstack_pg |-> PageOf(NewSpace(BootHeap))]

Init ==
  /\ heap = alloc_page(NewSpace(BootHeap))
  /\ task = [t \in Task |-> IF t = 1 THEN BootTask ELSE NoTask]
  /\ maps = [t \in Task |-> <<>>]

Halted == Panicked /\ UNCHANGED vars

Next ==
  \/ \E t \in Task : \/ \E n \in 1 .. MAX_TEXT : SpawnUser(t, n) \/ SpawnBadArgs(t, n)
                     \/ SpawnBadElf(t)
                     \/ Reap(t)
  \/ Halted

Spec == Init /\ [][Next]_vars

-----------------------------------------------------------------------------
Live == {t \in Task : task[t].valid}

(* The pages of a task: its tables and the pages it maps, its kernel stack. *)
Tree(t) == PagesUnder(heap, task[t].pagetable)
Stack(t) == {task[t].kstack_pg} \ {NULL}
Owned(t) == Range(Tree(t)) \cup Stack(t)

(* No page is handed out twice: a task's tables, mapped pages and stack are *)
(* all different pages, allocated, and no page of another task or of the    *)
(* boot's.                                                                  *)
PagesHaveOneOwner ==
  /\ TypeOK
  /\ ~Panicked =>
       /\ \A t \in Live : /\ IsInjective(Tree(t))
                          /\ Stack(t) \cap Range(Tree(t)) = {}
                          /\ Owned(t) \subseteq heap.used \ BootHeap.used
       /\ \A t \in Live, u \in Live : t # u => Owned(t) \cap Owned(u) = {}

(* Nothing leaks: every allocated page belongs to a live task or to the     *)
(* boot, whatever spawns failed and whatever tasks were reaped before.      *)
NoPageLeaks ==
  ~Panicked => heap.used = BootHeap.used \cup UNION {Owned(t) : t \in Live}

(* alloc_page and free_page panic only when the heap is exhausted: freeing  *)
(* a task never frees a page twice or one outside the heap.                 *)
OnlyOutOfMemoryPanics == Panicked => Free(heap) = {}

(* An address translates to the page it was mapped to for as long as the    *)
(* task lives, and every other user address is unmapped, whatever other     *)
(* tasks and reused tables held.                                            *)
TranslationIsStable ==
  ~Panicked =>
    \A t \in Live, va \in UserVa :
      translate_page(heap, task[t].pagetable, va)
        = IF va \in DOMAIN maps[t] THEN maps[t][va] ELSE NULL
=============================================================================
