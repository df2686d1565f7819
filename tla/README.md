# Skybolt in TLA+

Skybolt is a small teaching kernel for one core, on x86_64, aarch64 and riscv64.
It has user and kernel tasks, a round robin scheduler with sleep and wakeup,
terminals on a serial line and on virtual displays, a ramdisk in tar format, a
PS/2 keyboard, a page heap and 4-level page tables. This directory models its
core logic in TLA+, model-checks it with TLC, shows that the detailed models
implement abstract ones, and proves with TLAPS, for every value of the
constants, every safety property that TLC checks on small instances and finds true.

Paths below are relative to the repository; `PROJECT.json` maps every
definition to the lines it models, and lists runs, mutants, findings, hazards
and theorems.

## The system and its parts

The concurrency of the kernel has one source. There is one core, and kernel
code runs with interrupts off, except for `thread_idle`. Kernel code therefore runs
undisturbed from one context switch to the next, and what interleaves is: user
code of the tasks, interrupts (timer, serial line, keyboard), and the points
where a thread calls `scheduler()` and comes back from it, possibly much later,
with everything else changed. The models take exactly these pieces as steps.

| Part | State | Operations | Talks to | What is hard | What makes it correct |
|---|---|---|---|---|---|
| Tasks and scheduler (`kernel/scheduler.c`, `task.c`, `sleep.c`, `thread.c`, `inc/list.h`) | `task_pool`, `task_list`, `cur_thread`; per task: state, sleep reason, parent, awaited child, exit code, pending signal, trap depth | init, spawn with and without wait, exit, free, reap, sleep, wakeup, scheduler, signals | every blocking call | state used after a context switch; slots that are reused; links that are removed during a walk; wakeups; fairness | pool and list agree; no pointer to a freed task; no lost wakeup; a wait ends with its child and returns its code; ready threads run; zombies are freed |
| Traps and system calls (`arch/*/trap.c`, `trap_entry.s`, `cswitch.s`, `kernel/syscall.c`, `exception.c`, `interrupt.c`) | trap depth, kernel stacks, entry stack (`sscratch`, `tss.rsp0`, `SP_EL1`), interrupt flag | entry, dispatch, return, first entry of a program | scheduler | the entry code must know which stack to use whatever switches came before; the interrupt flag belongs to the thread | saved frames survive; a program enters on its own stack; only programs and the idle thread are interrupted |
| Terminals (`kernel/tty.c`) | line buffer, cursor, `data_ready`, port | `tty_new_data`, `tty_readin`, `tty_writeout` | interrupts, sleep and wakeup, tasks (interrupt character) | keys between wakeup and read; several readers; a full buffer | what is shown is what is read; a line is delivered once and whole; a waiting line is read |
| Displays (`graphics/display.c`, `vuart.c`) | text buffer, cursor, dirty marks, active display, framebuffer | put, clear, switch, repaint, panic | terminals, keyboard, renderer thread | changes between repaint and sleep; scrolling; switches; panic in the middle | text is the tail of the output; repaint shows it; panic is shown |
| Heap and page tables (`kernel/kheap.c`, `vm.c`, `arch/*/pte.c`) | page bitmap, tables | alloc, free, map, unmap, walk, free the tree | task creation and reaping | failure half-way; reuse of pages; double free | one owner for each page; no leak; stable translations |
| Files and ramdisk (`kernel/file.c`, `stdio.c`, `fs/tar.c`) | file table, descriptors, positions | open, read, write, close, list, inherit | tasks, loader, terminals | shared consoles; failed loads; block boundaries | no shared or dangling descriptor; exact reads and listings |
| Loader and arguments (`kernel/elf.c`, `arg.c`, `copyio.c`) | none of their own | load, copy arguments, copy to and from user memory | heap, files | partial failure; ranges over pages of several sizes; copies that overlap | nothing is left behind; exactly the readable ranges are accepted; the program finds its words |
| PS/2 keyboard (`io/keyboard/*`) | decoder state between bytes | start-up, interrupt | displays | answers that come late; overlapping keys decoded late | nothing from before the start is decoded; a key means what it meant when it was pressed |
| Panic (`kernel/lib.c`) | `panic` flag | `_panic` | displays | strikes anywhere | is shown |
| Boot, platforms (`kernel/kmain.c`, `arch/*/start.s`, `platform/*`) | none kept | once, in order | all | nothing runs concurrently | leaves the initial state of the modules |
| Serial drivers, interrupt controllers (`io/serial/*`, `io/interrupt/*`, `kernel/serial.c`) | device registers | claim, complete, receive, send | terminals, traps | completion before the read; reads that time out; overruns | every byte that is received is read |
| CPU access (`arch/*/cpu.c`, `segment.c`) | the CPU's registers | entry stack, interrupt flag, saved mode | traps, scheduler | see traps | see traps |
| User programs (`user/shell.c`, `libc`) | none in the kernel | the shell splits a line | system calls | blanks at every place of a line | the words of the line are the arguments |
| Formatted output, fonts | none in the kernel | | | | outside the models |

## Modules

| Module | Models | Run by |
|---|---|---|
| `Sched` | tasks, scheduler, sleep/wakeup, spawn/wait/exit, traps, signals, and the flags of terminals and displays that threads wait for; extends `TaskOrder` | `MCSched` |
| `SchedProofs`, `ListProofs`, `TrapProofs`, `SerialProofs`, `FilesProofs`, `KeyboardProofs`, `DisplayProofs`, `MemoryProofs` | theorems about the modules they are named after; `SchedProofs` also about `Lifecycle`, `SerialProofs` about `Tty`, `KeyboardProofs` about `I8042`, `MemoryProofs` about `Args` | TLAPS |
| `Lifecycle` | abstract: what spawn, wait, exit and free promise; implemented by `Sched` | `MCSched` |
| `TaskOrder` | abstract: the list as membership and walk order; implemented by `List` | `MCList`, `MCSched` |
| `List` | the pointers of `list.h`, and the scheduler's loops over them one iteration at a time | `MCList` |
| `Trap` | trap entry and exit, kernel stacks, context switch and interrupt flag of riscv64, x86_64 and aarch64 | `MCTrap` |
| `Tty` | the line discipline of one terminal | `MCSerial` |
| `Serial` | UART and interrupt controller in front of the terminal; extends `Tty` | `MCSerial` |
| `Display` | text buffers, cursor, dirty marks, repaint, switch, panic | `MCDisplay` |
| `Memory` | page heap, page tables, what tasks allocate | `MCMemory` |
| `Args` | `access_ok`, argument page, the shell's splitting of a line; extends `Memory` | `MCMemory` |
| `Files` | file table, descriptors, consoles, tar archive | `MCFiles` |
| `Keyboard` | PS/2 bytes, decoder, keys | `MCKeyboard` |
| `I8042` | start-up of the keyboard controller; extends `Keyboard` | `MCKeyboard` |

`Sched` is the composition in which tasks, terminals and displays meet, reduced
to what a thread can wait for; `Tty` and `Display` open up what is behind the
flags and take from `Sched` that a woken thread runs in the end. `Sched` in turn
takes from `Trap` when interrupts can strike (`InterruptsAsAssumed`), and from
`List` that the links are the order it is written over (`ImplementsTaskOrder`,
`SchedulerTakesNext`).

### Sched

The variables are the fields of `task_t` and `thread_t`, one function over the
slots of the pool for each. `task_list` is the set of linked threads and
`after[t]` what a walk from `t` visits, so that `list_add` at the front and
`list_del` are set operations and `find_runnable_thread` is a choice of the first ready thread
after the current one. A thread's kernel stack is reduced to `kpc`, the call of
`scheduler()` it is in (`"timer"`, `"read"`, `"wait"`, ...) or the code it
runs.

`phase` says what the core does: `"run"` (the current thread executes its own
code), `"sched"` (it has called `scheduler()`; reaping and `switchto` are one
step), `"resume"` (back from `switchto`; the rest of the function that called
`scheduler()`, `task_handle_signals` first where the code has it), `"panic"`. Every
system call, exception, interrupt and kernel thread iteration is an action that
goes up to the next call of `scheduler()`.

User code is any sequence of system calls, exceptions and interrupts.

### Lifecycle

Neither scheduler nor sleep nor interrupts: a task exits once, the parent that
waits for it gets its code in the same step, the code stays until the parent has
taken it or has exited, and a slot is reused only after it was freed.
`Sched!ImplementsLifecycle` is the refinement, with `status` read off the
thread's state (`Status`) and `result` off `child_exit_code` while the parent is
in the call that will return it (`PendingResult`). A step of the scheduler frees
all zombies but the current thread, hence `Free(S)` for a set. `Progress` (an
exited task is freed, a result is taken) is checked as part of
`Sched!NobodyStarves`.

### List and TaskOrder

`List` has `next` and `prev` of each thread and of the head, `NULL` where
`list_del` leaves it. `reap_zombies` and both loops of `find_runnable_thread` are
steps of one iteration, so that a pointer is followed in the state that the
iteration before has left. `TaskOrder` is the refinement's target: its `after`
is what a walk visits, computed from the pointers by `Visited`.

### Trap

`arch` chooses the architecture, the actions are the same: what differs is where
the stack of a program comes from (`TrapStack`, `cpu_set_entry_kstack`,
`EntryAfterEret`), the saved flags (`init_user_regs`) and the asserts. Kernel
stacks are frames in memory with a height; entry, return, `cswitch` and
`jump_to_user` push and pop by height, so that a trap that takes the wrong stack
overwrites what is there. `pushed` is the history of what should be there. The
scheduler may choose any thread. `KernelFault` is a fault of the kernel's own code,
which is a panic; it may strike at any point of a call, before and after the call was
switched away from and back to.

### Tty

One terminal: `tty_new_data` is one key with its echo; `tty_readin` is split
where it sleeps. `line` is the history of what was typed since the last read, with
the deletions applied, and `shown` the row in which the terminal's cursor is: a
newline starts a new row, a NUL takes no cell, and `"\b \b"` takes off the last visible
character and undoes neither of the two. `stray` and `dropped` record that a deletion
has hit a newline or a NUL, and that the buffer was full; `entered` is the line when it
was ended. The interrupt character marks readers (`pending_sigint`): a woken reader is
ready and so is marked, one that sleeps is not, and of one outside `tty_readin` either may
be so. A marked reader exits when it is next scheduled, inside `sleep()` if that is
where it was, and another task may read in its place.

### Serial

A byte arrives in the receive register whenever it likes, the controller asks,
and the handler claims, completes and then reads, in three steps during which
the readers stand still and the line does not. The FIFOs are off, so a second
byte destroys one of the two. The controllers are external: the repository holds
the writes to their registers, the model what these ask for (edge triggered
entries of the IOAPIC, the GIC that follows the line, the PLIC's one request).

### Display

`display_putc` with its scrolling and dirty marks, `display_clear`, `display_switch`,
the renderer's iteration (`thread_display_update`) and `panic`, one step since it
runs with interrupts off. The framebuffer is a
function from cells to what they show; a cell stands for the pixels of a
character. `paper` is the output laid out on endless paper, the reference
against which the text buffer is checked. A repaint with the cursor below the frame,
where newlines alone take it, writes behind the framebuffer (`draw_line` has no bound);
what that does to the memory there is not known, so the model then stops
(`mode = "overrun"`).

### Memory

The heap is the set of used pages and the contents of those that are tables.
`map_page`, `unmap_page`, the walk and the recursive free of `vm.c` are operators on
it, their loops recursive functions; the free of a tree is over the paths of
indices that lead to its pages. A spawn and a reap are one step each, since they
run with interrupts off. The failing spawns stop where the code stops, with what
the code then frees.

### Args

Operators, as all of it runs within one system call: `access_ok` as the loop of
`copyio.c`, on numbers that wrap; `copyin_args` as a loop over the arguments that
writes into a page with old contents (`DIRT`); `SplitArgs` and `SplitBuf` for the
loop of the shell. They are checked against what they should compute (`Readable`, `Meant`) in
every address space that the spawns and reaps of `Memory` lead to. `Readable` is the rule
of the machine and not that of the code: a program may read what is mapped below
`BIT47` (`inc/arch/aarch64/defs.h:48-50`), a kernel thread also what is mapped in the upper
half, and nothing can be read in between (`Canonical`), although `walk_page` finds entries
for it.

### Files

`filetab`, `fds`, positions and directory walks; the archive is laid out in blocks
and the walk of `tar.c` moves from header to header over it. Reads return the
bytes' positions, so that a property can tell which bytes were read.

### Keyboard

`wire` holds the bytes the keyboard sent and the kernel has not read. `held`,
`meant` and `aimed` are what the typist did; `mods`, `is_letting_go`, `inputs`
and `active` what the kernel made of it. Scan codes are those of
`ps2_keyboard.c`, one for each case the decoder tells apart.

### I8042

`init_i8042` step by step, with polls that count up to `PS2_TIMEOUT`, a
controller that answers, never answers or takes no command, tests that fail, and
a keyboard that is absent, or answers the reset up to `DELAY` polls late. Then
`Keyboard` begins. Keys that are pressed during start-up are not modelled.

## Runs

| Run | Bounds | Shows |
|---|---|---|
| `sched_live` | 5 slots (3 for users), no display | dangling pointers, waits, lines; panics on a full pool are included. `Sched` implements `Lifecycle`; nobody starves: every ready thread runs, every exited task is freed and every result taken |
| `sched_display` | 6 slots, one display, interrupt character on its terminal, loads of the shell may fail | the inductive invariant of the proofs, repaints, assertions, who changes a thread's state |
| `sched_kill` | 4 slots, interrupt character on the serial line | a marked thread exits, or sleeps first; every ready thread is scheduled, marked or not |
| `list` | 5 threads | the ring in both directions, walks during deletion, `List` implements `TaskOrder`, what `scheduler()` picks |
| `trap` | 3 user threads, a root and the idle thread, 3 architectures; user threads are symmetric | frames, stacks, interrupts, assertions |
| `serial` | buffer of 3 bytes, 2 readers with reads shorter and longer than the buffer, a character, newline, delete and the interrupt character (the NULs come from timeouts), 3 controllers, lines of up to 4 characters | timeouts, received bytes, echo, buffer and delivery; a line that is waited for is read |
| `display` | two displays of 2 by 3 cells, the last line for the status; 5 cells of output to the first, none but backspaces to the second | text, repaint, switch, panic; output scrolls, and a panic's message by two lines at once; newlines leave the frame |
| `memory` | 28 pages of 8 bytes, tables of 2 entries, 2 tasks, programs of 1 or 2 pages; all addresses, ranges of 0, 2, 9 and 34 bytes; lines of up to 5 characters at 2 places | ownership, leaks, translations, the heap runs out; `access_ok` and the arguments |
| `files` | 3 files, 5 descriptors, 3 tasks (one root), blocks of 2 bytes; a full, an empty and a partial block | descriptors, leaks, consoles, reads, listings; the table fills up |
| `keyboard` | timeout of 4 polls, answers within 3, 2 kinds of leftovers; 4 presses, 4 bytes on the wire, both Shift keys, Control, letter, digits, sign | start-up, keys and modifiers |

Why the bounds are enough. A lost wakeup, a dangling pointer or a starved thread
needs a thread, the one it waits for and a third that interferes; `sched_live` has
five threads, with slots that are reused. The properties that the section on
proofs lists hold for all sizes. Buffer limits show at any size at which the buffer can
fill and be edited when full; the display needs a width of two to tell columns
from lines and enough output to scroll past its height, and a switch is right
when nothing of the other display stays. Switches between several displays among
the tasks are covered by the theorems, which hold for any number. Tables of two entries
still have shared and separate tables at every level, the two entries of level 4 are
the two halves of the address space, and ranges of 2, 9 and 34
bytes cross into the next page, cross a small page and cross a giant one (32 bytes). A
walk of five links has a current thread, one before and one behind it, and a
removed neighbour on either side; the trap's stacks need a thread that
interrupts, one that is interrupted and a third that has been switched away
from. Lines of five characters have blanks before, between, doubled and behind
words, and copies of four bytes overlap those that follow. `MAX_POS`,
`MAX_TEXT`, `MAX_PRESSES`, `MAX_WIRE`, `RANGE_LENS`, `BUF_OFFSETS`, `MAX_LINE` and
`INT_TTYS` are bounds for TLC, and those that count are guards of the actions;
`MAX_FRAMES` is never reached.

Deadlock is checked everywhere but in `keyboard`, where the typist may stop and
the start-up may be refused. A
machine that has panicked stutters (`Halted`).

Every property has a mutant: a changed form of one mapped definition, next to it
in the module and named after what it drops, under which TLC finds the property
violated.

### Fairness

`Sched!Fairness` is weak fairness of kernel steps and of the timer. Kernel code
runs with interrupts off and has no loop that waits, so it gets to its next call
of `scheduler()`. The timer is periodic on x86_64; on aarch64 and riscv64 it is
armed again when the interrupted thread comes back, and stays pending until
then, so it also goes off in whatever user code runs next. User code and devices
get no fairness. `sched_live` sets `SHELL_MAY_FAIL` to `FALSE`: a shell that never
loads makes `thread_root` retry for ever, with interrupts off (a listed hazard).
`Serial!FairSpec` assumes that a woken reader runs (`ReadyThreadRuns`, which `sched_live` checks
as part of `NobodyStarves` without the interrupt character and with three user tasks,
`sched_kill` as part of `InterruptKills` with it and on a smaller pool): strong fairness, since interrupt handlers keep it from running again and again
but never for good. Claim, completion and read are weakly fair: a handler runs to
its end, and a pending interrupt is taken as soon as a program or the idle
thread runs. The line itself and the readers' calls get no fairness.

## Findings

Two runs state what the sources say and TLC shows a behaviour that differs.

* `sched_kernel_exit`: the interrupt character also marks the terminal's root
  task when it is ready, for example just after its shell exited; the root task
  then exits and the terminal gets no shell again (`kernel/task.c:131`).
* `files_header`: spawning a directory or a device fails the assertion of
  `_tar_read` (`fs/tar.c:105`).

Behaviours of the models that surprise, and that the properties allow for:

* Erasing a newline that has not been read yet leaves `data_ready` set; the read
  may return 0 bytes, and the shell takes that for an error (`kernel/tty.c:62`).
  `LineIsDelivered` speaks of lines with nothing typed behind them. Nor does the echo
  undo the newline (`graphics/display.c:147`): behind it, and behind a NUL, which is stored
  but never shown (`graphics/display.c:140`), a deletion makes terminal and buffer differ
  until the next read. `EchoMatchesLine` excepts that (`stray`).
* A reader that a line has woken and that the interrupt character hits before it runs
  exits inside `sleep()` (`kernel/scheduler.c:105`), and the line stays in the buffer for the
  next reader. `WaitedLineIsRead` excepts the reader that is marked, and no other.
* A backspace into the line above, and output to a display that was cleared and
  not repainted since, change lines that the renderer does not repaint
  (`graphics/display.c:142`). `RepaintShowsText` excepts displays in `missed`.
* Newlines alone do not scroll, and take the cursor past the text until a
  printing character scrolls it back (`graphics/display.c:152`). Past the last line of the
  frame a repaint writes behind the framebuffer: `draw_char` and `draw_block` check their
  line (`graphics/display.c:26,51`), `draw_line` does not (`graphics/display.c:69,100`).
  `RepaintShowsText` promises nothing after such a repaint.
* On riscv64 a thread that is switched back to in the middle of a system call
  runs with its stack base in `sscratch`; the comment in `trap_entry.s:12-13` says "While
  running kernel code, sscratch holds 0." Interrupts are off, but a fault of the
  kernel in that stretch is taken for one of the program, and its frame goes to the
  base of the stack, over the frame of the program. `tty_readin` sleeps and then
  writes to memory of the program, and what `access_ok` accepts may fault (see below).
  `EntryStackIsOwn` says where the trap pushes in this case, and `FramesAreKept` excepts
  the stack of the faulting thread on riscv64 after such a fault, and nothing else.
* The interrupt is completed before the byte is read. The PLIC then asks a second
  time, the read times out, and the terminal gets a NUL behind the byte
  (`TimeoutsAreSpurious` allows one there and none on the other controllers).
* `access_ok` accepts a range whose end wraps, since its loop then ends at once
  (`kernel/copyio.c:8`), and, for a program, mapped addresses from `BIT47` to `BIT48`
  (`inc/vm.h:10`), which walk to the kernel's giant pages, while the user's half ends at
  `BIT47` (`inc/arch/aarch64/defs.h:48-50`). `AccessOkIsExact` shows that for a program these
  are the only ranges on which it is wrong. For a kernel thread it also leaves out the
  last giant page, behind which the cursor wraps.
* The shell's line may have more words than `TASK_MAX_ARGS` allows for, or words
  as long as `TASK_ARG_LEN`; `ArgsArePassed` speaks of fewer and shorter ones.
* A refused program's file stays open (`kernel/task.c:69`; `OnlyRefusedProgramsLeak`).

Read but not run: `stoul_octal` accepts the digit 8 (`fs/tar.c:27`); the comment
at `kernel/vm.c:77-79` notes that a large mapping over existing tables leaks them;
no code in the repository does that.

## Proofs

Each theorem holds for every value of the constants that satisfies the
assumptions of its module, the bounds of TLC (`MAX_POS`, `MAX_WIRE`, ...) among
them. The assumptions say that sizes are natural numbers, that the pool has room
for the kernel's own tasks, the screen for a line and the status line, and that
`NULL`, `NONE` and `HEAD` are none of the values they stand beside, that a line of
the shell (1024 bytes in the code) lies on one page and the copy of an argument (128) fits
one, and that tables have an even number of entries.
The inductive invariants were checked with TLC on the instance of the module's run
before they were proved, but for `MemInvariant`, which says that trees exist.

**Scheduler** (`SchedProofs`). `SchedInvariance`, and from it `TypeCorrect`,
`ListCorrect`, `NoUseAfterFree`, `ChildWakeup`, `LineWakeup`, `RepaintWakeup`,
`ZombiesBounded`, `AssertionsNeverFail`, and the action properties `OwnState` and
`WaitEnds`. None of these properties is inductive alone. That a parent's wakeup is
not lost needs that a sleeping parent is in the call it sleeps for, that the
awaited child is not yet a zombie, and that a zombie is at the end of `task_exit`;
that the current task is not freed needs that it is no zombie when `reap_zombies`
runs for another thread. `Consistent` states this agreement: for each task, between
state, sleep reason, mode, trap depth and `kpc` (`TaskConsistent`); for the idle
task, which is always ready and so makes the search for a thread succeed
(`IdleConsistent`); and for the current thread and the phase
(`CurrentConsistent`). `SchedInvariant` is `TypeOK`, `Consistent` and the
properties, with one lemma for each conjunct and a step for each action. TLC
checks it as an invariant of `sched_display`.

**Lifecycle** (`SchedProofs`). `LifecycleRefinement`: `Sched` implements
`Lifecycle`, each action of the one as a step of the other or a stutter, from
`SchedInvariant`. The step that needs most is `task_exit`: that the parent gets the
code rests on the parent being the only thread that waits for the child and being
asleep in that call.

**List** (`ListProofs`). `WalksStayOnRing`. Links that agree in both directions are
not enough, as threads might form a second ring that no walk of the list meets.
`OneRing` says without recursion that there is none: no set of threads without the
head is closed under `next`.
`ListImplementsOrder` and `TakesNext`. `Visited` follows the links as often as there are
threads; by induction on that number it is the least set that is closed under
`next` (`VisitedIsWalk`), and all the rest is about such sets: what a walk does not
visit may change (`WalkKept`), and taking a thread out of the ring takes it out of
every walk (`WalkDeleted`). `WholeRing` needs `OneRing` and both directions.
`OrderInvariant` adds what the loops have not passed over yet (`LoopsMissNothing`).

**Traps** (`TrapProofs`). `TrapInvariance`, `StacksAreKept`, `EntryIsOwn`,
`InterruptsAreAsAssumed`, `TrapAssertionsHold`, on all three architectures.
`TrapInvariant` says what is on the stack of a thread that is switched from
(`Suspended`), one case for each of the ways to get there, and what the entry
register and the interrupt flag are for the thread that runs (`Running`). The
stacks in memory are those of the history (`StacksIntact`) only because entry
code picks the right one, and it does only because of what the stacks hold. A kernel
fault ends this: `FramesAreKept` then says what is left (`FaultStep`), and where the
fault was pushed follows from what the entry register is in each place the thread can
be in (`EntryConsistent`, `TrapStackFacts`), on riscv64 the stack base after a switch
back.

**Serial line and terminal** (`SerialProofs`). `InterruptFindsItsByte` from
`PortInvariant`: what controller, register and handler can be in together.
`EchoIsTheLine`, and `LinesAreDelivered`, an action property, from `LineInvariant`:
a line that was entered is what was typed. That the row stays the visible part of the
line under echo and deletion is counting of visible characters (`IsRow`), with finite
sets and their cardinalities.

**Files** (`FilesProofs`). `FilesInvariance`, `DescriptorSoundness`, `ConsolesStay`,
`LeaksAreRefusals`. A file that is held is open (`HeldIsOpen`) and held once unless it
is a console (`HeldOnce`), and one that is open is held or leaked (`OpenIsHeld`): each
of them needs the others when a task exits and its files are closed.
`ReadsInOrder` and `ListingIsWhole` from `ContentsInvariant`, for any archive in which each
name is once (`DiskAssumption`): a regular file that is open is one of the archive
and was read up to its position (`IsSound`). Below it are the lemmas on the archive:
rounding up gives the blocks that the tar format uses (`RoundUp`), so that each
step of a walk goes from one header to the next (`HeaderFacts`), and by induction
`tar_open` finds every file under its name (`FindsFile`) and `tar_getdents` the entry of
every number, and none behind the last (`FindsEntry`).

**Keyboard** (`KeyboardProofs`). `StartUpDrains` from `BootInvariant`: the polls that
the loops have counted are bounded by those since the last answer, so they do not
give up on a keyboard that answers within `DELAY`. `NoModifierSticks` from
`KeyInvariant`: the last byte of a modifier that is under way tells whether the key is
down. `KeysAreReceived` from `MeantInvariant`: there is a run of the decoder over the
bytes on the wire that ends with what the typist meant, and reading a byte is its
first step.

**Displays** (`DisplayProofs`). `TextIsWindow` from `TextInvariant`: besides the text
being the window on the paper, nothing is on the status line, which scrolling
copies up and never erases. `RepaintIsComplete` from `RepaintInvariant`: the lines that
the marks leave out are right on the screen already, and there is nothing below
the line of the cursor, as long as no repaint has left the frame. `PanicMessageShown`, with the same lemma on repaints. The
loops (scrolling until the cursor is above the status line, printing a message)
are recursive functions; what they compute is proved by induction from the least
counterexample (`Least`, `Induction`), with the well-founded order on the natural
numbers from the library.

**Memory** (`MemoryProofs`). `PagesAreNotShared`, `PagesAreNotLost`,
`PanicsAreOutOfMemory` and `TranslationsAreKept`, from `MemInvariant`. The properties
are about pages and translations that walks of the tables compute, and none of them
says what the tables look like. `MemInvariant` does: every live task has a tree
(`IsTree`), a function from paths of indices to pages, one page for each path,
in which an entry leads to the page of the longer path or is a giant page of the
kernel; its leaves are the mappings the task was given (`MapsTree`); and the trees,
the stacks and the pages of boot are disjoint and together the pages in use (`Trees`).
A heap that has panicked has no free page (`Exhausted`).
The lemmas follow the functions of the code. A walk of `map_page` grows the tree by the
tables it lacks (`Grown`), so that a spawn, up to where it stops, leaves an address space
in the making or an exhausted heap (`Building`); the paths in the tree are those
that `free_pagetable` finds (`PagesOfTree`), so it frees each page once and no other
(`TaskFreed`), and a spawn that failed leaves the heap as it was (`RolledBack`).

**User memory and arguments** (`MemoryProofs`). `AccessOkIsCorrect`: where a walk ends in
a tree (`WalkEnds`) depends only on the address of the page it ends in (`SamePage`), and
the cursor then goes on to the first byte behind that page (`CursorMoves`); by
induction from the end of the range the loop accepts what is mapped byte by byte
(`LoopComputes`). A program's cursor stops at `BIT48` and never wraps; a kernel thread's
may, behind the last giant page, and run in a circle: the recursive function of the loop
still exists, as the greatest fixed point (`LoopExists`). Among addresses that the machine
has, below `BIT48` is below `BIT47` (`HalfFacts`), which makes the code's rule the machine's.
`ArgumentsArePassed`: the shell's loop finds each place where a word begins, once and
in order (`SplitFacts`); the bytes copied for them lie in the user's half
(`StackPageIsLow`, `ArgInRange`); the words of the reference definition `Meant` are those at
these places (`WordsOfLine`) and have the same numbers (`MeantFacts`); a turn of the loop
of `copyin_args` overwrites what the last copy wrote behind the end of its string, and
leaves the strings themselves whole (`CopyFacts`), since the next one begins behind
that end (`NextStringFacts`).

Only model-checked is liveness (`NobodyStarves`, `InterruptKills`, `WaitedLineIsRead`,
`ByteIsRead`): fairness is out of the prover's reach.

## Not modelled

* The assembly before `kmain` and the platform tables: they run once, alone.
* Registers and set-up of the UARTs and interrupt controllers; sending on the
  serial line, which waits for the transmitter and keeps no state
  (`uart16550_has_data` and `pl011_has_data` are never called).
* Large pages (one for each display, never freed), permission and cache bits.
* `printf`, fonts, string helpers other than `strlen`; contents of programs.
* Scan codes beyond those `ps2_keyboard.c` names, and keys during start-up.
* User programs other than the shell's splitting of a line: `Sched` and `Files`
  allow any sequence of system calls.

## Plan

Done, in this order: `Sched` with its proofs, `Tty`, `Display`, `Memory`, `Files`,
`Keyboard`; then `Lifecycle`, `TaskOrder` and `List` with their refinements,
`Trap` for all architectures, `Serial`, `Args`, `I8042`.

Then the proofs: `Sched` and its refinement of `Lifecycle`, `Trap`, `Serial` and `Tty`,
`Files`, `I8042` and `Keyboard`, `List`, `Display`, `Memory` and `Args`. Every safety
property that a passing run checks is now a theorem.

What is left is outside the models: the room in the argument page, which no property
speaks of, large pages, and the set-up of the devices.
