------------------------------- MODULE Files -------------------------------
(***************************************************************************)
(* The table of open files, the descriptors of the tasks, and the two file *)
(* systems behind them: the consoles, shared by all tasks, and the tar     *)
(* archive of the ramdisk (file.c, stdio.c, tar.c, the file system calls   *)
(* of syscall.c, and the files task.c opens, inherits and closes).  What a *)
(* read of a console waits for is in Tty and Sched.                        *)
(***************************************************************************)
EXTENDS Naturals, Sequences

CONSTANTS
  NUM_FILES, TASK_NUM_FILES, MAX_TASKS,
  DEVICES,         \* the paths of the consoles: the serial line and the displays
  DISK,            \* the archive: a sequence of [name, size, is_elf]
  TAR_BLOCKSIZE,
  READ_LENS,       \* lengths passed to sys_read
  NULL

File == 0 .. NUM_FILES - 1
Fd == 0 .. TASK_NUM_FILES - 1
Task == 1 .. MAX_TASKS
NUM_CONSOLES == Len(DEVICES)
Console == 0 .. NUM_CONSOLES - 1     \* their files are the first ones allocated
Stdio == {0, 1, 2}                   \* FD_STDIN, FD_STDOUT, FD_STDERR

Name == {DISK[i].name : i \in DOMAIN DISK}
Device == {DEVICES[i] : i \in DOMAIN DEVICES}
Path == Name \cup Device \cup {"/", "missing", "/dev/null", "/dev/unknown"}

ASSUME FilesAssumption ==
  /\ NUM_FILES \in Nat
  /\ NUM_CONSOLES \in 1 .. NUM_FILES
  /\ TASK_NUM_FILES \in Nat /\ TASK_NUM_FILES > 3
  /\ MAX_TASKS \in Nat \ {0}
  /\ TAR_BLOCKSIZE \in Nat \ {0}
  /\ READ_LENS \subseteq Nat
  /\ NULL \notin Nat

(* The files of the archive come from one directory (user/Makefile), so each *)
(* name is there once.                                                       *)
ASSUME DiskAssumption ==
  /\ DISK \in Seq([name : STRING, size : Nat, is_elf : BOOLEAN])
  /\ \A i, j \in DOMAIN DISK : DISK[i].name = DISK[j].name => i = j
  /\ \A i \in DOMAIN DISK : DISK[i] # NULL

-----------------------------------------------------------------------------
(* The archive as the tar format lays it out: a header block for each file, *)
(* then its data in as few blocks as hold it, then a block with no name.    *)
DataBlocks(size) == CHOOSE n \in 0 .. size : n * TAR_BLOCKSIZE >= size
                                             /\ \A m \in 0 .. size : m * TAR_BLOCKSIZE >= size => n <= m
HeaderBlock == [i \in 1 .. Len(DISK) + 1 |->
  LET at[k \in 1 .. i] == IF k = 1 THEN 0 ELSE at[k - 1] + 1 + DataBlocks(DISK[k - 1].size)
  IN  at[i]]
Block == 0 .. HeaderBlock[Len(DISK) + 1]
HeaderAt(b) == {i \in 1 .. Len(DISK) : HeaderBlock[i] = b}

-----------------------------------------------------------------------------
(* tar.c: how the code finds its way through the blocks. *)

ROUND_UP_POW2(x, sz) == (x + (sz - 1)) - ((x + (sz - 1)) % sz)

(* The header read at block b: a block that is none has no name. *)
Header(b) == IF HeaderAt(b) = {} THEN NULL ELSE DISK[CHOOSE i \in HeaderAt(b) : TRUE]
tar_is_valid(b) == Header(b) # NULL
tar_filesize(b) == Header(b).size

tar_num_blocks_for_file(b) ==
  1 + ROUND_UP_POW2(tar_filesize(b), TAR_BLOCKSIZE) \div TAR_BLOCKSIZE

tar_to_next(b) == b + tar_num_blocks_for_file(b)

(* The walk of tar_open: the first header with that name, or NULL. *)
TarFind(path) ==
  LET from[b \in Nat] == IF ~tar_is_valid(b) THEN NULL
                         ELSE IF Header(b).name = path THEN b ELSE from[tar_to_next(b)]
  IN  from[0]

(* The walk of tar_getdents: the header number n, counted from 0, or NULL. *)
TarEntry(n) ==
  LET cursor[idx \in 0 .. n] == IF idx = 0 THEN 0
                                ELSE IF tar_is_valid(cursor[idx - 1]) THEN tar_to_next(cursor[idx - 1])
                                ELSE cursor[idx - 1]
  IN  IF tar_is_valid(cursor[n]) THEN cursor[n] ELSE NULL

(* Mutant: a read at the end of the file may go past it. *)
TarReadCount_unbounded(b, len, offset) ==
  IF tar_filesize(b) = 0 \/ offset > tar_filesize(b) THEN 0 ELSE len

(* _tar_read: how many bytes are copied. *)
TarReadCount(b, len, offset) ==
  IF tar_filesize(b) = 0 \/ offset > tar_filesize(b) THEN 0
  ELSE IF len < tar_filesize(b) - offset THEN len ELSE tar_filesize(b) - offset

-----------------------------------------------------------------------------
VARIABLES
  filetab,   \* file_t: [valid, type, inode, pos, tty]
  fds,       \* fds[t][fd]: a file or NULL
  valid,     \* the tasks
  panic,     \* the reason the machine stopped, or "no"
  leaked,    \* history: files opened for a program that was not one
  taken,     \* history: the offsets of the bytes read from a file since it was opened
  listed     \* history: the names getdents returned since a directory was opened

vars == <<filetab, fds, valid, panic, leaked, taken, listed>>

NoFile == [valid |-> FALSE, type |-> "none", inode |-> NULL, pos |-> 0, tty |-> NULL]
NoFds == [fd \in Fd |-> NULL]

TypeOK ==
  /\ filetab \in [File -> [valid : BOOLEAN, type : {"none", "regular", "directory", "console"},
                           inode : Block \cup {NULL}, pos : Nat, tty : Console \cup {NULL}]]
  /\ \A f \in File : filetab[f].type = "regular" => filetab[f].inode # NULL
  /\ fds \in [Task -> [Fd -> File \cup {NULL}]]
  /\ valid \in [Task -> BOOLEAN]
  /\ panic \in {"no", "no files", "no device", "read-only", "no slot", "no header"}
  /\ leaked \subseteq File
  /\ taken \in [File -> Seq(Nat)]
  /\ listed \in [File -> Seq(Name)]

ConsoleFile(c) == [valid |-> TRUE, type |-> "console", inode |-> NULL, pos |-> 0, tty |-> c]

(* init_files, init_stdio, and the root tasks of task_spawn_kernel, one for *)
(* each console.                                                            *)
Init ==
  /\ filetab = [f \in File |-> IF f \in Console THEN ConsoleFile(f) ELSE NoFile]
  /\ fds = [t \in Task |-> IF t <= NUM_CONSOLES THEN [fd \in Fd |-> IF fd \in Stdio THEN t - 1 ELSE NULL]
                                                ELSE NoFds]
  /\ valid = [t \in Task |-> t <= NUM_CONSOLES]
  /\ panic = "no"
  /\ leaked = {}
  /\ taken = [f \in File |-> <<>>]
  /\ listed = [f \in File |-> <<>>]

Running == panic = "no"

(* panic() with reason r. *)
Panic(r) == panic' = r /\ UNCHANGED <<filetab, fds, valid, leaked, taken, listed>>

-----------------------------------------------------------------------------
(* file_alloc takes the first free entry. *)
FreeFile(f) == ~filetab[f].valid /\ \A g \in File : g < f => filetab[g].valid
TableFull == \A f \in File : filetab[f].valid

(* The paths that file_open takes to the archive and finds there. *)
OnDisk(path) == path \in Name \/ path = "/"
DiskFile(path) ==
  IF path = "/" THEN [valid |-> TRUE, type |-> "directory", inode |-> NULL, pos |-> 0, tty |-> NULL]
  ELSE [valid |-> TRUE, type |-> "regular", inode |-> TarFind(path), pos |-> 0, tty |-> NULL]

(* file_open(path) returns file f. *)
file_open(path, f) ==
  \/ /\ f \in Console
     /\ path = DEVICES[f + 1]
     /\ UNCHANGED <<filetab, taken, listed>>
  \/ /\ OnDisk(path)
     /\ FreeFile(f)
     /\ filetab' = [filetab EXCEPT ![f] = DiskFile(path)]
     /\ taken' = [taken EXCEPT ![f] = <<>>]
     /\ listed' = [listed EXCEPT ![f] = <<>>]

OpenReturnsNull(path) == path \in {"missing", "/dev/null"}

(* A device that stdio_open does not know (or one of the /dev/panic paths). *)
OpenPanics(path) ==
  \/ path = "/dev/unknown" /\ Panic("no device")
  \/ OnDisk(path) /\ TableFull /\ Panic("no files")

(* Mutant: stdio_close frees the shared file. *)
Closed_with_consoles(F) == [f \in File |-> IF f \in F THEN NoFile ELSE filetab[f]]

(* file_close of every file of F: tar_close frees the entry, stdio_close    *)
(* leaves the shared file alone.  The fields file_free does not touch are   *)
(* cleared here too: nobody reads them before file_alloc clears them.       *)
Closed(F) == [f \in File |-> IF f \in F /\ filetab[f].type # "console" THEN NoFile ELSE filetab[f]]

(* The histories of the files of F end. *)
Forget(F) ==
  /\ taken' = [f \in File |-> IF f \in F THEN <<>> ELSE taken[f]]
  /\ listed' = [f \in File |-> IF f \in F THEN <<>> ELSE listed[f]]

-----------------------------------------------------------------------------
(* System calls of task t.  Calls that fail their checks change nothing. *)

FdValid(t, fd) == fds[t][fd] # NULL
FreeFd(t, fd) == ~FdValid(t, fd) /\ \A g \in Fd : g < fd => FdValid(t, g)

sys_open(t, path) ==
  /\ \E fd \in Fd : FreeFd(t, fd) /\ \E f \in File :
       /\ file_open(path, f)
       /\ fds' = [fds EXCEPT ![t][fd] = f]
  /\ UNCHANGED <<valid, panic, leaked>>

SysOpenPanics(t, path) == (\E fd \in Fd : FreeFd(t, fd)) /\ OpenPanics(path)

(* sys_read of a file of the archive; a console has no position. *)
sys_read(t, fd, len) ==
  /\ FdValid(t, fd)
  /\ LET f == fds[t][fd]
         s == filetab[f]
         n == TarReadCount(s.inode, len, s.pos)
     IN  /\ s.type = "regular"
         /\ filetab' = [filetab EXCEPT ![f].pos = @ + n]
         /\ taken' = [taken EXCEPT ![f] = @ \o [i \in 1 .. n |-> s.pos + i - 1]]
  /\ UNCHANGED <<fds, valid, panic, leaked, listed>>

(* tar_write panics; a console's output is in Display. *)
SysWritePanics(t, fd) ==
  /\ FdValid(t, fd)
  /\ filetab[fds[t][fd]].type # "console"
  /\ Panic("read-only")

(* Mutant: the position of the directory is not advanced past the first entry. *)
sys_getdents_stuck(t, fd) ==
  /\ FdValid(t, fd)
  /\ LET f == fds[t][fd]
         s == filetab[f]
         b == TarEntry(s.pos)
     IN  /\ s.type = "directory"
         /\ b # NULL
         /\ filetab' = [filetab EXCEPT ![f].pos = 1]
         /\ listed' = [listed EXCEPT ![f] = Append(@, Header(b).name)]
  /\ UNCHANGED <<fds, valid, panic, leaked, taken>>

sys_getdents(t, fd) ==
  /\ FdValid(t, fd)
  /\ LET f == fds[t][fd]
         s == filetab[f]
         b == TarEntry(s.pos)
     IN  /\ s.type = "directory"
         /\ b # NULL
         /\ filetab' = [filetab EXCEPT ![f].pos = @ + 1]
         /\ listed' = [listed EXCEPT ![f] = Append(@, Header(b).name)]
  /\ UNCHANGED <<fds, valid, panic, leaked, taken>>

(* Mutant: the descriptor stays. *)
sys_close_keeps_fd(t, fd) ==
  /\ FdValid(t, fd)
  /\ fd \notin Stdio
  /\ filetab' = Closed({fds[t][fd]})
  /\ Forget({fds[t][fd]})
  /\ UNCHANGED <<fds, valid, panic, leaked>>

sys_close(t, fd) ==
  /\ FdValid(t, fd)
  /\ fd \notin Stdio
  /\ filetab' = Closed({fds[t][fd]})
  /\ Forget({fds[t][fd]})
  /\ fds' = [fds EXCEPT ![t][fd] = NULL]
  /\ UNCHANGED <<valid, panic, leaked>>

FreeTask(u) == ~valid[u] /\ \A v \in Task : v < u => valid[v]
PoolFull == \A u \in Task : valid[u]

IsElf(path) == path \in Name /\ Header(TarFind(path)).is_elf

(* file_dup of the parent's stdio: a console's file is shared. *)
Inherited(t) == [fd \in Fd |-> IF fd \in Stdio THEN fds[t][fd] ELSE NULL]

(* task_spawn_user of a program: its file is opened, loaded and closed      *)
(* again, and the child inherits the consoles.  A child whose arguments     *)
(* cannot be copied is freed at once, which closes nothing.                 *)
SpawnElf(t, u, path) ==
  /\ IsElf(path)
  /\ ~TableFull
  /\ FreeTask(u)
  /\ valid' = [valid EXCEPT ![u] = TRUE]
  /\ fds' = [fds EXCEPT ![u] = Inherited(t)]
  /\ UNCHANGED <<filetab, panic, leaked, taken, listed>>

(* load_elf refuses the file: nobody closes it. *)
SpawnNotElf(path) ==
  /\ path \in Name
  /\ ~IsElf(path)
  /\ ~PoolFull
  /\ \E f \in File : file_open(path, f) /\ leaked' = leaked \cup {f}
  /\ UNCHANGED <<fds, valid, panic>>

(* The file is opened, and create_empty_task finds no slot (its assertion    *)
(* fails), or load_elf gets a file without a header (_tar_read's fails).     *)
SpawnPanics(path) ==
  \/ OpenPanics(path)
  \/ /\ path \in Device \/ (OnDisk(path) /\ ~TableFull)
     /\ \/ PoolFull /\ Panic("no slot")
        \/ ~PoolFull /\ path \notin Name /\ Panic("no header")

(* Mutant: the files of the task stay open. *)
free_task_closes_nothing(t) ==
  /\ valid' = [valid EXCEPT ![t] = FALSE]
  /\ fds' = [fds EXCEPT ![t] = NoFds]
  /\ UNCHANGED <<filetab, panic, leaked, taken, listed>>

(* free_task, of a task that has exited or could not be given its arguments. *)
free_task(t) ==
  /\ valid' = [valid EXCEPT ![t] = FALSE]
  /\ filetab' = Closed({fds[t][fd] : fd \in Fd} \ {NULL})
  /\ Forget({fds[t][fd] : fd \in Fd})
  /\ fds' = [fds EXCEPT ![t] = NoFds]
  /\ UNCHANGED <<panic, leaked>>

-----------------------------------------------------------------------------
UserCall(t) ==
  \/ \E path \in Path : \/ sys_open(t, path) \/ SysOpenPanics(t, path)
                        \/ SpawnNotElf(path) \/ SpawnPanics(path)
                        \/ \E u \in Task : SpawnElf(t, u, path)
  \/ \E fd \in Fd : \/ \E len \in READ_LENS : sys_read(t, fd, len)
                    \/ SysWritePanics(t, fd) \/ sys_getdents(t, fd) \/ sys_close(t, fd)

(* A root task only spawns the shell, a program of the archive. *)
RootCall(t) ==
  \E path \in {n \in Name : IsElf(n)} : SpawnPanics(path) \/ \E u \in Task : SpawnElf(t, u, path)

Halted == ~Running /\ UNCHANGED vars

Next ==
  \/ \E t \in Task : /\ Running /\ valid[t]
                     /\ IF t <= NUM_CONSOLES THEN RootCall(t) ELSE UserCall(t) \/ free_task(t)
  \/ Halted

Spec == Init /\ [][Next]_vars

-----------------------------------------------------------------------------
Held(t) == {fds[t][fd] : fd \in Fd} \ {NULL}

(* An open descriptor has an open file behind it, and no other task and no  *)
(* other descriptor shares a file of the archive: closing it, or the exit   *)
(* of its task, closes nobody else's.                                       *)
DescriptorsAreSound ==
  /\ \A t \in Task : Held(t) # {} => valid[t]
  /\ \A t \in Task : \A f \in Held(t) : filetab[f].valid
  /\ \A t \in Task, u \in Task, fd \in Fd, gd \in Fd :
       (fds[t][fd] # NULL /\ fds[t][fd] = fds[u][gd] /\ <<t, fd>> # <<u, gd>>)
         => filetab[fds[t][fd]].type = "console"

(* Nothing stays open that no task holds, but for the programs that         *)
(* load_elf refused.                                                        *)
OnlyRefusedProgramsLeak ==
  {f \in File : filetab[f].valid} = Console \cup leaked \cup UNION {Held(t) : t \in Task}

(* stdio.c: "All tasks share stdio files so we should never free them".  A   *)
(* task's standard descriptors stay on one console from its root on.         *)
ConsolesAreKept ==
  /\ \A c \in Console : filetab[c] = ConsoleFile(c)
  /\ \A t \in Task : valid[t] => \E c \in Console : \A fd \in Stdio : fds[t][fd] = c

(* Reads of a file take its bytes one after the other, each once, and none  *)
(* behind its end.                                                          *)
ReadsAreSequential ==
  /\ TypeOK
  /\ \A f \in File : (filetab[f].valid /\ filetab[f].type = "regular") =>
       /\ taken[f] = [i \in 1 .. filetab[f].pos |-> i - 1]
       /\ filetab[f].pos <= Header(filetab[f].inode).size

(* A directory that is read lists the files of the archive in their order,  *)
(* none twice and none left out, and every name can be opened.              *)
ListingIsComplete ==
  /\ \A f \in File : (filetab[f].valid /\ filetab[f].type = "directory") =>
       listed[f] = [i \in 1 .. filetab[f].pos |-> DISK[i].name]
  /\ \A i \in DOMAIN DISK : TarFind(DISK[i].name) = HeaderBlock[i]

-----------------------------------------------------------------------------
(* _tar_read: assert(header != NULL). *)
HeaderIsGiven == panic # "no header"
=============================================================================
