---------------------------- MODULE FilesProofs ----------------------------
(***************************************************************************)
(* Machine-checked proofs about Files, for every size of the file table,   *)
(* of the descriptor tables and of the task pool, for any consoles and any *)
(* archive: who holds which file; what the walks from header to header     *)
(* find; and what reads and listings return.                               *)
(***************************************************************************)
EXTENDS Files, SequenceTheorems, WellFoundedInduction, TLAPS

(* The fields of an entry that tell whether it is in use, and by what. *)
TableShape ==
  /\ DOMAIN filetab = File
  /\ \A f \in File : {"valid", "type", "pos"} \subseteq DOMAIN filetab[f]

FdsTyped ==
  /\ fds \in [Task -> [Fd -> File \cup {NULL}]]
  /\ valid \in [Task -> BOOLEAN]
  /\ leaked \subseteq File

(* Only consoles are shared, and a file of that type is one. *)
ConsolesOnly == \A f \in File : filetab[f].type = "console" => f \in Console

HeldIsOpen ==
  \A t \in Task, fd \in Fd :
    fds[t][fd] # NULL => valid[t] /\ filetab[fds[t][fd]].valid

HeldOnce ==
  \A t \in Task, u \in Task, fd \in Fd, gd \in Fd :
    (fds[t][fd] # NULL /\ fds[t][fd] = fds[u][gd] /\ <<t, fd>> # <<u, gd>>)
      => filetab[fds[t][fd]].type = "console"

(* The file of a refused program stays open, and nobody has it.               *)
LeakedIsLost ==
  \A f \in leaked : /\ filetab[f].valid
                    /\ f \in Console \/ \A t \in Task, fd \in Fd : fds[t][fd] # f

OpenIsHeld ==
  \A f \in File : filetab[f].valid =>
    f \in Console \/ f \in leaked \/ \E t \in Task, fd \in Fd : fds[t][fd] = f

(* The inductive invariant. *)
FilesInvariant ==
  /\ TableShape /\ FdsTyped
  /\ ConsolesOnly /\ ConsolesAreKept
  /\ HeldIsOpen /\ HeldOnce
  /\ LeakedIsLost /\ OpenIsHeld

-----------------------------------------------------------------------------
(* The sizes of the tables.                                                   *)
LEMMA Sizes ==
  /\ Console \subseteq File /\ Stdio \subseteq Fd /\ NULL \notin File
  /\ Task \subseteq Nat
<1>1. NUM_CONSOLES \in Nat /\ NUM_FILES \in Nat /\ NUM_CONSOLES <= NUM_FILES
  BY FilesAssumption DEF FilesAssumption
<1> QED
  BY <1>1, FilesAssumption DEF FilesAssumption, Console, File, Stdio, Fd, Task

(* The state after init_stdio and the root tasks satisfies the invariant.     *)
LEMMA FilesInit == Init => FilesInvariant
<1> SUFFICES ASSUME Init PROVE FilesInvariant
  OBVIOUS
<1>1. /\ filetab = [f \in File |-> IF f \in Console THEN ConsoleFile(f) ELSE NoFile]
      /\ valid = [t \in Task |-> t <= NUM_CONSOLES] /\ leaked = {}
  BY DEF Init
<1>2. \A t \in Task, fd \in Fd :
        fds[t][fd] = IF t <= NUM_CONSOLES /\ fd \in Stdio THEN t - 1 ELSE NULL
  BY DEF Init, NoFds
<1>3. NUM_CONSOLES \in Nat /\ \A t \in Task : t <= NUM_CONSOLES => t - 1 \in Console
  BY FilesAssumption, Sizes DEF FilesAssumption, Console, Task
<1>4. \A f \in File : f \in Console => filetab[f] = ConsoleFile(f)
  BY <1>1
<1>5. \A f \in File : f \notin Console => filetab[f] = NoFile
  BY <1>1
<1>6. TableShape
  BY <1>1, <1>4, <1>5 DEF TableShape, ConsoleFile, NoFile
<1>7. FdsTyped
  <2>1. fds \in [Task -> [Fd -> File \cup {NULL}]]
    BY <1>3, Sizes DEF Init, NoFds
  <2> QED
    BY <1>1, <1>3, <2>1, Sizes DEF FdsTyped
<1>8. ConsolesOnly
  BY <1>5 DEF ConsolesOnly, NoFile
<1>9. ConsolesAreKept
  BY <1>1, <1>2, <1>3, <1>4, Sizes DEF ConsolesAreKept
<1>10. HeldIsOpen
  BY <1>1, <1>2, <1>3, <1>4, Sizes DEF HeldIsOpen, ConsoleFile
<1>11. HeldOnce
  BY <1>1, <1>2, <1>3, <1>4, Sizes DEF HeldOnce, ConsoleFile
<1>12. LeakedIsLost /\ OpenIsHeld
  BY <1>1, <1>5 DEF LeakedIsLost, OpenIsHeld, NoFile
<1> QED
  BY <1>6, <1>7, <1>8, <1>9, <1>10, <1>11, <1>12 DEF FilesInvariant

-----------------------------------------------------------------------------
(* What the calls do to the table. *)

(* A console's file is in use, and it is the only file of its type.           *)
LEMMA ConsoleFacts ==
  ASSUME FilesInvariant
  PROVE  /\ \A c \in Console : c \in File /\ filetab[c].valid
         /\ \A f \in File : f \in Console <=> filetab[f].type = "console"
<1>1. \A c \in Console : filetab[c] = ConsoleFile(c)
  BY DEF FilesInvariant, ConsolesAreKept
<1>2. \A c \in Console : ConsoleFile(c).valid /\ ConsoleFile(c).type = "console"
  BY DEF ConsoleFile
<1>3. \A f \in File : filetab[f].type = "console" => f \in Console
  BY DEF FilesInvariant, ConsolesOnly
<1> QED
  BY <1>1, <1>2, <1>3, Sizes, Zenon

(* file_open returns a console, or an entry that was free.                    *)
LEMMA OpenFacts ==
  ASSUME FilesInvariant, NEW path, NEW f \in File, file_open(path, f)
  PROVE  /\ TableShape'
         /\ \A g \in File : g # f => filetab'[g] = filetab[g]
         /\ filetab'[f].valid
         /\ \/ f \in Console /\ filetab'[f] = filetab[f]
            \/ f \notin Console /\ ~filetab[f].valid /\ filetab'[f].type # "console"
<1>1. CASE f \in Console /\ UNCHANGED <<filetab, taken, listed>>
  <2>1. TableShape'
    BY <1>1 DEF FilesInvariant, TableShape
  <2> QED
    BY <1>1, <2>1, ConsoleFacts
<1>2. CASE FreeFile(f) /\ filetab' = [filetab EXCEPT ![f] = DiskFile(path)]
  <2>1. ~filetab[f].valid /\ f \notin Console
    BY <1>2, ConsoleFacts, Zenon DEF FreeFile
  <2>2. /\ DiskFile(path).valid /\ DiskFile(path).type # "console"
        /\ {"valid", "type", "pos"} \subseteq DOMAIN DiskFile(path)
    BY DEF DiskFile
  <2>3. DOMAIN filetab = File /\ \A g \in File : {"valid", "type", "pos"} \subseteq DOMAIN filetab[g]
    BY DEF FilesInvariant, TableShape
  <2>4. DOMAIN filetab' = File /\ filetab'[f] = DiskFile(path)
    BY <1>2, <2>3, Zenon
  <2>5. \A g \in File : g # f => filetab'[g] = filetab[g]
    BY <1>2, <2>3, Zenon
  <2>6. TableShape'
    BY <2>2, <2>3, <2>4, <2>5, Zenon DEF TableShape
  <2> QED
    BY <2>1, <2>2, <2>4, <2>5, <2>6, Zenon
<1> QED
  BY <1>1, <1>2 DEF file_open

(* A read changes a position, and no console's.                               *)
LEMMA PositionFacts ==
  ASSUME FilesInvariant, NEW f \in File, filetab[f].type # "console", NEW p,
         filetab' = [filetab EXCEPT ![f].pos = p]
  PROVE  /\ TableShape'
         /\ \A g \in File : /\ filetab'[g].valid = filetab[g].valid
                            /\ filetab'[g].type = filetab[g].type
                            /\ g # f => filetab'[g] = filetab[g]
<1>1. DOMAIN filetab = File /\ \A g \in File : {"valid", "type", "pos"} \subseteq DOMAIN filetab[g]
  BY DEF FilesInvariant, TableShape
<1>2. DOMAIN filetab' = File /\ filetab'[f] = [filetab[f] EXCEPT !.pos = p]
  BY <1>1, Zenon
<1>3. \A g \in File : g # f => filetab'[g] = filetab[g]
  BY <1>1, Zenon
<1>4. /\ filetab'[f].valid = filetab[f].valid /\ filetab'[f].type = filetab[f].type
      /\ {"valid", "type", "pos"} \subseteq DOMAIN filetab'[f]
  BY <1>1, <1>2
<1>5. TableShape'
  BY <1>1, <1>2, <1>3, <1>4, Zenon DEF TableShape
<1> QED
  BY <1>3, <1>4, <1>5, Zenon

(* file_close frees what is no console.                                       *)
LEMMA CloseFacts ==
  ASSUME FilesInvariant, NEW F, filetab' = Closed(F)
  PROVE  /\ TableShape'
         /\ \A f \in File : f \in F /\ f \notin Console => filetab'[f] = NoFile
         /\ \A f \in File : f \notin F \/ f \in Console => filetab'[f] = filetab[f]
<1>1. \A f \in File : f \in Console <=> filetab[f].type = "console"
  BY ConsoleFacts, Zenon
<1>2. /\ \A f \in File : f \in F /\ f \notin Console => filetab'[f] = NoFile
      /\ \A f \in File : f \notin F \/ f \in Console => filetab'[f] = filetab[f]
  BY <1>1 DEF Closed
<1>3. TableShape'
  BY <1>2 DEF FilesInvariant, TableShape, Closed, NoFile
<1> QED
  BY <1>2, <1>3

-----------------------------------------------------------------------------
(* What the calls do to the invariant. *)

(* A panic, and a machine that has stopped.                                   *)
LEMMA QuietFiles ==
  ASSUME FilesInvariant, UNCHANGED <<filetab, fds, valid, leaked>>
  PROVE  FilesInvariant'
BY DEF FilesInvariant, TableShape, FdsTyped, ConsolesOnly, ConsolesAreKept,
       HeldIsOpen, HeldOnce, LeakedIsLost, OpenIsHeld

(* sys_read and sys_getdents.                                                 *)
LEMMA ReadStep ==
  ASSUME FilesInvariant, NEW f \in File, filetab[f].type # "console", NEW p,
         filetab' = [filetab EXCEPT ![f].pos = p], UNCHANGED <<fds, valid, leaked>>
  PROVE  FilesInvariant'
<1>1. /\ TableShape'
      /\ \A g \in File : /\ filetab'[g].valid = filetab[g].valid
                         /\ filetab'[g].type = filetab[g].type
                         /\ g # f => filetab'[g] = filetab[g]
  BY PositionFacts
<1>2. FdsTyped' /\ FdsTyped
  BY DEF FilesInvariant, FdsTyped
<1>3. \A c \in Console : filetab'[c] = filetab[c] /\ c \in File
  BY <1>1, ConsoleFacts, Zenon
<1>4. ConsolesOnly'
  BY <1>1 DEF FilesInvariant, ConsolesOnly
<1>5. ConsolesAreKept'
  BY <1>3 DEF FilesInvariant, ConsolesAreKept
<1>6. \A t \in Task, fd \in Fd : fds[t][fd] \in File \cup {NULL}
  BY <1>2 DEF FdsTyped
<1>7. HeldIsOpen' /\ HeldOnce'
  BY <1>1, <1>6 DEF FilesInvariant, HeldIsOpen, HeldOnce
<1>8. LeakedIsLost' /\ OpenIsHeld'
  BY <1>1, <1>2 DEF FilesInvariant, FdsTyped, LeakedIsLost, OpenIsHeld
<1> QED
  BY <1>1, <1>2, <1>4, <1>5, <1>7, <1>8 DEF FilesInvariant

(* sys_open: the new entry has one holder, or is a console.                   *)
LEMMA OpenStep ==
  ASSUME FilesInvariant, NEW t \in Task, valid[t], NEW path, sys_open(t, path)
  PROVE  FilesInvariant'
<1>1. PICK fd \in Fd, f \in File :
        FreeFd(t, fd) /\ file_open(path, f) /\ fds' = [fds EXCEPT ![t][fd] = f]
  BY DEF sys_open
<1>2. valid' = valid /\ leaked' = leaked
  BY DEF sys_open
<1>3. /\ TableShape'
      /\ \A g \in File : g # f => filetab'[g] = filetab[g]
      /\ filetab'[f].valid
      /\ \/ f \in Console /\ filetab'[f] = filetab[f]
         \/ f \notin Console /\ ~filetab[f].valid /\ filetab'[f].type # "console"
  BY <1>1, OpenFacts
<1>4. FdsTyped /\ FdsTyped'
  BY <1>1, <1>2 DEF FilesInvariant, FdsTyped
<1>5. /\ fds'[t][fd] = f /\ fds[t][fd] = NULL
      /\ \A u \in Task, gd \in Fd : <<u, gd>> # <<t, fd>> => fds'[u][gd] = fds[u][gd]
  BY <1>1, <1>4 DEF FdsTyped, FreeFd, FdValid
<1>6. \A u \in Task, gd \in Fd : fds[u][gd] \in File \cup {NULL}
  BY <1>4 DEF FdsTyped
<1>7. \A c \in Console : c \in File /\ filetab'[c] = filetab[c]
  BY <1>3, ConsoleFacts, Zenon
<1>8. ConsolesOnly'
  BY <1>3 DEF FilesInvariant, ConsolesOnly
<1>9. ConsolesAreKept'
  <2>1. fd \notin Stdio
    BY <1>5, Sizes DEF FilesInvariant, ConsolesAreKept
  <2>2. \A u \in Task : \A gd \in Stdio : fds'[u][gd] = fds[u][gd]
    BY <1>5, <2>1, Sizes
  <2> QED
    BY <1>2, <1>7, <2>2 DEF FilesInvariant, ConsolesAreKept
<1>10. \A u \in Task, gd \in Fd : f \notin Console => fds[u][gd] # f
  BY <1>3, <1>6, Sizes DEF FilesInvariant, HeldIsOpen
<1>11. HeldIsOpen'
  BY <1>2, <1>3, <1>5, <1>6 DEF FilesInvariant, HeldIsOpen
<1>12. HeldOnce'
  <2>1. f \in Console => filetab'[f].type = "console"
    BY <1>3, ConsoleFacts, Zenon
  <2> QED
    BY <1>3, <1>5, <1>6, <1>10, <2>1 DEF FilesInvariant, HeldOnce
<1>13. LeakedIsLost'
  BY <1>2, <1>3, <1>4, <1>5 DEF FilesInvariant, FdsTyped, LeakedIsLost
<1>14. OpenIsHeld'
  <2>1. ASSUME NEW g \in File, filetab'[g].valid, g \notin Console, g \notin leaked
        PROVE  \E u \in Task, gd \in Fd : fds'[u][gd] = g
    <3>1. CASE g = f
      BY <1>5, <3>1
    <3>2. CASE g # f
      <4>1. PICK u \in Task, gd \in Fd : fds[u][gd] = g
        BY <1>3, <2>1, <3>2 DEF FilesInvariant, OpenIsHeld
      <4>2. <<u, gd>> # <<t, fd>>
        BY <1>5, <4>1, Sizes
      <4> QED
        BY <1>5, <4>1, <4>2
    <3> QED
      BY <3>1, <3>2
  <2> QED
    BY <1>2, <2>1 DEF OpenIsHeld
<1> QED
  BY <1>3, <1>4, <1>8, <1>9, <1>11, <1>12, <1>13, <1>14 DEF FilesInvariant

(* A program that load_elf refuses: the entry is in use and nobody has it.    *)
LEMMA RefusedStep ==
  ASSUME FilesInvariant, NEW path, SpawnNotElf(path)
  PROVE  FilesInvariant'
<1>1. PICK f \in File : file_open(path, f) /\ leaked' = leaked \cup {f}
  BY DEF SpawnNotElf
<1>2. valid' = valid /\ fds' = fds
  BY DEF SpawnNotElf
<1>3. /\ TableShape'
      /\ \A g \in File : g # f => filetab'[g] = filetab[g]
      /\ filetab'[f].valid
      /\ \/ f \in Console /\ filetab'[f] = filetab[f]
         \/ f \notin Console /\ ~filetab[f].valid /\ filetab'[f].type # "console"
  BY <1>1, OpenFacts
<1>4. FdsTyped /\ FdsTyped'
  BY <1>1, <1>2 DEF FilesInvariant, FdsTyped
<1>5. \A u \in Task, gd \in Fd : fds[u][gd] \in File \cup {NULL}
  BY <1>4 DEF FdsTyped
<1>6. \A c \in Console : c \in File /\ filetab'[c] = filetab[c]
  BY <1>3, ConsoleFacts, Zenon
<1>7. ConsolesOnly'
  BY <1>3 DEF FilesInvariant, ConsolesOnly
<1>8. ConsolesAreKept'
  BY <1>2, <1>6 DEF FilesInvariant, ConsolesAreKept
<1>9. \A u \in Task, gd \in Fd : f \notin Console => fds[u][gd] # f
  BY <1>3, <1>5, Sizes DEF FilesInvariant, HeldIsOpen
<1>10. HeldIsOpen'
  BY <1>2, <1>3, <1>5 DEF FilesInvariant, HeldIsOpen
<1>11. HeldOnce'
  BY <1>2, <1>3, <1>5, <1>9 DEF FilesInvariant, HeldOnce
<1>12. LeakedIsLost'
  BY <1>1, <1>2, <1>3, <1>4, <1>9 DEF FilesInvariant, FdsTyped, LeakedIsLost
<1>13. OpenIsHeld'
  BY <1>1, <1>2, <1>3 DEF FilesInvariant, OpenIsHeld
<1> QED
  BY <1>3, <1>4, <1>7, <1>8, <1>10, <1>11, <1>12, <1>13 DEF FilesInvariant

(* sys_close: nobody else has the file, unless it is a console.               *)
LEMMA CloseStep ==
  ASSUME FilesInvariant, NEW t \in Task, NEW fd \in Fd, sys_close(t, fd)
  PROVE  FilesInvariant'
<1> DEFINE f == fds[t][fd]
<1>1. /\ f # NULL /\ fd \notin Stdio /\ filetab' = Closed({f})
      /\ fds' = [fds EXCEPT ![t][fd] = NULL] /\ valid' = valid /\ leaked' = leaked
  BY DEF sys_close, FdValid
<1>2. FdsTyped /\ FdsTyped'
  BY <1>1 DEF FilesInvariant, FdsTyped
<1>3. \A u \in Task, gd \in Fd : fds[u][gd] \in File \cup {NULL}
  BY <1>2 DEF FdsTyped
<1>4. /\ TableShape'
      /\ \A g \in File : g \in {f} /\ g \notin Console => filetab'[g] = NoFile
      /\ \A g \in File : g \notin {f} \/ g \in Console => filetab'[g] = filetab[g]
  BY <1>1, CloseFacts
<1>5. /\ fds'[t][fd] = NULL
      /\ \A u \in Task, gd \in Fd : <<u, gd>> # <<t, fd>> => fds'[u][gd] = fds[u][gd]
  BY <1>1, <1>2 DEF FdsTyped
<1>6. f \in File
  BY <1>1, <1>3
<1>7. \A u \in Task, gd \in Fd : <<u, gd>> # <<t, fd>> /\ fds[u][gd] = f => f \in Console
  BY <1>1, <1>6, ConsoleFacts DEF FilesInvariant, HeldOnce
<1> HIDE DEF f
<1>8. ~NoFile.valid /\ NoFile.type # "console"
  BY DEF NoFile
<1>9. \A u \in Task, gd \in Fd :
        fds'[u][gd] # NULL => /\ fds'[u][gd] = fds[u][gd] /\ fds[u][gd] \in File
                              /\ filetab'[fds[u][gd]] = filetab[fds[u][gd]]
  BY <1>3, <1>4, <1>5, <1>7, Sizes
<1>10. \A c \in Console : c \in File /\ filetab'[c] = filetab[c]
  BY <1>4, ConsoleFacts, Zenon
<1>11. ConsolesOnly'
  BY <1>4, <1>8 DEF FilesInvariant, ConsolesOnly
<1>12. ConsolesAreKept'
  <2>1. \A u \in Task : \A gd \in Stdio : fds'[u][gd] = fds[u][gd]
    BY <1>1, <1>5, Sizes
  <2>2. valid' = valid
    BY <1>1
  <2> QED
    BY <1>10, <2>1, <2>2 DEF FilesInvariant, ConsolesAreKept
<1>13. HeldIsOpen'
  BY <1>1, <1>9 DEF FilesInvariant, HeldIsOpen
<1>14. HeldOnce'
  BY <1>9 DEF FilesInvariant, HeldOnce
<1>15. LeakedIsLost'
  <2>1. \A g \in leaked : g \in File /\ (g # f \/ g \in Console)
    BY <1>2 DEF FilesInvariant, FdsTyped, LeakedIsLost, f
  <2>2. \A g \in leaked : filetab'[g] = filetab[g]
    BY <1>4, <2>1, Zenon
  <2>3. \A g \in leaked : g \in File /\ g # NULL
    BY <2>1, Sizes
  <2>4. \A u \in Task, gd \in Fd : fds'[u][gd] = fds[u][gd] \/ fds'[u][gd] = NULL
    BY <1>5
  <2>5. leaked' = leaked
    BY <1>1
  <2> QED
    BY <2>2, <2>3, <2>4, <2>5 DEF FilesInvariant, LeakedIsLost
<1>16. OpenIsHeld'
  <2>1. ASSUME NEW g \in File, filetab'[g].valid, g \notin Console, g \notin leaked
        PROVE  \E u \in Task, gd \in Fd : fds'[u][gd] = g
    <3>1. g # f /\ filetab'[g] = filetab[g]
      BY <1>4, <1>8, <2>1, Zenon
    <3>2. PICK u \in Task, gd \in Fd : fds[u][gd] = g
      BY <2>1, <3>1 DEF FilesInvariant, OpenIsHeld
    <3>3. <<u, gd>> # <<t, fd>>
      BY <3>1, <3>2 DEF f
    <3> QED
      BY <1>5, <3>2, <3>3
  <2> QED
    BY <1>1, <2>1 DEF OpenIsHeld
<1> QED
  BY <1>2, <1>4, <1>11, <1>12, <1>13, <1>14, <1>15, <1>16 DEF FilesInvariant

(* A task without files is given the consoles of its parent.                  *)
LEMMA SpawnStep ==
  ASSUME FilesInvariant, NEW t \in Task, valid[t], NEW u \in Task, NEW path, SpawnElf(t, u, path)
  PROVE  FilesInvariant'
<1>1. /\ ~valid[u] /\ valid' = [valid EXCEPT ![u] = TRUE]
      /\ fds' = [fds EXCEPT ![u] = Inherited(t)]
      /\ filetab' = filetab /\ leaked' = leaked
  BY DEF SpawnElf, FreeTask
<1>2. FdsTyped
  BY DEF FilesInvariant
<1>3. Inherited(t) \in [Fd -> File \cup {NULL}]
  BY <1>2 DEF FdsTyped, Inherited
<1>4. FdsTyped'
  BY <1>1, <1>2, <1>3 DEF FdsTyped
<1>5. \A v \in Task : /\ v # u => fds'[v] = fds[v] /\ valid'[v] = valid[v]
                     /\ valid'[u]
  BY <1>1, <1>2, Zenon DEF FdsTyped
<1>6. PICK c \in Console : \A gd \in Stdio : fds[t][gd] = c
  BY DEF FilesInvariant, ConsolesAreKept
<1>7. \A gd \in Fd : fds'[u][gd] = IF gd \in Stdio THEN c ELSE NULL
  BY <1>1, <1>2, <1>6 DEF FdsTyped, Inherited
<1>8. \A gd \in Fd : fds[u][gd] = NULL
  BY <1>1 DEF FilesInvariant, HeldIsOpen
<1>9. c \in File /\ filetab[c].valid /\ filetab[c].type = "console"
  BY ConsoleFacts, Zenon
<1>10. ConsolesOnly' /\ TableShape'
  BY <1>1 DEF FilesInvariant, ConsolesOnly, TableShape
<1>11. ConsolesAreKept'
  <2>1. \A gd \in Stdio : fds'[u][gd] = c
    BY <1>7, Sizes
  <2>2. filetab' = filetab
    BY <1>1
  <2> QED
    BY <1>5, <2>1, <2>2 DEF FilesInvariant, ConsolesAreKept
<1>12. HeldIsOpen'
  <2> SUFFICES ASSUME NEW v \in Task, NEW gd \in Fd, fds'[v][gd] # NULL
               PROVE  valid'[v] /\ filetab[fds'[v][gd]].valid
    BY <1>1 DEF HeldIsOpen
  <2>1. CASE v = u
    BY <1>5, <1>7, <1>9, <2>1
  <2>2. CASE v # u
    BY <1>5, <2>2 DEF FilesInvariant, HeldIsOpen
  <2> QED
    BY <2>1, <2>2
<1>13. HeldOnce'
  <2> SUFFICES ASSUME NEW v \in Task, NEW w \in Task, NEW fd \in Fd, NEW gd \in Fd,
                      fds'[v][fd] # NULL, fds'[v][fd] = fds'[w][gd], <<v, fd>> # <<w, gd>>
               PROVE  filetab[fds'[v][fd]].type = "console"
    BY <1>1 DEF HeldOnce
  <2>1. CASE v = u \/ w = u
    BY <1>7, <1>9, <2>1
  <2>2. CASE v # u /\ w # u
    BY <1>5, <2>2 DEF FilesInvariant, HeldOnce
  <2> QED
    BY <2>1, <2>2
<1>14. LeakedIsLost'
  <2> SUFFICES ASSUME NEW g \in leaked, g \notin Console, NEW v \in Task, NEW fd \in Fd
               PROVE  filetab[g].valid /\ fds'[v][fd] # g
    BY <1>1 DEF FilesInvariant, LeakedIsLost
  <2>1. g \in File /\ filetab[g].valid /\ fds[v][fd] # g
    BY <1>2 DEF FilesInvariant, FdsTyped, LeakedIsLost
  <2> QED
    BY <1>5, <1>7, <2>1, Sizes
<1>15. OpenIsHeld'
  <2>1. ASSUME NEW g \in File, filetab[g].valid, g \notin Console, g \notin leaked
        PROVE  \E v \in Task, gd \in Fd : fds'[v][gd] = g
    <3>1. PICK v \in Task, gd \in Fd : fds[v][gd] = g
      BY <2>1 DEF FilesInvariant, OpenIsHeld
    <3>2. v # u
      BY <1>8, <2>1, <3>1, Sizes
    <3> QED
      BY <1>5, <3>1, <3>2
  <2> QED
    BY <1>1, <2>1 DEF OpenIsHeld
<1> QED
  BY <1>4, <1>10, <1>11, <1>12, <1>13, <1>14, <1>15 DEF FilesInvariant

(* free_task: the files of the task are nobody else's, or consoles.           *)
LEMMA FreeStep ==
  ASSUME FilesInvariant, NEW t \in Task, free_task(t)
  PROVE  FilesInvariant'
<1> DEFINE F == Held(t)
<1>1. /\ valid' = [valid EXCEPT ![t] = FALSE] /\ fds' = [fds EXCEPT ![t] = NoFds]
      /\ leaked' = leaked /\ filetab' = Closed(F)
  BY DEF free_task, Held
<1>2. FdsTyped
  BY DEF FilesInvariant
<1>3. FdsTyped'
  BY <1>1, <1>2 DEF FdsTyped, NoFds
<1>4. \A g : g \in F <=> g # NULL /\ \E fd \in Fd : fds[t][fd] = g
  BY DEF Held
<1>5. /\ TableShape'
      /\ \A g \in File : g \in F /\ g \notin Console => filetab'[g] = NoFile
      /\ \A g \in File : g \notin F \/ g \in Console => filetab'[g] = filetab[g]
  BY <1>1, CloseFacts
<1> HIDE DEF F
<1>6. /\ \A gd \in Fd : fds'[t][gd] = NULL
      /\ \A u \in Task : u # t => fds'[u] = fds[u] /\ valid'[u] = valid[u]
      /\ ~valid'[t]
  BY <1>1, <1>2 DEF FdsTyped, NoFds
<1>7. ASSUME NEW u \in Task, NEW gd \in Fd, fds'[u][gd] # NULL
      PROVE  /\ u # t /\ fds'[u][gd] = fds[u][gd] /\ fds[u][gd] \in File
             /\ filetab'[fds[u][gd]] = filetab[fds[u][gd]]
  <2>1. u # t /\ fds'[u][gd] = fds[u][gd] /\ fds[u][gd] \in File
    BY <1>2, <1>6, <1>7 DEF FdsTyped
  <2>2. ASSUME fds[u][gd] \in F PROVE fds[u][gd] \in Console
    <3>1. PICK fd \in Fd : fds[t][fd] = fds[u][gd]
      BY <1>4, <2>2
    <3>2. filetab[fds[u][gd]].type = "console"
      BY <1>7, <2>1, <3>1 DEF FilesInvariant, HeldOnce
    <3> QED
      BY <2>1, <3>2, ConsoleFacts, Zenon
  <2> QED
    BY <1>5, <2>1, <2>2
<1>8. ~NoFile.valid /\ NoFile.type # "console"
  BY DEF NoFile
<1>9. \A c \in Console : c \in File /\ filetab'[c] = filetab[c]
  BY <1>5, ConsoleFacts, Zenon
<1>10. ConsolesOnly'
  BY <1>5, <1>8 DEF FilesInvariant, ConsolesOnly
<1>11. ConsolesAreKept'
  BY <1>6, <1>9 DEF FilesInvariant, ConsolesAreKept
<1>12. HeldIsOpen'
  BY <1>6, <1>7 DEF FilesInvariant, HeldIsOpen
<1>13. HeldOnce'
  BY <1>7 DEF FilesInvariant, HeldOnce
<1>14. LeakedIsLost'
  <2>1. \A g \in leaked : g \in File /\ (g \notin F \/ g \in Console)
    BY <1>2, <1>4 DEF FilesInvariant, FdsTyped, LeakedIsLost
  <2>2. \A g \in leaked : g \in File /\ g # NULL /\ filetab'[g] = filetab[g]
    BY <1>5, <2>1, Sizes, Zenon
  <2>3. \A u \in Task, gd \in Fd : fds'[u][gd] = fds[u][gd] \/ fds'[u][gd] = NULL
    BY <1>6
  <2>4. leaked' = leaked
    BY <1>1
  <2> QED
    BY <2>2, <2>3, <2>4 DEF FilesInvariant, LeakedIsLost
<1>15. OpenIsHeld'
  <2>1. ASSUME NEW g \in File, filetab'[g].valid, g \notin Console, g \notin leaked
        PROVE  \E u \in Task, gd \in Fd : fds'[u][gd] = g
    <3>1. g \notin F /\ filetab'[g] = filetab[g]
      BY <1>5, <1>8, <2>1, Zenon
    <3>2. PICK u \in Task, gd \in Fd : fds[u][gd] = g
      BY <2>1, <3>1 DEF FilesInvariant, OpenIsHeld
    <3>3. u # t
      BY <1>4, <3>1, <3>2, Sizes
    <3> QED
      BY <1>6, <3>2, <3>3
  <2> QED
    BY <1>1, <2>1 DEF OpenIsHeld
<1> QED
  BY <1>3, <1>5, <1>10, <1>11, <1>12, <1>13, <1>14, <1>15 DEF FilesInvariant

(* Every call of every task keeps the invariant.                              *)
LEMMA FilesNext == FilesInvariant /\ [Next]_vars => FilesInvariant'
<1> SUFFICES ASSUME FilesInvariant, [Next]_vars PROVE FilesInvariant'
  OBVIOUS
<1>1. CASE UNCHANGED <<filetab, fds, valid, leaked>>
  BY <1>1, QuietFiles
<1>2. ASSUME NEW path, SpawnPanics(path) PROVE FilesInvariant'
  BY <1>1, <1>2 DEF SpawnPanics, OpenPanics, Panic
<1>3. ASSUME NEW t \in Task, valid[t], NEW path, NEW u \in Task, SpawnElf(t, u, path)
      PROVE  FilesInvariant'
  BY <1>3, SpawnStep
<1>4. ASSUME NEW t \in Task, valid[t], UserCall(t) PROVE FilesInvariant'
  <2>1. ASSUME NEW path, sys_open(t, path) PROVE FilesInvariant'
    BY <1>4, <2>1, OpenStep
  <2>2. ASSUME NEW path, SysOpenPanics(t, path) PROVE FilesInvariant'
    BY <1>1, <2>2 DEF SysOpenPanics, OpenPanics, Panic
  <2>3. ASSUME NEW path, SpawnNotElf(path) PROVE FilesInvariant'
    BY <2>3, RefusedStep
  <2>4. ASSUME NEW fd \in Fd, NEW len, sys_read(t, fd, len) PROVE FilesInvariant'
    <3> DEFINE f == fds[t][fd]
               p == filetab[f].pos + TarReadCount(filetab[f].inode, len, filetab[f].pos)
    <3>1. /\ f # NULL /\ filetab[f].type = "regular"
          /\ filetab' = [filetab EXCEPT ![f].pos = p]
          /\ UNCHANGED <<fds, valid, leaked>>
      BY <2>4 DEF sys_read, FdValid
    <3>2. f \in File
      BY <1>4, <3>1 DEF FilesInvariant, FdsTyped
    <3> HIDE DEF f, p
    <3> QED
      BY <3>1, <3>2, ReadStep
  <2>5. ASSUME NEW fd \in Fd, sys_getdents(t, fd) PROVE FilesInvariant'
    <3> DEFINE f == fds[t][fd]
               p == filetab[f].pos + 1
    <3>1. /\ f # NULL /\ filetab[f].type = "directory"
          /\ filetab' = [filetab EXCEPT ![f].pos = p]
          /\ UNCHANGED <<fds, valid, leaked>>
      BY <2>5 DEF sys_getdents, FdValid
    <3>2. f \in File
      BY <1>4, <3>1 DEF FilesInvariant, FdsTyped
    <3> HIDE DEF f, p
    <3> QED
      BY <3>1, <3>2, ReadStep
  <2>6. ASSUME NEW fd \in Fd, SysWritePanics(t, fd) PROVE FilesInvariant'
    BY <1>1, <2>6 DEF SysWritePanics, Panic
  <2>7. ASSUME NEW fd \in Fd, sys_close(t, fd) PROVE FilesInvariant'
    BY <1>4, <2>7, CloseStep
  <2> QED
    BY <1>2, <1>3, <1>4, <2>1, <2>2, <2>3, <2>4, <2>5, <2>6, <2>7 DEF UserCall
<1>5. ASSUME NEW t \in Task, free_task(t) PROVE FilesInvariant'
  BY <1>5, FreeStep
<1> QED
  BY <1>1, <1>2, <1>3, <1>4, <1>5 DEF Next, RootCall, Halted, vars

(* The invariant holds in every state.                                        *)
THEOREM FilesInvariance == Spec => []FilesInvariant
BY FilesInit, FilesNext, PTL DEF Spec

(* A descriptor has an open file behind it that no other descriptor shares,   *)
(* but for the consoles, so sys_close and free_task close nobody else's file. *)
THEOREM DescriptorSoundness == Spec => []DescriptorsAreSound
<1>1. FilesInvariant => DescriptorsAreSound
  <2> SUFFICES ASSUME FilesInvariant PROVE DescriptorsAreSound
    OBVIOUS
  <2>1. \A t \in Task : \A f \in Held(t) : f # NULL /\ \E fd \in Fd : fds[t][fd] = f
    BY DEF Held
  <2>2. \A t \in Task : \A f \in Held(t) : valid[t] /\ filetab[f].valid
    BY <2>1 DEF FilesInvariant, HeldIsOpen
  <2>3. HeldOnce
    BY DEF FilesInvariant
  <2> QED
    BY <2>2, <2>3, Zenon DEF DescriptorsAreSound, HeldOnce
<1> QED
  BY <1>1, FilesInvariance, PTL

(* Nobody frees the files of the consoles, and the standard descriptors of a  *)
(* task stay on the console of its root.                                      *)
THEOREM ConsolesStay == Spec => []ConsolesAreKept
<1>1. FilesInvariant => ConsolesAreKept
  BY DEF FilesInvariant
<1> QED
  BY <1>1, FilesInvariance, PTL

(* The files in use are the consoles, those that a task holds, and those of   *)
(* programs that load_elf refused; nothing else is lost.                      *)
THEOREM LeaksAreRefusals == Spec => []OnlyRefusedProgramsLeak
<1>1. FilesInvariant => OnlyRefusedProgramsLeak
  <2> SUFFICES ASSUME FilesInvariant PROVE OnlyRefusedProgramsLeak
    OBVIOUS
  <2>1. \A f : (\E t \in Task : f \in Held(t)) <=> f # NULL /\ \E t \in Task, fd \in Fd : fds[t][fd] = f
    BY DEF Held
  <2>2. \A t \in Task, fd \in Fd : fds[t][fd] \in File \cup {NULL}
    BY DEF FilesInvariant, FdsTyped
  <2>3. \A f \in Console \cup leaked : f \in File /\ filetab[f].valid
    BY ConsoleFacts DEF FilesInvariant, FdsTyped, LeakedIsLost
  <2>4. \A f : (\E t \in Task : f \in Held(t)) => f \in File /\ filetab[f].valid
    BY <2>1, <2>2 DEF FilesInvariant, HeldIsOpen
  <2>5. \A f \in File : filetab[f].valid =>
          f \in Console \cup leaked \/ \E t \in Task : f \in Held(t)
    BY <2>1, Sizes DEF FilesInvariant, OpenIsHeld
  <2>6. \A f : f \in {g \in File : filetab[g].valid}
               <=> f \in Console \cup leaked \cup UNION {Held(t) : t \in Task}
    BY <2>3, <2>4, <2>5
  <2> QED
    BY <2>6 DEF OnlyRefusedProgramsLeak
<1> QED
  BY <1>1, FilesInvariance, PTL

-----------------------------------------------------------------------------
(* The archive: the walks of tar.c find the headers where the format puts     *)
(* them, for any number of files of any size.                                 *)

(* A file of the archive, and its header. *)
Entry == 1 .. Len(DISK)

(* Induction over an interval, from the least counterexample.                 *)
LEMMA Least ==
  ASSUME NEW S, S \subseteq Nat, S # {}
  PROVE  \E x \in S : \A y \in S : x <= y
<1>1. PICK R : R = OpToRel(<, Nat)
  OBVIOUS
<1>2. IsWellFoundedOn(R, Nat)
  BY <1>1, NatLessThanWellFounded, Zenon
<1>3. \A a \in Nat, b \in Nat : a < b => <<a, b>> \in R
  BY <1>1 DEF OpToRel
<1>4. PICK x \in S : \A y \in S : ~ (<<y, x>> \in R)
  BY <1>2, WFMin
<1>5. ASSUME NEW y \in S PROVE x <= y
  <2>1. x \in Nat /\ y \in Nat /\ ~ (<<y, x>> \in R)
    BY <1>4
  <2>2. ~ (y < x)
    BY <1>3, <2>1, Zenon
  <2> QED
    BY <2>1, <2>2
<1> QED
  BY <1>5

(* Over 0 .. n, for the members of a set.                                     *)
LEMMA Induction ==
  ASSUME NEW P, NEW n \in Nat, 0 \in P, \A k \in 0 .. n - 1 : k \in P => k + 1 \in P
  PROVE  \A k \in 0 .. n : k \in P
<1> SUFFICES ASSUME NEW k \in 0 .. n, k \notin P PROVE FALSE
  OBVIOUS
<1> DEFINE S == {i \in 0 .. n : i \notin P}
<1>1. PICK x \in S : \A y \in S : x <= y
  <2>1. S \subseteq Nat /\ S # {}
    OBVIOUS
  <2> HIDE DEF S
  <2> QED
    BY <2>1, Least
<1>2. x # 0 /\ x - 1 \in 0 .. n - 1 /\ x - 1 \in P
  BY <1>1
<1> QED
  BY <1>1, <1>2

(* Multiples, for the provers.                                                *)
LEMMA Times ==
  ASSUME NEW a \in Nat, NEW b \in Nat, NEW w \in Nat
  PROVE  /\ a * w \in Nat /\ (a + b) * w = a * w + b * w
         /\ a <= b => a * w <= b * w
OBVIOUS

(* The files of the archive. *)
LEMMA DiskFacts ==
  /\ Len(DISK) \in Nat /\ DOMAIN DISK = Entry /\ Entry \subseteq Nat
  /\ \A i \in Entry : /\ DISK[i].size \in Nat /\ DISK[i] # NULL /\ DISK[i].name \in Name
                      /\ \A j \in Entry : DISK[i].name = DISK[j].name => i = j
  /\ TAR_BLOCKSIZE \in Nat /\ TAR_BLOCKSIZE > 0 /\ NULL \notin Nat
<1>1. Len(DISK) \in Nat /\ DOMAIN DISK = Entry /\ Entry \subseteq Nat
  BY DiskAssumption DEF DiskAssumption, Entry
<1>2. \A i \in Entry : DISK[i] \in [name : STRING, size : Nat, is_elf : BOOLEAN]
  BY ElementOfSeq, DiskAssumption, Zenon DEF DiskAssumption, Entry
<1>3. \A i \in Entry : /\ DISK[i] # NULL
                       /\ \A j \in Entry : DISK[i].name = DISK[j].name => i = j
  BY <1>1, DiskAssumption DEF DiskAssumption
<1>4. \A i \in Entry : DISK[i].name \in Name
  BY <1>1 DEF Name
<1>5. TAR_BLOCKSIZE \in Nat /\ TAR_BLOCKSIZE > 0 /\ NULL \notin Nat
  BY FilesAssumption DEF FilesAssumption
<1> QED
  BY <1>1, <1>2, <1>3, <1>4, <1>5

(* Division by the size of a block. *)
LEMMA BlockDivision ==
  ASSUME NEW x \in Nat
  PROVE  /\ x \div TAR_BLOCKSIZE \in Nat
         /\ (x \div TAR_BLOCKSIZE) * TAR_BLOCKSIZE <= x
         /\ x < (x \div TAR_BLOCKSIZE) * TAR_BLOCKSIZE + TAR_BLOCKSIZE
         /\ x % TAR_BLOCKSIZE = x - (x \div TAR_BLOCKSIZE) * TAR_BLOCKSIZE
BY DiskFacts

(* Whole blocks are divided without a rest.                                   *)
LEMMA ExactDivision ==
  ASSUME NEW q \in Nat
  PROVE  (q * TAR_BLOCKSIZE) \div TAR_BLOCKSIZE = q
<1>0. TAR_BLOCKSIZE \in Nat /\ TAR_BLOCKSIZE > 0
  BY DiskFacts
<1>1. PICK m, d : m = q * TAR_BLOCKSIZE /\ d = m \div TAR_BLOCKSIZE
  OBVIOUS
<1>2. m \in Nat
  BY <1>0, <1>1, Times
<1>3. d \in Nat /\ d * TAR_BLOCKSIZE <= m /\ m < d * TAR_BLOCKSIZE + TAR_BLOCKSIZE
  BY <1>1, <1>2, BlockDivision
<1>4. d * TAR_BLOCKSIZE \in Nat
  BY <1>0, <1>3, Times
<1>5. ~(d < q)
  <2> SUFFICES ASSUME d < q PROVE FALSE
    OBVIOUS
  <2>1. (d + 1) * TAR_BLOCKSIZE = d * TAR_BLOCKSIZE + 1 * TAR_BLOCKSIZE /\ 1 * TAR_BLOCKSIZE = TAR_BLOCKSIZE
    BY <1>0, <1>3, Times
  <2>2. (d + 1) * TAR_BLOCKSIZE <= q * TAR_BLOCKSIZE
    BY <1>0, <1>3, Times
  <2> QED
    BY <1>0, <1>1, <1>2, <1>3, <1>4, <2>1, <2>2
<1>6. ~(q < d)
  <2> SUFFICES ASSUME q < d PROVE FALSE
    OBVIOUS
  <2>1. (q + 1) * TAR_BLOCKSIZE = q * TAR_BLOCKSIZE + 1 * TAR_BLOCKSIZE /\ 1 * TAR_BLOCKSIZE = TAR_BLOCKSIZE
    BY <1>0, Times
  <2>2. (q + 1) * TAR_BLOCKSIZE <= d * TAR_BLOCKSIZE
    BY <1>0, <1>3, Times
  <2> QED
    BY <1>0, <1>1, <1>2, <1>3, <1>4, <2>1, <2>2
<1> QED
  BY <1>1, <1>3, <1>5, <1>6

(* tar_num_blocks_for_file rounds up to the blocks that the data takes.       *)
LEMMA RoundUp ==
  ASSUME NEW x \in Nat
  PROVE  /\ DataBlocks(x) \in Nat
         /\ ROUND_UP_POW2(x, TAR_BLOCKSIZE) \div TAR_BLOCKSIZE = DataBlocks(x)
<1>0. TAR_BLOCKSIZE \in Nat /\ TAR_BLOCKSIZE > 0
  BY DiskFacts
<1>1. PICK y, q, p : y = x + (TAR_BLOCKSIZE - 1) /\ q = y \div TAR_BLOCKSIZE /\ p = q * TAR_BLOCKSIZE
  OBVIOUS
<1>2. y \in Nat
  BY <1>0, <1>1
<1>3. /\ q \in Nat /\ p <= y /\ y < p + TAR_BLOCKSIZE /\ y % TAR_BLOCKSIZE = y - p
  BY <1>1, <1>2, BlockDivision
<1>4. p \in Nat
  BY <1>0, <1>1, <1>3, Times
<1>5. ROUND_UP_POW2(x, TAR_BLOCKSIZE) = p
  <2>1. y - (y - p) = p
    BY <1>2, <1>4
  <2> QED
    BY <1>1, <1>3, <2>1 DEF ROUND_UP_POW2
<1>6. p \div TAR_BLOCKSIZE = q
  BY <1>1, <1>3, ExactDivision
<1>7. p >= x
  BY <1>0, <1>1, <1>2, <1>3, <1>4
<1>8. ASSUME NEW m \in Nat, m * TAR_BLOCKSIZE >= x PROVE q <= m
  <2> SUFFICES ASSUME m < q PROVE FALSE
    BY <1>3
  <2>1. (m + 1) * TAR_BLOCKSIZE = m * TAR_BLOCKSIZE + 1 * TAR_BLOCKSIZE /\ 1 * TAR_BLOCKSIZE = TAR_BLOCKSIZE
    BY <1>0, Times
  <2>2. (m + 1) * TAR_BLOCKSIZE <= p
    BY <1>0, <1>1, <1>3, Times
  <2>3. m * TAR_BLOCKSIZE \in Nat
    BY <1>0, Times
  <2> QED
    BY <1>0, <1>1, <1>2, <1>3, <1>4, <1>8, <2>1, <2>2, <2>3
<1>9. q <= x
  <2>1. x * 1 <= x * TAR_BLOCKSIZE
    BY <1>0
  <2> QED
    BY <1>8, <2>1
<1> DEFINE IsCount(n) == n * TAR_BLOCKSIZE >= x
                         /\ \A m \in 0 .. x : m * TAR_BLOCKSIZE >= x => n <= m
<1>10. q \in 0 .. x /\ IsCount(q)
  BY <1>1, <1>3, <1>7, <1>8, <1>9
<1>11. ASSUME NEW n \in 0 .. x, IsCount(n) PROVE n = q
  <2>1. n <= q /\ q <= n
    BY <1>10, <1>11
  <2> QED
    BY <1>3, <2>1
<1>12. DataBlocks(x) = CHOOSE n \in 0 .. x : IsCount(n)
  BY Zenon DEF DataBlocks
<1> HIDE DEF IsCount
<1>13. DataBlocks(x) = q
  BY <1>10, <1>11, <1>12, Zenon
<1> QED
  BY <1>3, <1>5, <1>6, <1>13

(* The recursion of HeaderBlock, from the one that it is defined by.          *)
LEMMA HeaderLoop ==
  ASSUME NEW i \in 1 .. Len(DISK) + 1
  PROVE  \E at : /\ at[1] = 0
                 /\ \A k \in 1 .. i - 1 : at[k + 1] = at[k] + 1 + DataBlocks(DISK[k].size)
                 /\ HeaderBlock[i] = at[i]
<1> DEFINE G(v, k) == v + 1 + DataBlocks(DISK[k].size)
           P == {n \in 0 .. i - 1 : \E f : f = [k \in 1 .. n + 1 |-> IF k = 1 THEN 0 ELSE G(f[k - 1], k - 1)]}
<1> HIDE DEF G
<1>0. i \in Nat /\ i >= 1 /\ i - 1 \in Nat
  BY DiskFacts
<1>1. 0 \in P
  <2> DEFINE g == [k \in 1 .. 0 + 1 |-> 0]
  <2>1. \A k \in 1 .. 0 + 1 : k = 1
    OBVIOUS
  <2>2. g = [k \in 1 .. 0 + 1 |-> IF k = 1 THEN 0 ELSE G(g[k - 1], k - 1)]
    BY <2>1, Zenon
  <2>3. 0 \in 0 .. i - 1
    BY <1>0
  <2> HIDE DEF g
  <2> QED
    BY <2>2, <2>3, Zenon
<1>2. ASSUME NEW n \in 0 .. (i - 1) - 1, n \in P PROVE n + 1 \in P
  <2>0. n \in Nat /\ n + 1 \in 0 .. i - 1
    BY <1>0
  <2>1. PICK f : f = [k \in 1 .. n + 1 |-> IF k = 1 THEN 0 ELSE G(f[k - 1], k - 1)]
    BY <1>2, Zenon
  <2> DEFINE g == [k \in 1 .. (n + 1) + 1 |-> IF k = (n + 1) + 1 THEN G(f[n + 1], n + 1) ELSE f[k]]
  <2>2. ASSUME NEW k \in 1 .. (n + 1) + 1
        PROVE  g[k] = IF k = 1 THEN 0 ELSE G(g[k - 1], k - 1)
    <3>1. CASE k = 1
      <4>1. 1 \in 1 .. n + 1 /\ k # (n + 1) + 1
        BY <2>0, <3>1
      <4>2. f[1] = 0
        BY <2>1, <4>1
      <4> QED
        BY <3>1, <4>1, <4>2
    <3>2. CASE k = (n + 1) + 1
      <4>1. k - 1 = n + 1 /\ n + 1 \in 1 .. (n + 1) + 1 /\ n + 1 # (n + 1) + 1 /\ k # 1
        BY <2>0, <3>2
      <4>2. g[n + 1] = f[n + 1]
        BY <4>1
      <4> QED
        BY <3>2, <4>1, <4>2
    <3>3. CASE k # 1 /\ k # (n + 1) + 1
      <4>1. k \in 1 .. n + 1 /\ k - 1 \in 1 .. (n + 1) + 1 /\ k - 1 # (n + 1) + 1
        BY <2>0, <3>3
      <4>2. g[k - 1] = f[k - 1] /\ g[k] = f[k]
        BY <3>3, <4>1
      <4>3. f[k] = G(f[k - 1], k - 1)
        BY <2>1, <3>3, <4>1
      <4> QED
        BY <3>3, <4>2, <4>3
    <3> QED
      BY <3>1, <3>2, <3>3
  <2>3. g = [k \in 1 .. (n + 1) + 1 |-> IF k = 1 THEN 0 ELSE G(g[k - 1], k - 1)]
    BY <2>2, Zenon
  <2> HIDE DEF g
  <2> QED
    BY <2>0, <2>3, Zenon
<1>3. i - 1 \in P
  <2> HIDE DEF P
  <2>1. \A n \in 0 .. i - 1 : n \in P
    BY <1>0, <1>1, <1>2, Induction
  <2> QED
    BY <1>0, <2>1
<1>4. (i - 1) + 1 = i
  BY <1>0
<1>5. PICK f : f = [k \in 1 .. i |-> IF k = 1 THEN 0 ELSE G(f[k - 1], k - 1)]
  BY <1>3, <1>4, Zenon
<1> DEFINE at[k \in 1 .. i] == IF k = 1 THEN 0 ELSE G(at[k - 1], k - 1)
<1>6. at = [k \in 1 .. i |-> IF k = 1 THEN 0 ELSE G(at[k - 1], k - 1)]
  BY <1>5, Zenon
<1>7. HeaderBlock[i] = at[i]
  BY Zenon DEF HeaderBlock, G
<1> HIDE DEF at
<1>8. at[1] = 0
  BY <1>0, <1>6
<1>9. ASSUME NEW k \in 1 .. i - 1 PROVE at[k + 1] = at[k] + 1 + DataBlocks(DISK[k].size)
  <2>1. k + 1 \in 1 .. i /\ k + 1 # 1 /\ (k + 1) - 1 = k
    BY <1>0
  <2>2. at[k + 1] = G(at[k], k)
    BY <1>6, <2>1
  <2> QED
    BY <2>2 DEF G
<1> QED
  BY <1>7, <1>8, <1>9

(* Each header is behind the data of the file before.                         *)
LEMMA HeaderNext ==
  /\ HeaderBlock[1] = 0
  /\ \A i \in Entry : HeaderBlock[i + 1] = HeaderBlock[i] + 1 + DataBlocks(DISK[i].size)
<1>1. HeaderBlock[1] = 0
  BY HeaderLoop, DiskFacts
<1>2. ASSUME NEW i \in Entry
      PROVE  HeaderBlock[i + 1] = HeaderBlock[i] + 1 + DataBlocks(DISK[i].size)
  <2>0. i \in Nat /\ i >= 1 /\ i \in 1 .. Len(DISK) + 1 /\ i + 1 \in 1 .. Len(DISK) + 1 /\ (i + 1) - 1 = i
    BY DiskFacts DEF Entry
  <2>1. PICK a : /\ a[1] = 0
                 /\ \A k \in 1 .. i - 1 : a[k + 1] = a[k] + 1 + DataBlocks(DISK[k].size)
                 /\ HeaderBlock[i] = a[i]
    BY <2>0, HeaderLoop
  <2>2. PICK b : /\ b[1] = 0
                 /\ \A k \in 1 .. i : b[k + 1] = b[k] + 1 + DataBlocks(DISK[k].size)
                 /\ HeaderBlock[i + 1] = b[i + 1]
    <3>1. \E b : /\ b[1] = 0
                 /\ \A k \in 1 .. (i + 1) - 1 : b[k + 1] = b[k] + 1 + DataBlocks(DISK[k].size)
                 /\ HeaderBlock[i + 1] = b[i + 1]
      BY <2>0, HeaderLoop
    <3> QED
      BY <2>0, <3>1
  <2> DEFINE P == {n \in 0 .. i - 1 : a[n + 1] = b[n + 1]}
  <2>3. 0 \in P
    BY <2>0, <2>1, <2>2
  <2>4. ASSUME NEW n \in 0 .. (i - 1) - 1, n \in P PROVE n + 1 \in P
    <3>1. n + 1 \in 1 .. i - 1 /\ n + 1 \in 1 .. i /\ n + 1 \in 0 .. i - 1
      BY <2>0
    <3>2. a[(n + 1) + 1] = b[(n + 1) + 1]
      BY <2>1, <2>2, <2>4, <3>1
    <3> QED
      BY <3>1, <3>2
  <2>5. i - 1 \in P
    <3> HIDE DEF P
    <3>1. i - 1 \in Nat
      BY <2>0
    <3>2. \A n \in 0 .. i - 1 : n \in P
      BY <2>3, <2>4, <3>1, Induction
    <3> QED
      BY <3>1, <3>2
  <2>6. a[i] = b[i]
    BY <2>0, <2>5
  <2> QED
    BY <2>0, <2>1, <2>2, <2>6
<1> QED
  BY <1>1, <1>2

(* The headers are in the order of the files.                                 *)
LEMMA HeaderOrder ==
  /\ \A i \in 1 .. Len(DISK) + 1 : HeaderBlock[i] \in Nat
  /\ \A i, j \in 1 .. Len(DISK) + 1 : i < j => HeaderBlock[i] < HeaderBlock[j]
<1>0. PICK n \in Nat : n = Len(DISK)
  BY DiskFacts
<1>1. \A i \in Entry : DataBlocks(DISK[i].size) \in Nat
  BY DiskFacts, RoundUp
<1> DEFINE Good(k) == /\ \A i \in 1 .. k + 1 : HeaderBlock[i] \in Nat
                      /\ \A i \in 1 .. k : HeaderBlock[i] < HeaderBlock[k + 1]
           P == {k \in 0 .. n : Good(k)}
<1>2. 0 \in P
  BY <1>0, HeaderNext
<1>3. ASSUME NEW k \in 0 .. n - 1, k \in P PROVE k + 1 \in P
  <2>1. Good(k) /\ k + 1 \in Entry /\ k + 1 \in 0 .. n /\ HeaderBlock[k + 1] \in Nat
    BY <1>0, <1>3 DEF Entry
  <2>2. PICK d \in Nat : HeaderBlock[(k + 1) + 1] = HeaderBlock[k + 1] + 1 + d
    BY <1>1, <2>1, HeaderNext
  <2>3. HeaderBlock[(k + 1) + 1] \in Nat /\ HeaderBlock[k + 1] < HeaderBlock[(k + 1) + 1]
    BY <2>1, <2>2
  <2>4. ASSUME NEW i \in 1 .. k + 1 PROVE HeaderBlock[i] < HeaderBlock[(k + 1) + 1]
    <3>1. CASE i = k + 1
      BY <2>3, <3>1
    <3>2. CASE i # k + 1
      <4>1. i \in 1 .. k
        BY <3>2
      <4>2. HeaderBlock[i] < HeaderBlock[k + 1]
        BY <2>1, <4>1
      <4>3. HeaderBlock[i] \in Nat
        BY <2>1, <2>4
      <4> QED
        BY <2>1, <2>2, <4>2, <4>3
    <3> QED
      BY <3>1, <3>2
  <2>5. ASSUME NEW i \in 1 .. (k + 1) + 1 PROVE HeaderBlock[i] \in Nat
    <3>1. i = (k + 1) + 1 \/ i \in 1 .. k + 1
      OBVIOUS
    <3> QED
      BY <2>1, <2>3, <3>1
  <2> QED
    BY <2>1, <2>4, <2>5
<1>4. \A k \in 0 .. n : Good(k)
  <2>1. \A k \in 0 .. n : k \in P
    <3> HIDE DEF P
    <3> QED
      BY <1>2, <1>3, Induction
  <2> QED
    BY <2>1
<1>5. ASSUME NEW i \in 1 .. n + 1 PROVE HeaderBlock[i] \in Nat
  <2>1. i - 1 \in 0 .. n /\ (i - 1) + 1 = i
    OBVIOUS
  <2>2. Good(i - 1)
    BY <1>4, <2>1
  <2> QED
    BY <2>1, <2>2
<1>6. ASSUME NEW i \in 1 .. n + 1, NEW j \in 1 .. n + 1, i < j PROVE HeaderBlock[i] < HeaderBlock[j]
  <2>1. j - 1 \in 0 .. n /\ (j - 1) + 1 = j /\ i \in 1 .. j - 1
    BY <1>6
  <2>2. Good(j - 1)
    BY <1>4, <2>1
  <2> QED
    BY <2>1, <2>2
<1> QED
  BY <1>0, <1>5, <1>6

(* What the code reads at a header, and behind the last file.                 *)
LEMMA HeaderFacts ==
  /\ \A i \in Entry : /\ HeaderBlock[i] \in Block /\ HeaderBlock[i] \in Nat
                      /\ Header(HeaderBlock[i]) = DISK[i]
                      /\ tar_is_valid(HeaderBlock[i])
                      /\ tar_to_next(HeaderBlock[i]) = HeaderBlock[i + 1]
  /\ ~tar_is_valid(HeaderBlock[Len(DISK) + 1])
  /\ HeaderBlock[Len(DISK) + 1] \in Nat
  /\ \A b : tar_is_valid(b) => \E i \in Entry : b = HeaderBlock[i]
<1>0. PICK n \in Nat : n = Len(DISK)
  BY DiskFacts
<1>1. \A i, j \in 1 .. n + 1 : HeaderBlock[i] = HeaderBlock[j] => i = j
  <2> SUFFICES ASSUME NEW i \in 1 .. n + 1, NEW j \in 1 .. n + 1, i # j
               PROVE  HeaderBlock[i] # HeaderBlock[j]
    OBVIOUS
  <2>1. HeaderBlock[i] \in Nat /\ HeaderBlock[j] \in Nat
    BY <1>0, HeaderOrder
  <2>2. i < j \/ j < i
    OBVIOUS
  <2>3. HeaderBlock[i] < HeaderBlock[j] \/ HeaderBlock[j] < HeaderBlock[i]
    BY <1>0, <2>2, HeaderOrder
  <2> QED
    BY <2>1, <2>3
<1>2. Entry \subseteq 1 .. n + 1 /\ n + 1 \in 1 .. n + 1 /\ n + 1 \notin Entry /\ Entry = 1 .. n
  BY <1>0 DEF Entry
<1>3. \A b : HeaderAt(b) = {i \in Entry : HeaderBlock[i] = b}
  BY DEF HeaderAt, Entry
<1>4. ASSUME NEW i \in Entry
      PROVE  /\ HeaderBlock[i] \in Block /\ HeaderBlock[i] \in Nat
             /\ Header(HeaderBlock[i]) = DISK[i]
             /\ tar_is_valid(HeaderBlock[i])
             /\ tar_to_next(HeaderBlock[i]) = HeaderBlock[i + 1]
  <2>1. HeaderBlock[i] \in Block /\ HeaderBlock[i] \in Nat
    <3>1. i \in 1 .. Len(DISK) + 1 /\ n + 1 \in 1 .. Len(DISK) + 1 /\ i < n + 1
      BY <1>0, <1>2
    <3>2. /\ HeaderBlock[i] \in Nat /\ HeaderBlock[n + 1] \in Nat
          /\ HeaderBlock[i] < HeaderBlock[n + 1]
      BY <3>1, HeaderOrder
    <3> QED
      BY <1>0, <3>2 DEF Block
  <2>2. HeaderAt(HeaderBlock[i]) = {i}
    BY <1>1, <1>2, <1>3
  <2>3. Header(HeaderBlock[i]) = DISK[i]
    <3>1. (CHOOSE j \in {i} : TRUE) = i
      OBVIOUS
    <3> QED
      BY <2>2, <3>1 DEF Header
  <2>4. tar_is_valid(HeaderBlock[i])
    BY <2>3, DiskFacts DEF tar_is_valid
  <2>5. tar_to_next(HeaderBlock[i]) = HeaderBlock[i + 1]
    <3>1. PICK x \in Nat : x = DISK[i].size
      BY DiskFacts
    <3>2. /\ DataBlocks(x) \in Nat
          /\ ROUND_UP_POW2(x, TAR_BLOCKSIZE) \div TAR_BLOCKSIZE = DataBlocks(x)
      BY RoundUp
    <3>3. tar_num_blocks_for_file(HeaderBlock[i]) = 1 + DataBlocks(x)
      BY <2>3, <3>1, <3>2 DEF tar_num_blocks_for_file, tar_filesize
    <3>4. HeaderBlock[i + 1] = HeaderBlock[i] + 1 + DataBlocks(x)
      BY <3>1, HeaderNext
    <3> QED
      BY <2>1, <3>2, <3>3, <3>4 DEF tar_to_next
  <2> QED
    BY <2>1, <2>3, <2>4, <2>5
<1>5. ~tar_is_valid(HeaderBlock[n + 1])
  <2>1. HeaderAt(HeaderBlock[n + 1]) = {}
    BY <1>1, <1>2, <1>3
  <2> QED
    BY <2>1 DEF tar_is_valid, Header
<1>6. ASSUME NEW b, tar_is_valid(b) PROVE \E i \in Entry : b = HeaderBlock[i]
  BY <1>3, <1>6 DEF tar_is_valid, Header
<1>7. HeaderBlock[n + 1] \in Nat
  BY <1>0, <1>2, HeaderOrder
<1> QED
  BY <1>0, <1>4, <1>5, <1>6, <1>7

(* The walk of tar_open: it is defined at every block, and ends at the file   *)
(* of that name.                                                              *)
LEMMA FindsFile ==
  ASSUME NEW j \in Entry
  PROVE  TarFind(DISK[j].name) = HeaderBlock[j]
<1>0. PICK n \in Nat, path \in {DISK[j].name} : n = Len(DISK) /\ path = DISK[j].name
  BY DiskFacts
<1>1. Entry = 1 .. n /\ j \in Nat /\ j >= 1 /\ j <= n
  BY <1>0 DEF Entry
<1>2. \A i \in Entry : DISK[i].name = path <=> i = j
  BY <1>0, DiskFacts
<1> DEFINE Rec(f, b) == IF ~tar_is_valid(b) THEN NULL
                        ELSE IF Header(b).name = path THEN b ELSE f[tar_to_next(b)]
<1>3. ASSUME NEW f, NEW i \in Entry
      PROVE  Rec(f, HeaderBlock[i]) = IF i = j THEN HeaderBlock[i] ELSE f[HeaderBlock[i + 1]]
  BY <1>2, HeaderFacts
<1>4. ASSUME NEW f, NEW b, ~tar_is_valid(b) PROVE Rec(f, b) = NULL
  BY <1>4
<1> HIDE DEF Rec
<1>5. \E f : f = [b \in Nat |-> Rec(f, b)]
  <2> DEFINE g == [b \in Nat |-> IF tar_is_valid(b) /\ b <= HeaderBlock[j] THEN HeaderBlock[j] ELSE NULL]
  <2>1. ASSUME NEW b \in Nat PROVE g[b] = Rec(g, b)
    <3>1. CASE ~tar_is_valid(b)
      <4>1. g[b] = NULL
        BY <3>1
      <4> QED
        BY <1>4, <3>1, <4>1
    <3>2. CASE tar_is_valid(b)
      <4>1. PICK i \in Entry : b = HeaderBlock[i]
        BY <3>2, HeaderFacts
      <4>2. /\ i \in 1 .. Len(DISK) + 1 /\ j \in 1 .. Len(DISK) + 1 /\ i + 1 \in 1 .. Len(DISK) + 1
            /\ i \in Nat
        BY <1>0, <1>1
      <4>3. HeaderBlock[i] \in Nat /\ HeaderBlock[j] \in Nat /\ HeaderBlock[i + 1] \in Nat
        BY <4>2, HeaderOrder
      <4>4. CASE i = j
        <5>1. g[b] = HeaderBlock[j]
          BY <3>2, <4>1, <4>3, <4>4
        <5> HIDE DEF g
        <5> QED
          BY <1>3, <4>1, <4>4, <5>1
      <4>5. CASE i < j
        <5>1. i + 1 \in Entry /\ (i + 1 = j \/ i + 1 < j)
          BY <1>1, <4>2, <4>5
        <5>2. HeaderBlock[i] < HeaderBlock[j] /\ HeaderBlock[i + 1] <= HeaderBlock[j]
          BY <4>2, <4>3, <4>5, <5>1, HeaderOrder
        <5>3. tar_is_valid(HeaderBlock[i + 1])
          BY <5>1, HeaderFacts
        <5>4. g[b] = HeaderBlock[j] /\ g[HeaderBlock[i + 1]] = HeaderBlock[j]
          BY <3>2, <4>1, <4>3, <5>2, <5>3
        <5>5. i # j
          BY <1>1, <4>2, <4>5
        <5> HIDE DEF g
        <5> QED
          BY <1>3, <4>1, <5>4, <5>5
      <4>6. CASE j < i
        <5>1. HeaderBlock[j] < HeaderBlock[i] /\ HeaderBlock[j] < HeaderBlock[i + 1]
          BY <1>1, <4>2, <4>6, HeaderOrder
        <5>2. ~(b <= HeaderBlock[j]) /\ ~(HeaderBlock[i + 1] <= HeaderBlock[j])
          BY <4>1, <4>3, <5>1
        <5>3. g[b] = NULL /\ g[HeaderBlock[i + 1]] = NULL
          BY <4>3, <5>2
        <5>4. i # j
          BY <1>1, <4>2, <4>6
        <5> HIDE DEF g
        <5> QED
          BY <1>3, <4>1, <5>3, <5>4
      <4> QED
        BY <1>1, <4>2, <4>4, <4>5, <4>6
    <3> QED
      BY <3>1, <3>2
  <2>2. g = [b \in Nat |-> Rec(g, b)]
    BY <2>1, Zenon
  <2> HIDE DEF g
  <2> QED
    BY <2>2, Zenon
<1> DEFINE from[b \in Nat] == Rec(from, b)
<1>6. from = [b \in Nat |-> Rec(from, b)]
  BY <1>5, Zenon
<1>7. TarFind(path) = from[0]
  BY Zenon DEF TarFind, Rec
<1> HIDE DEF from
<1>8. ASSUME NEW i \in Entry
      PROVE  from[HeaderBlock[i]] = IF i = j THEN HeaderBlock[i] ELSE from[HeaderBlock[i + 1]]
  <2>1. HeaderBlock[i] \in Nat
    BY HeaderFacts
  <2> QED
    BY <1>3, <1>6, <2>1
<1> DEFINE P == {d \in 0 .. j - 1 : from[HeaderBlock[j - d]] = HeaderBlock[j]}
<1>9. 0 \in P
  <2>1. from[HeaderBlock[j]] = HeaderBlock[j]
    BY <1>8
  <2> QED
    BY <1>1, <2>1
<1>10. ASSUME NEW d \in 0 .. (j - 1) - 1, d \in P PROVE d + 1 \in P
  <2>1. /\ d + 1 \in 0 .. j - 1 /\ j - (d + 1) \in Entry /\ j - (d + 1) # j
        /\ (j - (d + 1)) + 1 = j - d
    BY <1>1
  <2>2. from[HeaderBlock[j - (d + 1)]] = from[HeaderBlock[j - d]]
    BY <1>8, <2>1
  <2> QED
    BY <1>10, <2>1, <2>2
<1>11. j - 1 \in P
  <2> HIDE DEF P
  <2>1. j - 1 \in Nat
    BY <1>1
  <2>2. \A d \in 0 .. j - 1 : d \in P
    BY <1>9, <1>10, <2>1, Induction
  <2> QED
    BY <2>1, <2>2
<1>12. from[HeaderBlock[1]] = HeaderBlock[j]
  <2>1. j - (j - 1) = 1
    BY <1>1
  <2> QED
    BY <1>11, <2>1
<1> QED
  BY <1>0, <1>7, <1>12, HeaderNext

(* The walk of tar_getdents defines a function of the index.                  *)
LEMMA EntryLoop ==
  ASSUME NEW n \in Nat
  PROVE  \E c : /\ c[0] = 0
                /\ \A k \in 0 .. n - 1 : c[k + 1] = IF tar_is_valid(c[k]) THEN tar_to_next(c[k]) ELSE c[k]
                /\ TarEntry(n) = IF tar_is_valid(c[n]) THEN c[n] ELSE NULL
<1> DEFINE G(b) == IF tar_is_valid(b) THEN tar_to_next(b) ELSE b
           P == {k \in 0 .. n : \E f : f = [i \in 0 .. k |-> IF i = 0 THEN 0 ELSE G(f[i - 1])]}
<1> HIDE DEF G
<1>1. 0 \in P
  <2> DEFINE g == [i \in 0 .. 0 |-> 0]
  <2>1. \A i \in 0 .. 0 : i = 0
    OBVIOUS
  <2>2. g = [i \in 0 .. 0 |-> IF i = 0 THEN 0 ELSE G(g[i - 1])]
    BY <2>1, Zenon
  <2>3. 0 \in 0 .. n
    OBVIOUS
  <2> HIDE DEF g
  <2> QED
    BY <2>2, <2>3
<1>2. ASSUME NEW k \in 0 .. n - 1, k \in P PROVE k + 1 \in P
  <2>1. PICK f : f = [i \in 0 .. k |-> IF i = 0 THEN 0 ELSE G(f[i - 1])]
    BY <1>2
  <2> DEFINE g == [i \in 0 .. k + 1 |-> IF i = k + 1 THEN G(f[k]) ELSE f[i]]
  <2>2. ASSUME NEW i \in 0 .. k + 1
        PROVE  g[i] = IF i = 0 THEN 0 ELSE G(g[i - 1])
    <3>1. CASE i = 0
      <4>1. 0 \in 0 .. k /\ i # k + 1
        BY <1>2, <3>1
      <4>2. f[0] = 0
        BY <2>1, <4>1
      <4> QED
        BY <3>1, <4>1, <4>2
    <3>2. CASE i = k + 1
      <4>1. i - 1 = k /\ k \in 0 .. k + 1 /\ k # k + 1 /\ i # 0
        BY <1>2, <3>2
      <4>2. g[k] = f[k]
        BY <4>1
      <4> QED
        BY <3>2, <4>1, <4>2
    <3>3. CASE i # 0 /\ i # k + 1
      <4>1. i \in 0 .. k /\ i - 1 \in 0 .. k + 1 /\ i - 1 # k + 1
        BY <1>2, <3>3
      <4>2. g[i - 1] = f[i - 1] /\ g[i] = f[i]
        BY <3>3, <4>1
      <4>3. f[i] = G(f[i - 1])
        BY <2>1, <3>3, <4>1
      <4> QED
        BY <3>3, <4>2, <4>3
    <3> QED
      BY <3>1, <3>2, <3>3
  <2>3. g = [i \in 0 .. k + 1 |-> IF i = 0 THEN 0 ELSE G(g[i - 1])]
    BY <2>2, Zenon
  <2>4. k + 1 \in 0 .. n
    BY <1>2
  <2> HIDE DEF g
  <2> QED
    BY <2>3, <2>4
<1>3. n \in P
  <2> HIDE DEF P
  <2>1. \A k \in 0 .. n : k \in P
    BY <1>1, <1>2, Induction
  <2> QED
    BY <2>1
<1>4. PICK f : f = [i \in 0 .. n |-> IF i = 0 THEN 0 ELSE G(f[i - 1])]
  BY <1>3
<1> DEFINE cursor[i \in 0 .. n] == IF i = 0 THEN 0 ELSE G(cursor[i - 1])
<1>5. cursor = [i \in 0 .. n |-> IF i = 0 THEN 0 ELSE G(cursor[i - 1])]
  BY <1>4, Zenon
<1>6. TarEntry(n) = IF tar_is_valid(cursor[n]) THEN cursor[n] ELSE NULL
  BY Zenon DEF TarEntry, G
<1> HIDE DEF cursor
<1>7. cursor[0] = 0
  BY <1>5
<1>8. ASSUME NEW k \in 0 .. n - 1 PROVE cursor[k + 1] = G(cursor[k])
  <2>1. k + 1 \in 0 .. n /\ k + 1 # 0 /\ (k + 1) - 1 = k
    OBVIOUS
  <2> QED
    BY <1>5, <2>1
<1> QED
  BY <1>6, <1>7, <1>8 DEF G

(* tar_getdents finds the header of that number, and none behind the last.    *)
LEMMA FindsEntry ==
  ASSUME NEW p \in Nat
  PROVE  TarEntry(p) = IF p < Len(DISK) THEN HeaderBlock[p + 1] ELSE NULL
<1>0. PICK n \in Nat : n = Len(DISK)
  BY DiskFacts
<1>1. PICK c : /\ c[0] = 0
               /\ \A k \in 0 .. p - 1 : c[k + 1] = IF tar_is_valid(c[k]) THEN tar_to_next(c[k]) ELSE c[k]
               /\ TarEntry(p) = IF tar_is_valid(c[p]) THEN c[p] ELSE NULL
  BY EntryLoop
<1> DEFINE P == {k \in 0 .. p : c[k] = IF k < n THEN HeaderBlock[k + 1] ELSE HeaderBlock[n + 1]}
<1>2. 0 \in P
  BY <1>1, HeaderNext
<1>3. ASSUME NEW k \in 0 .. p - 1, k \in P PROVE k + 1 \in P
  <2>1. k + 1 \in 0 .. p /\ c[k + 1] = IF tar_is_valid(c[k]) THEN tar_to_next(c[k]) ELSE c[k]
    BY <1>1
  <2>2. CASE k < n
    <3>1. k + 1 \in Entry /\ c[k] = HeaderBlock[k + 1]
      BY <1>0, <1>3, <2>2 DEF Entry
    <3>2. c[k + 1] = HeaderBlock[(k + 1) + 1]
      BY <2>1, <3>1, HeaderFacts
    <3>3. k + 1 < n \/ k + 1 = n
      BY <2>2
    <3> QED
      BY <2>1, <3>2, <3>3
  <2>3. CASE ~(k < n)
    <3>1. c[k] = HeaderBlock[n + 1] /\ ~tar_is_valid(HeaderBlock[n + 1])
      BY <1>0, <1>3, <2>3, HeaderFacts
    <3>2. c[k + 1] = HeaderBlock[n + 1] /\ ~(k + 1 < n)
      BY <2>1, <2>3, <3>1
    <3> QED
      BY <2>1, <3>2
  <2> QED
    BY <2>2, <2>3
<1>4. p \in P
  <2> HIDE DEF P
  <2>1. \A k \in 0 .. p : k \in P
    BY <1>2, <1>3, Induction
  <2> QED
    BY <2>1
<1>5. CASE p < n
  <2>1. p + 1 \in Entry /\ c[p] = HeaderBlock[p + 1]
    BY <1>0, <1>4, <1>5 DEF Entry
  <2> QED
    BY <1>0, <1>1, <1>5, <2>1, HeaderFacts
<1>6. CASE ~(p < n)
  <2>1. c[p] = HeaderBlock[n + 1]
    BY <1>4, <1>6
  <2> QED
    BY <1>0, <1>1, <1>6, <2>1, HeaderFacts
<1> QED
  BY <1>5, <1>6

-----------------------------------------------------------------------------
(* What is read and listed. *)

FileRec == [valid : BOOLEAN, type : {"none", "regular", "directory", "console"},
            inode : Block \cup {NULL}, pos : Nat, tty : Console \cup {NULL}]

(* The offsets up to p, the n offsets behind them, and the names of the first p files. *)
Offsets(p) == [i \in 1 .. p |-> i - 1]
More(p, n) == [i \in 1 .. n |-> p + i - 1]
Names(p) == [i \in 1 .. p |-> DISK[i].name]

(* An entry s of the table with its histories: a regular file is one of the  *)
(* archive and was read up to its position, a directory listed up to it.     *)
IsSound(s, bytes, names) ==
  /\ s.type = "regular" => s.inode # NULL
  /\ s.valid /\ s.type = "regular" =>
       /\ \E i \in Entry : s.inode = HeaderBlock[i] /\ s.pos <= DISK[i].size
       /\ bytes = Offsets(s.pos)
  /\ s.valid /\ s.type = "directory" => s.pos <= Len(DISK) /\ names = Names(s.pos)

ContentsFollow ==
  /\ filetab \in [File -> FileRec]
  /\ taken \in [File -> Seq(Nat)]
  /\ listed \in [File -> Seq(Name)]
  /\ \A f \in File : IsSound(filetab[f], taken[f], listed[f])

PanicTyped == panic \in {"no", "no files", "no device", "read-only", "no slot", "no header"}

(* The inductive invariant of the contents. *)
ContentsInvariant == FilesInvariant /\ PanicTyped /\ ContentsFollow

(* Sequences of offsets and of names.                                         *)
LEMMA OffsetsFacts ==
  ASSUME NEW a \in Nat, NEW b \in Nat
  PROVE  /\ Offsets(a) \in Seq(Nat) /\ More(a, b) \in Seq(Nat)
         /\ Offsets(a) \o More(a, b) = Offsets(a + b)
<1>1. PICK s, t, u : s = Offsets(a) /\ t = More(a, b) /\ u = Offsets(a + b)
  OBVIOUS
<1>2. s \in Seq(Nat) /\ Len(s) = a /\ \A i \in 1 .. a : s[i] = i - 1
  BY <1>1 DEF Offsets
<1>3. t \in Seq(Nat) /\ Len(t) = b /\ \A i \in 1 .. b : t[i] = a + i - 1
  BY <1>1 DEF More
<1>4. u \in Seq(Nat) /\ Len(u) = a + b /\ \A i \in 1 .. a + b : u[i] = i - 1
  BY <1>1 DEF Offsets
<1>5. PICK w : w = s \o t
  OBVIOUS
<1>6. /\ w \in Seq(Nat) /\ Len(w) = a + b
      /\ \A i \in 1 .. a + b : w[i] = IF i <= a THEN s[i] ELSE t[i - a]
  BY <1>2, <1>3, <1>5, ConcatProperties
<1>7. ASSUME NEW i \in 1 .. a + b PROVE w[i] = i - 1
  <2>1. CASE i <= a
    BY <1>2, <1>6, <2>1
  <2>2. CASE ~(i <= a)
    <3>1. i - a \in 1 .. b /\ a + (i - a) - 1 = i - 1
      BY <2>2
    <3> QED
      BY <1>3, <1>6, <2>2, <3>1
  <2> QED
    BY <2>1, <2>2
<1>8. w = u
  <2>1. Len(w) = Len(u) /\ \A i \in 1 .. Len(w) : w[i] = u[i]
    BY <1>4, <1>6, <1>7
  <2> QED
    BY <1>4, <1>6, <2>1, SeqEqual
<1> QED
  BY <1>1, <1>2, <1>3, <1>5, <1>8

(* One name more is listed.                                                   *)
LEMMA NamesFacts ==
  ASSUME NEW p \in Nat, p < Len(DISK)
  PROVE  Names(p) \in Seq(Name) /\ Append(Names(p), DISK[p + 1].name) = Names(p + 1)
<1>0. PICK n \in Nat : n = Len(DISK) /\ Entry = 1 .. n /\ p < n
  BY DiskFacts DEF Entry
<1>1. \A i \in 1 .. p + 1 : DISK[i].name \in Name
  BY <1>0, DiskFacts
<1>2. PICK s, u, e : s = Names(p) /\ u = Names(p + 1) /\ e = DISK[p + 1].name
  OBVIOUS
<1>3. s \in Seq(Name) /\ Len(s) = p /\ \A i \in 1 .. p : s[i] = DISK[i].name
  BY <1>1, <1>2 DEF Names
<1>4. u \in Seq(Name) /\ Len(u) = p + 1 /\ \A i \in 1 .. p + 1 : u[i] = DISK[i].name
  BY <1>1, <1>2 DEF Names
<1>5. e \in Name
  BY <1>1, <1>2
<1>6. PICK w : w = Append(s, e)
  OBVIOUS
<1>7. /\ w \in Seq(Name) /\ Len(w) = p + 1 /\ w[p + 1] = e
      /\ \A i \in 1 .. p : w[i] = s[i]
  BY <1>3, <1>5, <1>6, AppendProperties
<1>8. ASSUME NEW i \in 1 .. p + 1 PROVE w[i] = u[i]
  <2>1. i = p + 1 \/ i \in 1 .. p
    OBVIOUS
  <2> QED
    BY <1>2, <1>3, <1>4, <1>7, <1>8, <2>1
<1>9. w = u
  <2>1. Len(w) = Len(u) /\ \A i \in 1 .. Len(w) : w[i] = u[i]
    BY <1>4, <1>7, <1>8
  <2> QED
    BY <1>4, <1>7, <2>1, SeqEqual
<1> QED
  BY <1>2, <1>3, <1>6, <1>9

(* A read of n bytes of the entry s leaves it as r. *)
IsRead(s, bytes, names, len, n, r) ==
  /\ s \in FileRec /\ IsSound(s, bytes, names) /\ s.valid /\ s.type = "regular"
  /\ len \in Nat /\ n = TarReadCount(s.inode, len, s.pos)
  /\ r = [s EXCEPT !.pos = s.pos + n]

(* _tar_read copies no byte behind the end of the file.                       *)
LEMMA ReadFile ==
  ASSUME NEW s, NEW bytes, NEW names, NEW len, NEW n, NEW r, IsRead(s, bytes, names, len, n, r)
  PROVE  n \in Nat /\ r \in FileRec /\ IsSound(r, bytes \o More(s.pos, n), names)
<1> USE DEF IsRead
<1>1. PICK p \in Nat : p = s.pos
  BY DEF FileRec
<1>2. PICK i \in Entry : s.inode = HeaderBlock[i] /\ p <= DISK[i].size
  BY <1>1 DEF IsSound
<1>3. PICK z \in Nat : z = DISK[i].size
  BY DiskFacts
<1>4. tar_filesize(s.inode) = z
  BY <1>2, <1>3, HeaderFacts DEF tar_filesize
<1>5. n = IF z = 0 \/ p > z THEN 0 ELSE IF len < z - p THEN len ELSE z - p
  BY <1>1, <1>4, Zenon DEF TarReadCount
<1>6. n \in Nat /\ p + n <= z /\ p + n \in Nat
  BY <1>2, <1>3, <1>5
<1>7. /\ r \in FileRec /\ r.pos = p + n /\ r.valid = s.valid /\ r.type = s.type
      /\ r.inode = s.inode
  <2>1. PICK m \in Nat : m = p + n
    BY <1>6
  <2>2. r = [s EXCEPT !.pos = m]
    BY <1>1, <2>1
  <2> QED
    BY <2>1, <2>2 DEF FileRec
<1>8. bytes = Offsets(p) /\ s.inode # NULL
  BY <1>1 DEF IsSound
<1>9. bytes \o More(p, n) = Offsets(p + n)
  BY <1>1, <1>6, <1>8, OffsetsFacts
<1>10. PICK q : q = p + n /\ q <= DISK[i].size
  BY <1>3, <1>6
<1>11. IsSound(r, Offsets(q), names)
  BY <1>2, <1>7, <1>8, <1>10, Zenon DEF IsSound
<1> QED
  BY <1>1, <1>6, <1>7, <1>9, <1>10, <1>11

(* tar_getdents returns the name at the position of the directory.            *)
LEMMA ListFile ==
  ASSUME NEW s \in FileRec, NEW bytes, NEW names, IsSound(s, bytes, names),
         s.valid, s.type = "directory", NEW b, b = TarEntry(s.pos), b # NULL,
         NEW r, r = [s EXCEPT !.pos = s.pos + 1]
  PROVE  /\ r \in FileRec /\ Header(b).name \in Name
         /\ IsSound(r, bytes, Append(names, Header(b).name))
<1>1. PICK p \in Nat : p = s.pos
  BY DEF FileRec
<1>2. p < Len(DISK) /\ b = HeaderBlock[p + 1]
  BY <1>1, FindsEntry
<1>3. p + 1 \in Entry /\ p + 1 <= Len(DISK) /\ p + 1 \in Nat
  BY <1>2, DiskFacts DEF Entry
<1>4. Header(b) = DISK[p + 1] /\ DISK[p + 1].name \in Name
  BY <1>2, <1>3, HeaderFacts, DiskFacts
<1>5. /\ r \in FileRec /\ r.pos = p + 1 /\ r.valid = s.valid /\ r.type = s.type
      /\ r.inode = s.inode
  <2>1. PICK m \in Nat : m = p + 1
    BY <1>3
  <2>2. r = [s EXCEPT !.pos = m]
    BY <1>1, <2>1
  <2> QED
    BY <2>1, <2>2 DEF FileRec
<1>6. names = Names(p)
  BY <1>1 DEF IsSound
<1>7. Append(names, Header(b).name) = Names(p + 1)
  BY <1>2, <1>4, <1>6, NamesFacts
<1>8. PICK q : q = p + 1 /\ q <= Len(DISK)
  BY <1>3
<1>9. IsSound(r, bytes, Names(q))
  BY <1>5, <1>8 DEF IsSound
<1> QED
  BY <1>4, <1>5, <1>7, <1>8, <1>9

(* tar_open starts at the first byte, and a directory at the first name.      *)
LEMMA OpenedFile ==
  ASSUME NEW path, OnDisk(path)
  PROVE  DiskFile(path) \in FileRec /\ IsSound(DiskFile(path), << >>, << >>)
<1>1. PICK s : s = DiskFile(path)
  OBVIOUS
<1>2. Offsets(0) = << >> /\ Names(0) = << >>
  BY DEF Offsets, Names
<1>3. CASE path = "/"
  <2>1. /\ s = [valid |-> TRUE, type |-> "directory", inode |-> NULL, pos |-> 0, tty |-> NULL]
    BY <1>1, <1>3 DEF DiskFile
  <2>2. s \in FileRec /\ s.type = "directory" /\ s.pos = 0
    BY <2>1 DEF FileRec
  <2>3. 0 <= Len(DISK)
    BY DiskFacts
  <2>4. "directory" # "regular"
    OBVIOUS
  <2>5. IsSound(s, << >>, << >>)
    BY <1>2, <2>2, <2>3, <2>4, Zenon DEF IsSound
  <2> QED
    BY <1>1, <2>2, <2>5
<1>4. CASE path # "/"
  <2>1. PICK i \in Entry : path = DISK[i].name
    BY <1>4, DiskFacts DEF OnDisk, Name
  <2>2. PICK b : b = HeaderBlock[i] /\ b = TarFind(path)
    BY <2>1, FindsFile
  <2>3. b \in Block /\ b \in Nat /\ b # NULL
    <3>1. b \in Block /\ b \in Nat
      BY <2>2, HeaderFacts
    <3>2. NULL \notin Nat
      BY DiskFacts
    <3> QED
      BY <3>1, <3>2
  <2>4. s = [valid |-> TRUE, type |-> "regular", inode |-> b, pos |-> 0, tty |-> NULL]
    BY <1>1, <1>4, <2>2 DEF DiskFile
  <2>5. s \in FileRec /\ s.type = "regular" /\ s.pos = 0 /\ s.inode = b
    BY <2>3, <2>4 DEF FileRec
  <2>6. 0 <= DISK[i].size /\ "directory" # "regular"
    BY DiskFacts
  <2>7. IsSound(s, << >>, << >>)
    BY <1>2, <2>2, <2>3, <2>5, <2>6, Zenon DEF IsSound
  <2> QED
    BY <1>1, <2>5, <2>7
<1> QED
  BY <1>3, <1>4

(* A call that changes one file.                                              *)
LEMMA OneFile ==
  ASSUME ContentsFollow, NEW f \in File,
         NEW s \in FileRec, NEW bytes \in Seq(Nat), NEW names \in Seq(Name), IsSound(s, bytes, names),
         filetab' = [filetab EXCEPT ![f] = s], taken' = [taken EXCEPT ![f] = bytes],
         listed' = [listed EXCEPT ![f] = names]
  PROVE  ContentsFollow'
<1>1. /\ filetab \in [File -> FileRec] /\ taken \in [File -> Seq(Nat)] /\ listed \in [File -> Seq(Name)]
      /\ \A g \in File : IsSound(filetab[g], taken[g], listed[g])
  BY DEF ContentsFollow
<1>2. /\ filetab' \in [File -> FileRec] /\ taken' \in [File -> Seq(Nat)] /\ listed' \in [File -> Seq(Name)]
  BY <1>1, Zenon
<1>3. filetab'[f] = s /\ taken'[f] = bytes /\ listed'[f] = names
  BY <1>1, Zenon
<1>4. \A g \in File : g # f => filetab'[g] = filetab[g] /\ taken'[g] = taken[g] /\ listed'[g] = listed[g]
  BY <1>1, Zenon
<1>5. \A g \in File : IsSound(filetab'[g], taken'[g], listed'[g])
  BY <1>1, <1>3, <1>4, Zenon
<1>6. \A g \in File : IsSound(filetab[g], taken[g], listed[g])'
  BY <1>5, Zenon DEF IsSound, Offsets, Names
<1> QED
  BY <1>2, <1>6, Zenon DEF ContentsFollow

(* A call that changes no file.                                               *)
LEMMA NoFileChanged ==
  ASSUME ContentsFollow, UNCHANGED <<filetab, taken, listed>>
  PROVE  ContentsFollow'
BY DEF ContentsFollow, IsSound

(* file_open for a descriptor, or for a program that is refused.              *)
LEMMA OpenContents ==
  ASSUME ContentsFollow, NEW path, NEW f \in File, file_open(path, f)
  PROVE  ContentsFollow'
<1>1. CASE UNCHANGED <<filetab, taken, listed>>
  BY <1>1, NoFileChanged
<1>2. CASE /\ OnDisk(path)
           /\ filetab' = [filetab EXCEPT ![f] = DiskFile(path)]
           /\ taken' = [taken EXCEPT ![f] = <<>>]
           /\ listed' = [listed EXCEPT ![f] = <<>>]
  <2>1. DiskFile(path) \in FileRec /\ IsSound(DiskFile(path), << >>, << >>)
    BY <1>2, OpenedFile
  <2>2. PICK bytes : bytes = << >> /\ bytes \in Seq(Nat)
    BY EmptySeq, Zenon
  <2>3. PICK names : names = << >> /\ names \in Seq(Name)
    BY EmptySeq, Zenon
  <2>4. PICK s \in FileRec : s = DiskFile(path)
    BY <2>1
  <2>5. IsSound(s, bytes, names)
    BY <2>1, <2>2, <2>3, <2>4, Zenon
  <2>6. /\ filetab' = [filetab EXCEPT ![f] = s] /\ taken' = [taken EXCEPT ![f] = bytes]
        /\ listed' = [listed EXCEPT ![f] = names]
    BY <1>2, <2>2, <2>3, <2>4, Zenon
  <2> QED
    BY <2>2, <2>3, <2>5, <2>6, OneFile, Zenon
<1> QED
  BY <1>1, <1>2, Zenon DEF file_open

(* file_close, and the end of the histories.                                  *)
LEMMA CloseContents ==
  ASSUME ContentsFollow, NEW F, NEW G, F \subseteq G, filetab' = Closed(F), Forget(G),
         \A f \in G : f \in F \/ f \notin File
  PROVE  ContentsFollow'
<1>1. /\ filetab \in [File -> FileRec] /\ taken \in [File -> Seq(Nat)] /\ listed \in [File -> Seq(Name)]
      /\ \A g \in File : IsSound(filetab[g], taken[g], listed[g])
  BY DEF ContentsFollow
<1>2. NoFile \in FileRec /\ NoFile.type = "none"
  BY DEF NoFile, FileRec
<1>3. << >> \in Seq(Nat) /\ << >> \in Seq(Name)
  BY EmptySeq, Zenon
<1>4. filetab' \in [File -> FileRec]
  BY <1>1, <1>2, Zenon DEF Closed
<1>5. taken' \in [File -> Seq(Nat)] /\ listed' \in [File -> Seq(Name)]
  BY <1>1, <1>3, Zenon DEF Forget
<1>6. "none" # "regular" /\ "none" # "directory" /\ "console" # "regular" /\ "console" # "directory"
  OBVIOUS
<1>7. ASSUME NEW f \in File PROVE IsSound(filetab'[f], taken'[f], listed'[f])
  <2>1. CASE f \notin G
    <3>1. filetab'[f] = filetab[f]
      BY <2>1, Zenon DEF Closed
    <3>2. taken'[f] = taken[f] /\ listed'[f] = listed[f]
      BY <2>1, Zenon DEF Forget
    <3> QED
      BY <1>1, <3>1, <3>2, Zenon
  <2>2. CASE f \in G
    <3>1. filetab'[f] = NoFile \/ (filetab'[f] = filetab[f] /\ filetab[f].type = "console")
      BY <2>2, Zenon DEF Closed
    <3>2. filetab'[f].type = "none" \/ filetab'[f].type = "console"
      BY <1>2, <3>1, Zenon
    <3> QED
      BY <1>6, <3>2, Zenon DEF IsSound
  <2> QED
    BY <2>1, <2>2
<1>8. \A f \in File : IsSound(filetab[f], taken[f], listed[f])'
  BY <1>7, Zenon DEF IsSound, Offsets, Names
<1> QED
  BY <1>4, <1>5, <1>8, Zenon DEF ContentsFollow

(* sys_read and sys_getdents: the file is open, as its descriptor is.         *)
LEMMA ReadContents ==
  ASSUME FilesInvariant, ContentsFollow, NEW t \in Task, NEW fd \in Fd, NEW len \in READ_LENS,
         sys_read(t, fd, len)
  PROVE  ContentsFollow'
<1>1. PICK f, s, n : f = fds[t][fd] /\ s = filetab[f] /\ n = TarReadCount(s.inode, len, s.pos)
  OBVIOUS
<1>2. /\ f # NULL /\ s.type = "regular" /\ listed' = listed
      /\ filetab' = [filetab EXCEPT ![f].pos = @ + n]
      /\ taken' = [taken EXCEPT ![f] = @ \o [i \in 1 .. n |-> s.pos + i - 1]]
  BY <1>1, Zenon DEF sys_read, FdValid
<1>3. f \in File /\ s.valid
  <2>1. fds \in [Task -> [Fd -> File \cup {NULL}]] /\ HeldIsOpen
    BY DEF FilesInvariant, FdsTyped
  <2> QED
    BY <1>1, <1>2, <2>1, Zenon DEF HeldIsOpen
<1>4. /\ filetab \in [File -> FileRec] /\ taken \in [File -> Seq(Nat)] /\ listed \in [File -> Seq(Name)]
      /\ IsSound(s, taken[f], listed[f])
  BY <1>1, <1>3, Zenon DEF ContentsFollow
<1>5. s \in FileRec /\ len \in Nat /\ taken[f] \in Seq(Nat) /\ listed[f] \in Seq(Name)
  <2>1. len \in Nat
    BY FilesAssumption DEF FilesAssumption
  <2> QED
    BY <1>1, <1>3, <1>4, <2>1, Zenon
<1>6. PICK r : r = [s EXCEPT !.pos = s.pos + n]
  OBVIOUS
<1>7. PICK more, bytes : more = More(s.pos, n) /\ bytes = taken[f] \o more
  OBVIOUS
<1>8. n \in Nat /\ r \in FileRec /\ IsSound(r, bytes, listed[f])
  <2>1. PICK old, names : old = taken[f] /\ names = listed[f]
    OBVIOUS
  <2>2. IsRead(s, old, names, len, n, r)
    BY <1>1, <1>2, <1>3, <1>4, <1>5, <1>6, <2>1, Zenon DEF IsRead
  <2>3. n \in Nat /\ r \in FileRec /\ IsSound(r, old \o More(s.pos, n), names)
    BY <2>2, ReadFile, Zenon
  <2> QED
    BY <1>7, <2>1, <2>3, Zenon
<1>9. bytes \in Seq(Nat)
  <2>1. s.pos \in Nat
    BY <1>5 DEF FileRec
  <2>2. more \in Seq(Nat)
    BY <1>7, <1>8, <2>1, OffsetsFacts, Zenon
  <2> QED
    BY <1>5, <1>7, <2>2, ConcatProperties, Zenon
<1>10. filetab' = [filetab EXCEPT ![f] = r]
  BY <1>1, <1>2, <1>6, Zenon
<1>11. taken' = [taken EXCEPT ![f] = bytes]
  BY <1>2, <1>7, Zenon DEF More
<1>12. listed' = [listed EXCEPT ![f] = listed[f]]
  BY <1>2, <1>4, Zenon
<1> QED
  BY <1>3, <1>5, <1>8, <1>9, <1>10, <1>11, <1>12, OneFile, Zenon

(* The same for a directory.                                                  *)
LEMMA ListContents ==
  ASSUME FilesInvariant, ContentsFollow, NEW t \in Task, NEW fd \in Fd, sys_getdents(t, fd)
  PROVE  ContentsFollow'
<1>1. PICK f, s, b : f = fds[t][fd] /\ s = filetab[f] /\ b = TarEntry(s.pos)
  OBVIOUS
<1>2. /\ f # NULL /\ s.type = "directory" /\ b # NULL /\ taken' = taken
      /\ filetab' = [filetab EXCEPT ![f].pos = @ + 1]
      /\ listed' = [listed EXCEPT ![f] = Append(@, Header(b).name)]
  BY <1>1, Zenon DEF sys_getdents, FdValid
<1>3. f \in File /\ s.valid
  <2>1. fds \in [Task -> [Fd -> File \cup {NULL}]] /\ HeldIsOpen
    BY DEF FilesInvariant, FdsTyped
  <2> QED
    BY <1>1, <1>2, <2>1, Zenon DEF HeldIsOpen
<1>4. /\ filetab \in [File -> FileRec] /\ taken \in [File -> Seq(Nat)] /\ listed \in [File -> Seq(Name)]
      /\ IsSound(s, taken[f], listed[f])
  BY <1>1, <1>3, Zenon DEF ContentsFollow
<1>5. s \in FileRec /\ taken[f] \in Seq(Nat) /\ listed[f] \in Seq(Name)
  BY <1>1, <1>3, <1>4, Zenon
<1>6. PICK r : r = [s EXCEPT !.pos = s.pos + 1]
  OBVIOUS
<1>7. PICK names : names = Append(listed[f], Header(b).name)
  OBVIOUS
<1>8. r \in FileRec /\ Header(b).name \in Name /\ IsSound(r, taken[f], names)
  BY <1>1, <1>2, <1>3, <1>4, <1>5, <1>6, <1>7, ListFile, Zenon
<1>9. names \in Seq(Name)
  BY <1>5, <1>7, <1>8, AppendProperties, Zenon
<1>10. filetab' = [filetab EXCEPT ![f] = r]
  BY <1>1, <1>2, <1>6, Zenon
<1>11. listed' = [listed EXCEPT ![f] = names]
  BY <1>2, <1>7, Zenon
<1>12. taken' = [taken EXCEPT ![f] = taken[f]]
  BY <1>2, <1>4, Zenon
<1> QED
  BY <1>3, <1>5, <1>8, <1>9, <1>10, <1>11, <1>12, OneFile, Zenon

(* At the start only the consoles are open, and nothing was read.             *)
LEMMA ContentsInit == Init => ContentsInvariant
<1> SUFFICES ASSUME Init PROVE ContentsInvariant
  OBVIOUS
<1>1. /\ filetab = [f \in File |-> IF f \in Console THEN ConsoleFile(f) ELSE NoFile]
      /\ taken = [f \in File |-> << >>] /\ listed = [f \in File |-> << >>] /\ panic = "no"
  BY DEF Init
<1>2. NoFile \in FileRec /\ NoFile.type = "none"
  BY DEF NoFile, FileRec
<1>3. \A c \in Console : ConsoleFile(c) \in FileRec /\ ConsoleFile(c).type = "console"
  BY DEF ConsoleFile, FileRec
<1>4. << >> \in Seq(Nat) /\ << >> \in Seq(Name)
  BY EmptySeq, Zenon
<1>5. filetab \in [File -> FileRec] /\ taken \in [File -> Seq(Nat)] /\ listed \in [File -> Seq(Name)]
  BY <1>1, <1>2, <1>3, <1>4, Zenon
<1>6. "none" # "regular" /\ "none" # "directory" /\ "console" # "regular" /\ "console" # "directory"
  OBVIOUS
<1>7. ASSUME NEW f \in File PROVE IsSound(filetab[f], taken[f], listed[f])
  <2>1. filetab[f].type = "none" \/ filetab[f].type = "console"
    BY <1>1, <1>2, <1>3, Zenon
  <2> QED
    BY <1>6, <2>1, Zenon DEF IsSound
<1>8. PanicTyped
  BY <1>1 DEF PanicTyped
<1> QED
  BY <1>5, <1>7, <1>8, FilesInit DEF ContentsInvariant, ContentsFollow

(* No call makes a history and a position disagree.                           *)
LEMMA ContentsNext == ContentsInvariant /\ [Next]_vars => ContentsInvariant'
<1> SUFFICES ASSUME ContentsInvariant, [Next]_vars PROVE PanicTyped' /\ ContentsFollow'
  BY FilesNext DEF ContentsInvariant
<1>0. FilesInvariant /\ PanicTyped /\ ContentsFollow
  BY DEF ContentsInvariant
<1>1. ASSUME UNCHANGED <<filetab, taken, listed>>, PanicTyped' PROVE PanicTyped' /\ ContentsFollow'
  BY <1>0, <1>1, NoFileChanged
<1>2. ASSUME NEW r, Panic(r), r \in {"no files", "no device", "read-only", "no slot", "no header"}
      PROVE  PanicTyped' /\ ContentsFollow'
  BY <1>1, <1>2 DEF Panic, PanicTyped
<1>3. ASSUME NEW path, SpawnPanics(path) \/ OpenPanics(path) PROVE PanicTyped' /\ ContentsFollow'
  BY <1>2, <1>3 DEF SpawnPanics, OpenPanics
<1>4. ASSUME panic' = panic PROVE PanicTyped'
  BY <1>0, <1>4 DEF PanicTyped
<1>5. ASSUME NEW t, NEW path, NEW u, SpawnElf(t, u, path) PROVE PanicTyped' /\ ContentsFollow'
  BY <1>1, <1>4, <1>5 DEF SpawnElf
<1>6. ASSUME NEW t \in Task, valid[t], UserCall(t) PROVE PanicTyped' /\ ContentsFollow'
  <2>1. ASSUME NEW path, sys_open(t, path) PROVE PanicTyped' /\ ContentsFollow'
    BY <1>0, <1>4, <2>1, OpenContents DEF sys_open
  <2>2. ASSUME NEW path, SysOpenPanics(t, path) PROVE PanicTyped' /\ ContentsFollow'
    BY <1>3, <2>2 DEF SysOpenPanics
  <2>3. ASSUME NEW path, SpawnNotElf(path) PROVE PanicTyped' /\ ContentsFollow'
    BY <1>0, <1>4, <2>3, OpenContents DEF SpawnNotElf
  <2>4. ASSUME NEW fd \in Fd, NEW len \in READ_LENS, sys_read(t, fd, len)
        PROVE  PanicTyped' /\ ContentsFollow'
    <3>1. panic' = panic
      BY <2>4, Zenon DEF sys_read
    <3> QED
      BY <1>0, <1>4, <2>4, <3>1, ReadContents
  <2>5. ASSUME NEW fd \in Fd, sys_getdents(t, fd) PROVE PanicTyped' /\ ContentsFollow'
    <3>1. panic' = panic
      BY <2>5, Zenon DEF sys_getdents
    <3> QED
      BY <1>0, <1>4, <2>5, <3>1, ListContents
  <2>6. ASSUME NEW fd \in Fd, SysWritePanics(t, fd) PROVE PanicTyped' /\ ContentsFollow'
    BY <1>2, <2>6 DEF SysWritePanics
  <2>7. ASSUME NEW fd \in Fd, sys_close(t, fd) PROVE PanicTyped' /\ ContentsFollow'
    <3>1. PICK F : F = {fds[t][fd]}
      OBVIOUS
    <3>2. filetab' = Closed(F) /\ Forget(F) /\ panic' = panic
      BY <2>7, <3>1 DEF sys_close
    <3>3. ContentsFollow'
      BY <1>0, <3>2, CloseContents
    <3> QED
      BY <1>4, <3>2, <3>3
  <2> QED
    BY <1>3, <1>5, <1>6, <2>1, <2>2, <2>3, <2>4, <2>5, <2>6, <2>7 DEF UserCall
<1>7. ASSUME NEW t \in Task, free_task(t) PROVE PanicTyped' /\ ContentsFollow'
  <2>1. PICK F, G : G = {fds[t][fd] : fd \in Fd} /\ F = G \ {NULL}
    OBVIOUS
  <2>2. filetab' = Closed(F) /\ Forget(G) /\ panic' = panic
    BY <1>7, <2>1 DEF free_task
  <2>3. F \subseteq G /\ \A f \in G : f \in F \/ f \notin File
    BY <2>1, Sizes
  <2>4. ContentsFollow'
    BY <1>0, <2>2, <2>3, CloseContents
  <2> QED
    BY <1>4, <2>2, <2>4
<1>8. CASE UNCHANGED vars
  BY <1>1, <1>4, <1>8 DEF vars
<1> QED
  BY <1>3, <1>5, <1>6, <1>7, <1>8 DEF Next, RootCall, Halted

(* Reads of a file, with any lengths and with other calls in between, return  *)
(* its bytes in their order, each once and none behind its end.               *)
THEOREM ReadsInOrder == Spec => []ReadsAreSequential
<1>1. ContentsInvariant => ReadsAreSequential
  <2> SUFFICES ASSUME ContentsInvariant PROVE ReadsAreSequential
    OBVIOUS
  <2>1. FdsTyped /\ PanicTyped /\ ContentsFollow
    BY DEF ContentsInvariant, FilesInvariant
  <2>2. \A f \in File : filetab[f].type = "regular" => filetab[f].inode # NULL
    BY <2>1, Zenon DEF ContentsFollow, IsSound
  <2>3. TypeOK
    BY <2>1, <2>2, Zenon DEF TypeOK, FdsTyped, PanicTyped, ContentsFollow, FileRec
  <2>4. ASSUME NEW f \in File, filetab[f].valid, filetab[f].type = "regular"
        PROVE  /\ taken[f] = [i \in 1 .. filetab[f].pos |-> i - 1]
               /\ filetab[f].pos <= Header(filetab[f].inode).size
    <3>1. PICK i \in Entry : filetab[f].inode = HeaderBlock[i] /\ filetab[f].pos <= DISK[i].size
      BY <2>1, <2>4, Zenon DEF ContentsFollow, IsSound
    <3>2. taken[f] = Offsets(filetab[f].pos)
      BY <2>1, <2>4, Zenon DEF ContentsFollow, IsSound
    <3>3. Header(filetab[f].inode) = DISK[i]
      BY <3>1, HeaderFacts
    <3> QED
      BY <3>1, <3>2, <3>3, Zenon DEF Offsets
  <2> QED
    BY <2>3, <2>4, Zenon DEF ReadsAreSequential
<1> QED
  BY <1>1, ContentsInit, ContentsNext, PTL DEF Spec

(* getdents lists the files of the archive in their order, none twice and     *)
(* none left out, and tar_open finds each under its name, whatever the sizes  *)
(* of the files are.                                                          *)
THEOREM ListingIsWhole == Spec => []ListingIsComplete
<1>1. ContentsInvariant => ListingIsComplete
  <2> SUFFICES ASSUME ContentsInvariant PROVE ListingIsComplete
    OBVIOUS
  <2>1. \A f \in File : IsSound(filetab[f], taken[f], listed[f])
    BY DEF ContentsInvariant, ContentsFollow
  <2>2. \A i \in DOMAIN DISK : TarFind(DISK[i].name) = HeaderBlock[i]
    BY DiskFacts, FindsFile
  <2> QED
    BY <2>1, <2>2, Zenon DEF ListingIsComplete, IsSound, Names
<1> QED
  BY <1>1, ContentsInit, ContentsNext, PTL DEF Spec
=============================================================================
