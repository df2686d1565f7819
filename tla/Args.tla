-------------------------------- MODULE Args --------------------------------
(***************************************************************************)
(* How user memory is read in the address spaces of Memory: the range      *)
(* check access_ok with copyin (copyio.c), the arguments of a new program  *)
(* (copyin_args in arg.c), and the shell's splitting of a line into those  *)
(* arguments (user/shell.c).                                               *)
(*                                                                         *)
(* All of it is computed within one system call or one user program's      *)
(* loop: operators on the state of Memory, with no state of their own.     *)
(* Here an address is a number.  Its bits above BIT48 do not take part in  *)
(* a page walk.  The pointers at the start of the argument page are the    *)
(* field argv, its string area the field bytes.                            *)
(***************************************************************************)
EXTENDS Memory

CONSTANTS
  SMALL_PAGE_SIZE,
  TASK_ARG_LEN,     \* bytes copied per argument
  ARG_ALIGN,        \* alignment of the copies (8 in the code)
  MAX_ARGS,         \* pointers the shell has room for
  RANGE_LENS,       \* bound: lengths of the ranges that are checked
  BUF_OFFSETS,      \* bound: where on its stack page the shell has its line
  MAX_LINE          \* bound: characters of a line

ASSUME ArgsAssumption ==
  /\ NUM_PT_ENTRIES % 2 = 0
  /\ SMALL_PAGE_SIZE \in Nat \ {0}
  /\ TASK_ARG_LEN \in 2 .. SMALL_PAGE_SIZE
  /\ ARG_ALIGN \in Nat \ {0}
  /\ MAX_ARGS \in Nat \ {0}
  /\ RANGE_LENS \subseteq Nat
  /\ BUF_OFFSETS \subseteq 0 .. SMALL_PAGE_SIZE - 1
  /\ MAX_LINE \in 0 .. SMALL_PAGE_SIZE
  /\ \A off \in BUF_OFFSETS : off + MAX_LINE <= SMALL_PAGE_SIZE

(* page_size_in_bytes: what an entry that l indices lead to maps if it is a *)
(* leaf.                                                                    *)
PageSize ==
  LET large == SMALL_PAGE_SIZE * NUM_PT_ENTRIES
      giant == large * NUM_PT_ENTRIES
      super == giant * NUM_PT_ENTRIES
  IN  <<super, giant, large, SMALL_PAGE_SIZE>>

BIT48 == PageSize[1] * NUM_PT_ENTRIES
PAGES == BIT48 \div SMALL_PAGE_SIZE
ADDRESSES == 2 * BIT48             \* 2^64 in the code

-----------------------------------------------------------------------------
(* vm.c *)

(* get_pt_index, at every level. *)
get_pt_index(va) ==
  [l \in 1 .. N_PAGETABLE_LEVELS |-> (va \div PageSize[l]) % NUM_PT_ENTRIES]

get_page_size(h, root, va) ==
  LET w == walk_page(h, root, get_pt_index(va))
  IN  IF w = NULL THEN 0 ELSE PageSize[w.depth]

(* A giant page has no heap page: mapped means that the walk ends in a leaf. *)
is_page_mapped(h, root, va) == walk_page(h, root, get_pt_index(va)) # NULL

is_user_va(va) == va < BIT48

-----------------------------------------------------------------------------
(* copyio.c *)

(* Mutant: the walk goes on from the same offset in the next page. *)
NextPage_same_offset(c, pgsize) == c + pgsize

NextPage(c, pgsize) == c + pgsize - (c % pgsize)

(* The loop from cursor c on; user_va + len and the cursor wrap. *)
access_ok(h, t, user_va, len) ==
  LET end == (user_va + len) % ADDRESSES
      ok[c \in 0 .. ADDRESSES - 1] ==
        \/ c >= end
        \/ /\ t.taskmode = "MODE_USER" => is_user_va(c)
           /\ is_page_mapped(h, t.pagetable, c)
           /\ ok[NextPage(c, get_page_size(h, t.pagetable, c)) % ADDRESSES]
  IN  ok[user_va]

-----------------------------------------------------------------------------
(* user/shell.c: a line is a sequence of characters without its newline.    *)
(* The shell leaves it in a buffer of zeroes.                               *)
NUL == "nul"
SPACE == "space"
Char == {"a", SPACE}

At(line, i) == IF i \in DOMAIN line THEN line[i] ELSE NUL

StartsArg(line, i) == At(line, i) = SPACE /\ At(line, i + 1) \notin {SPACE, NUL}

(* The arguments, as offsets into the buffer, and the buffer with its       *)
(* spaces overwritten, for lines of fewer than MAX_ARGS words.              *)
SplitArgs(line) ==
  LET args[i \in 0 .. Len(line)] == IF i = 0 THEN <<0>>
                                    ELSE IF StartsArg(line, i) THEN Append(args[i - 1], i)
                                    ELSE args[i - 1]
  IN  args[Len(line)]

SplitBuf(line) == [i \in DOMAIN line |-> IF line[i] = SPACE THEN NUL ELSE line[i]]

-----------------------------------------------------------------------------
(* arg.c *)

DIRT == "dirt"       \* what an earlier user left in the page

strlen(buf, off) == (CHOOSE i \in off + 1 .. Len(buf) + 1 :
                       At(buf, i) = NUL /\ \A j \in off + 1 .. i - 1 : At(buf, j) # NUL) - off - 1

ROUND_UP(x, sz) == ((x + sz - 1) \div sz) * sz

(* Mutant: the end of a string is not counted. *)
NextString_without_nul(c, n) == ROUND_UP(c + n, ARG_ALIGN)

NextString(c, n) == ROUND_UP(c + n + 1, ARG_ALIGN)

(* One turn of the loop, for the argument at offset off of the buffer at    *)
(* address base in the memory of the parent.                                *)
CopyArg(h, parent, base, buf, w, off) ==
  IF ~w.success \/ ~access_ok(h, parent, base + off, TASK_ARG_LEN)
  THEN [w EXCEPT !.success = FALSE]
  ELSE [success |-> TRUE,
        argv |-> Append(w.argv, w.cursor),
        bytes |-> LET new == w.cursor .. w.cursor + TASK_ARG_LEN - 1
                  IN  [i \in DOMAIN w.bytes \cup new |->
                         IF i \in new THEN At(buf, off + i - w.cursor + 1) ELSE w.bytes[i]],
        cursor |-> NextString(w.cursor, strlen(buf, off))]

copyin_args(h, parent, base, buf, args) ==
  LET done[k \in 0 .. Len(args)] ==
        IF k = 0 THEN [success |-> TRUE, argv |-> <<>>, bytes |-> <<>>, cursor |-> 0]
        ELSE CopyArg(h, parent, base, buf, done[k - 1], args[k])
  IN  done[Len(args)]

(* The string the new program finds at argv[k]. *)
SeenArg(w, k) ==
  LET byte(i) == IF i \in DOMAIN w.bytes THEN w.bytes[i] ELSE DIRT
      n == CHOOSE m \in 0 .. MAX_LINE + TASK_ARG_LEN :
             /\ byte(w.argv[k] + m) \in {NUL, DIRT}
             /\ \A j \in 0 .. m - 1 : byte(w.argv[k] + j) \notin {NUL, DIRT}
  IN  [i \in 1 .. n + 1 |-> byte(w.argv[k] + i - 1)]

-----------------------------------------------------------------------------
Mapped(t) == {p \in 0 .. PAGES - 1 :
                is_page_mapped(heap, task[t].pagetable, p * SMALL_PAGE_SIZE)}

(* What the machine can reach: the lower half of the level 4 table serves   *)
(* the addresses below BIT47, the user's, the upper half those whose bits   *)
(* from 47 up are all 1.  What lies between has no translation, though the  *)
(* software walk finds entries for it.                                      *)
BIT47 == PageSize[1] * (NUM_PT_ENTRIES \div 2)
Canonical(b) == b < BIT47 \/ b >= ADDRESSES - BIT47

Readable(t, mapped, va, len) ==
  \A b \in va .. va + len - 1 :
    /\ Canonical(b)
    /\ (b \div SMALL_PAGE_SIZE) % PAGES \in mapped
    /\ task[t].taskmode = "MODE_USER" => b < BIT47

(* The ranges whose end, and for a kernel thread the cursor behind their     *)
(* last page, do not wrap.                                                  *)
Unwrapped(t, va, len) ==
  /\ va + len < ADDRESSES
  /\ task[t].taskmode = "MODE_USER" \/ va + len <= ADDRESSES - PageSize[GiantLevel]

(* access_ok walks a range page by page and judges every byte of it: it     *)
(* refuses no range that is readable, mapped and for a program in the       *)
(* user's half, and accepts no other range of addresses that the machine    *)
(* has, wherever in a page the range starts and whatever the sizes of its   *)
(* pages.  The check is no guard in the two cases this leaves: is_user_va   *)
(* takes BIT47 to BIT48 for user addresses, which walk to the kernel's      *)
(* entries, and a range whose end wraps is accepted unseen, as the loop     *)
(* does not start.                                                          *)
AccessOkIsExact ==
  ~Panicked =>
    \A t \in Live :
      LET mapped == Mapped(t)
      IN  \A va \in 0 .. ADDRESSES - 1, len \in RANGE_LENS :
            LET accepted == access_ok(heap, task[t], va, len)
                readable == Readable(t, mapped, va, len)
                canonical == \A b \in va .. va + len - 1 : Canonical(b)
            IN  Unwrapped(t, va, len) => /\ readable => accepted
                                         /\ accepted /\ canonical => readable

Line == UNION {[1 .. n -> Char] : n \in 1 .. MAX_LINE}

(* What a line means: what stands before its first space, then every run of *)
(* other characters.                                                        *)
IsRun(line, i, j) ==
  /\ i <= j
  /\ \A k \in i .. j : line[k] # SPACE
  /\ At(line, j + 1) \in {SPACE, NUL}
  /\ i > 1 => line[i - 1] = SPACE
Runs(line) == {r \in (DOMAIN line) \X (DOMAIN line) : IsRun(line, r[1], r[2])}
Words(line) == (IF line[1] = SPACE THEN {<<1, 0>>} ELSE {}) \cup Runs(line)
Nth(words, k) == CHOOSE r \in words : Cardinality({s \in words : s[2] < r[2]}) = k - 1
Meant(line) ==
  LET words == Words(line)
  IN  [k \in 1 .. Cardinality(words) |->
         LET r == Nth(words, k) IN SubSeq(line, r[1], r[2]) \o <<NUL>>]

StackPage == CHOOSE p \in 0 .. PAGES - 1 : get_pt_index(p * SMALL_PAGE_SIZE) = DEFAULT_USER_STACK

(* The arguments of a line reach the program the shell spawns: the spawn    *)
(* succeeds exactly if the bytes copied per argument are readable, and      *)
(* argv then holds the words of the line, each with its end, whatever was   *)
(* in the page before and however far the copies overlap.  Lines with words *)
(* that are too long are left out, and those with so many that the shell's  *)
(* loop stops at MAX_ARGS.                                                  *)
ArgsArePassed ==
  ~Panicked =>
    \A t \in {u \in Live : task[u].taskmode = "MODE_USER"} :
      LET mapped == Mapped(t)
      IN  \A line \in Line :
            LET args == SplitArgs(line)
                meant == Meant(line)
            IN  (\A k \in DOMAIN meant : k < MAX_ARGS /\ Len(meant[k]) <= TASK_ARG_LEN)
                  => \A off \in BUF_OFFSETS :
                       LET base == StackPage * SMALL_PAGE_SIZE + off
                           w == copyin_args(heap, task[t], base, SplitBuf(line), args)
                       IN  /\ w.success <=> \A k \in DOMAIN args :
                                              Readable(t, mapped, base + args[k], TASK_ARG_LEN)
                           /\ w.success => [k \in DOMAIN w.argv |-> SeenArg(w, k)] = meant
=============================================================================
