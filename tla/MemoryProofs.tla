---------------------------- MODULE MemoryProofs ----------------------------
(***************************************************************************)
(* Machine-checked proofs about Memory and Args, for every size of the     *)
(* heap, of the tables and of the pages, every set of kernel maps, every   *)
(* number of tasks, and every length of a line and of the copies of its    *)
(* words that fits a page.                                                 *)
(***************************************************************************)
EXTENDS Args, SequenceTheorems, FiniteSetTheorems, WellFoundedInduction, TLAPS

(* Induction over an interval, from the least counterexample.                *)
LEMMA LeastNumber ==
  ASSUME NEW S, S \subseteq Nat, S # {}
  PROVE  \E x \in S : \A y \in S : x <= y
<1>1. PICK R : R = OpToRel(<, Nat)
  OBVIOUS
<1>2. IsWellFoundedOn(R, Nat)
  BY <1>1, NatLessThanWellFounded, Zenon
<1>3. \A a \in Nat, b \in Nat : a < b => <<a, b>> \in R
  BY <1>1 DEF OpToRel
<1>4. PICK x \in S : \A y \in S : ~ (<<y, x>> \in R)
  BY <1>2, WFMin
<1>5. ASSUME NEW y \in S PROVE x <= y
  <2>1. x \in Nat /\ y \in Nat /\ ~ (<<y, x>> \in R)
    BY <1>4
  <2>2. ~ (y < x)
    BY <1>3, <2>1, Zenon
  <2> QED
    BY <2>1, <2>2
<1> QED
  BY <1>5

(* Over 0 .. n, for the members of a set.                                    *)
LEMMA Induction ==
  ASSUME NEW P, NEW n \in Nat, 0 \in P, \A k \in 0 .. n - 1 : k \in P => k + 1 \in P
  PROVE  \A k \in 0 .. n : k \in P
<1> SUFFICES ASSUME NEW k \in 0 .. n, k \notin P PROVE FALSE
  OBVIOUS
<1> DEFINE S == {i \in 0 .. n : i \notin P}
<1>1. PICK x \in S : \A y \in S : x <= y
  <2>1. S \subseteq Nat /\ S # {}
    OBVIOUS
  <2> HIDE DEF S
  <2> QED
    BY <2>1, LeastNumber
<1>2. x # 0 /\ x - 1 \in 0 .. n - 1 /\ x - 1 \in P
  BY <1>1
<1> QED
  BY <1>1, <1>2

-----------------------------------------------------------------------------
(* Paths *)

(* What the assumption on the constants says.                                *)
LEMMA ConstantFacts ==
  /\ 0 \in Page /\ Page \subseteq Nat /\ NULL \notin Page
  /\ Index \subseteq Nat /\ 0 \in Index /\ 1 \in Index
  /\ KERN_L4 \subseteq Index /\ 0 \notin KERN_L4
  /\ MAX_TEXT \in Nat /\ \A i \in 0 .. MAX_TEXT - 1 : i \in Index
BY MemoryAssumption DEF MemoryAssumption, Page, Index

(* Paths are the sequences of at most four indices.                          *)
LEMMA PathIsSeq ==
  /\ \A p \in Path : p \in Seq(Index) /\ Len(p) \in 0 .. 4
  /\ \A p \in Seq(Index) : Len(p) <= 4 => p \in Path
<1>1. Path = UNION {[1 .. m -> Index] : m \in 0 .. 4}
  BY DEF Path, BoundedSeq, SeqOf, N_PAGETABLE_LEVELS
<1>2. ASSUME NEW p \in Path PROVE p \in Seq(Index) /\ Len(p) \in 0 .. 4
  <2>1. PICK m \in 0 .. 4 : p \in [1 .. m -> Index]
    BY <1>1
  <2>2. p \in Seq(Index)
    BY <2>1, SeqDef
  <2>3. Len(p) = m
    BY <2>1, <2>2, LenProperties
  <2> QED
    BY <2>2, <2>3
<1>3. ASSUME NEW p \in Seq(Index), Len(p) <= 4 PROVE p \in Path
  <2>0. Len(p) \in Nat /\ p \in [1 .. Len(p) -> Index]
    BY LenProperties
  <2>1. Len(p) \in 0 .. 4 /\ p \in [1 .. Len(p) -> Index]
    BY <1>3, <2>0
  <2> QED
    BY <1>1, <2>1
<1> QED
  BY <1>2, <1>3

(* One index more.                                                           *)
LEMMA AppendPath ==
  ASSUME NEW p \in Path, Len(p) < 4, NEW i \in Index
  PROVE  /\ Append(p, i) \in Path
         /\ Len(Append(p, i)) = Len(p) + 1
         /\ Append(p, i) # <<>>
         /\ Append(p, i)[1] = IF Len(p) = 0 THEN i ELSE p[1]
         /\ Front(Append(p, i)) = p
         /\ Last(Append(p, i)) = i
<1>1. p \in Seq(Index) /\ Len(p) \in Nat
  BY PathIsSeq
<1>2. /\ Append(p, i) \in Seq(Index)
      /\ Len(Append(p, i)) = Len(p) + 1
      /\ \A j \in 1 .. Len(p) : Append(p, i)[j] = p[j]
      /\ Append(p, i)[Len(p) + 1] = i
  BY <1>1, AppendProperties
<1>3. Append(p, i) \in Path
  <2>1. Len(Append(p, i)) <= 4
    BY <1>1, <1>2
  <2> QED
    BY <1>2, <2>1, PathIsSeq
<1>4. Append(p, i) # <<>>
  BY <1>1, <1>2, EmptySeq
<1>5. Front(Append(p, i)) = p
  <2> DEFINE f == SubSeq(Append(p, i), 1, Len(p))
  <2>1. \A j \in 1 .. Len(p) : Append(p, i)[j] \in Index
    BY <1>1, <1>2, ElementOfSeq
  <2>2. /\ f \in Seq(Index)
        /\ Len(f) = IF 1 <= Len(p) THEN Len(p) - 1 + 1 ELSE 0
        /\ \A j \in 1 .. Len(p) - 1 + 1 : f[j] = Append(p, i)[1 + j - 1]
    BY <1>1, <2>1, SubSeqProperties
  <2>3. Len(f) = Len(p) /\ \A j \in 1 .. Len(p) : f[j] = p[j]
    BY <1>1, <1>2, <2>2
  <2>4. f = p
    <3> HIDE DEF f
    <3> QED
      BY <1>1, <2>2, <2>3, SeqEqual
  <2>5. Front(Append(p, i)) = f
    BY <1>1, <1>2 DEF Front
  <2> QED
    BY <2>4, <2>5
<1>6. Last(Append(p, i)) = i
  BY <1>2 DEF Last
<1>7. Append(p, i)[1] = IF Len(p) = 0 THEN i ELSE p[1]
  BY <1>1, <1>2
<1> QED
  BY <1>2, <1>3, <1>4, <1>5, <1>6, <1>7

(* One index less.                                                           *)
LEMMA SplitPath ==
  ASSUME NEW p \in Path, p # <<>>
  PROVE  /\ Front(p) \in Path /\ Len(Front(p)) < 4
         /\ Last(p) \in Index
         /\ p = Append(Front(p), Last(p))
         /\ Len(p) = Len(Front(p)) + 1
<1>1. p \in Seq(Index) /\ Len(p) \in 1 .. 4
  BY PathIsSeq, EmptySeq
<1> DEFINE f == SubSeq(p, 1, Len(p) - 1)
<1>2. \A j \in 1 .. Len(p) : p[j] \in Index
  BY <1>1, ElementOfSeq
<1>3. /\ f \in Seq(Index)
      /\ Len(f) = IF 1 <= Len(p) - 1 THEN (Len(p) - 1) - 1 + 1 ELSE 0
      /\ \A j \in 1 .. (Len(p) - 1) - 1 + 1 : f[j] = p[1 + j - 1]
  <2>1. \A j \in 1 .. Len(p) - 1 : p[j] \in Index
    BY <1>1, <1>2
  <2> QED
    BY <1>1, <2>1, SubSeqProperties
<1> HIDE DEF f
<1>4. Len(f) = Len(p) - 1 /\ \A j \in 1 .. Len(p) - 1 : f[j] = p[j]
  <2>1. PICK n \in 1 .. 4 : n = Len(p)
    BY <1>1
  <2>2. Len(f) = n - 1
    BY <1>3, <2>1
  <2>3. ASSUME NEW j \in 1 .. n - 1 PROVE f[j] = p[j]
    <3>1. j \in 1 .. (n - 1) - 1 + 1 /\ 1 + j - 1 = j
      OBVIOUS
    <3> QED
      BY <1>3, <2>1, <3>1
  <2> QED
    BY <2>1, <2>2, <2>3
<1>5. f \in Path /\ Len(f) < 4
  BY <1>1, <1>3, <1>4, PathIsSeq
<1>6. Last(p) \in Index
  BY <1>1, <1>2 DEF Last
<1>7. p = Append(f, Last(p))
  <2>1. /\ Append(f, Last(p)) \in Seq(Index)
        /\ Len(Append(f, Last(p))) = Len(f) + 1
        /\ \A j \in 1 .. Len(f) : Append(f, Last(p))[j] = f[j]
        /\ Append(f, Last(p))[Len(f) + 1] = Last(p)
    BY <1>3, <1>6, AppendProperties
  <2>2. \A j \in 1 .. Len(p) : p[j] = Append(f, Last(p))[j]
    BY <1>1, <1>4, <2>1 DEF Last
  <2> QED
    BY <1>1, <1>4, <2>1, <2>2, SeqEqual
<1>8. Front(p) = f
  BY DEF Front, f
<1> QED
  BY <1>1, <1>4, <1>5, <1>6, <1>7, <1>8

-----------------------------------------------------------------------------
(* Address spaces *)

(* A heap: the pages in use, their contents, and whether the kernel          *)
(* panicked.                                                                 *)
Heap == [used : SUBSET Page, mem : [Page -> [Index -> Pte]], panic : BOOLEAN]

(* The pages nd, by their paths, are the tree under r: one page for every    *)
(* path, tables that are linked to their entries, and no entry that leads    *)
(* elsewhere but to a giant page of the kernel.                              *)
Linked(mem, nd, p, i) ==
  /\ p \in DOMAIN nd
  /\ mem[nd[p]][i].valid
  /\ mem[nd[p]][i].leaf <=> Len(p) = 3
  /\ mem[nd[p]][i].phys = nd[Append(p, i)]

Unlinked(mem, nd, p, i) ==
  mem[nd[p]][i].valid => /\ Len(p) = 1 /\ p[1] \in KERN_L4
                         /\ mem[nd[p]][i].leaf /\ mem[nd[p]][i].phys = GIANT

IsTree(mem, r, nd) ==
  /\ DOMAIN nd \subseteq Path
  /\ nd \in [DOMAIN nd -> Page]
  /\ <<>> \in DOMAIN nd /\ nd[<<>>] = r
  /\ \A p, q \in DOMAIN nd : nd[p] = nd[q] => p = q
  /\ \A p \in DOMAIN nd : Len(p) > 1 => p[1] \notin KERN_L4
  /\ \A p \in Path, i \in Index :
       Len(p) < 4 /\ Append(p, i) \in DOMAIN nd => Linked(mem, nd, p, i)
  /\ \A p \in DOMAIN nd, i \in Index :
       Len(p) < 4 /\ Append(p, i) \notin DOMAIN nd => Unlinked(mem, nd, p, i)

(* A tree is what its pages hold.                                            *)
LEMMA TreeKept ==
  ASSUME NEW mem, NEW mem2, NEW r, NEW nd, IsTree(mem, r, nd),
         \A p \in DOMAIN nd : mem2[nd[p]] = mem[nd[p]]
  PROVE  IsTree(mem2, r, nd)
<1>1. \A p \in Path, i \in Index :
        Len(p) < 4 /\ Append(p, i) \in DOMAIN nd => Linked(mem2, nd, p, i)
  BY DEF IsTree, Linked
<1>2. \A p \in DOMAIN nd, i \in Index :
        Len(p) < 4 /\ Append(p, i) \notin DOMAIN nd => Unlinked(mem2, nd, p, i)
  BY DEF IsTree, Unlinked
<1> QED
  BY <1>1, <1>2 DEF IsTree

(* _free_pagetable_recursive reaches the pages of the tree, by their paths.  *)
LEMMA PagesOfTree ==
  ASSUME NEW h, NEW r, NEW nd, IsTree(h.mem, r, nd)
  PROVE  PagesUnder(h, r) = nd
<1> DEFINE Step(f, p) ==
             IF p = <<>> THEN r
             ELSE LET table == f[Front(p)]
                      e == IF table = NULL THEN Invalid ELSE h.mem[table][Last(p)]
                  IN  IF e.valid /\ (e.leaf => Len(p) = N_PAGETABLE_LEVELS) THEN e.phys ELSE NULL
           g == [p \in Path |-> IF p \in DOMAIN nd THEN nd[p] ELSE NULL]
<1>1. ASSUME NEW f, NEW p \in Path, p # <<>>, f[Front(p)] = g[Front(p)]
      PROVE  Step(f, p) = g[p]
  <2>1. PICK q \in Path, i \in Index :
          q = Front(p) /\ i = Last(p) /\ p = Append(q, i) /\ Len(q) < 4 /\ Len(p) = Len(q) + 1
    BY <1>1, SplitPath
  <2>2. Len(q) \in Nat
    BY PathIsSeq
  <2> DEFINE e == IF f[q] = NULL THEN Invalid ELSE h.mem[f[q]][i]
  <2>3. Step(f, p) = IF e.valid /\ (e.leaf => Len(p) = N_PAGETABLE_LEVELS) THEN e.phys ELSE NULL
    BY <1>1, <2>1
  <2>4. CASE p \in DOMAIN nd
    <3>1. Linked(h.mem, nd, q, i)
      BY <2>1, <2>4 DEF IsTree
    <3>2. f[q] = nd[q] /\ f[q] # NULL
      BY <1>1, <2>1, <3>1, ConstantFacts DEF Linked, IsTree
    <3>3. e = h.mem[nd[q]][i]
      BY <3>2
    <3>4. e.valid /\ e.phys = nd[p] /\ (e.leaf <=> Len(q) = 3)
      BY <2>1, <3>1, <3>3 DEF Linked
    <3> HIDE DEF e, Step
    <3>5. Step(f, p) = nd[p]
      <4>0. Len(q) = 3 => Len(p) = N_PAGETABLE_LEVELS
        BY <2>1 DEF N_PAGETABLE_LEVELS
      <4>1. e.leaf => Len(p) = N_PAGETABLE_LEVELS
        BY <3>4, <4>0, Zenon
      <4> QED
        BY <2>3, <3>4, <4>1, Zenon
    <3> QED
      BY <2>4, <3>5
  <2>5. CASE p \notin DOMAIN nd
    <3>1. g[p] = NULL
      BY <2>5
    <3>2. CASE q \notin DOMAIN nd
      <4>1. f[q] = NULL
        BY <1>1, <2>1, <3>2
      <4>2. ~e.valid
        BY <4>1 DEF Invalid
      <4> HIDE DEF e, Step
      <4> QED
        BY <2>3, <3>1, <4>2
    <3>3. CASE q \in DOMAIN nd
      <4>1. f[q] = nd[q] /\ f[q] # NULL
        BY <1>1, <2>1, <3>3, ConstantFacts DEF IsTree
      <4>2. e = h.mem[nd[q]][i]
        BY <4>1
      <4>3. Unlinked(h.mem, nd, q, i)
        BY <2>1, <2>5, <3>3 DEF IsTree
      <4>4. e.valid => Len(q) = 1 /\ e.leaf
        BY <4>2, <4>3 DEF Unlinked
      <4> HIDE DEF e, Step
      <4> QED
        BY <2>1, <2>3, <3>1, <4>4 DEF N_PAGETABLE_LEVELS
    <3> QED
      BY <3>2, <3>3
  <2> HIDE DEF Step
  <2> QED
    BY <2>4, <2>5
<1>2. ASSUME NEW f PROVE Step(f, <<>>) = g[<<>>]
  <2>1. g[<<>>] = r
    BY DEF IsTree
  <2> QED
    BY <2>1
<1> HIDE DEF Step
<1>3. g = [p \in Path |-> Step(g, p)]
  <2>1. ASSUME NEW p \in Path PROVE g[p] = Step(g, p)
    BY <1>1, <1>2
  <2> QED
    BY <2>1, Zenon
<1> DEFINE page == CHOOSE f : f = [p \in Path |-> Step(f, p)]
<1>4. page = [p \in Path |-> Step(page, p)]
  <2>1. \E f : f = [p \in Path |-> Step(f, p)]
    BY <1>3, Zenon
  <2> QED
    BY <2>1, Zenon
<1> HIDE DEF page
<1>5. \A k \in 0 .. 4 : \A p \in Path : Len(p) = k => page[p] = g[p]
  <2> DEFINE P == {k \in 0 .. 4 : \A p \in Path : Len(p) = k => page[p] = g[p]}
  <2>1. 0 \in P
    <3> SUFFICES ASSUME NEW p \in Path, Len(p) = 0 PROVE page[p] = g[p]
      OBVIOUS
    <3>1. p = <<>>
      BY PathIsSeq, EmptySeq
    <3> QED
      BY <1>2, <1>4, <3>1
  <2>2. ASSUME NEW k \in 0 .. 4 - 1, k \in P PROVE k + 1 \in P
    <3> SUFFICES ASSUME NEW p \in Path, Len(p) = k + 1 PROVE page[p] = g[p]
      OBVIOUS
    <3>1. p # <<>>
      BY EmptySeq
    <3>2. Front(p) \in Path /\ Len(p) = Len(Front(p)) + 1
      BY <3>1, SplitPath
    <3>3. Len(Front(p)) \in Nat
      BY <3>2, PathIsSeq
    <3>4. Len(Front(p)) = k
      BY <3>2, <3>3
    <3>5. page[Front(p)] = g[Front(p)]
      BY <2>2, <3>2, <3>4
    <3>6. Step(page, p) = g[p]
      BY <1>1, <3>1, <3>5
    <3> HIDE DEF g
    <3> QED
      BY <1>4, <3>6
  <2> HIDE DEF P
  <2>3. \A k \in 0 .. 4 : k \in P
    BY <2>1, <2>2, Induction
  <2> QED
    BY <2>3 DEF P
<1>6. \A p \in Path : page[p] = g[p]
  BY <1>5, PathIsSeq
<1>7. PagesUnder(h, r) = [p \in {q \in Path : page[q] # NULL} |-> page[p]]
  BY DEF PagesUnder, page, Step
<1>8. {q \in Path : page[q] # NULL} = DOMAIN nd
  BY <1>6, ConstantFacts DEF IsTree
<1>9. \A p \in DOMAIN nd : page[p] = nd[p]
  BY <1>6 DEF IsTree
<1> HIDE DEF g
<1> QED
  <2>1. nd = [p \in DOMAIN nd |-> nd[p]]
    BY DEF IsTree
  <2> QED
    BY <1>7, <1>8, <1>9, <2>1

-----------------------------------------------------------------------------
(* Allocation *)

(* The page alloc_page returns.                                              *)
LEMMA PageOfFacts ==
  ASSUME NEW h \in Heap
  PROVE  /\ PageOf(h) \in Page
         /\ Free(h) # {} => PageOf(h) \notin h.used
<1>1. CASE Free(h) = {}
  BY <1>1, ConstantFacts DEF PageOf
<1>2. CASE Free(h) # {}
  <2>1. Free(h) \subseteq Nat
    BY ConstantFacts DEF Free
  <2>2. \E x \in Free(h) : \A y \in Free(h) : x <= y
    BY <1>2, <2>1, LeastNumber
  <2>3. Lowest(Free(h)) \in Free(h)
    BY <2>2, Zenon DEF Lowest
  <2> QED
    BY <1>2, <2>3 DEF PageOf, Free
<1> QED
  BY <1>1, <1>2

(* alloc_page and alloc_pagetable, with a free page and without one.         *)
LEMMA AllocFacts ==
  ASSUME NEW h \in Heap
  PROVE  /\ alloc_page(h) \in Heap /\ alloc_page(h).mem = h.mem
         /\ alloc_pagetable(h) \in Heap
         /\ alloc_pagetable(h).mem = [h.mem EXCEPT ![PageOf(h)] = ZeroTable]
         /\ alloc_pagetable(h).used = alloc_page(h).used
         /\ alloc_pagetable(h).panic = alloc_page(h).panic
         /\ Free(h) = {} => alloc_page(h).panic = TRUE /\ alloc_page(h).used = h.used
         /\ Free(h) # {} => /\ alloc_page(h).panic = h.panic
                            /\ alloc_page(h).used = h.used \cup {PageOf(h)}
<1>1. ZeroTable \in [Index -> Pte]
  BY DEF ZeroTable, Invalid, Pte, GIANT
<1>2. /\ alloc_page(h) \in Heap /\ alloc_page(h).mem = h.mem
      /\ Free(h) = {} => alloc_page(h).panic = TRUE /\ alloc_page(h).used = h.used
      /\ Free(h) # {} => /\ alloc_page(h).panic = h.panic
                         /\ alloc_page(h).used = h.used \cup {PageOf(h)}
  BY PageOfFacts DEF alloc_page, Heap
<1>3. /\ alloc_pagetable(h) \in Heap
      /\ alloc_pagetable(h).mem = [h.mem EXCEPT ![PageOf(h)] = ZeroTable]
      /\ alloc_pagetable(h).used = alloc_page(h).used
      /\ alloc_pagetable(h).panic = alloc_page(h).panic
  BY <1>1, <1>2, PageOfFacts DEF alloc_pagetable, Heap
<1> QED
  BY <1>2, <1>3

(* The heap after a panic of alloc_page.                                     *)
Exhausted(h) == h \in Heap /\ h.panic = TRUE /\ Free(h) = {}

(* It stays exhausted.                                                       *)
LEMMA AllocExhausted ==
  ASSUME NEW h, Exhausted(h)
  PROVE  Exhausted(alloc_page(h)) /\ Exhausted(alloc_pagetable(h))
BY AllocFacts DEF Exhausted, Free

(* An entry is written.                                                      *)
Writes(h, t, i, e, h2) == h2 = [h EXCEPT !.mem[t][i] = e]

Written(h, t, i, e, h2) ==
  /\ h2 \in Heap
  /\ h2.used = h.used /\ h2.panic = h.panic
  /\ \A p \in Page : p # t => h2.mem[p] = h.mem[p]
  /\ t \in Page => \A j \in Index : h2.mem[t][j] = IF j = i THEN e ELSE h.mem[t][j]

(* What a write to an entry of a table leaves of the heap.                   *)
LEMMA WriteEntry ==
  ASSUME NEW h \in Heap, NEW t, NEW i, NEW e \in Pte, NEW h2, Writes(h, t, i, e, h2)
  PROVE  Written(h, t, i, e, h2)
BY DEF Heap, Writes, Written

(* A write to an entry leaves an exhausted heap exhausted.                   *)
LEMMA WriteExhausted ==
  ASSUME NEW h, Exhausted(h), NEW t, NEW i, NEW e \in Pte, NEW h2, Writes(h, t, i, e, h2)
  PROVE  Exhausted(h2)
<1>1. Written(h, t, i, e, h2)
  BY WriteEntry, Zenon DEF Exhausted
<1> QED
  BY <1>1 DEF Exhausted, Free, Written

-----------------------------------------------------------------------------
(* The walk of map_page *)

(* One turn of the loop of map_page.                                         *)
Down(w, i) ==
  LET e == w.heap.mem[w.table][i]
      new == [valid |-> TRUE, leaf |-> FALSE, phys |-> PageOf(w.heap)]
  IN  IF e.valid THEN [heap |-> w.heap, table |-> e.phys]
      ELSE [heap |-> [alloc_pagetable(w.heap) EXCEPT !.mem[w.table][i] = new],
            table |-> new.phys]

(* The loop, for the address of a giant page and for that of a small one.    *)
WalkOf(at, h, root, va) ==
  /\ TableFor(h, root, va) = at[Len(va)]
  /\ at[1] = [heap |-> h, table |-> root]
  /\ \A l \in 2 .. Len(va) : at[l] = Down(at[l - 1], va[l - 1])

(* The recursive function of TableFor is the loop of map_page.               *)
LEMMA TableForLoop ==
  ASSUME NEW h, NEW root, NEW va, Len(va) \in Nat \ {0}
  PROVE  \E at : WalkOf(at, h, root, va)
<1> DEFINE Step(f, l) == IF l = 1 THEN [heap |-> h, table |-> root] ELSE Down(f[l - 1], va[l - 1])
           n == Len(va)
<1>1. ASSUME NEW f, NEW g, NEW l \in Nat, l # 1, f[l - 1] = g[l - 1] PROVE Step(f, l) = Step(g, l)
  BY <1>1
<1>2. ASSUME NEW f PROVE Step(f, 1) = [heap |-> h, table |-> root]
  OBVIOUS
<1>3. ASSUME NEW f, NEW l \in 2 .. n PROVE Step(f, l) = Down(f[l - 1], va[l - 1])
  OBVIOUS
<1> HIDE DEF Step
<1>4. \E f : f = [l \in 1 .. n |-> Step(f, l)]
  <2> DEFINE P == {k \in 0 .. n - 1 : \E f : f = [l \in 1 .. k + 1 |-> Step(f, l)]}
  <2>1. 0 \in P
    <3> DEFINE f == [l \in 1 .. 0 + 1 |-> [heap |-> h, table |-> root]]
    <3>1. \A l \in 1 .. 0 + 1 : f[l] = Step(f, l)
      BY <1>2
    <3>2. f = [l \in 1 .. 0 + 1 |-> Step(f, l)]
      BY <3>1
    <3> HIDE DEF f
    <3> QED
      BY <3>2
  <2>2. ASSUME NEW k \in 0 .. (n - 1) - 1, k \in P PROVE k + 1 \in P
    <3>1. PICK f : f = [l \in 1 .. k + 1 |-> Step(f, l)]
      BY <2>2
    <3> DEFINE m == k + 1
               g == [l \in 1 .. m + 1 |-> IF l = m + 1 THEN Down(f[m], va[m]) ELSE f[l]]
    <3>2. ASSUME NEW l \in 1 .. m + 1 PROVE g[l] = Step(g, l)
      <4>1. CASE l = m + 1
        <5>1. g[l] = Down(f[m], va[m]) /\ g[m] = f[m] /\ l - 1 = m /\ l \in 2 .. n
          BY <4>1
        <5> HIDE DEF g
        <5> QED
          BY <1>3, <5>1
      <4>2. CASE l # m + 1
        <5>1. l \in 1 .. k + 1 /\ g[l] = f[l]
          BY <4>2
        <5>2. g[l] = Step(f, l)
          BY <3>1, <5>1, Zenon
        <5>3. CASE l = 1
          BY <1>2, <5>2, <5>3
        <5>4. CASE l # 1
          <6>1. g[l - 1] = f[l - 1] /\ l \in Nat
            BY <5>1, <5>4
          <6> HIDE DEF g
          <6> QED
            BY <1>1, <5>2, <5>4, <6>1
        <5> QED
          BY <5>3, <5>4
      <4> QED
        BY <4>1, <4>2
    <3>3. g = [l \in 1 .. (k + 1) + 1 |-> Step(g, l)]
      BY <3>2
    <3> HIDE DEF g
    <3> QED
      BY <3>3
  <2>3. \A k \in 0 .. n - 1 : k \in P
    <3>1. n - 1 \in Nat
      OBVIOUS
    <3> HIDE DEF P, n
    <3> QED
      BY <2>1, <2>2, <3>1, Induction
  <2>4. n - 1 \in P /\ (n - 1) + 1 = n
    BY <2>3
  <2> QED
    BY <2>4
<1> DEFINE at == CHOOSE f : f = [l \in 1 .. n |-> Step(f, l)]
<1>5. at = [l \in 1 .. n |-> Step(at, l)]
  BY <1>4, Zenon
<1>6. TableFor(h, root, va) = at[n]
  BY DEF TableFor, Step, Down
<1> HIDE DEF at
<1>7. at[1] = [heap |-> h, table |-> root] /\ \A l \in 2 .. n : at[l] = Down(at[l - 1], va[l - 1])
  <2>1. \A l \in 1 .. n : at[l] = Step(at, l)
    BY <1>5, Zenon
  <2> QED
    BY <1>2, <1>3, <2>1
<1> QED
  BY <1>6, <1>7 DEF WalkOf

(* A heap h in which a new tree nd has grown under r, and pages X that are   *)
(* not yet in it, since the pages B held m.                                  *)
Grown(B, m, h, r, nd, X) ==
  /\ h \in Heap /\ h.panic = FALSE
  /\ IsTree(h.mem, r, nd)
  /\ h.used = B \cup X \cup Range(nd)
  /\ X \cap B = {}
  /\ \A p \in DOMAIN nd : nd[p] \notin B /\ nd[p] \notin X
  /\ \A p \in B : h.mem[p] = m[p]

(* nd2 has every page of nd.                                                 *)
Larger(nd2, nd) ==
  /\ DOMAIN nd \subseteq DOMAIN nd2
  /\ \A q \in DOMAIN nd : nd2[q] = nd[q]

(* The page q joins the tree below the table at p, as its entry i.           *)
Joins(mem, mem2, nd, nd2, p, i, q) ==
  /\ p \in DOMAIN nd /\ i \in Index /\ Len(p) < 4 /\ Append(p, i) \notin DOMAIN nd
  /\ Len(p) = 0 \/ p[1] \notin KERN_L4
  /\ q \in Page /\ \A x \in DOMAIN nd : nd[x] # q
  /\ \A x \in DOMAIN nd : x # p => mem2[nd[x]] = mem[nd[x]]
  /\ \A j \in Index : j # i => mem2[nd[p]][j] = mem[nd[p]][j]
  /\ mem2[nd[p]][i].valid /\ (mem2[nd[p]][i].leaf <=> Len(p) = 3) /\ mem2[nd[p]][i].phys = q
  /\ Len(p) < 3 => \A j \in Index : ~mem2[q][j].valid
  /\ nd2 = [x \in DOMAIN nd \cup {Append(p, i)} |-> IF x = Append(p, i) THEN q ELSE nd[x]]

(* Then it is a tree still.                                                  *)
LEMMA TreeGrows ==
  ASSUME NEW mem, NEW mem2, NEW r, NEW nd, NEW nd2, NEW p, NEW i, NEW q,
         IsTree(mem, r, nd), Joins(mem, mem2, nd, nd2, p, i, q)
  PROVE  IsTree(mem2, r, nd2) /\ Larger(nd2, nd)
<1> USE DEF Joins
<1> DEFINE np == Append(p, i)
<1>0. /\ DOMAIN nd \subseteq Path /\ nd \in [DOMAIN nd -> Page] /\ p \in Path
      /\ <<>> \in DOMAIN nd /\ nd[<<>>] = r
  BY DEF IsTree
<1>1. np \in Path /\ Len(np) = Len(p) + 1 /\ np # <<>> /\ Front(np) = p /\ Last(np) = i
      /\ np[1] = IF Len(p) = 0 THEN i ELSE p[1]
  BY <1>0, AppendPath
<1>2. Len(p) \in Nat
  BY <1>0, PathIsSeq
<1> HIDE DEF np
<1>3. /\ DOMAIN nd2 = DOMAIN nd \cup {np}
      /\ nd2[np] = q /\ \A x \in DOMAIN nd : nd2[x] = nd[x]
  BY DEF np
<1>4. /\ DOMAIN nd2 \subseteq Path /\ nd2 \in [DOMAIN nd2 -> Page]
      /\ <<>> \in DOMAIN nd2 /\ nd2[<<>>] = r
  <2>1. nd2 \in [DOMAIN nd2 -> Page]
    BY <1>0
  <2> QED
    BY <1>0, <1>1, <1>3, <2>1
<1>5. \A x, y \in DOMAIN nd2 : nd2[x] = nd2[y] => x = y
  BY <1>3 DEF IsTree
<1>6. \A x \in DOMAIN nd2 : Len(x) > 1 => x[1] \notin KERN_L4
  <2>1. Len(np) > 1 => np[1] \notin KERN_L4
    BY <1>1, <1>2
  <2> QED
    BY <1>3, <2>1 DEF IsTree
<1>7. ASSUME NEW x \in Path, NEW j \in Index, Len(x) < 4
      PROVE  Append(x, j) = np => x = p /\ j = i
  <2>1. Front(Append(x, j)) = x /\ Last(Append(x, j)) = j
    BY <1>7, AppendPath
  <2> QED
    BY <1>1, <2>1
<1>8. \A x \in DOMAIN nd : x = p \/ nd[x] # nd[p]
  BY DEF IsTree
<1>9. ASSUME NEW x \in Path, NEW j \in Index, Len(x) < 4, Append(x, j) \in DOMAIN nd2
      PROVE  Linked(mem2, nd2, x, j)
  <2>1. CASE Append(x, j) = np
    <3>1. x = p /\ j = i
      BY <1>7, <1>9, <2>1
    <3> QED
      BY <1>3, <2>1, <3>1 DEF Linked
  <2>2. CASE Append(x, j) # np
    <3>1. Append(x, j) \in DOMAIN nd
      BY <1>3, <1>9, <2>2
    <3>2. Linked(mem, nd, x, j)
      BY <1>9, <3>1 DEF IsTree
    <3>3. mem2[nd[x]][j] = mem[nd[x]][j]
      <4>1. ~(x = p /\ j = i)
        BY <2>2 DEF np
      <4> QED
        BY <3>2, <4>1 DEF Linked
    <3> QED
      BY <1>3, <3>1, <3>2, <3>3 DEF Linked
  <2> QED
    BY <2>1, <2>2
<1>10. ASSUME NEW x \in DOMAIN nd2, NEW j \in Index, Len(x) < 4, Append(x, j) \notin DOMAIN nd2
       PROVE  Unlinked(mem2, nd2, x, j)
  <2>1. CASE x = np
    <3>1. Len(p) < 3
      BY <1>1, <1>2, <1>10, <2>1
    <3> QED
      BY <1>3, <2>1, <3>1 DEF Unlinked
  <2>2. CASE x # np
    <3>1. x \in DOMAIN nd /\ Append(x, j) \notin DOMAIN nd /\ Append(x, j) # np
      BY <1>3, <1>10, <2>2
    <3>2. Unlinked(mem, nd, x, j)
      BY <1>10, <3>1 DEF IsTree
    <3>3. mem2[nd[x]][j] = mem[nd[x]][j]
      <4>1. ~(x = p /\ j = i)
        BY <3>1 DEF np
      <4> QED
        BY <3>1, <4>1
    <3> QED
      BY <1>3, <3>1, <3>2, <3>3 DEF Unlinked
  <2> QED
    BY <2>1, <2>2
<1>11. IsTree(mem2, r, nd2)
  BY <1>4, <1>5, <1>6, <1>9, <1>10 DEF IsTree
<1>12. Larger(nd2, nd)
  BY <1>3 DEF Larger
<1> QED
  BY <1>11, <1>12

(* What a turn of the loop of map_page at the table with path p, for the     *)
(* index i, starts from, and what it leaves.                                 *)
MayDescend(B, m, h, r, nd, X, p, i) ==
  /\ Grown(B, m, h, r, nd, X)
  /\ p \in DOMAIN nd /\ i \in Index
  /\ Len(p) < 3
  /\ Len(p) = 0 \/ p[1] \notin KERN_L4

Descended(B, m, w, r, nd, X, p, i) ==
  \/ Exhausted(w.heap)
  \/ \E nd2 : /\ Grown(B, m, w.heap, r, nd2, X) /\ Larger(nd2, nd)
              /\ \A q \in DOMAIN nd2 : q \notin DOMAIN nd => Len(q) < 4
              /\ Append(p, i) \in DOMAIN nd2 /\ w.table = nd2[Append(p, i)]

(* It goes on in a table of the tree, or in a new one.                       *)
LEMMA DownGrown ==
  ASSUME NEW B, NEW m, NEW h, NEW r, NEW nd, NEW X, NEW p, NEW i,
         MayDescend(B, m, h, r, nd, X, p, i),
         NEW u, u.heap = h, u.table = nd[p], NEW w, w = Down(u, i)
  PROVE  Descended(B, m, w, r, nd, X, p, i)
<1> USE DEF MayDescend, Descended
<1> DEFINE e == h.mem[nd[p]][i]
           new == [valid |-> TRUE, leaf |-> FALSE, phys |-> PageOf(h)]
           h2 == [alloc_pagetable(h) EXCEPT !.mem[nd[p]][i] = new]
<1>0. h \in Heap /\ h.panic = FALSE /\ IsTree(h.mem, r, nd) /\ p \in Path /\ nd[p] \in Page
  BY DEF Grown, IsTree
<1>1. Len(p) \in Nat
  BY <1>0, PathIsSeq
<1>2. w = IF e.valid THEN [heap |-> h, table |-> e.phys] ELSE [heap |-> h2, table |-> PageOf(h)]
  BY DEF Down
<1>3. CASE e.valid
  <2>1. Append(p, i) \in DOMAIN nd
    <3>1. ~Unlinked(h.mem, nd, p, i)
      BY <1>3, <1>1 DEF Unlinked
    <3> QED
      BY <1>0, <1>1, <3>1 DEF IsTree
  <2>2. e.phys = nd[Append(p, i)]
    BY <1>0, <1>1, <2>1 DEF IsTree, Linked
  <2>3. w.heap = h /\ w.table = nd[Append(p, i)]
    BY <1>2, <1>3, <2>2
  <2> QED
    BY <2>1, <2>3 DEF Larger
<1>4. CASE ~e.valid
  <2>0. w.heap = h2 /\ w.table = PageOf(h)
    <3> HIDE DEF h2, e
    <3> QED
      BY <1>2, <1>4
  <2>1. new \in Pte
    BY <1>0, PageOfFacts DEF Pte
  <2>2. alloc_pagetable(h) \in Heap
    BY <1>0, AllocFacts
  <2>3. CASE Free(h) = {}
    <3>1. Exhausted(alloc_pagetable(h))
      BY <1>0, <2>2, <2>3, AllocFacts DEF Exhausted, Free
    <3>2. Writes(alloc_pagetable(h), nd[p], i, new, h2)
      BY DEF Writes
    <3> HIDE DEF new, h2
    <3>3. Exhausted(h2)
      BY <2>1, <3>1, <3>2, WriteExhausted, Zenon
    <3> QED
      BY <2>0, <3>3
  <2>4. CASE Free(h) # {}
    <3> DEFINE q == PageOf(h)
               np == Append(p, i)
               nd2 == [x \in DOMAIN nd \cup {np} |-> IF x = np THEN q ELSE nd[x]]
    <3>1. q \in Page /\ q \notin h.used
      BY <1>0, <2>4, PageOfFacts
    <3>2. /\ alloc_pagetable(h).mem = [h.mem EXCEPT ![q] = ZeroTable]
          /\ alloc_pagetable(h).used = h.used \cup {q}
          /\ alloc_pagetable(h).panic = FALSE
      BY <1>0, <2>4, AllocFacts
    <3>3. /\ h2 \in Heap /\ h2.used = h.used \cup {q} /\ h2.panic = FALSE
          /\ \A x \in Page : x # nd[p] => h2.mem[x] = alloc_pagetable(h).mem[x]
          /\ \A j \in Index : h2.mem[nd[p]][j] = IF j = i THEN new ELSE alloc_pagetable(h).mem[nd[p]][j]
      <4>1. Writes(alloc_pagetable(h), nd[p], i, new, h2)
        BY DEF Writes
      <4> HIDE DEF new, h2
      <4>2. /\ h2 \in Heap
            /\ h2.used = alloc_pagetable(h).used /\ h2.panic = alloc_pagetable(h).panic
            /\ \A x \in Page : x # nd[p] => h2.mem[x] = alloc_pagetable(h).mem[x]
            /\ nd[p] \in Page => \A j \in Index :
                 h2.mem[nd[p]][j] = IF j = i THEN new ELSE alloc_pagetable(h).mem[nd[p]][j]
        <5>1. Written(alloc_pagetable(h), nd[p], i, new, h2)
          BY <2>1, <2>2, <4>1, WriteEntry, Zenon
        <5> QED
          BY <5>1 DEF Written
      <4> QED
        BY <1>0, <3>2, <4>2
    <3>4. \A x \in DOMAIN nd : nd[x] \in h.used /\ nd[x] \in Page /\ nd[x] # q
      BY <3>1 DEF Grown, IsTree, Range
    <3>5. /\ \A x \in Page : x # nd[p] /\ x # q => h2.mem[x] = h.mem[x]
          /\ \A j \in Index : j # i => h2.mem[nd[p]][j] = h.mem[nd[p]][j]
          /\ h2.mem[nd[p]][i] = new
          /\ h2.mem[q] = ZeroTable
      <4>1. h.mem \in [Page -> [Index -> Pte]]
        BY <1>0 DEF Heap
      <4> HIDE DEF new, q, h2
      <4> QED
        BY <3>1, <3>2, <3>3, <3>4, <4>1
    <3>6. np \notin DOMAIN nd
      BY <1>0, <1>1, <1>4 DEF IsTree, Linked
    <3> HIDE DEF h2, q
    <3>7. \A j \in Index : ~h2.mem[q][j].valid
      BY <3>5 DEF ZeroTable, Invalid
    <3>8. h2.mem[nd[p]][i].valid /\ ~h2.mem[nd[p]][i].leaf /\ h2.mem[nd[p]][i].phys = q
      BY <3>5 DEF q
    <3>9. \A x \in DOMAIN nd : x # p => h2.mem[nd[x]] = h.mem[nd[x]]
      BY <1>0, <3>4, <3>5 DEF IsTree
    <3>10. IsTree(h2.mem, r, nd2) /\ Larger(nd2, nd)
      <4>1. \A j \in Index : j # i => h2.mem[nd[p]][j] = h.mem[nd[p]][j]
        BY <3>5
      <4>2. h2.mem[nd[p]][i].leaf <=> Len(p) = 3
        <5>0. \A n \in Nat : n < 3 => n # 3
          OBVIOUS
        <5>1. Len(p) # 3
          BY <1>1, <5>0, Zenon
        <5> QED
          BY <3>8, <5>1, Zenon
      <4>3. Len(p) < 4
        BY <1>1
      <4>4. \A x \in DOMAIN nd : nd[x] # q
        BY <3>4
      <4> HIDE DEF nd2
      <4>5. nd2 = [x \in DOMAIN nd \cup {Append(p, i)} |-> IF x = Append(p, i) THEN q ELSE nd[x]]
        BY DEF nd2
      <4> QED
        <5>1. Joins(h.mem, h2.mem, nd, nd2, p, i, q)
          BY <3>1, <3>6, <3>7, <3>8, <3>9, <4>1, <4>2, <4>3, <4>4, <4>5, Zenon DEF Joins
        <5> QED
          BY <1>0, <5>1, TreeGrows, Zenon
    <3>11. Range(nd2) = Range(nd) \cup {q}
      BY <3>6 DEF Range
    <3>12. Grown(B, m, h2, r, nd2, X)
      <4>1. h2.used = B \cup X \cup Range(nd2)
        BY <3>3, <3>11 DEF Grown
      <4>2. q \notin B /\ q \notin X
        BY <3>1 DEF Grown
      <4>3. \A x \in DOMAIN nd2 : nd2[x] \notin B /\ nd2[x] \notin X
        BY <4>2 DEF Grown
      <4>4. \A x \in B : h2.mem[x] = m[x]
        <5>1. B \subseteq Page
          BY <1>0 DEF Grown, Heap
        <5> QED
          BY <3>5, <4>2, <5>1 DEF Grown
      <4> QED
        BY <3>3, <3>10, <4>1, <4>3, <4>4 DEF Grown
    <3>13. \A x \in DOMAIN nd2 : x \notin DOMAIN nd => Len(x) < 4
      BY <1>0, <1>1, AppendPath
    <3>14. np \in DOMAIN nd2 /\ nd2[np] = q
      OBVIOUS
    <3> HIDE DEF nd2
    <3> QED
      BY <2>0, <3>10, <3>12, <3>13, <3>14 DEF q
  <2> QED
    BY <2>3, <2>4
<1> QED
  BY <1>3, <1>4

(* Past a panic, the walk changes nothing that counts.                       *)
LEMMA DownExhausted ==
  ASSUME NEW w, Exhausted(w.heap), NEW i
  PROVE  Exhausted(Down(w, i).heap)
<1> DEFINE new == [valid |-> TRUE, leaf |-> FALSE, phys |-> PageOf(w.heap)]
           h2 == [alloc_pagetable(w.heap) EXCEPT !.mem[w.table][i] = new]
<1>1. new \in Pte
  BY PageOfFacts DEF Pte, Exhausted
<1>2. Exhausted(h2)
  <2>1. Writes(alloc_pagetable(w.heap), w.table, i, new, h2)
    BY DEF Writes
  <2> HIDE DEF new, h2
  <2> QED
    BY <1>1, <2>1, AllocExhausted, WriteExhausted, Zenon
<1>3. Down(w, i).heap = w.heap \/ Down(w, i).heap = h2
  BY DEF Down
<1> HIDE DEF h2
<1> QED
  BY <1>2, <1>3

(* map_page in an exhausted heap leaves it exhausted.                        *)
LEMMA MapExhausted ==
  ASSUME NEW h, Exhausted(h), NEW root, NEW va, Len(va) \in Nat \ {0},
         NEW pa \in Page \cup {GIANT}
  PROVE  Exhausted(map_page(h, root, va, pa))
<1>0. PICK at : WalkOf(at, h, root, va)
  BY TableForLoop, Zenon
<1>1. /\ TableFor(h, root, va) = at[Len(va)]
      /\ at[1] = [heap |-> h, table |-> root]
      /\ \A l \in 2 .. Len(va) : at[l] = Down(at[l - 1], va[l - 1])
  BY <1>0 DEF WalkOf
<1> DEFINE P == {k \in 0 .. Len(va) - 1 : Exhausted(at[k + 1].heap)}
<1>2. 0 \in P
  BY <1>1
<1>3. ASSUME NEW k \in 0 .. (Len(va) - 1) - 1, k \in P PROVE k + 1 \in P
  <2>1. k + 2 \in 2 .. Len(va) /\ (k + 2) - 1 = k + 1 /\ (k + 1) + 1 = k + 2
    OBVIOUS
  <2>2. at[k + 2] = Down(at[k + 1], va[k + 1])
    BY <1>1, <2>1
  <2>3. Exhausted(at[k + 2].heap)
    BY <1>3, <2>2, DownExhausted
  <2> QED
    BY <2>1, <2>3
<1>4. Len(va) - 1 \in P /\ (Len(va) - 1) + 1 = Len(va)
  <2>1. PICK n \in Nat : n = Len(va) - 1
    OBVIOUS
  <2> HIDE DEF P
  <2>2. \A k \in 0 .. n : k \in P
    BY <1>2, <1>3, <2>1, Induction
  <2> QED
    BY <2>1, <2>2
<1>5. Exhausted(TableFor(h, root, va).heap)
  BY <1>1, <1>4
<1> DEFINE new == [valid |-> TRUE, leaf |-> TRUE, phys |-> pa]
<1>6. new \in Pte
  BY DEF Pte
<1> HIDE DEF new
<1>7. Writes(TableFor(h, root, va).heap, TableFor(h, root, va).table, va[Len(va)], new,
             map_page(h, root, va, pa))
  BY DEF map_page, new, Writes
<1> QED
  BY <1>5, <1>6, <1>7, WriteExhausted, Zenon

(* The addresses of giant and of small pages as paths.                       *)
LEMMA VaPath ==
  ASSUME NEW a \in Index, NEW b \in Index, NEW c \in Index, NEW d \in Index
  PROVE  /\ <<a, b>> = Append(Append(<<>>, a), b)
         /\ <<a, b, c, d>> = Append(Append(Append(Append(<<>>, a), b), c), d)
         /\ Len(<<a, b>>) = 2 /\ Len(<<a, b, c, d>>) = 4
         /\ <<a, b, c, d>> \in Path /\ <<a, b, c, d>>[1] = a
<1>1. /\ <<a, b>> = Append(Append(<<>>, a), b)
      /\ <<a, b, c, d>> = Append(Append(Append(Append(<<>>, a), b), c), d)
  OBVIOUS
<1>2. Len(<<a, b>>) = 2 /\ Len(<<a, b, c, d>>) = 4 /\ <<a, b, c, d>>[1] = a
  OBVIOUS
<1>3. <<a, b, c, d>> \in Seq(Index)
  OBVIOUS
<1>4. Len(<<a, b, c, d>>) <= 4
  BY <1>2
<1>5. <<a, b, c, d>> \in Path
  BY <1>3, <1>4, PathIsSeq
<1> QED
  BY <1>1, <1>2, <1>5

(* The empty path, and what an entry below it is.                            *)
LEMMA EmptyPath == <<>> \in Path /\ Len(<<>>) = 0
<1>1. <<>> \in Seq(Index) /\ Len(<<>>) = 0
  BY EmptySeq
<1>2. Len(<<>>) <= 4
  BY <1>1
<1> QED
  BY <1>1, <1>2, PathIsSeq

(* An entry of a kernel table is written: no page of the tree hangs there.   *)
LEMMA KernelEntry ==
  ASSUME NEW h, NEW h2, NEW r, NEW nd, IsTree(h.mem, r, nd), NEW k \in KERN_L4, NEW i \in Index,
         NEW p, p = Append(<<>>, k), p \in DOMAIN nd, NEW e, Written(h, nd[p], i, e, h2),
         e.valid => e.leaf /\ e.phys = GIANT
  PROVE  IsTree(h2.mem, r, nd)
<1>1. p \in Path /\ Len(p) = 1 /\ Len(p) < 4 /\ p[1] = k
  <2>1. <<>> \in Path /\ Len(<<>>) = 0 /\ Len(<<>>) < 4 /\ k \in Index
    BY EmptyPath, ConstantFacts
  <2>2. p \in Path /\ Len(p) = Len(<<>>) + 1 /\ p[1] = IF Len(<<>>) = 0 THEN k ELSE <<>>[1]
    BY <2>1, AppendPath
  <2> QED
    BY <2>1, <2>2
<1>2. nd[p] \in Page /\ \A q \in DOMAIN nd : nd[q] \in Page
  BY DEF IsTree
<1>3. /\ \A q \in Page : q # nd[p] => h2.mem[q] = h.mem[q]
      /\ \A j \in Index : h2.mem[nd[p]][j] = IF j = i THEN e ELSE h.mem[nd[p]][j]
  BY <1>2 DEF Written
<1>4. ASSUME NEW j \in Index PROVE Append(p, j) \notin DOMAIN nd
  <2>1. /\ Len(Append(p, j)) = Len(p) + 1
        /\ Append(p, j)[1] = IF Len(p) = 0 THEN j ELSE p[1]
    BY <1>1, AppendPath
  <2>2. Len(Append(p, j)) > 1 /\ Append(p, j)[1] = k
    BY <1>1, <2>1
  <2> QED
    BY <2>2 DEF IsTree
<1>5. \A q \in DOMAIN nd : q # p => h2.mem[nd[q]] = h.mem[nd[q]]
  BY <1>2, <1>3 DEF IsTree
<1>6. ASSUME NEW q \in Path, NEW j \in Index, Len(q) < 4, Append(q, j) \in DOMAIN nd
      PROVE  Linked(h2.mem, nd, q, j)
  <2>1. Linked(h.mem, nd, q, j) /\ q # p
    BY <1>4, <1>6 DEF IsTree
  <2> QED
    BY <1>5, <2>1 DEF Linked
<1>7. ASSUME NEW q \in DOMAIN nd, NEW j \in Index, Len(q) < 4, Append(q, j) \notin DOMAIN nd
      PROVE  Unlinked(h2.mem, nd, q, j)
  <2>1. Unlinked(h.mem, nd, q, j)
    BY <1>7 DEF IsTree
  <2>2. CASE q # p
    BY <1>5, <2>1, <2>2 DEF Unlinked
  <2>3. CASE q = p /\ j # i
    BY <1>3, <2>1, <2>3 DEF Unlinked
  <2>4. CASE q = p /\ j = i
    <3>1. h2.mem[nd[q]][j] = e
      BY <1>3, <2>4
    <3> QED
      BY <1>1, <2>4, <3>1 DEF Unlinked
  <2> QED
    BY <2>2, <2>3, <2>4
<1> QED
  BY <1>6, <1>7 DEF IsTree

(* map_page of a giant page of the kernel: the tree has its table.           *)
LEMMA MapGiant ==
  ASSUME NEW B, NEW m, NEW h, NEW r, NEW nd, NEW X, Grown(B, m, h, r, nd, X),
         NEW k \in KERN_L4, NEW i \in Index, NEW h2, h2 = map_page(h, r, <<k, i>>, GIANT)
  PROVE  \/ Exhausted(h2)
         \/ \E nd2 : /\ Grown(B, m, h2, r, nd2, X) /\ Larger(nd2, nd)
                     /\ \A q \in DOMAIN nd2 : q \notin DOMAIN nd => Len(q) < 4
<1> DEFINE va == <<k, i>>
           new == [valid |-> TRUE, leaf |-> TRUE, phys |-> GIANT]
<1>0. k \in Index /\ Len(va) = 2 /\ va[1] = k /\ va[2] = i
  BY ConstantFacts
<1>1. PICK at : /\ TableFor(h, r, va) = at[2]
                /\ at[1] = [heap |-> h, table |-> r]
                /\ at[2] = Down(at[1], k)
  <2> HIDE DEF va
  <2>0. Len(va) \in Nat \ {0}
    BY <1>0
  <2>1. PICK at : WalkOf(at, h, r, va)
    BY <2>0, TableForLoop, Zenon
  <2>2. at[2] = Down(at[2 - 1], va[2 - 1])
    BY <1>0, <2>1 DEF WalkOf
  <2> QED
    BY <1>0, <2>1, <2>2 DEF WalkOf
<1>2. PICK w : w = at[2]
  OBVIOUS
<1>3. Writes(w.heap, w.table, i, new, h2)
  <2> HIDE DEF va
  <2>1. h2 = map_page(h, r, va, GIANT)
    BY DEF va
  <2> QED
    BY <1>0, <1>1, <1>2, <2>1 DEF map_page, Writes
<1> HIDE DEF va
<1>4. new \in Pte
  BY DEF Pte
<1> HIDE DEF new
<1>5. CASE Exhausted(w.heap)
  BY <1>3, <1>4, <1>5, WriteExhausted, Zenon
<1>6. ASSUME NEW nd2, Grown(B, m, w.heap, r, nd2, X), Larger(nd2, nd),
             \A q \in DOMAIN nd2 : q \notin DOMAIN nd => Len(q) < 4,
             Append(<<>>, k) \in DOMAIN nd2, w.table = nd2[Append(<<>>, k)]
      PROVE  Grown(B, m, h2, r, nd2, X)
  <2> DEFINE p == Append(<<>>, k)
  <2> HIDE DEF p
  <2>1. /\ w.heap \in Heap /\ IsTree(w.heap.mem, r, nd2)
        /\ p \in DOMAIN nd2 /\ nd2[p] \in Page /\ w.table = nd2[p]
    BY <1>6 DEF Grown, IsTree, p
  <2>2. Written(w.heap, nd2[p], i, new, h2)
    BY <1>3, <1>4, <2>1, WriteEntry, Zenon
  <2>3. /\ h2 \in Heap /\ h2.used = w.heap.used /\ h2.panic = w.heap.panic
        /\ \A q \in Page : q # nd2[p] => h2.mem[q] = w.heap.mem[q]
    BY <2>2 DEF Written
  <2>4. IsTree(h2.mem, r, nd2)
    <3>1. new.valid => new.leaf /\ new.phys = GIANT
      BY DEF new
    <3> QED
      BY <2>1, <2>2, <3>1, KernelEntry, Zenon DEF p
  <2>9. \A q \in B : h2.mem[q] = m[q]
    <3>1. B \subseteq Page /\ nd2[p] \notin B
      BY <1>6, <2>1 DEF Grown, Heap
    <3> QED
      BY <1>6, <2>3, <3>1 DEF Grown
  <2> QED
    BY <1>6, <2>3, <2>4, <2>9 DEF Grown
<1>7. <<>> \in DOMAIN nd /\ nd[<<>>] = r
  BY DEF Grown, IsTree
<1>8. at[1].heap = h /\ at[1].table = nd[<<>>] /\ w = Down(at[1], k)
  BY <1>1, <1>2, <1>7
<1>9. Descended(B, m, w, r, nd, X, <<>>, k)
  <2>1. Len(<<>>) < 3 /\ Len(<<>>) = 0
    BY EmptyPath
  <2>2. MayDescend(B, m, h, r, nd, X, <<>>, k)
    BY <1>0, <1>7, <2>1 DEF MayDescend
  <2> QED
    BY <1>8, <2>2, DownGrown, Zenon
<1> QED
  BY <1>5, <1>6, <1>9, Zenon DEF Descended

(* The next turn of the loop.                                                *)
LEMMA DownAgain ==
  ASSUME NEW B, NEW m, NEW w, NEW r, NEW nd, NEW X, NEW p, NEW i, NEW q, NEW j \in Index,
         Descended(B, m, w, r, nd, X, p, i), q = Append(p, i), Len(q) < 3, q[1] \notin KERN_L4
  PROVE  Descended(B, m, Down(w, j), r, nd, X, q, j)
<1>1. CASE Exhausted(w.heap)
  BY <1>1, DownExhausted DEF Descended
<1>2. ASSUME NEW nd2, Grown(B, m, w.heap, r, nd2, X), Larger(nd2, nd),
             \A x \in DOMAIN nd2 : x \notin DOMAIN nd => Len(x) < 4,
             q \in DOMAIN nd2, w.table = nd2[q]
      PROVE  Descended(B, m, Down(w, j), r, nd, X, q, j)
  <2>1. MayDescend(B, m, w.heap, r, nd2, X, q, j)
    BY <1>2 DEF MayDescend
  <2>2. Descended(B, m, Down(w, j), r, nd2, X, q, j)
    BY <1>2, <2>1, DownGrown, Zenon
  <2>3. ASSUME NEW nd3, Larger(nd3, nd2), \A x \in DOMAIN nd3 : x \notin DOMAIN nd2 => Len(x) < 4
        PROVE  Larger(nd3, nd) /\ \A x \in DOMAIN nd3 : x \notin DOMAIN nd => Len(x) < 4
    BY <1>2, <2>3 DEF Larger
  <2> QED
    BY <2>2, <2>3, Zenon DEF Descended
<1> QED
  BY <1>1, <1>2, Zenon DEF Descended

(* nd2 is nd with the page pa at va, and the tables that lead there.         *)
Adds(nd2, nd, va, pa) ==
  /\ Larger(nd2, nd)
  /\ va \in DOMAIN nd2 /\ nd2[va] = pa
  /\ \A q \in DOMAIN nd2 : q \notin DOMAIN nd /\ Len(q) = 4 => q = va

(* The entry of a small page is filled in.                                   *)
LEMMA LeafGrown ==
  ASSUME NEW B, NEW m, NEW h, NEW r, NEW nd, NEW X, Grown(B, m, h, r, nd, X),
         NEW p \in DOMAIN nd, Len(p) = 3, p[1] \notin KERN_L4, NEW d \in Index,
         Append(p, d) \notin DOMAIN nd, NEW pa \in X,
         NEW new, new = [valid |-> TRUE, leaf |-> TRUE, phys |-> pa],
         NEW h2, Writes(h, nd[p], d, new, h2)
  PROVE  \E nd2 : Grown(B, m, h2, r, nd2, X \ {pa}) /\ Adds(nd2, nd, Append(p, d), pa)
<1> DEFINE np == Append(p, d)
           nd2 == [x \in DOMAIN nd \cup {np} |-> IF x = np THEN pa ELSE nd[x]]
<1>0. /\ h \in Heap /\ h.panic = FALSE /\ IsTree(h.mem, r, nd) /\ p \in Path /\ nd[p] \in Page
      /\ X \subseteq Page /\ Len(p) < 4
  BY DEF Grown, IsTree, Heap
<1>1. new \in Pte
  BY <1>0 DEF Pte
<1>2. /\ h2 \in Heap /\ h2.used = h.used /\ h2.panic = h.panic
      /\ \A q \in Page : q # nd[p] => h2.mem[q] = h.mem[q]
      /\ \A j \in Index : h2.mem[nd[p]][j] = IF j = d THEN new ELSE h.mem[nd[p]][j]
  <2>1. Written(h, nd[p], d, new, h2)
    BY <1>0, <1>1, WriteEntry, Zenon
  <2> QED
    BY <1>0, <2>1 DEF Written
<1>3. \A x \in DOMAIN nd : nd[x] \in Page /\ nd[x] # pa
  BY <1>0 DEF Grown, IsTree
<1>4. \A x \in DOMAIN nd : x # p => h2.mem[nd[x]] = h.mem[nd[x]]
  BY <1>0, <1>2, <1>3 DEF IsTree
<1>5. IsTree(h2.mem, r, nd2) /\ Larger(nd2, nd)
  <2>1. h2.mem[nd[p]][d] = new
    BY <1>2
  <2>2. h2.mem[nd[p]][d].valid /\ h2.mem[nd[p]][d].leaf /\ h2.mem[nd[p]][d].phys = pa
    BY <2>1
  <2>3. \A j \in Index : j # d => h2.mem[nd[p]][j] = h.mem[nd[p]][j]
    BY <1>2
  <2>4. ~(Len(p) < 3)
    OBVIOUS
  <2>5. nd2 = [x \in DOMAIN nd \cup {Append(p, d)} |-> IF x = Append(p, d) THEN pa ELSE nd[x]]
    OBVIOUS
  <2> HIDE DEF nd2
  <2>6. Joins(h.mem, h2.mem, nd, nd2, p, d, pa)
    BY <1>0, <1>3, <1>4, <2>2, <2>3, <2>4, <2>5, Zenon DEF Joins
  <2> QED
    BY <1>0, <2>6, TreeGrows, Zenon
<1>6. Range(nd2) = Range(nd) \cup {pa}
  BY DEF Range
<1>7. Grown(B, m, h2, r, nd2, X \ {pa})
  <2>1. h2.used = B \cup (X \ {pa}) \cup Range(nd2)
    BY <1>2, <1>6 DEF Grown
  <2>2. \A x \in DOMAIN nd2 : nd2[x] \notin B /\ nd2[x] \notin X \ {pa}
    BY DEF Grown
  <2>3. \A x \in B : h2.mem[x] = m[x]
    <3>1. B \subseteq Page /\ nd[p] \notin B
      BY <1>0 DEF Grown, Heap
    <3> QED
      BY <1>2, <3>1 DEF Grown
  <2> HIDE DEF nd2
  <2> QED
    BY <1>0, <1>2, <1>5, <2>1, <2>2, <2>3 DEF Grown
<1>8. np \in DOMAIN nd2 /\ nd2[np] = pa /\ \A q \in DOMAIN nd2 : q \notin DOMAIN nd => q = np
  OBVIOUS
<1> HIDE DEF nd2
<1>9. Adds(nd2, nd, np, pa)
  BY <1>5, <1>8 DEF Adds
<1> QED
  BY <1>7, <1>9

(* The walk of map_page for the address of a small page.                     *)
LEMMA TableForSmall ==
  ASSUME NEW h, NEW r, NEW va, Len(va) = 4
  PROVE  \E at : /\ TableFor(h, r, va) = at[4]
                 /\ at[1] = [heap |-> h, table |-> r]
                 /\ at[2] = Down(at[1], va[1])
                 /\ at[3] = Down(at[2], va[2])
                 /\ at[4] = Down(at[3], va[3])
<1>0. Len(va) \in Nat \ {0}
  OBVIOUS
<1>1. PICK at : WalkOf(at, h, r, va)
  BY <1>0, TableForLoop, Zenon
<1>2. /\ at[2] = Down(at[2 - 1], va[2 - 1])
      /\ at[3] = Down(at[3 - 1], va[3 - 1])
      /\ at[4] = Down(at[4 - 1], va[4 - 1])
  BY <1>1 DEF WalkOf
<1> QED
  BY <1>1, <1>2 DEF WalkOf

(* map_page of a small page: the tree has it at its address.                 *)
LEMMA MapSmall ==
  ASSUME NEW B, NEW m, NEW h, NEW r, NEW nd, NEW X, Grown(B, m, h, r, nd, X),
         NEW a \in Index \ KERN_L4, NEW b \in Index, NEW c \in Index, NEW d \in Index,
         NEW va, va = <<a, b, c, d>>, va \notin DOMAIN nd, NEW pa \in X,
         NEW h2, h2 = map_page(h, r, va, pa)
  PROVE  \/ Exhausted(h2)
         \/ \E nd2 : Grown(B, m, h2, r, nd2, X \ {pa}) /\ Adds(nd2, nd, va, pa)
<1>0. Len(va) = 4 /\ va[1] = a /\ va[2] = b /\ va[3] = c /\ va[4] = d
  OBVIOUS
<1>1. PICK at : /\ TableFor(h, r, va) = at[4]
                /\ at[1] = [heap |-> h, table |-> r]
                /\ at[2] = Down(at[1], a)
                /\ at[3] = Down(at[2], b)
                /\ at[4] = Down(at[3], c)
  BY <1>0, TableForSmall
<1> DEFINE p1 == Append(<<>>, a)
           p2 == Append(p1, b)
           p3 == Append(p2, c)
<1>2. va = Append(p3, d)
  BY VaPath
<1> HIDE DEF p1, p2, p3
<1>3. <<>> \in Path /\ Len(<<>>) = 0 /\ Len(<<>>) < 4 /\ Len(<<>>) < 3
  BY EmptyPath
<1>4. p1 \in Path /\ Len(p1) = 1 /\ Len(p1) < 4 /\ Len(p1) < 3 /\ p1[1] = a
  <2>1. p1 \in Path /\ Len(p1) = Len(<<>>) + 1 /\ p1[1] = IF Len(<<>>) = 0 THEN a ELSE <<>>[1]
    BY <1>3, AppendPath DEF p1
  <2> QED
    BY <1>3, <2>1
<1>5. p2 \in Path /\ Len(p2) = 2 /\ Len(p2) < 4 /\ Len(p2) < 3 /\ p2[1] = a
  <2>1. p2 \in Path /\ Len(p2) = Len(p1) + 1 /\ p2[1] = IF Len(p1) = 0 THEN b ELSE p1[1]
    BY <1>4, AppendPath DEF p2
  <2> QED
    BY <1>4, <2>1
<1>6. p3 \in Path /\ Len(p3) = 3 /\ p3[1] = a
  <2>1. p3 \in Path /\ Len(p3) = Len(p2) + 1 /\ p3[1] = IF Len(p2) = 0 THEN c ELSE p2[1]
    BY <1>5, AppendPath DEF p3
  <2> QED
    BY <1>5, <2>1
<1>7. Descended(B, m, at[2], r, nd, X, <<>>, a)
  <2>1. <<>> \in DOMAIN nd /\ nd[<<>>] = r
    BY DEF Grown, IsTree
  <2>2. MayDescend(B, m, h, r, nd, X, <<>>, a)
    BY <1>3, <2>1 DEF MayDescend
  <2>3. at[1].heap = h /\ at[1].table = nd[<<>>]
    BY <1>1, <2>1
  <2> QED
    BY <1>1, <2>2, <2>3, DownGrown, Zenon
<1>8. Descended(B, m, at[3], r, nd, X, p1, b)
  <2>1. p1[1] \notin KERN_L4
    BY <1>4
  <2> QED
    BY <1>1, <1>4, <1>7, <2>1, DownAgain, Zenon DEF p1
<1>9. Descended(B, m, at[4], r, nd, X, p2, c)
  <2>1. p2[1] \notin KERN_L4
    BY <1>5
  <2> QED
    BY <1>1, <1>5, <1>8, <2>1, DownAgain, Zenon DEF p2
<1>10. PICK w : w = at[4]
  OBVIOUS
<1> DEFINE new == [valid |-> TRUE, leaf |-> TRUE, phys |-> pa]
<1>11. Writes(w.heap, w.table, d, new, h2)
  BY <1>0, <1>1, <1>10 DEF map_page, Writes
<1>12. CASE Exhausted(w.heap)
  <2>1. new \in Pte
    BY DEF Pte, Grown, Heap
  <2> HIDE DEF new
  <2> QED
    BY <1>11, <1>12, <2>1, WriteExhausted, Zenon
<1>13. ASSUME NEW nd1, Grown(B, m, w.heap, r, nd1, X), Larger(nd1, nd),
              \A q \in DOMAIN nd1 : q \notin DOMAIN nd => Len(q) < 4,
              p3 \in DOMAIN nd1, w.table = nd1[p3]
       PROVE  \E nd2 : Grown(B, m, h2, r, nd2, X \ {pa}) /\ Adds(nd2, nd, va, pa)
  <2>1. va \notin DOMAIN nd1
    <3>1. ~(Len(va) < 4)
      BY <1>0
    <3> QED
      BY <1>13, <3>1, Zenon
  <2>2. PICK nd2 : Grown(B, m, h2, r, nd2, X \ {pa}) /\ Adds(nd2, nd1, Append(p3, d), pa)
    <3>0. new = [valid |-> TRUE, leaf |-> TRUE, phys |-> pa]
      OBVIOUS
    <3> HIDE DEF new
    <3>1. Writes(w.heap, nd1[p3], d, new, h2)
      BY <1>11, <1>13, Zenon
    <3>2. p3[1] \notin KERN_L4 /\ Append(p3, d) \notin DOMAIN nd1
      BY <1>2, <1>6, <2>1
    <3> QED
      BY <1>6, <1>13, <3>0, <3>1, <3>2, LeafGrown, Zenon
  <2>3. Adds(nd2, nd, va, pa)
    <3>1. /\ Larger(nd2, nd1) /\ va \in DOMAIN nd2 /\ nd2[va] = pa
          /\ \A q \in DOMAIN nd2 : q \notin DOMAIN nd1 /\ Len(q) = 4 => q = va
      BY <1>2, <2>2 DEF Adds
    <3>2. Larger(nd2, nd)
      BY <1>13, <3>1 DEF Larger
    <3>3. ASSUME NEW q \in DOMAIN nd2, q \notin DOMAIN nd, Len(q) = 4 PROVE q = va
      <4>1. q \notin DOMAIN nd1
        BY <1>13, <3>3
      <4> QED
        BY <3>1, <3>3, <4>1
    <3> QED
      BY <3>1, <3>2, <3>3 DEF Adds
  <2> QED
    BY <2>2, <2>3
<1> QED
  BY <1>9, <1>10, <1>12, <1>13, Zenon DEF Descended, p3

-----------------------------------------------------------------------------
(* The direct maps *)

(* The loops of map_kernel and unmap_kernel go over kernel addresses.        *)
LEMMA KernelAddresses ==
  /\ Len(KernelSeq) \in Nat
  /\ \A j \in 1 .. Len(KernelSeq) : \E k \in KERN_L4, i \in Index : KernelSeq[j] = <<k, i>>
<1>1. IsFiniteSet(Index)
  <2>1. 0 \in Int /\ NUM_PT_ENTRIES - 1 \in Int
    BY MemoryAssumption DEF MemoryAssumption
  <2> QED
    BY <2>1, FS_Interval DEF Index
<1>2. IsFiniteSet(KERN_L4)
  BY <1>1, ConstantFacts, FS_Subset
<1>3. IsFiniteSet(KernelVa)
  BY <1>1, <1>2, FS_Product DEF KernelVa
<1>4. Cardinality(KernelVa) \in Nat /\ ExistsBijection(1 .. Cardinality(KernelVa), KernelVa)
  BY <1>3, FS_CardinalityType
<1>5. PICK n \in Nat : n = Cardinality(KernelVa)
  BY <1>4
<1>6. \E f \in [1 .. n -> KernelVa] : IsInjective(f)
  <2>1. PICK f : f \in Bijection(1 .. n, KernelVa)
    BY <1>4, <1>5 DEF ExistsBijection
  <2> QED
    BY <2>1 DEF Bijection, Injection
<1>7. KernelSeq \in [1 .. n -> KernelVa]
  <2>1. KernelSeq = CHOOSE f \in [1 .. n -> KernelVa] : IsInjective(f)
    BY <1>5 DEF KernelSeq, SetToSeq
  <2> QED
    BY <1>6, <2>1
<1>8. KernelSeq \in Seq(KernelVa)
  BY <1>7, SeqDef
<1>9. Len(KernelSeq) = n
  BY <1>7, <1>8, LenProperties
<1> QED
  BY <1>7, <1>9 DEF KernelVa

(* The loop of map_kernel.                                                   *)
MapKernelLoop(done, h, root) ==
  /\ map_kernel(h, root) = done[Len(KernelSeq)]
  /\ done[0] = h
  /\ \A i \in 1 .. Len(KernelSeq) : done[i] = map_page(done[i - 1], root, KernelSeq[i], GIANT)

(* The recursive function of map_kernel is its loop.                         *)
LEMMA MapKernelRuns ==
  ASSUME NEW h, NEW root
  PROVE  \E done : MapKernelLoop(done, h, root)
<1> DEFINE Step(f, i) == IF i = 0 THEN h ELSE map_page(f[i - 1], root, KernelSeq[i], GIANT)
<1>0. PICK n \in Nat : n = Len(KernelSeq)
  BY KernelAddresses
<1>1. ASSUME NEW f, NEW g, NEW i \in Nat, i # 0, f[i - 1] = g[i - 1] PROVE Step(f, i) = Step(g, i)
  BY <1>1
<1>2. ASSUME NEW f PROVE Step(f, 0) = h
  OBVIOUS
<1>3. ASSUME NEW f, NEW i \in 1 .. n PROVE Step(f, i) = map_page(f[i - 1], root, KernelSeq[i], GIANT)
  OBVIOUS
<1> HIDE DEF Step
<1>4. \E f : f = [i \in 0 .. n |-> Step(f, i)]
  <2> DEFINE P == {k \in 0 .. n : \E f : f = [i \in 0 .. k |-> Step(f, i)]}
  <2>1. 0 \in P
    <3> DEFINE f == [i \in 0 .. 0 |-> h]
    <3>1. \A i \in 0 .. 0 : f[i] = Step(f, i)
      BY <1>2
    <3>2. f = [i \in 0 .. 0 |-> Step(f, i)]
      BY <3>1
    <3> HIDE DEF f
    <3> QED
      BY <3>2
  <2>2. ASSUME NEW k \in 0 .. n - 1, k \in P PROVE k + 1 \in P
    <3>1. PICK f : f = [i \in 0 .. k |-> Step(f, i)]
      BY <2>2
    <3> DEFINE g == [i \in 0 .. k + 1 |-> IF i = k + 1 THEN Step(f, k + 1) ELSE f[i]]
    <3>2. ASSUME NEW i \in 0 .. k + 1 PROVE g[i] = Step(g, i)
      <4>1. CASE i = k + 1
        <5>1. g[i] = Step(f, i) /\ g[i - 1] = f[i - 1] /\ i \in Nat /\ i # 0
          BY <4>1
        <5> HIDE DEF g
        <5> QED
          BY <1>1, <5>1
      <4>2. CASE i # k + 1
        <5>1. i \in 0 .. k /\ g[i] = f[i]
          BY <4>2
        <5>2. g[i] = Step(f, i)
          BY <3>1, <5>1, Zenon
        <5>3. CASE i = 0
          BY <1>2, <5>2, <5>3
        <5>4. CASE i # 0
          <6>1. g[i - 1] = f[i - 1] /\ i \in Nat
            BY <5>1, <5>4
          <6> HIDE DEF g
          <6> QED
            BY <1>1, <5>2, <5>4, <6>1
        <5> QED
          BY <5>3, <5>4
      <4> QED
        BY <4>1, <4>2
    <3>3. g = [i \in 0 .. k + 1 |-> Step(g, i)]
      BY <3>2
    <3> HIDE DEF g
    <3> QED
      BY <3>3
  <2> HIDE DEF P
  <2>3. n \in P
    BY <2>1, <2>2, Induction
  <2> QED
    BY <2>3 DEF P
<1> DEFINE done == CHOOSE f : f = [i \in 0 .. n |-> Step(f, i)]
<1>5. done = [i \in 0 .. n |-> Step(done, i)]
  BY <1>4, Zenon
<1>6. map_kernel(h, root) = done[n]
  BY <1>0 DEF map_kernel, Step
<1> HIDE DEF done
<1>7. done[0] = h /\ \A i \in 1 .. n : done[i] = map_page(done[i - 1], root, KernelSeq[i], GIANT)
  <2>1. \A i \in 0 .. n : done[i] = Step(done, i)
    BY <1>5, Zenon
  <2> QED
    BY <1>2, <1>3, <2>1
<1> QED
  BY <1>0, <1>6, <1>7 DEF MapKernelLoop

(* The loop of unmap_kernel.                                                 *)
UnmapKernelLoop(done, h, root) ==
  /\ unmap_kernel(h, root) = done[Len(KernelSeq)]
  /\ done[0] = h
  /\ \A i \in 1 .. Len(KernelSeq) : done[i] = unmap_page(done[i - 1], root, KernelSeq[i])

(* The recursive function of unmap_kernel is its loop.                       *)
LEMMA UnmapKernelRuns ==
  ASSUME NEW h, NEW root
  PROVE  \E done : UnmapKernelLoop(done, h, root)
<1> DEFINE Step(f, i) == IF i = 0 THEN h ELSE unmap_page(f[i - 1], root, KernelSeq[i])
<1>0. PICK n \in Nat : n = Len(KernelSeq)
  BY KernelAddresses
<1>1. ASSUME NEW f, NEW g, NEW i \in Nat, i # 0, f[i - 1] = g[i - 1] PROVE Step(f, i) = Step(g, i)
  BY <1>1
<1>2. ASSUME NEW f PROVE Step(f, 0) = h
  OBVIOUS
<1>3. ASSUME NEW f, NEW i \in 1 .. n PROVE Step(f, i) = unmap_page(f[i - 1], root, KernelSeq[i])
  OBVIOUS
<1> HIDE DEF Step
<1>4. \E f : f = [i \in 0 .. n |-> Step(f, i)]
  <2> DEFINE P == {k \in 0 .. n : \E f : f = [i \in 0 .. k |-> Step(f, i)]}
  <2>1. 0 \in P
    <3> DEFINE f == [i \in 0 .. 0 |-> h]
    <3>1. \A i \in 0 .. 0 : f[i] = Step(f, i)
      BY <1>2
    <3>2. f = [i \in 0 .. 0 |-> Step(f, i)]
      BY <3>1
    <3> HIDE DEF f
    <3> QED
      BY <3>2
  <2>2. ASSUME NEW k \in 0 .. n - 1, k \in P PROVE k + 1 \in P
    <3>1. PICK f : f = [i \in 0 .. k |-> Step(f, i)]
      BY <2>2
    <3> DEFINE g == [i \in 0 .. k + 1 |-> IF i = k + 1 THEN Step(f, k + 1) ELSE f[i]]
    <3>2. ASSUME NEW i \in 0 .. k + 1 PROVE g[i] = Step(g, i)
      <4>1. CASE i = k + 1
        <5>1. g[i] = Step(f, i) /\ g[i - 1] = f[i - 1] /\ i \in Nat /\ i # 0
          BY <4>1
        <5> HIDE DEF g
        <5> QED
          BY <1>1, <5>1
      <4>2. CASE i # k + 1
        <5>1. i \in 0 .. k /\ g[i] = f[i]
          BY <4>2
        <5>2. g[i] = Step(f, i)
          BY <3>1, <5>1, Zenon
        <5>3. CASE i = 0
          BY <1>2, <5>2, <5>3
        <5>4. CASE i # 0
          <6>1. g[i - 1] = f[i - 1] /\ i \in Nat
            BY <5>1, <5>4
          <6> HIDE DEF g
          <6> QED
            BY <1>1, <5>2, <5>4, <6>1
        <5> QED
          BY <5>3, <5>4
      <4> QED
        BY <4>1, <4>2
    <3>3. g = [i \in 0 .. k + 1 |-> Step(g, i)]
      BY <3>2
    <3> HIDE DEF g
    <3> QED
      BY <3>3
  <2> HIDE DEF P
  <2>3. n \in P
    BY <2>1, <2>2, Induction
  <2> QED
    BY <2>3 DEF P
<1> DEFINE done == CHOOSE f : f = [i \in 0 .. n |-> Step(f, i)]
<1>5. done = [i \in 0 .. n |-> Step(done, i)]
  BY <1>4, Zenon
<1>6. unmap_kernel(h, root) = done[n]
  BY <1>0 DEF unmap_kernel, Step
<1> HIDE DEF done
<1>7. done[0] = h /\ \A i \in 1 .. n : done[i] = unmap_page(done[i - 1], root, KernelSeq[i])
  <2>1. \A i \in 0 .. n : done[i] = Step(done, i)
    BY <1>5, Zenon
  <2> QED
    BY <1>2, <1>3, <2>1
<1> QED
  BY <1>0, <1>6, <1>7 DEF UnmapKernelLoop

(* The loop of load_seg.                                                     *)
LoadLoop(done, h, root, n) ==
  /\ load_seg(h, root, n) = done[n]
  /\ done[0] = [heap |-> h, maps |-> <<>>]
  /\ \A i \in 1 .. n : done[i] = MapFresh(done[i - 1], root, TextVa(i - 1))

(* The recursive function of load_seg is its loop.                           *)
LEMMA LoadRuns ==
  ASSUME NEW h, NEW root, NEW n \in Nat
  PROVE  \E done : LoadLoop(done, h, root, n)
<1> DEFINE Step(f, i) == IF i = 0 THEN [heap |-> h, maps |-> <<>>] ELSE MapFresh(f[i - 1], root, TextVa(i - 1))
<1>1. ASSUME NEW f, NEW g, NEW i \in Nat, i # 0, f[i - 1] = g[i - 1] PROVE Step(f, i) = Step(g, i)
  BY <1>1
<1>2. ASSUME NEW f PROVE Step(f, 0) = [heap |-> h, maps |-> <<>>]
  OBVIOUS
<1>3. ASSUME NEW f, NEW i \in 1 .. n PROVE Step(f, i) = MapFresh(f[i - 1], root, TextVa(i - 1))
  OBVIOUS
<1> HIDE DEF Step
<1>4. \E f : f = [i \in 0 .. n |-> Step(f, i)]
  <2> DEFINE P == {k \in 0 .. n : \E f : f = [i \in 0 .. k |-> Step(f, i)]}
  <2>1. 0 \in P
    <3> DEFINE f == [i \in 0 .. 0 |-> [heap |-> h, maps |-> <<>>]]
    <3>1. \A i \in 0 .. 0 : f[i] = Step(f, i)
      BY <1>2
    <3>2. f = [i \in 0 .. 0 |-> Step(f, i)]
      BY <3>1
    <3> HIDE DEF f
    <3> QED
      BY <3>2
  <2>2. ASSUME NEW k \in 0 .. n - 1, k \in P PROVE k + 1 \in P
    <3>1. PICK f : f = [i \in 0 .. k |-> Step(f, i)]
      BY <2>2
    <3> DEFINE g == [i \in 0 .. k + 1 |-> IF i = k + 1 THEN Step(f, k + 1) ELSE f[i]]
    <3>2. ASSUME NEW i \in 0 .. k + 1 PROVE g[i] = Step(g, i)
      <4>1. CASE i = k + 1
        <5>1. g[i] = Step(f, i) /\ g[i - 1] = f[i - 1] /\ i \in Nat /\ i # 0
          BY <4>1
        <5> HIDE DEF g
        <5> QED
          BY <1>1, <5>1
      <4>2. CASE i # k + 1
        <5>1. i \in 0 .. k /\ g[i] = f[i]
          BY <4>2
        <5>2. g[i] = Step(f, i)
          BY <3>1, <5>1, Zenon
        <5>3. CASE i = 0
          BY <1>2, <5>2, <5>3
        <5>4. CASE i # 0
          <6>1. g[i - 1] = f[i - 1] /\ i \in Nat
            BY <5>1, <5>4
          <6> HIDE DEF g
          <6> QED
            BY <1>1, <5>2, <5>4, <6>1
        <5> QED
          BY <5>3, <5>4
      <4> QED
        BY <4>1, <4>2
    <3>3. g = [i \in 0 .. k + 1 |-> Step(g, i)]
      BY <3>2
    <3> HIDE DEF g
    <3> QED
      BY <3>3
  <2> HIDE DEF P
  <2>3. n \in P
    BY <2>1, <2>2, Induction
  <2> QED
    BY <2>3 DEF P
<1> DEFINE done == CHOOSE f : f = [i \in 0 .. n |-> Step(f, i)]
<1>5. done = [i \in 0 .. n |-> Step(done, i)]
  BY <1>4, Zenon
<1>6. load_seg(h, root, n) = done[n]
  BY DEF load_seg, Step
<1> HIDE DEF done
<1>7. done[0] = [heap |-> h, maps |-> <<>>] /\ \A i \in 1 .. n : done[i] = MapFresh(done[i - 1], root, TextVa(i - 1))
  <2>1. \A i \in 0 .. n : done[i] = Step(done, i)
    BY <1>5, Zenon
  <2> QED
    BY <1>2, <1>3, <2>1
<1> QED
  BY <1>6, <1>7 DEF LoadLoop

-----------------------------------------------------------------------------
(* The making of an address space *)

(* mp holds the small pages that nd maps.                                    *)
MapsTree(mp, nd) ==
  /\ DOMAIN mp = {p \in DOMAIN nd : Len(p) = 4}
  /\ \A va \in DOMAIN mp : mp[va] = nd[va]

(* The address space under r is being made, and maps mp so far; or the heap  *)
(* is exhausted.                                                             *)
Building(B, m, h, mp, r, X) ==
  \/ Exhausted(h)
  \/ \E nd : Grown(B, m, h, r, nd, X) /\ MapsTree(mp, nd)

(* A giant page maps no small one.                                           *)
LEMMA GiantBuilds ==
  ASSUME NEW B, NEW m, NEW h, NEW mp, NEW r, NEW X, Building(B, m, h, mp, r, X),
         NEW k \in KERN_L4, NEW i \in Index, NEW va, va = <<k, i>>,
         NEW h2, h2 = map_page(h, r, va, GIANT)
  PROVE  Building(B, m, h2, mp, r, X)
<1>1. CASE Exhausted(h)
  <2>0. k \in Index
    BY ConstantFacts
  <2>1. Len(va) \in Nat \ {0}
    BY <2>0
  <2> QED
    BY <1>1, <2>1, MapExhausted, Zenon DEF Building
<1>2. ASSUME NEW nd, Grown(B, m, h, r, nd, X), MapsTree(mp, nd)
      PROVE  Building(B, m, h2, mp, r, X)
  <2>1. \/ Exhausted(h2)
        \/ \E nd2 : /\ Grown(B, m, h2, r, nd2, X) /\ Larger(nd2, nd)
                    /\ \A q \in DOMAIN nd2 : q \notin DOMAIN nd => Len(q) < 4
    BY <1>2, MapGiant, Zenon
  <2>2. ASSUME NEW nd2, Larger(nd2, nd), \A q \in DOMAIN nd2 : q \notin DOMAIN nd => Len(q) < 4
        PROVE  MapsTree(mp, nd2)
    BY <1>2, <2>2 DEF MapsTree, Larger
  <2> QED
    BY <2>1, <2>2, Zenon DEF Building
<1> QED
  BY <1>1, <1>2, Zenon DEF Building

(* map_kernel maps giant pages only.                                         *)
LEMMA KernelBuilds ==
  ASSUME NEW B, NEW m, NEW h, NEW mp, NEW r, NEW X, Building(B, m, h, mp, r, X)
  PROVE  Building(B, m, map_kernel(h, r), mp, r, X)
<1>0. PICK n \in Nat : n = Len(KernelSeq)
  BY KernelAddresses
<1>1. PICK done : MapKernelLoop(done, h, r)
  BY MapKernelRuns, Zenon
<1>2. /\ map_kernel(h, r) = done[n]
      /\ done[0] = h
      /\ \A i \in 1 .. n : done[i] = map_page(done[i - 1], r, KernelSeq[i], GIANT)
  BY <1>0, <1>1 DEF MapKernelLoop
<1> DEFINE P == {i \in 0 .. n : Building(B, m, done[i], mp, r, X)}
<1>3. 0 \in P
  BY <1>2
<1>4. ASSUME NEW i \in 0 .. n - 1, i \in P PROVE i + 1 \in P
  <2>1. i + 1 \in 1 .. n /\ (i + 1) - 1 = i /\ i + 1 \in 0 .. n
    OBVIOUS
  <2>2. PICK j \in 1 .. n : j = i + 1
    BY <2>1
  <2>3. done[j] = map_page(done[i], r, KernelSeq[j], GIANT)
    BY <1>2, <2>1, <2>2
  <2>4. PICK k \in KERN_L4, l \in Index : KernelSeq[j] = <<k, l>>
    BY <1>0, KernelAddresses
  <2>5. Building(B, m, done[i], mp, r, X)
    BY <1>4
  <2>6. Building(B, m, done[j], mp, r, X)
    BY <2>3, <2>4, <2>5, GiantBuilds, Zenon
  <2> QED
    BY <2>1, <2>2, <2>6
<1> HIDE DEF P
<1>5. n \in P
  BY <1>3, <1>4, Induction
<1> QED
  BY <1>2, <1>5 DEF P

(* A new root: a tree of one page.                                           *)
LEMMA NewRoot ==
  ASSUME NEW h \in Heap, h.panic = FALSE
  PROVE  Building(h.used, h.mem, alloc_pagetable(h), <<>>, PageOf(h), {})
<1> DEFINE r == PageOf(h)
           g == alloc_pagetable(h)
           nd == [p \in {<<>>} |-> r]
<1>1. r \in Page
  BY PageOfFacts
<1>2. /\ g \in Heap /\ g.mem = [h.mem EXCEPT ![r] = ZeroTable]
      /\ Free(h) = {} => g.panic = TRUE /\ g.used = h.used
      /\ Free(h) # {} => g.panic = h.panic /\ g.used = h.used \cup {r}
  BY AllocFacts
<1> HIDE DEF r, g
<1>3. CASE Free(h) = {}
  <2>1. Exhausted(g)
    BY <1>2, <1>3 DEF Exhausted, Free
  <2> QED
    BY <2>1 DEF Building, g, r
<1>4. CASE Free(h) # {}
  <2>1. r \notin h.used
    BY <1>4, PageOfFacts DEF r
  <2>2. g.mem[r] = ZeroTable
    BY <1>1, <1>2 DEF Heap
  <2>3. \A i \in Index : ~g.mem[r][i].valid
    BY <2>2 DEF ZeroTable, Invalid
  <2>4. <<>> \in Path /\ Len(<<>>) = 0
    BY EmptyPath
  <2>5. DOMAIN nd = {<<>>} /\ nd[<<>>] = r
    OBVIOUS
  <2>6. nd \in [DOMAIN nd -> Page]
    BY <1>1
  <2> HIDE DEF nd
  <2>7. \A p \in Path, i \in Index : Len(p) < 4 => Append(p, i) \notin DOMAIN nd
    BY <2>5, AppendPath
  <2>8. IsTree(g.mem, r, nd)
    BY <2>3, <2>4, <2>5, <2>6, <2>7 DEF IsTree, Unlinked
  <2>9. Range(nd) = {r}
    BY <2>5 DEF Range
  <2>10. \A p \in h.used : g.mem[p] = h.mem[p]
    BY <1>2, <2>1 DEF Heap
  <2>11. Grown(h.used, h.mem, g, r, nd, {})
    BY <1>2, <1>4, <2>1, <2>5, <2>8, <2>9, <2>10 DEF Grown
  <2>12. MapsTree(<<>>, nd)
    BY <2>4, <2>5 DEF MapsTree
  <2> QED
    BY <2>11, <2>12 DEF Building, g, r
<1> QED
  BY <1>3, <1>4

(* The address space of create_empty_task.                                   *)
LEMMA SpaceIsBuilt ==
  ASSUME NEW h \in Heap, h.panic = FALSE
  PROVE  Building(h.used, h.mem, NewSpace(h), <<>>, PageOf(h), {})
BY NewRoot, KernelBuilds, Zenon DEF NewSpace

(* A page is allocated, and is not yet in the tree.                          *)
LEMMA AllocBuilds ==
  ASSUME NEW B, NEW m, NEW h, NEW mp, NEW r, NEW X, Building(B, m, h, mp, r, X)
  PROVE  /\ Building(B, m, alloc_page(h), mp, r, X \cup {PageOf(h)})
         /\ ~Exhausted(alloc_page(h)) => PageOf(h) \notin X
<1>1. CASE Exhausted(h)
  BY <1>1, AllocExhausted DEF Building
<1>2. ASSUME NEW nd, Grown(B, m, h, r, nd, X), MapsTree(mp, nd)
      PROVE  /\ Building(B, m, alloc_page(h), mp, r, X \cup {PageOf(h)})
             /\ ~Exhausted(alloc_page(h)) => PageOf(h) \notin X
  <2> DEFINE q == PageOf(h)
             g == alloc_page(h)
  <2>1. h \in Heap /\ h.panic = FALSE /\ h.used = B \cup X \cup Range(nd)
    BY <1>2 DEF Grown
  <2>2. /\ g \in Heap /\ g.mem = h.mem
        /\ Free(h) = {} => g.panic = TRUE /\ g.used = h.used
        /\ Free(h) # {} => g.panic = h.panic /\ g.used = h.used \cup {q}
        /\ Free(h) # {} => q \notin h.used
    BY <2>1, AllocFacts, PageOfFacts
  <2> HIDE DEF q, g
  <2>3. CASE Free(h) = {}
    <3>1. Exhausted(g)
      BY <2>2, <2>3 DEF Exhausted, Free
    <3> QED
      BY <3>1 DEF Building, g, q
  <2>4. CASE Free(h) # {}
    <3>1. \A p \in DOMAIN nd : nd[p] # q
      BY <2>1, <2>2, <2>4 DEF Range
    <3>2. q \notin X /\ q \notin B
      BY <2>1, <2>2, <2>4
    <3>3. Grown(B, m, g, r, nd, X \cup {q})
      BY <1>2, <2>1, <2>2, <2>4, <3>1, <3>2 DEF Grown
    <3> QED
      BY <1>2, <3>2, <3>3 DEF Building, g, q
  <2> QED
    BY <2>3, <2>4
<1> QED
  BY <1>1, <1>2, Zenon DEF Building

(* The addresses of the user's: they are no kernel addresses, and differ.    *)
LEMMA UserAddresses ==
  /\ 0 \in Index \ KERN_L4 /\ 1 \in Index
  /\ \A i \in 0 .. MAX_TEXT - 1 : i \in Index /\ TextVa(i) \in UserVa
  /\ \A i, j \in Nat : TextVa(i) = TextVa(j) => i = j
  /\ \A i \in Nat : TextVa(i) # DEFAULT_USER_STACK /\ TextVa(i) # DEFAULT_ARG_LOCATION
  /\ DEFAULT_USER_STACK # DEFAULT_ARG_LOCATION
  /\ DEFAULT_USER_STACK \in UserVa /\ DEFAULT_ARG_LOCATION \in UserVa
  /\ \A va \in UserVa : \E a \in Index \ KERN_L4, b, c, d \in Index : va = <<a, b, c, d>>
<1>1. 0 \in Index \ KERN_L4 /\ 1 \in Index /\ \A i \in 0 .. MAX_TEXT - 1 : i \in Index
  BY ConstantFacts
<1>2. /\ \A i \in 0 .. MAX_TEXT - 1 : TextVa(i) \in UserVa
      /\ DEFAULT_USER_STACK \in UserVa /\ DEFAULT_ARG_LOCATION \in UserVa
  BY DEF UserVa
<1>3. \A i, j \in Nat : TextVa(i) = TextVa(j) => i = j
  BY DEF TextVa
<1>4. \A i \in Nat : TextVa(i) # DEFAULT_USER_STACK /\ TextVa(i) # DEFAULT_ARG_LOCATION
  BY DEF TextVa, DEFAULT_USER_STACK, DEFAULT_ARG_LOCATION
<1>5. DEFAULT_USER_STACK # DEFAULT_ARG_LOCATION
  BY DEF DEFAULT_USER_STACK, DEFAULT_ARG_LOCATION
<1>6. ASSUME NEW va \in UserVa
      PROVE  \E a \in Index \ KERN_L4, b, c, d \in Index : va = <<a, b, c, d>>
  <2>1. CASE va = DEFAULT_USER_STACK
    BY <1>1, <2>1 DEF DEFAULT_USER_STACK
  <2>2. CASE va = DEFAULT_ARG_LOCATION
    BY <1>1, <2>2 DEF DEFAULT_ARG_LOCATION
  <2>3. ASSUME NEW i \in 0 .. MAX_TEXT - 1, va = TextVa(i)
        PROVE  \E a \in Index \ KERN_L4, b, c, d \in Index : va = <<a, b, c, d>>
    BY <1>1, <2>3 DEF TextVa
  <2> QED
    BY <2>1, <2>2, <2>3, Zenon DEF UserVa
<1> QED
  BY <1>1, <1>2, <1>3, <1>4, <1>5, <1>6

(* A fresh page is mapped at an address of the user's that has none.         *)
MayMap(B, m, w, r, X, va) ==
  /\ Building(B, m, w.heap, w.maps, r, X)
  /\ va \in UserVa /\ va \notin DOMAIN w.maps

HasMapped(B, m, w, w2, r, X, va) ==
  /\ Building(B, m, w2.heap, w2.maps, r, X)
  /\ DOMAIN w2.maps = DOMAIN w.maps \cup {va}

(* MapFresh keeps the address space in the making, with one address more.    *)
LEMMA FreshBuilds ==
  ASSUME NEW B, NEW m, NEW w, NEW r, NEW X, NEW va, MayMap(B, m, w, r, X, va)
  PROVE  HasMapped(B, m, w, MapFresh(w, r, va), r, X, va)
<1>0. /\ Building(B, m, w.heap, w.maps, r, X)
      /\ va \in UserVa /\ va \notin DOMAIN w.maps
  BY DEF MayMap
<1>a. PICK w2 : w2 = MapFresh(w, r, va)
  OBVIOUS
<1>b. PICK a \in Index \ KERN_L4, b \in Index, c \in Index, d \in Index : va = <<a, b, c, d>>
  BY <1>0, UserAddresses, Zenon
<1> DEFINE q == PageOf(w.heap)
           g == alloc_page(w.heap)
<1>1. Len(va) = 4 /\ Len(va) \in Nat \ {0}
  BY <1>b
<1>2. /\ w2.heap = map_page(g, r, va, q)
      /\ DOMAIN w2.maps = DOMAIN w.maps \cup {va}
      /\ w2.maps[va] = q /\ \A v \in DOMAIN w.maps : w2.maps[v] = w.maps[v]
  <2> HIDE DEF g, q
  <2>1. w2.heap = map_page(g, r, va, q)
    BY <1>a DEF MapFresh, g, q
  <2>2. w2.maps = [v \in DOMAIN w.maps \cup {va} |-> IF v = va THEN q ELSE w.maps[v]]
    BY <1>a DEF MapFresh, q
  <2> QED
    BY <1>0, <2>1, <2>2
<1>3. Building(B, m, g, w.maps, r, X \cup {q}) /\ (~Exhausted(g) => q \notin X)
  BY <1>0, AllocBuilds, Zenon
<1>4. q \in Page
  <2>1. w.heap \in Heap
    BY <1>0, Zenon DEF Building, Exhausted, Grown
  <2> QED
    BY <2>1, PageOfFacts
<1> HIDE DEF q, g
<1>5. ASSUME Exhausted(g) PROVE Building(B, m, w2.heap, w2.maps, r, X)
  <2>1. q \in Page \cup {GIANT}
    BY <1>4
  <2>2. Exhausted(map_page(g, r, va, q))
    <3>1. ASSUME NEW v, Len(v) \in Nat \ {0} PROVE Exhausted(map_page(g, r, v, q))
      BY <1>5, <2>1, <3>1, MapExhausted
    <3> QED
      BY <1>1, <3>1, Zenon
  <2> QED
    BY <1>2, <2>2 DEF Building
<1>6. ASSUME NEW nd, Grown(B, m, g, r, nd, X \cup {q}), MapsTree(w.maps, nd), ~Exhausted(g)
      PROVE  Building(B, m, w2.heap, w2.maps, r, X)
  <2>1. va \notin DOMAIN nd
    BY <1>0, <1>1, <1>6 DEF MapsTree
  <2>2. (X \cup {q}) \ {q} = X /\ q \in X \cup {q}
    BY <1>3, <1>6
  <2>3. PICK Y : Y = X \cup {q} /\ Y \ {q} = X /\ q \in Y
    BY <2>2
  <2>4. \/ Exhausted(w2.heap)
        \/ \E nd2 : Grown(B, m, w2.heap, r, nd2, Y \ {q}) /\ Adds(nd2, nd, va, q)
    <3>1. Grown(B, m, g, r, nd, Y)
      BY <1>6, <2>3
    <3> QED
      <4>1. PICK h2 : h2 = map_page(g, r, va, q)
        OBVIOUS
      <4>2. \/ Exhausted(h2)
            \/ \E nd2 : Grown(B, m, h2, r, nd2, Y \ {q}) /\ Adds(nd2, nd, va, q)
        BY <1>b, <2>1, <2>3, <3>1, <4>1, MapSmall, Zenon
      <4> QED
        BY <1>2, <4>1, <4>2, Zenon
  <2>5. ASSUME NEW nd2, Adds(nd2, nd, va, q) PROVE MapsTree(w2.maps, nd2)
    <3>1. /\ DOMAIN nd \subseteq DOMAIN nd2 /\ \A x \in DOMAIN nd : nd2[x] = nd[x]
          /\ va \in DOMAIN nd2 /\ nd2[va] = q
          /\ \A x \in DOMAIN nd2 : x \notin DOMAIN nd /\ Len(x) = 4 => x = va
      BY <2>5 DEF Adds, Larger
    <3>2. DOMAIN w2.maps = {p \in DOMAIN nd2 : Len(p) = 4}
      BY <1>1, <1>2, <1>6, <3>1 DEF MapsTree
    <3>3. \A v \in DOMAIN w2.maps : w2.maps[v] = nd2[v]
      BY <1>2, <1>6, <3>1 DEF MapsTree
    <3> QED
      BY <3>2, <3>3 DEF MapsTree
  <2> QED
    BY <2>3, <2>4, <2>5, Zenon DEF Building
<1>7. Building(B, m, w2.heap, w2.maps, r, X)
  BY <1>3, <1>5, <1>6, Zenon DEF Building
<1> QED
  BY <1>a, <1>2, <1>7, Zenon DEF HasMapped

-----------------------------------------------------------------------------
(* The walk of walk_page *)

(* One turn of its loop.                                                     *)
WalkDown(h, w, j, l) ==
  LET e == IF w = NULL THEN Invalid ELSE h.mem[w.table][w.index]
  IN  IF ~e.valid THEN NULL ELSE IF e.leaf THEN w ELSE [table |-> e.phys, index |-> j, depth |-> l]

WalkSteps(at, h, root, va) ==
  /\ walk_page(h, root, va) = IF at[Len(va)] = NULL \/ ~h.mem[at[Len(va)].table][at[Len(va)].index].valid
                              THEN NULL ELSE at[Len(va)]
  /\ at[1] = [table |-> root, index |-> va[1], depth |-> 1]
  /\ \A l \in 2 .. Len(va) : at[l] = WalkDown(h, at[l - 1], va[l], l)

(* The recursive function of walk_page is its loop.                          *)
LEMMA WalkLoop ==
  ASSUME NEW h, NEW root, NEW va, Len(va) \in Nat \ {0}
  PROVE  \E at : WalkSteps(at, h, root, va)
<1> DEFINE Step(f, l) == IF l = 1 THEN [table |-> root, index |-> va[1], depth |-> 1] ELSE WalkDown(h, f[l - 1], va[l], l)
           n == Len(va)
<1>1. ASSUME NEW f, NEW g, NEW l \in Nat, l # 1, f[l - 1] = g[l - 1] PROVE Step(f, l) = Step(g, l)
  BY <1>1
<1>2. ASSUME NEW f PROVE Step(f, 1) = [table |-> root, index |-> va[1], depth |-> 1]
  OBVIOUS
<1>3. ASSUME NEW f, NEW l \in 2 .. n PROVE Step(f, l) = WalkDown(h, f[l - 1], va[l], l)
  OBVIOUS
<1> HIDE DEF Step
<1>4. \E f : f = [l \in 1 .. n |-> Step(f, l)]
  <2> DEFINE P == {k \in 0 .. n - 1 : \E f : f = [l \in 1 .. k + 1 |-> Step(f, l)]}
  <2>1. 0 \in P
    <3> DEFINE f == [l \in 1 .. 0 + 1 |-> [table |-> root, index |-> va[1], depth |-> 1]]
    <3>1. \A l \in 1 .. 0 + 1 : f[l] = Step(f, l)
      BY <1>2
    <3>2. f = [l \in 1 .. 0 + 1 |-> Step(f, l)]
      BY <3>1
    <3> HIDE DEF f
    <3> QED
      BY <3>2
  <2>2. ASSUME NEW k \in 0 .. (n - 1) - 1, k \in P PROVE k + 1 \in P
    <3>1. PICK f : f = [l \in 1 .. k + 1 |-> Step(f, l)]
      BY <2>2
    <3> DEFINE m == k + 1
               g == [l \in 1 .. m + 1 |-> IF l = m + 1 THEN WalkDown(h, f[m], va[m + 1], m + 1) ELSE f[l]]
    <3>2. ASSUME NEW l \in 1 .. m + 1 PROVE g[l] = Step(g, l)
      <4>1. CASE l = m + 1
        <5>1. g[l] = WalkDown(h, f[m], va[m + 1], m + 1) /\ g[m] = f[m] /\ l - 1 = m /\ l \in 2 .. n
          BY <4>1
        <5> HIDE DEF g
        <5> QED
          BY <1>3, <5>1
      <4>2. CASE l # m + 1
        <5>1. l \in 1 .. k + 1 /\ g[l] = f[l]
          BY <4>2
        <5>2. g[l] = Step(f, l)
          BY <3>1, <5>1, Zenon
        <5>3. CASE l = 1
          BY <1>2, <5>2, <5>3
        <5>4. CASE l # 1
          <6>1. g[l - 1] = f[l - 1] /\ l \in Nat
            BY <5>1, <5>4
          <6> HIDE DEF g
          <6> QED
            BY <1>1, <5>2, <5>4, <6>1
        <5> QED
          BY <5>3, <5>4
      <4> QED
        BY <4>1, <4>2
    <3>3. g = [l \in 1 .. (k + 1) + 1 |-> Step(g, l)]
      BY <3>2
    <3> HIDE DEF g
    <3> QED
      BY <3>3
  <2>3. \A k \in 0 .. n - 1 : k \in P
    <3>1. n - 1 \in Nat
      OBVIOUS
    <3> HIDE DEF P, n
    <3> QED
      BY <2>1, <2>2, <3>1, Induction
  <2>4. n - 1 \in P /\ (n - 1) + 1 = n
    BY <2>3
  <2> QED
    BY <2>4
<1> DEFINE at == CHOOSE f : f = [l \in 1 .. n |-> Step(f, l)]
<1>5. at = [l \in 1 .. n |-> Step(at, l)]
  BY <1>4, Zenon
<1>6. walk_page(h, root, va) = IF at[n] = NULL \/ ~h.mem[at[n].table][at[n].index].valid
                               THEN NULL ELSE at[n]
  BY DEF walk_page, Step, WalkDown
<1> HIDE DEF at
<1>7. at[1] = [table |-> root, index |-> va[1], depth |-> 1] /\ \A l \in 2 .. n : at[l] = WalkDown(h, at[l - 1], va[l], l)
  <2>1. \A l \in 1 .. n : at[l] = Step(at, l)
    BY <1>5, Zenon
  <2> QED
    BY <1>2, <1>3, <2>1
<1> QED
  BY <1>6, <1>7 DEF WalkSteps

(* Where the walk is after the indices p, with i to come.                    *)
WalkedTo(nd, p, i, l) ==
  IF p \in DOMAIN nd THEN [table |-> nd[p], index |-> i, depth |-> l] ELSE NULL

IsAt(w, nd, p, i, l) == w = WalkedTo(nd, p, i, l)

(* It goes on in the tree, or ends.                                          *)
MayWalk(p, l, l2) ==
  /\ p \in Path /\ l \in 1 .. 3 /\ Len(p) = l - 1 /\ l2 = l + 1
  /\ Len(p) = 0 \/ p[1] \notin KERN_L4

(* A turn of the loop goes from the node at p to the one below it, or ends.  *)
LEMMA WalkAlong ==
  ASSUME NEW h, NEW r, NEW nd, IsTree(h.mem, r, nd),
         NEW p, NEW i \in Index, NEW j, NEW l, NEW l2, MayWalk(p, l, l2),
         NEW v, IsAt(v, nd, p, i, l)
  PROVE  IsAt(WalkDown(h, v, j, l2), nd, Append(p, i), j, l2)
<1> USE DEF MayWalk, IsAt
<1>0. Len(p) \in Nat /\ Len(p) < 4 /\ Len(p) # 3
  BY PathIsSeq
<1>1. CASE p \notin DOMAIN nd
  <2>1. Append(p, i) \notin DOMAIN nd
    BY <1>0, <1>1 DEF IsTree, Linked
  <2>2. WalkedTo(nd, p, i, l) = NULL /\ WalkedTo(nd, Append(p, i), j, l2) = NULL
    BY <1>1, <2>1 DEF WalkedTo
  <2> QED
    BY <2>2 DEF WalkDown, Invalid
<1>2. CASE p \in DOMAIN nd
  <2> DEFINE w == [table |-> nd[p], index |-> i, depth |-> l]
             e == h.mem[nd[p]][i]
  <2>1. WalkedTo(nd, p, i, l) = w
    BY <1>2 DEF WalkedTo
  <2>2. w # NULL
    <3>1. w \in Walk
      BY <1>2 DEF Walk, IsTree, N_PAGETABLE_LEVELS
    <3> QED
      BY <3>1, MemoryAssumption DEF MemoryAssumption
  <2>3. w.table = nd[p] /\ w.index = i
    OBVIOUS
  <2> HIDE DEF w
  <2>4. WalkDown(h, w, j, l2)
          = IF ~e.valid THEN NULL ELSE IF e.leaf THEN w ELSE [table |-> e.phys, index |-> j, depth |-> l2]
    BY <2>2, <2>3 DEF WalkDown
  <2>5. CASE Append(p, i) \in DOMAIN nd
    <3>1. Linked(h.mem, nd, p, i)
      BY <1>0, <2>5 DEF IsTree
    <3>2. e.valid /\ ~e.leaf /\ e.phys = nd[Append(p, i)]
      BY <1>0, <3>1, Zenon DEF Linked
    <3> HIDE DEF e
    <3> QED
      BY <2>1, <2>4, <2>5, <3>2 DEF WalkedTo
  <2>6. CASE Append(p, i) \notin DOMAIN nd
    <3>1. Unlinked(h.mem, nd, p, i)
      BY <1>0, <1>2, <2>6 DEF IsTree
    <3>2. ~e.valid
      <4>1. ~(Len(p) = 1 /\ p[1] \in KERN_L4)
        BY <1>0
      <4> QED
        BY <3>1, <4>1, Zenon DEF Unlinked
    <3> HIDE DEF e
    <3> QED
      BY <2>1, <2>4, <2>6, <3>2 DEF WalkedTo
  <2> QED
    BY <2>5, <2>6
<1> QED
  BY <1>1, <1>2

(* The heap without some of its giant pages.                                 *)
Unmapped(h, h2, r, nd) ==
  /\ h2 \in Heap /\ h2.used = h.used /\ h2.panic = h.panic
  /\ IsTree(h2.mem, r, nd)
  /\ \A q \in Page : (\A p \in DOMAIN nd : nd[p] # q) => h2.mem[q] = h.mem[q]

(* unmap_page of a giant page of the kernel keeps the tree.                  *)
LEMMA GiantUnmapped ==
  ASSUME NEW h0, NEW h, NEW r, NEW nd, Unmapped(h0, h, r, nd),
         NEW k \in KERN_L4, NEW i \in Index, NEW va, va = <<k, i>>
  PROVE  Unmapped(h0, unmap_page(h, r, va), r, nd)
<1>0. /\ h \in Heap /\ IsTree(h.mem, r, nd) /\ <<>> \in DOMAIN nd /\ nd[<<>>] = r
      /\ k \in Index
  BY ConstantFacts DEF Unmapped, IsTree
<1>1. Len(va) = 2 /\ va[1] = k /\ va[2] = i
  BY <1>0
<1>2. PICK at : WalkSteps(at, h, r, va)
  <2>1. \A v : Len(v) = 2 => Len(v) \in Nat \ {0}
    OBVIOUS
  <2> QED
    BY <1>1, <2>1, WalkLoop, Zenon
<1> DEFINE p == Append(<<>>, k)
<1>3. p \in Path
  <2>1. <<>> \in Path /\ Len(<<>>) < 4
    BY EmptyPath
  <2> QED
    BY <1>0, <2>1, AppendPath
<1> HIDE DEF p
<1>4. /\ at[1] = [table |-> r, index |-> k, depth |-> 1]
      /\ at[2] = WalkDown(h, at[1], i, 2)
      /\ walk_page(h, r, va) = IF at[2] = NULL \/ ~h.mem[at[2].table][at[2].index].valid
                               THEN NULL ELSE at[2]
  <2>1. 2 \in 2 .. 2 /\ 2 - 1 = 1
    OBVIOUS
  <2>2. \A l \in 2 .. 2 : at[l] = WalkDown(h, at[l - 1], va[l], l)
    BY <1>1, <1>2 DEF WalkSteps
  <2>3. at[2] = WalkDown(h, at[2 - 1], va[2], 2)
    BY <2>1, <2>2, Zenon
  <2> QED
    BY <1>1, <1>2, <2>1, <2>3, Zenon DEF WalkSteps
<1>5. at[2] = WalkedTo(nd, p, i, 2)
  <2>1. at[1] = WalkedTo(nd, <<>>, k, 1)
    BY <1>0, <1>4 DEF WalkedTo
  <2>2. MayWalk(<<>>, 1, 2)
    BY EmptyPath DEF MayWalk
  <2>3. IsAt(at[1], nd, <<>>, k, 1)
    BY <2>1, Zenon DEF IsAt
  <2>4. IsAt(WalkDown(h, at[1], i, 2), nd, p, i, 2)
    BY <1>0, <2>2, <2>3, WalkAlong, Zenon DEF p
  <2> QED
    BY <1>4, <2>4, Zenon DEF IsAt
<1>6. CASE walk_page(h, r, va) = NULL
  BY <1>6, Zenon DEF unmap_page
<1>7. CASE walk_page(h, r, va) # NULL
  <2>1. at[2] # NULL /\ walk_page(h, r, va) = at[2]
    BY <1>4, <1>7, Zenon
  <2>2. p \in DOMAIN nd
    BY <1>5, <2>1, Zenon DEF WalkedTo
  <2>3. at[2].table = nd[p] /\ at[2].index = i /\ nd[p] \in Page
    BY <1>0, <1>5, <2>2 DEF WalkedTo, IsTree
  <2> DEFINE t == nd[p]
             e == [h.mem[t][i] EXCEPT !.valid = FALSE]
             h2 == unmap_page(h, r, va)
  <2> HIDE DEF h2, t, e
  <2>4. h2 = [h EXCEPT !.mem[t][i].valid = FALSE]
    BY <1>7, <2>1, <2>3 DEF unmap_page, t, h2
  <2>5. Writes(h, t, i, e, h2)
    BY <2>4 DEF Writes, e
  <2>6. e \in Pte /\ ~e.valid
    <3>1. h.mem[t][i] \in Pte
      BY <1>0, <2>3 DEF Heap, t
    <3> QED
      BY <3>1 DEF e, Pte
  <2>7. Written(h, t, i, e, h2)
    BY <1>0, <2>5, <2>6, WriteEntry, Zenon
  <2>8. IsTree(h2.mem, r, nd)
    BY <1>0, <2>2, <2>6, <2>7, KernelEntry, Zenon DEF p, t
  <2>9. \A q \in Page : q # t => h2.mem[q] = h.mem[q]
    BY <2>7 DEF Written
  <2>10. \A q \in Page : (\A x \in DOMAIN nd : nd[x] # q) => h2.mem[q] = h0.mem[q]
    BY <2>2, <2>9 DEF Unmapped, t
  <2>11. Unmapped(h0, h2, r, nd)
    BY <2>7, <2>8, <2>10 DEF Unmapped, Written
  <2> QED
    BY <2>11 DEF h2
<1> QED
  BY <1>6, <1>7

(* So does unmap_kernel.                                                     *)
LEMMA KernelUnmapped ==
  ASSUME NEW h \in Heap, NEW r, NEW nd, IsTree(h.mem, r, nd)
  PROVE  Unmapped(h, unmap_kernel(h, r), r, nd)
<1>0. PICK n \in Nat : n = Len(KernelSeq)
  BY KernelAddresses
<1>1. PICK done : UnmapKernelLoop(done, h, r)
  BY UnmapKernelRuns, Zenon
<1>2. /\ unmap_kernel(h, r) = done[n]
      /\ done[0] = h
      /\ \A i \in 1 .. n : done[i] = unmap_page(done[i - 1], r, KernelSeq[i])
  BY <1>0, <1>1 DEF UnmapKernelLoop
<1> DEFINE P == {i \in 0 .. n : Unmapped(h, done[i], r, nd)}
<1>3. 0 \in P
  BY <1>2 DEF Unmapped
<1>4. ASSUME NEW i \in 0 .. n - 1, i \in P PROVE i + 1 \in P
  <2>1. i + 1 \in 1 .. n /\ (i + 1) - 1 = i /\ i + 1 \in 0 .. n
    OBVIOUS
  <2>2. PICK j \in 1 .. n : j = i + 1
    BY <2>1
  <2>3. done[j] = unmap_page(done[i], r, KernelSeq[j])
    BY <1>2, <2>1, <2>2
  <2>4. PICK k \in KERN_L4, l \in Index : KernelSeq[j] = <<k, l>>
    BY <1>0, KernelAddresses
  <2>5. Unmapped(h, done[i], r, nd)
    BY <1>4
  <2>6. Unmapped(h, done[j], r, nd)
    BY <2>3, <2>4, <2>5, GiantUnmapped, Zenon
  <2> QED
    BY <2>1, <2>2, <2>6
<1> HIDE DEF P
<1>5. n \in P
  BY <1>3, <1>4, Induction
<1> QED
  BY <1>2, <1>5 DEF P

(* free_task gives back the pages of the tree and the stack, and no other.   *)
MayFree(h, t, nd) ==
  /\ h \in Heap /\ h.panic = FALSE
  /\ IsTree(h.mem, t.pagetable, nd)
  /\ Range(nd) \subseteq h.used
  /\ t.kstack_pg # NULL => t.kstack_pg \in h.used \ Range(nd)

Freed(h, h2, t, nd) ==
  /\ h2 \in Heap /\ h2.panic = FALSE
  /\ h2.used = (h.used \ Range(nd)) \ ({t.kstack_pg} \ {NULL})
  /\ \A q \in Page : q \notin Range(nd) => h2.mem[q] = h.mem[q]

(* free_task on a task with such a tree.                                     *)
LEMMA TaskFreed ==
  ASSUME NEW h, NEW t, NEW nd, MayFree(h, t, nd)
  PROVE  Freed(h, free_task(h, t), t, nd)
<1> USE DEF MayFree
<1>0. PICK h2 : h2 = free_task(h, t)
  OBVIOUS
<1> DEFINE r == t.pagetable
           u == unmap_kernel(h, r)
           g == free_pagetable(u, r)
<1>1. Unmapped(h, u, r, nd)
  BY KernelUnmapped, Zenon
<1>2. /\ u \in Heap /\ u.used = h.used /\ u.panic = FALSE /\ IsTree(u.mem, r, nd)
      /\ \A q \in Page : (\A p \in DOMAIN nd : nd[p] # q) => u.mem[q] = h.mem[q]
  BY <1>1 DEF Unmapped
<1>3. \A q \in Page : q \notin Range(nd) => u.mem[q] = h.mem[q]
  BY <1>2 DEF Range
<1> HIDE DEF u
<1>4. g = free_pages(u, nd)
  BY <1>2, PagesOfTree DEF free_pagetable
<1>5. IsInjective(nd)
  BY <1>2 DEF IsTree, IsInjective
<1>6. /\ g \in Heap /\ g.used = h.used \ Range(nd) /\ g.panic = FALSE /\ g.mem = u.mem
  BY <1>2, <1>4, <1>5 DEF free_pages, Heap
<1> HIDE DEF g
<1>7. h2 = IF t.kstack_pg = NULL THEN g ELSE free_pages(g, <<t.kstack_pg>>)
  BY <1>0 DEF free_task, g, u
<1>8. CASE t.kstack_pg = NULL
  BY <1>0, <1>3, <1>6, <1>7, <1>8 DEF Freed
<1>9. CASE t.kstack_pg # NULL
  <2> DEFINE s == <<t.kstack_pg>>
  <2>1. DOMAIN s = {1} /\ s[1] = t.kstack_pg
    OBVIOUS
  <2>2. Range(s) = {t.kstack_pg} /\ IsInjective(s)
    BY <2>1 DEF Range, IsInjective
  <2>3. h2 = free_pages(g, s)
    BY <1>7, <1>9
  <2> HIDE DEF s
  <2>4. /\ h2 \in Heap /\ h2.used = g.used \ {t.kstack_pg} /\ h2.panic = FALSE /\ h2.mem = g.mem
    BY <1>6, <1>9, <2>2, <2>3 DEF free_pages, Heap
  <2> QED
    BY <1>0, <1>3, <1>6, <1>9, <2>4 DEF Freed
<1> QED
  BY <1>8, <1>9

(* translate_page of an address of the user's: the page of the tree there.   *)
Translates(h, r, va, nd) == translate_page(h, r, va) = IF va \in DOMAIN nd THEN nd[va] ELSE NULL

(* translate_page in a tree, at an address of the user's.                    *)
LEMMA Translation ==
  ASSUME NEW h, NEW r, NEW nd, IsTree(h.mem, r, nd), NEW va \in UserVa
  PROVE  Translates(h, r, va, nd)
<1>a. PICK a \in Index \ KERN_L4, b \in Index, c \in Index, d \in Index : va = <<a, b, c, d>>
  BY UserAddresses, Zenon
<1>0. Len(va) = 4 /\ va[1] = a /\ va[2] = b /\ va[3] = c /\ va[4] = d
  BY <1>a
<1>1. PICK at : WalkSteps(at, h, r, va)
  <2>1. \A v : Len(v) = 4 => Len(v) \in Nat \ {0}
    OBVIOUS
  <2> QED
    BY <1>0, <2>1, WalkLoop, Zenon
<1>2. /\ at[1] = [table |-> r, index |-> a, depth |-> 1]
      /\ at[2] = WalkDown(h, at[1], b, 2)
      /\ at[3] = WalkDown(h, at[2], c, 3)
      /\ at[4] = WalkDown(h, at[3], d, 4)
      /\ walk_page(h, r, va) = IF at[4] = NULL \/ ~h.mem[at[4].table][at[4].index].valid
                               THEN NULL ELSE at[4]
  <2>1. 2 \in 2 .. 4 /\ 3 \in 2 .. 4 /\ 4 \in 2 .. 4 /\ 2 - 1 = 1 /\ 3 - 1 = 2 /\ 4 - 1 = 3
    OBVIOUS
  <2>2. \A l \in 2 .. 4 : at[l] = WalkDown(h, at[l - 1], va[l], l)
    BY <1>0, <1>1, Zenon DEF WalkSteps
  <2>3. /\ at[2] = WalkDown(h, at[2 - 1], va[2], 2)
        /\ at[3] = WalkDown(h, at[3 - 1], va[3], 3)
        /\ at[4] = WalkDown(h, at[4 - 1], va[4], 4)
    BY <2>1, <2>2, Zenon
  <2> QED
    BY <1>0, <1>1, <2>1, <2>3, Zenon DEF WalkSteps
<1> DEFINE p1 == Append(<<>>, a)
           p2 == Append(p1, b)
           p3 == Append(p2, c)
<1>3. va = Append(p3, d)
  BY <1>a, VaPath
<1> HIDE DEF p1, p2, p3
<1>4. <<>> \in Path /\ Len(<<>>) = 1 - 1 /\ Len(<<>>) = 0 /\ Len(<<>>) < 4
  BY EmptyPath
<1>5. p1 \in Path /\ Len(p1) = 2 - 1 /\ Len(p1) < 4 /\ Len(p1) = 1 /\ p1[1] \notin KERN_L4 /\ p1[1] = a
  <2>1. p1 \in Path /\ Len(p1) = Len(<<>>) + 1 /\ p1[1] = IF Len(<<>>) = 0 THEN a ELSE <<>>[1]
    BY <1>4, AppendPath DEF p1
  <2> QED
    BY <1>4, <2>1
<1>6. p2 \in Path /\ Len(p2) = 3 - 1 /\ Len(p2) < 4 /\ Len(p2) = 2 /\ p2[1] \notin KERN_L4 /\ p2[1] = a
  <2>1. p2 \in Path /\ Len(p2) = Len(p1) + 1 /\ p2[1] = IF Len(p1) = 0 THEN b ELSE p1[1]
    BY <1>5, AppendPath DEF p2
  <2> QED
    BY <1>5, <2>1
<1>7. p3 \in Path /\ Len(p3) = 3 /\ Len(p3) < 4 /\ p3[1] = a
  <2>1. p3 \in Path /\ Len(p3) = Len(p2) + 1 /\ p3[1] = IF Len(p2) = 0 THEN c ELSE p2[1]
    BY <1>6, AppendPath DEF p3
  <2> QED
    BY <1>6, <2>1
<1>8. MayWalk(<<>>, 1, 2) /\ MayWalk(p1, 2, 3) /\ MayWalk(p2, 3, 4)
  BY <1>4, <1>5, <1>6 DEF MayWalk
<1>9. IsAt(at[2], nd, p1, b, 2)
  <2>1. IsAt(at[1], nd, <<>>, a, 1)
    BY <1>2 DEF WalkedTo, IsTree, IsAt
  <2>2. a \in Index
    OBVIOUS
  <2>3. IsAt(WalkDown(h, at[1], b, 2), nd, p1, b, 2)
    BY <1>8, <2>1, <2>2, WalkAlong, Zenon DEF p1
  <2> QED
    BY <1>2, <2>3, Zenon
<1>10. IsAt(at[3], nd, p2, c, 3)
  <2>1. IsAt(WalkDown(h, at[2], c, 3), nd, p2, c, 3)
    BY <1>8, <1>9, WalkAlong, Zenon DEF p2
  <2> QED
    BY <1>2, <2>1, Zenon
<1>11. at[4] = WalkedTo(nd, p3, d, 4)
  <2>1. IsAt(WalkDown(h, at[3], d, 4), nd, p3, d, 4)
    BY <1>8, <1>10, WalkAlong, Zenon DEF p3
  <2> QED
    BY <1>2, <2>1, Zenon DEF IsAt
<1> DEFINE e == h.mem[nd[p3]][d]
<1> USE DEF Translates
<1>12. CASE p3 \notin DOMAIN nd
  <2>1. va \notin DOMAIN nd
    <3>1. ~Linked(h.mem, nd, p3, d)
      BY <1>12, Zenon DEF Linked
    <3> QED
      BY <1>3, <1>7, <3>1, Zenon DEF IsTree
  <2>2. walk_page(h, r, va) = NULL
    BY <1>2, <1>11, <1>12, Zenon DEF WalkedTo
  <2> QED
    BY <2>1, <2>2, Zenon DEF translate_page
<1>13. CASE p3 \in DOMAIN nd
  <2>1. at[4] = [table |-> nd[p3], index |-> d, depth |-> 4]
    BY <1>11, <1>13, Zenon DEF WalkedTo
  <2>2. at[4].table = nd[p3] /\ at[4].index = d
    BY <2>1
  <2>3. at[4] # NULL
    <3>1. at[4] \in Walk
      BY <1>13, <2>1 DEF Walk, IsTree, N_PAGETABLE_LEVELS
    <3> QED
      BY <3>1, MemoryAssumption, Zenon DEF MemoryAssumption
  <2>4. translate_page(h, r, va) = IF e.valid THEN e.phys ELSE NULL
    BY <1>2, <2>2, <2>3, Zenon DEF translate_page
  <2>5. CASE va \in DOMAIN nd
    <3>1. Linked(h.mem, nd, p3, d)
      BY <1>3, <1>7, <2>5 DEF IsTree
    <3>2. e.valid /\ e.phys = nd[va]
      BY <1>3, <3>1 DEF Linked
    <3> HIDE DEF e
    <3> QED
      BY <2>4, <2>5, <3>2, Zenon
  <2>6. CASE va \notin DOMAIN nd
    <3>1. Unlinked(h.mem, nd, p3, d)
      BY <1>3, <1>7, <1>13, <2>6 DEF IsTree
    <3>2. Len(p3) # 1
      BY <1>7
    <3>3. ~e.valid
      BY <3>1, <3>2, Zenon DEF Unlinked
    <3> HIDE DEF e
    <3> QED
      BY <2>4, <2>6, <3>3, Zenon
  <2> QED
    BY <2>5, <2>6
<1> QED
  BY <1>12, <1>13

-----------------------------------------------------------------------------
(* A task is made *)

(* load_seg maps the pages of the segment.                                   *)
HasLoaded(B, m, w, r, X, n) ==
  /\ Building(B, m, w.heap, w.maps, r, X)
  /\ DOMAIN w.maps = {TextVa(i) : i \in 0 .. n - 1}

(* load_seg in an address space in the making.                               *)
LEMMA LoadBuilds ==
  ASSUME NEW B, NEW m, NEW h, NEW r, NEW X, Building(B, m, h, <<>>, r, X),
         NEW n \in Nat, n <= MAX_TEXT
  PROVE  HasLoaded(B, m, load_seg(h, r, n), r, X, n)
<1>0. MAX_TEXT \in Nat
  BY ConstantFacts
<1>a. PICK w : w = load_seg(h, r, n)
  OBVIOUS
<1>1. PICK done : LoadLoop(done, h, r, n)
  BY <1>0, LoadRuns, Zenon
<1>2. /\ w = done[n]
      /\ done[0] = [heap |-> h, maps |-> <<>>]
      /\ \A i \in 1 .. n : done[i] = MapFresh(done[i - 1], r, TextVa(i - 1))
  BY <1>1, <1>a DEF LoadLoop
<1> DEFINE Ok(i) == /\ Building(B, m, done[i].heap, done[i].maps, r, X)
                    /\ DOMAIN done[i].maps = {TextVa(j) : j \in 0 .. i - 1}
           P == {i \in 0 .. n : Ok(i)}
<1>3. 0 \in P
  <2>1. done[0].heap = h /\ done[0].maps = <<>>
    BY <1>2
  <2>2. DOMAIN done[0].maps = {TextVa(j) : j \in 0 .. 0 - 1}
    BY <2>1
  <2> QED
    BY <1>0, <2>1, <2>2
<1>4. ASSUME NEW i \in 0 .. n - 1, i \in P PROVE i + 1 \in P
  <2>1. /\ i + 1 \in 1 .. n /\ (i + 1) - 1 = i /\ i + 1 \in 0 .. n
        /\ i \in Nat /\ i \in 0 .. MAX_TEXT - 1
    BY <1>0
  <2>2. Building(B, m, done[i].heap, done[i].maps, r, X)
        /\ DOMAIN done[i].maps = {TextVa(j) : j \in 0 .. i - 1}
    BY <1>4
  <2>3. PICK v : v = TextVa(i) /\ v \in UserVa
    BY <2>1, UserAddresses
  <2>4. v \notin DOMAIN done[i].maps
    <3>1. \A j \in 0 .. i - 1 : j \in Nat /\ j # i
      BY <2>1
    <3>2. \A j \in 0 .. i - 1 : TextVa(j) # TextVa(i)
      BY <2>1, <3>1, UserAddresses
    <3> QED
      BY <2>2, <2>3, <3>2
  <2>5. PICK u : u = done[i]
    OBVIOUS
  <2>6. done[i + 1] = MapFresh(u, r, v)
    BY <1>2, <2>1, <2>3, <2>5
  <2>7. /\ Building(B, m, MapFresh(u, r, v).heap, MapFresh(u, r, v).maps, r, X)
        /\ DOMAIN MapFresh(u, r, v).maps = DOMAIN u.maps \cup {v}
    <3>1. MayMap(B, m, u, r, X, v)
      BY <2>2, <2>3, <2>4, <2>5, Zenon DEF MayMap
    <3>2. HasMapped(B, m, u, MapFresh(u, r, v), r, X, v)
      BY <3>1, FreshBuilds, Zenon
    <3> QED
      BY <3>2 DEF HasMapped
  <2>8. {TextVa(j) : j \in 0 .. i - 1} \cup {v} = {TextVa(j) : j \in 0 .. (i + 1) - 1}
    <3>1. 0 .. (i + 1) - 1 = (0 .. i - 1) \cup {i}
      BY <2>1
    <3> QED
      BY <2>3, <3>1
  <2>9. Ok(i + 1)
    BY <2>2, <2>5, <2>6, <2>7, <2>8
  <2> QED
    BY <2>1, <2>9
<1> HIDE DEF P, Ok
<1>5. n \in P
  <2>1. \A k \in 0 .. n : k \in P
    BY <1>3, <1>4, Induction, Zenon
  <2> QED
    BY <2>1
<1> QED
  BY <1>a, <1>2, <1>5 DEF P, Ok, HasLoaded

(* A slot of the task table.                                                 *)
TaskType == [valid : BOOLEAN, taskmode : Mode, pagetable : Page \cup {NULL}, kstack_pg : Page \cup {NULL}]

(* A heap in which a space is made is a heap.                                *)
LEMMA BuildingIsHeap ==
  ASSUME NEW B, NEW m, NEW h, NEW mp, NEW r, NEW X, Building(B, m, h, mp, r, X)
  PROVE  h \in Heap /\ (h.panic = TRUE => Exhausted(h))
<1>1. CASE Exhausted(h)
  BY <1>1 DEF Exhausted
<1>2. CASE \E nd : Grown(B, m, h, r, nd, X)
  <2>1. h \in Heap /\ h.panic = FALSE
    BY <1>2, Zenon DEF Grown
  <2> QED
    BY <2>1
<1> QED
  BY <1>1, <1>2, Zenon DEF Building

(* What task_spawn_user has made when it copies the arguments.               *)
LEMMA SpawnBuilds ==
  ASSUME NEW h \in Heap, h.panic = FALSE, NEW n \in 1 .. MAX_TEXT, NEW s, s = Spawned(h, n)
  PROVE  /\ Building(h.used, h.mem, s.heap, s.maps, s.task.pagetable, {s.task.kstack_pg})
         /\ DOMAIN s.maps \subseteq UserVa
         /\ s.task \in TaskType /\ s.task.valid /\ s.task.kstack_pg \in Page
<1> DEFINE root == PageOf(h)
           loaded == load_seg(NewSpace(h), root, n)
           kstack == PageOf(loaded.heap)
           withstack == [loaded EXCEPT !.heap = alloc_page(@)]
           stacked == MapFresh(withstack, root, DEFAULT_USER_STACK)
           all == MapFresh(stacked, root, DEFAULT_ARG_LOCATION)
           B == h.used
           m == h.mem
<1>0. /\ s.heap = all.heap /\ s.maps = all.maps
      /\ s.task = [valid |-> TRUE, taskmode |-> "MODE_USER", pagetable |-> root, kstack_pg |-> kstack]
  <2> HIDE DEF all, kstack, root
  <2>1. s = [heap |-> all.heap, maps |-> all.maps,
             task |-> [valid |-> TRUE, taskmode |-> "MODE_USER", pagetable |-> root, kstack_pg |-> kstack]]
    BY DEF Spawned, all, stacked, withstack, kstack, loaded, root
  <2> QED
    BY <2>1
<1>1. Building(B, m, NewSpace(h), <<>>, root, {})
  BY SpaceIsBuilt
<1> HIDE DEF root, B, m
<1>2. /\ Building(B, m, loaded.heap, loaded.maps, root, {})
      /\ DOMAIN loaded.maps = {TextVa(i) : i \in 0 .. n - 1}
  <2>1. n \in Nat /\ n <= MAX_TEXT
    BY ConstantFacts
  <2>2. HasLoaded(B, m, loaded, root, {}, n)
    BY <1>1, <2>1, LoadBuilds, Zenon
  <2> HIDE DEF loaded
  <2> QED
    BY <2>2 DEF HasLoaded
<1>3. loaded = [heap |-> loaded.heap, maps |-> loaded.maps]
  <2>1. PICK done : LoadLoop(done, NewSpace(h), root, n)
    BY LoadRuns
  <2>2. loaded = done[n] /\ done[n] = MapFresh(done[n - 1], root, TextVa(n - 1))
    BY <2>1 DEF LoadLoop
  <2>3. \E x, y : loaded = [heap |-> x, maps |-> y]
    BY <2>2, Zenon DEF MapFresh
  <2> HIDE DEF loaded
  <2> QED
    BY <2>3
<1> HIDE DEF loaded
<1>4. withstack.heap = alloc_page(loaded.heap) /\ withstack.maps = loaded.maps
  BY <1>3
<1>5. Building(B, m, withstack.heap, withstack.maps, root, {} \cup {kstack})
  <2>1. Building(B, m, alloc_page(loaded.heap), loaded.maps, root, {} \cup {PageOf(loaded.heap)})
    BY <1>2, AllocBuilds, Zenon
  <2> HIDE DEF withstack
  <2> QED
    BY <1>4, <2>1, Zenon
<1>6. {} \cup {kstack} = {kstack}
  OBVIOUS
<1>7. root \in Page /\ kstack \in Page
  <2>1. loaded.heap \in Heap
    BY <1>2, BuildingIsHeap, Zenon
  <2> QED
    BY <2>1, PageOfFacts DEF root
<1> HIDE DEF kstack, withstack
<1>8. DOMAIN loaded.maps \subseteq UserVa
      /\ DEFAULT_USER_STACK \notin DOMAIN loaded.maps /\ DEFAULT_ARG_LOCATION \notin DOMAIN loaded.maps
  <2>1. \A i \in 0 .. n - 1 : i \in Nat /\ i \in 0 .. MAX_TEXT - 1
    BY ConstantFacts
  <2> QED
    BY <1>2, <2>1, UserAddresses
<1>9. /\ Building(B, m, stacked.heap, stacked.maps, root, {kstack})
      /\ DOMAIN stacked.maps = DOMAIN loaded.maps \cup {DEFAULT_USER_STACK}
  <2>1. Building(B, m, withstack.heap, withstack.maps, root, {kstack})
    BY <1>5, <1>6, Zenon
  <2>2. DEFAULT_USER_STACK \in UserVa /\ DEFAULT_USER_STACK \notin DOMAIN withstack.maps
    BY <1>4, <1>8, UserAddresses
  <2> QED
    <3>1. MayMap(B, m, withstack, root, {kstack}, DEFAULT_USER_STACK)
      BY <2>1, <2>2, Zenon DEF MayMap
    <3>2. HasMapped(B, m, withstack, stacked, root, {kstack}, DEFAULT_USER_STACK)
      BY <3>1, FreshBuilds, Zenon
    <3> HIDE DEF stacked
    <3> QED
      BY <1>4, <3>2 DEF HasMapped
<1> HIDE DEF stacked
<1>10. /\ Building(B, m, all.heap, all.maps, root, {kstack})
       /\ DOMAIN all.maps = DOMAIN stacked.maps \cup {DEFAULT_ARG_LOCATION}
  <2>1. DEFAULT_ARG_LOCATION \in UserVa /\ DEFAULT_ARG_LOCATION \notin DOMAIN stacked.maps
    BY <1>8, <1>9, UserAddresses
  <2> QED
    <3>1. MayMap(B, m, stacked, root, {kstack}, DEFAULT_ARG_LOCATION)
      BY <1>9, <2>1, Zenon DEF MayMap
    <3>2. HasMapped(B, m, stacked, all, root, {kstack}, DEFAULT_ARG_LOCATION)
      BY <3>1, FreshBuilds, Zenon
    <3> HIDE DEF all
    <3> QED
      BY <3>2 DEF HasMapped
<1> HIDE DEF all
<1>11. DOMAIN s.maps \subseteq UserVa
  BY <1>0, <1>8, <1>9, <1>10, UserAddresses
<1>12. s.task.pagetable = root /\ s.task.kstack_pg = kstack /\ s.task.valid /\ s.task \in TaskType
  BY <1>0, <1>7 DEF TaskType, Mode
<1>13. Building(B, m, s.heap, s.maps, s.task.pagetable, {s.task.kstack_pg})
  BY <1>0, <1>10, <1>12, Zenon
<1> QED
  BY <1>7, <1>11, <1>12, <1>13 DEF B, m

-----------------------------------------------------------------------------
(* The invariant *)

(* Every live task has a tree and a stack of its own, its mappings are those *)
(* of its tree, and the allocated pages are the boot's and the tasks'.       *)
TaskPages(tk, tr, t) == Range(tr[t]) \cup {tk[t].kstack_pg}

OwnTree(h, tk, mp, tr, t) ==
  /\ IsTree(h.mem, tk[t].pagetable, tr[t])
  /\ MapsTree(mp[t], tr[t])
  /\ tk[t].kstack_pg \in Page /\ tk[t].kstack_pg \notin Range(tr[t])
  /\ \A p \in TaskPages(tk, tr, t) : p \in h.used /\ p \notin BootHeap.used

Trees(h, tk, mp, tr) ==
  /\ \A t \in Task : tk[t].valid => OwnTree(h, tk, mp, tr, t)
  /\ \A t, u \in Task : tk[t].valid /\ tk[u].valid /\ t # u =>
       \A p \in TaskPages(tk, tr, t) : p \notin TaskPages(tk, tr, u)
  /\ BootHeap.used \subseteq h.used
  /\ \A p \in h.used : p \in BootHeap.used \/ \E t \in Task : tk[t].valid /\ p \in TaskPages(tk, tr, t)

MemInvariant ==
  /\ heap \in Heap
  /\ task \in [Task -> TaskType]
  /\ DOMAIN maps = Task /\ maps = [t \in Task |-> maps[t]]
  /\ \A t \in Task : DOMAIN maps[t] \subseteq UserVa
  /\ heap.panic = TRUE => Exhausted(heap)
  /\ heap.panic = FALSE => \E tr : Trees(heap, task, maps, tr)

(* A task's tree and pages, when neither its pages nor its slot change.      *)
SameSlot(tk, tk2, mp, mp2, tr, tr2, t) == tk2[t] = tk[t] /\ mp2[t] = mp[t] /\ tr2[t] = tr[t]

SamePages(h, h2, tk, tr, t) ==
  \A p \in TaskPages(tk, tr, t) : p \in h2.used /\ h2.mem[p] = h.mem[p]

(* A step that leaves a task's slot and pages alone leaves it its tree.      *)
LEMMA TreeStays ==
  ASSUME NEW h, NEW h2, NEW tk, NEW tk2, NEW mp, NEW mp2, NEW tr, NEW tr2, NEW t,
         OwnTree(h, tk, mp, tr, t), SameSlot(tk, tk2, mp, mp2, tr, tr2, t),
         SamePages(h, h2, tk, tr, t)
  PROVE  OwnTree(h2, tk2, mp2, tr2, t)
<1> USE DEF SameSlot, SamePages
<1>1. TaskPages(tk2, tr2, t) = TaskPages(tk, tr, t)
  BY Zenon DEF TaskPages
<1>2. \A p \in DOMAIN tr[t] : tr[t][p] \in TaskPages(tk, tr, t)
  BY DEF TaskPages, Range
<1>3. \A p \in DOMAIN tr[t] : h2.mem[tr[t][p]] = h.mem[tr[t][p]]
  BY <1>2
<1>4. IsTree(h2.mem, tk2[t].pagetable, tr2[t])
  <2>1. IsTree(h.mem, tk[t].pagetable, tr[t])
    BY DEF OwnTree
  <2>2. IsTree(h2.mem, tk[t].pagetable, tr[t])
    BY <1>3, <2>1, TreeKept, Zenon
  <2> QED
    BY <2>2, Zenon
<1> QED
  BY <1>1, <1>4, Zenon DEF OwnTree

(* The heap changes outside the tasks' pages only, and has the same pages.   *)
LEMMA TreesStay ==
  ASSUME NEW h, NEW h2, NEW tk, NEW mp, NEW tr, Trees(h, tk, mp, tr),
         h2.used = h.used, \A p \in h.used : h2.mem[p] = h.mem[p]
  PROVE  Trees(h2, tk, mp, tr)
<1>1. ASSUME NEW t \in Task, tk[t].valid PROVE OwnTree(h2, tk, mp, tr, t)
  <2>1. OwnTree(h, tk, mp, tr, t)
    BY <1>1, Zenon DEF Trees
  <2>2. \A p \in TaskPages(tk, tr, t) : p \in h2.used /\ h2.mem[p] = h.mem[p]
    BY <2>1, Zenon DEF OwnTree
  <2> QED
    <3>1. SameSlot(tk, tk, mp, mp, tr, tr, t) /\ SamePages(h, h2, tk, tr, t)
      BY <2>2, Zenon DEF SameSlot, SamePages
    <3> QED
      BY <2>1, <3>1, TreeStays, Zenon
<1> QED
  BY <1>1, Zenon DEF Trees

(* A new task gets its slot.                                                 *)
LEMMA TreesGrow ==
  ASSUME NEW h, NEW h2, NEW tk \in [Task -> TaskType], NEW mp, NEW tr, Trees(h, tk, mp, tr),
         DOMAIN mp = Task, NEW t \in Task, ~tk[t].valid, NEW new \in TaskType, new.valid, new.kstack_pg \in Page,
         NEW nd, NEW map, Grown(h.used, h.mem, h2, new.pagetable, nd, {new.kstack_pg}), MapsTree(map, nd)
  PROVE  \E tr2 : Trees(h2, [tk EXCEPT ![t] = new], [mp EXCEPT ![t] = map], tr2)
<1> DEFINE tr2 == [u \in Task |-> IF u = t THEN nd ELSE tr[u]]
           tk2 == [tk EXCEPT ![t] = new]
           mp2 == [mp EXCEPT ![t] = map]
<1>1. tk2[t] = new /\ tr2[t] = nd /\ mp2[t] = map
  OBVIOUS
<1>2. \A u \in Task : u # t => tk2[u] = tk[u] /\ tr2[u] = tr[u] /\ mp2[u] = mp[u]
  OBVIOUS
<1> HIDE DEF tr2, tk2, mp2
<1>3. /\ h2 \in Heap /\ IsTree(h2.mem, new.pagetable, nd)
      /\ h2.used = h.used \cup {new.kstack_pg} \cup Range(nd)
      /\ new.kstack_pg \notin h.used
      /\ \A p \in Range(nd) : p \notin h.used /\ p # new.kstack_pg
      /\ \A p \in h.used : h2.mem[p] = h.mem[p]
  BY DEF Grown, Range
<1>4. TaskPages(tk2, tr2, t) = Range(nd) \cup {new.kstack_pg}
  BY <1>1, Zenon DEF TaskPages
<1>5. \A p \in TaskPages(tk2, tr2, t) : p \in h2.used /\ p \notin h.used
  BY <1>3, <1>4
<1>6. OwnTree(h2, tk2, mp2, tr2, t)
  <2>1. new.kstack_pg \notin Range(nd)
    BY <1>3
  <2>2. BootHeap.used \subseteq h.used
    BY Zenon DEF Trees
  <2>3. \A p \in TaskPages(tk2, tr2, t) : p \in h2.used /\ p \notin BootHeap.used
    BY <1>5, <2>2
  <2> QED
    BY <1>1, <1>3, <2>1, <2>3, Zenon DEF OwnTree
<1>7. ASSUME NEW u \in Task, u # t, tk2[u].valid
      PROVE  /\ OwnTree(h2, tk2, mp2, tr2, u) /\ TaskPages(tk2, tr2, u) = TaskPages(tk, tr, u)
             /\ \A p \in TaskPages(tk, tr, u) : p \in h.used
  <2>1. tk2[u] = tk[u] /\ tr2[u] = tr[u] /\ mp2[u] = mp[u]
    BY <1>2, <1>7, Zenon
  <2>2. tk[u].valid
    BY <1>7, <2>1, Zenon
  <2>3. OwnTree(h, tk, mp, tr, u)
    BY <2>2, Zenon DEF Trees
  <2>4. \A p \in TaskPages(tk, tr, u) : p \in h.used
    BY <2>3, Zenon DEF OwnTree
  <2>5. \A p \in TaskPages(tk, tr, u) : p \in h2.used /\ h2.mem[p] = h.mem[p]
    BY <1>3, <2>4
  <2>6. TaskPages(tk2, tr2, u) = TaskPages(tk, tr, u)
    BY <2>1, Zenon DEF TaskPages
  <2>7. SameSlot(tk, tk2, mp, mp2, tr, tr2, u) /\ SamePages(h, h2, tk, tr, u)
    BY <2>1, <2>5, Zenon DEF SameSlot, SamePages
  <2>8. OwnTree(h2, tk2, mp2, tr2, u)
    BY <2>3, <2>7, TreeStays, Zenon
  <2> QED
    BY <2>4, <2>6, <2>8, Zenon
<1>8. \A u \in Task : tk2[u].valid => OwnTree(h2, tk2, mp2, tr2, u)
  BY <1>6, <1>7, Zenon
<1>9. ASSUME NEW u \in Task, NEW v \in Task, tk2[u].valid, tk2[v].valid, u # v,
             NEW p \in TaskPages(tk2, tr2, u)
      PROVE  p \notin TaskPages(tk2, tr2, v)
  <2>1. CASE u = t
    <3>1. p \notin h.used
      BY <1>5, <2>1, Zenon
    <3>2. \A q \in TaskPages(tk2, tr2, v) : q \in h.used
      BY <1>7, <1>9, <2>1, Zenon
    <3> QED
      BY <3>1, <3>2, Zenon
  <2>2. CASE v = t
    <3>1. p \in h.used
      BY <1>7, <1>9, <2>2, Zenon
    <3>2. \A q \in TaskPages(tk2, tr2, v) : q \notin h.used
      BY <1>5, <2>2, Zenon
    <3> QED
      BY <3>1, <3>2, Zenon
  <2>3. CASE u # t /\ v # t
    <3>1. tk[u].valid /\ tk[v].valid
      BY <1>2, <1>9, <2>3, Zenon
    <3>2. /\ TaskPages(tk2, tr2, u) = TaskPages(tk, tr, u)
          /\ TaskPages(tk2, tr2, v) = TaskPages(tk, tr, v)
      BY <1>7, <1>9, <2>3, Zenon
    <3>3. p \in TaskPages(tk, tr, u)
      BY <3>2, Zenon
    <3>4. p \notin TaskPages(tk, tr, v)
      BY <1>9, <3>1, <3>3, Zenon DEF Trees
    <3> QED
      BY <3>2, <3>4, Zenon
  <2> QED
    BY <2>1, <2>2, <2>3
<1>10. ASSUME NEW p \in h2.used
       PROVE  p \in BootHeap.used \/ \E u \in Task : tk2[u].valid /\ p \in TaskPages(tk2, tr2, u)
  <2>1. CASE p \in TaskPages(tk2, tr2, t)
    BY <1>1, <2>1, Zenon
  <2>2. CASE p \in h.used
    <3>1. CASE p \in BootHeap.used
      BY <3>1, Zenon
    <3>2. ASSUME NEW u \in Task, tk[u].valid, p \in TaskPages(tk, tr, u)
          PROVE  \E v \in Task : tk2[v].valid /\ p \in TaskPages(tk2, tr2, v)
      <4>1. u # t
        BY <3>2, Zenon
      <4>2. tk2[u].valid
        BY <1>2, <3>2, <4>1, Zenon
      <4>3. TaskPages(tk2, tr2, u) = TaskPages(tk, tr, u)
        BY <1>7, <4>1, <4>2, Zenon
      <4> QED
        BY <3>2, <4>2, <4>3, Zenon
    <3> QED
      BY <2>2, <3>1, <3>2, Zenon DEF Trees
  <2> QED
    BY <1>3, <1>4, <2>1, <2>2
<1>11. BootHeap.used \subseteq h2.used
  <2>1. BootHeap.used \subseteq h.used
    BY Zenon DEF Trees
  <2> QED
    BY <1>3, <2>1
<1>12. Trees(h2, tk2, mp2, tr2)
  BY <1>8, <1>9, <1>10, <1>11, Zenon DEF Trees
<1> QED
  BY <1>12, Zenon DEF tk2, mp2

(* A task is reaped.                                                         *)
LEMMA TreesShrink ==
  ASSUME NEW h \in Heap, h.panic = FALSE, NEW tk \in [Task -> TaskType], NEW mp, NEW tr,
         Trees(h, tk, mp, tr), DOMAIN mp = Task, NEW t \in Task, tk[t].valid,
         NEW h2, h2 = free_task(h, tk[t])
  PROVE  /\ h2 \in Heap /\ h2.panic = FALSE
         /\ Trees(h2, [tk EXCEPT ![t] = NoTask], [mp EXCEPT ![t] = <<>>], tr)
<1> DEFINE tk2 == [tk EXCEPT ![t] = NoTask]
           mp2 == [mp EXCEPT ![t] = <<>>]
           nd == tr[t]
           k == tk[t].kstack_pg
<1>1. ~tk2[t].valid /\ \A u \in Task : u # t => tk2[u] = tk[u] /\ mp2[u] = mp[u]
  BY DEF NoTask
<1> HIDE DEF tk2, mp2
<1>2. OwnTree(h, tk, mp, tr, t)
  BY Zenon DEF Trees
<1>3. /\ IsTree(h.mem, tk[t].pagetable, nd) /\ k \in Page /\ k \notin Range(nd)
      /\ \A p \in TaskPages(tk, tr, t) : p \in h.used /\ p \notin BootHeap.used
      /\ TaskPages(tk, tr, t) = Range(nd) \cup {k}
  BY <1>2, Zenon DEF OwnTree, TaskPages
<1>4. /\ h2 \in Heap /\ h2.panic = FALSE
      /\ h2.used = (h.used \ Range(nd)) \ ({k} \ {NULL})
      /\ \A q \in Page : q \notin Range(nd) => h2.mem[q] = h.mem[q]
  <2>1. Range(nd) \subseteq h.used /\ k \in h.used \ Range(nd)
    BY <1>3
  <2>2. MayFree(h, tk[t], nd)
    BY <1>3, <2>1, Zenon DEF MayFree
  <2>3. Freed(h, h2, tk[t], nd)
    BY <2>2, TaskFreed, Zenon
  <2> QED
    BY <2>3, Zenon DEF Freed
<1>5. h2.used = h.used \ TaskPages(tk, tr, t) /\ h.used \subseteq Page
  BY <1>3, <1>4, ConstantFacts DEF Heap
<1>6. ASSUME NEW u \in Task, tk2[u].valid
      PROVE  /\ tk[u].valid /\ OwnTree(h2, tk2, mp2, tr, u)
             /\ TaskPages(tk2, tr, u) = TaskPages(tk, tr, u)
  <2>1. u # t
    BY <1>1, <1>6, Zenon
  <2>2. tk2[u] = tk[u] /\ mp2[u] = mp[u]
    BY <1>1, <2>1, Zenon
  <2>3. tk[u].valid
    BY <1>6, <2>2, Zenon
  <2>4. OwnTree(h, tk, mp, tr, u)
    BY <2>3, Zenon DEF Trees
  <2>5. \A p \in TaskPages(tk, tr, u) : p \in h.used
    BY <2>4, Zenon DEF OwnTree
  <2>6. \A p \in TaskPages(tk, tr, u) : p \notin TaskPages(tk, tr, t)
    BY <2>1, <2>3, Zenon DEF Trees
  <2>7. \A p \in TaskPages(tk, tr, u) : p \in h2.used /\ h2.mem[p] = h.mem[p]
    BY <1>3, <1>4, <1>5, <2>5, <2>6
  <2>8. TaskPages(tk2, tr, u) = TaskPages(tk, tr, u)
    BY <2>2, Zenon DEF TaskPages
  <2>9. SameSlot(tk, tk2, mp, mp2, tr, tr, u) /\ SamePages(h, h2, tk, tr, u)
    BY <2>2, <2>7, Zenon DEF SameSlot, SamePages
  <2>10. OwnTree(h2, tk2, mp2, tr, u)
    BY <2>4, <2>9, TreeStays, Zenon
  <2> QED
    BY <2>3, <2>8, <2>10, Zenon
<1>7. \A u, v \in Task : tk2[u].valid /\ tk2[v].valid /\ u # v =>
        \A p \in TaskPages(tk2, tr, u) : p \notin TaskPages(tk2, tr, v)
  <2> SUFFICES ASSUME NEW u \in Task, NEW v \in Task, tk2[u].valid, tk2[v].valid, u # v
               PROVE  \A p \in TaskPages(tk2, tr, u) : p \notin TaskPages(tk2, tr, v)
    BY Zenon
  <2>1. \A p \in TaskPages(tk, tr, u) : p \notin TaskPages(tk, tr, v)
    BY <1>6, Zenon DEF Trees
  <2>2. /\ TaskPages(tk2, tr, u) = TaskPages(tk, tr, u)
        /\ TaskPages(tk2, tr, v) = TaskPages(tk, tr, v)
    BY <1>6, Zenon
  <2> QED
    BY <2>1, <2>2, Zenon
<1>8. ASSUME NEW p \in h2.used
      PROVE  p \in BootHeap.used \/ \E u \in Task : tk2[u].valid /\ p \in TaskPages(tk2, tr, u)
  <2>1. p \in h.used /\ p \notin TaskPages(tk, tr, t)
    BY <1>5
  <2>2. CASE p \in BootHeap.used
    BY <2>2, Zenon
  <2>3. ASSUME NEW u \in Task, tk[u].valid, p \in TaskPages(tk, tr, u)
        PROVE  \E v \in Task : tk2[v].valid /\ p \in TaskPages(tk2, tr, v)
    <3>1. u # t
      BY <2>1, <2>3, Zenon
    <3>2. tk2[u].valid
      BY <1>1, <2>3, <3>1, Zenon
    <3> QED
      BY <1>6, <2>3, <3>2, Zenon
  <2> QED
    BY <2>1, <2>2, <2>3, Zenon DEF Trees
<1>9. BootHeap.used \subseteq h2.used
  <2>1. BootHeap.used \subseteq h.used
    BY Zenon DEF Trees
  <2> QED
    BY <1>3, <1>5, <2>1
<1>10. Trees(h2, tk2, mp2, tr)
  BY <1>6, <1>7, <1>8, <1>9, Zenon DEF Trees
<1> QED
  BY <1>4, <1>10, Zenon DEF tk2, mp2

(* A task that was being made is freed: the heap has the pages it had.       *)
SameHeap(h, h2) ==
  /\ h2 \in Heap /\ h2.panic = FALSE /\ h2.used = h.used
  /\ \A p \in h.used : h2.mem[p] = h.mem[p]

(* free_task undoes a spawn that failed before the task was valid.           *)
LEMMA RolledBack ==
  ASSUME NEW h \in Heap, NEW g, NEW mp, NEW new, ~g.panic,
         Building(h.used, h.mem, g, mp, new.pagetable, {new.kstack_pg} \ {NULL})
  PROVE  SameHeap(h, free_task(g, new))
<1>a. PICK X, h2 : X = {new.kstack_pg} \ {NULL} /\ h2 = free_task(g, new)
  OBVIOUS
<1>1. PICK nd : Grown(h.used, h.mem, g, new.pagetable, nd, X)
  BY <1>a, Zenon DEF Building, Exhausted
<1>2. /\ g \in Heap /\ g.panic = FALSE /\ IsTree(g.mem, new.pagetable, nd)
      /\ g.used = h.used \cup X \cup Range(nd)
      /\ \A p \in X : p \notin h.used
      /\ \A p \in Range(nd) : p \notin h.used /\ p \notin X
      /\ \A p \in h.used : g.mem[p] = h.mem[p]
  BY <1>1 DEF Grown, Range
<1>3. Range(nd) \subseteq g.used /\ (new.kstack_pg # NULL => new.kstack_pg \in g.used \ Range(nd))
  BY <1>2, <1>a
<1>4. /\ h2 \in Heap /\ h2.panic = FALSE
      /\ h2.used = (g.used \ Range(nd)) \ ({new.kstack_pg} \ {NULL})
      /\ \A q \in Page : q \notin Range(nd) => h2.mem[q] = g.mem[q]
  <2>1. MayFree(g, new, nd)
    BY <1>2, <1>3, Zenon DEF MayFree
  <2>2. Freed(g, h2, new, nd)
    BY <1>a, <2>1, TaskFreed, Zenon
  <2> QED
    BY <2>2, Zenon DEF Freed
<1>5. h2.used = h.used
  BY <1>2, <1>4, <1>a
<1>6. h.used \subseteq Page
  BY DEF Heap
<1>7. \A p \in h.used : h2.mem[p] = h.mem[p]
  BY <1>2, <1>4, <1>6
<1> QED
  BY <1>4, <1>5, <1>7, <1>a, Zenon DEF SameHeap

-----------------------------------------------------------------------------
(* The steps *)

(* A heap has panicked or has not.                                           *)
LEMMA PanicIsBoolean ==
  ASSUME NEW h \in Heap
  PROVE  h.panic = TRUE \/ h.panic = FALSE
BY DEF Heap

(* map_kernel stays exhausted: with X and B that meet, nothing can be built. *)
LEMMA SpaceExhausted ==
  ASSUME NEW h, Exhausted(h)
  PROVE  Exhausted(NewSpace(h))
<1>1. Building({0}, h.mem, alloc_pagetable(h), <<>>, PageOf(h), {0})
  BY AllocExhausted, Zenon DEF Building
<1>2. Building({0}, h.mem, NewSpace(h), <<>>, PageOf(h), {0})
  BY <1>1, KernelBuilds, Zenon DEF NewSpace
<1>3. \A g, r, nd : ~Grown({0}, h.mem, g, r, nd, {0})
  BY DEF Grown
<1> QED
  BY <1>2, <1>3, Zenon DEF Building

(* The boot leaves a heap, panicked only if it is exhausted.                 *)
LEMMA BootIsHeap == BootHeap \in Heap /\ (BootHeap.panic = TRUE => Exhausted(BootHeap))
<1>1. EmptyHeap \in Heap /\ EmptyHeap.panic = FALSE
  <2>1. ZeroTable \in [Index -> Pte]
    BY DEF ZeroTable, Invalid, Pte, GIANT
  <2> QED
    BY <2>1 DEF EmptyHeap, Heap
<1>2. Building(EmptyHeap.used, EmptyHeap.mem, NewSpace(EmptyHeap), <<>>, PageOf(EmptyHeap), {})
  BY <1>1, SpaceIsBuilt, Zenon
<1>3. Building(EmptyHeap.used, EmptyHeap.mem, BootHeap, <<>>, PageOf(EmptyHeap),
               {} \cup {PageOf(NewSpace(EmptyHeap))})
  BY <1>2, AllocBuilds, Zenon DEF BootHeap
<1> QED
  BY <1>3, BuildingIsHeap, Zenon

(* An empty slot is a slot without a task and without a stack.               *)
LEMMA EmptySlot == NoTask \in TaskType /\ ~NoTask.valid /\ NoTask.kstack_pg = NULL
BY DEF NoTask, TaskType, Mode

(* The invariant holds after boot, with the first task in its slot.          *)
LEMMA InitInvariant == Init => MemInvariant
<1> SUFFICES ASSUME Init PROVE MemInvariant
  OBVIOUS
<1> DEFINE r == PageOf(BootHeap)
           space == NewSpace(BootHeap)
           k == PageOf(space)
           tk == [t \in Task |-> NoTask]
           mp == [t \in Task |-> <<>>]
<1>0. /\ heap = alloc_page(space)
      /\ task = [t \in Task |-> IF t = 1 THEN BootTask ELSE NoTask]
      /\ maps = mp
      /\ BootTask = [valid |-> TRUE, taskmode |-> "MODE_KERN", pagetable |-> r, kstack_pg |-> k]
  BY Zenon DEF Init, BootTask
<1> HIDE DEF r, space, k
<1>1. /\ space \in Heap
      /\ BootHeap.panic = FALSE => Building(BootHeap.used, BootHeap.mem, space, <<>>, r, {})
      /\ BootHeap.panic = TRUE => Exhausted(space)
  <2>1. CASE BootHeap.panic = FALSE
    <3>1. Building(BootHeap.used, BootHeap.mem, space, <<>>, r, {})
      BY <2>1, BootIsHeap, SpaceIsBuilt, Zenon DEF space, r
    <3>2. space \in Heap
      BY <3>1, BuildingIsHeap, Zenon
    <3> QED
      BY <2>1, <3>1, <3>2
  <2>2. CASE BootHeap.panic = TRUE
    <3>1. Exhausted(space)
      BY <2>2, BootIsHeap, SpaceExhausted, Zenon DEF space
    <3>2. space \in Heap
      BY <3>1, Zenon DEF Exhausted
    <3> QED
      BY <2>2, <3>1, <3>2
  <2> QED
    BY <2>1, <2>2, BootIsHeap, PanicIsBoolean
<1>2. r \in Page /\ k \in Page
  BY <1>1, BootIsHeap, PageOfFacts DEF r, k
<1>3. BootTask \in TaskType /\ BootTask.valid /\ BootTask.pagetable = r /\ BootTask.kstack_pg = k
  BY <1>0, <1>2 DEF TaskType, Mode
<1>4. 1 \in Task
  BY MemoryAssumption DEF MemoryAssumption, Task
<1> HIDE DEF mp
<1>5. DOMAIN mp = Task /\ mp = [t \in Task |-> mp[t]] /\ \A t \in Task : mp[t] = <<>>
  BY DEF mp
<1>6. task \in [Task -> TaskType]
  BY <1>0, <1>3, EmptySlot
<1>7. \A t \in Task : DOMAIN maps[t] \subseteq UserVa
  BY <1>0, <1>5
<1>8. CASE BootHeap.panic = TRUE
  <2>1. Exhausted(heap)
    BY <1>0, <1>1, <1>8, AllocExhausted, Zenon
  <2>2. heap \in Heap /\ heap.panic = TRUE
    BY <2>1, Zenon DEF Exhausted
  <2>3. heap.panic # FALSE
    BY <2>2
  <2> QED
    BY <1>0, <1>5, <1>6, <1>7, <2>1, <2>2, <2>3, Zenon DEF MemInvariant
<1>9. CASE BootHeap.panic = FALSE
  <2>1. Building(BootHeap.used, BootHeap.mem, heap, <<>>, r, {} \cup {k})
    BY <1>0, <1>1, <1>9, AllocBuilds, Zenon DEF k
  <2>2. heap \in Heap /\ (heap.panic = TRUE => Exhausted(heap))
    BY <2>1, BuildingIsHeap, Zenon
  <2>3. ASSUME heap.panic = FALSE PROVE \E tr : Trees(heap, task, maps, tr)
    <3>1. {} \cup {k} = {k}
      OBVIOUS
    <3>2. ~Exhausted(heap)
      BY <2>3 DEF Exhausted
    <3>3. PICK nd : Grown(BootHeap.used, BootHeap.mem, heap, r, nd, {k}) /\ MapsTree(<<>>, nd)
      BY <2>1, <3>1, <3>2, Zenon DEF Building
    <3>4. Grown(BootHeap.used, BootHeap.mem, heap, BootTask.pagetable, nd, {BootTask.kstack_pg})
      BY <1>3, <3>3, Zenon
    <3>5. tk \in [Task -> TaskType] /\ \A t \in Task : ~tk[t].valid
      BY EmptySlot
    <3>6. [tk EXCEPT ![1] = BootTask] = task /\ [mp EXCEPT ![1] = <<>>] = maps
      BY <1>0, <1>5 DEF mp
    <3> HIDE DEF tk
    <3>7. Trees(BootHeap, tk, mp, tk)
      BY <3>5, Zenon DEF Trees
    <3>8. BootTask.kstack_pg \in Page
      BY <1>2, <1>3
    <3>9. \E tr : Trees(heap, [tk EXCEPT ![1] = BootTask], [mp EXCEPT ![1] = <<>>], tr)
      BY <1>3, <1>4, <1>5, <3>3, <3>4, <3>5, <3>7, <3>8, TreesGrow, Zenon
    <3> QED
      BY <3>6, <3>9, Zenon
  <2> QED
    BY <1>0, <1>5, <1>6, <1>7, <2>2, <2>3, Zenon DEF MemInvariant
<1> QED
  BY <1>8, <1>9, BootIsHeap, PanicIsBoolean, Zenon

(* A new task, or a panic of alloc_page.                                     *)
LEMMA SpawnUserInvariant ==
  ASSUME NEW t \in Task, NEW n \in 1 .. MAX_TEXT, MemInvariant, SpawnUser(t, n)
  PROVE  MemInvariant'
<1>0. /\ heap \in Heap /\ task \in [Task -> TaskType]
      /\ DOMAIN maps = Task
      /\ \A u \in Task : DOMAIN maps[u] \subseteq UserVa
      /\ heap.panic = FALSE => \E tr : Trees(heap, task, maps, tr)
  BY Zenon DEF MemInvariant
<1>f. maps = [u \in Task |-> maps[u]]
  BY Zenon DEF MemInvariant
<1>1. PICK s : s = Spawned(heap, n)
  OBVIOUS
<1>2. /\ ~heap.panic /\ ~task[t].valid
      /\ heap' = s.heap
      /\ task' = [task EXCEPT ![t] = IF s.heap.panic THEN @ ELSE s.task]
      /\ maps' = [maps EXCEPT ![t] = IF s.heap.panic THEN @ ELSE s.maps]
  BY <1>1, Zenon DEF SpawnUser, Panicked, FreeSlot
<1>3. heap.panic = FALSE
  BY <1>0, <1>2, PanicIsBoolean
<1>4. /\ Building(heap.used, heap.mem, s.heap, s.maps, s.task.pagetable, {s.task.kstack_pg})
      /\ DOMAIN s.maps \subseteq UserVa
      /\ s.task \in TaskType /\ s.task.valid /\ s.task.kstack_pg \in Page
  <2>1. \A h \in Heap : h.panic = FALSE => LET z == Spawned(h, n) IN
          /\ Building(h.used, h.mem, z.heap, z.maps, z.task.pagetable, {z.task.kstack_pg})
          /\ DOMAIN z.maps \subseteq UserVa
          /\ z.task \in TaskType /\ z.task.valid /\ z.task.kstack_pg \in Page
    BY SpawnBuilds, Zenon
  <2> QED
    BY <1>0, <1>1, <1>3, <2>1, Zenon
<1>5. s.heap \in Heap /\ (s.heap.panic = TRUE => Exhausted(s.heap))
  BY <1>4, BuildingIsHeap, Zenon
<1>6. CASE s.heap.panic = TRUE
  <2>1. task' = task /\ maps' = maps
    BY <1>0, <1>f, <1>2, <1>6
  <2>2. heap' \in Heap /\ Exhausted(heap') /\ heap'.panic # FALSE
    BY <1>2, <1>5, <1>6
  <2> QED
    BY <1>0, <1>f, <2>1, <2>2, Zenon DEF MemInvariant
<1>7. CASE s.heap.panic = FALSE
  <2>1. task' = [task EXCEPT ![t] = s.task] /\ maps' = [maps EXCEPT ![t] = s.maps]
    BY <1>2, <1>7
  <2>2. /\ task' \in [Task -> TaskType]
        /\ DOMAIN maps' = Task /\ maps' = [u \in Task |-> maps'[u]]
        /\ \A u \in Task : DOMAIN maps'[u] \subseteq UserVa
    BY <1>0, <1>f, <1>4, <2>1
  <2>3. ~Exhausted(s.heap)
    BY <1>7 DEF Exhausted
  <2>4. PICK nd : /\ Grown(heap.used, heap.mem, s.heap, s.task.pagetable, nd, {s.task.kstack_pg})
                  /\ MapsTree(s.maps, nd)
    BY <1>4, <2>3, Zenon DEF Building
  <2>5. PICK tr : Trees(heap, task, maps, tr)
    BY <1>0, <1>3, Zenon
  <2>6. \E tr2 : Trees(s.heap, [task EXCEPT ![t] = s.task], [maps EXCEPT ![t] = s.maps], tr2)
    BY <1>0, <1>2, <1>4, <2>4, <2>5, TreesGrow, Zenon
  <2>7. \E tr2 : Trees(heap', task', maps', tr2)
    BY <1>2, <2>1, <2>6, Zenon
  <2>8. heap' \in Heap /\ heap'.panic # TRUE
    BY <1>2, <1>5, <1>7
  <2> QED
    BY <2>2, <2>7, <2>8, Zenon DEF MemInvariant
<1> QED
  BY <1>5, <1>6, <1>7, PanicIsBoolean, Zenon

(* A spawn that fails: the heap has the pages it had.                        *)
LEMMA RollBackInvariant ==
  ASSUME MemInvariant, ~heap.panic, UNCHANGED <<task, maps>>,
         NEW g, NEW mp, NEW new,
         Building(heap.used, heap.mem, g, mp, new.pagetable, {new.kstack_pg} \ {NULL}),
         heap' = IF g.panic THEN g ELSE free_task(g, new)
  PROVE  MemInvariant'
<1>0. /\ heap \in Heap /\ task \in [Task -> TaskType]
      /\ DOMAIN maps = Task
      /\ \A u \in Task : DOMAIN maps[u] \subseteq UserVa
      /\ heap.panic = FALSE => \E tr : Trees(heap, task, maps, tr)
      /\ task' = task /\ maps' = maps
  BY Zenon DEF MemInvariant
<1>f. maps = [u \in Task |-> maps[u]]
  BY Zenon DEF MemInvariant
<1>1. heap.panic = FALSE
  BY <1>0, PanicIsBoolean
<1>2. g \in Heap /\ (g.panic = TRUE => Exhausted(g))
  BY BuildingIsHeap, Zenon
<1>3. CASE g.panic = TRUE
  <2>1. heap' \in Heap /\ Exhausted(heap') /\ heap'.panic # FALSE
    BY <1>2, <1>3
  <2> QED
    BY <1>0, <1>f, <2>1, Zenon DEF MemInvariant
<1>4. CASE g.panic = FALSE
  <2>1. heap' = free_task(g, new) /\ ~g.panic
    BY <1>4
  <2>2. /\ heap' \in Heap /\ heap'.panic = FALSE /\ heap'.used = heap.used
        /\ \A p \in heap.used : heap'.mem[p] = heap.mem[p]
    <3>1. SameHeap(heap, heap')
      BY <1>0, <2>1, RolledBack, Zenon
    <3> QED
      BY <3>1, Zenon DEF SameHeap
  <2>3. PICK tr : Trees(heap, task, maps, tr)
    BY <1>0, <1>1, Zenon
  <2>4. Trees(heap', task, maps, tr)
    BY <2>2, <2>3, TreesStay, Zenon
  <2>5. heap'.panic # TRUE
    BY <2>2
  <2> QED
    BY <1>0, <1>f, <2>2, <2>4, <2>5, Zenon DEF MemInvariant
<1> QED
  BY <1>2, <1>3, <1>4, PanicIsBoolean, Zenon

(* A spawn whose arguments cannot be read keeps the invariant.               *)
LEMMA SpawnBadArgsInvariant ==
  ASSUME NEW t \in Task, NEW n \in 1 .. MAX_TEXT, MemInvariant, SpawnBadArgs(t, n)
  PROVE  MemInvariant'
<1>0. heap \in Heap
  BY Zenon DEF MemInvariant
<1>1. PICK s : s = Spawned(heap, n)
  OBVIOUS
<1>2. /\ ~heap.panic /\ UNCHANGED <<task, maps>>
      /\ heap' = IF s.heap.panic THEN s.heap ELSE free_task(s.heap, s.task)
  BY <1>1, Zenon DEF SpawnBadArgs, Panicked
<1>3. heap.panic = FALSE
  BY <1>0, <1>2, PanicIsBoolean
<1>4. /\ Building(heap.used, heap.mem, s.heap, s.maps, s.task.pagetable, {s.task.kstack_pg})
      /\ s.task.kstack_pg \in Page
  BY <1>0, <1>1, <1>3, SpawnBuilds
<1>5. {s.task.kstack_pg} \ {NULL} = {s.task.kstack_pg}
  BY <1>4, ConstantFacts
<1> QED
  BY <1>2, <1>4, <1>5, RollBackInvariant, Zenon

(* A spawn whose program cannot be loaded keeps the invariant.               *)
LEMMA SpawnBadElfInvariant ==
  ASSUME NEW t \in Task, MemInvariant, SpawnBadElf(t)
  PROVE  MemInvariant'
<1> DEFINE h == NewSpace(heap)
           new == [NoTask EXCEPT !.valid = TRUE, !.pagetable = PageOf(heap)]
<1>0. heap \in Heap
  BY Zenon DEF MemInvariant
<1>1. /\ ~heap.panic /\ UNCHANGED <<task, maps>>
      /\ heap' = IF h.panic THEN h ELSE free_task(h, new)
  BY Zenon DEF SpawnBadElf, Panicked
<1>2. new.pagetable = PageOf(heap) /\ new.kstack_pg = NULL
  BY DEF NoTask
<1>3. heap.panic = FALSE
  BY <1>0, <1>1, PanicIsBoolean
<1> HIDE DEF h, new
<1>4. {new.kstack_pg} \ {NULL} = {}
  BY <1>2
<1>5. Building(heap.used, heap.mem, h, <<>>, new.pagetable, {})
  BY <1>0, <1>2, <1>3, SpaceIsBuilt DEF h
<1> QED
  BY <1>1, <1>4, <1>5, RollBackInvariant, Zenon

(* Reaping a task keeps the invariant.                                       *)
LEMMA ReapInvariant ==
  ASSUME NEW t \in Task, MemInvariant, Reap(t)
  PROVE  MemInvariant'
<1>0. /\ heap \in Heap /\ task \in [Task -> TaskType]
      /\ DOMAIN maps = Task
      /\ \A u \in Task : DOMAIN maps[u] \subseteq UserVa
      /\ heap.panic = FALSE => \E tr : Trees(heap, task, maps, tr)
  BY Zenon DEF MemInvariant
<1>f. maps = [u \in Task |-> maps[u]]
  BY Zenon DEF MemInvariant
<1>1. /\ ~heap.panic /\ task[t].valid /\ heap' = free_task(heap, task[t])
      /\ task' = [task EXCEPT ![t] = NoTask] /\ maps' = [maps EXCEPT ![t] = <<>>]
  BY Zenon DEF Reap, Panicked
<1>2. heap.panic = FALSE
  BY <1>0, <1>1, PanicIsBoolean
<1>3. PICK tr : Trees(heap, task, maps, tr)
  BY <1>0, <1>2, Zenon
<1>4. /\ heap' \in Heap /\ heap'.panic = FALSE
      /\ Trees(heap', [task EXCEPT ![t] = NoTask], [maps EXCEPT ![t] = <<>>], tr)
  BY <1>0, <1>1, <1>2, <1>3, TreesShrink, Zenon
<1>5. Trees(heap', task', maps', tr)
  BY <1>1, <1>4, Zenon
<1>6. /\ task' \in [Task -> TaskType]
      /\ DOMAIN maps' = Task /\ maps' = [u \in Task |-> maps'[u]]
      /\ \A u \in Task : DOMAIN maps'[u] \subseteq UserVa
  <2>1. task' \in [Task -> TaskType]
    BY <1>0, <1>1, EmptySlot
  <2>2. DOMAIN maps' = Task /\ maps' = [u \in Task |-> maps'[u]]
    BY <1>0, <1>1, <1>f
  <2>3. \A u \in Task : DOMAIN maps'[u] \subseteq UserVa
    BY <1>0, <1>1
  <2> QED
    BY <2>1, <2>2, <2>3, Zenon
<1>7. heap'.panic # TRUE
  BY <1>4
<1> QED
  BY <1>4, <1>5, <1>6, <1>7, Zenon DEF MemInvariant

(* The invariant holds.                                                      *)
LEMMA Invariance == Spec => []MemInvariant
<1>1. Init => MemInvariant
  BY InitInvariant
<1>2. MemInvariant /\ [Next]_vars => MemInvariant'
  <2> SUFFICES ASSUME MemInvariant, [Next]_vars PROVE MemInvariant'
    OBVIOUS
  <2>1. CASE UNCHANGED vars
    BY <2>1, Zenon DEF vars, MemInvariant
  <2>2. CASE Next
    <3>1. CASE Halted
      BY <3>1, Zenon DEF Halted, vars, MemInvariant
    <3>2. ASSUME NEW t \in Task, \E n \in 1 .. MAX_TEXT : SpawnUser(t, n) \/ SpawnBadArgs(t, n)
          PROVE  MemInvariant'
      BY <3>2, SpawnUserInvariant, SpawnBadArgsInvariant, Zenon
    <3>3. ASSUME NEW t \in Task, SpawnBadElf(t) PROVE MemInvariant'
      BY <3>3, SpawnBadElfInvariant, Zenon
    <3>4. ASSUME NEW t \in Task, Reap(t) PROVE MemInvariant'
      BY <3>4, ReapInvariant, Zenon
    <3> QED
      BY <2>2, <3>1, <3>2, <3>3, <3>4, Zenon DEF Next
  <2> QED
    BY <2>1, <2>2, Zenon
<1> QED
  BY <1>1, <1>2, PTL DEF Spec

-----------------------------------------------------------------------------
(* The properties *)

(* The trees of the invariant are the ones _free_pagetable_recursive finds.  *)
LEMMA TreeIsFound ==
  ASSUME NEW tr, Trees(heap, task, maps, tr), task \in [Task -> TaskType], NEW t \in Live
  PROVE  /\ t \in Task /\ OwnTree(heap, task, maps, tr, t)
         /\ Tree(t) = tr[t] /\ Owned(t) = TaskPages(task, tr, t) /\ Stack(t) = {task[t].kstack_pg}
<1>1. t \in Task /\ task[t].valid
  BY DEF Live
<1>2. OwnTree(heap, task, maps, tr, t)
  BY <1>1, Zenon DEF Trees
<1>3. IsTree(heap.mem, task[t].pagetable, tr[t]) /\ task[t].kstack_pg \in Page
  BY <1>2, Zenon DEF OwnTree
<1>4. Tree(t) = tr[t]
  BY <1>3, PagesOfTree DEF Tree
<1>5. Stack(t) = {task[t].kstack_pg}
  BY <1>3, ConstantFacts DEF Stack
<1> QED
  BY <1>1, <1>2, <1>4, <1>5 DEF Owned, TaskPages

(* No page has two owners: the tables, the mapped pages and the kernel stack *)
(* of a live task are different pages, allocated, and no other task's or the *)
(* boot's, whatever was spawned, failed to be spawned and reaped before.     *)
THEOREM PagesAreNotShared == Spec => []PagesHaveOneOwner
<1>1. MemInvariant => PagesHaveOneOwner
  <2> SUFFICES ASSUME MemInvariant PROVE PagesHaveOneOwner
    OBVIOUS
  <2>0. /\ heap \in Heap /\ task \in [Task -> TaskType]
        /\ \A t \in Task : DOMAIN maps[t] \subseteq UserVa
        /\ heap.panic = FALSE => \E tr : Trees(heap, task, maps, tr)
    BY Zenon DEF MemInvariant
  <2>1. TypeOK
    BY <2>0 DEF TypeOK, Heap, TaskType
  <2>2. ASSUME ~Panicked
        PROVE  /\ \A t \in Live : /\ IsInjective(Tree(t))
                                  /\ Stack(t) \cap Range(Tree(t)) = {}
                                  /\ Owned(t) \subseteq heap.used \ BootHeap.used
               /\ \A t \in Live, u \in Live : t # u => Owned(t) \cap Owned(u) = {}
    <3>1. heap.panic = FALSE
      BY <2>0, <2>2, PanicIsBoolean DEF Panicked
    <3>2. PICK tr : Trees(heap, task, maps, tr)
      BY <2>0, <3>1, Zenon
    <3>3. ASSUME NEW t \in Live
          PROVE  /\ IsInjective(Tree(t))
                 /\ Stack(t) \cap Range(Tree(t)) = {}
                 /\ Owned(t) \subseteq heap.used \ BootHeap.used
      <4>1. /\ OwnTree(heap, task, maps, tr, t)
            /\ Tree(t) = tr[t] /\ Owned(t) = TaskPages(task, tr, t) /\ Stack(t) = {task[t].kstack_pg}
        BY <2>0, <3>2, TreeIsFound, Zenon
      <4>2. IsInjective(tr[t])
        BY <4>1 DEF OwnTree, IsTree, IsInjective
      <4>3. task[t].kstack_pg \notin Range(tr[t])
        BY <4>1, Zenon DEF OwnTree
      <4>4. \A p \in TaskPages(task, tr, t) : p \in heap.used /\ p \notin BootHeap.used
        BY <4>1, Zenon DEF OwnTree
      <4> QED
        BY <4>1, <4>2, <4>3, <4>4
    <3>4. ASSUME NEW t \in Live, NEW u \in Live, t # u PROVE Owned(t) \cap Owned(u) = {}
      <4>1. Owned(t) = TaskPages(task, tr, t) /\ Owned(u) = TaskPages(task, tr, u)
        BY <2>0, <3>2, TreeIsFound, Zenon
      <4>2. t \in Task /\ u \in Task /\ task[t].valid /\ task[u].valid
        BY DEF Live
      <4>3. \A p \in TaskPages(task, tr, t) : p \notin TaskPages(task, tr, u)
        BY <3>2, <3>4, <4>2, Zenon DEF Trees
      <4> QED
        BY <4>1, <4>3
    <3> QED
      BY <3>3, <3>4
  <2> QED
    BY <2>1, <2>2, Zenon DEF PagesHaveOneOwner
<1> QED
  BY <1>1, Invariance, PTL

(* Nothing leaks: the pages alloc_page has handed out and free_page has not  *)
(* taken back are those of the live tasks and the boot's.                    *)
THEOREM PagesAreNotLost == Spec => []NoPageLeaks
<1>1. MemInvariant => NoPageLeaks
  <2> SUFFICES ASSUME MemInvariant, ~Panicked
               PROVE  heap.used = BootHeap.used \cup UNION {Owned(t) : t \in Live}
    BY Zenon DEF NoPageLeaks
  <2>0. /\ heap \in Heap /\ task \in [Task -> TaskType]
        /\ heap.panic = FALSE => \E tr : Trees(heap, task, maps, tr)
    BY Zenon DEF MemInvariant
  <2>1. heap.panic = FALSE
    BY <2>0, PanicIsBoolean DEF Panicked
  <2>2. PICK tr : Trees(heap, task, maps, tr)
    BY <2>0, <2>1, Zenon
  <2>3. \A t \in Live : Owned(t) = TaskPages(task, tr, t) /\ OwnTree(heap, task, maps, tr, t)
    BY <2>0, <2>2, TreeIsFound, Zenon
  <2>4. \A t \in Live : Owned(t) \subseteq heap.used
    BY <2>3 DEF OwnTree
  <2>5. BootHeap.used \subseteq heap.used
    BY <2>2, Zenon DEF Trees
  <2>6. ASSUME NEW p \in heap.used PROVE p \in BootHeap.used \/ \E t \in Live : p \in Owned(t)
    <3>1. p \in BootHeap.used \/ \E t \in Task : task[t].valid /\ p \in TaskPages(task, tr, t)
      BY <2>2, Zenon DEF Trees
    <3> QED
      BY <2>3, <3>1 DEF Live
  <2> QED
    BY <2>4, <2>5, <2>6
<1> QED
  BY <1>1, Invariance, PTL

(* alloc_page and free_page panic only when the heap is exhausted: no page   *)
(* is freed twice, and none that is not in the heap.                         *)
THEOREM PanicsAreOutOfMemory == Spec => []OnlyOutOfMemoryPanics
<1>1. MemInvariant => OnlyOutOfMemoryPanics
  <2> SUFFICES ASSUME MemInvariant, Panicked PROVE Free(heap) = {}
    BY Zenon DEF OnlyOutOfMemoryPanics
  <2>1. heap \in Heap /\ (heap.panic = TRUE => Exhausted(heap))
    BY Zenon DEF MemInvariant
  <2>2. heap.panic = TRUE
    BY <2>1, PanicIsBoolean DEF Panicked
  <2> QED
    BY <2>1, <2>2, Zenon DEF Exhausted
<1> QED
  BY <1>1, Invariance, PTL

(* translate_page returns the page an address of the user's was mapped to,   *)
(* and nothing for an address that was not, for as long as the task lives.   *)
THEOREM TranslationsAreKept == Spec => []TranslationIsStable
<1>1. MemInvariant => TranslationIsStable
  <2> SUFFICES ASSUME MemInvariant, ~Panicked, NEW t \in Live, NEW va \in UserVa
               PROVE  translate_page(heap, task[t].pagetable, va)
                        = IF va \in DOMAIN maps[t] THEN maps[t][va] ELSE NULL
    BY Zenon DEF TranslationIsStable
  <2>0. /\ heap \in Heap /\ task \in [Task -> TaskType]
        /\ heap.panic = FALSE => \E tr : Trees(heap, task, maps, tr)
    BY Zenon DEF MemInvariant
  <2>1. heap.panic = FALSE
    BY <2>0, PanicIsBoolean DEF Panicked
  <2>2. PICK tr : Trees(heap, task, maps, tr)
    BY <2>0, <2>1, Zenon
  <2>3. OwnTree(heap, task, maps, tr, t)
    BY <2>0, <2>2, TreeIsFound, Zenon
  <2>4. PICK nd : nd = tr[t]
    OBVIOUS
  <2>5. IsTree(heap.mem, task[t].pagetable, nd) /\ MapsTree(maps[t], nd)
    BY <2>3, <2>4, Zenon DEF OwnTree
  <2>6. Translates(heap, task[t].pagetable, va, nd)
    BY <2>5, Translation, Zenon
  <2>7. translate_page(heap, task[t].pagetable, va) = IF va \in DOMAIN nd THEN nd[va] ELSE NULL
    BY <2>6, Zenon DEF Translates
  <2>8. Len(va) = 4
    <3>1. PICK a \in Index \ KERN_L4, b \in Index, c \in Index, d \in Index : va = <<a, b, c, d>>
      BY UserAddresses, Zenon
    <3> QED
      BY <3>1
  <2>9. va \in DOMAIN maps[t] <=> va \in DOMAIN nd
    BY <2>5, <2>8, Zenon DEF MapsTree
  <2>10. va \in DOMAIN maps[t] => maps[t][va] = nd[va]
    BY <2>5, Zenon DEF MapsTree
  <2> QED
    BY <2>7, <2>9, <2>10
<1> QED
  BY <1>1, Invariance, PTL

-----------------------------------------------------------------------------
(* Numbers and addresses *)

(* Products of natural numbers.                                              *)
LEMMA Times ==
  ASSUME NEW a \in Nat, NEW b \in Nat, NEW w \in Nat
  PROVE  /\ a * w \in Nat /\ (a + b) * w = a * w + b * w
         /\ a <= b => a * w <= b * w
OBVIOUS

(* A quotient and a remainder.                                               *)
LEMMA Division ==
  ASSUME NEW x \in Nat, NEW w \in Nat \ {0}
  PROVE  /\ x \div w \in Nat
         /\ (x \div w) * w <= x
         /\ x < (x \div w) * w + w
         /\ x % w = x - (x \div w) * w
OBVIOUS

(* There is one quotient.                                                    *)
LEMMA Quotient ==
  ASSUME NEW x \in Nat, NEW w \in Nat \ {0}, NEW q \in Nat, q * w <= x, x < q * w + w
  PROVE  x \div w = q
<1>1. PICK d : d = x \div w
  OBVIOUS
<1>2. d \in Nat /\ d * w <= x /\ x < d * w + w
  BY <1>1, Division
<1>3. d * w \in Nat /\ q * w \in Nat
  BY <1>2, Times
<1>4. ~(d < q)
  <2> SUFFICES ASSUME d < q PROVE FALSE
    OBVIOUS
  <2>1. (d + 1) * w = d * w + 1 * w /\ 1 * w = w
    BY <1>2, Times
  <2>2. (d + 1) * w <= q * w
    BY <1>2, Times
  <2> QED
    BY <1>2, <1>3, <2>1, <2>2
<1>5. ~(q < d)
  <2> SUFFICES ASSUME q < d PROVE FALSE
    OBVIOUS
  <2>1. (q + 1) * w = q * w + 1 * w /\ 1 * w = w
    BY Times
  <2>2. (q + 1) * w <= d * w
    BY <1>2, Times
  <2> QED
    BY <1>2, <1>3, <2>1, <2>2
<1> QED
  BY <1>1, <1>2, <1>4, <1>5

(* Division by a product is division twice.                                  *)
LEMMA DivideTwice ==
  ASSUME NEW x \in Nat, NEW w \in Nat \ {0}, NEW n \in Nat \ {0}
  PROVE  x \div (w * n) = (x \div w) \div n
<1>1. PICK y, q : y = x \div w /\ q = y \div n
  OBVIOUS
<1>2. y \in Nat /\ y * w <= x /\ x < y * w + w
  BY <1>1, Division
<1>3. q \in Nat /\ q * n <= y /\ y < q * n + n
  BY <1>1, <1>2, Division
<1>4. PICK u : u = q * n
  OBVIOUS
<1>5. u \in Nat /\ u <= y /\ y + 1 <= u + n
  BY <1>2, <1>3, <1>4, Times
<1>6. q * (w * n) = u * w /\ w * n \in Nat \ {0}
  BY <1>3, <1>4
<1>7. u * w <= y * w /\ (y + 1) * w <= (u + n) * w /\ (u + n) * w = u * w + n * w /\ (y + 1) * w = y * w + 1 * w
  BY <1>2, <1>5, Times
<1>8. u * w \in Nat /\ y * w \in Nat /\ n * w \in Nat /\ 1 * w = w /\ n * w = w * n
  BY <1>2, <1>5
<1>9. q * (w * n) <= x /\ x < q * (w * n) + (w * n)
  BY <1>2, <1>6, <1>7, <1>8
<1> QED
  BY <1>1, <1>3, <1>6, <1>9, Quotient

(* Multiples of the divisor.                                                 *)
LEMMA DivideSum ==
  ASSUME NEW x \in Nat, NEW n \in Nat \ {0}, NEW c \in Nat
  PROVE  (x + c * n) \div n = (x \div n) + c /\ (x + c * n) % n = x % n
<1>1. PICK q : q = x \div n
  OBVIOUS
<1>2. q \in Nat /\ q * n <= x /\ x < q * n + n /\ x % n = x - q * n
  BY <1>1, Division
<1>3. (q + c) * n = q * n + c * n /\ q * n \in Nat /\ c * n \in Nat /\ q + c \in Nat
  BY <1>2, Times
<1>4. x + c * n \in Nat /\ (q + c) * n <= x + c * n /\ x + c * n < (q + c) * n + n
  BY <1>2, <1>3
<1>5. (x + c * n) \div n = q + c
  BY <1>3, <1>4, Quotient
<1>6. (x + c * n) % n = (x + c * n) - (q + c) * n
  BY <1>4, <1>5, Division
<1>7. (x + c * n) - (q * n + c * n) = x - q * n
  BY <1>3
<1> QED
  BY <1>1, <1>2, <1>3, <1>5, <1>6, <1>7

-----------------------------------------------------------------------------
(* Addresses *)

(* The sizes of pages.                                                       *)
LEMMA SizeFacts ==
  /\ SMALL_PAGE_SIZE \in Nat \ {0} /\ NUM_PT_ENTRIES \in Nat \ {0}
  /\ PageSize[4] = SMALL_PAGE_SIZE
  /\ PageSize[3] = PageSize[4] * NUM_PT_ENTRIES
  /\ PageSize[2] = PageSize[3] * NUM_PT_ENTRIES
  /\ PageSize[1] = PageSize[2] * NUM_PT_ENTRIES
  /\ BIT48 = PageSize[1] * NUM_PT_ENTRIES /\ BIT48 \in Nat \ {0}
  /\ \A l \in 1 .. 4 : PageSize[l] \in Nat \ {0}
<1>0. SMALL_PAGE_SIZE \in Nat \ {0} /\ NUM_PT_ENTRIES \in Nat \ {0}
  BY MemoryAssumption, ArgsAssumption DEF MemoryAssumption, ArgsAssumption
<1>1. /\ PageSize[4] = SMALL_PAGE_SIZE
      /\ PageSize[3] = PageSize[4] * NUM_PT_ENTRIES
      /\ PageSize[2] = PageSize[3] * NUM_PT_ENTRIES
      /\ PageSize[1] = PageSize[2] * NUM_PT_ENTRIES
      /\ BIT48 = PageSize[1] * NUM_PT_ENTRIES
  BY DEF PageSize, BIT48
<1>2. ASSUME NEW x \in Nat \ {0} PROVE x * NUM_PT_ENTRIES \in Nat \ {0}
  BY <1>0
<1>3. /\ PageSize[4] \in Nat \ {0} /\ PageSize[3] \in Nat \ {0} /\ PageSize[2] \in Nat \ {0}
      /\ PageSize[1] \in Nat \ {0} /\ BIT48 \in Nat \ {0}
  BY <1>0, <1>1, <1>2
<1>4. ASSUME NEW l \in 1 .. 4 PROVE PageSize[l] \in Nat \ {0}
  <2>1. l = 4 \/ l = 3 \/ l = 2 \/ l = 1
    OBVIOUS
  <2> QED
    BY <1>3, <2>1
<1> QED
  BY <1>0, <1>1, <1>3, <1>4

(* The indices of an address.                                                *)
LEMMA IndexFacts ==
  ASSUME NEW x \in Nat
  PROVE  \E a, b, c, d \in Index :
           /\ get_pt_index(x) = <<a, b, c, d>>
           /\ a = (x \div PageSize[1]) % NUM_PT_ENTRIES
           /\ b = (x \div PageSize[2]) % NUM_PT_ENTRIES
           /\ c = (x \div PageSize[3]) % NUM_PT_ENTRIES
           /\ d = (x \div PageSize[4]) % NUM_PT_ENTRIES
<1> DEFINE I(l) == (x \div PageSize[l]) % NUM_PT_ENTRIES
<1>1. ASSUME NEW l \in 1 .. 4 PROVE I(l) \in Index
  <2>1. PageSize[l] \in Nat \ {0} /\ NUM_PT_ENTRIES \in Nat \ {0}
    BY SizeFacts
  <2>2. PICK y : y = x \div PageSize[l]
    OBVIOUS
  <2>3. y \in Nat
    BY <2>1, <2>2, Division
  <2>4. y % NUM_PT_ENTRIES \in 0 .. NUM_PT_ENTRIES - 1
    BY <2>1, <2>3
  <2> QED
    BY <2>2, <2>4 DEF Index
<1>2. get_pt_index(x) = [l \in 1 .. 4 |-> I(l)]
  BY DEF get_pt_index, N_PAGETABLE_LEVELS
<1>3. I(1) \in Index /\ I(2) \in Index /\ I(3) \in Index /\ I(4) \in Index
  BY <1>1
<1> HIDE DEF I
<1>4. [l \in 1 .. 4 |-> I(l)] = <<I(1), I(2), I(3), I(4)>>
  OBVIOUS
<1> QED
  BY <1>2, <1>3, <1>4 DEF I

(* Addresses on one page have the indices down to it in common.              *)
LEMMA SamePage ==
  ASSUME NEW x \in Nat, NEW y \in Nat, NEW l \in 1 .. 4, x \div PageSize[l] = y \div PageSize[l]
  PROVE  \A k \in 1 .. l : x \div PageSize[k] = y \div PageSize[k]
<1> DEFINE Same(k) == x \div PageSize[k] = y \div PageSize[k]
<1>1. ASSUME NEW k \in 1 .. 3, Same(k + 1) PROVE Same(k)
  <2>1. k = 1 \/ k = 2 \/ k = 3
    OBVIOUS
  <2>2. PageSize[k] = PageSize[k + 1] * NUM_PT_ENTRIES
    BY <2>1, SizeFacts
  <2>3. PageSize[k + 1] \in Nat \ {0} /\ NUM_PT_ENTRIES \in Nat \ {0}
    BY SizeFacts
  <2>4. /\ x \div PageSize[k] = (x \div PageSize[k + 1]) \div NUM_PT_ENTRIES
        /\ y \div PageSize[k] = (y \div PageSize[k + 1]) \div NUM_PT_ENTRIES
    BY <2>2, <2>3, DivideTwice
  <2> QED
    BY <1>1, <2>4
<1>2. Same(l)
  OBVIOUS
<1> HIDE DEF Same
<1>3. /\ Same(4) => Same(3)
      /\ Same(3) => Same(2)
      /\ Same(2) => Same(1)
  <2>1. 3 \in 1 .. 3 /\ 2 \in 1 .. 3 /\ 1 \in 1 .. 3 /\ 3 + 1 = 4 /\ 2 + 1 = 3 /\ 1 + 1 = 2
    OBVIOUS
  <2> QED
    BY <1>1, <2>1
<1>4. ASSUME NEW k \in 1 .. l PROVE Same(k)
  <2>1. l = 1 \/ l = 2 \/ l = 3 \/ l = 4
    OBVIOUS
  <2>2. k = 1 \/ k = 2 \/ k = 3 \/ k = 4
    OBVIOUS
  <2> QED
    BY <1>2, <1>3, <2>1, <2>2
<1> QED
  BY <1>4 DEF Same

(* The bits above BIT48 take no part in a walk.                              *)
LEMMA PageNumber ==
  ASSUME NEW x \in Nat
  PROVE  /\ (x \div SMALL_PAGE_SIZE) % PAGES \in 0 .. PAGES - 1
         /\ get_pt_index(((x \div SMALL_PAGE_SIZE) % PAGES) * SMALL_PAGE_SIZE) = get_pt_index(x)
<1> DEFINE S == SMALL_PAGE_SIZE
           N == NUM_PT_ENTRIES
<1>0. S \in Nat \ {0} /\ N \in Nat \ {0}
  BY SizeFacts
<1>1. PICK n2, n3, n4 : n2 = N * N /\ n3 = n2 * N /\ n4 = n3 * N
  OBVIOUS
<1>2. n2 \in Nat \ {0} /\ n3 \in Nat \ {0} /\ n4 \in Nat \ {0}
  <2>1. ASSUME NEW y \in Nat \ {0} PROVE y * N \in Nat \ {0}
    BY <1>0
  <2> QED
    BY <1>0, <1>1, <2>1
<1>3. BIT48 = n4 * S
  <2>1. BIT48 = (((S * N) * N) * N) * N
    BY SizeFacts
  <2>2. (((S * N) * N) * N) * N = (((N * N) * N) * N) * S
    BY <1>0
  <2> QED
    BY <1>1, <2>1, <2>2
<1>4. PAGES = n4
  <2>1. n4 * S \in Nat /\ n4 * S <= n4 * S /\ n4 * S < n4 * S + S
    BY <1>0, <1>2, Times
  <2>2. (n4 * S) \div S = n4
    BY <1>0, <1>2, <2>1, Quotient
  <2> QED
    BY <1>3, <2>2 DEF PAGES
<1>5. PICK k, m, k2 : k = x \div S /\ m = k \div n4 /\ k2 = k % n4
  OBVIOUS
<1>6. k \in Nat
  BY <1>0, <1>5, Division
<1>7. m \in Nat /\ m * n4 <= k /\ k < m * n4 + n4 /\ k2 = k - m * n4 /\ m * n4 \in Nat
  BY <1>2, <1>5, <1>6, Division, Times
<1>8. k2 \in Nat /\ k2 <= n4 - 1 /\ k = k2 + m * n4
  BY <1>2, <1>6, <1>7
<1>9. PICK y : y = k2 * S
  OBVIOUS
<1>10. y \in Nat /\ y \div S = k2
  <2>1. y \in Nat /\ k2 * S <= y /\ y < k2 * S + S
    BY <1>0, <1>8, <1>9, Times
  <2> QED
    BY <1>0, <1>8, <2>1, Quotient
<1>11. /\ PageSize[4] = S /\ PageSize[4] \in Nat \ {0} /\ PageSize[3] \in Nat \ {0} /\ PageSize[2] \in Nat \ {0}
       /\ PageSize[3] = PageSize[4] * N /\ PageSize[2] = PageSize[3] * N /\ PageSize[1] = PageSize[2] * N
  BY SizeFacts
<1>12. ASSUME NEW z \in Nat
       PROVE  /\ z \div PageSize[3] = (z \div PageSize[4]) \div N
              /\ z \div PageSize[2] = (z \div PageSize[3]) \div N
              /\ z \div PageSize[1] = (z \div PageSize[2]) \div N
              /\ z \div PageSize[4] \in Nat /\ z \div PageSize[3] \in Nat /\ z \div PageSize[2] \in Nat
  <2>1. ASSUME NEW w \in Nat \ {0} PROVE z \div (w * N) = (z \div w) \div N /\ z \div w \in Nat
    BY <1>0, DivideTwice, Division
  <2> QED
    BY <1>11, <2>1
<1>13. ASSUME NEW p \in Nat, NEW q \in Nat, NEW c \in Nat, p = q + (m * c) * N
       PROVE  p \div N = (q \div N) + m * c /\ p % N = q % N
  <2>1. PICK e : e = m * c
    OBVIOUS
  <2>2. e \in Nat
    BY <1>7, <2>1, Times
  <2> QED
    BY <1>0, <1>13, <2>1, <2>2, DivideSum
<1>14. /\ m * n4 = (m * n3) * N /\ m * n3 = (m * n2) * N /\ m * n2 = (m * N) * N /\ m * N = (m * 1) * N
  <2>1. ASSUME NEW y1 \in Nat PROVE m * (y1 * N) = (m * y1) * N
    BY <1>0, <1>7
  <2>2. N = 1 * N
    BY <1>0
  <2> QED
    BY <1>0, <1>1, <1>2, <2>1, <2>2
<1> DEFINE X(l) == x \div PageSize[l]
           Y(l) == y \div PageSize[l]
<1>15. X(4) = k /\ Y(4) = k2
  BY <1>5, <1>10, <1>11
<1>16. /\ X(3) = X(4) \div N /\ X(2) = X(3) \div N /\ X(1) = X(2) \div N
       /\ Y(3) = Y(4) \div N /\ Y(2) = Y(3) \div N /\ Y(1) = Y(2) \div N
       /\ X(4) \in Nat /\ X(3) \in Nat /\ X(2) \in Nat /\ Y(4) \in Nat /\ Y(3) \in Nat /\ Y(2) \in Nat
  BY <1>10, <1>12
<1> HIDE DEF X, Y, S, N
<1>17. X(3) = Y(3) + m * n3 /\ X(4) % N = Y(4) % N
  BY <1>2, <1>8, <1>13, <1>14, <1>15, <1>16
<1>18. X(2) = Y(2) + m * n2 /\ X(3) % N = Y(3) % N
  BY <1>2, <1>13, <1>14, <1>16, <1>17
<1>19. X(1) = Y(1) + m * N /\ X(2) % N = Y(2) % N
  BY <1>0, <1>13, <1>14, <1>16, <1>18
<1>20. X(1) % N = Y(1) % N
  <2>1. Y(1) \in Nat
    BY <1>0, <1>16, Division
  <2>2. PICK f : f = Y(1)
    OBVIOUS
  <2>3. (f + m * N) % N = f % N
    BY <1>0, <1>7, <2>1, <2>2, DivideSum
  <2> QED
    BY <1>19, <2>2, <2>3
<1>21. get_pt_index(y) = get_pt_index(x)
  <2>1. \A l \in 1 .. 4 : X(l) % N = Y(l) % N
    BY <1>17, <1>18, <1>19, <1>20
  <2> QED
    BY <2>1 DEF get_pt_index, N_PAGETABLE_LEVELS, X, Y, N
<1> QED
  BY <1>4, <1>5, <1>8, <1>9, <1>21 DEF S

-----------------------------------------------------------------------------
(* walk_page at every address *)

(* Where walk_page ends in a tree: at a page of the user's, at a giant page  *)
(* of the kernel's, or nowhere.                                              *)
GiantAt(h, nd, a, b) == <<a>> \in DOMAIN nd /\ a \in KERN_L4 /\ h.mem[nd[<<a>>]][b].valid

WalkEnd(h, nd, a, b, c, d) ==
  IF <<a, b, c, d>> \in DOMAIN nd THEN [table |-> nd[<<a, b, c>>], index |-> d, depth |-> 4]
  ELSE IF GiantAt(h, nd, a, b) THEN [table |-> nd[<<a>>], index |-> b, depth |-> 2]
  ELSE NULL

Walks(h, r, nd, a, b, c, d) == walk_page(h, r, <<a, b, c, d>>) = WalkEnd(h, nd, a, b, c, d)

(* The paths of length one and three.                                        *)
LEMMA ShortPath ==
  ASSUME NEW a \in Index, NEW b \in Index, NEW c \in Index
  PROVE  /\ <<a>> = Append(<<>>, a)
         /\ <<a, b, c>> = Append(Append(Append(<<>>, a), b), c)
         /\ <<a, b, c>> \in Seq(Index) /\ Len(<<a, b, c>>) = 3 /\ <<a, b, c>> \in Path
<1>1. <<a>> = Append(<<>>, a)
  OBVIOUS
<1>2. <<a, b, c>> = Append(Append(Append(<<>>, a), b), c)
  OBVIOUS
<1>3. <<a, b, c>> \in Seq(Index) /\ Len(<<a, b, c>>) = 3
  OBVIOUS
<1>4. Len(<<a, b, c>>) <= 4
  BY <1>3
<1>5. <<a, b, c>> \in Path
  BY <1>3, <1>4, PathIsSeq
<1> QED
  BY <1>1, <1>2, <1>3, <1>5

(* walk_page ends there, whatever the four indices are.                      *)
LEMMA WalkEnds ==
  ASSUME NEW h, NEW r, NEW nd, IsTree(h.mem, r, nd),
         NEW a \in Index, NEW b \in Index, NEW c \in Index, NEW d \in Index
  PROVE  Walks(h, r, nd, a, b, c, d)
<1> DEFINE va == <<a, b, c, d>>
<1>0. Len(va) = 4 /\ va[1] = a /\ va[2] = b /\ va[3] = c /\ va[4] = d
  OBVIOUS
<1>1. PICK at : WalkSteps(at, h, r, va)
  <2>1. \A v : Len(v) = 4 => Len(v) \in Nat \ {0}
    OBVIOUS
  <2> HIDE DEF va
  <2> QED
    BY <1>0, <2>1, WalkLoop, Zenon
<1>2. /\ at[1] = [table |-> r, index |-> a, depth |-> 1]
      /\ at[2] = WalkDown(h, at[1], b, 2)
      /\ at[3] = WalkDown(h, at[2], c, 3)
      /\ at[4] = WalkDown(h, at[3], d, 4)
      /\ walk_page(h, r, va) = IF at[4] = NULL \/ ~h.mem[at[4].table][at[4].index].valid
                               THEN NULL ELSE at[4]
  <2>1. 2 \in 2 .. 4 /\ 3 \in 2 .. 4 /\ 4 \in 2 .. 4 /\ 2 - 1 = 1 /\ 3 - 1 = 2 /\ 4 - 1 = 3
    OBVIOUS
  <2> HIDE DEF va
  <2>2. \A l \in 2 .. 4 : at[l] = WalkDown(h, at[l - 1], va[l], l)
    BY <1>0, <1>1, Zenon DEF WalkSteps
  <2>3. /\ at[2] = WalkDown(h, at[2 - 1], va[2], 2)
        /\ at[3] = WalkDown(h, at[3 - 1], va[3], 3)
        /\ at[4] = WalkDown(h, at[4 - 1], va[4], 4)
    BY <2>1, <2>2, Zenon
  <2> QED
    BY <1>0, <1>1, <2>1, <2>3, Zenon DEF WalkSteps
<1> DEFINE p1 == Append(<<>>, a)
           p2 == Append(p1, b)
           p3 == Append(p2, c)
<1>3. p1 = <<a>> /\ p3 = <<a, b, c>> /\ va = Append(p3, d)
  <2>1. <<a>> = Append(<<>>, a) /\ <<a, b, c>> = Append(Append(Append(<<>>, a), b), c)
    BY ShortPath, Zenon
  <2>2. <<a, b, c, d>> = Append(Append(Append(Append(<<>>, a), b), c), d)
    BY VaPath
  <2> QED
    BY <2>1, <2>2, Zenon
<1> HIDE DEF p1, p2, p3, va
<1>4. <<>> \in Path /\ Len(<<>>) = 1 - 1 /\ Len(<<>>) = 0 /\ Len(<<>>) < 4
  BY EmptyPath
<1>5. p1 \in Path /\ Len(p1) = 2 - 1 /\ Len(p1) < 4 /\ Len(p1) = 1 /\ p1[1] = a
  <2>1. p1 \in Path /\ Len(p1) = Len(<<>>) + 1 /\ p1[1] = IF Len(<<>>) = 0 THEN a ELSE <<>>[1]
    BY <1>4, AppendPath DEF p1
  <2> QED
    BY <1>4, <2>1
<1>6. p2 \in Path /\ Len(p2) = 3 - 1 /\ Len(p2) < 4 /\ Len(p2) = 2 /\ p2[1] = a
  <2>1. p2 \in Path /\ Len(p2) = Len(p1) + 1 /\ p2[1] = IF Len(p1) = 0 THEN b ELSE p1[1]
    BY <1>5, AppendPath DEF p2
  <2> QED
    BY <1>5, <2>1
<1>7. p3 \in Path /\ Len(p3) = 3 /\ Len(p3) < 4 /\ p3[1] = a
  <2>1. p3 \in Path /\ Len(p3) = Len(p2) + 1 /\ p3[1] = IF Len(p2) = 0 THEN c ELSE p2[1]
    BY <1>6, AppendPath DEF p3
  <2> QED
    BY <1>6, <2>1
<1>8. Len(va) > 1 /\ Len(p2) > 1
  BY <1>0, <1>6
<1>9. MayWalk(<<>>, 1, 2)
  BY <1>4 DEF MayWalk
<1>10. IsAt(at[2], nd, p1, b, 2)
  <2>1. IsAt(at[1], nd, <<>>, a, 1)
    BY <1>2 DEF WalkedTo, IsTree, IsAt
  <2>2. IsAt(WalkDown(h, at[1], b, 2), nd, p1, b, 2)
    BY <1>9, <2>1, WalkAlong, Zenon DEF p1
  <2> QED
    BY <1>2, <2>2, Zenon
<1> DEFINE g == [table |-> nd[p1], index |-> b, depth |-> 2]
<1>11. p1 \in DOMAIN nd => g \in Walk /\ g # NULL
  <2>1. p1 \in DOMAIN nd => g \in Walk
    BY DEF Walk, IsTree, N_PAGETABLE_LEVELS
  <2> QED
    BY <2>1, MemoryAssumption, Zenon DEF MemoryAssumption
<1>12. g.table = nd[p1] /\ g.index = b
  OBVIOUS
<1> HIDE DEF g
<1>13. WalkEnd(h, nd, a, b, c, d)
         = IF va \in DOMAIN nd THEN [table |-> nd[p3], index |-> d, depth |-> 4]
           ELSE IF p1 \in DOMAIN nd /\ a \in KERN_L4 /\ h.mem[nd[p1]][b].valid THEN g
           ELSE NULL
  BY <1>3, Zenon DEF WalkEnd, GiantAt, va, g
<1> SUFFICES walk_page(h, r, va) = WalkEnd(h, nd, a, b, c, d)
  BY Zenon DEF Walks, va
<1>14. CASE a \in KERN_L4
  <2>1. va \notin DOMAIN nd /\ p2 \notin DOMAIN nd
    BY <1>0, <1>6, <1>8, <1>14 DEF IsTree
  <2>2. ASSUME NEW j, NEW l PROVE WalkDown(h, NULL, j, l) = NULL
    BY DEF WalkDown, Invalid
  <2>3. CASE p1 \notin DOMAIN nd
    <3>1. at[2] = NULL
      BY <1>10, <2>3, Zenon DEF IsAt, WalkedTo
    <3>2. at[3] = NULL /\ at[4] = NULL
      BY <1>2, <2>2, <3>1, Zenon
    <3> QED
      BY <1>2, <1>13, <2>1, <2>3, <3>2, Zenon
  <2>4. CASE p1 \in DOMAIN nd
    <3> DEFINE e == h.mem[nd[p1]][b]
    <3>1. at[2] = g
      BY <1>10, <2>4, Zenon DEF IsAt, WalkedTo, g
    <3>2. ASSUME NEW j, NEW l
          PROVE WalkDown(h, g, j, l) = IF ~e.valid THEN NULL ELSE IF e.leaf THEN g ELSE [table |-> e.phys, index |-> j, depth |-> l]
      BY <1>11, <1>12, <2>4 DEF WalkDown
    <3>3. e.valid => e.leaf
      <4>1. Unlinked(h.mem, nd, p1, b)
        BY <1>5, <2>1, <2>4 DEF IsTree, p2
      <4> QED
        BY <4>1, Zenon DEF Unlinked
    <3> HIDE DEF e
    <3>4. CASE e.valid
      <4>1. at[3] = g /\ at[4] = g
        BY <1>2, <3>1, <3>2, <3>3, <3>4, Zenon
      <4> QED
        BY <1>2, <1>11, <1>12, <1>13, <1>14, <2>1, <2>4, <3>4, <4>1, Zenon DEF e
    <3>5. CASE ~e.valid
      <4>1. at[3] = NULL
        BY <1>2, <3>1, <3>2, <3>5, Zenon
      <4>2. at[4] = NULL
        BY <1>2, <2>2, <4>1, Zenon
      <4> QED
        BY <1>2, <1>13, <2>1, <3>5, <4>2, Zenon DEF e
    <3> QED
      BY <3>4, <3>5
  <2> QED
    BY <2>3, <2>4
<1>15. CASE a \notin KERN_L4
  <2>1. MayWalk(p1, 2, 3) /\ MayWalk(p2, 3, 4)
    BY <1>5, <1>6, <1>15 DEF MayWalk
  <2>2. IsAt(at[3], nd, p2, c, 3)
    <3>1. IsAt(WalkDown(h, at[2], c, 3), nd, p2, c, 3)
      BY <1>10, <2>1, WalkAlong, Zenon DEF p2
    <3> QED
      BY <1>2, <3>1, Zenon
  <2>3. at[4] = WalkedTo(nd, p3, d, 4)
    <3>1. IsAt(WalkDown(h, at[3], d, 4), nd, p3, d, 4)
      BY <2>1, <2>2, WalkAlong, Zenon DEF p3
    <3> QED
      BY <1>2, <3>1, Zenon DEF IsAt
  <2>4. WalkEnd(h, nd, a, b, c, d)
          = IF va \in DOMAIN nd THEN [table |-> nd[p3], index |-> d, depth |-> 4] ELSE NULL
    BY <1>13, <1>15, Zenon
  <2>5. CASE p3 \notin DOMAIN nd
    <3>1. ~Linked(h.mem, nd, p3, d)
      BY <2>5, Zenon DEF Linked
    <3>2. va \notin DOMAIN nd
      BY <1>3, <1>7, <3>1, Zenon DEF IsTree
    <3>3. walk_page(h, r, va) = NULL
      BY <1>2, <2>3, <2>5, Zenon DEF WalkedTo
    <3> QED
      BY <2>4, <3>2, <3>3, Zenon
  <2>6. CASE p3 \in DOMAIN nd
    <3> DEFINE e == h.mem[nd[p3]][d]
    <3>1. at[4] = [table |-> nd[p3], index |-> d, depth |-> 4]
      BY <2>3, <2>6, Zenon DEF WalkedTo
    <3>2. at[4].table = nd[p3] /\ at[4].index = d
      BY <3>1
    <3>3. at[4] # NULL
      <4>1. at[4] \in Walk
        BY <2>6, <3>1 DEF Walk, IsTree, N_PAGETABLE_LEVELS
      <4> QED
        BY <4>1, MemoryAssumption, Zenon DEF MemoryAssumption
    <3>4. walk_page(h, r, va) = IF e.valid THEN at[4] ELSE NULL
      BY <1>2, <3>2, <3>3, Zenon
    <3>5. e.valid <=> va \in DOMAIN nd
      <4>1. CASE va \in DOMAIN nd
        <5>1. Linked(h.mem, nd, p3, d)
          BY <1>3, <1>7, <4>1 DEF IsTree
        <5> QED
          BY <4>1, <5>1, Zenon DEF Linked
      <4>2. CASE va \notin DOMAIN nd
        <5>1. Unlinked(h.mem, nd, p3, d)
          BY <1>3, <1>7, <2>6, <4>2 DEF IsTree
        <5>2. Len(p3) # 1
          BY <1>7
        <5> QED
          BY <4>2, <5>1, <5>2, Zenon DEF Unlinked
      <4> QED
        BY <4>1, <4>2
    <3> HIDE DEF e
    <3>6. CASE e.valid
      BY <2>4, <3>1, <3>4, <3>5, <3>6, Zenon
    <3>7. CASE ~e.valid
      BY <2>4, <3>4, <3>5, <3>7, Zenon
    <3> QED
      BY <3>6, <3>7
  <2> QED
    BY <2>5, <2>6
<1> QED
  BY <1>14, <1>15

-----------------------------------------------------------------------------
(* The loop of access_ok *)

(* What the walk from an address says: the size of the page it is on, which  *)
(* is small or giant, and that all of that page is mapped.                   *)
PageIsMapped(h, r, x) ==
  LET z == get_page_size(h, r, x)
  IN  /\ z = PageSize[2] \/ z = PageSize[4]
      /\ \A y \in Nat : y \div z = x \div z => is_page_mapped(h, r, y)

(* A mapped address is on a page that is mapped as a whole.                  *)
LEMMA MappedPage ==
  ASSUME NEW h, NEW r, NEW nd, IsTree(h.mem, r, nd), NEW x \in Nat, is_page_mapped(h, r, x)
  PROVE  PageIsMapped(h, r, x)
<1>1. PICK a, b, c, d \in Index :
        /\ get_pt_index(x) = <<a, b, c, d>>
        /\ a = (x \div PageSize[1]) % NUM_PT_ENTRIES
        /\ b = (x \div PageSize[2]) % NUM_PT_ENTRIES
        /\ c = (x \div PageSize[3]) % NUM_PT_ENTRIES
        /\ d = (x \div PageSize[4]) % NUM_PT_ENTRIES
  BY IndexFacts, Zenon
<1>2. walk_page(h, r, get_pt_index(x)) = WalkEnd(h, nd, a, b, c, d)
  <2>1. Walks(h, r, nd, a, b, c, d)
    BY WalkEnds, Zenon
  <2> QED
    BY <1>1, <2>1, Zenon DEF Walks
<1>3. WalkEnd(h, nd, a, b, c, d) # NULL
  BY <1>2, Zenon DEF is_page_mapped
<1>4. get_page_size(h, r, x) = PageSize[WalkEnd(h, nd, a, b, c, d).depth]
  BY <1>2, <1>3, Zenon DEF get_page_size
<1> DEFINE Agree(y, l) == y \div PageSize[l] = x \div PageSize[l]
<1>5. CASE <<a, b, c, d>> \in DOMAIN nd
  <2>1. WalkEnd(h, nd, a, b, c, d) = [table |-> nd[<<a, b, c>>], index |-> d, depth |-> 4]
    BY <1>5, Zenon DEF WalkEnd
  <2>2. get_page_size(h, r, x) = PageSize[4]
    <3>1. WalkEnd(h, nd, a, b, c, d).depth = 4
      BY <2>1
    <3> QED
      BY <1>4, <3>1, Zenon
  <2>3. ASSUME NEW y \in Nat, y \div PageSize[4] = x \div PageSize[4] PROVE is_page_mapped(h, r, y)
    <3>1. Agree(y, 1) /\ Agree(y, 2) /\ Agree(y, 3) /\ Agree(y, 4)
      BY <2>3, SamePage
    <3>2. get_pt_index(y) = <<a, b, c, d>>
      <4>1. PICK a2, b2, c2, d2 \in Index :
              /\ get_pt_index(y) = <<a2, b2, c2, d2>>
              /\ a2 = (y \div PageSize[1]) % NUM_PT_ENTRIES
              /\ b2 = (y \div PageSize[2]) % NUM_PT_ENTRIES
              /\ c2 = (y \div PageSize[3]) % NUM_PT_ENTRIES
              /\ d2 = (y \div PageSize[4]) % NUM_PT_ENTRIES
        BY IndexFacts, Zenon
      <4> QED
        BY <1>1, <3>1, <4>1, Zenon
    <3> QED
      BY <1>1, <1>2, <1>3, <3>2, Zenon DEF is_page_mapped
  <2> QED
    BY <2>2, <2>3, Zenon DEF PageIsMapped
<1>6. CASE <<a, b, c, d>> \notin DOMAIN nd
  <2>0. GiantAt(h, nd, a, b)
    BY <1>3, <1>6, Zenon DEF WalkEnd
  <2>1. WalkEnd(h, nd, a, b, c, d) = [table |-> nd[<<a>>], index |-> b, depth |-> 2]
    BY <1>6, <2>0, Zenon DEF WalkEnd
  <2>2. get_page_size(h, r, x) = PageSize[2]
    <3>1. WalkEnd(h, nd, a, b, c, d).depth = 2
      BY <2>1
    <3> QED
      BY <1>4, <3>1, Zenon
  <2>3. ASSUME NEW y \in Nat, y \div PageSize[2] = x \div PageSize[2] PROVE is_page_mapped(h, r, y)
    <3>1. Agree(y, 1) /\ Agree(y, 2)
      BY <2>3, SamePage
    <3>2. PICK a2, b2, c2, d2 \in Index :
            /\ get_pt_index(y) = <<a2, b2, c2, d2>>
            /\ a2 = (y \div PageSize[1]) % NUM_PT_ENTRIES
            /\ b2 = (y \div PageSize[2]) % NUM_PT_ENTRIES
            /\ c2 = (y \div PageSize[3]) % NUM_PT_ENTRIES
            /\ d2 = (y \div PageSize[4]) % NUM_PT_ENTRIES
      BY IndexFacts, Zenon
    <3>3. a2 = a /\ b2 = b
      BY <1>1, <3>1, <3>2, Zenon
    <3>4. walk_page(h, r, get_pt_index(y)) = WalkEnd(h, nd, a, b, c2, d2)
      <4>1. Walks(h, r, nd, a, b, c2, d2)
        BY WalkEnds, Zenon
      <4> QED
        BY <3>2, <3>3, <4>1, Zenon DEF Walks
    <3>5. WalkEnd(h, nd, a, b, c2, d2) \in Walk
      <4>1. CASE <<a, b, c2, d2>> \in DOMAIN nd
        <5>1. PICK p : p = <<a, b, c2>>
          OBVIOUS
        <5>2. p \in Path /\ Len(p) = 3
          BY <5>1, ShortPath, Zenon
        <5>3. Append(p, d2) = <<a, b, c2, d2>>
          <6>1. <<a, b, c2>> = Append(Append(Append(<<>>, a), b), c2)
            BY ShortPath
          <6>2. <<a, b, c2, d2>> = Append(Append(Append(Append(<<>>, a), b), c2), d2)
            BY VaPath
          <6> QED
            BY <5>1, <6>1, <6>2, Zenon
        <5>4. p \in DOMAIN nd
          <6>1. Append(p, d2) \in DOMAIN nd /\ Len(p) < 4
            BY <4>1, <5>2, <5>3
          <6>2. Linked(h.mem, nd, p, d2)
            BY <5>2, <6>1, Zenon DEF IsTree
          <6> QED
            BY <6>2, Zenon DEF Linked
        <5>5. WalkEnd(h, nd, a, b, c2, d2) = [table |-> nd[p], index |-> d2, depth |-> 4]
          BY <4>1, <5>1, Zenon DEF WalkEnd
        <5> QED
          BY <5>4, <5>5 DEF Walk, IsTree, N_PAGETABLE_LEVELS
      <4>2. CASE <<a, b, c2, d2>> \notin DOMAIN nd
        <5>1. WalkEnd(h, nd, a, b, c2, d2) = [table |-> nd[<<a>>], index |-> b, depth |-> 2]
          BY <2>0, <4>2, Zenon DEF WalkEnd
        <5>2. <<a>> \in DOMAIN nd
          BY <2>0, Zenon DEF GiantAt
        <5> QED
          BY <5>1, <5>2 DEF Walk, IsTree, N_PAGETABLE_LEVELS
      <4> QED
        BY <4>1, <4>2
    <3> QED
      BY <3>4, <3>5, MemoryAssumption, Zenon DEF is_page_mapped, MemoryAssumption
  <2> QED
    BY <2>2, <2>3, Zenon DEF PageIsMapped
<1> QED
  BY <1>5, <1>6

-----------------------------------------------------------------------------
(* The loop of access_ok *)

(* Where the cursor goes: to the end of the page it is on.                   *)
LEMMA CursorMoves ==
  ASSUME NEW x \in Nat, NEW z \in Nat \ {0}
  PROVE  /\ NextPage(x, z) \in Nat /\ x < NextPage(x, z) /\ NextPage(x, z) <= x + z
         /\ \A y \in x .. NextPage(x, z) - 1 : y \div z = x \div z
         /\ \A n \in Nat : x < n * z => NextPage(x, z) <= n * z
<1>1. PICK q, m : q = x \div z /\ m = q * z
  OBVIOUS
<1>2. q \in Nat /\ m \in Nat /\ m <= x /\ x < m + z /\ x % z = x - m
  BY <1>1, Division, Times
<1>3. NextPage(x, z) = m + z
  BY <1>2 DEF NextPage
<1>4. ASSUME NEW y \in x .. (m + z) - 1 PROVE y \div z = q
  <2>1. y \in Nat /\ q * z <= y /\ y < q * z + z
    BY <1>1, <1>2
  <2> QED
    BY <1>2, <2>1, Quotient
<1>5. ASSUME NEW n \in Nat, x < n * z PROVE m + z <= n * z
  <2>1. ~(n <= q)
    <3> SUFFICES ASSUME n <= q PROVE FALSE
      OBVIOUS
    <3>1. n * z <= m /\ n * z \in Nat
      BY <1>1, <1>2, Times
    <3> QED
      BY <1>2, <1>5, <3>1
  <2>2. (q + 1) * z <= n * z /\ (q + 1) * z = q * z + 1 * z /\ 1 * z = z
    BY <1>2, <2>1, Times
  <2> QED
    BY <1>1, <2>2
<1> QED
  BY <1>1, <1>2, <1>3, <1>4, <1>5

(* The recursion of the loop, for any condition and any successor: there is  *)
(* a function that satisfies it, also where the successors run in a circle.  *)
Loops(ok, D, end, good, nx) == \A c \in D : ok[c] = (c >= end \/ (c \in good /\ ok[nx[c]]))

(* The greatest fixed point is such a function.                              *)
LEMMA LoopExists ==
  ASSUME NEW D, NEW end, NEW good, NEW nx, \A c \in D : c \in good => nx[c] \in D
  PROVE  \E f : f = [c \in D |-> c >= end \/ (c \in good /\ f[nx[c]])]
<1> DEFINE Stays(S) == \A x \in S : x >= end \/ (x \in good /\ nx[x] \in S)
           f == [c \in D |-> \E S \in SUBSET D : c \in S /\ Stays(S)]
<1>1. ASSUME NEW c \in D PROVE f[c] = (c >= end \/ (c \in good /\ f[nx[c]]))
  <2>1. ASSUME f[c], ~(c >= end) PROVE c \in good /\ f[nx[c]]
    <3>1. PICK S \in SUBSET D : c \in S /\ Stays(S)
      BY <2>1
    <3>2. c \in good /\ nx[c] \in S /\ nx[c] \in D
      BY <2>1, <3>1
    <3> QED
      BY <3>1, <3>2
  <2>2. ASSUME c >= end PROVE f[c]
    <3>1. {c} \in SUBSET D /\ c \in {c} /\ Stays({c})
      BY <2>2
    <3> QED
      BY <3>1
  <2>3. ASSUME c \in good, f[nx[c]] PROVE f[c]
    <3>0. nx[c] \in D
      BY <2>3
    <3>1. PICK S \in SUBSET D : nx[c] \in S /\ Stays(S)
      BY <2>3, <3>0
    <3>2. S \cup {c} \in SUBSET D /\ c \in S \cup {c} /\ Stays(S \cup {c})
      BY <2>3, <3>1
    <3> QED
      BY <3>2
  <2>4. f[c] \in BOOLEAN
    OBVIOUS
  <2> HIDE DEF f
  <2> QED
    BY <2>1, <2>2, <2>3, <2>4
<1>2. f = [c \in D |-> c >= end \/ (c \in good /\ f[nx[c]])]
  <2>1. DOMAIN f = D /\ f = [c \in D |-> f[c]]
    OBVIOUS
  <2> HIDE DEF f
  <2> QED
    BY <1>1, <2>1
<1> HIDE DEF f
<1> QED
  BY <1>2

(* What it computes when the cursor goes up: that all that it passes is good *)
(* when what it stops at is.                                                 *)
LEMMA LoopComputes ==
  ASSUME NEW ok, NEW M \in Nat, NEW end \in 0 .. M - 1, NEW good, NEW nx,
         Loops(ok, 0 .. M - 1, end, good, nx),
         \A c \in 0 .. end - 1 : c \in good =>
            /\ nx[c] \in c + 1 .. M - 1
            /\ \A b \in c .. nx[c] - 1 : b \in good
  PROVE  \A c \in 0 .. M - 1 : ok[c] <=> \A b \in c .. end - 1 : b \in good
<1> DEFINE Right(c) == ok[c] <=> \A b \in c .. end - 1 : b \in good
           P == {k \in 0 .. end : \A c \in end - k .. M - 1 : Right(c)}
<1>1. ASSUME NEW c \in 0 .. M - 1 PROVE ok[c] = (c >= end \/ (c \in good /\ ok[nx[c]]))
  BY DEF Loops
<1>2. 0 \in P
  <2>1. ASSUME NEW c \in end - 0 .. M - 1 PROVE Right(c)
    <3>1. c \in 0 .. M - 1 /\ c >= end
      OBVIOUS
    <3>2. ok[c] = TRUE
      BY <1>1, <3>1
    <3>3. \A b \in c .. end - 1 : b \in good
      BY <3>1
    <3> QED
      BY <3>2, <3>3
  <2> QED
    BY <2>1
<1>3. ASSUME NEW k \in 0 .. end - 1, k \in P PROVE k + 1 \in P
  <2>1. ASSUME NEW c \in end - (k + 1) .. M - 1 PROVE Right(c)
    <3>1. CASE c # end - (k + 1)
      <4>1. c \in end - k .. M - 1
        BY <3>1
      <4> QED
        BY <1>3, <4>1
    <3>2. CASE c = end - (k + 1)
      <4>1. c \in 0 .. end - 1 /\ c \in 0 .. M - 1 /\ ~(c >= end)
        BY <3>2
      <4>2. ok[c] = (c \in good /\ ok[nx[c]])
        BY <1>1, <4>1
      <4>3. CASE c \notin good
        <5>1. c \in c .. end - 1
          BY <4>1
        <5> QED
          BY <4>2, <4>3, <5>1
      <4>4. CASE c \in good
        <5>1. nx[c] \in c + 1 .. M - 1 /\ \A b \in c .. nx[c] - 1 : b \in good
          BY <4>1, <4>4
        <5>2. nx[c] \in end - k .. M - 1
          BY <3>2, <5>1
        <5>3. Right(nx[c])
          BY <1>3, <5>2
        <5>4. (\A b \in c .. end - 1 : b \in good) <=> (\A b \in nx[c] .. end - 1 : b \in good)
          <6>1. PICK n : n = nx[c]
            OBVIOUS
          <6>2. n \in c + 1 .. M - 1 /\ \A b \in c .. n - 1 : b \in good
            BY <5>1, <6>1
          <6>3. ASSUME NEW b \in n .. end - 1 PROVE b \in c .. end - 1
            BY <4>1, <6>2
          <6>4. ASSUME NEW b \in c .. end - 1 PROVE b \in c .. n - 1 \/ b \in n .. end - 1
            BY <4>1, <6>2
          <6> QED
            BY <6>1, <6>2, <6>3, <6>4
        <5> QED
          BY <4>2, <4>4, <5>3, <5>4
      <4> QED
        BY <4>3, <4>4
    <3> QED
      BY <3>1, <3>2
  <2>2. k + 1 \in 0 .. end
    OBVIOUS
  <2> HIDE DEF Right
  <2> QED
    BY <2>1, <2>2
<1>4. \A k \in 0 .. end : k \in P
  <2> HIDE DEF P
  <2> QED
    BY <1>2, <1>3, Induction
<1> HIDE DEF Right
<1>5. end \in P /\ end - end = 0
  BY <1>4
<1>6. \A c \in 0 .. M - 1 : Right(c)
  BY <1>5
<1> QED
  BY <1>6 DEF Right

(* What access_ok asks for at its cursor, and what it then computes.         *)
MayRead(h, tk, c) == (tk.taskmode = "MODE_USER" => c < BIT48) /\ is_page_mapped(h, tk.pagetable, c)

InRange(tk, va, len) ==
  /\ va + len < ADDRESSES
  /\ tk.taskmode = "MODE_USER" \/ va + len <= ADDRESSES - PageSize[GiantLevel]

AccessIsExact(h, tk, va, len) ==
  access_ok(h, tk, va, len) <=> \A b \in va .. va + len - 1 : MayRead(h, tk, b)

(* access_ok is what its test says of every byte, in every tree, for ranges  *)
(* that do not wrap.  The cursor of a program's check stops at BIT48.        *)
LEMMA AccessOk ==
  ASSUME NEW h, NEW tk, NEW nd, IsTree(h.mem, tk.pagetable, nd),
         NEW va \in 0 .. ADDRESSES - 1, NEW len \in Nat, InRange(tk, va, len)
  PROVE  AccessIsExact(h, tk, va, len)
<1> DEFINE A == ADDRESSES
           end == (va + len) % A
           Size(c) == get_page_size(h, tk.pagetable, c)
           D == 0 .. A - 1
           good == {c \in Nat : MayRead(h, tk, c)}
           nx == [c \in D |-> NextPage(c, Size(c)) % A]
           Body(f, c) == \/ c >= end
                         \/ /\ tk.taskmode = "MODE_USER" => is_user_va(c)
                            /\ is_page_mapped(h, tk.pagetable, c)
                            /\ f[NextPage(c, Size(c)) % A]
           ok == CHOOSE f : f = [c \in D |-> Body(f, c)]
<1>1. /\ BIT48 \in Nat \ {0} /\ A = 2 * BIT48 /\ A \in Nat \ {0}
      /\ PageSize[2] \in Nat \ {0} /\ PageSize[4] \in Nat \ {0}
      /\ PageSize[4] <= PageSize[2]
      /\ \E n \in Nat : BIT48 = n * PageSize[2]
      /\ \E n \in Nat : BIT48 = n * PageSize[4]
  <2>1. PICK n : n = NUM_PT_ENTRIES
    OBVIOUS
  <2>2. /\ n \in Nat \ {0} /\ PageSize[3] = PageSize[4] * n /\ PageSize[2] = PageSize[3] * n
        /\ PageSize[1] = PageSize[2] * n /\ BIT48 = PageSize[1] * n
        /\ BIT48 \in Nat \ {0} /\ PageSize[1] \in Nat \ {0} /\ PageSize[2] \in Nat \ {0}
        /\ PageSize[3] \in Nat \ {0} /\ PageSize[4] \in Nat \ {0}
    BY <2>1, SizeFacts
  <2>3. PICK z, y : z = PageSize[2] /\ y = PageSize[4]
    OBVIOUS
  <2>4. ASSUME NEW u \in Nat PROVE u <= u * n /\ u * n \in Nat
    BY <2>2
  <2>5. PageSize[4] <= PageSize[2]
    BY <2>2, <2>4
  <2>6. n * n \in Nat /\ BIT48 = (n * n) * z
    <3>1. BIT48 = (z * n) * n /\ z \in Nat
      BY <2>2, <2>3
    <3> QED
      BY <2>2, <3>1
  <2>7. (n * n) * (n * n) \in Nat /\ BIT48 = ((n * n) * (n * n)) * y
    <3>1. z = (y * n) * n /\ y \in Nat
      BY <2>2, <2>3
    <3>2. (n * n) * ((y * n) * n) = ((n * n) * (n * n)) * y
      BY <2>2, <3>1
    <3> QED
      BY <2>2, <2>6, <3>1, <3>2
  <2>8. BIT48 \in Nat \ {0}
    BY <2>2
  <2>9. A \in Nat \ {0} /\ A = 2 * BIT48
    BY <2>8 DEF ADDRESSES
  <2> QED
    BY <2>2, <2>3, <2>5, <2>6, <2>7, <2>8, <2>9
<1>2. /\ va + len \in Nat /\ end = va + len /\ end \in 0 .. A - 1 /\ va \in Nat
      /\ tk.taskmode = "MODE_USER" \/ va + len <= A - PageSize[2]
  <2>1. va \in Nat /\ va + len \in Nat
    BY <1>1
  <2>2. va + len < A /\ (tk.taskmode = "MODE_USER" \/ va + len <= A - PageSize[2])
    BY DEF InRange, GiantLevel
  <2>3. end = va + len
    BY <1>1, <2>1, <2>2
  <2>4. A \in Nat
    BY <1>1
  <2> HIDE DEF A, end
  <2> QED
    BY <2>1, <2>2, <2>3, <2>4
<1>3. access_ok(h, tk, va, len) = ok[va]
  BY Zenon DEF access_ok
<1> HIDE DEF A, end, Size
<1>4. ASSUME NEW c \in Nat, c \in good
      PROVE  /\ Size(c) = PageSize[2] \/ Size(c) = PageSize[4]
             /\ Size(c) \in Nat \ {0}
             /\ \A b \in c .. NextPage(c, Size(c)) - 1 : b \in good
             /\ NextPage(c, Size(c)) \in Nat /\ c < NextPage(c, Size(c))
             /\ NextPage(c, Size(c)) <= c + PageSize[2]
             /\ tk.taskmode = "MODE_USER" => NextPage(c, Size(c)) <= BIT48
  <2>1. MayRead(h, tk, c)
    BY <1>4
  <2>2. PageIsMapped(h, tk.pagetable, c)
    BY <2>1, MappedPage, Zenon DEF MayRead
  <2>3. PICK z : z = Size(c)
    OBVIOUS
  <2>4. /\ z = PageSize[2] \/ z = PageSize[4]
        /\ \A y \in Nat : y \div z = c \div z => is_page_mapped(h, tk.pagetable, y)
    BY <2>2, <2>3, Zenon DEF PageIsMapped, Size
  <2>5. z \in Nat \ {0} /\ z <= PageSize[2]
    BY <1>1, <2>4
  <2>6. PICK n : n = NextPage(c, z)
    OBVIOUS
  <2>7. /\ n \in Nat /\ c < n /\ n <= c + z
        /\ \A y \in c .. n - 1 : y \div z = c \div z
        /\ \A u \in Nat : c < u * z => n <= u * z
    BY <2>5, <2>6, CursorMoves
  <2>8. PICK u \in Nat : BIT48 = u * z
    BY <1>1, <2>4
  <2>9. c < BIT48 => n <= BIT48
    BY <2>7, <2>8
  <2>10. ASSUME NEW b \in c .. n - 1 PROVE b \in good
    <3>1. b \in Nat /\ b < n
      BY <2>7
    <3>2. is_page_mapped(h, tk.pagetable, b)
      BY <2>4, <2>7, <3>1
    <3>3. c < BIT48 => b < BIT48
      BY <1>1, <2>7, <2>9, <3>1
    <3>4. MayRead(h, tk, b)
      BY <2>1, <3>2, <3>3, Zenon DEF MayRead
    <3> QED
      BY <3>1, <3>4
  <2>11. n <= c + PageSize[2]
    BY <1>1, <2>5, <2>7
  <2>12. tk.taskmode = "MODE_USER" => n <= BIT48
    BY <2>1, <2>9, Zenon DEF MayRead
  <2> QED
    BY <2>3, <2>4, <2>5, <2>6, <2>7, <2>10, <2>11, <2>12
<1>5. \A c \in D : c \in Nat
  OBVIOUS
<1>6. \A c \in D : c \in good => nx[c] \in D
  <2> SUFFICES ASSUME NEW c \in D, c \in good PROVE nx[c] \in D
    OBVIOUS
  <2>1. PICK n : n = NextPage(c, Size(c))
    OBVIOUS
  <2>2. n \in Nat
    BY <1>4, <1>5, <2>1
  <2>3. n % A \in D
    BY <1>1, <2>2
  <2> QED
    BY <2>1, <2>3
<1>7. ASSUME NEW f, NEW c \in D PROVE Body(f, c) = (c >= end \/ (c \in good /\ f[nx[c]]))
  <2>1. c \in good <=> (tk.taskmode = "MODE_USER" => is_user_va(c)) /\ is_page_mapped(h, tk.pagetable, c)
    BY <1>5, Zenon DEF MayRead, is_user_va
  <2>2. nx[c] = NextPage(c, Size(c)) % A
    OBVIOUS
  <2> HIDE DEF nx, good
  <2> QED
    BY <2>1, <2>2, Zenon
<1> HIDE DEF Body, nx, good, D
<1>8. PICK f : f = [c \in D |-> c >= end \/ (c \in good /\ f[nx[c]])]
  BY <1>6, LoopExists
<1>9. f = [c \in D |-> Body(f, c)]
  BY <1>7, <1>8, Zenon
<1>10. ok = [c \in D |-> Body(ok, c)]
  BY <1>9, Zenon
<1> HIDE DEF ok
<1>11. Loops(ok, 0 .. A - 1, end, good, nx)
  <2>1. \A c \in D : ok[c] = Body(ok, c)
    BY <1>10, Zenon
  <2>2. \A c \in D : ok[c] = (c >= end \/ (c \in good /\ ok[nx[c]]))
    BY <1>7, <2>1, Zenon
  <2> QED
    BY <2>2, Zenon DEF Loops, D
<1>12. ASSUME NEW c \in 0 .. end - 1, c \in good
       PROVE  nx[c] \in c + 1 .. A - 1 /\ \A b \in c .. nx[c] - 1 : b \in good
  <2>1. c \in Nat /\ c \in D /\ c < end
    BY <1>1, <1>2, <1>12 DEF D
  <2>2. PICK n : n = NextPage(c, Size(c))
    OBVIOUS
  <2>3. /\ n \in Nat /\ c < n /\ n <= c + PageSize[2] /\ \A b \in c .. n - 1 : b \in good
        /\ tk.taskmode = "MODE_USER" => n <= BIT48
    BY <1>4, <1>12, <2>1, <2>2
  <2>4. n < A
    <3>1. CASE tk.taskmode = "MODE_USER"
      BY <1>1, <2>3, <3>1
    <3>2. CASE tk.taskmode # "MODE_USER"
      BY <1>1, <1>2, <2>1, <2>3, <3>2
    <3> QED
      BY <3>1, <3>2
  <2>5. nx[c] = n % A
    BY <2>1, <2>2 DEF nx
  <2>6. n % A = n
    BY <1>1, <2>3, <2>4
  <2>7. nx[c] = n /\ A \in Nat
    BY <1>1, <2>5, <2>6
  <2>8. n \in c + 1 .. A - 1
    BY <2>1, <2>3, <2>4, <2>7
  <2> QED
    BY <2>3, <2>7, <2>8, Zenon
<1>13. ok[va] <=> \A b \in va .. end - 1 : b \in good
  <2>1. \A c \in 0 .. A - 1 : ok[c] <=> \A b \in c .. end - 1 : b \in good
    <3>1. A \in Nat /\ end \in 0 .. A - 1
      BY <1>1, <1>2
    <3> QED
      BY <1>11, <1>12, <3>1, LoopComputes
  <2>2. va \in 0 .. A - 1
    BY DEF A
  <2> QED
    BY <2>1, <2>2, Zenon
<1>14. \A b \in va .. end - 1 : b \in good <=> MayRead(h, tk, b)
  BY <1>2 DEF good
<1> QED
  BY <1>2, <1>3, <1>13, <1>14 DEF AccessIsExact

(* Where the halves end.                                                     *)
LEMMA HalfFacts == BIT47 \in Nat /\ PageSize[1] <= BIT47 /\ 2 * BIT47 <= BIT48 /\ ADDRESSES = 2 * BIT48
<1>1. PICK n, g, m : n = NUM_PT_ENTRIES /\ g = PageSize[1] /\ m = n \div 2
  OBVIOUS
<1>2. n \in Nat /\ n >= 2 /\ g \in Nat /\ BIT48 = g * n /\ BIT47 = g * m
  BY <1>1, MemoryAssumption, SizeFacts DEF MemoryAssumption, BIT47
<1>3. m \in Nat /\ 1 <= m /\ 2 * m <= n
  BY <1>1, <1>2
<1>4. 1 * g <= m * g /\ (2 * m) * g <= n * g
  BY <1>2, <1>3, Times
<1>5. m * g = g * m /\ n * g = g * n /\ (2 * m) * g = 2 * (g * m) /\ g * m \in Nat
  BY <1>2, <1>3
<1> QED
  BY <1>1, <1>2, <1>4, <1>5 DEF ADDRESSES

AllCanonical(va, len) == \A b \in va .. va + len - 1 : Canonical(b)

(* In an address space that spawns and reaps lead to, this is what the       *)
(* machine can read of addresses that it has.                                *)
LEMMA AccessIsReadable ==
  ASSUME MemInvariant, ~Panicked, NEW t \in Live,
         NEW va \in 0 .. ADDRESSES - 1, NEW len \in Nat, InRange(task[t], va, len),
         AllCanonical(va, len)
  PROVE  access_ok(heap, task[t], va, len) <=> Readable(t, Mapped(t), va, len)
<1>0. /\ heap \in Heap /\ task \in [Task -> TaskType]
      /\ heap.panic = FALSE => \E tr : Trees(heap, task, maps, tr)
  BY Zenon DEF MemInvariant
<1>1. heap.panic = FALSE
  BY <1>0, PanicIsBoolean DEF Panicked
<1>2. PICK tr : Trees(heap, task, maps, tr)
  BY <1>0, <1>1, Zenon
<1>3. OwnTree(heap, task, maps, tr, t)
  BY <1>0, <1>2, TreeIsFound, Zenon
<1>4. IsTree(heap.mem, task[t].pagetable, tr[t])
  BY <1>3, Zenon DEF OwnTree
<1>5. AccessIsExact(heap, task[t], va, len)
  BY <1>4, AccessOk, Zenon
<1>6. ASSUME NEW b \in va .. va + len - 1
      PROVE  MayRead(heap, task[t], b)
               <=> /\ Canonical(b)
                   /\ (b \div SMALL_PAGE_SIZE) % PAGES \in Mapped(t)
                   /\ task[t].taskmode = "MODE_USER" => b < BIT47
  <2>1. b \in Nat /\ Canonical(b)
    BY DEF AllCanonical
  <2>2. PICK p : p = (b \div SMALL_PAGE_SIZE) % PAGES
    OBVIOUS
  <2>3. p \in 0 .. PAGES - 1 /\ get_pt_index(p * SMALL_PAGE_SIZE) = get_pt_index(b)
    BY <2>1, <2>2, PageNumber, Zenon
  <2>4. p \in Mapped(t) <=> is_page_mapped(heap, task[t].pagetable, b)
    BY <2>3, Zenon DEF Mapped, is_page_mapped
  <2>5. b < BIT48 <=> b < BIT47
    BY <2>1, HalfFacts, SizeFacts DEF Canonical
  <2> QED
    BY <2>1, <2>2, <2>4, <2>5, Zenon DEF MayRead
<1> QED
  BY <1>5, <1>6, Zenon DEF AccessIsExact, Readable

(* access_ok accepts a range of addresses exactly if the machine can read it *)
(* byte by byte, for a program in the half below BIT47, in every address     *)
(* space that spawns and reaps lead to and for every size of pages and       *)
(* tables.  The two gaps are those of AccessOkIsExact: a program's addresses *)
(* from BIT47 to BIT48, and ranges whose end wraps.                          *)
THEOREM AccessOkIsCorrect == Spec => []AccessOkIsExact
<1>1. MemInvariant => AccessOkIsExact
  <2>1. ASSUME MemInvariant, ~Panicked, NEW t \in Live,
               NEW va \in 0 .. ADDRESSES - 1, NEW len \in RANGE_LENS, Unwrapped(t, va, len)
        PROVE  /\ Readable(t, Mapped(t), va, len) => access_ok(heap, task[t], va, len)
               /\ access_ok(heap, task[t], va, len) /\ AllCanonical(va, len)
                    => Readable(t, Mapped(t), va, len)
    <3>1. len \in Nat
      BY ArgsAssumption DEF ArgsAssumption
    <3>2. InRange(task[t], va, len)
      BY <2>1, Zenon DEF InRange, Unwrapped
    <3>3. AllCanonical(va, len)
            => (access_ok(heap, task[t], va, len) <=> Readable(t, Mapped(t), va, len))
      BY <2>1, <3>1, <3>2, AccessIsReadable, Zenon
    <3>4. Readable(t, Mapped(t), va, len) => AllCanonical(va, len)
      BY Zenon DEF Readable, AllCanonical
    <3> QED
      BY <3>3, <3>4, Zenon
  <2> QED
    BY <2>1, Zenon DEF AccessOkIsExact, AllCanonical
<1> QED
  BY <1>1, Invariance, PTL

-----------------------------------------------------------------------------
(* The shell's line *)

(* A line of n characters.                                                   *)
IsLine(line, n) ==
  /\ n \in Nat \ {0} /\ DOMAIN line = 1 .. n /\ Len(line) = n /\ line \in Seq(Char)
  /\ \A i \in 1 .. n : line[i] = "a" \/ line[i] = SPACE

(* The lines of ArgsArePassed are such lines.                                *)
LEMMA LineFacts ==
  ASSUME NEW line \in Line
  PROVE  \E n \in 1 .. MAX_LINE : IsLine(line, n)
<1>0. MAX_LINE \in Nat
  BY ArgsAssumption DEF ArgsAssumption
<1>1. PICK n \in 1 .. MAX_LINE : line \in [1 .. n -> Char]
  BY DEF Line
<1>2. n \in Nat \ {0}
  BY <1>0
<1>3. line \in Seq(Char) /\ Len(line) = n /\ DOMAIN line = 1 .. n
  BY <1>1, <1>2
<1>4. \A i \in 1 .. n : line[i] = "a" \/ line[i] = SPACE
  BY <1>1 DEF Char
<1> QED
  BY <1>2, <1>3, <1>4 DEF IsLine

(* The buffer, with a NUL for each space and behind the line.                *)
LEMMA BufFacts ==
  ASSUME NEW line, NEW n, IsLine(line, n)
  PROVE  /\ Len(SplitBuf(line)) = n
         /\ \A i \in Nat :
              /\ At(SplitBuf(line), i) = NUL <=> (i \notin 1 .. n \/ line[i] = SPACE)
              /\ At(SplitBuf(line), i) # NUL => At(SplitBuf(line), i) = line[i] /\ line[i] = "a"
              /\ At(SplitBuf(line), i) # DIRT
<1> DEFINE buf == SplitBuf(line)
<1>1. buf = [i \in 1 .. n |-> IF line[i] = SPACE THEN NUL ELSE line[i]]
  BY DEF SplitBuf, IsLine
<1>2. DOMAIN buf = 1 .. n /\ \A i \in 1 .. n : buf[i] = IF line[i] = SPACE THEN NUL ELSE line[i]
  BY <1>1
<1>3. Len(buf) = n
  <2>1. n \in Nat
    BY DEF IsLine
  <2> QED
    BY <1>1, <2>1
<1> HIDE DEF buf
<1>4. \A i \in 1 .. n : line[i] = "a" \/ line[i] = SPACE
  BY DEF IsLine
<1>5. ASSUME NEW i \in Nat
      PROVE  /\ At(buf, i) = NUL <=> (i \notin 1 .. n \/ line[i] = SPACE)
             /\ At(buf, i) # NUL => At(buf, i) = line[i] /\ line[i] = "a"
             /\ At(buf, i) # DIRT
  <2>1. CASE i \notin 1 .. n
    <3>1. At(buf, i) = NUL
      BY <1>2, <2>1 DEF At
    <3> QED
      BY <2>1, <3>1 DEF NUL, DIRT
  <2>2. CASE i \in 1 .. n
    <3>1. At(buf, i) = IF line[i] = SPACE THEN NUL ELSE line[i]
      BY <1>2, <2>2 DEF At
    <3>2. CASE line[i] = SPACE
      BY <2>2, <3>1, <3>2 DEF NUL, DIRT
    <3>3. CASE line[i] = "a"
      BY <2>2, <3>1, <3>3 DEF NUL, DIRT, SPACE
    <3> QED
      BY <1>4, <2>2, <3>2, <3>3
  <2> QED
    BY <2>1, <2>2
<1> QED
  BY <1>3, <1>5 DEF buf

(* Where the shell finds an argument, and the word there.                    *)
IsStart(line, o) == o = 0 \/ (o \in DOMAIN line /\ StartsArg(line, o))

IsWord(line, n, o, len) ==
  /\ o \in Nat /\ len \in Nat /\ o + len <= n
  /\ \A j \in o + 1 .. o + len : line[j] # SPACE
  /\ o + len + 1 <= n => line[o + len + 1] = SPACE
  /\ o = 0 \/ (line[o] = SPACE /\ len >= 1)

WordLen(line, o) == strlen(SplitBuf(line), o)

(* A place other than the first is a space before a character.               *)
LEMMA StartFacts ==
  ASSUME NEW line, NEW n, IsLine(line, n), NEW o, o # 0
  PROVE  IsStart(line, o) <=> o \in 1 .. n - 1 /\ line[o] = SPACE /\ line[o + 1] # SPACE
<1>0. n \in Nat \ {0} /\ DOMAIN line = 1 .. n /\ \A i \in 1 .. n : line[i] = "a" \/ line[i] = SPACE
  BY DEF IsLine
<1>1. CASE o \notin 1 .. n
  BY <1>0, <1>1 DEF IsStart
<1>2. CASE o \in 1 .. n
  <2>1. At(line, o) = line[o]
    BY <1>0, <1>2 DEF At
  <2>2. CASE o = n
    <3>1. At(line, o + 1) = NUL
      BY <1>0, <2>2 DEF At
    <3> QED
      BY <1>0, <2>2, <3>1 DEF IsStart, StartsArg
  <2>3. CASE o # n
    <3>1. o + 1 \in 1 .. n /\ o \in 1 .. n - 1
      BY <1>0, <1>2, <2>3
    <3>2. At(line, o + 1) = line[o + 1]
      BY <1>0, <3>1 DEF At
    <3>3. line[o + 1] # NUL
      BY <1>0, <3>1 DEF NUL, SPACE
    <3> QED
      BY <1>0, <1>2, <2>1, <3>1, <3>2, <3>3 DEF IsStart, StartsArg
  <2> QED
    BY <2>2, <2>3
<1> QED
  BY <1>1, <1>2

(* strlen, at a place the shell finds, is the length of the word there.      *)
LEMMA WordFacts ==
  ASSUME NEW line, NEW n, IsLine(line, n), NEW o, IsStart(line, o)
  PROVE  IsWord(line, n, o, WordLen(line, o))
<1> DEFINE buf == SplitBuf(line)
           Ends(i) == At(buf, i) = NUL /\ \A j \in o + 1 .. i - 1 : At(buf, j) # NUL
           S == {i \in o + 1 .. n + 1 : At(buf, i) = NUL}
<1>0. n \in Nat \ {0} /\ o \in 0 .. n - 1
  <2>1. n \in Nat \ {0}
    BY DEF IsLine
  <2> QED
    BY <2>1, StartFacts
<1>1. /\ Len(buf) = n
      /\ \A i \in Nat : At(buf, i) = NUL <=> (i \notin 1 .. n \/ line[i] = SPACE)
  BY BufFacts
<1> HIDE DEF buf
<1>2. PICK x \in S : \A y \in S : x <= y
  <2>1. n + 1 \in S
    BY <1>0, <1>1
  <2>2. S \subseteq Nat /\ S # {}
    BY <1>0, <2>1
  <2> HIDE DEF S
  <2> QED
    BY <2>2, LeastNumber
<1>3. x \in o + 1 .. n + 1 /\ Ends(x)
  <2>1. ASSUME NEW j \in o + 1 .. x - 1 PROVE At(buf, j) # NUL
    <3>1. j \in o + 1 .. n + 1 /\ j < x /\ ~(x <= j)
      BY <1>0, <1>2
    <3> QED
      BY <1>2, <3>1
  <2> QED
    BY <1>2, <2>1
<1>4. WordLen(line, o) = (CHOOSE i \in o + 1 .. n + 1 : Ends(i)) - o - 1
  BY <1>1 DEF WordLen, strlen, buf
<1>5. PICK e \in o + 1 .. n + 1 : Ends(e) /\ WordLen(line, o) = e - o - 1
  <2> HIDE DEF Ends
  <2>1. Ends(CHOOSE i \in o + 1 .. n + 1 : Ends(i)) /\ (CHOOSE i \in o + 1 .. n + 1 : Ends(i)) \in o + 1 .. n + 1
    BY <1>3, Zenon
  <2> QED
    BY <1>4, <2>1, Zenon
<1>6. PICK len : len = e - o - 1
  OBVIOUS
<1>7. len \in Nat /\ o + len = e - 1 /\ o + len <= n /\ o + len + 1 = e /\ o \in Nat
  BY <1>0, <1>5, <1>6
<1>8. ASSUME NEW j \in o + 1 .. o + len PROVE line[j] # SPACE
  <2>1. j \in Nat /\ j \in o + 1 .. e - 1
    BY <1>0, <1>7
  <2> QED
    BY <1>1, <1>5, <2>1
<1>9. o + len + 1 <= n => line[o + len + 1] = SPACE
  <2>1. e \in Nat /\ (e <= n => e \in 1 .. n)
    BY <1>0, <1>5
  <2> QED
    BY <1>1, <1>5, <1>7, <2>1
<1>10. o = 0 \/ (line[o] = SPACE /\ len >= 1)
  <2> SUFFICES ASSUME o # 0 PROVE line[o] = SPACE /\ len >= 1
    OBVIOUS
  <2>1. o \in 1 .. n - 1 /\ line[o] = SPACE /\ line[o + 1] # SPACE
    BY StartFacts
  <2>2. e # o + 1
    BY <1>0, <1>1, <1>5, <2>1
  <2> QED
    BY <1>0, <1>5, <1>6, <2>1, <2>2
<1> QED
  BY <1>5, <1>6, <1>7, <1>8, <1>9, <1>10 DEF IsWord

(* The words of two places are in the order of the places.                   *)
LEMMA WordsInOrder ==
  ASSUME NEW line, NEW n, NEW o, NEW o2, NEW l, NEW l2,
         IsWord(line, n, o, l), IsWord(line, n, o2, l2), o < o2
  PROVE  o + l < o2 + l2
<1>1. o \in Nat /\ o2 \in Nat /\ l \in Nat /\ l2 \in Nat /\ line[o2] = SPACE /\ l2 >= 1
  BY DEF IsWord
<1>2. ~(o2 \in o + 1 .. o + l)
  BY <1>1 DEF IsWord
<1> QED
  BY <1>1, <1>2

(* The words of a line are those at the places the shell finds.              *)
WordAt(line, o) == <<o + 1, o + WordLen(line, o)>>

(* The reference definition of words finds these, and no other.              *)
LEMMA WordsOfLine ==
  ASSUME NEW line, NEW n, IsLine(line, n)
  PROVE  Words(line) = {WordAt(line, o) : o \in {i \in 0 .. n : IsStart(line, i)}}
<1> DEFINE W == {WordAt(line, o) : o \in {i \in 0 .. n : IsStart(line, i)}}
<1>0. n \in Nat \ {0} /\ DOMAIN line = 1 .. n /\ \A i \in 1 .. n : line[i] = "a" \/ line[i] = SPACE
  BY DEF IsLine
<1>1. ASSUME NEW o \in 0 .. n, IsStart(line, o) PROVE WordAt(line, o) \in Words(line)
  <2>1. PICK l : l = WordLen(line, o)
    OBVIOUS
  <2>2. IsWord(line, n, o, l)
    BY <1>1, <2>1, WordFacts
  <2>3. l \in Nat /\ o + l <= n /\ o \in Nat
    BY <2>2 DEF IsWord
  <2>4. CASE l = 0
    <3>1. o = 0 /\ line[1] = SPACE
      BY <1>0, <2>2, <2>4 DEF IsWord
    <3>2. WordAt(line, o) = <<1, 0>>
      BY <2>1, <2>4, <3>1 DEF WordAt
    <3> QED
      BY <3>1, <3>2 DEF Words
  <2>5. CASE l # 0
    <3>1. o + 1 \in 1 .. n /\ o + l \in 1 .. n /\ o + 1 <= o + l
      BY <1>0, <2>3, <2>5
    <3>2. \A k \in o + 1 .. o + l : line[k] # SPACE
      BY <2>2 DEF IsWord
    <3>3. At(line, (o + l) + 1) \in {SPACE, NUL}
      BY <1>0, <2>2, <2>3 DEF IsWord, At
    <3>4. o + 1 > 1 => line[(o + 1) - 1] = SPACE
      BY <2>2, <2>3 DEF IsWord
    <3>5. IsRun(line, o + 1, o + l)
      BY <3>1, <3>2, <3>3, <3>4 DEF IsRun
    <3>6. <<o + 1, o + l>> \in Runs(line)
      BY <1>0, <3>1, <3>5 DEF Runs
    <3> QED
      BY <2>1, <3>6 DEF Words, WordAt
  <2> QED
    BY <2>4, <2>5
<1>2. ASSUME NEW r \in Words(line) PROVE r \in W
  <2>1. CASE line[1] = SPACE /\ r = <<1, 0>>
    <3>1. IsStart(line, 0) /\ 0 \in 0 .. n
      BY <1>0 DEF IsStart
    <3>2. PICK l : l = WordLen(line, 0)
      OBVIOUS
    <3>3. IsWord(line, n, 0, l)
      BY <3>1, <3>2, WordFacts
    <3>4. l = 0
      BY <2>1, <3>3 DEF IsWord
    <3> QED
      BY <2>1, <3>1, <3>2, <3>4 DEF WordAt
  <2>2. CASE r \in Runs(line)
    <3>1. PICK i \in 1 .. n, j \in 1 .. n : r = <<i, j>> /\ IsRun(line, i, j)
      BY <1>0, <2>2 DEF Runs
    <3>2. PICK o : o = i - 1
      OBVIOUS
    <3>3. o \in 0 .. n - 1 /\ i = o + 1 /\ i <= j
      BY <1>0, <3>1, <3>2 DEF IsRun
    <3>4. line[i] # SPACE /\ (o # 0 => line[o] = SPACE)
      BY <1>0, <3>1, <3>2, <3>3 DEF IsRun
    <3>5. IsStart(line, o)
      <4>1. CASE o = 0
        BY <4>1 DEF IsStart
      <4>2. CASE o # 0
        <5>1. o \in 1 .. n - 1 /\ line[o] = SPACE /\ line[o + 1] # SPACE
          BY <3>3, <3>4, <4>2
        <5> QED
          BY <4>2, <5>1, StartFacts
      <4> QED
        BY <4>1, <4>2
    <3>6. PICK l : l = WordLen(line, o)
      OBVIOUS
    <3>7. IsWord(line, n, o, l)
      BY <3>5, <3>6, WordFacts
    <3>8. l \in Nat /\ o + l <= n
      BY <3>7 DEF IsWord
    <3>9. ~(o + l < j)
      <4> SUFFICES ASSUME o + l < j PROVE FALSE
        OBVIOUS
      <4>1. o + l + 1 <= n /\ o + l + 1 \in i .. j
        BY <1>0, <3>1, <3>3, <3>8
      <4> QED
        BY <3>1, <3>7, <4>1 DEF IsWord, IsRun
    <3>10. ~(j < o + l)
      <4> SUFFICES ASSUME j < o + l PROVE FALSE
        OBVIOUS
      <4>1. j + 1 \in o + 1 .. o + l /\ j + 1 \in 1 .. n
        BY <1>0, <3>1, <3>3, <3>8
      <4>2. At(line, j + 1) = line[j + 1]
        BY <1>0, <4>1 DEF At
      <4>3. line[j + 1] = SPACE
        BY <1>0, <3>1, <4>1, <4>2 DEF IsRun, NUL
      <4> QED
        BY <3>7, <4>1, <4>3 DEF IsWord
    <3>11. j = o + l
      BY <3>1, <3>3, <3>8, <3>9, <3>10
    <3>12. r = WordAt(line, o) /\ o \in 0 .. n
      BY <1>0, <3>1, <3>3, <3>6, <3>11 DEF WordAt
    <3> QED
      BY <3>5, <3>12
  <2> QED
    BY <1>2, <2>1, <2>2 DEF Words
<1> QED
  BY <1>1, <1>2

-----------------------------------------------------------------------------
(* The shell's loop *)

(* The places found in the first characters of a line, in order.             *)
Found(line, args, i) ==
  /\ args \in Seq(Nat) /\ Len(args) >= 1
  /\ \A j, k \in 1 .. Len(args) : j < k => args[j] < args[k]
  /\ \A j \in 1 .. Len(args) : args[j] \in 0 .. i /\ IsStart(line, args[j])
  /\ \A o \in 0 .. i : IsStart(line, o) => \E j \in 1 .. Len(args) : args[j] = o

(* One turn of the shell's loop.                                             *)
SplitStep(line, args, i) == IF StartsArg(line, i) THEN Append(args, i) ELSE args

(* The recursive function of SplitArgs is the shell's loop.                  *)
LEMMA SplitLoop ==
  ASSUME NEW line, NEW n, IsLine(line, n)
  PROVE  \E f : /\ SplitArgs(line) = f[n]
                /\ f[0] = <<0>>
                /\ \A i \in 1 .. n : f[i] = SplitStep(line, f[i - 1], i)
<1> DEFINE Step(f, i) == IF i = 0 THEN <<0>> ELSE SplitStep(line, f[i - 1], i)
<1>0. n \in Nat /\ Len(line) = n
  BY DEF IsLine
<1>1. ASSUME NEW f, NEW g, NEW i \in Nat, i # 0, f[i - 1] = g[i - 1] PROVE Step(f, i) = Step(g, i)
  BY <1>1
<1>2. ASSUME NEW f PROVE Step(f, 0) = <<0>>
  OBVIOUS
<1>3. ASSUME NEW f, NEW i \in 1 .. n PROVE Step(f, i) = SplitStep(line, f[i - 1], i)
  OBVIOUS
<1> DEFINE args == CHOOSE f : f = [i \in 0 .. n |-> Step(f, i)]
<1>4. SplitArgs(line) = args[n]
  BY <1>0 DEF SplitArgs, SplitStep
<1> HIDE DEF Step
<1>5. \E f : f = [i \in 0 .. n |-> Step(f, i)]
  <2> DEFINE P == {k \in 0 .. n : \E f : f = [i \in 0 .. k |-> Step(f, i)]}
  <2>1. 0 \in P
    <3> DEFINE f == [i \in 0 .. 0 |-> <<0>>]
    <3>1. \A i \in 0 .. 0 : f[i] = Step(f, i)
      BY <1>2
    <3>2. f = [i \in 0 .. 0 |-> Step(f, i)]
      BY <3>1
    <3> HIDE DEF f
    <3> QED
      BY <1>0, <3>2
  <2>2. ASSUME NEW k \in 0 .. n - 1, k \in P PROVE k + 1 \in P
    <3>1. PICK f : f = [i \in 0 .. k |-> Step(f, i)]
      BY <2>2
    <3> DEFINE g == [i \in 0 .. k + 1 |-> IF i = k + 1 THEN SplitStep(line, f[k], k + 1) ELSE f[i]]
    <3>2. ASSUME NEW i \in 0 .. k + 1 PROVE g[i] = Step(g, i)
      <4>1. CASE i = k + 1
        <5>1. g[i] = SplitStep(line, f[k], k + 1) /\ g[k] = f[k] /\ i - 1 = k /\ i \in 1 .. n
          BY <1>0, <4>1
        <5> HIDE DEF g
        <5> QED
          BY <1>3, <4>1, <5>1
      <4>2. CASE i # k + 1
        <5>1. i \in 0 .. k /\ g[i] = f[i]
          BY <4>2
        <5>2. g[i] = Step(f, i)
          BY <3>1, <5>1, Zenon
        <5>3. CASE i = 0
          BY <1>2, <5>2, <5>3
        <5>4. CASE i # 0
          <6>1. g[i - 1] = f[i - 1] /\ i \in Nat
            BY <5>1, <5>4
          <6> HIDE DEF g
          <6> QED
            BY <1>1, <5>2, <5>4, <6>1
        <5> QED
          BY <5>3, <5>4
      <4> QED
        BY <4>1, <4>2
    <3>3. g = [i \in 0 .. k + 1 |-> Step(g, i)]
      BY <3>2
    <3> HIDE DEF g
    <3> QED
      BY <1>0, <3>3
  <2>3. \A k \in 0 .. n : k \in P
    <3> HIDE DEF P
    <3> QED
      BY <1>0, <2>1, <2>2, Induction
  <2> QED
    BY <1>0, <2>3
<1>6. args = [i \in 0 .. n |-> Step(args, i)]
  BY <1>5, Zenon
<1> HIDE DEF args
<1>7. \A i \in 0 .. n : args[i] = Step(args, i)
  BY <1>6, Zenon
<1>8. args[0] = <<0>> /\ \A i \in 1 .. n : args[i] = SplitStep(line, args[i - 1], i)
  BY <1>0, <1>2, <1>3, <1>7
<1> QED
  BY <1>4, <1>8

(* The shell finds every place, once and in order.                           *)
LEMMA SplitFacts ==
  ASSUME NEW line, NEW n, IsLine(line, n)
  PROVE  Found(line, SplitArgs(line), n)
<1>0. n \in Nat /\ DOMAIN line = 1 .. n
  BY DEF IsLine
<1>1. PICK f : /\ SplitArgs(line) = f[n]
               /\ f[0] = <<0>>
               /\ \A i \in 1 .. n : f[i] = SplitStep(line, f[i - 1], i)
  BY SplitLoop
<1> DEFINE P == {i \in 0 .. n : Found(line, f[i], i)}
<1>2. 0 \in P
  <2>1. <<0>> \in Seq(Nat) /\ Len(<<0>>) = 1 /\ <<0>>[1] = 0
    OBVIOUS
  <2>2. IsStart(line, 0)
    BY DEF IsStart
  <2>3. Found(line, <<0>>, 0)
    BY <2>1, <2>2 DEF Found
  <2> QED
    BY <1>0, <1>1, <2>3
<1>3. ASSUME NEW k \in 0 .. n - 1, k \in P PROVE k + 1 \in P
  <2>1. PICK s : s = f[k]
    OBVIOUS
  <2>2. Found(line, s, k) /\ k + 1 \in 1 .. n /\ (k + 1) - 1 = k
    BY <1>0, <1>3, <2>1
  <2>3. f[k + 1] = SplitStep(line, s, k + 1)
    BY <1>1, <2>1, <2>2
  <2>4. IsStart(line, k + 1) <=> StartsArg(line, k + 1)
    BY <1>0, <2>2 DEF IsStart
  <2>5. CASE ~StartsArg(line, k + 1)
    <3>1. f[k + 1] = s
      BY <2>3, <2>5 DEF SplitStep
    <3>2. ASSUME NEW o \in 0 .. k + 1, IsStart(line, o) PROVE o \in 0 .. k
      BY <2>4, <2>5, <3>2
    <3>3. \A j \in 1 .. Len(s) : s[j] \in 0 .. k + 1
      BY <2>2 DEF Found
    <3>4. Found(line, s, k + 1)
      BY <2>2, <3>2, <3>3 DEF Found
    <3> QED
      BY <2>2, <3>1, <3>4
  <2>6. CASE StartsArg(line, k + 1)
    <3>1. PICK u : u = Append(s, k + 1)
      OBVIOUS
    <3>2. f[k + 1] = u
      BY <2>3, <2>6, <3>1 DEF SplitStep
    <3>3. /\ s \in Seq(Nat) /\ Len(s) \in Nat /\ Len(s) >= 1
          /\ \A j, m \in 1 .. Len(s) : j < m => s[j] < s[m]
          /\ \A j \in 1 .. Len(s) : s[j] \in 0 .. k /\ IsStart(line, s[j])
          /\ \A o \in 0 .. k : IsStart(line, o) => \E j \in 1 .. Len(s) : s[j] = o
      BY <2>2 DEF Found
    <3>4. /\ u \in Seq(Nat) /\ Len(u) = Len(s) + 1 /\ u[Len(s) + 1] = k + 1
          /\ \A j \in 1 .. Len(s) : u[j] = s[j]
      BY <3>1, <3>3
    <3>5. \A j \in 1 .. Len(u) : j \in 1 .. Len(s) \/ j = Len(s) + 1
      BY <3>3, <3>4
    <3>6. ASSUME NEW j \in 1 .. Len(u) PROVE u[j] \in 0 .. k + 1 /\ IsStart(line, u[j])
      <4>1. CASE j \in 1 .. Len(s)
        <5>1. u[j] = s[j] /\ s[j] \in 0 .. k /\ IsStart(line, s[j])
          BY <3>3, <3>4, <4>1
        <5> QED
          BY <5>1
      <4>2. CASE j = Len(s) + 1
        <5>1. u[j] = k + 1
          BY <3>4, <4>2
        <5> QED
          BY <2>4, <2>6, <5>1
      <4> QED
        BY <3>5, <4>1, <4>2
    <3>7. ASSUME NEW j \in 1 .. Len(u), NEW m \in 1 .. Len(u), j < m PROVE u[j] < u[m]
      <4>1. j \in 1 .. Len(s)
        BY <3>3, <3>4, <3>7
      <4>2. CASE m \in 1 .. Len(s)
        <5>1. u[j] = s[j] /\ u[m] = s[m]
          BY <3>4, <4>1, <4>2, Zenon
        <5>2. s[j] < s[m]
          BY <3>3, <3>7, <4>1, <4>2, Zenon
        <5> QED
          BY <5>1, <5>2
      <4>3. CASE m = Len(s) + 1
        <5>1. u[j] = s[j] /\ s[j] \in 0 .. k /\ u[m] = k + 1
          BY <3>3, <3>4, <4>1, <4>3
        <5> QED
          BY <5>1
      <4> QED
        BY <3>5, <4>2, <4>3
    <3>8. ASSUME NEW o \in 0 .. k + 1, IsStart(line, o) PROVE \E j \in 1 .. Len(u) : u[j] = o
      <4>1. CASE o = k + 1
        <5>1. Len(s) + 1 \in 1 .. Len(u)
          BY <3>3, <3>4
        <5> QED
          BY <3>4, <4>1, <5>1
      <4>2. CASE o # k + 1
        <5>1. o \in 0 .. k
          BY <4>2
        <5>2. PICK j \in 1 .. Len(s) : s[j] = o
          BY <3>3, <3>8, <5>1
        <5>3. j \in 1 .. Len(u) /\ u[j] = o
          BY <3>3, <3>4, <5>2
        <5> QED
          BY <5>3
      <4> QED
        BY <4>1, <4>2
    <3>9. Len(u) >= 1
      BY <3>3, <3>4
    <3>10. Found(line, u, k + 1)
      BY <3>4, <3>6, <3>7, <3>8, <3>9 DEF Found
    <3> QED
      BY <2>2, <3>2, <3>10
  <2> QED
    BY <2>5, <2>6
<1>4. \A k \in 0 .. n : k \in P
  <2> HIDE DEF P
  <2> QED
    BY <1>0, <1>2, <1>3, Induction
<1>5. n \in P
  BY <1>0, <1>4
<1> QED
  BY <1>1, <1>5

-----------------------------------------------------------------------------
(* The words by their number *)

(* As many as the family has members are in its range.                       *)
Firsts(r, m) == {r[j] : j \in 1 .. m}

(* Different members are counted once each.                                  *)
LEMMA CountFirsts ==
  ASSUME NEW n \in Nat, NEW r, \A j, k \in 1 .. n : j # k => r[j] # r[k]
  PROVE  \A m \in 0 .. n : IsFiniteSet(Firsts(r, m)) /\ Cardinality(Firsts(r, m)) = m
<1> DEFINE R(m) == {r[j] : j \in 1 .. m}
           P == {m \in 0 .. n : IsFiniteSet(R(m)) /\ Cardinality(R(m)) = m}
<1>1. 0 \in P
  <2>1. R(0) = {}
    OBVIOUS
  <2>2. IsFiniteSet({}) /\ Cardinality({}) = 0
    BY FS_EmptySet
  <2> QED
    BY <2>1, <2>2
<1>2. ASSUME NEW k \in 0 .. n - 1, k \in P PROVE k + 1 \in P
  <2>1. R(k + 1) = R(k) \cup {r[k + 1]}
    <3>1. \A j \in 1 .. k + 1 : j \in 1 .. k \/ j = k + 1
      OBVIOUS
    <3>2. k + 1 \in 1 .. k + 1 /\ \A j \in 1 .. k : j \in 1 .. k + 1
      OBVIOUS
    <3> QED
      BY <3>1, <3>2
  <2>2. r[k + 1] \notin R(k)
    <3> SUFFICES ASSUME NEW j \in 1 .. k, r[j] = r[k + 1] PROVE FALSE
      OBVIOUS
    <3>1. j \in 1 .. n /\ k + 1 \in 1 .. n /\ j # k + 1
      OBVIOUS
    <3> QED
      BY <3>1
  <2>3. IsFiniteSet(R(k)) /\ Cardinality(R(k)) = k
    BY <1>2
  <2> HIDE DEF R
  <2>4. IsFiniteSet(R(k + 1)) /\ Cardinality(R(k + 1)) = k + 1
    BY <2>1, <2>2, <2>3, FS_AddElement
  <2> QED
    BY <2>4
<1>3. \A m \in 0 .. n : m \in P
  <2> HIDE DEF P
  <2> QED
    BY <1>1, <1>2, Induction
<1> QED
  BY <1>3 DEF Firsts

(* Each argument of the shell is the word of its number.                     *)
LEMMA MeantFacts ==
  ASSUME NEW line, NEW n, IsLine(line, n)
  PROVE  LET args == SplitArgs(line)
         IN  /\ DOMAIN Meant(line) = 1 .. Len(args)
             /\ \A k \in 1 .. Len(args) :
                  Meant(line)[k] = SubSeq(line, args[k] + 1, args[k] + WordLen(line, args[k])) \o <<NUL>>
<1>1. PICK args : args = SplitArgs(line)
  OBVIOUS
<1>2. Found(line, args, n)
  BY <1>1, SplitFacts
<1> DEFINE N == Len(args)
           r == [k \in 1 .. N |-> WordAt(line, args[k])]
           End(k) == args[k] + WordLen(line, args[k])
           W == Words(line)
           Before(x) == {s \in W : s[2] < x[2]}
<1>3. /\ N \in Nat /\ n \in Nat
      /\ \A j, k \in 1 .. N : j < k => args[j] < args[k]
      /\ \A j \in 1 .. N : args[j] \in 0 .. n /\ IsStart(line, args[j])
      /\ \A o \in 0 .. n : IsStart(line, o) => \E j \in 1 .. N : args[j] = o
  BY <1>2 DEF Found, IsLine
<1> HIDE DEF N
<1>4. ASSUME NEW j \in 1 .. N PROVE IsWord(line, n, args[j], WordLen(line, args[j])) /\ End(j) \in Nat
  <2>1. IsWord(line, n, args[j], WordLen(line, args[j]))
    BY <1>3, WordFacts
  <2> QED
    BY <2>1 DEF IsWord
<1>5. ASSUME NEW j \in 1 .. N, NEW k \in 1 .. N, j < k PROVE End(j) < End(k)
  BY <1>3, <1>4, <1>5, WordsInOrder
<1>6. ASSUME NEW j \in 1 .. N PROVE r[j] = WordAt(line, args[j]) /\ r[j][1] = args[j] + 1 /\ r[j][2] = End(j)
  BY DEF WordAt
<1> HIDE DEF End
<1>7. W = {r[j] : j \in 1 .. N}
  <2>1. W = {WordAt(line, o) : o \in {i \in 0 .. n : IsStart(line, i)}}
    BY WordsOfLine
  <2>2. \A j \in 1 .. N : r[j] = WordAt(line, args[j])
    BY <1>6
  <2> HIDE DEF W, r
  <2>3. ASSUME NEW x \in W PROVE x \in {r[j] : j \in 1 .. N}
    <3>1. PICK o \in 0 .. n : IsStart(line, o) /\ x = WordAt(line, o)
      BY <2>1, <2>3
    <3>2. PICK j \in 1 .. N : args[j] = o
      BY <1>3, <3>1
    <3> QED
      BY <2>2, <3>1, <3>2
  <2>4. ASSUME NEW j \in 1 .. N PROVE r[j] \in W
    BY <1>3, <2>1, <2>2
  <2> QED
    BY <2>3, <2>4
<1> HIDE DEF W, r
<1>8. ASSUME NEW j \in 1 .. N, NEW k \in 1 .. N PROVE End(j) < End(k) <=> j < k
  <2>1. j < k \/ k < j \/ j = k
    BY <1>3
  <2>2. End(j) \in Nat /\ End(k) \in Nat
    BY <1>4
  <2> QED
    BY <1>5, <2>1, <2>2
<1>9. \A j, k \in 1 .. N : j # k => r[j] # r[k]
  <2> SUFFICES ASSUME NEW j \in 1 .. N, NEW k \in 1 .. N, j # k PROVE r[j] # r[k]
    OBVIOUS
  <2>1. End(j) \in Nat /\ End(k) \in Nat /\ (j < k \/ k < j)
    BY <1>3, <1>4
  <2>2. End(j) # End(k)
    BY <1>8, <2>1
  <2> QED
    BY <1>6, <2>2
<1>10. \A m \in 0 .. N : Cardinality(Firsts(r, m)) = m
  <2>1. N \in Nat
    BY <1>3
  <2> QED
    BY <1>9, <2>1, CountFirsts, Zenon
<1>11. Cardinality(W) = N
  BY <1>3, <1>7, <1>10 DEF Firsts
<1>12. ASSUME NEW k \in 1 .. N PROVE Cardinality(Before(r[k])) = k - 1
  <2>1. Before(r[k]) = {r[j] : j \in 1 .. k - 1}
    <3>1. ASSUME NEW x \in Before(r[k]) PROVE x \in {r[j] : j \in 1 .. k - 1}
      <4>1. PICK j \in 1 .. N : x = r[j] /\ r[j][2] < r[k][2]
        BY <1>7, <3>1
      <4>2. End(j) < End(k)
        BY <1>6, <4>1
      <4>3. j \in 1 .. k - 1
        BY <1>3, <1>8, <4>2
      <4> QED
        BY <4>1, <4>3
    <3>2. ASSUME NEW j \in 1 .. k - 1 PROVE r[j] \in Before(r[k])
      <4>1. j \in 1 .. N /\ j < k
        BY <1>3
      <4>2. r[j] \in W /\ r[j][2] < r[k][2]
        BY <1>5, <1>6, <1>7, <4>1
      <4> QED
        BY <4>2
    <3> QED
      BY <3>1, <3>2
  <2>2. k - 1 \in 0 .. N
    BY <1>3
  <2> QED
    BY <1>10, <2>1, <2>2 DEF Firsts
<1>13. ASSUME NEW k \in 1 .. N PROVE Nth(W, k) = r[k]
  <2> DEFINE Is(x) == Cardinality(Before(x)) = k - 1
  <2>1. r[k] \in W /\ Is(r[k])
    BY <1>7, <1>12
  <2>2. ASSUME NEW x \in W, Is(x) PROVE x = r[k]
    <3>1. PICK j \in 1 .. N : x = r[j]
      BY <1>7
    <3>2. j - 1 = k - 1
      BY <1>12, <2>2, <3>1
    <3>3. j = k
      BY <1>3, <3>2
    <3> QED
      BY <3>1, <3>3
  <2>3. Nth(W, k) = CHOOSE x \in W : Is(x)
    BY DEF Nth
  <2> HIDE DEF Is
  <2> QED
    BY <2>1, <2>2, <2>3, Zenon
<1>14. Meant(line) = [k \in 1 .. N |-> SubSeq(line, Nth(W, k)[1], Nth(W, k)[2]) \o <<NUL>>]
  BY <1>11 DEF Meant, W
<1>15. DOMAIN Meant(line) = 1 .. N
  BY <1>14
<1>16. ASSUME NEW k \in 1 .. N
       PROVE  Meant(line)[k] = SubSeq(line, args[k] + 1, args[k] + WordLen(line, args[k])) \o <<NUL>>
  <2>1. Meant(line)[k] = SubSeq(line, Nth(W, k)[1], Nth(W, k)[2]) \o <<NUL>>
    BY <1>14, Zenon
  <2>2. Nth(W, k)[1] = args[k] + 1 /\ Nth(W, k)[2] = args[k] + WordLen(line, args[k])
    BY <1>6, <1>13 DEF End
  <2> QED
    BY <2>1, <2>2
<1> QED
  BY <1>1, <1>15, <1>16 DEF N

-----------------------------------------------------------------------------
(* The loop of copyin_args *)

(* What copyin_args starts from.                                             *)
NoArgs == [success |-> TRUE, argv |-> <<>>, bytes |-> <<>>, cursor |-> 0]

(* The recursive function of copyin_args is its loop.                        *)
LEMMA CopyLoop ==
  ASSUME NEW h, NEW tk, NEW base, NEW buf, NEW args, Len(args) \in Nat
  PROVE  \E f : /\ copyin_args(h, tk, base, buf, args) = f[Len(args)]
                /\ f[0] = NoArgs
                /\ \A k \in 1 .. Len(args) : f[k] = CopyArg(h, tk, base, buf, f[k - 1], args[k])
<1> DEFINE n == Len(args)
           Copy(w, k) == CopyArg(h, tk, base, buf, w, args[k])
           Step(f, k) == IF k = 0 THEN NoArgs ELSE Copy(f[k - 1], k)
           done == CHOOSE f : f = [k \in 0 .. n |-> Step(f, k)]
<1>4. copyin_args(h, tk, base, buf, args) = done[n]
  BY Zenon DEF copyin_args, NoArgs
<1> HIDE DEF Copy
<1>1. ASSUME NEW f, NEW g, NEW k \in Nat, k # 0, f[k - 1] = g[k - 1] PROVE Step(f, k) = Step(g, k)
  BY <1>1
<1>2. ASSUME NEW f PROVE Step(f, 0) = NoArgs
  OBVIOUS
<1>3. ASSUME NEW f, NEW k \in 1 .. n PROVE Step(f, k) = Copy(f[k - 1], k)
  OBVIOUS
<1> HIDE DEF Step
<1>5. \E f : f = [k \in 0 .. n |-> Step(f, k)]
  <2> DEFINE P == {k \in 0 .. n : \E f : f = [i \in 0 .. k |-> Step(f, i)]}
  <2>1. 0 \in P
    <3> DEFINE f == [i \in 0 .. 0 |-> NoArgs]
    <3>1. \A i \in 0 .. 0 : f[i] = Step(f, i)
      BY <1>2
    <3>2. f = [i \in 0 .. 0 |-> Step(f, i)]
      BY <3>1
    <3> HIDE DEF f
    <3> QED
      BY <3>2
  <2>2. ASSUME NEW k \in 0 .. n - 1, k \in P PROVE k + 1 \in P
    <3>1. PICK f : f = [i \in 0 .. k |-> Step(f, i)]
      BY <2>2
    <3> DEFINE g == [i \in 0 .. k + 1 |-> IF i = k + 1 THEN Copy(f[k], k + 1) ELSE f[i]]
    <3>2. ASSUME NEW i \in 0 .. k + 1 PROVE g[i] = Step(g, i)
      <4>1. CASE i = k + 1
        <5>1. g[i] = Copy(f[k], k + 1) /\ g[k] = f[k] /\ i - 1 = k /\ i \in 1 .. n
          BY <4>1
        <5> HIDE DEF g
        <5> QED
          BY <1>3, <4>1, <5>1
      <4>2. CASE i # k + 1
        <5>1. i \in 0 .. k /\ g[i] = f[i]
          BY <4>2
        <5>2. g[i] = Step(f, i)
          BY <3>1, <5>1, Zenon
        <5>3. CASE i = 0
          BY <1>2, <5>2, <5>3
        <5>4. CASE i # 0
          <6>1. g[i - 1] = f[i - 1] /\ i \in Nat
            BY <5>1, <5>4
          <6> HIDE DEF g
          <6> QED
            BY <1>1, <5>2, <5>4, <6>1
        <5> QED
          BY <5>3, <5>4
      <4> QED
        BY <4>1, <4>2
    <3>3. g = [i \in 0 .. k + 1 |-> Step(g, i)]
      BY <3>2
    <3> HIDE DEF g
    <3> QED
      BY <3>3
  <2>3. \A k \in 0 .. n : k \in P
    <3> HIDE DEF P, n
    <3> QED
      BY <2>1, <2>2, Induction DEF n
  <2> QED
    BY <2>3
<1>6. done = [k \in 0 .. n |-> Step(done, k)]
  BY <1>5, Zenon
<1> HIDE DEF done
<1>7. \A k \in 0 .. n : done[k] = Step(done, k)
  BY <1>6, Zenon
<1>8. done[0] = NoArgs /\ \A k \in 1 .. n : done[k] = Copy(done[k - 1], k)
  BY <1>2, <1>3, <1>7
<1> QED
  BY <1>4, <1>8, Zenon DEF Copy

(* A string ends below the place of the next.                                *)
LEMMA NextStringFacts ==
  ASSUME NEW c \in Nat, NEW l \in Nat
  PROVE  NextString(c, l) \in Nat /\ c + l + 1 <= NextString(c, l)
<1>0. ARG_ALIGN \in Nat \ {0}
  BY ArgsAssumption DEF ArgsAssumption
<1>1. PICK y, q : y = c + l + 1 + ARG_ALIGN - 1 /\ q = y \div ARG_ALIGN
  OBVIOUS
<1>2. y \in Nat /\ y = c + l + ARG_ALIGN
  BY <1>0, <1>1
<1>3. q \in Nat /\ q * ARG_ALIGN <= y /\ y < q * ARG_ALIGN + ARG_ALIGN
  BY <1>0, <1>1, <1>2, Division
<1>4. PICK m : m = q * ARG_ALIGN
  OBVIOUS
<1>5. m \in Nat
  BY <1>0, <1>3, <1>4, Times
<1>6. NextString(c, l) = m
  BY <1>1, <1>4 DEF NextString, ROUND_UP
<1> QED
  BY <1>0, <1>2, <1>3, <1>4, <1>5, <1>6

(* What the copies of the first arguments leave: each string is whole, and   *)
(* below the cursor.                                                         *)
ArgCopied(w, buf, args, j) ==
  /\ w.argv[j] \in Nat
  /\ w.argv[j] + strlen(buf, args[j]) + 1 <= w.cursor
  /\ \A m \in 0 .. strlen(buf, args[j]) :
       /\ w.argv[j] + m \in DOMAIN w.bytes
       /\ w.bytes[w.argv[j] + m] = At(buf, args[j] + m + 1)

Copied(w, ok, buf, args, k) ==
  /\ w = [success |-> w.success, argv |-> w.argv, bytes |-> w.bytes, cursor |-> w.cursor]
  /\ w.success \in BOOLEAN
  /\ w.success <=> \A j \in 1 .. k : j \in ok
  /\ w.success => /\ w.argv \in Seq(Nat) /\ Len(w.argv) = k /\ w.cursor \in Nat
                  /\ \A j \in 1 .. k : ArgCopied(w, buf, args, j)

(* A turn of the loop leaves the earlier strings whole and adds one.         *)
LEMMA CopyFacts ==
  ASSUME NEW h, NEW tk, NEW base, NEW buf, NEW args, NEW ok, NEW k \in Nat, NEW w,
         Copied(w, ok, buf, args, k),
         k + 1 \in ok <=> access_ok(h, tk, base + args[k + 1], TASK_ARG_LEN),
         args[k + 1] \in Nat,
         \A j \in 1 .. k + 1 : strlen(buf, args[j]) \in 0 .. TASK_ARG_LEN - 1
  PROVE  Copied(CopyArg(h, tk, base, buf, w, args[k + 1]), ok, buf, args, k + 1)
<1> DEFINE off == args[k + 1]
           l == strlen(buf, off)
           A == TASK_ARG_LEN
<1>0. A \in Nat /\ l \in 0 .. A - 1
  <2>1. A \in Nat
    BY ArgsAssumption DEF ArgsAssumption
  <2>2. k + 1 \in 1 .. k + 1
    OBVIOUS
  <2> QED
    BY <2>1, <2>2
<1>1. PICK v : v = CopyArg(h, tk, base, buf, w, off)
  OBVIOUS
<1>2. \A j \in 1 .. k + 1 : j \in 1 .. k \/ j = k + 1
  OBVIOUS
<1>3. k + 1 \in 1 .. k + 1 /\ \A j \in 1 .. k : j \in 1 .. k + 1
  OBVIOUS
<1>4. CASE ~w.success \/ k + 1 \notin ok
  <2>1. v = [w EXCEPT !.success = FALSE]
    BY <1>1, <1>4 DEF CopyArg
  <2>2. v = [success |-> FALSE, argv |-> w.argv, bytes |-> w.bytes, cursor |-> w.cursor]
    BY <2>1 DEF Copied
  <2>3. v.success = FALSE /\ v = [success |-> v.success, argv |-> v.argv, bytes |-> v.bytes, cursor |-> v.cursor]
    BY <2>2
  <2>4. ~ \A j \in 1 .. k + 1 : j \in ok
    BY <1>3, <1>4 DEF Copied
  <2>5. Copied(v, ok, buf, args, k + 1)
    BY <2>3, <2>4, Zenon DEF Copied
  <2> QED
    BY <1>1, <2>5
<1>5. CASE w.success /\ k + 1 \in ok
  <2>0. /\ w.argv \in Seq(Nat) /\ Len(w.argv) = k /\ w.cursor \in Nat
        /\ \A j \in 1 .. k : ArgCopied(w, buf, args, j)
        /\ \A j \in 1 .. k : j \in ok
    BY <1>5 DEF Copied
  <2> DEFINE c == w.cursor
             new == c .. c + A - 1
             bytes == [i \in DOMAIN w.bytes \cup new |-> IF i \in new THEN At(buf, off + i - c + 1) ELSE w.bytes[i]]
             argv == Append(w.argv, c)
  <2>1. v = [success |-> TRUE, argv |-> argv, bytes |-> bytes, cursor |-> NextString(c, l)]
    BY <1>1, <1>5, Zenon DEF CopyArg
  <2>2. v.success = TRUE /\ v.argv = argv /\ v.bytes = bytes /\ v.cursor = NextString(c, l)
    BY <2>1
  <2>3. v = [success |-> v.success, argv |-> v.argv, bytes |-> v.bytes, cursor |-> v.cursor]
    BY <2>1, <2>2, Zenon
  <2>4. c \in Nat /\ l \in Nat /\ v.cursor \in Nat /\ c + l + 1 <= v.cursor
    <3>1. c \in Nat /\ l \in Nat
      BY <1>0, <2>0
    <3>2. v.cursor = NextString(c, l)
      BY <2>2
    <3> HIDE DEF c, l
    <3>3. NextString(c, l) \in Nat /\ c + l + 1 <= NextString(c, l)
      BY <3>1, NextStringFacts
    <3> QED
      BY <3>1, <3>2, <3>3
  <2>5. /\ argv \in Seq(Nat) /\ Len(argv) = k + 1 /\ argv[k + 1] = c
        /\ \A j \in 1 .. k : argv[j] = w.argv[j]
    BY <2>0, <2>4
  <2>6. /\ \A i \in new : i \in DOMAIN bytes /\ bytes[i] = At(buf, off + i - c + 1)
        /\ \A i \in DOMAIN w.bytes : i \notin new => i \in DOMAIN bytes /\ bytes[i] = w.bytes[i]
    OBVIOUS
  <2> HIDE DEF argv, bytes
  <2>7. ArgCopied(v, buf, args, k + 1)
    <3>1. ASSUME NEW m \in 0 .. l
          PROVE  c + m \in DOMAIN bytes /\ bytes[c + m] = At(buf, off + m + 1)
      <4>1. c + m \in new /\ off + (c + m) - c + 1 = off + m + 1
        BY <1>0, <2>4
      <4> QED
        BY <2>6, <4>1
    <3>2. v.argv[k + 1] = c
      BY <2>2, <2>5
    <3> HIDE DEF c, l
    <3> QED
      BY <2>2, <2>4, <3>1, <3>2 DEF ArgCopied, l
  <2>8. ASSUME NEW j \in 1 .. k PROVE ArgCopied(v, buf, args, j)
    <3>1. PICK a, e : a = w.argv[j] /\ e = strlen(buf, args[j])
      OBVIOUS
    <3>2. /\ a \in Nat /\ a + e + 1 <= c
          /\ \A m \in 0 .. e : a + m \in DOMAIN w.bytes /\ w.bytes[a + m] = At(buf, args[j] + m + 1)
      BY <2>0, <3>1 DEF ArgCopied
    <3>3. v.argv[j] = a /\ e \in Nat
      BY <1>0, <2>2, <2>5, <3>1
    <3>4. a + e + 1 <= v.cursor
      BY <2>4, <3>2, <3>3
    <3>5. ASSUME NEW m \in 0 .. e
          PROVE  a + m \in DOMAIN bytes /\ bytes[a + m] = At(buf, args[j] + m + 1)
      <4>1. a + m \notin new
        BY <2>4, <3>2, <3>3
      <4> QED
        BY <2>6, <3>2, <4>1
    <3> QED
      BY <2>2, <3>1, <3>2, <3>3, <3>4, <3>5 DEF ArgCopied
  <2>9. \A j \in 1 .. k + 1 : ArgCopied(v, buf, args, j)
    BY <1>2, <2>7, <2>8
  <2>10. \A j \in 1 .. k + 1 : j \in ok
    BY <1>2, <1>5, <2>0
  <2>11. v.argv \in Seq(Nat) /\ Len(v.argv) = k + 1
    BY <2>2, <2>5
  <2>12. Copied(v, ok, buf, args, k + 1)
    BY <2>2, <2>3, <2>4, <2>9, <2>10, <2>11, Zenon DEF Copied
  <2> QED
    BY <1>1, <2>12
<1> QED
  BY <1>4, <1>5 DEF Copied

(* The whole loop.                                                           *)
LEMMA AllCopied ==
  ASSUME NEW h, NEW tk, NEW base, NEW buf, NEW args, NEW ok, Len(args) \in Nat,
         \A j \in 1 .. Len(args) :
           /\ args[j] \in Nat
           /\ j \in ok <=> access_ok(h, tk, base + args[j], TASK_ARG_LEN)
           /\ strlen(buf, args[j]) \in 0 .. TASK_ARG_LEN - 1
  PROVE  Copied(copyin_args(h, tk, base, buf, args), ok, buf, args, Len(args))
<1>1. PICK f : /\ copyin_args(h, tk, base, buf, args) = f[Len(args)]
               /\ f[0] = NoArgs
               /\ \A k \in 1 .. Len(args) : f[k] = CopyArg(h, tk, base, buf, f[k - 1], args[k])
  BY CopyLoop
<1>2. PICK n : n = Len(args)
  OBVIOUS
<1> DEFINE P == {k \in 0 .. n : Copied(f[k], ok, buf, args, k)}
<1>3. 0 \in P
  <2>1. /\ NoArgs = [success |-> NoArgs.success, argv |-> NoArgs.argv, bytes |-> NoArgs.bytes, cursor |-> NoArgs.cursor]
        /\ NoArgs.success = TRUE /\ NoArgs.argv = <<>> /\ NoArgs.cursor = 0
    BY DEF NoArgs
  <2>2. <<>> \in Seq(Nat) /\ Len(<<>>) = 0
    OBVIOUS
  <2>3. Copied(NoArgs, ok, buf, args, 0)
    <3>1. \A j : ~(j \in 1 .. 0)
      OBVIOUS
    <3>2. 0 \in Nat
      OBVIOUS
    <3> QED
      BY <2>1, <2>2, <3>1, <3>2, Zenon DEF Copied
  <2> QED
    BY <1>1, <1>2, <2>3
<1>4. ASSUME NEW k \in 0 .. n - 1, k \in P PROVE k + 1 \in P
  <2>1. k \in Nat /\ k + 1 \in 1 .. n /\ (k + 1) - 1 = k /\ k + 1 \in 0 .. n
    BY <1>2
  <2>2. PICK w : w = f[k]
    OBVIOUS
  <2>3. f[k + 1] = CopyArg(h, tk, base, buf, w, args[k + 1]) /\ Copied(w, ok, buf, args, k)
    BY <1>1, <1>2, <1>4, <2>1, <2>2
  <2>4. \A j \in 1 .. k + 1 : j \in 1 .. n
    BY <1>2, <2>1
  <2>5. /\ k + 1 \in ok <=> access_ok(h, tk, base + args[k + 1], TASK_ARG_LEN)
        /\ args[k + 1] \in Nat
        /\ \A j \in 1 .. k + 1 : strlen(buf, args[j]) \in 0 .. TASK_ARG_LEN - 1
    BY <1>2, <2>1, <2>4
  <2>6. Copied(f[k + 1], ok, buf, args, k + 1)
    BY <2>1, <2>3, <2>5, CopyFacts
  <2> QED
    BY <2>1, <2>6
<1>5. \A k \in 0 .. n : k \in P
  <2> HIDE DEF P
  <2> QED
    BY <1>2, <1>3, <1>4, Induction
<1> QED
  BY <1>1, <1>2, <1>5

-----------------------------------------------------------------------------
(* Where the shell has its line: there is a page with the indices of the     *)
(* stack.                                                                    *)
LEMMA StackPageExists ==
  StackPage \in 0 .. PAGES - 1 /\ get_pt_index(StackPage * SMALL_PAGE_SIZE) = DEFAULT_USER_STACK
<1> DEFINE S == SMALL_PAGE_SIZE
           N == NUM_PT_ENTRIES
<1>0. S \in Nat \ {0} /\ N \in Nat /\ N >= 2 /\ N \in Nat \ {0}
  BY SizeFacts, MemoryAssumption DEF MemoryAssumption
<1>1. PICK p, x : p = (N + 1) * N /\ x = p * S
  OBVIOUS
<1>2. p \in Nat /\ x \in Nat
  <2>1. p \in Nat
    BY <1>0, <1>1, Times
  <2> QED
    BY <1>0, <1>1, <2>1, Times
<1>3. p \div N = N + 1 /\ p % N = 0
  <2>1. p = 0 + (N + 1) * N /\ N + 1 \in Nat
    BY <1>0, <1>1, <1>2
  <2>2. 0 \div N = 0 /\ 0 % N = 0
    BY <1>0
  <2>3. p \div N = (0 \div N) + (N + 1) /\ p % N = 0 % N
    BY <1>0, <2>1, DivideSum
  <2> QED
    BY <1>0, <2>2, <2>3
<1>4. 1 \div N = 0 /\ 1 % N = 1
  <2>1. 1 \div N = 0
    BY <1>0, Quotient
  <2>2. 1 % N = 1 - (1 \div N) * N
    BY <1>0, Division
  <2> QED
    BY <1>0, <2>1, <2>2
<1>5. (N + 1) \div N = 1 /\ (N + 1) % N = 1
  <2>1. N + 1 = 1 + 1 * N
    BY <1>0
  <2>2. (1 + 1 * N) \div N = (1 \div N) + 1 /\ (1 + 1 * N) % N = 1 % N
    BY <1>0, DivideSum
  <2> QED
    BY <1>4, <2>1, <2>2
<1>6. x \div S = p
  <2>1. p * S <= x /\ x < p * S + S
    BY <1>0, <1>1, <1>2
  <2> QED
    BY <1>0, <1>2, <2>1, Quotient
<1>7. x \div PageSize[4] = p
  BY <1>6, SizeFacts
<1>8. x \div PageSize[3] = N + 1
  BY <1>0, <1>2, <1>3, <1>7, SizeFacts, DivideTwice
<1>9. x \div PageSize[2] = 1
  <2>1. PageSize[2] = PageSize[3] * N /\ PageSize[3] \in Nat \ {0}
    BY SizeFacts
  <2>2. x \div (PageSize[3] * N) = (x \div PageSize[3]) \div N
    BY <1>0, <1>2, <2>1, DivideTwice
  <2> QED
    BY <1>5, <1>8, <2>1, <2>2
<1>10. x \div PageSize[1] = 0
  <2>1. PageSize[1] = PageSize[2] * N /\ PageSize[2] \in Nat \ {0}
    BY SizeFacts
  <2>2. x \div (PageSize[2] * N) = (x \div PageSize[2]) \div N
    BY <1>0, <1>2, <2>1, DivideTwice
  <2> QED
    BY <1>4, <1>9, <2>1, <2>2
<1>11. get_pt_index(x) = <<0, 1, 1, 0>>
  <2>1. PICK a, b, c, d \in Index :
          /\ get_pt_index(x) = <<a, b, c, d>>
          /\ a = (x \div PageSize[1]) % NUM_PT_ENTRIES
          /\ b = (x \div PageSize[2]) % NUM_PT_ENTRIES
          /\ c = (x \div PageSize[3]) % NUM_PT_ENTRIES
          /\ d = (x \div PageSize[4]) % NUM_PT_ENTRIES
    BY <1>2, IndexFacts
  <2>2. 0 % N = 0
    BY <1>0
  <2>3. a = 0 /\ b = 1 /\ c = 1 /\ d = 0
    BY <1>3, <1>4, <1>5, <1>7, <1>8, <1>9, <1>10, <2>1, <2>2
  <2> QED
    BY <2>1, <2>3
<1>12. \E q \in 0 .. PAGES - 1 : get_pt_index(q * SMALL_PAGE_SIZE) = DEFAULT_USER_STACK
  <2>1. /\ (x \div SMALL_PAGE_SIZE) % PAGES \in 0 .. PAGES - 1
        /\ get_pt_index(((x \div SMALL_PAGE_SIZE) % PAGES) * SMALL_PAGE_SIZE) = get_pt_index(x)
    BY <1>2, PageNumber
  <2> QED
    BY <1>11, <2>1, Zenon DEF DEFAULT_USER_STACK
<1> QED
  BY <1>12, Zenon DEF StackPage

(* The stack page is not the last that one level 4 entry serves.             *)
LEMMA StackPageIsLow ==
  StackPage * SMALL_PAGE_SIZE + 2 * SMALL_PAGE_SIZE <= PageSize[1]
<1> DEFINE S == SMALL_PAGE_SIZE
           N == NUM_PT_ENTRIES
<1>0. S \in Nat \ {0} /\ N \in Nat /\ N \in Nat \ {0} /\ N >= 2
  BY MemoryAssumption, ArgsAssumption DEF MemoryAssumption, ArgsAssumption
<1>1. PICK q, x, g1, g2, g3 :
        /\ q = StackPage /\ x = q * S
        /\ g1 = PageSize[1] /\ g2 = PageSize[2] /\ g3 = PageSize[3]
  OBVIOUS
<1>2. /\ g1 \in Nat \ {0} /\ g2 \in Nat \ {0} /\ g3 \in Nat \ {0} /\ BIT48 \in Nat
      /\ BIT48 = g1 * N /\ g1 = g2 * N /\ g2 = g3 * N /\ g3 = S * N /\ PageSize[4] = S
  BY <1>1, SizeFacts
<1>3. PAGES \in Nat /\ PAGES * S <= BIT48
  BY <1>0, <1>2, SizeFacts, Division DEF PAGES
<1>4. q \in Nat /\ q + 1 <= PAGES /\ get_pt_index(x) = <<0, 1, 1, 0>>
  BY <1>1, <1>3, StackPageExists DEF DEFAULT_USER_STACK
<1>5. x \in Nat /\ x < BIT48
  <2>1. (q + 1) * S <= PAGES * S /\ (q + 1) * S = x + 1 * S /\ x \in Nat
    BY <1>0, <1>1, <1>3, <1>4, Times
  <2> QED
    BY <1>0, <1>2, <1>3, <2>1
<1>6. (x \div g1) % N = 0 /\ (x \div S) % N = 0
  <2>1. PICK a, b, c, d \in Index :
          /\ get_pt_index(x) = <<a, b, c, d>>
          /\ a = (x \div PageSize[1]) % NUM_PT_ENTRIES
          /\ b = (x \div PageSize[2]) % NUM_PT_ENTRIES
          /\ c = (x \div PageSize[3]) % NUM_PT_ENTRIES
          /\ d = (x \div PageSize[4]) % NUM_PT_ENTRIES
    BY <1>5, IndexFacts
  <2>2. a = 0 /\ d = 0
    BY <1>4, <2>1
  <2> QED
    BY <1>1, <1>2, <2>1, <2>2
<1>7. x < g1
  <2>1. PICK y : y = x \div g1
    OBVIOUS
  <2>2. y \in Nat /\ y * g1 <= x /\ x < y * g1 + g1
    BY <1>2, <1>5, <2>1, Division
  <2>3. y < N
    <3>1. CASE N <= y
      <4>1. N * g1 <= y * g1 /\ N * g1 = g1 * N
        BY <1>0, <1>2, <2>2, <3>1, Times
      <4>2. y * g1 \in Nat
        BY <1>2, <2>2
      <4> QED
        BY <1>2, <1>5, <2>2, <4>1, <4>2
    <3> QED
      BY <1>0, <2>2, <3>1
  <2>4. y = 0
    BY <1>0, <1>6, <2>1, <2>2, <2>3
  <2>5. 0 * g1 = 0
    BY <1>2
  <2> QED
    BY <1>2, <2>2, <2>4, <2>5
<1>8. PICK e \in Nat : x = e * g3
  <2>1. PICK e : e = q \div N
    OBVIOUS
  <2>2. x \div S = q
    <3>1. q * S <= x /\ x < q * S + S
      BY <1>0, <1>1, <1>4, <1>5
    <3> QED
      BY <1>0, <1>4, <1>5, <3>1, Quotient
  <2>3. e \in Nat /\ q = e * N
    BY <1>0, <1>4, <1>6, <2>1, <2>2
  <2>4. (e * N) * S = e * (S * N)
    BY <1>0, <2>3
  <2> QED
    BY <1>1, <1>2, <2>3, <2>4
<1>9. x + g3 <= g1
  <2>1. PICK k : k = N * N
    OBVIOUS
  <2>2. k \in Nat /\ g1 = k * g3
    BY <1>0, <1>2, <2>1
  <2>3. e < k
    <3>1. CASE k <= e
      <4>1. k * g3 <= e * g3
        BY <1>2, <2>2, <3>1, Times
      <4> QED
        BY <1>2, <1>5, <1>7, <1>8, <2>2, <4>1
    <3> QED
      BY <2>2, <3>1
  <2>4. (e + 1) * g3 <= k * g3 /\ (e + 1) * g3 = e * g3 + 1 * g3
    BY <1>2, <2>2, <2>3, Times
  <2> QED
    BY <1>2, <1>5, <1>8, <2>2, <2>4
<1>10. 2 * S <= g3
  <2>1. 2 * S <= N * S /\ N * S = S * N
    BY <1>0, Times
  <2> QED
    BY <1>2, <2>1
<1> QED
  BY <1>0, <1>1, <1>2, <1>5, <1>9, <1>10

(* The bytes that are copied for an argument lie in the user's half, far     *)
(* below where the cursor of access_ok wraps.                                *)
LEMMA ArgInRange ==
  ASSUME NEW tk, NEW off \in BUF_OFFSETS, NEW o \in 0 .. MAX_LINE
  PROVE  LET va == (StackPage * SMALL_PAGE_SIZE + off) + o
         IN  /\ va \in 0 .. ADDRESSES - 1
             /\ InRange(tk, va, TASK_ARG_LEN)
             /\ AllCanonical(va, TASK_ARG_LEN)
<1> DEFINE S == SMALL_PAGE_SIZE
<1>0. /\ S \in Nat \ {0} /\ off \in Nat /\ o \in Nat /\ off + o <= S
      /\ TASK_ARG_LEN \in Nat /\ TASK_ARG_LEN <= S /\ TASK_ARG_LEN >= 1
  BY ArgsAssumption DEF ArgsAssumption
<1>1. PICK b, g1, g2, va : b = StackPage * S /\ g1 = PageSize[1] /\ g2 = PageSize[2] /\ va = (b + off) + o
  OBVIOUS
<1>2. b \in Nat
  <2>1. PAGES \in Nat
    BY <1>0, SizeFacts, Division DEF PAGES
  <2>2. StackPage \in Nat
    BY <2>1, StackPageExists
  <2> QED
    BY <1>0, <1>1, <2>2
<1>3. b + 2 * S <= g1
  BY <1>1, StackPageIsLow
<1>4. g1 \in Nat \ {0} /\ g2 \in Nat \ {0} /\ g2 <= g1
  <2>1. PICK n : n = NUM_PT_ENTRIES
    OBVIOUS
  <2>2. n \in Nat \ {0} /\ g1 \in Nat \ {0} /\ g2 \in Nat \ {0} /\ g1 = g2 * n
    BY <1>1, <2>1, SizeFacts
  <2>3. 1 * g2 <= n * g2 /\ n * g2 = g2 * n
    BY <2>2, Times
  <2> QED
    BY <2>2, <2>3
<1>5. BIT47 \in Nat /\ g1 <= BIT47 /\ 2 * BIT47 <= BIT48 /\ ADDRESSES = 2 * BIT48 /\ BIT48 \in Nat
  BY <1>1, HalfFacts, SizeFacts
<1>6. va \in Nat /\ va + TASK_ARG_LEN \in Nat /\ va + TASK_ARG_LEN <= BIT47 /\ va < BIT47
  BY <1>0, <1>1, <1>2, <1>3, <1>4, <1>5
<1>7. va \in 0 .. ADDRESSES - 1
  BY <1>5, <1>6
<1>8. va + TASK_ARG_LEN < ADDRESSES /\ va + TASK_ARG_LEN <= ADDRESSES - g2
  BY <1>4, <1>5, <1>6
<1>9. ASSUME NEW x \in va .. va + TASK_ARG_LEN - 1 PROVE Canonical(x)
  <2>1. PICK e : e = va + TASK_ARG_LEN
    OBVIOUS
  <2>2. x \in va .. e - 1 /\ e \in Nat /\ e <= BIT47
    BY <1>0, <1>6, <2>1
  <2>3. x < BIT47
    BY <1>5, <1>6, <2>2
  <2> QED
    BY <2>3 DEF Canonical
<1> QED
  BY <1>1, <1>7, <1>8, <1>9 DEF InRange, AllCanonical, GiantLevel

-----------------------------------------------------------------------------
(* What the program finds at a pointer is the word, with its end.            *)
LEMMA ArgIsSeen ==
  ASSUME NEW line, NEW n \in 1 .. MAX_LINE, IsLine(line, n), NEW args, NEW k, NEW w,
         IsStart(line, args[k]), ArgCopied(w, SplitBuf(line), args, k)
  PROVE  SeenArg(w, k) = SubSeq(line, args[k] + 1, args[k] + WordLen(line, args[k])) \o <<NUL>>
<1>0. MAX_LINE \in Nat /\ TASK_ARG_LEN \in Nat
  BY ArgsAssumption DEF ArgsAssumption
<1>1. PICK o, l, a, buf : o = args[k] /\ l = WordLen(line, o) /\ a = w.argv[k] /\ buf = SplitBuf(line)
  OBVIOUS
<1>2. IsWord(line, n, o, l)
  BY <1>1, WordFacts
<1>3. o \in Nat /\ l \in Nat /\ o + l <= n /\ n \in Nat /\ l <= MAX_LINE
  BY <1>0, <1>2 DEF IsWord
<1>4. a \in Nat /\ \A m \in 0 .. l : a + m \in DOMAIN w.bytes /\ w.bytes[a + m] = At(buf, o + m + 1)
  BY <1>1 DEF ArgCopied, WordLen
<1> DEFINE byte(i) == IF i \in DOMAIN w.bytes THEN w.bytes[i] ELSE DIRT
           Ends(m) == /\ byte(a + m) \in {NUL, DIRT}
                      /\ \A j \in 0 .. m - 1 : byte(a + j) \notin {NUL, DIRT}
           e == CHOOSE m \in 0 .. MAX_LINE + TASK_ARG_LEN : Ends(m)
<1>5. SeenArg(w, k) = [i \in 1 .. e + 1 |-> byte(a + i - 1)]
  BY <1>1, Zenon DEF SeenArg
<1>6. ASSUME NEW m \in 0 .. l PROVE byte(a + m) = At(buf, o + m + 1)
  BY <1>4
<1> HIDE DEF byte
<1>7. ASSUME NEW m \in 0 .. l - 1 PROVE byte(a + m) \notin {NUL, DIRT} /\ byte(a + m) = line[o + m + 1]
  <2>1. m \in 0 .. l /\ o + m + 1 \in Nat /\ o + m + 1 \in o + 1 .. o + l /\ o + m + 1 \in 1 .. n
    BY <1>3
  <2>2. line[o + m + 1] # SPACE
    BY <1>2, <2>1 DEF IsWord
  <2>3. At(buf, o + m + 1) # NUL
    BY <1>1, <2>1, <2>2, BufFacts
  <2>4. At(buf, o + m + 1) = line[o + m + 1] /\ At(buf, o + m + 1) # DIRT
    BY <1>1, <2>1, <2>3, BufFacts
  <2> QED
    BY <1>6, <2>1, <2>3, <2>4
<1>8. byte(a + l) = NUL
  <2>1. l \in 0 .. l /\ o + l + 1 \in Nat
    BY <1>3
  <2>2. o + l + 1 \notin 1 .. n \/ line[o + l + 1] = SPACE
    BY <1>2, <1>3 DEF IsWord
  <2>3. At(buf, o + l + 1) = NUL
    BY <1>1, <2>1, <2>2, BufFacts
  <2> QED
    BY <1>6, <2>1, <2>3
<1>9. e = l
  <2>1. l \in 0 .. MAX_LINE + TASK_ARG_LEN /\ Ends(l)
    BY <1>0, <1>3, <1>7, <1>8
  <2>2. ASSUME NEW m \in 0 .. MAX_LINE + TASK_ARG_LEN, Ends(m) PROVE m = l
    <3>1. ~(m < l)
      <4> SUFFICES ASSUME m < l PROVE FALSE
        OBVIOUS
      <4>1. m \in 0 .. l - 1
        BY <1>0, <1>3
      <4> QED
        BY <1>7, <2>2, <4>1
    <3>2. ~(l < m)
      <4> SUFFICES ASSUME l < m PROVE FALSE
        OBVIOUS
      <4>1. l \in 0 .. m - 1
        BY <1>0, <1>3
      <4> QED
        BY <1>8, <2>2, <4>1
    <3> QED
      BY <1>0, <1>3, <3>1, <3>2
  <2> HIDE DEF Ends
  <2> QED
    BY <2>1, <2>2, Zenon
<1> HIDE DEF e
<1>10. PICK sub : sub = SubSeq(line, o + 1, o + l)
  OBVIOUS
<1>11. sub \in Seq(Char) /\ Len(sub) = l /\ \A i \in 1 .. l : sub[i] = line[o + i]
  <2>1. line \in Seq(Char) /\ Len(line) = n
    BY DEF IsLine
  <2> QED
    BY <1>3, <1>10, <2>1
<1>12. PICK word : word = sub \o <<NUL>>
  OBVIOUS
<1>13. /\ word \in Seq(Char \cup {NUL}) /\ Len(word) = l + 1 /\ word[l + 1] = NUL
       /\ \A i \in 1 .. l : word[i] = line[o + i]
  <2>1. PICK T : T = Char \cup {NUL}
    OBVIOUS
  <2>2. sub \in Seq(T) /\ <<NUL>> \in Seq(T) /\ Len(<<NUL>>) = 1 /\ <<NUL>>[1] = NUL
    <3>1. NUL \in T
      BY <2>1
    <3>2. \A i \in 1 .. Len(sub) : sub[i] \in T
      BY <1>11, <2>1
    <3>3. sub \in Seq(T)
      BY <1>11, <3>2
    <3> QED
      BY <3>1, <3>3
  <2>3. word \in Seq(T) /\ Len(word) = l + 1
    BY <1>3, <1>11, <1>12, <2>2
  <2>4. word[l + 1] = NUL
    BY <1>3, <1>11, <1>12, <2>2
  <2>5. ASSUME NEW i \in 1 .. l PROVE word[i] = sub[i]
    BY <1>3, <1>11, <1>12, <2>2
  <2> QED
    BY <1>11, <2>1, <2>3, <2>4, <2>5
<1>14. DOMAIN word = 1 .. l + 1 /\ word = [i \in 1 .. l + 1 |-> word[i]]
  BY <1>13
<1>15. ASSUME NEW i \in 1 .. l + 1 PROVE byte(a + i - 1) = word[i]
  <2>1. CASE i = l + 1
    <3>1. a + i - 1 = a + l
      BY <1>3, <1>4, <2>1
    <3> QED
      BY <1>8, <1>13, <2>1, <3>1
  <2>2. CASE i # l + 1
    <3>1. i \in 1 .. l /\ i - 1 \in 0 .. l - 1 /\ a + (i - 1) = a + i - 1 /\ o + (i - 1) + 1 = o + i
      BY <1>3, <1>4, <2>2
    <3> QED
      BY <1>7, <1>13, <3>1
  <2> QED
    BY <2>1, <2>2
<1>16. SeenArg(w, k) = word
  BY <1>5, <1>9, <1>14, <1>15
<1> QED
  BY <1>1, <1>10, <1>12, <1>16

(* What ArgsArePassed says of one line at one place in the memory of one     *)
(* task.                                                                     *)
Passed(t, line, off) ==
  LET args == SplitArgs(line)
      base == StackPage * SMALL_PAGE_SIZE + off
      w == copyin_args(heap, task[t], base, SplitBuf(line), args)
  IN  /\ w.success <=> \A k \in DOMAIN args : Readable(t, Mapped(t), base + args[k], TASK_ARG_LEN)
      /\ w.success => [k \in DOMAIN w.argv |-> SeenArg(w, k)] = Meant(line)

(* It holds of every line whose words fit the copies.                        *)
LEMMA LineIsPassed ==
  ASSUME MemInvariant, ~Panicked, NEW t \in Live, NEW line \in Line, NEW off \in BUF_OFFSETS,
         \A k \in DOMAIN Meant(line) : k < MAX_ARGS /\ Len(Meant(line)[k]) <= TASK_ARG_LEN
  PROVE  Passed(t, line, off)
<1>0. MAX_LINE \in Nat /\ TASK_ARG_LEN \in Nat
  BY ArgsAssumption DEF ArgsAssumption
<1>1. PICK n \in 1 .. MAX_LINE : IsLine(line, n)
  BY LineFacts
<1>2. PICK args, meant, buf, base :
        /\ args = SplitArgs(line) /\ meant = Meant(line) /\ buf = SplitBuf(line)
        /\ base = StackPage * SMALL_PAGE_SIZE + off
  OBVIOUS
<1>3. PICK N : N = Len(args)
  OBVIOUS
<1>4. /\ args \in Seq(Nat) /\ N \in Nat /\ DOMAIN args = 1 .. N
      /\ \A k \in 1 .. N : args[k] \in 0 .. n /\ IsStart(line, args[k])
  <2>1. Found(line, args, n)
    BY <1>1, <1>2, SplitFacts
  <2> QED
    BY <1>3, <2>1 DEF Found
<1>5. /\ DOMAIN meant = 1 .. N
      /\ \A k \in 1 .. N :
           meant[k] = SubSeq(line, args[k] + 1, args[k] + WordLen(line, args[k])) \o <<NUL>>
  BY <1>1, <1>2, <1>3, MeantFacts
<1>6. ASSUME NEW k \in 1 .. N PROVE strlen(buf, args[k]) \in 0 .. TASK_ARG_LEN - 1
  <2>1. PICK o, l : o = args[k] /\ l = WordLen(line, o)
    OBVIOUS
  <2>2. IsWord(line, n, o, l)
    BY <1>1, <1>4, <2>1, WordFacts
  <2>3. o \in Nat /\ l \in Nat /\ o + l <= n
    BY <2>2 DEF IsWord
  <2>4. line \in Seq(Char) /\ Len(line) = n
    BY <1>1 DEF IsLine
  <2>5. PICK sub : sub = SubSeq(line, o + 1, o + l)
    OBVIOUS
  <2>6. sub \in Seq(Char) /\ Len(sub) = l
    BY <2>3, <2>4, <2>5
  <2>7. Len(sub \o <<NUL>>) = l + 1
    BY <2>3, <2>6
  <2>8. Len(meant[k]) = l + 1
    BY <1>5, <2>1, <2>5, <2>7
  <2>9. Len(meant[k]) <= TASK_ARG_LEN
    BY <1>2, <1>5
  <2> QED
    BY <1>0, <1>2, <2>1, <2>3, <2>8, <2>9 DEF WordLen
<1>7. ASSUME NEW k \in 1 .. N
      PROVE  access_ok(heap, task[t], base + args[k], TASK_ARG_LEN)
               <=> Readable(t, Mapped(t), base + args[k], TASK_ARG_LEN)
  <2>1. args[k] \in 0 .. MAX_LINE
    BY <1>0, <1>1, <1>4
  <2>2. /\ base + args[k] \in 0 .. ADDRESSES - 1 /\ InRange(task[t], base + args[k], TASK_ARG_LEN)
        /\ AllCanonical(base + args[k], TASK_ARG_LEN)
    BY <1>2, <2>1, ArgInRange
  <2> QED
    BY <1>0, <2>2, AccessIsReadable, Zenon
<1> DEFINE ok == {j \in 1 .. N : access_ok(heap, task[t], base + args[j], TASK_ARG_LEN)}
<1>8. PICK w : w = copyin_args(heap, task[t], base, buf, args)
  OBVIOUS
<1>9. Copied(w, ok, buf, args, N)
  <2>1. ASSUME NEW j \in 1 .. N
        PROVE  /\ args[j] \in Nat
               /\ j \in ok <=> access_ok(heap, task[t], base + args[j], TASK_ARG_LEN)
               /\ strlen(buf, args[j]) \in 0 .. TASK_ARG_LEN - 1
    <3>1. args[j] \in Nat
      BY <1>1, <1>4
    <3>2. j \in ok <=> access_ok(heap, task[t], base + args[j], TASK_ARG_LEN)
      BY Zenon
    <3> QED
      BY <1>6, <3>1, <3>2, Zenon
  <2> HIDE DEF ok
  <2>2. Len(args) \in Nat /\ Len(args) = N
    BY <1>3, <1>4
  <2> QED
    BY <1>8, <2>1, <2>2, AllCopied, Zenon
<1>10. w.success <=> \A k \in 1 .. N : Readable(t, Mapped(t), base + args[k], TASK_ARG_LEN)
  <2>1. w.success <=> \A j \in 1 .. N : j \in ok
    BY <1>9, Zenon DEF Copied
  <2> QED
    BY <1>7, <2>1, Zenon
<1>11. ASSUME w.success PROVE [k \in DOMAIN w.argv |-> SeenArg(w, k)] = meant
  <2>1. w.argv \in Seq(Nat) /\ Len(w.argv) = N /\ \A j \in 1 .. N : ArgCopied(w, buf, args, j)
    BY <1>9, <1>11, Zenon DEF Copied
  <2>2. DOMAIN w.argv = 1 .. N
    BY <1>4, <2>1
  <2>3. ASSUME NEW k \in 1 .. N PROVE SeenArg(w, k) = meant[k]
    <3>1. ArgCopied(w, SplitBuf(line), args, k) /\ IsStart(line, args[k])
      BY <1>2, <1>4, <2>1
    <3>2. SeenArg(w, k) = SubSeq(line, args[k] + 1, args[k] + WordLen(line, args[k])) \o <<NUL>>
      BY <1>1, <3>1, ArgIsSeen, Zenon
    <3> QED
      BY <1>5, <3>2
  <2>4. meant = [k \in 1 .. N |-> meant[k]]
    <3>1. meant = [k \in 1 .. Cardinality(Words(line)) |-> meant[k]]
      BY <1>2 DEF Meant
    <3>2. 1 .. Cardinality(Words(line)) = 1 .. N
      BY <1>5, <3>1
    <3> QED
      BY <3>1, <3>2
  <2> QED
    BY <2>2, <2>3, <2>4
<1> QED
  BY <1>2, <1>4, <1>8, <1>10, <1>11, Zenon DEF Passed

(* The arguments of a line reach the program, for every length of a line     *)
(* and of the copies that fits a page, wherever on its page the line is, and *)
(* in every address space that spawns and reaps lead to.                     *)
THEOREM ArgumentsArePassed == Spec => []ArgsArePassed
<1>1. MemInvariant => ArgsArePassed
  <2>1. ASSUME MemInvariant, ~Panicked, NEW t \in Live, NEW line \in Line, NEW off \in BUF_OFFSETS,
               \A k \in DOMAIN Meant(line) : k < MAX_ARGS /\ Len(Meant(line)[k]) <= TASK_ARG_LEN
        PROVE  Passed(t, line, off)
    BY <2>1, LineIsPassed
  <2> QED
    BY <2>1, Zenon DEF ArgsArePassed, Passed
<1> QED
  BY <1>1, Invariance, PTL
=============================================================================
