---------------------------- MODULE DisplayProofs ----------------------------
(***************************************************************************)
(* Machine-checked proofs about Display, for any size of the screen, any    *)
(* number of displays and any output.                                       *)
(***************************************************************************)
EXTENDS Display, SequenceTheorems, WellFoundedInduction, TLAPS

(* A display, and its paper. *)
State == [textbuf : [Cell -> Glyph], cursor : Nat, is_dirty : BOOLEAN,
          needs_full_repaint : BOOLEAN, last_clean_line : Nat]
Paper == [cells : Seq(Glyph), pos : Nat, top : Nat]

(* The cells above the status line. *)
Above == textwidth * (textheight - 1)

(* The text of t is that of s, n lines higher. *)
MovedUp(s, n, t) ==
  \A i \in Cell : t.textbuf[i] = IF i + n * textwidth \in Cell THEN s.textbuf[i + n * textwidth]
                                                              ELSE "NUL"

(* The text of a display is the window on its paper. *)
IsTail(s, p) ==
  /\ s.cursor + p.top * textwidth = p.pos
  /\ \A i \in Cell : s.textbuf[i] = At(p, i + p.top * textwidth)
  /\ Len(p.cells) <= p.top * textwidth + Above

(* Nothing is ever stored on the status line. *)
StatusIsFree(s) == \A i \in Cell : i >= Above => s.textbuf[i] = "NUL"

-----------------------------------------------------------------------------
(* Induction over an interval, from the least counterexample.                *)

LEMMA Least ==
  ASSUME NEW T, T \subseteq Nat, T # {}
  PROVE  \E x \in T : \A y \in T : x <= y
<1>1. PICK R : R = OpToRel(<, Nat)
  OBVIOUS
<1>2. IsWellFoundedOn(R, Nat)
  BY <1>1, NatLessThanWellFounded, Zenon
<1>3. \A a \in Nat, b \in Nat : a < b => <<a, b>> \in R
  BY <1>1 DEF OpToRel
<1>4. PICK x \in T : \A y \in T : ~ (<<y, x>> \in R)
  BY <1>2, WFMin
<1>5. ASSUME NEW y \in T PROVE x <= y
  <2>1. x \in Nat /\ y \in Nat /\ ~ (<<y, x>> \in R)
    BY <1>4
  <2>2. ~ (y < x)
    BY <1>3, <2>1, Zenon
  <2> QED
    BY <2>1, <2>2
<1> QED
  BY <1>5

LEMMA Induction ==
  ASSUME NEW P, NEW n \in Nat, 0 \in P, \A k \in 0 .. n - 1 : k \in P => k + 1 \in P
  PROVE  \A k \in 0 .. n : k \in P
<1> SUFFICES ASSUME NEW k \in 0 .. n, k \notin P PROVE FALSE
  OBVIOUS
<1> DEFINE T == {i \in 0 .. n : i \notin P}
<1>1. PICK x \in T : \A y \in T : x <= y
  <2>1. T \subseteq Nat /\ T # {}
    OBVIOUS
  <2> HIDE DEF T
  <2> QED
    BY <2>1, Least
<1>2. x # 0 /\ x - 1 \in 0 .. n - 1 /\ x - 1 \in P
  BY <1>1
<1> QED
  BY <1>1, <1>2

-----------------------------------------------------------------------------
(* Lines and cells. *)

LEMMA Times ==
  ASSUME NEW a \in Nat, NEW b \in Nat, NEW w \in Nat
  PROVE  /\ a * w \in Nat /\ (a + b) * w = a * w + b * w
         /\ a <= b => a * w <= b * w
         /\ w * a = a * w
OBVIOUS

LEMMA LineBounds ==
  ASSUME NEW i \in Nat
  PROVE  /\ Line(i) \in Nat
         /\ Line(i) * textwidth <= i /\ i < Line(i) * textwidth + textwidth
         /\ i % textwidth = i - Line(i) * textwidth
BY DisplayAssumption DEF DisplayAssumption, Line

LEMMA LineBelow ==
  ASSUME NEW i \in Nat, NEW k \in Nat
  PROVE  Line(i) < k <=> i < k * textwidth
<1>0. textwidth \in Nat /\ textwidth > 0
  BY DisplayAssumption DEF DisplayAssumption
<1>1. PICK l : l = Line(i)
  OBVIOUS
<1>2. l \in Nat /\ l * textwidth <= i /\ i < l * textwidth + textwidth
  BY <1>1, LineBounds
<1>3. l * textwidth \in Nat /\ k * textwidth \in Nat
  BY <1>0, <1>2, Times
<1>4. CASE l < k
  <2>1. (l + 1) * textwidth = l * textwidth + 1 * textwidth /\ 1 * textwidth = textwidth
    BY <1>0, <1>2, Times
  <2>2. (l + 1) * textwidth <= k * textwidth
    BY <1>0, <1>2, <1>4, Times
  <2> QED
    BY <1>0, <1>1, <1>2, <1>3, <1>4, <2>1, <2>2
<1>5. CASE ~(l < k)
  <2>1. k * textwidth <= l * textwidth
    BY <1>0, <1>2, <1>5, Times
  <2> QED
    BY <1>0, <1>1, <1>2, <1>3, <1>5, <2>1
<1> QED
  BY <1>4, <1>5

LEMMA LineMoved ==
  ASSUME NEW i \in Nat, NEW k \in Nat
  PROVE  Line(i + k * textwidth) = Line(i) + k
<1>0. textwidth \in Nat /\ textwidth > 0
  BY DisplayAssumption DEF DisplayAssumption
<1>1. PICK l, m : l = Line(i) /\ m = k * textwidth
  OBVIOUS
<1>2. /\ l \in Nat /\ l * textwidth <= i /\ i < l * textwidth + textwidth
      /\ m \in Nat /\ l * textwidth \in Nat
  BY <1>0, <1>1, LineBounds, Times
<1>3. /\ (l + k) * textwidth = l * textwidth + m
      /\ (l + k + 1) * textwidth = l * textwidth + m + textwidth
  BY <1>0, <1>1, <1>2, Times
<1>4. ~(i + m < (l + k) * textwidth) /\ i + m < (l + k + 1) * textwidth
  BY <1>0, <1>2, <1>3
<1>5. ~(Line(i + m) < l + k) /\ Line(i + m) < l + k + 1
  BY <1>2, <1>4, LineBelow
<1>6. Line(i + m) \in Nat
  BY <1>2, LineBounds
<1> QED
  BY <1>1, <1>2, <1>5, <1>6

-----------------------------------------------------------------------------
(* display_scroll_up *)

LEMMA Sizes ==
  /\ textwidth \in Nat /\ textwidth > 0 /\ textheight \in Nat /\ textheight >= 2
  /\ Above \in Nat /\ textwidth * textheight = Above + textwidth /\ Cell = 0 .. Above + textwidth - 1
  /\ Above = (textheight - 1) * textwidth
<1>1. textwidth \in Nat /\ textwidth > 0 /\ textheight \in Nat /\ textheight >= 2
  BY DisplayAssumption DEF DisplayAssumption
<1>2. PICK k \in Nat : k + 1 = textheight
  <2>1. textheight - 1 \in Nat /\ (textheight - 1) + 1 = textheight
    BY <1>1
  <2> QED
    BY <2>1
<1>3. k * textwidth \in Nat /\ (k + 1) * textwidth = k * textwidth + textwidth
  BY <1>1, <1>2, Times
<1>4. textheight - 1 = k
  BY <1>1, <1>2
<1>5. Above = k * textwidth /\ textwidth * textheight = k * textwidth + textwidth
  BY <1>1, <1>2, <1>3, <1>4 DEF Above
<1> QED
  BY <1>1, <1>3, <1>4, <1>5 DEF Cell

(* The same without products. *)
LEMMA Dims ==
  /\ textwidth \in Nat /\ textwidth > 0 /\ textheight \in Nat /\ textheight >= 2
  /\ Above \in Nat /\ Cell = 0 .. Above + textwidth - 1
BY Sizes

LEMMA ScrollUp ==
  ASSUME NEW s \in State, StatusIsFree(s), s.cursor >= textwidth, NEW t, t = display_scroll_up(s)
  PROVE  /\ t \in State /\ StatusIsFree(t)
         /\ t.cursor = s.cursor - textwidth
         /\ t.is_dirty = s.is_dirty /\ t.needs_full_repaint = s.needs_full_repaint
         /\ t.last_clean_line = 0
         /\ \A i \in Cell : t.textbuf[i] = IF i < Above THEN s.textbuf[i + textwidth] ELSE "NUL"
<1> DEFINE buf == [i \in Cell |-> IF i < textwidth * (textheight - 1) THEN s.textbuf[i + textwidth]
                                   ELSE s.textbuf[i]]
<1>1. /\ DOMAIN s = {"textbuf", "cursor", "is_dirty", "needs_full_repaint", "last_clean_line"}
      /\ s.textbuf \in [Cell -> Glyph] /\ s.cursor \in Nat /\ s.is_dirty \in BOOLEAN
      /\ s.needs_full_repaint \in BOOLEAN /\ s.last_clean_line \in Nat
  BY DEF State
<1>2. t = [s EXCEPT !.textbuf = buf, !.cursor = s.cursor - textwidth, !.last_clean_line = 0]
  BY Zenon DEF display_scroll_up
<1>3. /\ buf \in [Cell -> Glyph]
      /\ \A i \in Cell : buf[i] = IF i < Above THEN s.textbuf[i + textwidth] ELSE "NUL"
  <2>1. \A i \in Cell : i < Above => i + textwidth \in Cell
    BY Sizes
  <2>2. \A i \in Cell : ~(i < Above) => i >= Above
    BY Sizes
  <2>3. \A i \in Cell : buf[i] = IF i < Above THEN s.textbuf[i + textwidth] ELSE s.textbuf[i]
    BY Zenon DEF Above
  <2>4. \A i \in Cell : ~(i < Above) => s.textbuf[i] = "NUL"
    BY <2>2, Zenon DEF StatusIsFree
  <2>5. \A i \in Cell : buf[i] \in Glyph
    BY <1>1, <2>1, <2>3, Zenon
  <2> QED
    BY <2>3, <2>4, <2>5, Zenon
<1> HIDE DEF buf
<1>4. /\ t.textbuf = buf /\ t.cursor = s.cursor - textwidth /\ t.last_clean_line = 0
      /\ t.is_dirty = s.is_dirty /\ t.needs_full_repaint = s.needs_full_repaint
      /\ t = [textbuf |-> t.textbuf, cursor |-> t.cursor, is_dirty |-> t.is_dirty,
              needs_full_repaint |-> t.needs_full_repaint, last_clean_line |-> t.last_clean_line]
  BY <1>1, <1>2
<1>5. t.cursor \in Nat /\ 0 \in Nat
  BY <1>1, <1>4, Sizes
<1>6. t \in State
  BY <1>1, <1>3, <1>4, <1>5, Zenon DEF State
<1>7. StatusIsFree(t)
  BY <1>3, <1>4, Sizes DEF StatusIsFree
<1> QED
  BY <1>3, <1>4, <1>6, <1>7, Zenon

(* The loop before the store: it defines a function of the iteration.         *)
LEMMA ScrollLoop ==
  ASSUME NEW s, NEW n \in Nat, n = LinesBelow(s)
  PROVE  \E up : /\ up = [k \in 0 .. n |-> IF k = 0 THEN s ELSE display_scroll_up(up[k - 1])]
                 /\ Scrolled(s) = up[n]
<1> DEFINE P == {k \in 0 .. n : \E f : f = [i \in 0 .. k |-> IF i = 0 THEN s
                                                             ELSE display_scroll_up(f[i - 1])]}
<1>1. 0 \in P
  <2> DEFINE g == [i \in 0 .. 0 |-> s]
  <2>1. \A i \in 0 .. 0 : i = 0
    OBVIOUS
  <2>2. g = [i \in 0 .. 0 |-> IF i = 0 THEN s ELSE display_scroll_up(g[i - 1])]
    BY <2>1, Zenon
  <2>3. 0 \in 0 .. n
    OBVIOUS
  <2> HIDE DEF g
  <2> QED
    BY <2>2, <2>3
<1>2. ASSUME NEW k \in 0 .. n - 1, k \in P PROVE k + 1 \in P
  <2>1. PICK f : f = [i \in 0 .. k |-> IF i = 0 THEN s ELSE display_scroll_up(f[i - 1])]
    BY <1>2
  <2> DEFINE g == [i \in 0 .. k + 1 |-> IF i = k + 1 THEN display_scroll_up(f[k]) ELSE f[i]]
  <2>2. ASSUME NEW i \in 0 .. k + 1
        PROVE  g[i] = IF i = 0 THEN s ELSE display_scroll_up(g[i - 1])
    <3>1. CASE i = 0
      <4>1. 0 \in 0 .. k /\ i # k + 1
        BY <1>2, <3>1
      <4>2. f[0] = s
        BY <2>1, <4>1
      <4> QED
        BY <3>1, <4>1, <4>2
    <3>2. CASE i = k + 1
      <4>1. i - 1 = k /\ k \in 0 .. k + 1 /\ k # k + 1 /\ i # 0
        BY <1>2, <3>2
      <4>2. g[k] = f[k]
        BY <4>1
      <4> QED
        BY <3>2, <4>1, <4>2
    <3>3. CASE i # 0 /\ i # k + 1
      <4>1. i \in 0 .. k /\ i - 1 \in 0 .. k + 1 /\ i - 1 # k + 1
        BY <1>2, <3>3
      <4>2. g[i - 1] = f[i - 1] /\ g[i] = f[i]
        BY <3>3, <4>1
      <4>3. f[i] = display_scroll_up(f[i - 1])
        BY <2>1, <3>3, <4>1
      <4> QED
        BY <3>3, <4>2, <4>3
    <3> QED
      BY <3>1, <3>2, <3>3
  <2>3. g = [i \in 0 .. k + 1 |-> IF i = 0 THEN s ELSE display_scroll_up(g[i - 1])]
    BY <2>2, Zenon
  <2>4. k + 1 \in 0 .. n
    BY <1>2
  <2> HIDE DEF g
  <2> QED
    BY <2>3, <2>4
<1>3. n \in P
  <2> HIDE DEF P
  <2>1. \A k \in 0 .. n : k \in P
    BY <1>1, <1>2, Induction
  <2> QED
    BY <2>1
<1>4. PICK f : f = [i \in 0 .. n |-> IF i = 0 THEN s ELSE display_scroll_up(f[i - 1])]
  BY <1>3
<1> DEFINE up[i \in 0 .. n] == IF i = 0 THEN s ELSE display_scroll_up(up[i - 1])
<1>5. up = [i \in 0 .. n |-> IF i = 0 THEN s ELSE display_scroll_up(up[i - 1])]
  BY <1>4, Zenon
<1>6. Scrolled(s) = up[n]
  BY Zenon DEF Scrolled
<1> HIDE DEF up
<1> QED
  BY <1>5, <1>6

(* What scrolling leaves.                                                     *)
LEMMA Scrolls ==
  ASSUME NEW s \in State, StatusIsFree(s), NEW n, n = LinesBelow(s), NEW t, t = Scrolled(s)
  PROVE  /\ n \in Nat /\ n * textwidth \in Nat /\ n * textwidth <= s.cursor
         /\ t \in State /\ StatusIsFree(t) /\ MovedUp(s, n, t)
         /\ t.cursor = s.cursor - n * textwidth /\ t.cursor \in 0 .. Above - 1
         /\ t.is_dirty = s.is_dirty /\ t.needs_full_repaint = s.needs_full_repaint
         /\ t.last_clean_line = IF n = 0 THEN s.last_clean_line ELSE 0
<1>1. PICK l : l = Line(s.cursor)
  OBVIOUS
<1>2. s.cursor \in Nat /\ s.last_clean_line \in Nat /\ s.textbuf \in [Cell -> Glyph]
  BY DEF State
<1>3. l \in Nat /\ l * textwidth <= s.cursor /\ s.cursor < l * textwidth + textwidth
  BY <1>1, <1>2, LineBounds
<1>4. n = IF l >= textheight - 1 THEN l - (textheight - 2) ELSE 0
  BY <1>1, Zenon DEF LinesBelow
<1>5. n \in Nat /\ n <= l /\ l - n \in Nat /\ l - n + 1 <= textheight - 1
  BY <1>3, <1>4, Sizes
<1>6. \A k \in 0 .. n : k * textwidth \in Nat /\ k * textwidth <= s.cursor
  <2> SUFFICES ASSUME NEW k \in 0 .. n PROVE k * textwidth \in Nat /\ k * textwidth <= s.cursor
    OBVIOUS
  <2>1. k \in Nat /\ k <= l
    BY <1>3, <1>5
  <2>2. k * textwidth \in Nat /\ k * textwidth <= l * textwidth /\ l * textwidth \in Nat
    BY <1>3, <2>1, Times, Sizes
  <2> QED
    BY <1>2, <1>3, <2>2
<1>7. PICK up : /\ up = [k \in 0 .. n |-> IF k = 0 THEN s ELSE display_scroll_up(up[k - 1])]
                /\ t = up[n]
  BY <1>5, ScrollLoop
<1> DEFINE Good(k) ==
      /\ up[k] \in State /\ StatusIsFree(up[k]) /\ MovedUp(s, k, up[k])
      /\ up[k].cursor = s.cursor - k * textwidth
      /\ up[k].is_dirty = s.is_dirty /\ up[k].needs_full_repaint = s.needs_full_repaint
      /\ up[k].last_clean_line = IF k = 0 THEN s.last_clean_line ELSE 0
    P == {k \in 0 .. n : Good(k)}
<1>8. 0 \in P
  <2>1. up[0] = s
    BY <1>5, <1>7
  <2>2. 0 * textwidth = 0
    BY Sizes
  <2>3. MovedUp(s, 0, s)
    <3>1. \A i \in Cell : i + 0 * textwidth = i
      BY <2>2, Sizes
    <3> QED
      BY <3>1, Zenon DEF MovedUp
  <2>4. s.cursor - 0 * textwidth = s.cursor /\ 0 \in 0 .. n
    BY <1>2, <1>5, <2>2
  <2> QED
    BY <2>1, <2>3, <2>4, Zenon
<1>9. ASSUME NEW k \in 0 .. n - 1, k \in P PROVE k + 1 \in P
  <2>1. Good(k)
    BY <1>9, Zenon
  <2> HIDE DEF P
  <2>2. up[k + 1] = display_scroll_up(up[k])
    <3>1. k + 1 \in 0 .. n /\ k + 1 # 0 /\ (k + 1) - 1 = k
      BY <1>5
    <3> QED
      BY <1>7, <3>1
  <2>3. /\ (k + 1) * textwidth = k * textwidth + textwidth /\ k * textwidth \in Nat
        /\ (k + 1) * textwidth <= s.cursor
    <3>1. k \in Nat /\ k + 1 \in 0 .. n /\ 1 * textwidth = textwidth
      BY <1>5, Sizes
    <3> QED
      BY <1>6, <3>1, Times, Sizes
  <2>4. up[k].cursor >= textwidth
    BY <1>2, <2>1, <2>3, Sizes
  <2>5. PICK a, b : a = up[k] /\ b = up[k + 1]
    OBVIOUS
  <2>6. /\ b \in State /\ StatusIsFree(b)
        /\ b.cursor = a.cursor - textwidth
        /\ b.is_dirty = a.is_dirty /\ b.needs_full_repaint = a.needs_full_repaint
        /\ b.last_clean_line = 0
        /\ \A i \in Cell : b.textbuf[i] = IF i < Above THEN a.textbuf[i + textwidth] ELSE "NUL"
    BY <2>1, <2>2, <2>4, <2>5, ScrollUp
  <2>7. MovedUp(s, k + 1, b)
    <3> SUFFICES ASSUME NEW i \in Cell
                 PROVE  b.textbuf[i] = IF i + (k + 1) * textwidth \in Cell
                                         THEN s.textbuf[i + (k + 1) * textwidth] ELSE "NUL"
      BY DEF MovedUp
    <3>1. i + (k + 1) * textwidth = (i + textwidth) + k * textwidth
      BY <2>3, Sizes
    <3>2. CASE i < Above
      <4>1. i + textwidth \in Cell /\ b.textbuf[i] = a.textbuf[i + textwidth]
        BY <2>6, <3>2, Sizes
      <4>2. MovedUp(s, k, a)
        BY <2>1, <2>5
      <4> QED
        BY <3>1, <4>1, <4>2, Zenon DEF MovedUp
    <3>3. CASE ~(i < Above)
      <4>1. i + (k + 1) * textwidth \notin Cell
        BY <2>3, <3>3, Sizes
      <4> QED
        BY <2>6, <3>3, <4>1
    <3> QED
      BY <3>2, <3>3
  <2>8. b.cursor = s.cursor - (k + 1) * textwidth
    BY <1>2, <2>1, <2>3, <2>5, <2>6, Sizes
  <2>9. k + 1 \in 0 .. n /\ k + 1 # 0
    BY <1>5
  <2>10. b.is_dirty = s.is_dirty /\ b.needs_full_repaint = s.needs_full_repaint
    BY <2>1, <2>5, <2>6, Zenon
  <2> QED
    BY <2>5, <2>6, <2>7, <2>8, <2>9, <2>10, Zenon DEF P
<1>10. Good(n)
  <2>1. n \in P
    <3> HIDE DEF P
    <3>1. \A k \in 0 .. n : k \in P
      BY <1>5, <1>8, <1>9, Induction
    <3> QED
      BY <1>5, <3>1
  <2> QED
    BY <2>1, Zenon
<1>11. t.cursor \in 0 .. Above - 1
  <2>1. n * textwidth \in Nat /\ n * textwidth <= s.cursor
    BY <1>5, <1>6
  <2>2. PICK m : m = l - n
    OBVIOUS
  <2>3. m \in Nat /\ m + n = l /\ m + 1 <= textheight - 1 /\ textheight - 1 \in Nat
    BY <1>3, <1>5, <2>2, Sizes
  <2>4. l * textwidth = m * textwidth + n * textwidth
    BY <1>5, <2>3, Times, Sizes
  <2>5. (m + 1) * textwidth = m * textwidth + textwidth /\ m * textwidth \in Nat
    <3>1. 1 * textwidth = textwidth
      BY Sizes
    <3> QED
      BY <2>3, <3>1, Times, Sizes
  <2>6. (m + 1) * textwidth <= Above
    BY <2>3, Times, Sizes
  <2>7. t.cursor = s.cursor - n * textwidth
    BY <1>7, <1>10
  <2> QED
    BY <1>2, <1>3, <2>1, <2>4, <2>5, <2>6, <2>7, Sizes
<1>12. n * textwidth \in Nat /\ n * textwidth <= s.cursor
  BY <1>5, <1>6
<1> QED
  BY <1>5, <1>7, <1>10, <1>11, <1>12, Zenon

-----------------------------------------------------------------------------
(* display_putc *)

(* The fields of a display, and what an assignment to some of them leaves.    *)
LEMMA Fields ==
  ASSUME NEW s \in State
  PROVE  /\ DOMAIN s = {"textbuf", "cursor", "is_dirty", "needs_full_repaint", "last_clean_line"}
         /\ s.textbuf \in [Cell -> Glyph] /\ s.cursor \in Nat /\ s.is_dirty \in BOOLEAN
         /\ s.needs_full_repaint \in BOOLEAN /\ s.last_clean_line \in Nat
BY DEF State

LEMMA MarkFacts ==
  ASSUME NEW s \in State, NEW m, m = Mark(s)
  PROVE  /\ m \in State /\ m.textbuf = s.textbuf /\ m.cursor = s.cursor
         /\ m.is_dirty = TRUE /\ m.needs_full_repaint = s.needs_full_repaint
         /\ m.last_clean_line = IF s.is_dirty THEN s.last_clean_line ELSE Line(s.cursor)
<1>1. /\ DOMAIN s = {"textbuf", "cursor", "is_dirty", "needs_full_repaint", "last_clean_line"}
      /\ s.textbuf \in [Cell -> Glyph] /\ s.cursor \in Nat /\ s.is_dirty \in BOOLEAN
      /\ s.needs_full_repaint \in BOOLEAN /\ s.last_clean_line \in Nat
  BY Fields
<1>2. PICK l : l = IF s.is_dirty THEN s.last_clean_line ELSE Line(s.cursor)
  OBVIOUS
<1>3. l \in Nat
  BY <1>1, <1>2, LineBounds
<1>4. m = [s EXCEPT !.last_clean_line = l, !.is_dirty = TRUE]
  BY <1>2, Zenon DEF Mark
<1>5. /\ m.textbuf = s.textbuf /\ m.cursor = s.cursor /\ m.last_clean_line = l
      /\ m.is_dirty = TRUE /\ m.needs_full_repaint = s.needs_full_repaint
      /\ m = [textbuf |-> m.textbuf, cursor |-> m.cursor, is_dirty |-> m.is_dirty,
              needs_full_repaint |-> m.needs_full_repaint, last_clean_line |-> m.last_clean_line]
  BY <1>1, <1>4
<1>6. m \in State
  BY <1>1, <1>3, <1>5, Zenon DEF State
<1> QED
  BY <1>2, <1>5, <1>6, Zenon

LEMMA BackspaceFacts ==
  ASSUME NEW s \in State, NEW t, t = Backspace(s)
  PROVE  /\ t \in State /\ t.textbuf = s.textbuf
         /\ t.cursor = IF s.cursor > 0 THEN s.cursor - 1 ELSE 0
         /\ t.is_dirty = s.is_dirty /\ t.needs_full_repaint = s.needs_full_repaint
         /\ t.last_clean_line = s.last_clean_line
<1>1. /\ DOMAIN s = {"textbuf", "cursor", "is_dirty", "needs_full_repaint", "last_clean_line"}
      /\ s.textbuf \in [Cell -> Glyph] /\ s.cursor \in Nat /\ s.is_dirty \in BOOLEAN
      /\ s.needs_full_repaint \in BOOLEAN /\ s.last_clean_line \in Nat
  BY Fields
<1>2. PICK k : k = IF s.cursor > 0 THEN s.cursor - 1 ELSE 0
  OBVIOUS
<1>3. k \in Nat
  BY <1>1, <1>2
<1>4. t = [s EXCEPT !.cursor = k]
  BY <1>2, Zenon DEF Backspace
<1>5. /\ t.textbuf = s.textbuf /\ t.cursor = k /\ t.last_clean_line = s.last_clean_line
      /\ t.is_dirty = s.is_dirty /\ t.needs_full_repaint = s.needs_full_repaint
      /\ t = [textbuf |-> t.textbuf, cursor |-> t.cursor, is_dirty |-> t.is_dirty,
              needs_full_repaint |-> t.needs_full_repaint, last_clean_line |-> t.last_clean_line]
  BY <1>1, <1>4
<1>6. t \in State
  BY <1>1, <1>3, <1>5, Zenon DEF State
<1> QED
  BY <1>2, <1>5, <1>6, Zenon

LEMMA NewlineFacts ==
  ASSUME NEW s \in State, NEW t, t = Newline(s)
  PROVE  /\ t \in State /\ t.textbuf = s.textbuf
         /\ t.cursor = Line(s.cursor) * textwidth + textwidth
         /\ t.is_dirty = s.is_dirty /\ t.needs_full_repaint = s.needs_full_repaint
         /\ t.last_clean_line = s.last_clean_line
<1>1. /\ DOMAIN s = {"textbuf", "cursor", "is_dirty", "needs_full_repaint", "last_clean_line"}
      /\ s.textbuf \in [Cell -> Glyph] /\ s.cursor \in Nat /\ s.is_dirty \in BOOLEAN
      /\ s.needs_full_repaint \in BOOLEAN /\ s.last_clean_line \in Nat
  BY Fields
<1>2. PICK k, l : k = textwidth * (1 + Line(s.cursor)) /\ l = Line(s.cursor)
  OBVIOUS
<1>3. k \in Nat /\ k = l * textwidth + textwidth
  <2>1. l \in Nat /\ 1 * textwidth = textwidth
    BY <1>1, <1>2, LineBounds, Sizes
  <2>2. /\ textwidth * (1 + l) = (1 + l) * textwidth /\ l * textwidth \in Nat
        /\ (1 + l) * textwidth = 1 * textwidth + l * textwidth
    BY <2>1, Times, Sizes
  <2> QED
    BY <1>2, <2>1, <2>2, Sizes
<1>4. t = [s EXCEPT !.cursor = k]
  BY <1>2, Zenon DEF Newline
<1>5. /\ t.textbuf = s.textbuf /\ t.cursor = k /\ t.last_clean_line = s.last_clean_line
      /\ t.is_dirty = s.is_dirty /\ t.needs_full_repaint = s.needs_full_repaint
      /\ t = [textbuf |-> t.textbuf, cursor |-> t.cursor, is_dirty |-> t.is_dirty,
              needs_full_repaint |-> t.needs_full_repaint, last_clean_line |-> t.last_clean_line]
  BY <1>1, <1>4
<1>6. t \in State
  BY <1>1, <1>3, <1>5, Zenon DEF State
<1> QED
  BY <1>2, <1>3, <1>5, <1>6, Zenon

(* A character is stored above the status line, and the rest of the text is   *)
(* where it was, or moved up.                                                 *)
LEMMA StoreFacts ==
  ASSUME NEW s \in State, StatusIsFree(s), NEW c \in PRINTING, NEW n, n = LinesBelow(s),
         NEW t, t = StoreChar(s, c), NEW u, u = Scrolled(s)
  PROVE  /\ u.cursor \in 0 .. Above - 1 /\ MovedUp(s, n, u)
         /\ t \in State /\ StatusIsFree(t)
         /\ t.textbuf = [u.textbuf EXCEPT ![u.cursor] = c] /\ t.cursor = u.cursor + 1
         /\ n \in Nat /\ n * textwidth \in Nat /\ u.cursor + n * textwidth = s.cursor
         /\ t.is_dirty = s.is_dirty /\ t.needs_full_repaint = s.needs_full_repaint
         /\ t.last_clean_line = IF n = 0 THEN s.last_clean_line ELSE 0
<1>1. /\ n \in Nat /\ n * textwidth \in Nat /\ n * textwidth <= s.cursor
      /\ u \in State /\ StatusIsFree(u) /\ MovedUp(s, n, u)
      /\ u.cursor = s.cursor - n * textwidth /\ u.cursor \in 0 .. Above - 1
      /\ u.is_dirty = s.is_dirty /\ u.needs_full_repaint = s.needs_full_repaint
      /\ u.last_clean_line = IF n = 0 THEN s.last_clean_line ELSE 0
  BY Scrolls
<1>2. /\ DOMAIN u = {"textbuf", "cursor", "is_dirty", "needs_full_repaint", "last_clean_line"}
      /\ u.textbuf \in [Cell -> Glyph] /\ u.cursor \in Nat /\ u.is_dirty \in BOOLEAN
      /\ u.needs_full_repaint \in BOOLEAN /\ u.last_clean_line \in Nat /\ s.cursor \in Nat
  BY <1>1, Fields
<1>3. PICK buf : buf = [u.textbuf EXCEPT ![u.cursor] = c]
  OBVIOUS
<1>4. u.cursor \in Cell /\ c \in Glyph
  BY <1>1, Sizes DEF Glyph
<1>5. buf \in [Cell -> Glyph] /\ \A i \in Cell : i >= Above => buf[i] = u.textbuf[i]
  <2>1. \A i \in Cell : i >= Above => i # u.cursor
    BY <1>1, Sizes
  <2> QED
    BY <1>2, <1>3, <1>4, <2>1, Zenon
<1>6. t = [u EXCEPT !.textbuf = buf, !.cursor = u.cursor + 1]
  BY <1>3, Zenon DEF StoreChar
<1>7. /\ t.textbuf = buf /\ t.cursor = u.cursor + 1 /\ t.last_clean_line = u.last_clean_line
      /\ t.is_dirty = u.is_dirty /\ t.needs_full_repaint = u.needs_full_repaint
      /\ t = [textbuf |-> t.textbuf, cursor |-> t.cursor, is_dirty |-> t.is_dirty,
              needs_full_repaint |-> t.needs_full_repaint, last_clean_line |-> t.last_clean_line]
  BY <1>2, <1>6
<1>8. t.cursor \in Nat
  BY <1>2, <1>7
<1>9. t \in State
  BY <1>2, <1>5, <1>7, <1>8, Zenon DEF State
<1>10. StatusIsFree(t)
  BY <1>1, <1>5, <1>7, Zenon DEF StatusIsFree
<1>11. u.cursor + n * textwidth = s.cursor
  BY <1>1, <1>2
<1> QED
  BY <1>1, <1>3, <1>7, <1>9, <1>10, <1>11, Zenon

LEMMA PutcCases ==
  ASSUME NEW s, NEW c
  PROVE  /\ c \in {"CR", "NUL"} => PutcTo(s, c) = s
         /\ c = "BS" => PutcTo(s, c) = Backspace(Mark(s))
         /\ c = "LF" => PutcTo(s, c) = Newline(Mark(s))
         /\ c \in PRINTING => PutcTo(s, c) = StoreChar(Mark(s), c)
<1>1. c \in PRINTING => c # "NUL" /\ c # "BS" /\ c # "LF" /\ c # "CR"
  BY DisplayAssumption DEF DisplayAssumption
<1>2. "BS" # "CR" /\ "BS" # "NUL" /\ "LF" # "CR" /\ "LF" # "NUL" /\ "LF" # "BS"
  OBVIOUS
<1>3. c \in {"CR", "NUL"} => c # "BS" /\ c # "LF" /\ c \notin PRINTING
  BY <1>1
<1>4. c = "BS" => c \notin {"CR", "NUL"} /\ c # "LF" /\ c \notin PRINTING
  BY <1>1
<1>5. c = "LF" => c \notin {"CR", "NUL"} /\ c # "BS" /\ c \notin PRINTING
  BY <1>1
<1>6. c \in PRINTING => c \notin {"CR", "NUL"} /\ c # "BS" /\ c # "LF"
  BY <1>1
<1>7. c \in {"CR", "NUL"} => PutcTo(s, c) = s
  BY <1>3, Zenon DEF PutcTo
<1>8. c = "BS" => PutcTo(s, c) = Backspace(Mark(s))
  BY <1>4, Zenon DEF PutcTo
<1>9. c = "LF" => PutcTo(s, c) = Newline(Mark(s))
  BY <1>5, Zenon DEF PutcTo
<1>10. c \in PRINTING => PutcTo(s, c) = StoreChar(Mark(s), c)
  BY <1>6, Zenon DEF PutcTo
<1> QED
  BY <1>7, <1>8, <1>9, <1>10

-----------------------------------------------------------------------------
(* The text on paper. *)

LEMMA AFunctionIsASeq ==
  ASSUME NEW S, NEW n \in Nat, NEW f \in [1 .. n -> S]
  PROVE  f \in Seq(S) /\ Len(f) = n
<1>1. f \in Seq(S)
  BY SeqDef
<1>2. DOMAIN f = 1 .. n /\ DOMAIN f = 1 .. Len(f) /\ Len(f) \in Nat
  BY <1>1, LenProperties
<1>3. Len(f) = n
  <2>1. 1 .. Len(f) = 1 .. n
    BY <1>2
  <2>2. CASE Len(f) < n
    <3>1. n \in 1 .. n /\ n \notin 1 .. Len(f)
      BY <1>2, <2>2
    <3> QED
      BY <2>1, <3>1
  <2>3. CASE n < Len(f)
    <3>1. Len(f) \in 1 .. Len(f) /\ Len(f) \notin 1 .. n
      BY <1>2, <2>3
    <3> QED
      BY <2>1, <3>1
  <2> QED
    BY <1>2, <2>2, <2>3
<1> QED
  BY <1>1, <1>3

LEMMA PaperFields ==
  ASSUME NEW p \in Paper
  PROVE  /\ DOMAIN p = {"cells", "pos", "top"}
         /\ p.cells \in Seq(Glyph) /\ p.pos \in Nat /\ p.top \in Nat /\ Len(p.cells) \in Nat
         /\ \A j \in Nat : At(p, j) \in Glyph
<1>1. p.cells \in Seq(Glyph) /\ p.pos \in Nat /\ p.top \in Nat /\ DOMAIN p = {"cells", "pos", "top"}
  BY DEF Paper
<1>2. Len(p.cells) \in Nat
  BY <1>1, LenProperties
<1>3. ASSUME NEW j \in Nat PROVE At(p, j) \in Glyph
  <2>1. CASE j < Len(p.cells)
    <3>1. j + 1 \in 1 .. Len(p.cells)
      BY <1>2, <2>1
    <3>2. p.cells[j + 1] \in Glyph
      BY <1>1, <3>1, ElementOfSeq
    <3> QED
      BY <2>1, <3>2 DEF At
  <2>2. CASE ~(j < Len(p.cells))
    BY <2>2 DEF At, Glyph
  <2> QED
    BY <2>1, <2>2
<1> QED
  BY <1>1, <1>2, <1>3

LEMMA PrintedCases ==
  ASSUME NEW p, NEW c
  PROVE  /\ c = "BS" => Printed(p, c)
                          = [p EXCEPT !.pos = IF @ > p.top * textwidth THEN @ - 1 ELSE @]
         /\ c = "LF" => Printed(p, c) = [p EXCEPT !.pos = (Line(@) + 1) * textwidth]
         /\ c \in PRINTING => Printed(p, c) =
              LET size == IF p.pos < Len(p.cells) THEN Len(p.cells) ELSE p.pos + 1
              IN  [cells |-> [i \in 1 .. size |-> IF i = p.pos + 1 THEN c ELSE At(p, i - 1)],
                   pos |-> p.pos + 1, top |-> TopFor(p, p.pos)]
<1>1. c \in PRINTING => c # "BS" /\ c # "LF"
  BY DisplayAssumption DEF DisplayAssumption
<1>2. c = "LF" => c # "BS"
  OBVIOUS
<1>3. c = "BS" => c # "LF"
  OBVIOUS
<1>4. c = "BS" => Printed(p, c) = [p EXCEPT !.pos = IF @ > p.top * textwidth THEN @ - 1 ELSE @]
  BY <1>3, Zenon DEF Printed
<1>5. c = "LF" => Printed(p, c) = [p EXCEPT !.pos = (Line(@) + 1) * textwidth]
  BY <1>2, Zenon DEF Printed
<1>6. c \in PRINTING => Printed(p, c) =
        LET size == IF p.pos < Len(p.cells) THEN Len(p.cells) ELSE p.pos + 1
        IN  [cells |-> [i \in 1 .. size |-> IF i = p.pos + 1 THEN c ELSE At(p, i - 1)],
             pos |-> p.pos + 1, top |-> TopFor(p, p.pos)]
  BY <1>1, Zenon DEF Printed
<1> QED
  BY <1>4, <1>5, <1>6

(* A character on paper. *)
LEMMA PrintedChar ==
  ASSUME NEW p \in Paper, NEW c \in PRINTING, NEW q, q = Printed(p, c),
         TopFor(p, p.pos) \in Nat
  PROVE  /\ q \in Paper /\ q.pos = p.pos + 1 /\ q.top = TopFor(p, p.pos)
         /\ Len(q.cells) = IF p.pos < Len(p.cells) THEN Len(p.cells) ELSE p.pos + 1
         /\ \A j \in Nat : At(q, j) = IF j = p.pos THEN c ELSE At(p, j)
<1>1. /\ p.cells \in Seq(Glyph) /\ p.pos \in Nat /\ p.top \in Nat /\ Len(p.cells) \in Nat
      /\ \A j \in Nat : At(p, j) \in Glyph
  BY PaperFields
<1>2. PICK size : size = IF p.pos < Len(p.cells) THEN Len(p.cells) ELSE p.pos + 1
  OBVIOUS
<1>3. size \in Nat /\ p.pos < size /\ Len(p.cells) <= size
  BY <1>1, <1>2
<1>4. PICK f : f = [i \in 1 .. size |-> IF i = p.pos + 1 THEN c ELSE At(p, i - 1)]
  OBVIOUS
<1>5. q = [cells |-> f, pos |-> p.pos + 1, top |-> TopFor(p, p.pos)]
  BY <1>2, <1>4, PrintedCases, Zenon
<1>6. f \in [1 .. size -> Glyph]
  <2>1. \A i \in 1 .. size : i - 1 \in Nat
    BY <1>3
  <2>2. c \in Glyph
    BY DEF Glyph
  <2> QED
    BY <1>1, <1>4, <2>1, <2>2, Zenon
<1>7. f \in Seq(Glyph) /\ Len(f) = size
  BY <1>3, <1>6, AFunctionIsASeq
<1>8. q.cells = f /\ q.pos = p.pos + 1 /\ q.top = TopFor(p, p.pos) /\ q.pos \in Nat
  BY <1>1, <1>5
<1>9. q \in Paper
  BY <1>5, <1>7, <1>8, Zenon DEF Paper
<1>10. ASSUME NEW j \in Nat PROVE At(q, j) = IF j = p.pos THEN c ELSE At(p, j)
  <2>1. CASE j < size
    <3>1. j + 1 \in 1 .. size /\ (j + 1) - 1 = j /\ (j + 1 = p.pos + 1 <=> j = p.pos)
      BY <1>1, <1>3, <2>1
    <3>2. f[j + 1] = IF j + 1 = p.pos + 1 THEN c ELSE At(p, (j + 1) - 1)
      BY <1>4, <3>1, Zenon
    <3>3. At(q, j) = f[j + 1]
      BY <1>7, <1>8, <2>1, Zenon DEF At
    <3> QED
      BY <3>1, <3>2, <3>3
  <2>2. CASE ~(j < size)
    <3>1. j # p.pos /\ ~(j < Len(p.cells))
      BY <1>1, <1>3, <2>2
    <3>2. At(q, j) = "NUL" /\ At(p, j) = "NUL"
      BY <1>7, <1>8, <2>2, <3>1, Zenon DEF At
    <3> QED
      BY <3>1, <3>2
  <2> QED
    BY <2>1, <2>2
<1> QED
  BY <1>2, <1>7, <1>8, <1>9, <1>10, Zenon

(* A position on paper that moves, and nothing else. *)
LEMMA PosMoved ==
  ASSUME NEW p \in Paper, NEW k \in Nat, NEW q, q = [p EXCEPT !.pos = k]
  PROVE  q \in Paper /\ q.pos = k /\ q.top = p.top /\ q.cells = p.cells
         /\ \A j : At(q, j) = At(p, j)
<1>1. DOMAIN p = {"cells", "pos", "top"} /\ p.cells \in Seq(Glyph) /\ p.top \in Nat
  BY PaperFields
<1>2. /\ q.pos = k /\ q.top = p.top /\ q.cells = p.cells
      /\ q = [cells |-> q.cells, pos |-> q.pos, top |-> q.top]
  BY <1>1
<1>3. q \in Paper
  BY <1>1, <1>2, Zenon DEF Paper
<1>4. \A j : At(q, j) = At(p, j)
  BY <1>2, Zenon DEF At
<1> QED
  BY <1>2, <1>3, <1>4

LEMMA TailOfSame ==
  ASSUME NEW s, NEW p, NEW t, NEW q, IsTail(s, p), t.textbuf = s.textbuf, q.top = p.top,
         q.cells = p.cells, \A j : At(q, j) = At(p, j), t.cursor + q.top * textwidth = q.pos
  PROVE  IsTail(t, q)
BY Zenon DEF IsTail

(* display_putc keeps the text the window on the paper: BS, LF, a character.  *)
LEMMA TailAfterBackspace ==
  ASSUME NEW s \in State, NEW p \in Paper, IsTail(s, p), NEW t, t = Backspace(s),
         NEW q, q = Printed(p, "BS")
  PROVE  q \in Paper /\ IsTail(t, q)
<1>1. t.textbuf = s.textbuf /\ t.cursor = IF s.cursor > 0 THEN s.cursor - 1 ELSE 0
  BY BackspaceFacts
<1>2. s.cursor \in Nat /\ p.pos \in Nat /\ p.top \in Nat
  BY Fields, PaperFields
<1>3. PICK m : m = p.top * textwidth
  OBVIOUS
<1>4. m \in Nat /\ s.cursor + m = p.pos
  BY <1>2, <1>3, Times, Sizes DEF IsTail
<1>5. PICK k : k = IF p.pos > m THEN p.pos - 1 ELSE p.pos
  OBVIOUS
<1>6. k \in Nat /\ t.cursor + m = k
  BY <1>1, <1>2, <1>4, <1>5
<1>7. q = [p EXCEPT !.pos = k]
  BY <1>3, <1>5, PrintedCases, Zenon
<1>8. q \in Paper /\ q.pos = k /\ q.top = p.top /\ q.cells = p.cells /\ \A j : At(q, j) = At(p, j)
  BY <1>6, <1>7, PosMoved
<1>9. t.cursor + q.top * textwidth = q.pos
  BY <1>3, <1>6, <1>8
<1> QED
  BY <1>1, <1>8, <1>9, TailOfSame

LEMMA TailAfterNewline ==
  ASSUME NEW s \in State, NEW p \in Paper, IsTail(s, p), NEW t, t = Newline(s),
         NEW q, q = Printed(p, "LF")
  PROVE  q \in Paper /\ IsTail(t, q)
<1>1. t.textbuf = s.textbuf /\ t.cursor = Line(s.cursor) * textwidth + textwidth
  BY NewlineFacts
<1>2. s.cursor \in Nat /\ p.pos \in Nat /\ p.top \in Nat
  BY Fields, PaperFields
<1>3. PICK m, l : m = p.top * textwidth /\ l = Line(s.cursor)
  OBVIOUS
<1>4. m \in Nat /\ s.cursor + m = p.pos /\ l \in Nat
  BY <1>2, <1>3, Times, Sizes, LineBounds DEF IsTail
<1>5. Line(p.pos) = l + p.top
  BY <1>2, <1>3, <1>4, LineMoved
<1>6. PICK k : k = (Line(p.pos) + 1) * textwidth
  OBVIOUS
<1>7. k = l * textwidth + m + textwidth /\ l * textwidth \in Nat
  <2>1. /\ (l + p.top + 1) * textwidth = (l + p.top) * textwidth + 1 * textwidth
        /\ (l + p.top) * textwidth = l * textwidth + p.top * textwidth
        /\ 1 * textwidth = textwidth /\ l * textwidth \in Nat
    BY <1>2, <1>4, Times, Sizes
  <2> QED
    BY <1>3, <1>5, <1>6, <2>1
<1>8. k \in Nat /\ t.cursor + m = k
  <2>1. PICK x : x = l * textwidth
    OBVIOUS
  <2>2. x \in Nat /\ k = x + m + textwidth /\ t.cursor = x + textwidth
    BY <1>1, <1>3, <1>7, <2>1, Zenon
  <2> QED
    BY <1>4, <2>2, Dims
<1>9. q = [p EXCEPT !.pos = k]
  BY <1>6, PrintedCases, Zenon
<1>10. q \in Paper /\ q.pos = k /\ q.top = p.top /\ q.cells = p.cells /\ \A j : At(q, j) = At(p, j)
  BY <1>8, <1>9, PosMoved
<1>11. t.cursor + q.top * textwidth = q.pos
  BY <1>3, <1>8, <1>10
<1> QED
  BY <1>1, <1>10, <1>11, TailOfSame

LEMMA TailAfterChar ==
  ASSUME NEW s \in State, StatusIsFree(s), NEW p \in Paper, IsTail(s, p), NEW c \in PRINTING,
         NEW t, t = StoreChar(s, c), NEW q, q = Printed(p, c)
  PROVE  q \in Paper /\ IsTail(t, q)
<1>1. PICK n, u : n = LinesBelow(s) /\ u = Scrolled(s)
  OBVIOUS
<1>2. /\ u.cursor \in 0 .. Above - 1 /\ MovedUp(s, n, u)
      /\ t.textbuf = [u.textbuf EXCEPT ![u.cursor] = c] /\ t.cursor = u.cursor + 1
      /\ n \in Nat /\ n * textwidth \in Nat /\ u.cursor + n * textwidth = s.cursor
  BY <1>1, StoreFacts
<1>3. u.textbuf \in [Cell -> Glyph]
  <2>1. u \in State
    BY <1>1, Scrolls
  <2> QED
    BY <2>1, Fields
<1>4. /\ s.cursor \in Nat /\ p.pos \in Nat /\ p.top \in Nat /\ Len(p.cells) \in Nat
  BY Fields, PaperFields
<1>5. PICK m, k, l : m = p.top * textwidth /\ k = n * textwidth /\ l = Line(s.cursor)
  OBVIOUS
<1>6. /\ m \in Nat /\ s.cursor + m = p.pos /\ l \in Nat /\ k \in Nat /\ u.cursor + k = s.cursor
      /\ Len(p.cells) <= m + Above
  BY <1>2, <1>4, <1>5, Times, Sizes, LineBounds DEF IsTail
<1>7. TopFor(p, p.pos) = p.top + n
  <2>1. Line(p.pos) = l + p.top
    BY <1>4, <1>5, <1>6, LineMoved
  <2>2. n = IF l >= textheight - 1 THEN l - (textheight - 2) ELSE 0
    BY <1>1, <1>5, Zenon DEF LinesBelow
  <2>3. PICK a, x : a = p.top /\ x = Line(p.pos)
    OBVIOUS
  <2>4. TopFor(p, p.pos) = IF x < a + textheight - 1 THEN a ELSE x - (textheight - 2)
    BY <2>3 DEF TopFor
  <2>5. x = l + a /\ a \in Nat
    BY <1>4, <2>1, <2>3, Zenon
  <2>6. PICK y : y = TopFor(p, p.pos)
    OBVIOUS
  <2>7. y = IF x < a + textheight - 1 THEN a ELSE x - (textheight - 2)
    BY <2>4, <2>6, Zenon
  <2>8. y = a + n
    BY <1>6, <2>2, <2>5, <2>7, Dims
  <2> QED
    BY <2>3, <2>6, <2>8, Zenon
<1>8. /\ q \in Paper /\ q.pos = p.pos + 1 /\ q.top = p.top + n
      /\ Len(q.cells) = IF p.pos < Len(p.cells) THEN Len(p.cells) ELSE p.pos + 1
      /\ \A j \in Nat : At(q, j) = IF j = p.pos THEN c ELSE At(p, j)
  <2>1. TopFor(p, p.pos) \in Nat
    BY <1>2, <1>4, <1>7
  <2> QED
    BY <1>7, <2>1, PrintedChar
<1>9. q.top * textwidth = m + k
  <2>1. (p.top + n) * textwidth = p.top * textwidth + n * textwidth
    BY <1>2, <1>4, Times, Dims
  <2> QED
    BY <1>5, <1>8, <2>1, Zenon
<1>10. t.cursor + (m + k) = q.pos /\ Len(q.cells) <= (m + k) + Above
  <2>1. PICK x, y, z : x = u.cursor /\ y = Len(p.cells) /\ z = s.cursor
    OBVIOUS
  <2>2. /\ x \in 0 .. Above - 1 /\ x + k = z /\ z + m = p.pos /\ y <= m + Above /\ y \in Nat
        /\ z \in Nat
    BY <1>2, <1>4, <1>6, <2>1, Zenon
  <2>3. t.cursor = x + 1 /\ q.pos = p.pos + 1
        /\ Len(q.cells) = IF p.pos < y THEN y ELSE p.pos + 1
    BY <1>2, <1>8, <2>1, Zenon
  <2> QED
    BY <1>6, <2>2, <2>3, Dims
<1>11. ASSUME NEW i \in Cell PROVE t.textbuf[i] = At(q, i + (m + k))
  <2>1. /\ i \in Nat /\ i + (m + k) \in Nat /\ (i + (m + k) = p.pos <=> i = u.cursor)
        /\ i + (m + k) = (i + k) + m
    <3>1. PICK x, z : x = u.cursor /\ z = s.cursor
      OBVIOUS
    <3>2. x \in 0 .. Above - 1 /\ x + k = z /\ z + m = p.pos
      BY <1>2, <1>6, <3>1, Zenon
    <3> QED
      BY <1>6, <3>1, <3>2, Dims
  <2>2. At(q, i + (m + k)) = IF i = u.cursor THEN c ELSE At(p, i + (m + k))
    BY <1>8, <2>1
  <2>3. t.textbuf[i] = IF i = u.cursor THEN c ELSE u.textbuf[i]
    BY <1>2, <1>3, Zenon
  <2>4. u.textbuf[i] = At(p, (i + k) + m)
    <3>1. u.textbuf[i] = IF i + k \in Cell THEN s.textbuf[i + k] ELSE "NUL"
      BY <1>2, <1>5, Zenon DEF MovedUp
    <3>2. CASE i + k \in Cell
      BY <1>5, <3>1, <3>2, Zenon DEF IsTail
    <3>3. CASE i + k \notin Cell
      <4>1. ~((i + k) + m < Len(p.cells))
        BY <1>4, <1>6, <2>1, <3>3, Dims
      <4> QED
        BY <3>1, <3>3, <4>1, Zenon DEF At
    <3> QED
      BY <3>2, <3>3
  <2> QED
    BY <2>1, <2>2, <2>3, <2>4
<1> QED
  BY <1>8, <1>9, <1>10, <1>11, Zenon DEF IsTail

(* display_putc keeps the text the window on the paper. *)
LEMMA TailKept ==
  ASSUME NEW s \in State, StatusIsFree(s), NEW p \in Paper, IsTail(s, p),
         NEW c \in PRINTING \cup {"BS", "LF"}, NEW t, t = PutcTo(s, c), NEW q, q = Printed(p, c)
  PROVE  t \in State /\ StatusIsFree(t) /\ q \in Paper /\ IsTail(t, q)
<1>1. PICK m : m = Mark(s)
  OBVIOUS
<1>2. m \in State /\ m.textbuf = s.textbuf /\ m.cursor = s.cursor
  BY <1>1, MarkFacts
<1>3. StatusIsFree(m) /\ IsTail(m, p)
  BY <1>2, Zenon DEF StatusIsFree, IsTail
<1>4. CASE c = "BS"
  <2>1. t = Backspace(m) /\ q = Printed(p, "BS")
    BY <1>1, <1>4, PutcCases, Zenon
  <2>2. t \in State /\ t.textbuf = m.textbuf
    BY <1>2, <2>1, BackspaceFacts
  <2>3. q \in Paper /\ IsTail(t, q)
    BY <1>2, <1>3, <2>1, TailAfterBackspace
  <2> QED
    BY <1>3, <2>2, <2>3, Zenon DEF StatusIsFree
<1>5. CASE c = "LF"
  <2>1. t = Newline(m) /\ q = Printed(p, "LF")
    BY <1>1, <1>5, PutcCases, Zenon
  <2>2. t \in State /\ t.textbuf = m.textbuf
    BY <1>2, <2>1, NewlineFacts
  <2>3. q \in Paper /\ IsTail(t, q)
    BY <1>2, <1>3, <2>1, TailAfterNewline
  <2> QED
    BY <1>3, <2>2, <2>3, Zenon DEF StatusIsFree
<1>6. CASE c \in PRINTING
  <2>1. t = StoreChar(m, c)
    BY <1>1, <1>6, PutcCases, Zenon
  <2>2. PICK n, u : n = LinesBelow(m) /\ u = Scrolled(m)
    OBVIOUS
  <2>3. t \in State /\ StatusIsFree(t)
    BY <1>2, <1>3, <1>6, <2>1, <2>2, StoreFacts
  <2>4. q \in Paper /\ IsTail(t, q)
    BY <1>2, <1>3, <1>6, <2>1, TailAfterChar
  <2> QED
    BY <2>3, <2>4
<1> QED
  BY <1>4, <1>5, <1>6

-----------------------------------------------------------------------------
(* The line of the cursor is the last one with text, unless a backspace goes  *)
(* to the line before.                                                        *)
NothingBelow(s) == \A i \in Cell : Line(i) > Line(s.cursor) => s.textbuf[i] = "NUL"

(* A later position is not on an earlier line. *)
LEMMA LineMonotone ==
  ASSUME NEW i \in Nat, NEW j \in Nat, i <= j
  PROVE  Line(i) \in Nat /\ Line(j) \in Nat /\ Line(i) <= Line(j)
<1>1. PICK a, b : a = Line(i) /\ b = Line(j)
  OBVIOUS
<1>2. a \in Nat /\ b \in Nat
  BY <1>1, LineBounds
<1>3. ~(j < b * textwidth) \/ b < b
  BY <1>1, <1>2, LineBelow
<1>4. j < (b + 1) * textwidth
  BY <1>1, <1>2, LineBelow
<1>5. PICK x : x = (b + 1) * textwidth
  OBVIOUS
<1>6. i < x
  <2>1. x \in Nat
    BY <1>2, <1>5, Times, Dims
  <2> QED
    BY <1>4, <1>5, <2>1
<1>7. a < b + 1
  BY <1>1, <1>2, <1>5, <1>6, LineBelow
<1> QED
  BY <1>1, <1>2, <1>7

(* A store leaves nothing below; what it changes is on the line of the cursor,*)
(* or every line if it scrolls, and then the cursor is on the last one.       *)
LEMMA StoreLines ==
  ASSUME NEW s \in State, StatusIsFree(s), NEW c \in PRINTING, NEW t, t = StoreChar(s, c)
  PROVE  /\ NothingBelow(s) => NothingBelow(t)
         /\ LinesBelow(s) = 0 => /\ \A i \in Cell : i # s.cursor => t.textbuf[i] = s.textbuf[i]
                                 /\ t.cursor = s.cursor + 1
         /\ LinesBelow(s) # 0 => t.last_clean_line = 0 /\ Line(t.cursor) >= textheight - 2
<1>1. PICK n, u : n = LinesBelow(s) /\ u = Scrolled(s)
  OBVIOUS
<1>2. /\ u.cursor \in 0 .. Above - 1 /\ MovedUp(s, n, u)
      /\ t.textbuf = [u.textbuf EXCEPT ![u.cursor] = c] /\ t.cursor = u.cursor + 1
      /\ n \in Nat /\ n * textwidth \in Nat /\ u.cursor + n * textwidth = s.cursor
      /\ t.last_clean_line = IF n = 0 THEN s.last_clean_line ELSE 0
  BY <1>1, StoreFacts
<1>3. u.textbuf \in [Cell -> Glyph] /\ s.cursor \in Nat
  <2>1. u \in State
    BY <1>1, Scrolls
  <2> QED
    BY <2>1, Fields
<1>4. PICK x, l, k : x = u.cursor /\ l = Line(u.cursor) /\ k = n * textwidth
  OBVIOUS
<1>5. x \in Nat /\ x \in Cell /\ k \in Nat /\ x + k = s.cursor
  BY <1>2, <1>4, Dims
<1>6. l \in Nat /\ Line(s.cursor) = l + n
  <2>1. l \in Nat
    BY <1>4, <1>5, LineBounds
  <2>2. Line(x + n * textwidth) = Line(x) + n
    BY <1>2, <1>5, LineMoved
  <2> QED
    BY <1>4, <1>5, <2>1, <2>2, Zenon
<1>7. l <= Line(x + 1) /\ Line(x + 1) \in Nat
  <2>1. x + 1 \in Nat /\ x <= x + 1
    BY <1>5
  <2> QED
    BY <1>4, <1>5, <2>1, LineMonotone
<1>8. ASSUME NothingBelow(s) PROVE NothingBelow(t)
  <2> SUFFICES ASSUME NEW i \in Cell, Line(i) > Line(x + 1) PROVE t.textbuf[i] = "NUL"
    BY <1>2, <1>4, Zenon DEF NothingBelow
  <2>1. i \in Nat /\ Line(i) \in Nat
    BY Dims, LineBounds
  <2>2. Line(i) > l /\ i # x
    BY <1>4, <1>6, <1>7, <2>1
  <2>3. t.textbuf[i] = u.textbuf[i]
    BY <1>2, <1>3, <1>4, <2>2, Zenon
  <2>4. u.textbuf[i] = IF i + k \in Cell THEN s.textbuf[i + k] ELSE "NUL"
    BY <1>2, <1>4, Zenon DEF MovedUp
  <2>5. Line(i + k) = Line(i) + n
    BY <1>2, <1>4, <2>1, LineMoved
  <2>6. Line(i + k) > Line(s.cursor)
    BY <1>2, <1>6, <2>1, <2>2, <2>5
  <2> QED
    BY <1>8, <2>3, <2>4, <2>6, Zenon DEF NothingBelow
<1>9. ASSUME n = 0
      PROVE  (\A i \in Cell : i # s.cursor => t.textbuf[i] = s.textbuf[i]) /\ t.cursor = s.cursor + 1
  <2>1. k = 0
    BY <1>4, <1>9, Dims
  <2>2. x = s.cursor /\ t.cursor = s.cursor + 1
    BY <1>2, <1>4, <1>5, <2>1
  <2>3. ASSUME NEW i \in Cell, i # s.cursor PROVE t.textbuf[i] = s.textbuf[i]
    <3>1. i + k = i
      BY <2>1, Dims
    <3>2. u.textbuf[i] = s.textbuf[i]
      BY <1>2, <1>4, <3>1, Zenon DEF MovedUp
    <3> QED
      BY <1>2, <1>3, <1>4, <2>2, <2>3, <3>2, Zenon
  <2> QED
    BY <2>2, <2>3
<1>10. ASSUME n # 0 PROVE t.last_clean_line = 0 /\ Line(t.cursor) >= textheight - 2
  <2>1. PICK y : y = Line(s.cursor)
    OBVIOUS
  <2>2. n = IF y >= textheight - 1 THEN y - (textheight - 2) ELSE 0
    BY <1>1, <2>1, Zenon DEF LinesBelow
  <2>3. y = l + n
    BY <1>6, <2>1
  <2>4. l = textheight - 2
    BY <1>2, <1>6, <1>10, <2>2, <2>3, Dims
  <2>5. Line(t.cursor) = Line(x + 1)
    BY <1>2, <1>4, Zenon
  <2> QED
    BY <1>2, <1>7, <1>10, <2>4, <2>5, Dims
<1> QED
  BY <1>1, <1>8, <1>9, <1>10, Zenon

(* Output that does not go back a line leaves nothing below. *)
LEMMA BelowKept ==
  ASSUME NEW s \in State, StatusIsFree(s), NothingBelow(s), NEW c \in PRINTING \cup {"BS", "LF"},
         ~(c = "BS" /\ s.cursor > 0 /\ s.cursor % textwidth = 0), NEW t, t = PutcTo(s, c)
  PROVE  /\ NothingBelow(t)
         /\ LinesBelow(s) = 0 \/ c \notin PRINTING => Line(s.cursor) <= Line(t.cursor)
<1>1. PICK m, x : m = Mark(s) /\ x = s.cursor
  OBVIOUS
<1>2. m \in State /\ m.textbuf = s.textbuf /\ m.cursor = x /\ x \in Nat
  BY <1>1, MarkFacts, Fields
<1>3. StatusIsFree(m) /\ NothingBelow(m) /\ LinesBelow(m) = LinesBelow(s)
  BY <1>1, <1>2, Zenon DEF StatusIsFree, NothingBelow, LinesBelow
<1>4. CASE c \notin PRINTING
  <2>1. t.textbuf = s.textbuf /\ t.cursor \in Nat /\ Line(x) <= Line(t.cursor)
    <3>1. CASE c = "BS"
      <4>1. t = Backspace(m)
        BY <1>1, <3>1, PutcCases, Zenon
      <4>2. t.textbuf = m.textbuf /\ t.cursor = IF x > 0 THEN x - 1 ELSE 0
        BY <1>2, <4>1, BackspaceFacts
      <4>3. CASE x = 0
        <5>1. t.cursor = x
          BY <4>2, <4>3
        <5> QED
          BY <1>2, <4>2, <5>1, LineMonotone
      <4>4. CASE x # 0
        <5>1. x > 0 /\ x - 1 \in Nat /\ t.cursor = x - 1
          BY <1>2, <4>2, <4>4
        <5>2. x % textwidth # 0
          BY <1>1, <3>1, <5>1
        <5>3. PICK l, b : l = Line(x) /\ b = l * textwidth
          OBVIOUS
        <5>4. l \in Nat /\ b \in Nat /\ b <= x /\ x % textwidth = x - b
          BY <1>2, <5>3, LineBounds, Times, Dims
        <5>5. ~(x - 1 < b)
          BY <1>2, <5>2, <5>4
        <5>6. ~(Line(x - 1) < l)
          BY <5>1, <5>3, <5>4, <5>5, LineBelow
        <5>7. Line(x - 1) \in Nat
          BY <5>1, LineBounds
        <5> QED
          BY <1>2, <4>2, <5>1, <5>3, <5>4, <5>6, <5>7
      <4> QED
        BY <4>3, <4>4
    <3>2. CASE c = "LF"
      <4>1. t = Newline(m)
        BY <1>1, <3>2, PutcCases, Zenon
      <4>2. PICK l, b : l = Line(x) /\ b = l * textwidth
        OBVIOUS
      <4>3. t.textbuf = m.textbuf /\ t.cursor = b + textwidth
        BY <1>2, <4>1, <4>2, NewlineFacts, Zenon
      <4>4. l \in Nat /\ b \in Nat /\ x < b + textwidth
        BY <1>2, <4>2, LineBounds, Times, Dims
      <4>5. b + textwidth \in Nat /\ x <= b + textwidth
        BY <1>2, <4>4, Dims
      <4> QED
        BY <1>2, <4>3, <4>5, LineMonotone
    <3> QED
      BY <1>4, <3>1, <3>2
  <2>2. Line(t.cursor) \in Nat /\ Line(x) \in Nat
    BY <1>2, <2>1, LineBounds
  <2>3. ASSUME NEW i \in Cell, Line(i) > Line(t.cursor) PROVE s.textbuf[i] = "NUL"
    <3>1. i \in Nat
      BY Dims
    <3>2. Line(i) \in Nat
      BY <3>1, LineBounds
    <3>3. Line(i) > Line(x)
      BY <2>1, <2>2, <2>3, <3>2
    <3> QED
      BY <1>1, <3>3 DEF NothingBelow
  <2> QED
    BY <1>1, <2>1, <2>3, Zenon DEF NothingBelow
<1>5. CASE c \in PRINTING
  <2>1. t = StoreChar(m, c)
    BY <1>1, <1>5, PutcCases, Zenon
  <2>2. /\ NothingBelow(t)
        /\ LinesBelow(m) = 0 => t.cursor = m.cursor + 1
    BY <1>2, <1>3, <1>5, <2>1, StoreLines
  <2>3. ASSUME LinesBelow(s) = 0 PROVE Line(x) <= Line(t.cursor)
    <3>1. t.cursor = x + 1 /\ x + 1 \in Nat /\ x <= x + 1
      BY <1>2, <1>3, <2>2, <2>3
    <3> QED
      BY <1>2, <3>1, LineMonotone
  <2> QED
    BY <1>1, <1>5, <2>2, <2>3, Zenon
<1> QED
  BY <1>4, <1>5

-----------------------------------------------------------------------------
(* printf in a panic, on the display and on paper: loops over the message.    *)

LEMMA PrintLoop ==
  ASSUME NEW s, NEW msg, Len(msg) \in Nat
  PROVE  \E put : /\ put = [k \in 0 .. Len(msg) |-> IF k = 0 THEN s ELSE PutcTo(put[k - 1], msg[k])]
                  /\ PrintAll(s, msg) = put[Len(msg)]
<1>0. PICK n : n = Len(msg)
  OBVIOUS
<1>1. n \in Nat
  BY <1>0
<1> DEFINE P == {k \in 0 .. n : \E f : f = [i \in 0 .. k |-> IF i = 0 THEN s
                                                             ELSE PutcTo(f[i - 1], msg[i])]}
<1>2. 0 \in P
  <2> DEFINE g == [i \in 0 .. 0 |-> s]
  <2>1. \A i \in 0 .. 0 : i = 0
    OBVIOUS
  <2>2. g = [i \in 0 .. 0 |-> IF i = 0 THEN s ELSE PutcTo(g[i - 1], msg[i])]
    BY <2>1, Zenon
  <2>3. 0 \in 0 .. n
    BY <1>1
  <2> HIDE DEF g
  <2> QED
    BY <2>2, <2>3
<1>3. ASSUME NEW k \in 0 .. n - 1, k \in P PROVE k + 1 \in P
  <2>1. PICK f : f = [i \in 0 .. k |-> IF i = 0 THEN s ELSE PutcTo(f[i - 1], msg[i])]
    BY <1>3
  <2> DEFINE g == [i \in 0 .. k + 1 |-> IF i = k + 1 THEN PutcTo(f[k], msg[k + 1]) ELSE f[i]]
  <2>2. ASSUME NEW i \in 0 .. k + 1
        PROVE  g[i] = IF i = 0 THEN s ELSE PutcTo(g[i - 1], msg[i])
    <3>1. CASE i = 0
      <4>1. 0 \in 0 .. k /\ i # k + 1
        BY <1>3, <3>1
      <4>2. f[0] = s
        BY <2>1, <4>1
      <4> QED
        BY <3>1, <4>1, <4>2
    <3>2. CASE i = k + 1
      <4>1. i - 1 = k /\ k \in 0 .. k + 1 /\ k # k + 1 /\ i # 0
        BY <1>3, <3>2
      <4>2. g[k] = f[k]
        BY <4>1
      <4> QED
        BY <3>2, <4>1, <4>2
    <3>3. CASE i # 0 /\ i # k + 1
      <4>1. i \in 0 .. k /\ i - 1 \in 0 .. k + 1 /\ i - 1 # k + 1
        BY <1>3, <3>3
      <4>2. g[i - 1] = f[i - 1] /\ g[i] = f[i]
        BY <3>3, <4>1
      <4>3. f[i] = PutcTo(f[i - 1], msg[i])
        BY <2>1, <3>3, <4>1
      <4> QED
        BY <3>3, <4>2, <4>3
    <3> QED
      BY <3>1, <3>2, <3>3
  <2>3. g = [i \in 0 .. k + 1 |-> IF i = 0 THEN s ELSE PutcTo(g[i - 1], msg[i])]
    BY <2>2, Zenon
  <2>4. k + 1 \in 0 .. n
    BY <1>1, <1>3
  <2> HIDE DEF g
  <2> QED
    BY <2>3, <2>4
<1>4. n \in P
  <2> HIDE DEF P
  <2>1. \A k \in 0 .. n : k \in P
    BY <1>1, <1>2, <1>3, Induction
  <2> QED
    BY <1>1, <2>1
<1>5. PICK f : f = [i \in 0 .. Len(msg) |-> IF i = 0 THEN s ELSE PutcTo(f[i - 1], msg[i])]
  BY <1>0, <1>4
<1> DEFINE put[i \in 0 .. Len(msg)] == IF i = 0 THEN s ELSE PutcTo(put[i - 1], msg[i])
<1>6. put = [i \in 0 .. Len(msg) |-> IF i = 0 THEN s ELSE PutcTo(put[i - 1], msg[i])]
  BY <1>5, Zenon
<1>7. PrintAll(s, msg) = put[Len(msg)]
  BY Zenon DEF PrintAll
<1> HIDE DEF put
<1> QED
  BY <1>6, <1>7

LEMMA PaperLoop ==
  ASSUME NEW msg, Len(msg) \in Nat
  PROVE  \E put : /\ put = [k \in 0 .. Len(msg) |->
                            IF k = 0 THEN NewPaper ELSE Printed(put[k - 1], msg[k])]
                  /\ PaperAfter(msg) = put[Len(msg)]
<1>0. PICK n : n = Len(msg)
  OBVIOUS
<1>1. n \in Nat
  BY <1>0
<1> DEFINE P == {k \in 0 .. n : \E f : f = [i \in 0 .. k |-> IF i = 0 THEN NewPaper
                                                             ELSE Printed(f[i - 1], msg[i])]}
<1>2. 0 \in P
  <2> DEFINE g == [i \in 0 .. 0 |-> NewPaper]
  <2>1. \A i \in 0 .. 0 : i = 0
    OBVIOUS
  <2>2. g = [i \in 0 .. 0 |-> IF i = 0 THEN NewPaper ELSE Printed(g[i - 1], msg[i])]
    BY <2>1, Zenon
  <2>3. 0 \in 0 .. n
    BY <1>1
  <2> HIDE DEF g
  <2> QED
    BY <2>2, <2>3
<1>3. ASSUME NEW k \in 0 .. n - 1, k \in P PROVE k + 1 \in P
  <2>1. PICK f : f = [i \in 0 .. k |-> IF i = 0 THEN NewPaper ELSE Printed(f[i - 1], msg[i])]
    BY <1>3
  <2> DEFINE g == [i \in 0 .. k + 1 |-> IF i = k + 1 THEN Printed(f[k], msg[k + 1]) ELSE f[i]]
  <2>2. ASSUME NEW i \in 0 .. k + 1
        PROVE  g[i] = IF i = 0 THEN NewPaper ELSE Printed(g[i - 1], msg[i])
    <3>1. CASE i = 0
      <4>1. 0 \in 0 .. k /\ i # k + 1
        BY <1>3, <3>1
      <4>2. f[0] = NewPaper
        BY <2>1, <4>1
      <4> QED
        BY <3>1, <4>1, <4>2
    <3>2. CASE i = k + 1
      <4>1. i - 1 = k /\ k \in 0 .. k + 1 /\ k # k + 1 /\ i # 0
        BY <1>3, <3>2
      <4>2. g[k] = f[k]
        BY <4>1
      <4> QED
        BY <3>2, <4>1, <4>2
    <3>3. CASE i # 0 /\ i # k + 1
      <4>1. i \in 0 .. k /\ i - 1 \in 0 .. k + 1 /\ i - 1 # k + 1
        BY <1>3, <3>3
      <4>2. g[i - 1] = f[i - 1] /\ g[i] = f[i]
        BY <3>3, <4>1
      <4>3. f[i] = Printed(f[i - 1], msg[i])
        BY <2>1, <3>3, <4>1
      <4> QED
        BY <3>3, <4>2, <4>3
    <3> QED
      BY <3>1, <3>2, <3>3
  <2>3. g = [i \in 0 .. k + 1 |-> IF i = 0 THEN NewPaper ELSE Printed(g[i - 1], msg[i])]
    BY <2>2, Zenon
  <2>4. k + 1 \in 0 .. n
    BY <1>1, <1>3
  <2> HIDE DEF g
  <2> QED
    BY <2>3, <2>4
<1>4. n \in P
  <2> HIDE DEF P
  <2>1. \A k \in 0 .. n : k \in P
    BY <1>1, <1>2, <1>3, Induction
  <2> QED
    BY <1>1, <2>1
<1>5. PICK f : f = [i \in 0 .. Len(msg) |-> IF i = 0 THEN NewPaper ELSE Printed(f[i - 1], msg[i])]
  BY <1>0, <1>4
<1> DEFINE put[i \in 0 .. Len(msg)] == IF i = 0 THEN NewPaper ELSE Printed(put[i - 1], msg[i])
<1>6. put = [i \in 0 .. Len(msg) |-> IF i = 0 THEN NewPaper ELSE Printed(put[i - 1], msg[i])]
  BY <1>5, Zenon
<1>7. PaperAfter(msg) = put[Len(msg)]
  BY Zenon DEF PaperAfter
<1> HIDE DEF put
<1> QED
  BY <1>6, <1>7

LEMMA NewIsTail ==
  ASSUME NEW s, s.textbuf = Blank, s.cursor = 0
  PROVE  /\ StatusIsFree(s) /\ NothingBelow(s) /\ Blank \in [Cell -> Glyph]
         /\ NewPaper \in Paper /\ IsTail(s, NewPaper)
<1>1. /\ NewPaper.cells = <<>> /\ NewPaper.pos = 0 /\ NewPaper.top = 0
      /\ Len(NewPaper.cells) = 0 /\ <<>> \in Seq(Glyph)
  BY EmptySeq DEF NewPaper
<1>2. NewPaper \in Paper
  BY <1>1 DEF NewPaper, Paper
<1>3. 0 * textwidth = 0 /\ 0 + 0 = 0 /\ 0 <= 0 + Above
  BY Dims
<1>4. \A i \in Cell : i + 0 = i /\ ~(i < 0)
  BY Dims
<1>5. \A i \in Cell : s.textbuf[i] = "NUL"
  BY Zenon DEF Blank
<1>6. \A i \in Cell : At(NewPaper, i + NewPaper.top * textwidth) = "NUL"
  BY <1>1, <1>3, <1>4, Zenon DEF At
<1>7. IsTail(s, NewPaper)
  BY <1>1, <1>3, <1>5, <1>6, Zenon DEF IsTail
<1>8. Blank \in [Cell -> Glyph]
  BY DEF Blank, Glyph
<1> QED
  BY <1>2, <1>5, <1>7, <1>8, Zenon DEF StatusIsFree, NothingBelow

(* After the message the text is the window on it, with nothing below.        *)
LEMMA PrintAllFacts ==
  ASSUME NEW s \in State, s.textbuf = Blank, s.cursor = 0, NEW msg \in Seq(PRINTING \cup {"LF"}),
         NEW t, t = PrintAll(s, msg), NEW q, q = PaperAfter(msg)
  PROVE  t \in State /\ StatusIsFree(t) /\ NothingBelow(t) /\ q \in Paper /\ IsTail(t, q)
<1>1. PICK n : n = Len(msg)
  OBVIOUS
<1>2. n \in Nat /\ Len(msg) \in Nat
  BY <1>1, LenProperties
<1>3. PICK put : /\ put = [k \in 0 .. n |-> IF k = 0 THEN s ELSE PutcTo(put[k - 1], msg[k])]
                 /\ t = put[n]
  BY <1>1, <1>2, PrintLoop, Zenon
<1>4. PICK pp : /\ pp = [k \in 0 .. n |-> IF k = 0 THEN NewPaper ELSE Printed(pp[k - 1], msg[k])]
                /\ q = pp[n]
  BY <1>1, <1>2, PaperLoop, Zenon
<1> DEFINE Good(k) == /\ put[k] \in State /\ StatusIsFree(put[k]) /\ NothingBelow(put[k])
                      /\ pp[k] \in Paper /\ IsTail(put[k], pp[k])
    P == {k \in 0 .. n : Good(k)}
<1>5. 0 \in P
  <2>1. 0 \in 0 .. n
    BY <1>2
  <2>2. put[0] = s /\ pp[0] = NewPaper
    BY <1>3, <1>4, <2>1
  <2> QED
    BY <2>1, <2>2, NewIsTail, Zenon
<1>6. ASSUME NEW k \in 0 .. n - 1, k \in P PROVE k + 1 \in P
  <2>1. Good(k)
    BY <1>6, Zenon
  <2> HIDE DEF P
  <2>2. k + 1 \in 0 .. n /\ k + 1 # 0 /\ (k + 1) - 1 = k /\ k + 1 \in 1 .. n
    BY <1>2
  <2>3. put[k + 1] = PutcTo(put[k], msg[k + 1]) /\ pp[k + 1] = Printed(pp[k], msg[k + 1])
    <3>1. put[k + 1] = PutcTo(put[(k + 1) - 1], msg[k + 1])
      BY <1>3, <2>2
    <3>2. pp[k + 1] = Printed(pp[(k + 1) - 1], msg[k + 1])
      BY <1>4, <2>2
    <3>3. (k + 1) - 1 = k
      BY <2>2
    <3> QED
      BY <3>1, <3>2, <3>3, Zenon
  <2>4. PICK c : c = msg[k + 1]
    OBVIOUS
  <2>5. c \in PRINTING \cup {"LF"}
    BY <1>1, <2>2, <2>4, ElementOfSeq
  <2>6. c \in PRINTING \cup {"BS", "LF"} /\ c # "BS"
    BY <2>5, DisplayAssumption DEF DisplayAssumption
  <2>7. PICK a, b, x, y : a = put[k] /\ b = put[k + 1] /\ x = pp[k] /\ y = pp[k + 1]
    OBVIOUS
  <2>8. a \in State /\ StatusIsFree(a) /\ NothingBelow(a) /\ x \in Paper /\ IsTail(a, x)
    BY <2>1, <2>7, Zenon
  <2>9. b = PutcTo(a, c) /\ y = Printed(x, c)
    BY <2>3, <2>4, <2>7, Zenon
  <2>10. b \in State /\ StatusIsFree(b) /\ y \in Paper /\ IsTail(b, y)
    BY <2>6, <2>8, <2>9, TailKept
  <2>11. NothingBelow(b)
    BY <2>6, <2>8, <2>9, BelowKept
  <2> QED
    BY <2>2, <2>7, <2>10, <2>11, Zenon DEF P
<1>7. n \in P
  <2> HIDE DEF P
  <2>1. \A k \in 0 .. n : k \in P
    BY <1>2, <1>5, <1>6, Induction
  <2> QED
    BY <1>2, <2>1
<1> QED
  BY <1>3, <1>4, <1>7, Zenon

-----------------------------------------------------------------------------
(* The text of every display is the window on its output. *)

Marks == {"block", "status", "boot"}

(* The inductive invariant: TextIsTail would not survive a scroll if there was *)
(* text on the status line, which display_scroll_up copies and never erases,  *)
(* or if the paper was longer than what the screen has shown.                 *)
TextInvariant ==
  /\ TypeOK
  /\ \A d \in Display : StatusIsFree(g_display[d]) /\ IsTail(g_display[d], paper[d])

LEMMA TypeFacts ==
  ASSUME TypeOK
  PROVE  /\ g_display \in [Display -> State] /\ active_display \in Display
         /\ frame \in [Cell -> Glyph \cup Marks] /\ paper \in [Display -> Paper]
BY Zenon DEF TypeOK, State, Paper, Marks

LEMMA ClearFacts ==
  ASSUME NEW s \in State, NEW t, t = ClearTo(s)
  PROVE  /\ t \in State /\ t.textbuf = Blank /\ t.cursor = 0
         /\ t.is_dirty = TRUE /\ t.needs_full_repaint = TRUE
<1>1. /\ DOMAIN s = {"textbuf", "cursor", "is_dirty", "needs_full_repaint", "last_clean_line"}
      /\ s.last_clean_line \in Nat
  BY Fields
<1>2. t = [s EXCEPT !.textbuf = Blank, !.needs_full_repaint = TRUE, !.is_dirty = TRUE, !.cursor = 0]
  BY Zenon DEF ClearTo
<1>3. /\ t.textbuf = Blank /\ t.cursor = 0 /\ t.is_dirty = TRUE /\ t.needs_full_repaint = TRUE
      /\ t.last_clean_line = s.last_clean_line
      /\ t = [textbuf |-> t.textbuf, cursor |-> t.cursor, is_dirty |-> t.is_dirty,
              needs_full_repaint |-> t.needs_full_repaint, last_clean_line |-> t.last_clean_line]
  BY <1>1, <1>2
<1>4. Blank \in [Cell -> Glyph] /\ 0 \in Nat /\ TRUE \in BOOLEAN
  BY DEF Blank, Glyph
<1> QED
  BY <1>1, <1>3, <1>4, Zenon DEF State

LEMMA SwitchFacts ==
  ASSUME NEW s \in State, NEW t, t = SwitchedTo(s)
  PROVE  /\ t \in State /\ t.textbuf = s.textbuf /\ t.cursor = s.cursor
         /\ t.is_dirty = TRUE /\ t.needs_full_repaint = TRUE /\ t.last_clean_line = 0
<1>1. /\ DOMAIN s = {"textbuf", "cursor", "is_dirty", "needs_full_repaint", "last_clean_line"}
      /\ s.textbuf \in [Cell -> Glyph] /\ s.cursor \in Nat
  BY Fields
<1>2. t = [s EXCEPT !.is_dirty = TRUE, !.needs_full_repaint = TRUE, !.last_clean_line = 0]
  BY Zenon DEF SwitchedTo
<1>3. /\ t.textbuf = s.textbuf /\ t.cursor = s.cursor
      /\ t.is_dirty = TRUE /\ t.needs_full_repaint = TRUE /\ t.last_clean_line = 0
      /\ t = [textbuf |-> t.textbuf, cursor |-> t.cursor, is_dirty |-> t.is_dirty,
              needs_full_repaint |-> t.needs_full_repaint, last_clean_line |-> t.last_clean_line]
  BY <1>1, <1>2
<1>4. 0 \in Nat /\ TRUE \in BOOLEAN
  OBVIOUS
<1> QED
  BY <1>1, <1>3, <1>4, Zenon DEF State

LEMMA PanicMarksFacts ==
  ASSUME NEW s \in State, NEW t, t = PanicMarks(s)
  PROVE  /\ t \in State /\ t.textbuf = s.textbuf /\ t.cursor = s.cursor
         /\ t.is_dirty = TRUE /\ t.needs_full_repaint = TRUE /\ t.last_clean_line = 0
<1>1. /\ DOMAIN s = {"textbuf", "cursor", "is_dirty", "needs_full_repaint", "last_clean_line"}
      /\ s.textbuf \in [Cell -> Glyph] /\ s.cursor \in Nat
  BY Fields
<1>2. t = [s EXCEPT !.is_dirty = TRUE, !.last_clean_line = 0, !.needs_full_repaint = TRUE]
  BY Zenon DEF PanicMarks
<1>3. /\ t.textbuf = s.textbuf /\ t.cursor = s.cursor
      /\ t.is_dirty = TRUE /\ t.needs_full_repaint = TRUE /\ t.last_clean_line = 0
      /\ t = [textbuf |-> t.textbuf, cursor |-> t.cursor, is_dirty |-> t.is_dirty,
              needs_full_repaint |-> t.needs_full_repaint, last_clean_line |-> t.last_clean_line]
  BY <1>1, <1>2
<1>4. 0 \in Nat /\ TRUE \in BOOLEAN
  OBVIOUS
<1> QED
  BY <1>1, <1>3, <1>4, Zenon DEF State

LEMMA RepaintedFacts ==
  ASSUME NEW s \in State, NEW t, t = Repainted(s)
  PROVE  /\ t \in State /\ t.textbuf = s.textbuf /\ t.cursor = s.cursor
         /\ t.is_dirty = FALSE /\ t.needs_full_repaint = FALSE
<1>1. /\ DOMAIN s = {"textbuf", "cursor", "is_dirty", "needs_full_repaint", "last_clean_line"}
      /\ s.textbuf \in [Cell -> Glyph] /\ s.cursor \in Nat /\ s.last_clean_line \in Nat
  BY Fields
<1>2. t = [s EXCEPT !.needs_full_repaint = FALSE, !.is_dirty = FALSE]
  BY Zenon DEF Repainted
<1>3. /\ t.textbuf = s.textbuf /\ t.cursor = s.cursor
      /\ t.is_dirty = FALSE /\ t.needs_full_repaint = FALSE /\ t.last_clean_line = s.last_clean_line
      /\ t = [textbuf |-> t.textbuf, cursor |-> t.cursor, is_dirty |-> t.is_dirty,
              needs_full_repaint |-> t.needs_full_repaint, last_clean_line |-> t.last_clean_line]
  BY <1>1, <1>2
<1>4. FALSE \in BOOLEAN
  OBVIOUS
<1> QED
  BY <1>1, <1>3, <1>4, Zenon DEF State

(* The same text, wherever the marks are. *)
LEMMA SameText ==
  ASSUME NEW s, NEW t, t.textbuf = s.textbuf, t.cursor = s.cursor
  PROVE  /\ StatusIsFree(s) => StatusIsFree(t)
         /\ NothingBelow(s) => NothingBelow(t)
         /\ \A p : IsTail(s, p) => IsTail(t, p)
BY Zenon DEF StatusIsFree, NothingBelow, IsTail

(* A repaint paints glyphs, the cursor, the status line or what was there.    *)
LEMMA PaintedType ==
  ASSUME NEW s \in State, frame \in [Cell -> Glyph \cup Marks]
  PROVE  Painted(s) \in [Cell -> Glyph \cup Marks]
<1>1. PICK base : base = IF s.needs_full_repaint THEN Blank ELSE frame
  OBVIOUS
<1>2. Blank \in [Cell -> Glyph \cup Marks] /\ "block" \in Marks /\ "status" \in Marks
  BY DEF Blank, Glyph, Marks
<1>3. base \in [Cell -> Glyph \cup Marks]
  BY <1>1, <1>2, Zenon
<1>4. s.textbuf \in [Cell -> Glyph]
  BY Fields
<1>5. Painted(s) = [i \in Cell |->
        IF ~s.is_dirty THEN base[i]
        ELSE IF Line(i) = textheight - 1 THEN "status"
        ELSE IF i = s.cursor THEN "block"
        ELSE IF Line(i) \in s.last_clean_line .. Line(s.cursor) THEN s.textbuf[i]
        ELSE base[i]]
  BY <1>1, Zenon DEF Painted
<1> QED
  BY <1>2, <1>3, <1>4, <1>5

(* One display and its paper change, the others stay. *)
LEMMA TextOfOne ==
  ASSUME TextInvariant, NEW a \in Display, NEW t \in State, NEW q \in Paper,
         StatusIsFree(t), IsTail(t, q),
         g_display' = [g_display EXCEPT ![a] = t], paper' = [paper EXCEPT ![a] = q],
         active_display' \in Display, frame' \in [Cell -> Glyph \cup Marks],
         renderer' \in {"asleep", "ready"}, mode' \in {"run", "halted", "overrun"},
         cleared' \subseteq Display, missed' \subseteq Display
  PROVE  TextInvariant'
<1>1. g_display \in [Display -> State] /\ paper \in [Display -> Paper]
  BY TypeFacts, Zenon DEF TextInvariant
<1>2. g_display' \in [Display -> State] /\ paper' \in [Display -> Paper]
  BY <1>1, Zenon
<1>3. TypeOK'
  BY <1>2, Zenon DEF TypeOK, State, Paper, Marks
<1>4. ASSUME NEW d \in Display
      PROVE  StatusIsFree(g_display'[d]) /\ IsTail(g_display'[d], paper'[d])
  <2>1. CASE d = a
    <3>1. g_display'[d] = t /\ paper'[d] = q
      BY <1>1, <2>1, Zenon
    <3> QED
      BY <3>1, Zenon
  <2>2. CASE d # a
    <3>1. g_display'[d] = g_display[d] /\ paper'[d] = paper[d]
      BY <1>1, <2>2, Zenon
    <3> QED
      BY <3>1, Zenon DEF TextInvariant
  <2> QED
    BY <2>1, <2>2
<1> QED
  BY <1>3, <1>4 DEF TextInvariant

LEMMA TextInit == init_display => TextInvariant
<1> SUFFICES ASSUME init_display PROVE TextInvariant
  OBVIOUS
<1>1. PICK z : z = [textbuf |-> Blank, cursor |-> 0, is_dirty |-> FALSE,
                    needs_full_repaint |-> FALSE, last_clean_line |-> 0]
  OBVIOUS
<1>2. z.textbuf = Blank /\ z.cursor = 0
  BY <1>1
<1>3. /\ StatusIsFree(z) /\ Blank \in [Cell -> Glyph]
      /\ NewPaper \in Paper /\ IsTail(z, NewPaper)
  BY <1>2, NewIsTail
<1>4. z \in State
  <2>1. 0 \in Nat /\ FALSE \in BOOLEAN
    OBVIOUS
  <2> QED
    BY <1>1, <1>3, <2>1, Zenon DEF State
<1>5. /\ g_display = [d \in Display |-> z] /\ paper = [d \in Display |-> NewPaper]
      /\ active_display = 1 /\ frame = [i \in Cell |-> "boot"] /\ renderer = "ready"
      /\ mode = "run" /\ cleared = {} /\ missed = Display
  BY <1>1, Zenon DEF init_display
<1>6. g_display \in [Display -> State] /\ paper \in [Display -> Paper]
  BY <1>3, <1>4, <1>5, Zenon
<1>7. active_display \in Display /\ frame \in [Cell -> Glyph \cup Marks]
  BY <1>5, DisplayAssumption DEF DisplayAssumption, Display, Marks
<1>8. /\ renderer \in {"asleep", "ready"} /\ mode \in {"run", "halted", "overrun"}
      /\ cleared \subseteq Display /\ missed \subseteq Display
  BY <1>5
<1>9. TypeOK
  BY <1>6, <1>7, <1>8, Zenon DEF TypeOK, State, Paper, Marks
<1> QED
  BY <1>3, <1>5, <1>9, Zenon DEF TextInvariant

LEMMA OutputText ==
  ASSUME TextInvariant, NEW d \in Display, NEW c \in OutChar, Output(d, c)
  PROVE  TextInvariant'
<1>1. PICK s, p : s = g_display[d] /\ p = paper[d]
  OBVIOUS
<1>2. /\ g_display \in [Display -> State] /\ active_display \in Display
      /\ frame \in [Cell -> Glyph \cup Marks] /\ paper \in [Display -> Paper]
  BY TypeFacts, Zenon DEF TextInvariant
<1>3. s \in State /\ p \in Paper /\ StatusIsFree(s) /\ IsTail(s, p)
  BY <1>1, <1>2, Zenon DEF TextInvariant
<1>4. /\ g_display' = [g_display EXCEPT ![d] = PutcTo(s, c)]
      /\ paper' = [paper EXCEPT ![d] = IF c \in {"CR", "NUL"} THEN p ELSE Printed(p, c)]
      /\ active_display' = active_display /\ frame' = frame /\ mode' = mode
  BY <1>1, Zenon DEF Output, display_putc, Follow
<1>5. renderer' \in {"asleep", "ready"} /\ mode' \in {"run", "halted", "overrun"}
  BY <1>4 DEF Output, display_putc, TextInvariant, TypeOK
<1>6. cleared' \subseteq Display /\ missed' \subseteq Display
  <2>1. cleared \subseteq Display /\ missed \subseteq Display
    BY Zenon DEF TextInvariant, TypeOK
  <2>2. cleared' \subseteq cleared
    BY Zenon DEF Output, Follow
  <2>3. missed' \subseteq missed \cup {d}
    BY Zenon DEF Output, Follow
  <2> QED
    BY <2>1, <2>2, <2>3
<1>7. PICK t, q : t = PutcTo(s, c) /\ q = IF c \in {"CR", "NUL"} THEN p ELSE Printed(p, c)
  OBVIOUS
<1>8. t \in State /\ StatusIsFree(t) /\ q \in Paper /\ IsTail(t, q)
  <2>1. CASE c \in {"CR", "NUL"}
    <3>1. t = s /\ q = p
      BY <1>7, <2>1, PutcCases, Zenon
    <3> QED
      BY <1>3, <3>1, Zenon
  <2>2. CASE c \notin {"CR", "NUL"}
    <3>1. c \in PRINTING \cup {"BS", "LF"}
      BY <2>2 DEF OutChar
    <3>2. q = Printed(p, c)
      BY <1>7, <2>2, Zenon
    <3> QED
      BY <1>3, <1>7, <3>1, <3>2, TailKept
  <2> QED
    BY <2>1, <2>2
<1>9. g_display' = [g_display EXCEPT ![d] = t] /\ paper' = [paper EXCEPT ![d] = q]
  BY <1>4, <1>7, Zenon
<1> QED
  BY <1>2, <1>4, <1>5, <1>6, <1>8, <1>9, TextOfOne, Zenon

LEMMA TextNext == TextInvariant /\ [Next]_vars => TextInvariant'
<1> SUFFICES ASSUME TextInvariant, [Next]_vars PROVE TextInvariant'
  OBVIOUS
<1>1. /\ g_display \in [Display -> State] /\ active_display \in Display
      /\ frame \in [Cell -> Glyph \cup Marks] /\ paper \in [Display -> Paper]
  BY TypeFacts, Zenon DEF TextInvariant
<1>2. /\ renderer \in {"asleep", "ready"} /\ mode \in {"run", "halted", "overrun"}
      /\ cleared \subseteq Display /\ missed \subseteq Display
  BY Zenon DEF TextInvariant, TypeOK
<1>3. \A d \in Display : /\ g_display[d] \in State /\ paper[d] \in Paper
                         /\ StatusIsFree(g_display[d]) /\ IsTail(g_display[d], paper[d])
  BY <1>1, Zenon DEF TextInvariant
<1>4. ASSUME NEW d \in Display, NEW c \in OutChar, Output(d, c) PROVE TextInvariant'
  BY <1>4, OutputText
<1>5. ASSUME NEW d \in Display, Clear(d) PROVE TextInvariant'
  <2>1. PICK t : t = ClearTo(g_display[d])
    OBVIOUS
  <2>2. t \in State /\ t.textbuf = Blank /\ t.cursor = 0
    BY <1>3, <2>1, ClearFacts, Zenon
  <2>3. StatusIsFree(t) /\ NewPaper \in Paper /\ IsTail(t, NewPaper)
    BY <2>2, NewIsTail
  <2>4. /\ g_display' = [g_display EXCEPT ![d] = t] /\ paper' = [paper EXCEPT ![d] = NewPaper]
        /\ active_display' = active_display /\ frame' = frame /\ mode' = mode
        /\ renderer' = "ready" /\ cleared' = cleared \cup {d} /\ missed' = missed \ {d}
    BY <1>5, <2>1, Zenon DEF Clear, display_clear
  <2>5. /\ renderer' \in {"asleep", "ready"} /\ mode' \in {"run", "halted", "overrun"}
        /\ cleared' \subseteq Display /\ missed' \subseteq Display
    BY <1>2, <2>4
  <2> QED
    BY <1>1, <2>2, <2>3, <2>4, <2>5, TextOfOne, Zenon
<1>6. ASSUME NEW d \in Display, display_switch(d) PROVE TextInvariant'
  <2>1. PICK t : t = SwitchedTo(g_display[d])
    OBVIOUS
  <2>2. t \in State /\ t.textbuf = g_display[d].textbuf /\ t.cursor = g_display[d].cursor
    BY <1>3, <2>1, SwitchFacts, Zenon
  <2>3. StatusIsFree(t) /\ IsTail(t, paper[d])
    BY <1>3, <2>2, SameText, Zenon
  <2>4. /\ g_display' = [g_display EXCEPT ![d] = t] /\ paper' = [paper EXCEPT ![d] = paper[d]]
        /\ active_display' = d /\ frame' = frame /\ mode' = mode
        /\ renderer' = "ready" /\ cleared' = cleared \ {d}
    BY <1>1, <1>6, <2>1, Zenon DEF display_switch
  <2>5. missed' = missed \cup {d} \/ missed' = missed \ {d}
    BY <1>6, Zenon DEF display_switch
  <2>6. /\ renderer' \in {"asleep", "ready"} /\ mode' \in {"run", "halted", "overrun"}
        /\ cleared' \subseteq Display /\ missed' \subseteq Display /\ active_display' \in Display
    BY <1>2, <2>4, <2>5
  <2> QED
    BY <1>1, <1>3, <2>2, <2>3, <2>4, <2>6, TextOfOne, Zenon
<1>7. ASSUME thread_display_update PROVE TextInvariant'
  <2>1. PICK a, t : a = active_display /\ t = Repainted(g_display[a])
    OBVIOUS
  <2>2. /\ a \in Display /\ t \in State
        /\ t.textbuf = g_display[a].textbuf /\ t.cursor = g_display[a].cursor
    BY <1>1, <1>3, <2>1, RepaintedFacts, Zenon
  <2>3. StatusIsFree(t) /\ IsTail(t, paper[a])
    BY <1>3, <2>2, SameText, Zenon
  <2>4. /\ g_display' = [g_display EXCEPT ![a] = t] /\ paper' = [paper EXCEPT ![a] = paper[a]]
        /\ active_display' = active_display /\ frame' = Painted(g_display[a])
        /\ mode' = IF PaintsBeyond(g_display[a]) THEN "overrun" ELSE mode
        /\ renderer' = "asleep" /\ cleared' = cleared \ {a} /\ missed' = missed
    BY <1>1, <1>7, <2>1, Zenon DEF thread_display_update, display_redraw
  <2>5. frame' \in [Cell -> Glyph \cup Marks]
    BY <1>1, <1>3, <2>2, <2>4, PaintedType, Zenon
  <2>6. /\ renderer' \in {"asleep", "ready"} /\ mode' \in {"run", "halted", "overrun"}
        /\ cleared' \subseteq Display /\ missed' \subseteq Display
    BY <1>2, <2>4
  <2> QED
    BY <1>1, <1>3, <2>2, <2>3, <2>4, <2>5, <2>6, TextOfOne, Zenon
<1>8. ASSUME NEW msg \in PANIC_MESSAGES, panic(msg) PROVE TextInvariant'
  <2>1. PICK a, c, u, m, t, q :
          /\ a = active_display /\ c = ClearTo(g_display[a]) /\ u = PrintAll(c, msg)
          /\ m = PanicMarks(u) /\ t = Repainted(m) /\ q = PaperAfter(msg)
    OBVIOUS
  <2>2. a \in Display /\ c \in State /\ c.textbuf = Blank /\ c.cursor = 0
    BY <1>1, <1>3, <2>1, ClearFacts, Zenon
  <2>3. msg \in Seq(PRINTING \cup {"LF"})
    BY DisplayAssumption, Zenon DEF DisplayAssumption
  <2>4. u \in State /\ StatusIsFree(u) /\ q \in Paper /\ IsTail(u, q)
    BY <2>1, <2>2, <2>3, PrintAllFacts
  <2>5. m \in State /\ m.textbuf = u.textbuf /\ m.cursor = u.cursor
    BY <2>1, <2>4, PanicMarksFacts
  <2>6. t \in State /\ t.textbuf = u.textbuf /\ t.cursor = u.cursor
    BY <2>1, <2>5, RepaintedFacts
  <2>7. StatusIsFree(t) /\ IsTail(t, q)
    BY <2>4, <2>6, SameText, Zenon
  <2>8. /\ g_display' = [g_display EXCEPT ![a] = t] /\ paper' = [paper EXCEPT ![a] = q]
        /\ active_display' = active_display /\ frame' = Painted(m)
        /\ mode' = IF PaintsBeyond(m) THEN "overrun" ELSE "halted"
        /\ renderer' = "ready" /\ cleared' = cleared /\ missed' = missed
    BY <1>8, <2>1, Zenon DEF panic
  <2>9. frame' \in [Cell -> Glyph \cup Marks]
    BY <1>1, <2>5, <2>8, PaintedType, Zenon
  <2>10. renderer' \in {"asleep", "ready"} /\ mode' \in {"run", "halted", "overrun"}
    BY <2>8
  <2> QED
    BY <1>1, <1>2, <2>2, <2>4, <2>6, <2>7, <2>8, <2>9, <2>10, TextOfOne, Zenon
<1>9. CASE UNCHANGED vars
  <2>1. /\ g_display' = g_display /\ active_display' = active_display /\ frame' = frame
        /\ renderer' = renderer /\ mode' = mode /\ paper' = paper /\ cleared' = cleared
        /\ missed' = missed
    BY <1>9, Zenon DEF vars
  <2> QED
    BY <2>1, Zenon DEF TextInvariant, TypeOK
<1> QED
  BY <1>4, <1>5, <1>6, <1>7, <1>8, <1>9, Zenon DEF Next, Halted

LEMMA TextAlways == Spec => []TextInvariant
<1>1. init_display => TextInvariant
  BY TextInit
<1>2. TextInvariant /\ [Next]_vars => TextInvariant'
  BY TextNext
<1> QED
  BY <1>1, <1>2, PTL DEF Spec

(* For a screen and output of any size, the text buffer of a display is the   *)
(* end of its output: the loop in display_putc that scrolls until the cursor  *)
(* is above the status line, however often, loses only whole lines at the top *)
(* and the cursor moves with the text.                                        *)
THEOREM TextIsWindow == Spec => []TextIsTail
<1>1. TextInvariant => TextIsTail
  BY Zenon DEF TextInvariant, TextIsTail, IsTail
<1> QED
  BY <1>1, TextAlways, PTL

-----------------------------------------------------------------------------
(* A repaint brings the display to the screen. *)

(* The frame f shows the text of s. *)
Shows(f, s) ==
  \A i \in Cell : Line(i) < textheight - 1
                    => f[i] = IF i = s.cursor THEN "block" ELSE s.textbuf[i]

(* The lines that a repaint of s leaves alone are right on the frame f already. *)
CleanLines(f, s) ==
  \A i \in Cell : Line(i) < textheight - 1
    => /\ Line(i) < s.last_clean_line => f[i] = s.textbuf[i]
       /\ Line(i) > Line(s.cursor) => f[i] = "NUL"

(* A display d in state s that the next repaint brings to the frame f. *)
Repaintable(f, s, d, clr) ==
  /\ NothingBelow(s)
  /\ ~s.is_dirty => ~s.needs_full_repaint /\ d \notin clr /\ Shows(f, s)
  /\ d \in clr => s.needs_full_repaint /\ s.textbuf = Blank /\ s.cursor = 0
  /\ s.is_dirty /\ d \notin clr => s.last_clean_line <= Line(s.cursor)
  /\ s.needs_full_repaint /\ d \notin clr => s.last_clean_line = 0
  /\ s.is_dirty /\ ~s.needs_full_repaint => CleanLines(f, s)

(* The inductive invariant: what was painted is still right wherever the marks *)
(* say that nothing changed since.                                            *)
RepaintInvariant ==
  mode = "run" /\ active_display \notin missed
    => Repaintable(frame, g_display[active_display], active_display, cleared)

(* A cell above the status line is on a line below textheight - 1. *)
LEMMA CellLine ==
  ASSUME NEW i \in Cell
  PROVE  i \in Nat /\ Line(i) \in Nat /\ (Line(i) < textheight - 1 <=> i < Above)
         /\ Line(i) <= textheight - 1
<1>1. i \in Nat
  BY Dims
<1>2. Line(i) \in Nat
  BY <1>1, LineBounds
<1>3. PICK k : k = textheight - 1
  OBVIOUS
<1>4. k \in Nat /\ k + 1 = textheight
  BY <1>3, Dims
<1>5. Line(i) < k <=> i < k * textwidth
  BY <1>1, <1>4, LineBelow
<1>6. Above = k * textwidth
  BY <1>3, Sizes, Zenon
<1>7. Line(i) < textheight
  <2>1. Line(i) < textheight <=> i < textheight * textwidth
    BY <1>1, LineBelow, Dims
  <2>2. textheight * textwidth = Above + textwidth
    BY Sizes, Times
  <2>3. i < Above + textwidth
    BY Dims
  <2> QED
    BY <2>1, <2>2, <2>3, Zenon
<1> QED
  BY <1>1, <1>2, <1>3, <1>4, <1>5, <1>6, <1>7

(* Painted, cell by cell above the status line. *)
LEMMA PaintedCell ==
  ASSUME NEW s, NEW i \in Cell, Line(i) < textheight - 1
  PROVE  /\ ~s.is_dirty /\ ~s.needs_full_repaint => Painted(s)[i] = frame[i]
         /\ s.is_dirty /\ i = s.cursor => Painted(s)[i] = "block"
         /\ s.is_dirty /\ i # s.cursor /\ Line(i) \in s.last_clean_line .. Line(s.cursor)
              => Painted(s)[i] = s.textbuf[i]
         /\ s.is_dirty /\ i # s.cursor /\ Line(i) \notin s.last_clean_line .. Line(s.cursor)
              => Painted(s)[i] = IF s.needs_full_repaint THEN "NUL" ELSE frame[i]
<1>1. PICK base : base = IF s.needs_full_repaint THEN Blank ELSE frame
  OBVIOUS
<1>2. base[i] = IF s.needs_full_repaint THEN "NUL" ELSE frame[i]
  BY <1>1, Zenon DEF Blank
<1>3. Line(i) # textheight - 1
  BY CellLine, Dims
<1>4. Painted(s) = [j \in Cell |->
        IF ~s.is_dirty THEN base[j]
        ELSE IF Line(j) = textheight - 1 THEN "status"
        ELSE IF j = s.cursor THEN "block"
        ELSE IF Line(j) \in s.last_clean_line .. Line(s.cursor) THEN s.textbuf[j]
        ELSE base[j]]
  BY <1>1, Zenon DEF Painted
<1>5. Painted(s)[i] =
        IF ~s.is_dirty THEN base[i]
        ELSE IF i = s.cursor THEN "block"
        ELSE IF Line(i) \in s.last_clean_line .. Line(s.cursor) THEN s.textbuf[i]
        ELSE base[i]
  BY <1>3, <1>4, Zenon
<1> QED
  BY <1>2, <1>5, Zenon

(* display_redraw of a display that was not missed shows it. *)
LEMMA RepaintShows ==
  ASSUME NEW s \in State, NEW d, NEW clr, Repaintable(frame, s, d, clr)
  PROVE  Shows(Painted(s), s)
<1> SUFFICES ASSUME NEW i \in Cell, Line(i) < textheight - 1
             PROVE  Painted(s)[i] = IF i = s.cursor THEN "block" ELSE s.textbuf[i]
  BY Zenon DEF Shows
<1>1. PICK x, l, y : x = Line(i) /\ l = s.last_clean_line /\ y = Line(s.cursor)
  OBVIOUS
<1>2. x \in Nat /\ l \in Nat /\ y \in Nat
  BY <1>1, CellLine, Fields, LineBounds
<1>3. CASE ~s.is_dirty
  <2>1. ~s.needs_full_repaint /\ Shows(frame, s)
    BY <1>3, Zenon DEF Repaintable
  <2>2. frame[i] = IF i = s.cursor THEN "block" ELSE s.textbuf[i]
    BY <2>1, Zenon DEF Shows
  <2>3. Painted(s)[i] = frame[i]
    BY <1>3, <2>1, PaintedCell, Zenon
  <2> QED
    BY <2>2, <2>3, Zenon
<1>4. CASE s.is_dirty /\ i = s.cursor
  <2>1. Painted(s)[i] = "block"
    BY <1>4, PaintedCell, Zenon
  <2> QED
    BY <1>4, <2>1, Zenon
<1>5. CASE s.is_dirty /\ i # s.cursor /\ x \in l .. y
  <2>1. Painted(s)[i] = s.textbuf[i]
    BY <1>1, <1>5, PaintedCell, Zenon
  <2> QED
    BY <1>5, <2>1, Zenon
<1>6. CASE s.is_dirty /\ i # s.cursor /\ x \notin l .. y
  <2>1. Painted(s)[i] = IF s.needs_full_repaint THEN "NUL" ELSE frame[i]
    BY <1>1, <1>6, PaintedCell, Zenon
  <2>2. x < l \/ x > y
    BY <1>2, <1>6
  <2>3. x > y => s.textbuf[i] = "NUL"
    BY <1>1, Zenon DEF Repaintable, NothingBelow
  <2>4. CASE s.needs_full_repaint
    <3>1. CASE d \in clr
      <4>1. s.textbuf[i] = "NUL"
        BY <3>1, Zenon DEF Repaintable, Blank
      <4> QED
        BY <1>6, <2>1, <2>4, <4>1, Zenon
    <3>2. CASE d \notin clr
      <4>1. l = 0
        BY <1>1, <2>4, <3>2, Zenon DEF Repaintable
      <4>2. x > y
        BY <1>2, <2>2, <4>1
      <4> QED
        BY <1>6, <2>1, <2>3, <2>4, <4>2, Zenon
    <3> QED
      BY <3>1, <3>2
  <2>5. CASE ~s.needs_full_repaint
    <3>1. CleanLines(frame, s)
      BY <1>6, <2>5, Zenon DEF Repaintable
    <3>2. (x < l => frame[i] = s.textbuf[i]) /\ (x > y => frame[i] = "NUL")
      BY <1>1, <3>1, Zenon DEF CleanLines
    <3>3. frame[i] = s.textbuf[i]
      BY <2>2, <2>3, <3>2, Zenon
    <3> QED
      BY <1>6, <2>1, <2>5, <3>3, Zenon
  <2> QED
    BY <2>4, <2>5
<1> QED
  BY <1>3, <1>4, <1>5, <1>6

(* A scroll marks every line, and leaves the cursor on the last. *)
LEMMA ScrollRepaintable ==
  ASSUME NEW s \in State, StatusIsFree(s), NEW c \in PRINTING, LinesBelow(s) # 0,
         NEW t, t = PutcTo(s, c), NEW f, NEW d, NEW clr, d \notin clr
  PROVE  Repaintable(f, t, d, clr)
<1>1. PICK m : m = Mark(s)
  OBVIOUS
<1>2. m \in State /\ m.textbuf = s.textbuf /\ m.cursor = s.cursor /\ m.is_dirty = TRUE
  BY <1>1, MarkFacts
<1>3. StatusIsFree(m) /\ LinesBelow(m) = LinesBelow(s)
  BY <1>2, Zenon DEF StatusIsFree, LinesBelow
<1>4. t = StoreChar(m, c)
  BY <1>1, PutcCases, Zenon
<1>5. t.last_clean_line = 0 /\ Line(t.cursor) >= textheight - 2
  BY <1>2, <1>3, <1>4, StoreLines
<1>6. t \in State /\ StatusIsFree(t) /\ t.is_dirty = TRUE
  <2>1. PICK n, u : n = LinesBelow(m) /\ u = Scrolled(m)
    OBVIOUS
  <2> QED
    BY <1>2, <1>3, <1>4, <2>1, StoreFacts, Zenon
<1>7. PICK y : y = Line(t.cursor)
  OBVIOUS
<1>8. y \in Nat /\ y >= textheight - 2
  BY <1>5, <1>6, <1>7, Fields, LineBounds
<1>9. \A i \in Cell : /\ Line(i) > y => i >= Above
                      /\ Line(i) < textheight - 1 => ~(Line(i) > y) /\ ~(Line(i) < 0)
  <2> SUFFICES ASSUME NEW i \in Cell
               PROVE  /\ Line(i) > y => i >= Above
                      /\ Line(i) < textheight - 1 => ~(Line(i) > y) /\ ~(Line(i) < 0)
    OBVIOUS
  <2>1. PICK x : x = Line(i)
    OBVIOUS
  <2>2. i \in Nat /\ x \in Nat /\ (x < textheight - 1 <=> i < Above)
    BY <2>1, CellLine
  <2> QED
    BY <1>8, <2>1, <2>2, Dims
<1>10. NothingBelow(t)
  BY <1>6, <1>7, <1>9, Zenon DEF StatusIsFree, NothingBelow
<1>11. CleanLines(f, t)
  BY <1>5, <1>7, <1>9, Zenon DEF CleanLines
<1>12. t.last_clean_line <= Line(t.cursor)
  BY <1>5, <1>7, <1>8
<1> QED
  BY <1>5, <1>6, <1>10, <1>11, <1>12, Zenon DEF Repaintable

(* A store that does not scroll keeps the marks. *)
LEMMA StoreMarks ==
  ASSUME NEW s \in State, StatusIsFree(s), NEW c \in PRINTING, NEW t, t = StoreChar(s, c)
  PROVE  /\ t \in State /\ t.is_dirty = s.is_dirty /\ t.needs_full_repaint = s.needs_full_repaint
         /\ LinesBelow(s) = 0 => t.last_clean_line = s.last_clean_line
<1>1. PICK n, u : n = LinesBelow(s) /\ u = Scrolled(s)
  OBVIOUS
<1>2. /\ u.cursor \in 0 .. Above - 1 /\ MovedUp(s, n, u)
      /\ t.textbuf = [u.textbuf EXCEPT ![u.cursor] = c] /\ t.cursor = u.cursor + 1
      /\ n \in Nat /\ n * textwidth \in Nat /\ u.cursor + n * textwidth = s.cursor
      /\ t.is_dirty = s.is_dirty /\ t.needs_full_repaint = s.needs_full_repaint
      /\ t.last_clean_line = IF n = 0 THEN s.last_clean_line ELSE 0
  BY <1>1, StoreFacts
<1>3. t \in State
  BY <1>1, StoreFacts
<1> QED
  BY <1>1, <1>2, <1>3, Zenon

(* Output on the line of the cursor or below keeps what is above right. *)
LEMMA OutputRepaintable ==
  ASSUME NEW s \in State, StatusIsFree(s), NEW c \in PRINTING \cup {"BS", "LF"},
         c \in PRINTING => LinesBelow(s) = 0,
         ~(c = "BS" /\ s.cursor > 0 /\ s.cursor % textwidth = 0),
         NEW t, t = PutcTo(s, c), NEW f, NEW d, NEW clr, d \notin clr, Repaintable(f, s, d, clr)
  PROVE  Repaintable(f, t, d, clr)
<1>1. PICK m : m = Mark(s)
  OBVIOUS
<1>2. /\ m \in State /\ m.textbuf = s.textbuf /\ m.cursor = s.cursor
      /\ m.is_dirty = TRUE /\ m.needs_full_repaint = s.needs_full_repaint
      /\ m.last_clean_line = IF s.is_dirty THEN s.last_clean_line ELSE Line(s.cursor)
  BY <1>1, MarkFacts
<1>3. StatusIsFree(m) /\ LinesBelow(m) = LinesBelow(s)
  BY <1>2, Zenon DEF StatusIsFree, LinesBelow
<1>4. NothingBelow(s)
  BY Zenon DEF Repaintable
<1>5. NothingBelow(t) /\ Line(s.cursor) <= Line(t.cursor)
  BY <1>4, BelowKept
<1>6. /\ t \in State /\ t.is_dirty = TRUE /\ t.needs_full_repaint = s.needs_full_repaint
      /\ t.last_clean_line = m.last_clean_line
      /\ \A i \in Cell : i # s.cursor => t.textbuf[i] = s.textbuf[i]
  <2>1. CASE c = "BS"
    <3>1. t = Backspace(m)
      BY <1>1, <2>1, PutcCases, Zenon
    <3> QED
      BY <1>2, <3>1, BackspaceFacts, Zenon
  <2>2. CASE c = "LF"
    <3>1. t = Newline(m)
      BY <1>1, <2>2, PutcCases, Zenon
    <3> QED
      BY <1>2, <3>1, NewlineFacts, Zenon
  <2>3. CASE c \in PRINTING
    <3>1. t = StoreChar(m, c) /\ LinesBelow(m) = 0
      BY <1>1, <1>3, <2>3, PutcCases, Zenon
    <3>3. /\ t \in State /\ t.is_dirty = m.is_dirty /\ t.needs_full_repaint = m.needs_full_repaint
          /\ t.last_clean_line = m.last_clean_line
      BY <1>2, <1>3, <2>3, <3>1, StoreMarks, Zenon
    <3>4. \A i \in Cell : i # m.cursor => t.textbuf[i] = m.textbuf[i]
      BY <1>2, <1>3, <2>3, <3>1, StoreLines, Zenon
    <3> QED
      BY <1>2, <3>3, <3>4, Zenon
  <2> QED
    BY <2>1, <2>2, <2>3
<1>7. PICK l, y, z : l = m.last_clean_line /\ y = Line(s.cursor) /\ z = Line(t.cursor)
  OBVIOUS
<1>8. l \in Nat /\ y \in Nat /\ z \in Nat /\ y <= z
  BY <1>2, <1>5, <1>6, <1>7, Fields, LineBounds
<1>9. l <= y
  <2>1. CASE s.is_dirty
    <3>1. s.last_clean_line <= Line(s.cursor) /\ l = s.last_clean_line
      BY <1>2, <1>7, <2>1, Zenon DEF Repaintable
    <3> QED
      BY <1>7, <3>1, Zenon
  <2>2. CASE ~s.is_dirty
    <3>1. l = y
      BY <1>2, <1>7, <2>2, Zenon
    <3> QED
      BY <1>8, <3>1
  <2> QED
    BY <2>1, <2>2
<1>10. t.last_clean_line <= Line(t.cursor)
  <2>1. l <= z
    BY <1>8, <1>9
  <2> QED
    BY <1>6, <1>7, <2>1, Zenon
<1>11. ASSUME t.needs_full_repaint PROVE t.last_clean_line = 0
  <2>1. s.needs_full_repaint
    BY <1>6, <1>11, Zenon
  <2>2. s.is_dirty /\ s.last_clean_line = 0
    BY <2>1, Zenon DEF Repaintable
  <2> QED
    BY <1>2, <1>6, <2>2, Zenon
<1>12. ASSUME ~t.needs_full_repaint PROVE CleanLines(f, t)
  <2> SUFFICES ASSUME NEW i \in Cell, Line(i) < textheight - 1
               PROVE  /\ Line(i) < l => f[i] = t.textbuf[i]
                      /\ Line(i) > z => f[i] = "NUL"
    BY <1>6, <1>7, Zenon DEF CleanLines
  <2>1. PICK x : x = Line(i)
    OBVIOUS
  <2>2. x \in Nat
    BY <2>1, CellLine
  <2>3. x < y \/ x > y => i # s.cursor
    BY <1>7, <1>8, <2>1, <2>2
  <2>4. (x < l => x < y) /\ (x > z => x > y)
    BY <1>8, <1>9, <2>2
  <2>5. x > y => s.textbuf[i] = "NUL"
    BY <1>4, <1>7, <2>1, Zenon DEF NothingBelow
  <2>6. CASE s.is_dirty
    <3>1. l = s.last_clean_line
      BY <1>2, <1>7, <2>6, Zenon
    <3>2. CleanLines(f, s)
      BY <1>6, <1>12, <2>6, Zenon DEF Repaintable
    <3>3. (x < l => f[i] = s.textbuf[i]) /\ (x > y => f[i] = "NUL")
      BY <1>7, <2>1, <3>1, <3>2, Zenon DEF CleanLines
    <3> QED
      BY <1>6, <2>1, <2>3, <2>4, <3>3, Zenon
  <2>7. CASE ~s.is_dirty
    <3>1. Shows(f, s)
      BY <2>7, Zenon DEF Repaintable
    <3>2. i # s.cursor => f[i] = s.textbuf[i]
      BY <3>1, Zenon DEF Shows
    <3> QED
      BY <1>6, <2>1, <2>3, <2>4, <2>5, <3>2, Zenon
  <2> QED
    BY <2>6, <2>7
<1> QED
  BY <1>5, <1>6, <1>10, <1>11, <1>12, Zenon DEF Repaintable

LEMMA RepaintInit == init_display => RepaintInvariant
<1>1. ASSUME init_display PROVE active_display \in missed
  <2>1. active_display = 1 /\ missed = Display
    BY <1>1, Zenon DEF init_display
  <2> QED
    BY <2>1, DisplayAssumption DEF DisplayAssumption, Display
<1> QED
  BY <1>1, Zenon DEF RepaintInvariant

LEMMA OutputRepaints ==
  ASSUME TextInvariant, RepaintInvariant, NEW d \in Display, NEW c \in OutChar, Output(d, c)
  PROVE  RepaintInvariant'
<1>1. PICK a, s : a = active_display /\ s = g_display[a]
  OBVIOUS
<1>2. /\ g_display \in [Display -> State] /\ a \in Display
      /\ \A e \in Display : StatusIsFree(g_display[e])
  BY <1>1, TypeFacts, Zenon DEF TextInvariant
<1>3. s \in State /\ StatusIsFree(s)
  BY <1>1, <1>2, Zenon
<1>4. /\ g_display' = [g_display EXCEPT ![d] = PutcTo(g_display[d], c)]
      /\ active_display' = active_display /\ frame' = frame /\ mode = "run" /\ mode' = mode
  BY Zenon DEF Output, display_putc
<1>5. PICK x : x = g_display[d]
  OBVIOUS
<1>6. \E scrolls, above \in BOOLEAN :
        /\ scrolls <=> c \in PRINTING /\ LinesBelow(x) > 0
        /\ above <=> \/ c = "BS" /\ x.cursor > 0 /\ x.cursor % textwidth = 0
                     \/ d \in cleared
        /\ missed' = IF c \in {"CR", "NUL"} THEN missed
                     ELSE IF scrolls THEN missed \ {d}
                     ELSE IF above THEN missed \cup {d} ELSE missed
        /\ cleared' = IF scrolls THEN cleared \ {d} ELSE cleared
  BY <1>5, Zenon DEF Output, Follow
<1>7. PICK scrolls \in BOOLEAN, above \in BOOLEAN :
        /\ scrolls <=> c \in PRINTING /\ LinesBelow(x) > 0
        /\ above <=> \/ c = "BS" /\ x.cursor > 0 /\ x.cursor % textwidth = 0
                     \/ d \in cleared
        /\ missed' = IF c \in {"CR", "NUL"} THEN missed
                     ELSE IF scrolls THEN missed \ {d}
                     ELSE IF above THEN missed \cup {d} ELSE missed
        /\ cleared' = IF scrolls THEN cleared \ {d} ELSE cleared
  BY <1>6, Zenon
<1> SUFFICES ASSUME a \notin missed' PROVE Repaintable(frame, g_display'[a], a, cleared')
  BY <1>1, <1>4, Zenon DEF RepaintInvariant
<1>8. a \notin missed => Repaintable(frame, s, a, cleared)
  BY <1>1, <1>4, Zenon DEF RepaintInvariant
<1>9. CASE d # a
  <2>1. g_display'[a] = s
    BY <1>1, <1>2, <1>4, <1>9, Zenon
  <2>2. a \notin missed /\ (a \in cleared' <=> a \in cleared)
    <3>1. \A S : (a \in S \ {d} <=> a \in S) /\ (a \in S \cup {d} <=> a \in S)
      BY <1>9, Zenon
    <3> QED
      BY <1>7, <3>1, Zenon
  <2>3. Repaintable(frame, s, a, cleared)
    BY <1>8, <2>2, Zenon
  <2>4. Repaintable(frame, s, a, cleared')
    BY <2>2, <2>3, Zenon DEF Repaintable
  <2> QED
    BY <2>1, <2>4, Zenon
<1>10. CASE d = a /\ c \in {"CR", "NUL"}
  <2>1. c \notin PRINTING
    BY <1>10, DisplayAssumption DEF DisplayAssumption
  <2>2. ~scrolls
    BY <1>7, <2>1, Zenon
  <2>3. missed' = missed /\ cleared' = cleared
    BY <1>7, <1>10, <2>2, Zenon
  <2>4. PutcTo(x, c) = x /\ x = s
    BY <1>1, <1>5, <1>10, PutcCases, Zenon
  <2>5. g_display'[a] = s
    BY <1>2, <1>4, <1>5, <1>10, <2>4, Zenon
  <2> QED
    BY <1>8, <2>3, <2>5, Zenon
<1>11. CASE d = a /\ c \notin {"CR", "NUL"}
  <2>1. c \in PRINTING \cup {"BS", "LF"}
    BY <1>11 DEF OutChar
  <2>2. x = s
    BY <1>1, <1>5, <1>11, Zenon
  <2>3. PICK t : t = PutcTo(s, c)
    OBVIOUS
  <2>4. g_display'[a] = t
    BY <1>2, <1>4, <1>5, <1>11, <2>2, <2>3, Zenon
  <2>5. PICK n, u : n = LinesBelow(s) /\ u = Scrolled(s)
    OBVIOUS
  <2>6. n \in Nat
    BY <1>3, <2>5, Scrolls
  <2>7. n > 0 <=> n # 0
    BY <2>6
  <2>8. CASE scrolls
    <3>1. c \in PRINTING /\ n # 0
      BY <1>7, <2>2, <2>5, <2>7, <2>8, Zenon
    <3>2. a \notin cleared'
      <4>1. cleared' = cleared \ {d}
        BY <1>7, <2>8, Zenon
      <4> QED
        BY <1>11, <4>1, Zenon
    <3> QED
      BY <1>3, <2>3, <2>4, <2>5, <3>1, <3>2, ScrollRepaintable
  <2>9. CASE ~scrolls
    <3>1. cleared' = cleared /\ missed' = IF above THEN missed \cup {d} ELSE missed
      BY <1>7, <1>11, <2>9, Zenon
    <3>2. ~above
      BY <1>11, <3>1, Zenon
    <3>3. a \notin missed
      BY <3>1, <3>2, Zenon
    <3>4. /\ ~(c = "BS" /\ s.cursor > 0 /\ s.cursor % textwidth = 0)
          /\ a \notin cleared
      BY <1>7, <1>11, <2>2, <3>2, Zenon
    <3>5. c \in PRINTING => LinesBelow(s) = 0
      BY <1>7, <2>2, <2>5, <2>7, <2>9, Zenon
    <3>6. Repaintable(frame, s, a, cleared)
      BY <1>8, <3>3, Zenon
    <3>7. Repaintable(frame, t, a, cleared)
      BY <1>3, <2>1, <2>3, <3>4, <3>5, <3>6, OutputRepaintable
    <3> QED
      BY <2>4, <3>1, <3>7, Zenon
  <2> QED
    BY <2>8, <2>9
<1> QED
  BY <1>9, <1>10, <1>11

LEMMA RepaintNext == TextInvariant /\ RepaintInvariant /\ [Next]_vars => RepaintInvariant'
<1> SUFFICES ASSUME TextInvariant, RepaintInvariant, [Next]_vars PROVE RepaintInvariant'
  OBVIOUS
<1>1. PICK a, s : a = active_display /\ s = g_display[a]
  OBVIOUS
<1>2. g_display \in [Display -> State] /\ a \in Display
  BY <1>1, TypeFacts, Zenon DEF TextInvariant
<1>3. s \in State
  BY <1>1, <1>2, Zenon
<1>4. ASSUME NEW d \in Display, NEW c \in OutChar, Output(d, c) PROVE RepaintInvariant'
  BY <1>4, OutputRepaints
<1>5. ASSUME NEW d \in Display, Clear(d) PROVE RepaintInvariant'
  <2>1. /\ g_display' = [g_display EXCEPT ![d] = ClearTo(g_display[d])]
        /\ active_display' = a /\ frame' = frame /\ mode' = mode /\ mode = "run"
        /\ cleared' = cleared \cup {d} /\ missed' = missed \ {d}
    BY <1>1, <1>5, Zenon DEF Clear, display_clear
  <2>2. CASE d = a
    <3>1. PICK t : t = ClearTo(s)
      OBVIOUS
    <3>2. g_display'[a] = t
      BY <1>1, <1>2, <2>1, <2>2, <3>1, Zenon
    <3>3. /\ t \in State /\ t.textbuf = Blank /\ t.cursor = 0
          /\ t.is_dirty = TRUE /\ t.needs_full_repaint = TRUE
      BY <1>3, <3>1, ClearFacts
    <3>4. NothingBelow(t) /\ a \in cleared'
      BY <2>1, <2>2, <3>3, NewIsTail, Zenon
    <3>5. Repaintable(frame, t, a, cleared')
      BY <3>3, <3>4, Zenon DEF Repaintable
    <3> QED
      BY <2>1, <3>2, <3>5, Zenon DEF RepaintInvariant
  <2>3. CASE d # a
    <3>1. g_display'[a] = s /\ (a \in missed' <=> a \in missed) /\ (a \in cleared' <=> a \in cleared)
      BY <1>1, <1>2, <2>1, <2>3, Zenon
    <3>2. a \notin missed => Repaintable(frame, s, a, cleared)
      BY <1>1, <2>1, Zenon DEF RepaintInvariant
    <3>3. a \notin missed => Repaintable(frame, s, a, cleared')
      BY <3>1, <3>2, Zenon DEF Repaintable
    <3> QED
      BY <2>1, <3>1, <3>3, Zenon DEF RepaintInvariant
  <2> QED
    BY <2>2, <2>3
<1>6. ASSUME NEW d \in Display, display_switch(d) PROVE RepaintInvariant'
  <2>1. PICK x, t : x = g_display[d] /\ t = SwitchedTo(x)
    OBVIOUS
  <2>2. /\ g_display' = [g_display EXCEPT ![d] = t]
        /\ active_display' = d /\ frame' = frame /\ cleared' = cleared \ {d}
        /\ missed' = IF TextBelow(x) THEN missed \cup {d} ELSE missed \ {d}
    BY <1>6, <2>1, Zenon DEF display_switch
  <2>3. x \in State /\ g_display'[d] = t
    BY <1>2, <2>1, <2>2, Zenon
  <2>4. /\ t \in State /\ t.textbuf = x.textbuf /\ t.cursor = x.cursor
        /\ t.is_dirty = TRUE /\ t.needs_full_repaint = TRUE /\ t.last_clean_line = 0
    BY <2>1, <2>3, SwitchFacts
  <2>5. d \notin cleared'
    BY <2>2, Zenon
  <2>6. ASSUME d \notin missed' PROVE Repaintable(frame, t, d, cleared')
    <3>1. ~TextBelow(x)
      BY <2>2, <2>6, Zenon
    <3>2. NothingBelow(t)
      BY <2>4, <3>1, Zenon DEF TextBelow, NothingBelow
    <3>3. t.last_clean_line <= Line(t.cursor)
      <4>1. t.cursor \in Nat
        BY <2>4, Fields
      <4>2. Line(t.cursor) \in Nat
        BY <4>1, LineBounds
      <4> QED
        BY <2>4, <4>2
    <3> QED
      BY <2>4, <2>5, <3>2, <3>3, Zenon DEF Repaintable
  <2> QED
    BY <2>2, <2>3, <2>6, Zenon DEF RepaintInvariant
<1>7. ASSUME thread_display_update PROVE RepaintInvariant'
  <2>1. PICK t, g : t = Repainted(s) /\ g = Painted(s)
    OBVIOUS
  <2>2. /\ g_display' = [g_display EXCEPT ![a] = t] /\ frame' = g
        /\ active_display' = a /\ cleared' = cleared \ {a} /\ missed' = missed /\ mode = "run"
    BY <1>1, <1>7, <2>1, Zenon DEF thread_display_update, display_redraw
  <2>3. g_display'[a] = t /\ a \notin cleared'
    BY <1>2, <2>2, Zenon
  <2>4. /\ t.textbuf = s.textbuf /\ t.cursor = s.cursor
        /\ t.is_dirty = FALSE /\ t.needs_full_repaint = FALSE
    BY <1>3, <2>1, RepaintedFacts
  <2>5. ASSUME a \notin missed PROVE Repaintable(g, t, a, cleared')
    <3>1. Repaintable(frame, s, a, cleared)
      BY <1>1, <2>2, <2>5, Zenon DEF RepaintInvariant
    <3>2. Shows(g, s)
      BY <1>3, <2>1, <3>1, RepaintShows
    <3>3. NothingBelow(t) /\ Shows(g, t)
      BY <2>4, <3>1, <3>2, Zenon DEF NothingBelow, Shows, Repaintable
    <3> QED
      BY <2>3, <2>4, <3>3, Zenon DEF Repaintable
  <2> QED
    BY <2>2, <2>3, <2>5, Zenon DEF RepaintInvariant
<1>8. ASSUME NEW msg \in PANIC_MESSAGES, panic(msg) PROVE RepaintInvariant'
  <2>1. mode' # "run"
    BY <1>8 DEF panic
  <2> QED
    BY <2>1, Zenon DEF RepaintInvariant
<1>9. CASE UNCHANGED vars
  <2>1. /\ g_display' = g_display /\ active_display' = active_display /\ frame' = frame
        /\ mode' = mode /\ cleared' = cleared /\ missed' = missed
    BY <1>9, Zenon DEF vars
  <2> QED
    BY <2>1, Zenon DEF RepaintInvariant, Repaintable, Shows, CleanLines
<1> QED
  BY <1>4, <1>5, <1>6, <1>7, <1>8, <1>9, Zenon DEF Next, Halted

(* For a screen of any size and any interleaving of output, clears, switches  *)
(* and the renderer, a clean active display is on the screen in full: the     *)
(* dirty flag, last_clean_line and needs_full_repaint together never leave a  *)
(* changed line unpainted, except where missed records that display_putc went *)
(* above the marked lines, and as long as no repaint found the cursor below    *)
(* the frame, which draw_line does not check.                                 *)
THEOREM RepaintIsComplete == Spec => []RepaintShowsText
<1>1. init_display => RepaintInvariant
  BY RepaintInit
<1>2. TextInvariant /\ RepaintInvariant /\ [Next]_vars => RepaintInvariant'
  BY RepaintNext
<1>3. RepaintInvariant => RepaintShowsText
  BY Zenon DEF RepaintInvariant, Repaintable, RepaintShowsText, FrameShows, Shows
<1> QED
  BY <1>1, <1>2, <1>3, TextAlways, PTL DEF Spec

-----------------------------------------------------------------------------
(* The inductive invariant for a panic: nothing happens after it. *)
LEMMA PanicNext == TextInvariant /\ PanicIsShown /\ [Next]_vars => PanicIsShown'
<1> SUFFICES ASSUME TextInvariant, PanicIsShown, [Next]_vars, mode' = "halted"
             PROVE  Shows(frame', g_display'[active_display'])
  BY Zenon DEF PanicIsShown, FrameShows, Shows
<1>1. ASSUME NEW msg \in PANIC_MESSAGES, panic(msg)
      PROVE  Shows(frame', g_display'[active_display'])
  <2>1. PICK a, c, u, m, t, q :
          /\ a = active_display /\ c = ClearTo(g_display[a]) /\ u = PrintAll(c, msg)
          /\ m = PanicMarks(u) /\ t = Repainted(m) /\ q = PaperAfter(msg)
    OBVIOUS
  <2>2. g_display \in [Display -> State] /\ a \in Display
    BY <2>1, TypeFacts, Zenon DEF TextInvariant
  <2>3. g_display[a] \in State
    BY <2>2, Zenon
  <2>4. c \in State /\ c.textbuf = Blank /\ c.cursor = 0
    BY <2>1, <2>3, ClearFacts
  <2>5. msg \in Seq(PRINTING \cup {"LF"})
    BY DisplayAssumption, Zenon DEF DisplayAssumption
  <2>6. u \in State /\ NothingBelow(u)
    BY <2>1, <2>4, <2>5, PrintAllFacts
  <2>7. /\ m \in State /\ m.textbuf = u.textbuf /\ m.cursor = u.cursor
        /\ m.is_dirty = TRUE /\ m.needs_full_repaint = TRUE /\ m.last_clean_line = 0
    BY <2>1, <2>6, PanicMarksFacts
  <2>8. m.last_clean_line <= Line(m.cursor)
    <3>1. m.cursor \in Nat
      BY <2>7, Fields
    <3>2. Line(m.cursor) \in Nat
      BY <3>1, LineBounds
    <3> QED
      BY <2>7, <3>2
  <2>9. Repaintable(frame, m, a, {})
    <3>1. NothingBelow(m) /\ a \notin {}
      BY <2>6, <2>7, SameText, Zenon
    <3> QED
      BY <2>7, <2>8, <3>1, Zenon DEF Repaintable
  <2>10. Shows(Painted(m), m)
    BY <2>7, <2>9, RepaintShows
  <2>11. t.textbuf = m.textbuf /\ t.cursor = m.cursor
    BY <2>1, <2>7, RepaintedFacts
  <2>12. Shows(Painted(m), t)
    BY <2>10, <2>11, Zenon DEF Shows
  <2>13. frame' = Painted(m) /\ g_display' = [g_display EXCEPT ![a] = t] /\ active_display' = a
    BY <1>1, <2>1, Zenon DEF panic
  <2>14. g_display'[a] = t
    BY <2>2, <2>13, Zenon
  <2> QED
    BY <2>12, <2>13, <2>14, Zenon
<1>2. CASE UNCHANGED vars
  <2>1. /\ g_display' = g_display /\ active_display' = active_display /\ frame' = frame
        /\ mode' = mode
    BY <1>2, Zenon DEF vars
  <2> QED
    BY <2>1, Zenon DEF PanicIsShown, FrameShows, Shows
<1>3. "run" # "halted"
  OBVIOUS
<1>4. ASSUME NEW d \in Display, (\E c \in OutChar : Output(d, c)) \/ Clear(d) \/ display_switch(d)
      PROVE  FALSE
  BY <1>3, <1>4, Zenon DEF Output, Clear, display_switch
<1>5. ~thread_display_update
  BY <1>3, Zenon DEF thread_display_update
<1> QED
  BY <1>1, <1>2, <1>4, <1>5, Zenon DEF Next, Halted

(* Whatever the marks and the text of the display were, a panic leaves its    *)
(* whole message, or as much of its end as fits, on the screen: the clear, the*)
(* print and the full repaint of panic() need nothing of the renderer.        *)
THEOREM PanicMessageShown == Spec => []PanicIsShown
<1>1. init_display => PanicIsShown
  <2>1. ASSUME init_display PROVE mode # "halted"
    BY <2>1 DEF init_display
  <2> QED
    BY <2>1, Zenon DEF PanicIsShown
<1>2. TextInvariant /\ PanicIsShown /\ [Next]_vars => PanicIsShown'
  BY PanicNext
<1> QED
  BY <1>1, <1>2, TextAlways, PTL DEF Spec
==============================================================================
