---------------------------- MODULE SerialProofs ----------------------------
(***************************************************************************)
(* Machine-checked proofs about Tty and Serial, for every buffer length,   *)
(* every number of readers and any line of bytes.                          *)
(***************************************************************************)
EXTENDS Serial, SequenceTheorems, FiniteSetTheorems, TLAPS

(* The inductive invariant of the line discipline: what was entered is the    *)
(* line, for as long as nothing was typed behind it.                          *)
LineInvariant ==
  /\ EchoMatchesLine
  /\ entered # <<>> => entered = line

(* The inductive invariant of the port.  The PLIC may hold a request whose    *)
(* byte was read; but not after a read that has timed out.                    *)
PortInvariant ==
  /\ SerialTypeOK
  /\ inService <=> handler = "claimed"
  /\ handler = "claimed" => ~latched
  /\ intc # "plic" => /\ handler # "idle" => rdr # NONE /\ ~latched
                      /\ latched => rdr # NONE
  /\ intc = "plic" => /\ timedOut /\ (handler # "idle" \/ latched) => rdr # NONE
                      /\ handler = "completed" /\ rdr = NONE => ~latched

-----------------------------------------------------------------------------
(* The port. *)

(* An idle line satisfies the invariant.                                      *)
LEMMA PortInit == Init => PortInvariant
BY DEF Init, PortInvariant, SerialTypeOK

(* Arrivals, claims, completions and reads keep it, in any order.             *)
LEMMA PortNext == PortInvariant /\ [Next]_vars => PortInvariant'
<1> SUFFICES ASSUME PortInvariant, [Next]_vars PROVE PortInvariant'
  OBVIOUS
<1> USE SerialAssumption DEF SerialAssumption, PortInvariant, SerialTypeOK, IrqLine
<1>1. ASSUME NEW c \in SENT, Arrive(c) PROVE PortInvariant'
  <2>1. rdr' \in Key /\ rdr' # NONE
    BY <1>1 DEF Arrive
  <2>2. /\ intc' = intc /\ inService' = inService /\ handler' = handler /\ timedOut' = timedOut
        /\ latched' = LatchAfterArrival(rdr')
    BY <1>1 DEF Arrive
  <2>3. latched' \in BOOLEAN
    BY <2>2, Zenon DEF LatchAfterArrival
  <2>4. handler = "claimed" => inService
    BY DEF PortInvariant
  <2> QED
    BY <2>1, <2>2, <2>3, <2>4 DEF LatchAfterArrival
<1>2. CASE claim_interrupt
  BY <1>2 DEF claim_interrupt, Requested
<1>3. CASE send_eoi
  BY <1>3 DEF send_eoi
<1>4. CASE serial_intr
  BY <1>4 DEF serial_intr
<1>5. CASE ReaderStep /\ UNCHANGED portVars
  BY <1>5 DEF portVars
<1>6. CASE UNCHANGED vars
  BY <1>6 DEF vars, portVars
<1> QED
  BY <1>1, <1>2, <1>3, <1>4, <1>5, <1>6 DEF Next

(* An interrupt finds its byte, except that the PLIC asks once for a byte that *)
(* was read already; never twice in a row.                                     *)
THEOREM InterruptFindsItsByte == Spec => []TimeoutsAreSpurious
<1>1. PortInvariant => TimeoutsAreSpurious
  BY SerialAssumption DEF SerialAssumption, PortInvariant, SerialTypeOK, TimeoutsAreSpurious
<1> QED
  BY <1>1, PortInit, PortNext, PTL DEF Spec

-----------------------------------------------------------------------------
(* The line. *)

(* The first n characters of a line.                                          *)
LEMMA PrefixFacts ==
  ASSUME NEW S, NEW s \in Seq(S), NEW n \in 0 .. Len(s)
  PROVE  /\ SubSeq(s, 1, n) \in Seq(S) /\ Len(SubSeq(s, 1, n)) = n
         /\ \A i \in 1 .. n : SubSeq(s, 1, n)[i] = s[i]
<1>1. Len(s) \in Nat /\ n \in Int
  BY LenProperties
<1>2. \A i \in 1 .. n : s[i] \in S
  BY <1>1, ElementOfSeq
<1> DEFINE p == SubSeq(s, 1, n)
<1>3. /\ p \in Seq(S) /\ Len(p) = IF 1 <= n THEN n - 1 + 1 ELSE 0
      /\ \A i \in 1 .. n - 1 + 1 : p[i] = s[1 + i - 1]
  BY <1>1, <1>2, SubSeqProperties
<1> HIDE DEF p
<1>4. Len(p) = n /\ \A i \in 1 .. n : p[i] = s[i]
  BY <1>1, <1>3
<1> QED
  BY <1>3, <1>4 DEF p

(* Text is the part of the buffer before the cursor.                          *)
LEMMA TextFacts ==
  ASSUME TypeOK
  PROVE  /\ Text \in Seq(Char) /\ Len(Text) = cursor
         /\ \A i \in 1 .. cursor : Text[i] = buf[i - 1]
<1>1. cursor \in Nat /\ cursor <= TTY_BUFIO_LEN - 1
  BY TtyAssumption DEF TypeOK, TtyAssumption
<1>2. \A i \in 1 .. cursor : buf[i - 1] \in Char
  BY <1>1, TtyAssumption DEF TypeOK, TtyAssumption
<1>3. Text \in [1 .. cursor -> Char]
  BY <1>2, Zenon DEF Text
<1>4. Text \in Seq(Char) /\ Len(Text) = cursor
  BY <1>1, <1>3
<1> QED
  BY <1>4, Zenon DEF Text

(* The same of the next state, in which the text is compared.                 *)
LEMMA TextFactsPrime ==
  ASSUME TypeOK'
  PROVE  /\ Text' \in Seq(Char) /\ Len(Text') = cursor'
         /\ \A i \in 1 .. cursor' : Text'[i] = buf'[i - 1]
<1>1. cursor' \in Nat /\ cursor' <= TTY_BUFIO_LEN - 1
  BY TtyAssumption DEF TypeOK, TtyAssumption
<1>2. \A i \in 1 .. cursor' : buf'[i - 1] \in Char
  BY <1>1, TtyAssumption DEF TypeOK, TtyAssumption
<1>3. Text' \in [1 .. cursor' -> Char]
  BY <1>2, Zenon DEF Text
<1>4. Text' \in Seq(Char) /\ Len(Text') = cursor'
  BY <1>1, <1>3
<1> QED
  BY <1>4, Zenon DEF Text

(* A character put behind the text and at the cursor.                         *)
LEMMA StoredText ==
  ASSUME TypeOK, TypeOK', NEW c \in Char, line = Text, cursor' = cursor + 1,
         line' = Append(line, c), buf'[cursor] = c,
         \A i \in 0 .. cursor - 1 : buf'[i] = buf[i]
  PROVE  line' = Text'
<1>1. line \in Seq(Char) /\ Len(line) = cursor /\ cursor \in Nat
  BY TextFacts, TtyAssumption DEF TypeOK, TtyAssumption
<1>2. line' \in Seq(Char) /\ Len(line') = cursor + 1 /\ line'[cursor + 1] = c
  BY <1>1
<1>3. ASSUME NEW i \in 1 .. cursor + 1 PROVE line'[i] = Text'[i]
  <2>1. Text'[i] = buf'[i - 1]
    BY TextFactsPrime
  <2>2. CASE i = cursor + 1
    BY <1>1, <1>2, <2>1, <2>2
  <2>3. CASE i # cursor + 1
    <3>1. i \in 1 .. cursor /\ i - 1 \in 0 .. cursor - 1
      BY <1>1, <2>3
    <3>2. line'[i] = line[i]
      BY <1>1, <3>1
    <3>3. line[i] = buf[i - 1]
      BY <3>1, TextFacts
    <3> QED
      BY <2>1, <3>1, <3>2, <3>3
  <2> QED
    BY <2>2, <2>3
<1>4. Text' \in Seq(Char) /\ Len(Text') = cursor + 1
  BY TextFactsPrime
<1> QED
  BY <1>2, <1>3, <1>4, SeqEqual

(* What is visible of a line is a finite set of positions.                    *)
LEMMA VisibleFacts ==
  ASSUME NEW s \in Seq(Char)
  PROVE  /\ Len(s) \in Nat
         /\ Visible(s) \subseteq 1 .. Len(s)
         /\ IsFiniteSet(Visible(s)) /\ Cardinality(Visible(s)) \in Nat
<1>1. Len(s) \in Nat
  BY LenProperties
<1>2. Visible(s) \subseteq 1 .. Len(s)
  BY DEF Visible
<1>3. IsFiniteSet(1 .. Len(s))
  BY <1>1, FS_Interval
<1> QED
  BY <1>1, <1>2, <1>3, FS_Subset, FS_CardinalityType

(* Two lines that differ in their last character t[Len(t)], a printing one:   *)
(* it is visible, behind all others, which stay in their cells.               *)
LEMMA LastIsVisible ==
  ASSUME NEW s \in Seq(Char), NEW t \in Seq(Char), Len(t) = Len(s) + 1,
         \A i \in 1 .. Len(s) : t[i] = s[i], t[Len(t)] \in PRINTING
  PROVE  /\ Visible(t) = Visible(s) \cup {Len(t)}
         /\ Cardinality(Visible(t)) = Cardinality(Visible(s)) + 1
         /\ \A i \in Visible(s) : Cell(t, i) = Cell(s, i) /\ Cell(s, i) \in 1 .. Cardinality(Visible(s))
         /\ Cell(t, Len(t)) = Cardinality(Visible(t))
<1> USE TtyAssumption DEF TtyAssumption
<1> DEFINE n == Len(s)
<1>1. /\ n \in Nat /\ Visible(s) \subseteq 1 .. n /\ Visible(t) \subseteq 1 .. n + 1
      /\ IsFiniteSet(Visible(s)) /\ Cardinality(Visible(s)) \in Nat
  BY VisibleFacts
<1>2. t[n + 1] \in PRINTING /\ t[n + 1] # "LF"
  BY <1>1
<1>3. Visible(t) = Visible(s) \cup {n + 1}
  <2>1. ASSUME NEW i \in 1 .. n PROVE i \in Visible(t) <=> i \in Visible(s)
    <3>1. \A j \in i .. n : t[j] = s[j]
      BY <1>1
    <3>2. \A j \in i .. n + 1 : j \in i .. n \/ j = n + 1
      BY <1>1
    <3>3. (\A j \in i .. n + 1 : t[j] # "LF") <=> (\A j \in i .. n : s[j] # "LF")
      <4>1. \A j \in i .. n : j \in i .. n + 1
        BY <1>1
      <4> QED
        BY <1>2, <3>1, <3>2, <4>1
    <3>4. i \in 1 .. n + 1 /\ t[i] = s[i]
      BY <1>1
    <3> QED
      BY <3>3, <3>4 DEF Visible
  <2>2. n + 1 \in Visible(t)
    <3>1. n + 1 \in 1 .. n + 1 /\ \A j \in n + 1 .. n + 1 : j = n + 1
      BY <1>1
    <3> QED
      BY <1>2, <3>1 DEF Visible
  <2>3. \A i \in 1 .. n + 1 : i \in 1 .. n \/ i = n + 1
    BY <1>1
  <2> QED
    BY <1>1, <2>1, <2>2, <2>3
<1>4. n + 1 \notin Visible(s)
  BY <1>1
<1>5. Cardinality(Visible(t)) = Cardinality(Visible(s)) + 1
  BY <1>1, <1>3, <1>4, FS_AddElement
<1>6. ASSUME NEW i \in Visible(s)
      PROVE  Cell(t, i) = Cell(s, i) /\ Cell(s, i) \in 1 .. Cardinality(Visible(s))
  <2> DEFINE B == {j \in Visible(s) : j <= i}
  <2>1. {j \in Visible(t) : j <= i} = B
    BY <1>1, <1>3
  <2>2. IsFiniteSet(B) /\ Cardinality(B) <= Cardinality(Visible(s)) /\ Cardinality(B) \in Nat
    BY <1>1, FS_Subset, FS_CardinalityType
  <2>3. i \in B
    BY <1>1
  <2>4. Cardinality(B) # 0
    BY <2>2, <2>3, FS_EmptySet
  <2> HIDE DEF B
  <2>5. Cardinality(B) \in 1 .. Cardinality(Visible(s))
    BY <1>1, <2>2, <2>4
  <2> QED
    BY <2>1, <2>5 DEF Cell, B
<1>7. {j \in Visible(t) : j <= n + 1} = Visible(t)
  BY <1>1
<1>8. Cell(t, n + 1) = Cardinality(Visible(t))
  BY <1>7, Zenon DEF Cell
<1> QED
  BY <1>3, <1>5, <1>6, <1>8

(* A printing character goes to the cell behind the row, a newline begins a   *)
(* row and a NUL leaves it.                                                   *)
LEMMA EchoIsRow ==
  ASSUME NEW s \in Seq(Char), NEW row \in Seq(PRINTING), NEW c \in Char, IsRow(row, s)
  PROVE  Echo(row, c) \in Seq(PRINTING) /\ IsRow(Echo(row, c), Append(s, c))
<1> USE TtyAssumption DEF TtyAssumption
<1> DEFINE t == Append(s, c)
<1> DEFINE n == Len(s)
<1>1. /\ n \in Nat /\ t \in Seq(Char) /\ Len(t) = n + 1
      /\ \A i \in 1 .. n : t[i] = s[i]
      /\ t[n + 1] = c
  BY AppendProperties, LenProperties
<1> HIDE DEF t
<1>2. Visible(t) \subseteq 1 .. n + 1 /\ Visible(s) \subseteq 1 .. n
  BY <1>1, VisibleFacts
<1>3. CASE c = "LF"
  <2>1. Echo(row, c) = <<>> /\ <<>> \in Seq(PRINTING) /\ Len(<<>>) = 0
    BY <1>3, EmptySeq DEF Echo
  <2>2. Visible(t) = {}
    <3> SUFFICES ASSUME NEW i \in Visible(t) PROVE FALSE
      OBVIOUS
    <3>1. i \in 1 .. n + 1 /\ \A j \in i .. n + 1 : t[j] # "LF"
      BY <1>1 DEF Visible
    <3>2. n + 1 \in i .. n + 1
      BY <1>1, <3>1
    <3> QED
      BY <1>1, <1>3, <3>1, <3>2
  <2>3. IsRow(<<>>, t)
    BY <2>1, <2>2, FS_EmptySet DEF IsRow
  <2> QED
    BY <2>1, <2>3 DEF t
<1>4. CASE c = "NUL"
  <2>1. Echo(row, c) = row
    BY <1>4 DEF Echo
  <2>2. Visible(t) = Visible(s)
    <3>1. ASSUME NEW i \in 1 .. n PROVE i \in Visible(t) <=> i \in Visible(s)
      <4>1. \A j \in i .. n : t[j] = s[j] /\ j \in i .. n + 1
        BY <1>1
      <4>2. \A j \in i .. n + 1 : j \in i .. n \/ j = n + 1
        BY <1>1
      <4>3. i \in 1 .. n + 1 /\ t[i] = s[i] /\ t[n + 1] # "LF"
        BY <1>1, <1>4
      <4> QED
        BY <1>1, <4>1, <4>2, <4>3 DEF Visible
    <3>2. n + 1 \notin Visible(t)
      BY <1>1, <1>4 DEF Visible
    <3>3. \A i \in 1 .. n + 1 : i \in 1 .. n \/ i = n + 1
      BY <1>1
    <3>4. n + 1 \notin Visible(s)
      BY <1>1, <1>2
    <3> QED
      BY <1>2, <3>1, <3>2, <3>3, <3>4
  <2>3. \A i \in Visible(s) : Cell(t, i) = Cell(s, i) /\ t[i] = s[i]
    BY <1>1, <1>2, <2>2 DEF Cell
  <2>4. IsRow(row, t)
    BY <2>2, <2>3 DEF IsRow
  <2> QED
    BY <2>1, <2>4 DEF t
<1>5. CASE c \in PRINTING
  <2> DEFINE m == Cardinality(Visible(s))
  <2>1. Echo(row, c) = Append(row, c)
    BY <1>5 DEF Echo
  <2>2. m \in Nat /\ Len(row) = m
    BY VisibleFacts DEF IsRow
  <2>3. /\ Append(row, c) \in Seq(PRINTING) /\ Len(Append(row, c)) = m + 1
        /\ \A k \in 1 .. m : Append(row, c)[k] = row[k]
        /\ Append(row, c)[m + 1] = c
    BY <1>5, <2>2, AppendProperties
  <2>4. /\ Visible(t) = Visible(s) \cup {n + 1} /\ Cardinality(Visible(t)) = m + 1
        /\ \A i \in Visible(s) : Cell(t, i) = Cell(s, i) /\ Cell(s, i) \in 1 .. m
        /\ Cell(t, n + 1) = m + 1
    BY <1>1, <1>5, LastIsVisible
  <2> HIDE DEF m
  <2>5. ASSUME NEW i \in Visible(s) PROVE Append(row, c)[Cell(t, i)] = t[i]
    <3>1. row[Cell(s, i)] = s[i]
      BY DEF IsRow
    <3> QED
      BY <1>1, <1>2, <2>3, <2>4, <3>1
  <2>6. IsRow(Append(row, c), t)
    BY <1>1, <2>3, <2>4, <2>5 DEF IsRow
  <2> QED
    BY <2>1, <2>3, <2>6 DEF t
<1> QED
  BY <1>3, <1>4, <1>5 DEF Char

(* A deletion of a printing character takes that one off the row.             *)
LEMMA EraseIsRow ==
  ASSUME NEW s \in Seq(Char), NEW row \in Seq(PRINTING), IsRow(row, s), Len(s) # 0,
         s[Len(s)] \in PRINTING
  PROVE  IsRow(EchoErase(row), SubSeq(s, 1, Len(s) - 1))
<1> DEFINE t == SubSeq(s, 1, Len(s) - 1)
<1> DEFINE n == Len(s) - 1
<1>1. Len(s) \in Nat /\ n \in 0 .. Len(s) /\ Len(s) = n + 1 /\ n \in Nat
  BY LenProperties
<1>2. t \in Seq(Char) /\ Len(t) = n /\ \A i \in 1 .. n : t[i] = s[i]
  BY <1>1, PrefixFacts
<1> HIDE DEF t, n
<1> DEFINE m == Cardinality(Visible(t))
<1>3. /\ Visible(s) = Visible(t) \cup {n + 1} /\ Cardinality(Visible(s)) = m + 1
      /\ \A i \in Visible(t) : Cell(s, i) = Cell(t, i) /\ Cell(t, i) \in 1 .. m
  BY <1>1, <1>2, LastIsVisible
<1>4. m \in Nat /\ Visible(t) \subseteq 1 .. n
  BY <1>2, VisibleFacts
<1> HIDE DEF m
<1>5. Len(row) = m + 1 /\ row # <<>>
  BY <1>3, <1>4, EmptySeq DEF IsRow
<1>6. EchoErase(row) = SubSeq(row, 1, m)
  <2>1. Len(row) - 1 = m
    BY <1>4, <1>5
  <2> QED
    BY <1>5, <2>1 DEF EchoErase
<1>7. Len(SubSeq(row, 1, m)) = m /\ \A k \in 1 .. m : SubSeq(row, 1, m)[k] = row[k]
  <2>1. m \in 0 .. Len(row)
    BY <1>4, <1>5
  <2> QED
    BY <2>1, PrefixFacts
<1>8. ASSUME NEW i \in Visible(t) PROVE SubSeq(row, 1, m)[Cell(t, i)] = t[i]
  <2>1. row[Cell(s, i)] = s[i]
    BY <1>3 DEF IsRow
  <2> QED
    BY <1>2, <1>3, <1>4, <1>7, <2>1
<1>9. IsRow(SubSeq(row, 1, m), t)
  BY <1>7, <1>8 DEF IsRow, m
<1> QED
  BY <1>6, <1>9, Zenon DEF t, n

(* Nothing is shown of nothing.                                               *)
LEMMA EmptyRow == IsRow(<<>>, <<>>)
<1>1. Visible(<<>>) = {} /\ Len(<<>>) = 0
  BY DEF Visible
<1> QED
  BY <1>1, FS_EmptySet DEF IsRow

(* An empty buffer satisfies the invariant.                                   *)
LEMMA LineInit == Init => LineInvariant
<1> SUFFICES ASSUME tty_attach PROVE LineInvariant
  BY DEF Init
<1>1. TypeOK
  BY TtyAssumption DEF tty_attach, TypeOK, TtyAssumption, Char
<1>2. Text = <<>>
  <2>1. Text \in Seq(Char) /\ Len(Text) = 0
    BY <1>1, TextFacts DEF tty_attach
  <2> QED
    BY <2>1, EmptySeq
<1>3. line = <<>> /\ shown = <<>> /\ cursor = 0 /\ Len(line) = 0 /\ entered = <<>>
  BY DEF tty_attach
<1>4. IsRow(shown, line)
  BY <1>3, EmptyRow
<1> QED
  BY <1>1, <1>2, <1>3, <1>4 DEF LineInvariant, EchoMatchesLine

(* The echo keeps the terminal at the last row of the line.                   *)
LEMMA EchoStep ==
  ASSUME LineInvariant, NEW c \in Char
  PROVE  Echo(shown, c) \in Seq(PRINTING) /\ (~stray => IsRow(Echo(shown, c), Append(line, c)))
<1>1. shown \in Seq(PRINTING) /\ line \in Seq(Char) /\ (~stray => IsRow(shown, line))
  BY DEF LineInvariant, EchoMatchesLine, TypeOK
<1>2. Echo(shown, c) \in Seq(PRINTING)
  BY <1>1, TtyAssumption, EmptySeq, AppendProperties DEF Echo, Char, TtyAssumption
<1> QED
  BY <1>1, <1>2, EchoIsRow

(* A character that is echoed and stored, or only echoed in a full buffer.    *)
LEMMA StoreCharStep ==
  ASSUME LineInvariant, NEW c \in Char, StoreChar(c), result' = <<>>, UNCHANGED pending_sigint
  PROVE  LineInvariant'
<1> USE TtyAssumption DEF TtyAssumption
<1>1. TypeOK /\ line \in Seq(Char) /\ cursor \in Nat /\ cursor <= Len(line)
  BY DEF LineInvariant, EchoMatchesLine, TypeOK
<1>2. /\ line' = Append(line, c) /\ shown' = Echo(shown, c) /\ entered' = <<>>
      /\ dropped' = (dropped \/ ~HasRoom)
      /\ data_ready' = data_ready /\ pc' = pc /\ stray' = stray
  BY DEF StoreChar
<1>3. line' \in Seq(Char) /\ Len(line') = Len(line) + 1 /\ Len(line) \in Nat
  BY <1>1, <1>2
<1>4. buf' \in [0 .. TTY_BUFIO_LEN - 1 -> Char] /\ cursor' \in 0 .. TTY_BUFIO_LEN - 1
  BY <1>1 DEF StoreChar, HasRoom, TypeOK
<1>5. dropped' \in BOOLEAN
  BY <1>2, Zenon DEF HasRoom
<1>6. TypeOK'
  BY <1>1, <1>2, <1>3, <1>4, <1>5, EchoStep DEF TypeOK
<1>7. cursor' <= Len(line')
  BY <1>1, <1>3 DEF StoreChar
<1>8. ASSUME ~dropped' PROVE line' = Text'
  <2>1. ~dropped /\ HasRoom
    BY <1>2, <1>8
  <2>2. line = Text
    BY <2>1 DEF LineInvariant, EchoMatchesLine
  <2>3. cursor' = cursor + 1 /\ buf' = [buf EXCEPT ![cursor] = c]
    BY <2>1 DEF StoreChar
  <2>4. buf'[cursor] = c /\ \A i \in 0 .. cursor - 1 : buf'[i] = buf[i]
    BY <1>1, <2>3 DEF TypeOK
  <2> QED
    BY <1>1, <1>2, <1>6, <2>2, <2>3, <2>4, StoredText, Zenon
<1>9. ~stray' => IsRow(shown', line')
  BY <1>2, EchoStep
<1> QED
  BY <1>2, <1>6, <1>7, <1>8, <1>9 DEF LineInvariant, EchoMatchesLine

(* The end of a line, which may also lie, uncounted, in the last byte.         *)
LEMMA StoreLineEndStep ==
  ASSUME LineInvariant, StoreLineEnd, result' = <<>>, UNCHANGED pending_sigint
  PROVE  LineInvariant'
<1> USE TtyAssumption DEF TtyAssumption
<1>1. TypeOK /\ line \in Seq(Char) /\ cursor \in Nat /\ cursor <= Len(line)
  BY DEF LineInvariant, EchoMatchesLine, TypeOK
<1>2. /\ line' = Append(line, "LF") /\ shown' = Echo(shown, "LF") /\ entered' = line'
      /\ dropped' = (dropped \/ ~HasRoom)
      /\ data_ready' = TRUE /\ wakeup /\ stray' = stray
  BY DEF StoreLineEnd
<1>3. "LF" \in Char
  BY DEF Char
<1>4. line' \in Seq(Char) /\ Len(line') = Len(line) + 1 /\ Len(line) \in Nat
  BY <1>1, <1>2, <1>3
<1>5. buf' \in [0 .. TTY_BUFIO_LEN - 1 -> Char] /\ cursor' \in 0 .. TTY_BUFIO_LEN - 1
  <2>1. DOMAIN buf = 0 .. TTY_BUFIO_LEN - 1 /\ \A i \in DOMAIN buf : buf[i] \in Char
    BY <1>1 DEF TypeOK
  <2>2. buf' = [i \in DOMAIN buf |-> IF i \in LineEndAt THEN "LF" ELSE buf[i]]
    BY DEF StoreLineEnd
  <2>3. cursor' \in 0 .. TTY_BUFIO_LEN - 1
    BY <1>1 DEF StoreLineEnd, CursorAfterStore, HasRoom, TypeOK
  <2> QED
    BY <1>3, <2>1, <2>2, <2>3
<1>6. dropped' \in BOOLEAN
  BY <1>2, Zenon DEF HasRoom
<1>7. pc' \in [Reader -> {"outside", "asleep", "woken"}]
  BY <1>1, <1>2 DEF wakeup, TypeOK
<1>8. TypeOK'
  BY <1>1, <1>2, <1>3, <1>4, <1>5, <1>6, <1>7, EchoStep DEF TypeOK
<1>9. cursor' <= Len(line')
  BY <1>1, <1>4 DEF StoreLineEnd, CursorAfterStore
<1>10. ASSUME ~dropped' PROVE line' = Text'
  <2>1. ~dropped /\ HasRoom
    BY <1>2, <1>10
  <2>2. line = Text
    BY <2>1 DEF LineInvariant, EchoMatchesLine
  <2>3. cursor' = cursor + 1
    BY <2>1 DEF StoreLineEnd, CursorAfterStore
  <2>4. buf'[cursor] = "LF" /\ \A i \in 0 .. cursor - 1 : buf'[i] = buf[i]
    BY <1>1, <2>1 DEF TypeOK, StoreLineEnd, LineEndAt, CursorAfterStore, HasRoom
  <2> QED
    BY <1>1, <1>2, <1>3, <1>8, <2>2, <2>3, <2>4, StoredText, Zenon
<1>11. ~stray' => IsRow(shown', line')
  BY <1>2, <1>3, EchoStep
<1> QED
  BY <1>2, <1>8, <1>9, <1>10, <1>11 DEF LineInvariant, EchoMatchesLine

(* The deletion takes one character off the terminal and one off the buffer.  *)
LEMMA EraseStep ==
  ASSUME LineInvariant, Erase, result' = <<>>, UNCHANGED pending_sigint
  PROVE  LineInvariant'
<1> USE TtyAssumption DEF TtyAssumption
<1>1. CASE cursor = 0
  <2>1. UNCHANGED <<buf, cursor, data_ready, pc, typedVars>>
    BY <1>1 DEF Erase
  <2>2. Text' = Text /\ (IsRow(shown, line) => IsRow(shown', line'))
    BY <2>1, Zenon DEF Text, typedVars
  <2> QED
    BY <2>1, <2>2 DEF LineInvariant, EchoMatchesLine, TypeOK, typedVars
<1>2. CASE cursor # 0
  <2>1. TypeOK /\ line \in Seq(Char) /\ cursor \in Nat /\ cursor > 0 /\ cursor <= Len(line)
    BY <1>2 DEF LineInvariant, EchoMatchesLine, TypeOK
  <2>2. /\ buf' = [buf EXCEPT ![cursor] = "NUL"] /\ cursor' = cursor - 1
        /\ line' = SubSeq(line, 1, Len(line) - 1) /\ entered' = <<>>
        /\ data_ready' = data_ready /\ pc' = pc /\ dropped' = dropped
        /\ shown' = EchoErase(shown) /\ stray' = (stray \/ line[Len(line)] \notin PRINTING)
    BY <1>2 DEF Erase
  <2>3. Len(line) \in Nat /\ Len(line) - 1 \in 0 .. Len(line)
    BY <2>1
  <2>4. /\ line' \in Seq(Char) /\ Len(line') = Len(line) - 1
        /\ \A i \in 1 .. Len(line) - 1 : line'[i] = line[i]
    BY <2>1, <2>2, <2>3, PrefixFacts, Zenon
  <2>5. buf' \in [0 .. TTY_BUFIO_LEN - 1 -> Char] /\ cursor' \in 0 .. TTY_BUFIO_LEN - 1
    BY <2>1, <2>2 DEF TypeOK, Char
  <2>9. shown' \in Seq(PRINTING)
    <3>1. shown \in Seq(PRINTING)
      BY <2>1 DEF TypeOK
    <3>2. shown # <<>> => Len(shown) - 1 \in 0 .. Len(shown)
      BY <3>1, EmptySeq
    <3> QED
      BY <2>2, <3>1, <3>2, PrefixFacts DEF EchoErase
  <2>10. stray' \in BOOLEAN
    BY <2>2, Zenon
  <2>6. TypeOK'
    BY <2>1, <2>2, <2>4, <2>5, <2>9, <2>10 DEF TypeOK
  <2>11. ASSUME ~stray' PROVE IsRow(shown', line')
    <3>1. ~stray /\ line[Len(line)] \in PRINTING
      BY <2>2, <2>11, Zenon
    <3>2. IsRow(shown, line) /\ shown \in Seq(PRINTING) /\ Len(line) # 0
      BY <2>1, <2>3, <3>1 DEF LineInvariant, EchoMatchesLine, TypeOK
    <3> QED
      BY <2>1, <2>2, <3>1, <3>2, EraseIsRow
  <2>7. cursor' <= Len(line')
    BY <2>1, <2>2, <2>3, <2>4
  <2>8. ASSUME ~dropped' PROVE line' = Text'
    <3>1. line = Text
      BY <2>2, <2>8 DEF LineInvariant, EchoMatchesLine
    <3>2. Len(line) = cursor /\ \A i \in 1 .. cursor : line[i] = buf[i - 1]
      BY <2>1, <3>1, TextFacts, Zenon
    <3>3. /\ Text' \in Seq(Char) /\ Len(Text') = cursor - 1
          /\ \A i \in 1 .. cursor' : Text'[i] = buf'[i - 1]
      BY <2>2, <2>6, TextFactsPrime, Zenon
    <3>4. ASSUME NEW i \in 1 .. cursor - 1 PROVE line'[i] = Text'[i]
      <4>1. Text'[i] = buf'[i - 1]
        BY <2>2, <3>3
      <4>2. line'[i] = buf[i - 1]
        BY <2>1, <2>4, <3>2
      <4>3. buf'[i - 1] = buf[i - 1]
        BY <2>1, <2>2 DEF TypeOK
      <4> QED
        BY <4>1, <4>2, <4>3
    <3>5. Len(line') = cursor - 1
      BY <2>4, <3>2
    <3> QED
      BY <2>4, <3>3, <3>4, <3>5, SeqEqual
  <2> QED
    BY <2>2, <2>6, <2>7, <2>8, <2>11 DEF LineInvariant, EchoMatchesLine
<1> QED
  BY <1>1, <1>2

(* The reader that finds a line takes a prefix of the text and empties it.    *)
LEMMA DrainFacts ==
  ASSUME TypeOK, NEW r \in Reader, Drain(r)
  PROVE  /\ result' = SubSeq(Text, 1, IF r < cursor THEN r ELSE cursor)
         /\ result' \in Seq(Char)
         /\ data_ready' = FALSE /\ cursor' = 0 /\ line' = <<>> /\ shown' = <<>>
         /\ dropped' = FALSE /\ stray' = FALSE /\ entered' = <<>> /\ buf' = buf
<1> DEFINE n == IF r < cursor THEN r ELSE cursor
<1>1. n \in 0 .. cursor
  BY TtyAssumption DEF TypeOK, TtyAssumption, Reader
<1>2. Text \in Seq(Char) /\ Len(Text) = cursor
  BY TextFacts
<1>3. SubSeq(Text, 1, n) \in Seq(Char)
  BY <1>1, <1>2, PrefixFacts
<1> QED
  BY <1>3 DEF Drain

(* What leaves the buffer alone leaves the invariant alone.                   *)
LEMMA QuietLine ==
  ASSUME LineInvariant, UNCHANGED <<buf, cursor, data_ready, typedVars>>,
         result' \in Seq(Char), pc' \in [Reader -> {"outside", "asleep", "woken"}],
         pending_sigint' \in [Reader -> BOOLEAN]
  PROVE  LineInvariant'
<1>1. Text' = Text /\ (IsRow(shown, line) => IsRow(shown', line'))
  BY Zenon DEF Text, typedVars
<1> QED
  BY <1>1 DEF LineInvariant, EchoMatchesLine, TypeOK, typedVars

(* A reader takes the line or goes to sleep.                                  *)
LEMMA ReadStep ==
  ASSUME LineInvariant, NEW r \in Reader, ReadOrSleep(r)
  PROVE  LineInvariant'
<1> USE TtyAssumption DEF TtyAssumption
<1>1. TypeOK
  BY DEF LineInvariant, EchoMatchesLine
<1>2. pc' \in [Reader -> {"outside", "asleep", "woken"}]
  BY <1>1 DEF ReadOrSleep, TypeOK
<1>3. CASE data_ready
  <2>1. Drain(r)
    BY <1>3 DEF ReadOrSleep
  <2>2. /\ result' \in Seq(Char) /\ data_ready' = FALSE /\ cursor' = 0 /\ line' = <<>> /\ shown' = <<>>
        /\ dropped' = FALSE /\ stray' = FALSE /\ entered' = <<>> /\ buf' = buf
        /\ pending_sigint' = pending_sigint
    BY <1>1, <2>1, DrainFacts, Zenon DEF ReadOrSleep
  <2>3. TypeOK'
    <3>1. line' \in Seq(Char) /\ entered' \in Seq(Char) /\ shown' \in Seq(PRINTING)
      BY <2>2, EmptySeq, Zenon
    <3>2. cursor' \in 0 .. TTY_BUFIO_LEN - 1
      BY <2>2
    <3> QED
      BY <1>1, <1>2, <2>2, <3>1, <3>2, Zenon DEF TypeOK
  <2>4. Text' = <<>>
    BY <2>2, <2>3, TextFactsPrime, EmptySeq
  <2>5. Len(line') = 0 /\ IsRow(shown', line')
    BY <2>2, EmptyRow
  <2> QED
    BY <2>2, <2>3, <2>4, <2>5 DEF LineInvariant, EchoMatchesLine
<1>4. CASE ~data_ready
  <2>1. result' = <<>> /\ UNCHANGED <<buf, cursor, data_ready, pending_sigint, typedVars>>
    BY <1>4 DEF ReadOrSleep
  <2> QED
    BY <1>1, <1>2, <2>1, EmptySeq, QuietLine DEF TypeOK
<1> QED
  BY <1>3, <1>4

(* Every step keeps it: keys, time-outs, and readers in any order.            *)
LEMMA LineNext == LineInvariant /\ [Next]_vars => LineInvariant'
<1> SUFFICES ASSUME LineInvariant, [Next]_vars PROVE LineInvariant'
  OBVIOUS
<1>1. TypeOK /\ result \in Seq(Char) /\ <<>> \in Seq(Char)
  BY EmptySeq DEF LineInvariant, EchoMatchesLine, TypeOK
<1>2. CASE UNCHANGED ttyVars
  BY <1>1, <1>2, QuietLine DEF ttyVars, TypeOK
<1>3. CASE serial_intr
  <2> DEFINE c == serial_getc
  <2>1. tty_new_data(c)
    BY <1>3 DEF serial_intr
  <2> HIDE DEF c
  <2>2. result' = <<>>
    BY <2>1 DEF tty_new_data
  <2>3. CASE task_interrupt_by_tty
    <3>1. pending_sigint' \in [Reader -> BOOLEAN]
      BY <2>3, Zenon DEF task_interrupt_by_tty
    <3>2. UNCHANGED <<buf, cursor, data_ready, pc, typedVars>>
      BY <2>3 DEF task_interrupt_by_tty
    <3> QED
      BY <1>1, <2>2, <3>1, <3>2, QuietLine DEF TypeOK
  <2>4. CASE Erase /\ UNCHANGED pending_sigint
    BY <2>2, <2>4, EraseStep
  <2>5. CASE StoreLineEnd /\ UNCHANGED pending_sigint
    BY <2>2, <2>5, StoreLineEndStep
  <2>6. CASE c \in PRINTING \cup {"NUL"} /\ StoreChar(c) /\ UNCHANGED pending_sigint
    <3>1. c \in Char
      BY <2>6 DEF Char
    <3> QED
      BY <2>2, <2>6, <3>1, StoreCharStep
  <2> QED
    BY <2>1, <2>3, <2>4, <2>5, <2>6 DEF tty_new_data
<1>4. CASE ReaderStep
  <2>1. PICK r \in Reader : ReadOrSleep(r) \/ task_handle_signals(r)
    BY <1>4 DEF ReaderStep, Resume, ResumeOutside, tty_readin
  <2>2. CASE ReadOrSleep(r)
    BY <2>2, ReadStep
  <2>3. CASE task_handle_signals(r)
    <3>1. /\ pc' \in [Reader -> {"outside", "asleep", "woken"}]
          /\ pending_sigint' \in [Reader -> BOOLEAN]
      BY <1>1, <2>3 DEF task_handle_signals, TypeOK
    <3>2. result' = <<>> /\ UNCHANGED <<buf, cursor, data_ready, typedVars>>
      BY <2>3 DEF task_handle_signals
    <3> QED
      BY <1>1, <3>1, <3>2, QuietLine
  <2> QED
    BY <2>1, <2>2, <2>3
<1>5. \/ UNCHANGED ttyVars \/ serial_intr \/ ReaderStep
  BY DEF Next, vars, Arrive, claim_interrupt, send_eoi
<1> QED
  BY <1>2, <1>3, <1>4, <1>5

(* The terminal shows the last row of the line that was typed, until a        *)
(* deletion takes a newline or a NUL off the buffer, and a reader will get    *)
(* that line, until the buffer is full: for every line and every order of     *)
(* keys, time-outs and reads.                                                 *)
THEOREM EchoIsTheLine == Spec => []EchoMatchesLine
<1>1. LineInvariant => EchoMatchesLine
  BY DEF LineInvariant
<1> QED
  BY <1>1, LineInit, LineNext, PTL DEF Spec

(* Only a reader clears data_ready, and it returns what was entered.          *)
LEMMA DeliverNext == LineInvariant /\ [Next]_vars => [DeliverStep]_ttyVars
<1> SUFFICES ASSUME LineInvariant, [Next]_vars, ttyVars' # ttyVars PROVE DeliverStep
  OBVIOUS
<1>1. TypeOK
  BY DEF LineInvariant, EchoMatchesLine
<1>2. CASE serial_intr
  <2>1. data_ready' = data_ready \/ data_ready' = TRUE
    BY <1>2 DEF serial_intr, tty_new_data, task_interrupt_by_tty, Erase, StoreLineEnd, StoreChar
  <2> QED
    BY <2>1 DEF DeliverStep
<1>3. CASE ReaderStep
  <2> SUFFICES ASSUME data_ready, ~data_ready'
               PROVE  /\ cursor' = 0
                      /\ (entered # <<>> /\ ~dropped)
                           => \E r \in Reader :
                                /\ pc'[r] = "outside"
                                /\ result' = SubSeq(entered, 1, IF r < Len(entered) THEN r ELSE Len(entered))
    BY DEF DeliverStep
  <2>1. PICK r \in Reader : Drain(r) /\ pc' = [pc EXCEPT ![r] = "outside"]
    BY <1>3 DEF ReaderStep, Resume, ResumeOutside, task_handle_signals, tty_readin, ReadOrSleep
  <2>2. cursor' = 0 /\ result' = SubSeq(Text, 1, IF r < cursor THEN r ELSE cursor)
    BY <1>1, <2>1, DrainFacts, Zenon
  <2>3. pc'[r] = "outside"
    BY <1>1, <2>1 DEF TypeOK
  <2>4. ASSUME entered # <<>>, ~dropped
        PROVE  entered = Text /\ Len(entered) = cursor
    <3>1. entered = Text
      BY <2>4 DEF LineInvariant, EchoMatchesLine
    <3> QED
      BY <1>1, <3>1, TextFacts
  <2> QED
    BY <2>2, <2>3, <2>4, Zenon
<1>4. serial_intr \/ ReaderStep
  BY DEF Next, vars, Arrive, claim_interrupt, send_eoi
<1> QED
  BY <1>2, <1>3, <1>4

(* A line that was ended is delivered whole, and to one reader.               *)
THEOREM LinesAreDelivered == Spec => LineIsDelivered
<1> QED
  BY LineInit, LineNext, DeliverNext, PTL DEF Spec, LineIsDelivered
=============================================================================
