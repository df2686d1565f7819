--------------------------- MODULE KeyboardProofs ---------------------------
(***************************************************************************)
(* Machine-checked proofs about I8042 and Keyboard: what the start-up      *)
(* leaves, for every time-out and every delay below it; which modifiers    *)
(* the decoder believes to be down, and what it makes of the other keys,   *)
(* for any keys, however many and however late their bytes are read.       *)
(***************************************************************************)
EXTENDS I8042, SequenceTheorems, TLAPS

(* The byte at i is the one of a key that went up. *)
Releases(i) == IF i = 1 THEN is_letting_go ELSE wire[i - 1] = RELEASE_CODE

(* A release code is followed by the key that went up.                        *)
WireIsPaired ==
  /\ is_letting_go => wire # <<>> /\ wire[1] # RELEASE_CODE
  /\ \A i \in 1 .. Len(wire) :
       wire[i] = RELEASE_CODE => i < Len(wire) /\ wire[i + 1] # RELEASE_CODE

(* The last byte of a modifier that is under way tells whether it is down;    *)
(* if there is none, the decoder does.                                        *)
LastByteTells ==
  \A m \in Modifier :
    /\ (\A i \in 1 .. Len(wire) : wire[i] # m) => (m \in mods <=> m \in held)
    /\ \A i \in 1 .. Len(wire) :
         (wire[i] = m /\ \A j \in i + 1 .. Len(wire) : wire[j] # m)
           => (m \in held <=> ~Releases(i))

(* The inductive invariant of the keyboard, once it was started.              *)
KeyInvariant ==
  /\ wire \in Seq(KEYS \cup {RELEASE_CODE})
  /\ is_letting_go \in BOOLEAN /\ mods \subseteq Modifier
  /\ presses \in Nat
  /\ presses = 0 => held = {} /\ wire = <<>>
  /\ WireIsPaired /\ LastByteTells

(* The loop of ps2_reset_device1 has counted at most the polls since the last *)
(* byte, so the count ends after the last answer.                             *)
DrainCounts ==
  /\ chip = "ok" /\ owed \in Seq(Answer)
  /\ retries <= PS2_TIMEOUT
  /\ wire # <<>> => retries <= DELAY /\ quiet = 0
  /\ owed # <<>> /\ wire = <<>> => retries = quiet

(* The loop of i8042_read has counted the polls since the command, so it does *)
(* not give up on a controller that answers.                                  *)
TestCounts ==
  /\ owed \in {<<>>, <<PASS>>, <<FAIL>>}
  /\ owed = <<>> <=> reply # NONE
  /\ owed # <<>> /\ chip = "ok" => retries = quiet

(* The inductive invariant of the start-up and the keyboard.  The controller's *)
(* own answers never end up among the keyboard's bytes.                        *)
BootInvariant ==
  /\ BootTypeOK
  /\ wire \in Seq(Byte)
  /\ reply # NONE => chip = "ok"
  /\ boot \in {"start", "config", "refused"} => owed = <<>>
  /\ boot \in {"start", "config"} => reply = NONE
  /\ boot \in {"selftest", "porttest"} => TestCounts
  /\ boot = "panic" => chip # "ok"
  /\ boot = "drain" => DrainCounts
  /\ boot = "done" => owed = <<>> /\ KeyInvariant
  /\ boot # "done" => DecoderInit

(* What the decoder knows before a byte: the modifiers, the active display,   *)
(* and how many keys were received.                                           *)
Decoder == [mods : SUBSET Modifier, active : 0 .. NUM_DISPLAYS - 1, n : Nat]

(* The key stands for a character. *)
Types(k, down) == k \notin Modifier /\ ~Names(k, down)

(* The display that is active after the key. *)
Aims(k, down, a) ==
  LET d == IF Names(k, down) THEN digit[ps2_to_ascii[k]] ELSE 0
  IN  IF d \in 1 .. NUM_DISPLAYS THEN d - 1 ELSE a

(* A decoder in state q that reads a byte is in state r, and the character of *)
(* a key that it receives is the next one of hist.                            *)
Reads(hist, byte, up, q, r) ==
  IF byte = RELEASE_CODE THEN r = q
  ELSE IF up THEN r = [mods |-> q.mods \ {byte}, active |-> q.active, n |-> q.n]
  ELSE LET down == q.mods \cup ({byte} \cap Modifier)
       IN  /\ r = [mods |-> down, active |-> Aims(byte, down, q.active),
                   n |-> IF Types(byte, down) THEN q.n + 1 ELSE q.n]
           /\ Types(byte, down) =>
                /\ r.n <= Len(hist)
                /\ hist[r.n] = [display |-> q.active, char |-> Means(byte, down)]

(* The bytes under way take the decoder from the state it is in to the state  *)
(* in which it has received everything that was meant.                        *)
Run(run) ==
  /\ run \in [1 .. Len(wire) + 1 -> Decoder]
  /\ run[1] = [mods |-> mods, active |-> active, n |-> Len(inputs)]
  /\ run[Len(wire) + 1] = [mods |-> held \cap Modifier, active |-> aimed, n |-> Len(meant)]
  /\ \A i \in 1 .. Len(wire) :
       run[i].n <= Len(meant) /\ Reads(meant, wire[i], Releases(i), run[i], run[i + 1])

(* The inductive invariant of what is received. *)
MeantInvariant ==
  /\ TypeOK
  /\ Len(inputs) <= Len(meant)
  /\ \A i \in 1 .. Len(inputs) : inputs[i] = meant[i]
  /\ \E run : Run(run)

-----------------------------------------------------------------------------
(* No key has the code of an answer or of a release.                          *)
LEMMA KeyCodes ==
  /\ KEYS \cap Answer = {} /\ RELEASE_CODE \notin KEYS
  /\ RELEASE_CODE \notin Modifier /\ RELEASE_CODE \notin Answer
<1>1. Key = ({28, 33, 75, 22, 30, 69, 78, 41} \cup Modifier \cup Answer) \ Answer
  BY Zenon DEF Key, ps2_to_ascii
<1> QED
  BY <1>1, KeyboardAssumption
     DEF KeyboardAssumption, Modifier, Answer, RELEASE_CODE, LSHIFT, RSHIFT, LCTRL, RCTRL

(* A wire from which a byte is read.                                          *)
LEMMA TailFacts ==
  ASSUME NEW S, NEW s \in Seq(S), s # <<>>
  PROVE  /\ Len(s) \in Nat /\ Len(s) >= 1 /\ Head(s) = s[1] /\ s[1] \in S
         /\ Tail(s) \in Seq(S) /\ Len(Tail(s)) = Len(s) - 1
         /\ \A i \in 1 .. Len(s) - 1 : Tail(s)[i] = s[i + 1]
<1>1. Len(s) \in Nat /\ Len(s) >= 1
  BY EmptySeq, LenProperties
<1>2. s[1] \in S
  BY <1>1, ElementOfSeq
<1> QED
  BY <1>1, <1>2, HeadTailProperties

(* A wire on which a byte is sent.                                            *)
LEMMA AppendFacts ==
  ASSUME NEW S, NEW s \in Seq(S), NEW b \in S
  PROVE  /\ Len(s) \in Nat /\ Append(s, b) \in Seq(S) /\ Append(s, b) # <<>>
         /\ Len(Append(s, b)) = Len(s) + 1 /\ Append(s, b)[Len(s) + 1] = b
         /\ \A i \in 1 .. Len(s) : Append(s, b)[i] = s[i]
BY AppendProperties, LenProperties

(* A wire on which two bytes are sent.                                        *)
LEMMA PairFacts ==
  ASSUME NEW S, NEW s \in Seq(S), NEW a \in S, NEW b \in S
  PROVE  /\ Len(s) \in Nat /\ s \o <<a, b>> \in Seq(S)
         /\ Len(s \o <<a, b>>) = Len(s) + 2
         /\ (s \o <<a, b>>)[Len(s) + 1] = a /\ (s \o <<a, b>>)[Len(s) + 2] = b
         /\ \A i \in 1 .. Len(s) : (s \o <<a, b>>)[i] = s[i]
<1> DEFINE p == <<a, b>>
<1>1. p \in Seq(S) /\ Len(p) = 2 /\ p[1] = a /\ p[2] = b
  OBVIOUS
<1> HIDE DEF p
<1>2. /\ s \o p \in Seq(S) /\ Len(s \o p) = Len(s) + 2 /\ Len(s) \in Nat
      /\ \A i \in 1 .. Len(s) + 2 : (s \o p)[i] = IF i <= Len(s) THEN s[i] ELSE p[i - Len(s)]
  BY <1>1, ConcatProperties, LenProperties
<1>3. (s \o p)[Len(s) + 1] = p[1] /\ (s \o p)[Len(s) + 2] = p[2]
  BY <1>2
<1>4. \A i \in 1 .. Len(s) : (s \o p)[i] = s[i]
  BY <1>2
<1> QED
  BY <1>1, <1>2, <1>3, <1>4 DEF p

-----------------------------------------------------------------------------
(* The keyboard. *)

(* Bytes move up by one when the first is read. *)
LEMMA ShiftedReleases ==
  ASSUME wire \in Seq(KEYS \cup {RELEASE_CODE}), wire # <<>>, wire' = Tail(wire),
         is_letting_go' <=> wire[1] = RELEASE_CODE, NEW i \in 1 .. Len(wire) - 1
  PROVE  Releases(i)' <=> Releases(i + 1)
<1>1. /\ Len(wire) \in Nat /\ Len(wire) >= 1
      /\ \A j \in 1 .. Len(wire) - 1 : wire'[j] = wire[j + 1]
  BY TailFacts
<1>2. i + 1 # 1 /\ (i + 1) - 1 = i
  BY <1>1
<1>3. Releases(i + 1) <=> wire[i] = RELEASE_CODE
  BY <1>2 DEF Releases
<1>4. CASE i = 1
  BY <1>3, <1>4 DEF Releases
<1>5. CASE i # 1
  <2>1. i - 1 \in 1 .. Len(wire) - 1 /\ (i - 1) + 1 = i
    BY <1>1, <1>5
  <2>2. wire'[i - 1] = wire[i]
    BY <1>1, <2>1
  <2> QED
    BY <1>3, <1>5, <2>2 DEF Releases
<1> QED
  BY <1>4, <1>5

(* ps2_intr reads the first byte.                                             *)
LEMMA ReadByte ==
  ASSUME KeyInvariant, ps2_intr
  PROVE  KeyInvariant'
<1> DEFINE n == Len(wire)
           b == wire[1]
<1>1. wire # <<>> /\ wire' = Tail(wire) /\ held' = held /\ presses' = presses
  BY DEF ps2_intr
<1>2. /\ wire \in Seq(KEYS \cup {RELEASE_CODE}) /\ is_letting_go \in BOOLEAN
      /\ presses \in Nat /\ presses # 0 /\ mods \subseteq Modifier
      /\ WireIsPaired /\ LastByteTells
  BY <1>1 DEF KeyInvariant
<1>3. /\ n \in Nat /\ n >= 1 /\ Head(wire) = b /\ b \in KEYS \cup {RELEASE_CODE}
      /\ wire' \in Seq(KEYS \cup {RELEASE_CODE}) /\ Len(wire') = n - 1
      /\ \A i \in 1 .. n - 1 : wire'[i] = wire[i + 1]
  BY <1>1, <1>2, TailFacts
<1>4. /\ is_letting_go' = (b = RELEASE_CODE)
      /\ mods' = IF b = RELEASE_CODE THEN mods ELSE ModsAfter(b)
  BY <1>3 DEF ps2_intr, DecodeKey, LettingGo
<1>5. ModsAfter(b) \subseteq Modifier /\ mods' \subseteq Modifier
  BY <1>2, <1>4 DEF ModsAfter
<1>6. /\ is_letting_go => b # RELEASE_CODE
      /\ \A i \in 1 .. n : wire[i] = RELEASE_CODE => i < n /\ wire[i + 1] # RELEASE_CODE
  BY <1>2 DEF WireIsPaired
<1> HIDE DEF n, b
<1>7. WireIsPaired'
  <2>1. ASSUME is_letting_go' PROVE wire' # <<>> /\ wire'[1] # RELEASE_CODE
    <3>1. 1 < n /\ wire[1 + 1] # RELEASE_CODE
      <4>1. 1 \in 1 .. n /\ wire[1] = RELEASE_CODE
        <5>1. wire[1] = RELEASE_CODE
          BY <1>4, <2>1, Zenon DEF b
        <5> QED
          BY <1>3, <5>1
      <4> QED
        BY <1>6, <4>1
    <3>2. Len(wire') # 0 /\ wire'[1] # RELEASE_CODE
      BY <1>3, <3>1
    <3> QED
      BY <3>2, EmptySeq
  <2>2. ASSUME NEW i \in 1 .. Len(wire'), wire'[i] = RELEASE_CODE
        PROVE  i < Len(wire') /\ wire'[i + 1] # RELEASE_CODE
    <3>1. i \in 1 .. n - 1 /\ i + 1 \in 1 .. n /\ wire[i + 1] = RELEASE_CODE
      BY <1>3, <2>2
    <3>2. i + 1 < n /\ wire[(i + 1) + 1] # RELEASE_CODE
      BY <1>6, <3>1
    <3>3. i + 1 \in 1 .. n - 1 /\ wire'[i + 1] = wire[(i + 1) + 1]
      BY <1>3, <3>1, <3>2
    <3> QED
      BY <1>3, <3>2, <3>3
  <2> QED
    BY <2>1, <2>2 DEF WireIsPaired
<1>8. ASSUME NEW i \in 1 .. n - 1 PROVE Releases(i)' <=> Releases(i + 1)
  BY <1>1, <1>2, <1>4, ShiftedReleases DEF n, b
<1>9. LastByteTells'
  <2> SUFFICES ASSUME NEW m \in Modifier
               PROVE  /\ (\A i \in 1 .. n - 1 : wire'[i] # m) => (m \in mods' <=> m \in held)
                      /\ \A i \in 1 .. n - 1 :
                           (wire'[i] = m /\ \A j \in i + 1 .. n - 1 : wire'[j] # m)
                             => (m \in held <=> ~Releases(i)')
    BY <1>1, <1>3 DEF LastByteTells
  <2>1. /\ (\A i \in 1 .. n : wire[i] # m) => (m \in mods <=> m \in held)
        /\ \A i \in 1 .. n :
             (wire[i] = m /\ \A j \in i + 1 .. n : wire[j] # m) => (m \in held <=> ~Releases(i))
    BY <1>2 DEF LastByteTells, n
  <2>2. ASSUME \A i \in 1 .. n - 1 : wire'[i] # m PROVE m \in mods' <=> m \in held
    <3>1. \A j \in 1 + 1 .. n : wire[j] # m
      <4> SUFFICES ASSUME NEW j \in 1 + 1 .. n PROVE wire[j] # m
        OBVIOUS
      <4>1. j - 1 \in 1 .. n - 1 /\ (j - 1) + 1 = j
        BY <1>3
      <4> QED
        BY <1>3, <2>2, <4>1
    <3>2. CASE b = m
      <4>1. b # RELEASE_CODE
        BY <3>2, KeyCodes
      <4>2. 1 \in 1 .. n /\ wire[1] = m
        BY <1>3, <3>2 DEF b
      <4>3. m \in held <=> ~Releases(1)
        BY <2>1, <3>1, <4>2
      <4>4. Releases(1) <=> is_letting_go
        BY DEF Releases
      <4>5. m \in mods' <=> ~is_letting_go
        BY <1>4, <3>2, <4>1 DEF ModsAfter
      <4> QED
        BY <4>3, <4>4, <4>5
    <3>3. CASE b # m
      <4>1. \A i \in 1 .. n : wire[i] # m
        BY <1>3, <3>1, <3>3 DEF b
      <4>2. m \in mods' <=> m \in mods
        BY <1>4, <3>3 DEF ModsAfter
      <4> QED
        BY <2>1, <4>1, <4>2
    <3> QED
      BY <3>2, <3>3
  <2>3. ASSUME NEW i \in 1 .. n - 1, wire'[i] = m, \A j \in i + 1 .. n - 1 : wire'[j] # m
        PROVE  m \in held <=> ~Releases(i)'
    <3>1. i + 1 \in 1 .. n /\ wire[i + 1] = m
      BY <1>3, <2>3
    <3>2. \A j \in (i + 1) + 1 .. n : wire[j] # m
      <4> SUFFICES ASSUME NEW j \in (i + 1) + 1 .. n PROVE wire[j] # m
        OBVIOUS
      <4>1. j - 1 \in i + 1 .. n - 1 /\ j - 1 \in 1 .. n - 1 /\ (j - 1) + 1 = j
        BY <1>3
      <4> QED
        BY <1>3, <2>3, <4>1
    <3>3. m \in held <=> ~Releases(i + 1)
      BY <2>1, <3>1, <3>2
    <3> QED
      BY <1>8, <3>3
  <2> QED
    BY <2>2, <2>3
<1>10. is_letting_go' \in BOOLEAN
  BY <1>4, Zenon
<1> QED
  BY <1>1, <1>2, <1>3, <1>5, <1>7, <1>9, <1>10 DEF KeyInvariant

(* Bytes sent behind the others change nothing for those.                     *)
LEMMA EarlierBytes ==
  ASSUME KeyInvariant, is_letting_go' = is_letting_go,
         NEW i \in 1 .. Len(wire), \A j \in 1 .. Len(wire) : wire'[j] = wire[j]
  PROVE  Releases(i)' <=> Releases(i)
<1>1. CASE i = 1
  BY <1>1 DEF Releases
<1>2. CASE i # 1
  <2>1. i - 1 \in 1 .. Len(wire)
    BY <1>2, LenProperties DEF KeyInvariant
  <2>2. wire'[i - 1] = wire[i - 1]
    BY <2>1
  <2> QED
    BY <1>2, <2>2 DEF Releases
<1> QED
  BY <1>1, <1>2

(* A key goes down: the byte before its own, if any, is no release code.      *)
LEMMA PressByte ==
  ASSUME KeyInvariant, NEW k \in KEYS, Press(k)
  PROVE  KeyInvariant'
<1>0. PICK n : n = Len(wire)
  OBVIOUS
<1>1. /\ presses' = presses + 1 /\ held' = held \cup {k} /\ wire' = Append(wire, k)
      /\ is_letting_go' = is_letting_go /\ mods' = mods
  BY DEF Press, flags
<1>2. /\ wire \in Seq(KEYS \cup {RELEASE_CODE}) /\ is_letting_go \in BOOLEAN
      /\ presses \in Nat /\ mods \subseteq Modifier /\ WireIsPaired /\ LastByteTells
  BY DEF KeyInvariant
<1>3. /\ n \in Nat /\ wire' \in Seq(KEYS \cup {RELEASE_CODE}) /\ wire' # <<>>
      /\ Len(wire') = n + 1 /\ wire'[n + 1] = k
      /\ \A i \in 1 .. n : wire'[i] = wire[i]
  BY <1>0, <1>1, <1>2, AppendFacts
<1>4. k # RELEASE_CODE
  BY KeyCodes
<1>5. \A i \in 1 .. n : wire[i] = RELEASE_CODE => i < n /\ wire[i + 1] # RELEASE_CODE
  BY <1>0, <1>2 DEF WireIsPaired
<1>6. is_letting_go => n >= 1 /\ wire[1] # RELEASE_CODE
  <2>1. wire # <<>> => n >= 1
    BY <1>0, <1>2, EmptySeq
  <2> QED
    BY <1>2, <2>1 DEF WireIsPaired
<1>7. \A i \in 1 .. n : Releases(i)' <=> Releases(i)
  BY <1>0, <1>1, <1>3, EarlierBytes
<1>8. WireIsPaired'
  <2>1. is_letting_go => wire'[1] # RELEASE_CODE
    BY <1>3, <1>6
  <2>2. ASSUME NEW i \in 1 .. n + 1, wire'[i] = RELEASE_CODE
        PROVE  i < n + 1 /\ wire'[i + 1] # RELEASE_CODE
    <3>1. i \in 1 .. n /\ wire[i] = RELEASE_CODE
      BY <1>3, <1>4, <2>2
    <3>2. i < n /\ wire[i + 1] # RELEASE_CODE /\ i + 1 \in 1 .. n
      BY <1>3, <1>5, <3>1
    <3> QED
      BY <1>3, <3>1, <3>2
  <2> QED
    BY <1>1, <1>3, <2>1, <2>2 DEF WireIsPaired
<1>9. ~Releases(n + 1)'
  <2>1. CASE n = 0
    <3>1. Releases(n + 1)' <=> is_letting_go'
      BY <2>1 DEF Releases
    <3> QED
      BY <1>1, <1>6, <2>1, <3>1
  <2>2. CASE n # 0
    <3>1. n \in 1 .. n /\ n + 1 # 1 /\ (n + 1) - 1 = n
      BY <1>3, <2>2
    <3>2. wire'[n] # RELEASE_CODE
      BY <1>3, <1>5, <3>1
    <3> QED
      BY <3>1, <3>2 DEF Releases
  <2> QED
    BY <2>1, <2>2
<1>10. LastByteTells'
  <2> SUFFICES ASSUME NEW m \in Modifier
               PROVE  /\ (\A i \in 1 .. n + 1 : wire'[i] # m) => (m \in mods <=> m \in held')
                      /\ \A i \in 1 .. n + 1 :
                           (wire'[i] = m /\ \A j \in i + 1 .. n + 1 : wire'[j] # m)
                             => (m \in held' <=> ~Releases(i)')
    BY <1>1, <1>3 DEF LastByteTells
  <2>1. /\ (\A i \in 1 .. n : wire[i] # m) => (m \in mods <=> m \in held)
        /\ \A i \in 1 .. n :
             (wire[i] = m /\ \A j \in i + 1 .. n : wire[j] # m) => (m \in held <=> ~Releases(i))
    BY <1>0, <1>2 DEF LastByteTells
  <2>2. n + 1 \in 1 .. n + 1 /\ \A i \in 1 .. n : n + 1 \in i + 1 .. n + 1
    BY <1>3
  <2>3. CASE m = k
    <3>1. m \in held'
      BY <1>1, <2>3
    <3>2. \A i \in 1 .. n + 1 : i \in 1 .. n \/ i = n + 1
      BY <1>3
    <3> QED
      BY <1>3, <1>9, <2>2, <2>3, <3>1, <3>2, Zenon
  <2>4. CASE m # k
    <3>1. m \in held' <=> m \in held
      BY <1>1, <2>4
    <3>2. (\A i \in 1 .. n + 1 : wire'[i] # m) => \A i \in 1 .. n : wire[i] # m
      BY <1>3
    <3>3. ASSUME NEW i \in 1 .. n + 1, wire'[i] = m, \A j \in i + 1 .. n + 1 : wire'[j] # m
          PROVE  m \in held <=> ~Releases(i)'
      <4>1. i \in 1 .. n
        BY <1>3, <2>4, <3>3
      <4>2. \A j \in i + 1 .. n : wire[j] # m
        BY <1>3, <3>3, <4>1
      <4> QED
        BY <1>3, <1>7, <2>1, <3>3, <4>1, <4>2
    <3> QED
      BY <2>1, <3>1, <3>2, <3>3
  <2> QED
    BY <2>3, <2>4
<1>11. presses' \in Nat /\ presses' # 0
  BY <1>1, <1>2
<1> QED
  BY <1>1, <1>2, <1>3, <1>8, <1>10, <1>11 DEF KeyInvariant

(* A key goes up: its release code is the byte before its own.                *)
LEMMA ReleaseBytes ==
  ASSUME KeyInvariant, NEW k \in KEYS, Release(k)
  PROVE  KeyInvariant'
<1>0. PICK n : n = Len(wire)
  OBVIOUS
<1>1. /\ k \in held /\ held' = held \ {k} /\ wire' = wire \o <<RELEASE_CODE, k>>
      /\ is_letting_go' = is_letting_go /\ mods' = mods /\ presses' = presses
  BY DEF Release, flags
<1>2. /\ wire \in Seq(KEYS \cup {RELEASE_CODE}) /\ is_letting_go \in BOOLEAN
      /\ presses \in Nat /\ presses # 0 /\ mods \subseteq Modifier
      /\ WireIsPaired /\ LastByteTells
  BY <1>1 DEF KeyInvariant
<1>3. /\ n \in Nat /\ wire' \in Seq(KEYS \cup {RELEASE_CODE})
      /\ Len(wire') = n + 2 /\ wire'[n + 1] = RELEASE_CODE /\ wire'[n + 2] = k
      /\ \A i \in 1 .. n : wire'[i] = wire[i]
  BY <1>0, <1>1, <1>2, PairFacts
<1>4. k # RELEASE_CODE
  BY KeyCodes
<1>5. \A i \in 1 .. n : wire[i] = RELEASE_CODE => i < n /\ wire[i + 1] # RELEASE_CODE
  BY <1>0, <1>2 DEF WireIsPaired
<1>6. is_letting_go => n >= 1 /\ wire[1] # RELEASE_CODE
  <2>1. wire # <<>> => n >= 1
    BY <1>0, <1>2, EmptySeq
  <2> QED
    BY <1>2, <2>1 DEF WireIsPaired
<1>7. \A i \in 1 .. n : Releases(i)' <=> Releases(i)
  BY <1>0, <1>1, <1>3, EarlierBytes
<1>8. WireIsPaired'
  <2>1. is_letting_go => wire'[1] # RELEASE_CODE
    BY <1>3, <1>6
  <2>2. ASSUME NEW i \in 1 .. n + 2, wire'[i] = RELEASE_CODE
        PROVE  i < n + 2 /\ wire'[i + 1] # RELEASE_CODE
    <3>1. CASE i \in 1 .. n
      <4>1. i < n /\ wire[i + 1] # RELEASE_CODE /\ i + 1 \in 1 .. n
        BY <1>3, <1>5, <2>2, <3>1
      <4> QED
        BY <1>3, <3>1, <4>1
    <3>2. CASE i = n + 1
      <4>1. i + 1 = n + 2 /\ i < n + 2
        BY <1>3, <3>2
      <4> QED
        BY <1>3, <1>4, <4>1
    <3>3. CASE i = n + 2
      BY <1>3, <1>4, <2>2, <3>3
    <3> QED
      BY <1>3, <3>1, <3>2, <3>3
  <2>3. wire' # <<>>
    BY <1>3, EmptySeq
  <2> QED
    BY <1>1, <1>3, <2>1, <2>2, <2>3 DEF WireIsPaired
<1>9. Releases(n + 2)'
  <2>1. n + 2 # 1 /\ (n + 2) - 1 = n + 1
    BY <1>3
  <2> QED
    BY <1>3, <2>1 DEF Releases
<1>10. LastByteTells'
  <2> SUFFICES ASSUME NEW m \in Modifier
               PROVE  /\ (\A i \in 1 .. n + 2 : wire'[i] # m) => (m \in mods <=> m \in held')
                      /\ \A i \in 1 .. n + 2 :
                           (wire'[i] = m /\ \A j \in i + 1 .. n + 2 : wire'[j] # m)
                             => (m \in held' <=> ~Releases(i)')
    BY <1>1, <1>3 DEF LastByteTells
  <2>1. /\ (\A i \in 1 .. n : wire[i] # m) => (m \in mods <=> m \in held)
        /\ \A i \in 1 .. n :
             (wire[i] = m /\ \A j \in i + 1 .. n : wire[j] # m) => (m \in held <=> ~Releases(i))
    BY <1>0, <1>2 DEF LastByteTells
  <2>2. /\ n + 2 \in 1 .. n + 2 /\ \A i \in 1 .. n + 1 : n + 2 \in i + 1 .. n + 2
        /\ \A i \in 1 .. n + 2 : i \in 1 .. n + 1 \/ i = n + 2
    BY <1>3
  <2>3. CASE m = k
    <3>1. m \notin held'
      BY <1>1, <2>3
    <3> QED
      BY <1>3, <1>9, <2>2, <2>3, <3>1, Zenon
  <2>4. CASE m # k
    <3>1. m \in held' <=> m \in held
      BY <1>1, <2>4
    <3>2. (\A i \in 1 .. n + 2 : wire'[i] # m) => \A i \in 1 .. n : wire[i] # m
      BY <1>3
    <3>3. ASSUME NEW i \in 1 .. n + 2, wire'[i] = m, \A j \in i + 1 .. n + 2 : wire'[j] # m
          PROVE  m \in held <=> ~Releases(i)'
      <4>1. i \in 1 .. n
        <5>1. m # RELEASE_CODE
          BY KeyCodes
        <5> QED
          BY <1>3, <2>4, <3>3, <5>1
      <4>2. \A j \in i + 1 .. n : wire[j] # m
        BY <1>3, <3>3, <4>1
      <4> QED
        BY <1>3, <1>7, <2>1, <3>3, <4>1, <4>2
    <3> QED
      BY <2>1, <3>1, <3>2, <3>3
  <2> QED
    BY <2>3, <2>4
<1> QED
  BY <1>1, <1>2, <1>3, <1>8, <1>10 DEF KeyInvariant

-----------------------------------------------------------------------------
(* The start-up. *)

(* The numbers that the start-up compares.                                    *)
LEMMA Codes ==
  /\ PASS # NONE /\ FAIL # NONE /\ PASS # FAIL
  /\ Answer \subseteq Byte
  /\ KEYS \cup {RELEASE_CODE} \subseteq Byte
BY DEF PASS, FAIL, NONE, Byte

(* The controller is off and the decoder at rest.                             *)
LEMMA BootInit == Init => BootInvariant
<1> SUFFICES ASSUME Init PROVE BootInvariant
  OBVIOUS
<1>1. wire \in Seq(Byte)
  <2>1. wire = <<>> \/ wire \in Seq(KEYS \cup {RELEASE_CODE})
    BY I8042Assumption DEF Init, I8042Assumption
  <2>2. Seq(KEYS \cup {RELEASE_CODE}) \subseteq Seq(Byte)
    BY Codes
  <2> QED
    BY <2>1, <2>2, EmptySeq
<1>2. BootTypeOK
  <2>1. owed \in Seq(Answer \cup {PASS, FAIL})
    BY EmptySeq DEF Init
  <2> QED
    BY <2>1, I8042Assumption DEF Init, I8042Assumption, BootTypeOK
<1> QED
  BY <1>1, <1>2 DEF Init, BootInvariant

(* Bytes that DisablePorts flushes or the reset forgets leave fewer.          *)
LEMMA FewerBytes ==
  ASSUME wire \in Seq(Byte)
  PROVE  wire # <<>> => Tail(wire) \in Seq(Byte) /\ SubSeq(wire, 1, 1) \in Seq(Byte)
<1> SUFFICES ASSUME wire # <<>>
             PROVE  Tail(wire) \in Seq(Byte) /\ SubSeq(wire, 1, 1) \in Seq(Byte)
  OBVIOUS
<1>1. Tail(wire) \in Seq(Byte) /\ wire[1] \in Byte
  BY TailFacts
<1>2. SubSeq(wire, 1, 1) \in Seq(Byte)
  <2>1. \A i \in 1 .. 1 : wire[i] \in Byte
    BY <1>1
  <2> QED
    BY <2>1, SubSeqProperties
<1> QED
  BY <1>1, <1>2

(* The state in which a test was asked for.                                   *)
LEMMA AskFacts ==
  ASSUME NEW test, Ask(test)
  PROVE  /\ boot' = test /\ retries' = 0 /\ quiet' = 0
         /\ owed' \in {<<PASS>>, <<FAIL>>} /\ owed' # <<>>
         /\ owed' \in Seq(Answer \cup {PASS, FAIL})
<1>1. <<PASS>> # <<>> /\ <<FAIL>> # <<>>
  OBVIOUS
<1>2. /\ <<PASS>> \in Seq(Answer \cup {PASS, FAIL})
      /\ <<FAIL>> \in Seq(Answer \cup {PASS, FAIL})
  OBVIOUS
<1> QED
  BY <1>1, <1>2, Zenon DEF Ask

(* An answer arrives.                                                         *)
LEMMA ReplyStep == BootInvariant /\ Reply => BootInvariant'
<1> SUFFICES ASSUME BootInvariant, Reply PROVE BootInvariant'
  OBVIOUS
<1> USE I8042Assumption DEF I8042Assumption
<1>1. /\ chip = "ok" /\ owed # <<>> /\ owed' = Tail(owed) /\ quiet' = 0
      /\ boot' = boot /\ retries' = retries /\ chip' = chip /\ UNCHANGED decoder
  BY DEF Reply
<1>2. BootTypeOK /\ wire \in Seq(Byte) /\ owed \in Seq(Answer \cup {PASS, FAIL})
  BY DEF BootInvariant, BootTypeOK
<1>3. boot # "done" /\ DecoderInit'
  BY <1>1 DEF BootInvariant, DecoderInit, decoder, flags
<1>4. owed' \in Seq(Answer \cup {PASS, FAIL}) /\ Head(owed) \in Answer \cup {PASS, FAIL}
  BY <1>1, <1>2, HeadTailProperties
<1>5. CASE boot \in {"selftest", "porttest"}
  <2>1. reply' = Head(owed) /\ wire' = wire
    BY <1>5 DEF Reply
  <2>2. owed \in {<<PASS>>, <<FAIL>>}
    BY <1>1, <1>5 DEF BootInvariant, TestCounts
  <2>3. owed' = <<>> /\ reply' \in {PASS, FAIL}
    <3>1. owed \in Seq({PASS, FAIL}) /\ Len(owed) = 1
      <4>1. /\ <<PASS>> \in Seq({PASS, FAIL}) /\ Len(<<PASS>>) = 1
            /\ <<FAIL>> \in Seq({PASS, FAIL}) /\ Len(<<FAIL>>) = 1
        OBVIOUS
      <4> QED
        BY <2>2, <4>1, Zenon
    <3>2. Tail(owed) \in Seq({PASS, FAIL}) /\ Len(Tail(owed)) = 0 /\ Head(owed) \in {PASS, FAIL}
      BY <1>1, <3>1, TailFacts
    <3>3. Tail(owed) = <<>>
      BY <3>2, EmptySeq
    <3> QED
      BY <1>1, <2>1, <3>2, <3>3
  <2>4. BootTypeOK'
    BY <1>1, <1>2, <1>4, <2>1, <2>3 DEF BootTypeOK
  <2>5. TestCounts'
    BY <2>3, Codes DEF TestCounts
  <2> QED
    BY <1>1, <1>2, <1>3, <1>5, <2>1, <2>4, <2>5 DEF BootInvariant
<1>6. CASE boot \notin {"selftest", "porttest"}
  <2>1. wire' = Append(wire, Head(owed)) /\ reply' = reply
    BY <1>6 DEF Reply
  <2>2. boot = "drain" /\ DrainCounts
    BY <1>1, <1>2, <1>3, <1>6 DEF BootInvariant, BootTypeOK
  <2>3. owed' \in Seq(Answer) /\ Head(owed) \in Byte
    BY <1>1, <2>2, HeadTailProperties, Codes DEF DrainCounts
  <2>4. wire' \in Seq(Byte) /\ wire' # <<>>
    BY <1>2, <2>1, <2>3, AppendFacts
  <2>5. BootTypeOK'
    BY <1>1, <1>2, <1>4, <2>1 DEF BootTypeOK
  <2>6. DrainCounts'
    <3>1. retries <= DELAY
      BY <1>1, <1>2, <2>2 DEF DrainCounts, BootTypeOK
    <3> QED
      BY <1>1, <2>2, <2>3, <2>4, <3>1 DEF DrainCounts
  <2> QED
    BY <1>1, <1>3, <2>1, <2>2, <2>4, <2>5, <2>6 DEF BootInvariant
<1> QED
  BY <1>5, <1>6

(* A step of the loop of ps2_reset_device1.                                   *)
LEMMA DrainStep == BootInvariant /\ Drain => BootInvariant'
<1> SUFFICES ASSUME BootInvariant, Drain PROVE BootInvariant'
  OBVIOUS
<1> USE I8042Assumption DEF I8042Assumption
<1>1. /\ boot = "drain" /\ retries < PS2_TIMEOUT
      /\ boot' = boot /\ chip' = chip /\ owed' = owed /\ reply' = reply /\ UNCHANGED decoder
  BY DEF Drain
<1>2. BootTypeOK /\ wire \in Seq(Byte) /\ DrainCounts
  BY <1>1 DEF BootInvariant
<1>3. DecoderInit'
  BY <1>1 DEF BootInvariant, DecoderInit, decoder, flags
<1>4. CASE wire # <<>>
  <2>1. wire' = Tail(wire) /\ retries' = 0 /\ quiet' = quiet
    BY <1>4 DEF Drain, RetriesAfterByte
  <2>2. wire' \in Seq(Byte)
    BY <1>2, <1>4, <2>1, FewerBytes
  <2>3. BootTypeOK'
    BY <1>1, <1>2, <2>1 DEF BootTypeOK
  <2>4. DrainCounts'
    BY <1>1, <1>2, <1>4, <2>1 DEF DrainCounts
  <2> QED
    BY <1>1, <1>3, <2>2, <2>3, <2>4 DEF BootInvariant
<1>5. CASE wire = <<>>
  <2>1. wire' = wire /\ Polls
    BY <1>5 DEF Drain
  <2>2. BootTypeOK'
    BY <1>1, <1>2, <2>1 DEF BootTypeOK, Polls
  <2>3. DrainCounts'
    BY <1>1, <1>2, <1>5, <2>1 DEF DrainCounts, Polls, BootTypeOK
  <2> QED
    BY <1>1, <1>2, <1>3, <2>1, <2>2, <2>3 DEF BootInvariant
<1> QED
  BY <1>4, <1>5

(* The answer to a test is taken; after the second one the keyboard is reset. *)
LEMMA TakeReplyStep == BootInvariant /\ TakeReply => BootInvariant'
<1> SUFFICES ASSUME BootInvariant, TakeReply PROVE BootInvariant'
  OBVIOUS
<1> USE I8042Assumption DEF I8042Assumption
<1>1. /\ boot \in {"selftest", "porttest"} /\ reply # NONE /\ reply' = NONE
      /\ chip' = chip /\ UNCHANGED decoder
  BY DEF TakeReply
<1>2. BootTypeOK /\ wire \in Seq(Byte) /\ chip = "ok" /\ owed = <<>>
  BY <1>1 DEF BootInvariant, TestCounts
<1>3. DecoderInit'
  BY <1>1 DEF BootInvariant, DecoderInit, decoder, flags
<1>4. CASE boot' = "refused" /\ UNCHANGED <<retries, owed, quiet, wire>>
  <2>1. BootTypeOK'
    BY <1>1, <1>2, <1>4 DEF BootTypeOK
  <2> QED
    BY <1>1, <1>2, <1>3, <1>4, <2>1 DEF BootInvariant
<1>5. CASE Ask("porttest") /\ UNCHANGED wire
  <2>1. /\ boot' = "porttest" /\ retries' = 0 /\ quiet' = 0
        /\ owed' \in {<<PASS>>, <<FAIL>>} /\ owed' # <<>>
        /\ owed' \in Seq(Answer \cup {PASS, FAIL})
    BY <1>5, AskFacts
  <2>2. BootTypeOK'
    BY <1>1, <1>2, <2>1 DEF BootTypeOK
  <2>3. TestCounts'
    BY <1>1, <2>1 DEF TestCounts
  <2> QED
    BY <1>1, <1>2, <1>3, <1>5, <2>1, <2>2, <2>3 DEF BootInvariant
<1>6. CASE ResetDevice
  <2>1. boot' = "drain" /\ retries' = 0 /\ quiet' = 0
    BY <1>6 DEF ResetDevice
  <2>2. wire' \in Seq(Byte)
    <3>1. wire' = <<>> \/ (wire # <<>> /\ wire' = SubSeq(wire, 1, 1))
      BY <1>6, Zenon DEF ResetDevice
    <3> QED
      BY <1>2, <3>1, FewerBytes, EmptySeq
  <2>3. owed' \in Seq(Answer) /\ owed' \in Seq(Answer \cup {PASS, FAIL})
    <3>1. /\ <<250, 170>> \in Seq(Answer)
          /\ <<250, 170>> \in Seq(Answer \cup {PASS, FAIL})
      BY DEF Answer
    <3> QED
      BY <1>6, <3>1, EmptySeq, Zenon DEF ResetDevice
  <2>4. BootTypeOK'
    BY <1>1, <1>2, <2>1, <2>3 DEF BootTypeOK
  <2>5. DrainCounts'
    BY <1>1, <1>2, <2>1, <2>3 DEF DrainCounts
  <2> QED
    BY <1>1, <1>3, <2>1, <2>2, <2>4, <2>5 DEF BootInvariant
<1> QED
  BY <1>4, <1>5, <1>6 DEF TakeReply

(* Every step of the start-up, and of the keyboard after it.                  *)
LEMMA BootNext == BootInvariant /\ [Next]_vars => BootInvariant'
<1> SUFFICES ASSUME BootInvariant, [Next]_vars PROVE BootInvariant'
  OBVIOUS
<1> USE I8042Assumption DEF I8042Assumption
<1>1. BootTypeOK /\ wire \in Seq(Byte)
  BY DEF BootInvariant
<1>2. ASSUME boot # "done", UNCHANGED decoder PROVE DecoderInit'
  BY <1>2 DEF BootInvariant, DecoderInit, decoder, flags
<1>3. CASE DisablePorts
  <2>1. /\ boot = "start" /\ boot' = "config" /\ DecoderInit'
        /\ UNCHANGED <<retries, chip, owed, quiet, reply>>
    BY <1>2, <1>3 DEF DisablePorts
  <2>2. wire' = wire \/ (wire # <<>> /\ wire' = Tail(wire))
    BY <1>3, Zenon DEF DisablePorts
  <2>3. wire' \in Seq(Byte)
    BY <1>1, <2>2, FewerBytes
  <2>4. BootTypeOK'
    BY <1>1, <2>1 DEF BootTypeOK
  <2> QED
    BY <2>1, <2>3, <2>4 DEF BootInvariant
<1>4. CASE WriteConfig
  <2>1. boot = "config" /\ DecoderInit' /\ UNCHANGED <<chip, reply, wire>>
    BY <1>2, <1>4 DEF WriteConfig
  <2>2. CASE Ask("selftest")
    <3>1. /\ boot' = "selftest" /\ retries' = 0 /\ quiet' = 0
          /\ owed' \in {<<PASS>>, <<FAIL>>} /\ owed' # <<>>
          /\ owed' \in Seq(Answer \cup {PASS, FAIL})
      BY <2>2, AskFacts
    <3>2. BootTypeOK'
      BY <1>1, <2>1, <3>1 DEF BootTypeOK
    <3>3. TestCounts'
      BY <2>1, <3>1 DEF TestCounts, BootInvariant
    <3> QED
      BY <1>1, <2>1, <3>1, <3>2, <3>3 DEF BootInvariant
  <2>3. CASE chip = "dead" /\ boot' = "panic" /\ UNCHANGED <<retries, owed, quiet>>
    <3>1. BootTypeOK'
      BY <1>1, <2>1, <2>3 DEF BootTypeOK
    <3> QED
      BY <1>1, <2>1, <2>3, <3>1 DEF BootInvariant
  <2> QED
    BY <1>4, <2>2, <2>3 DEF WriteConfig
<1>5. CASE PollReply
  <2>1. /\ boot \in {"selftest", "porttest"} /\ DecoderInit'
        /\ UNCHANGED <<chip, owed, reply, wire>>
    BY <1>2, <1>5 DEF PollReply
  <2>2. TestCounts /\ reply = NONE /\ owed # <<>>
    BY <1>5 DEF PollReply, BootInvariant, TestCounts
  <2>3. BootTypeOK'
    BY <1>1, <1>5 DEF PollReply, Polls, BootTypeOK
  <2>4. CASE boot' = boot
    <3>1. chip = "ok" => retries' = quiet'
      BY <1>1, <1>5, <2>1, <2>2, <2>4 DEF PollReply, Polls, TestCounts, BootTypeOK
    <3>2. TestCounts'
      BY <2>1, <2>2, <3>1 DEF TestCounts
    <3> QED
      BY <1>1, <2>1, <2>3, <2>4, <3>2 DEF BootInvariant
  <2>5. CASE boot' = "panic" /\ retries > PS2_TIMEOUT
    <3>1. chip # "ok"
      BY <1>1, <2>2, <2>5 DEF TestCounts, BootTypeOK
    <3> QED
      BY <1>1, <2>1, <2>3, <2>5, <3>1 DEF BootInvariant
  <2> QED
    BY <1>5, <2>4, <2>5 DEF PollReply
<1>6. CASE EnableInterrupt
  <2>1. /\ boot = "drain" /\ retries = PS2_TIMEOUT /\ boot' = "done"
        /\ UNCHANGED <<retries, chip, owed, quiet, reply, keyVars>>
    BY <1>6 DEF EnableInterrupt
  <2>2. DrainCounts /\ DecoderInit /\ quiet <= DELAY
    BY <1>1, <2>1 DEF BootInvariant, BootTypeOK
  <2>3. wire = <<>> /\ owed = <<>>
    BY <1>1, <2>1, <2>2 DEF DrainCounts
  <2>4. KeyInvariant'
    <3>1. /\ is_letting_go' = FALSE /\ mods' = {} /\ held' = {} /\ presses' = 0 /\ wire' = <<>>
      BY <2>1, <2>2, <2>3 DEF DecoderInit, keyVars, flags
    <3>2. wire' \in Seq(KEYS \cup {RELEASE_CODE}) /\ Len(wire') = 0
      BY <3>1, EmptySeq
    <3>3. WireIsPaired'
      BY <3>1, <3>2 DEF WireIsPaired
    <3>4. LastByteTells'
      BY <3>1, <3>2 DEF LastByteTells
    <3> QED
      BY <3>1, <3>2, <3>3, <3>4 DEF KeyInvariant
  <2>5. BootTypeOK' /\ wire' = wire
    BY <1>1, <2>1 DEF BootTypeOK, keyVars
  <2> QED
    BY <1>1, <2>1, <2>3, <2>4, <2>5 DEF BootInvariant
<1>7. CASE boot = "done" /\ KeyNext /\ UNCHANGED bootVars
  <2>1. KeyInvariant /\ UNCHANGED <<boot, retries, chip, owed, quiet, reply>>
    BY <1>7 DEF BootInvariant, bootVars
  <2>2. KeyInvariant'
    BY <1>7, <2>1, ReadByte, PressByte, ReleaseBytes DEF KeyNext
  <2>3. wire' \in Seq(Byte)
    <3>1. Seq(KEYS \cup {RELEASE_CODE}) \subseteq Seq(Byte)
      BY Codes
    <3> QED
      BY <2>2, <3>1 DEF KeyInvariant
  <2>4. BootTypeOK'
    BY <1>1, <2>1 DEF BootTypeOK
  <2> QED
    BY <1>7, <2>1, <2>2, <2>3, <2>4 DEF BootInvariant
<1>8. CASE UNCHANGED vars
  BY <1>8 DEF vars, keyVars, flags, bootVars, BootInvariant, BootTypeOK, TestCounts, DrainCounts, KeyInvariant,
              WireIsPaired, LastByteTells, Releases, DecoderInit
<1> QED
  BY <1>3, <1>4, <1>5, <1>6, <1>7, <1>8, ReplyStep, DrainStep, TakeReplyStep DEF Next

-----------------------------------------------------------------------------
(* What the decoder receives. *)

(* The codes and the tables of the decoder, spelled out.                      *)
LEMMA KeyTable ==
  /\ Key = {28, 33, 75, 22, 30, 69, 78, 41, 18, 89, 20, 88}
  /\ ps2_to_ascii[28] = "a" /\ ps2_to_ascii[33] = "c" /\ ps2_to_ascii[75] = "l"
  /\ ps2_to_ascii[22] = "1" /\ ps2_to_ascii[30] = "2" /\ ps2_to_ascii[69] = "0"
  /\ ps2_to_ascii[78] = "-" /\ ps2_to_ascii[41] = " "
  /\ \A k \in Modifier : ps2_to_ascii[k] = NUL
<1> DEFINE D == {28, 33, 75, 22, 30, 69, 78, 41} \cup Modifier \cup Answer
<1>1. DOMAIN ps2_to_ascii = D
  BY Zenon DEF ps2_to_ascii
<1>2. \A c \in D : ps2_to_ascii[c] =
        CASE c = 28 -> "a" [] c = 33 -> "c" [] c = 75 -> "l" [] c = 22 -> "1" [] c = 30 -> "2"
          [] c = 69 -> "0" [] c = 78 -> "-" [] c = 41 -> " " [] OTHER -> NUL
  BY Zenon DEF ps2_to_ascii
<1>3. Key = D \ Answer
  BY <1>1, Zenon DEF Key
<1>4. Key = {28, 33, 75, 22, 30, 69, 78, 41, 18, 89, 20, 88}
  BY <1>3 DEF Modifier, Answer, LSHIFT, RSHIFT, LCTRL, RCTRL
<1>5. Modifier = {18, 89, 20, 88} /\ Modifier \subseteq D
  BY DEF Modifier, LSHIFT, RSHIFT, LCTRL, RCTRL
<1>6. \A k \in Modifier : ps2_to_ascii[k] = NUL
  <2> SUFFICES ASSUME NEW k \in Modifier PROVE ps2_to_ascii[k] = NUL
    OBVIOUS
  <2>1. k # 28 /\ k # 33 /\ k # 75 /\ k # 22 /\ k # 30 /\ k # 69 /\ k # 78 /\ k # 41 /\ k \in D
    BY <1>5
  <2> QED
    BY <1>2, <2>1, Zenon
<1>7. {28, 33, 75, 22, 30, 69, 78, 41} \subseteq D
  OBVIOUS
<1>8. ps2_to_ascii[28] = "a"
  <2>1. 28 # 33 /\ 28 # 75 /\ 28 # 22 /\ 28 # 30 /\ 28 # 69 /\ 28 # 78 /\ 28 # 41
    OBVIOUS
  <2> QED
    BY <1>2, <1>7, <2>1, Zenon
<1>9. ps2_to_ascii[33] = "c"
  <2>1. 33 # 28 /\ 33 # 75 /\ 33 # 22 /\ 33 # 30 /\ 33 # 69 /\ 33 # 78 /\ 33 # 41
    OBVIOUS
  <2> QED
    BY <1>2, <1>7, <2>1, Zenon
<1>10. ps2_to_ascii[75] = "l"
  <2>1. 75 # 28 /\ 75 # 33 /\ 75 # 22 /\ 75 # 30 /\ 75 # 69 /\ 75 # 78 /\ 75 # 41
    OBVIOUS
  <2> QED
    BY <1>2, <1>7, <2>1, Zenon
<1>11. ps2_to_ascii[22] = "1"
  <2>1. 22 # 28 /\ 22 # 33 /\ 22 # 75 /\ 22 # 30 /\ 22 # 69 /\ 22 # 78 /\ 22 # 41
    OBVIOUS
  <2> QED
    BY <1>2, <1>7, <2>1, Zenon
<1>12. ps2_to_ascii[30] = "2"
  <2>1. 30 # 28 /\ 30 # 33 /\ 30 # 75 /\ 30 # 22 /\ 30 # 69 /\ 30 # 78 /\ 30 # 41
    OBVIOUS
  <2> QED
    BY <1>2, <1>7, <2>1, Zenon
<1>13. ps2_to_ascii[69] = "0"
  <2>1. 69 # 28 /\ 69 # 33 /\ 69 # 75 /\ 69 # 22 /\ 69 # 30 /\ 69 # 78 /\ 69 # 41
    OBVIOUS
  <2> QED
    BY <1>2, <1>7, <2>1, Zenon
<1>14. ps2_to_ascii[78] = "-"
  <2>1. 78 # 28 /\ 78 # 33 /\ 78 # 75 /\ 78 # 22 /\ 78 # 30 /\ 78 # 69 /\ 78 # 41
    OBVIOUS
  <2> QED
    BY <1>2, <1>7, <2>1, Zenon
<1>15. ps2_to_ascii[41] = " "
  <2>1. 41 # 28 /\ 41 # 33 /\ 41 # 75 /\ 41 # 22 /\ 41 # 30 /\ 41 # 69 /\ 41 # 78
    OBVIOUS
  <2> QED
    BY <1>2, <1>7, <2>1, Zenon
<1> QED
  BY <1>4, <1>6, <1>8, <1>9, <1>10, <1>11, <1>12, <1>13, <1>14, <1>15

LEMMA CharTable ==
  /\ DOMAIN digit = {"0", "1", "2"} /\ digit["0"] = 0 /\ digit["1"] = 1 /\ digit["2"] = 2
  /\ DOMAIN uppercase = {"a", "c", "l"}
  /\ uppercase["a"] = "A" /\ uppercase["c"] = "C" /\ uppercase["l"] = "L"
  /\ DOMAIN shifted = {"1", "2", "0", "-"}
  /\ shifted["1"] = "!" /\ shifted["2"] = "@" /\ shifted["0"] = ")" /\ shifted["-"] = "_"
  /\ DOMAIN control = {"c", "l"} /\ control["c"] = "ETX" /\ control["l"] = "FF"
BY DEF digit, uppercase, shifted, control

(* The order in which the decoder asks for control, letters and shift gives   *)
(* each key what it means with the modifiers that are down.                   *)
LEMMA DecoderIsExact ==
  ASSUME NEW k \in Key, NEW down, NEW d,
         d = Decoded(ps2_to_ascii[k], down \cap {LSHIFT, RSHIFT} # {}, down \cap {LCTRL, RCTRL} # {})
  PROVE  /\ d = Means(k, down) /\ d \in Char
         /\ d = NUL <=> k \in Modifier
<1> DEFINE c == ps2_to_ascii[k]
           upper == [x \in DOMAIN uppercase \cup DOMAIN shifted |->
                       IF x \in DOMAIN shifted THEN shifted[x] ELSE uppercase[x]]
<1>1. PICK ctrl \in BOOLEAN : ctrl <=> down \cap {LCTRL, RCTRL} # {}
  OBVIOUS
<1>2. PICK shift \in BOOLEAN : shift <=> down \cap {LSHIFT, RSHIFT} # {}
  OBVIOUS
<1>3. /\ DOMAIN upper = {"a", "c", "l", "1", "2", "0", "-"}
      /\ upper["a"] = "A" /\ upper["c"] = "C" /\ upper["l"] = "L"
      /\ upper["1"] = "!" /\ upper["2"] = "@" /\ upper["0"] = ")" /\ upper["-"] = "_"
  BY CharTable
<1>4. Means(k, down) = IF ctrl /\ c \in DOMAIN control THEN control[c]
                       ELSE IF shift /\ c \in DOMAIN upper THEN upper[c] ELSE c
  BY <1>1, <1>2, Zenon DEF Means
<1>5. Decoded(c, down \cap {LSHIFT, RSHIFT} # {}, down \cap {LCTRL, RCTRL} # {})
        = Decoded(c, shift, ctrl)
  BY <1>1, <1>2, Zenon DEF Decoded
<1>6. /\ c \in {"a", "c", "l", "1", "2", "0", "-", " ", NUL}
      /\ c = NUL <=> k \in Modifier
  <2>1. CASE k \in Modifier
    BY <2>1, KeyTable
  <2>2. CASE k \notin Modifier
    <3>1. k \in {28, 33, 75, 22, 30, 69, 78, 41}
      BY <2>2, KeyTable DEF Modifier, LSHIFT, RSHIFT, LCTRL, RCTRL
    <3>2. \/ c = "a" \/ c = "c" \/ c = "l" \/ c = "1" \/ c = "2" \/ c = "0" \/ c = "-" \/ c = " "
      <4>1. CASE k = 28
        BY <4>1, KeyTable, Zenon
      <4>2. CASE k = 33
        BY <4>2, KeyTable, Zenon
      <4>3. CASE k = 75
        BY <4>3, KeyTable, Zenon
      <4>4. CASE k = 22
        BY <4>4, KeyTable, Zenon
      <4>5. CASE k = 30
        BY <4>5, KeyTable, Zenon
      <4>6. CASE k = 69
        BY <4>6, KeyTable, Zenon
      <4>7. CASE k = 78
        BY <4>7, KeyTable, Zenon
      <4>8. CASE k = 41
        BY <4>8, KeyTable, Zenon
      <4> QED
        BY <3>1, <4>1, <4>2, <4>3, <4>4, <4>5, <4>6, <4>7, <4>8
    <3> QED
      BY <2>2, <3>2 DEF NUL
  <2> QED
    BY <2>1, <2>2
<1> HIDE DEF c, upper
<1>7. Decoded(c, shift, ctrl) = Means(k, down)
  <2>1. CASE c \in {"c", "l"}
    BY <1>3, <1>4, <2>1, CharTable DEF Decoded
  <2>2. CASE c = "a"
    BY <1>3, <1>4, <2>2, CharTable DEF Decoded
  <2>3. CASE c \in {"1", "2", "0", "-"}
    <3>1. c \notin DOMAIN control /\ c \notin DOMAIN uppercase /\ c \in DOMAIN shifted /\ c \in DOMAIN upper
      BY <1>3, <2>3, CharTable
    <3>2. upper[c] = shifted[c]
      BY <1>3, <2>3, CharTable
    <3> QED
      BY <1>4, <3>1, <3>2, Zenon DEF Decoded
  <2>4. CASE c \in {" ", NUL}
    BY <1>3, <1>4, <2>4, CharTable DEF Decoded, NUL
  <2> QED
    BY <1>6, <2>1, <2>2, <2>3, <2>4
<1>8. Decoded(c, shift, ctrl) \in Char /\ (Decoded(c, shift, ctrl) = NUL <=> c = NUL)
  BY <1>6, CharTable DEF Decoded, NUL, Char
<1> QED
  BY <1>5, <1>6, <1>7, <1>8, Zenon DEF c

(* Only the modifiers among the keys that are down matter. *)
LEMMA OnlyModifiers ==
  ASSUME NEW k, NEW down
  PROVE  /\ Names(k, down) <=> Names(k, down \cap Modifier)
         /\ Means(k, down) = Means(k, down \cap Modifier)
<1>1. /\ (down \cap Modifier) \cap {LCTRL, RCTRL} = down \cap {LCTRL, RCTRL}
      /\ (down \cap Modifier) \cap {LSHIFT, RSHIFT} = down \cap {LSHIFT, RSHIFT}
  BY DEF Modifier
<1> QED
  BY <1>1, Zenon DEF Names, Means

(* The digits that name displays. *)
LEMMA DigitsName ==
  ASSUME NEW k \in Key, NEW down, Names(k, down)
  PROVE  digit[ps2_to_ascii[k]] \in {0, 1, 2} /\ k \notin Modifier
<1>1. ps2_to_ascii[k] \in {"0", "1", "2"}
  BY CharTable, Zenon DEF Names
<1>2. ps2_to_ascii[k] # NUL
  BY <1>1 DEF NUL
<1>3. k \notin Modifier
  BY <1>2, KeyTable, Zenon
<1>4. digit["0"] = 0 /\ digit["1"] = 1 /\ digit["2"] = 2
  BY CharTable, Zenon
<1> QED
  BY <1>1, <1>3, <1>4, Zenon

(* A character that is added to what is meant changes nothing for those       *)
(* before it.                                                                 *)
LEMMA ReadsOn ==
  ASSUME NEW S, NEW hist \in Seq(S), NEW x \in S, NEW byte, NEW up, NEW q \in Decoder, NEW r,
         Reads(hist, byte, up, q, r)
  PROVE  Reads(Append(hist, x), byte, up, q, r)
<1>1. Len(hist) \in Nat /\ Len(Append(hist, x)) = Len(hist) + 1
      /\ \A i \in 1 .. Len(hist) : Append(hist, x)[i] = hist[i]
  BY AppendFacts
<1>2. CASE byte = RELEASE_CODE \/ up
  BY <1>2, Zenon DEF Reads
<1>3. CASE byte # RELEASE_CODE /\ ~up
  <2> DEFINE down == q.mods \cup ({byte} \cap Modifier)
             e == [mods |-> down, active |-> Aims(byte, down, q.active),
                   n |-> IF Types(byte, down) THEN q.n + 1 ELSE q.n]
  <2>1. /\ r = e
        /\ Types(byte, down) => r.n <= Len(hist)
                 /\ hist[r.n] = [display |-> q.active, char |-> Means(byte, down)]
    BY <1>3, Zenon DEF Reads
  <2>2. ASSUME Types(byte, down)
        PROVE  r.n <= Len(Append(hist, x)) /\ Append(hist, x)[r.n] = hist[r.n]
    <3>1. r.n = q.n + 1 /\ q.n \in Nat
      BY <2>1, <2>2 DEF Decoder
    <3>2. r.n <= Len(hist)
      BY <2>1, <2>2
    <3> HIDE DEF e, down
    <3> QED
      BY <1>1, <3>1, <3>2
  <2> QED
    BY <1>3, <2>1, <2>2, Zenon DEF Reads
<1> QED
  BY <1>2, <1>3

(* Whether a byte is one of a release is a matter of truth only. *)
LEMMA ReadsSame ==
  ASSUME NEW hist, NEW byte, NEW up, NEW up2, NEW q, NEW r, up <=> up2,
         Reads(hist, byte, up, q, r)
  PROVE  Reads(hist, byte, up2, q, r)
BY Zenon DEF Reads

(* A key that is read while it goes down is received as what it means with    *)
(* the modifiers that the decoder has seen.                                   *)
LEMMA ReceivedAsMeant ==
  ASSUME NEW k \in KEYS, NEW down, down = mods \cup ({k} \cap Modifier),
         ~is_letting_go, active \in 0 .. NUM_DISPLAYS - 1, DecodeKey(k)
  PROVE  /\ mods' = down
         /\ active' = Aims(k, down, active) /\ active' \in 0 .. NUM_DISPLAYS - 1
         /\ inputs' = IF Types(k, down)
                        THEN Append(inputs, [display |-> active, char |-> Means(k, down)])
                        ELSE inputs
         /\ Means(k, down) \in Char
<1> USE KeyboardAssumption DEF KeyboardAssumption
<1>1. k \in Key
  OBVIOUS
<1>2. ModsAfter(k) = down
  BY DEF ModsAfter
<1> DEFINE c == ps2_to_ascii[k]
           ctrl == down \cap {LCTRL, RCTRL} # {}
           shift == down \cap {LSHIFT, RSHIFT} # {}
           d == Decoded(c, shift, ctrl)
           switches == ctrl /\ c \in DOMAIN digit
<1>3. /\ mods' = down
      /\ active' = IF ~is_letting_go /\ switches THEN display_switch(digit[c]) ELSE active
      /\ inputs' = IF is_letting_go \/ switches \/ d = NUL THEN inputs
                   ELSE Append(inputs, [display |-> active, char |-> d])
  BY <1>2, Zenon DEF DecodeKey
<1>4. d = Means(k, down) /\ d \in Char /\ (d = NUL <=> k \in Modifier)
  <2>1. PICK x : x = Decoded(ps2_to_ascii[k], down \cap {LSHIFT, RSHIFT} # {},
                             down \cap {LCTRL, RCTRL} # {})
    OBVIOUS
  <2>2. x = Means(k, down) /\ x \in Char /\ (x = NUL <=> k \in Modifier)
    BY <1>1, <2>1, DecoderIsExact
  <2> QED
    BY <2>1, <2>2, Zenon
<1>5. switches <=> Names(k, down)
  BY Zenon DEF Names
<1> HIDE DEF d, switches, shift, ctrl
<1>6. inputs' = IF Types(k, down)
                  THEN Append(inputs, [display |-> active, char |-> Means(k, down)]) ELSE inputs
  BY <1>3, <1>4, <1>5, Zenon DEF Types
<1>7. active' = Aims(k, down, active) /\ active' \in 0 .. NUM_DISPLAYS - 1
  <2>1. CASE Names(k, down)
    <3>1. c = ps2_to_ascii[k] /\ digit[c] \in {0, 1, 2}
      BY <1>1, <2>1, DigitsName, Zenon
    <3>2. active' = display_switch(digit[c])
      BY <1>3, <1>5, <2>1, Zenon
    <3>3. Aims(k, down, active) = IF digit[c] \in 1 .. NUM_DISPLAYS THEN digit[c] - 1 ELSE active
      BY <2>1, <3>1, Zenon DEF Aims
    <3> HIDE DEF c
    <3> QED
      BY <3>1, <3>2, <3>3 DEF display_switch
  <2>2. CASE ~Names(k, down)
    <3>1. active' = active
      BY <1>3, <1>5, <2>2, Zenon
    <3>2. Aims(k, down, active) = IF 0 \in 1 .. NUM_DISPLAYS THEN 0 - 1 ELSE active
      BY <2>2, Zenon DEF Aims
    <3> QED
      BY <3>1, <3>2
  <2> QED
    BY <2>1, <2>2
<1> QED
  BY <1>3, <1>4, <1>6, <1>7, Zenon

(* ps2_intr takes the decoder one byte along its run. *)
LEMMA ReadMeant ==
  ASSUME KeyInvariant, MeantInvariant, ps2_intr
  PROVE  MeantInvariant'
<1>1. PICK n, b : n = Len(wire) /\ b = wire[1]
  OBVIOUS
<1>2. PICK run : Run(run)
  BY DEF MeantInvariant
<1>3. /\ wire # <<>> /\ wire' = Tail(wire)
      /\ held' = held /\ presses' = presses /\ meant' = meant /\ aimed' = aimed
  BY DEF ps2_intr
<1>4. wire \in Seq(KEYS \cup {RELEASE_CODE}) /\ TypeOK
  BY DEF KeyInvariant, MeantInvariant
<1>5. /\ n \in Nat /\ n >= 1 /\ Head(wire) = b /\ b \in KEYS \cup {RELEASE_CODE}
      /\ wire' \in Seq(KEYS \cup {RELEASE_CODE}) /\ Len(wire') = n - 1
      /\ \A i \in 1 .. n - 1 : wire'[i] = wire[i + 1]
  BY <1>1, <1>3, <1>4, TailFacts
<1>6. is_letting_go' <=> b = RELEASE_CODE
  BY <1>5, Zenon DEF ps2_intr, DecodeKey, LettingGo
<1>7. Reads(meant, b, is_letting_go, run[1], run[2])
  <2>1. 1 \in 1 .. n /\ 1 + 1 = 2
    BY <1>5
  <2>2. Reads(meant, wire[1], Releases(1), run[1], run[2])
    BY <1>1, <1>2, <2>1 DEF Run
  <2>3. Releases(1) <=> is_letting_go
    BY DEF Releases
  <2> QED
    BY <1>1, <2>2, <2>3, ReadsSame
<1>8. /\ run[1] = [mods |-> mods, active |-> active, n |-> Len(inputs)]
      /\ run[1].mods = mods /\ run[1].active = active /\ run[1].n = Len(inputs)
  BY <1>2 DEF Run
<1>9. /\ active \in 0 .. NUM_DISPLAYS - 1 /\ inputs \in Seq(Input) /\ meant \in Seq(Input)
      /\ mods \subseteq Modifier /\ Len(inputs) \in Nat /\ Len(meant) \in Nat
      /\ Len(inputs) <= Len(meant)
      /\ \A i \in 1 .. Len(inputs) : inputs[i] = meant[i]
  BY <1>4, LenProperties DEF TypeOK, MeantInvariant
<1>10. /\ run[2] = [mods |-> mods', active |-> active', n |-> Len(inputs')]
       /\ mods' \subseteq Modifier /\ active' \in 0 .. NUM_DISPLAYS - 1
       /\ inputs' \in Seq(Input) /\ Len(inputs') <= Len(meant)
       /\ \A i \in 1 .. Len(inputs') : inputs'[i] = meant[i]
  <2>1. CASE b = RELEASE_CODE
    <3>1. mods' = mods /\ active' = active /\ inputs' = inputs
      BY <1>5, <2>1 DEF ps2_intr
    <3>2. run[2] = run[1]
      BY <1>7, <2>1, Zenon DEF Reads
    <3> QED
      BY <1>8, <1>9, <3>1, <3>2
  <2>2. CASE b # RELEASE_CODE /\ is_letting_go
    <3>1. DecodeKey(b)
      BY <1>5, <2>2 DEF ps2_intr
    <3>2. mods' = ModsAfter(b) /\ active' = active /\ inputs' = inputs
      BY <2>2, <3>1, Zenon DEF DecodeKey
    <3>3. ModsAfter(b) = mods \ {b}
      BY <1>9, <2>2 DEF ModsAfter
    <3>4. run[2] = [mods |-> mods \ {b}, active |-> active, n |-> Len(inputs)]
      BY <1>7, <1>8, <2>2, Zenon DEF Reads
    <3> QED
      BY <1>9, <3>2, <3>3, <3>4
  <2>3. CASE b # RELEASE_CODE /\ ~is_letting_go
    <3>1. PICK down : down = mods \cup ({b} \cap Modifier)
      OBVIOUS
    <3>2. DecodeKey(b) /\ b \in KEYS
      BY <1>5, <2>3 DEF ps2_intr
    <3>3. /\ mods' = down
          /\ active' = Aims(b, down, active) /\ active' \in 0 .. NUM_DISPLAYS - 1
          /\ inputs' = IF Types(b, down)
                         THEN Append(inputs, [display |-> active, char |-> Means(b, down)])
                         ELSE inputs
          /\ Means(b, down) \in Char
      BY <1>9, <2>3, <3>1, <3>2, ReceivedAsMeant
    <3>4. /\ run[2] = [mods |-> down, active |-> Aims(b, down, active),
                       n |-> IF Types(b, down) THEN Len(inputs) + 1 ELSE Len(inputs)]
          /\ Types(b, down) =>
               /\ run[2].n <= Len(meant)
               /\ meant[run[2].n] = [display |-> active, char |-> Means(b, down)]
      BY <1>7, <1>8, <2>3, <3>1, Zenon DEF Reads
    <3>5. CASE ~Types(b, down)
      <4>1. inputs' = inputs /\ run[2] = [mods |-> mods', active |-> active', n |-> Len(inputs)]
        BY <3>3, <3>4, <3>5
      <4> QED
        BY <1>9, <3>1, <3>3, <4>1
    <3>6. CASE Types(b, down)
      <4>1. PICK x : x = [display |-> active, char |-> Means(b, down)]
        OBVIOUS
      <4>2. x \in Input
        BY <1>9, <3>3, <4>1 DEF Input
      <4>3. /\ inputs' \in Seq(Input) /\ Len(inputs') = Len(inputs) + 1
            /\ inputs'[Len(inputs) + 1] = x
            /\ \A i \in 1 .. Len(inputs) : inputs'[i] = inputs[i]
        BY <1>9, <3>3, <3>6, <4>1, <4>2, AppendFacts
      <4>4. /\ run[2] = [mods |-> mods', active |-> active', n |-> Len(inputs')]
            /\ run[2].n = Len(inputs) + 1
        BY <3>3, <3>4, <3>6, <4>3
      <4>5. Len(inputs') <= Len(meant) /\ meant[Len(inputs) + 1] = x
        BY <3>4, <3>6, <4>1, <4>3, <4>4
      <4>6. \A i \in 1 .. Len(inputs') : inputs'[i] = meant[i]
        BY <1>9, <4>3, <4>5
      <4> QED
        BY <1>9, <3>1, <3>3, <4>3, <4>4, <4>5, <4>6
    <3> QED
      BY <3>5, <3>6
  <2> QED
    BY <2>1, <2>2, <2>3
<1> DEFINE run2 == [i \in 1 .. n |-> run[i + 1]]
<1>11. Run(run2)'
  <2>1. /\ run \in [1 .. n + 1 -> Decoder]
        /\ run[n + 1] = [mods |-> held \cap Modifier, active |-> aimed, n |-> Len(meant)]
        /\ \A i \in 1 .. n : run[i].n <= Len(meant)
                 /\ Reads(meant, wire[i], Releases(i), run[i], run[i + 1])
    BY <1>1, <1>2 DEF Run
  <2>2. /\ run2 \in [1 .. n -> Decoder] /\ run2[1] = run[2] /\ run2[n] = run[n + 1]
        /\ \A i \in 1 .. n - 1 : run2[i] = run[i + 1] /\ run2[i + 1] = run[(i + 1) + 1]
    BY <1>5, <2>1
  <2> HIDE DEF run2
  <2>3. ASSUME NEW i \in 1 .. n - 1
        PROVE  /\ run2[i].n <= Len(meant)
               /\ Reads(meant, wire'[i], Releases(i)', run2[i], run2[i + 1])
    <3>1. i + 1 \in 1 .. n
      BY <1>5
    <3>2. /\ run[i + 1].n <= Len(meant)
          /\ Reads(meant, wire[i + 1], Releases(i + 1), run[i + 1], run[(i + 1) + 1])
      BY <2>1, <3>1
    <3>3. Releases(i)' <=> Releases(i + 1)
      BY <1>1, <1>3, <1>4, <1>6, ShiftedReleases
    <3>4. run2[i] = run[i + 1] /\ run2[i + 1] = run[(i + 1) + 1] /\ wire'[i] = wire[i + 1]
      BY <1>5, <2>2
    <3>5. Reads(meant, wire'[i], Releases(i + 1), run2[i], run2[i + 1])
      BY <3>2, <3>4, Zenon
    <3> QED
      BY <3>2, <3>3, <3>4, <3>5, ReadsSame
  <2>4. (n - 1) + 1 = n
    BY <1>5
  <2>5. /\ run2 \in [1 .. Len(wire') + 1 -> Decoder]
        /\ run2[Len(wire') + 1] = run[n + 1]
    BY <1>5, <2>2, <2>4
  <2> QED
    BY <1>3, <1>5, <1>10, <2>1, <2>2, <2>3, <2>5 DEF Run
<1>12. TypeOK'
  <2>1. is_letting_go' \in BOOLEAN
    BY <1>5, Zenon DEF ps2_intr, DecodeKey, LettingGo
  <2>2. wire' \in Seq(Byte)
    <3>1. Seq(KEYS \cup {RELEASE_CODE}) \subseteq Seq(Byte)
      BY Codes
    <3> QED
      BY <1>5, <3>1
  <2> QED
    BY <1>3, <1>4, <1>10, <2>1, <2>2 DEF TypeOK
<1>13. Len(inputs') <= Len(meant') /\ \A i \in 1 .. Len(inputs') : inputs'[i] = meant'[i]
  BY <1>3, <1>10
<1> QED
  BY <1>11, <1>12, <1>13, Zenon DEF MeantInvariant

(* A key that goes down lengthens the run by its byte, and what is meant by   *)
(* its character.                                                             *)
LEMMA PressMeant ==
  ASSUME KeyInvariant, KeyInvariant', MeantInvariant, NEW k \in KEYS, Press(k)
  PROVE  MeantInvariant'
<1> USE KeyboardAssumption DEF KeyboardAssumption
<1>1. PICK n : n = Len(wire)
  OBVIOUS
<1>2. PICK run : Run(run)
  BY DEF MeantInvariant
<1>3. PICK down : down = held' \cap Modifier
  OBVIOUS
<1>4. /\ presses < MAX_PRESSES /\ presses' = presses + 1
      /\ held' = held \cup {k} /\ wire' = Append(wire, k)
      /\ is_letting_go' = is_letting_go /\ mods' = mods /\ active' = active /\ inputs' = inputs
  BY DEF Press, flags
<1>5. /\ aimed' = Aims(k, held', aimed)
      /\ meant' = IF k \in Modifier \/ Names(k, held') THEN meant
                  ELSE Append(meant, [display |-> aimed, char |-> Means(k, held')])
  BY Zenon DEF Press, Aims
<1>6. /\ wire \in Seq(KEYS \cup {RELEASE_CODE}) /\ TypeOK /\ k \in Key /\ k # RELEASE_CODE
  BY KeyCodes DEF KeyInvariant, MeantInvariant
<1>7. /\ n \in Nat /\ wire' \in Seq(KEYS \cup {RELEASE_CODE})
      /\ Len(wire') = n + 1 /\ wire'[n + 1] = k
      /\ \A i \in 1 .. n : wire'[i] = wire[i]
  BY <1>1, <1>4, <1>6, AppendFacts
<1>8. /\ aimed \in 0 .. NUM_DISPLAYS - 1 /\ meant \in Seq(Input) /\ Len(meant) \in Nat
      /\ Len(inputs) \in Nat /\ Len(inputs) <= Len(meant) /\ held \subseteq KEYS
      /\ \A i \in 1 .. Len(inputs) : inputs[i] = meant[i]
  BY <1>6, LenProperties DEF TypeOK, MeantInvariant
<1>9. /\ Names(k, held') <=> Names(k, down)
      /\ Means(k, held') = Means(k, down)
  BY <1>3, OnlyModifiers
<1>10. Means(k, down) \in Char
  <2>1. PICK x : x = Decoded(ps2_to_ascii[k], down \cap {LSHIFT, RSHIFT} # {},
                             down \cap {LCTRL, RCTRL} # {})
    OBVIOUS
  <2> QED
    BY <1>6, <2>1, DecoderIsExact
<1>11. /\ aimed' = Aims(k, down, aimed)
       /\ meant' = IF Types(k, down)
                     THEN Append(meant, [display |-> aimed, char |-> Means(k, down)]) ELSE meant
  BY <1>5, <1>9, Zenon DEF Aims, Types
<1>12. aimed' \in 0 .. NUM_DISPLAYS - 1
  <2>1. CASE Names(k, down)
    <3>1. PICK d : d = digit[ps2_to_ascii[k]]
      OBVIOUS
    <3>2. d \in {0, 1, 2}
      BY <1>6, <2>1, <3>1, DigitsName
    <3>3. aimed' = IF d \in 1 .. NUM_DISPLAYS THEN d - 1 ELSE aimed
      BY <1>11, <2>1, <3>1, Zenon DEF Aims
    <3> QED
      BY <1>8, <3>2, <3>3
  <2>2. CASE ~Names(k, down)
    <3>1. aimed' = IF 0 \in 1 .. NUM_DISPLAYS THEN 0 - 1 ELSE aimed
      BY <1>11, <2>2, Zenon DEF Aims
    <3> QED
      BY <1>8, <3>1
  <2> QED
    BY <2>1, <2>2
<1>13. /\ meant' \in Seq(Input) /\ Len(meant') \in Nat /\ Len(meant) <= Len(meant')
       /\ Len(meant') = IF Types(k, down) THEN Len(meant) + 1 ELSE Len(meant)
       /\ \A i \in 1 .. Len(meant) : meant'[i] = meant[i]
       /\ Types(k, down) => meant'[Len(meant')] = [display |-> aimed, char |-> Means(k, down)]
       /\ \A byte, up, r : \A q \in Decoder :
            Reads(meant, byte, up, q, r) => Reads(meant', byte, up, q, r)
  <2>1. CASE ~Types(k, down)
    BY <1>8, <1>11, <2>1
  <2>2. CASE Types(k, down)
    <3>1. PICK x : x = [display |-> aimed, char |-> Means(k, down)]
      OBVIOUS
    <3>2. x \in Input /\ meant' = Append(meant, x)
      BY <1>8, <1>10, <1>11, <2>2, <3>1 DEF Input
    <3>3. /\ meant' \in Seq(Input) /\ Len(meant') = Len(meant) + 1
          /\ meant'[Len(meant) + 1] = x
          /\ \A i \in 1 .. Len(meant) : meant'[i] = meant[i]
      BY <1>8, <3>2, AppendFacts
    <3>4. ASSUME NEW byte, NEW up, NEW r, NEW q \in Decoder, Reads(meant, byte, up, q, r)
          PROVE  Reads(meant', byte, up, q, r)
      BY <1>8, <3>2, <3>4, ReadsOn
    <3> QED
      BY <1>8, <2>2, <3>1, <3>3, <3>4
  <2> QED
    BY <2>1, <2>2
<1>14. PICK last : last = [mods |-> down, active |-> aimed', n |-> Len(meant')]
  OBVIOUS
<1> DEFINE run2 == [i \in 1 .. n + 2 |-> IF i <= n + 1 THEN run[i] ELSE last]
<1>15. /\ run \in [1 .. n + 1 -> Decoder]
       /\ run[1] = [mods |-> mods, active |-> active, n |-> Len(inputs)]
       /\ run[n + 1] = [mods |-> held \cap Modifier, active |-> aimed, n |-> Len(meant)]
       /\ \A i \in 1 .. n : run[i].n <= Len(meant)
                /\ Reads(meant, wire[i], Releases(i), run[i], run[i + 1])
  BY <1>1, <1>2 DEF Run
<1>16. /\ run2 \in [1 .. n + 2 -> Decoder] /\ run2[1] = run[1] /\ run2[n + 1] = run[n + 1]
       /\ run2[n + 2] = last /\ \A i \in 1 .. n : run2[i] = run[i] /\ run2[i + 1] = run[i + 1]
  <2>1. last \in Decoder
    BY <1>3, <1>12, <1>13, <1>14 DEF Decoder
  <2> QED
    BY <1>7, <1>15, <2>1
<1> HIDE DEF run2
<1>17. ASSUME NEW i \in 1 .. n
       PROVE  /\ run2[i].n <= Len(meant')
              /\ Reads(meant', wire'[i], Releases(i)', run2[i], run2[i + 1])
  <2>1. run2[i] = run[i] /\ run2[i + 1] = run[i + 1] /\ wire'[i] = wire[i] /\ run[i] \in Decoder
    BY <1>7, <1>15, <1>16
  <2>2. run[i].n <= Len(meant) /\ Reads(meant, wire[i], Releases(i), run[i], run[i + 1])
    BY <1>15
  <2>3. Releases(i)' <=> Releases(i)
    BY <1>1, <1>4, <1>7, EarlierBytes
  <2>4. Reads(meant', wire'[i], Releases(i), run2[i], run2[i + 1])
    BY <1>13, <2>1, <2>2, Zenon
  <2>5. run[i].n \in Nat
    BY <2>1 DEF Decoder
  <2>6. run2[i].n <= Len(meant')
    BY <1>8, <1>13, <2>1, <2>2, <2>5
  <2> QED
    BY <2>3, <2>4, <2>6, ReadsSame
<1>18. /\ run2[n + 1].n <= Len(meant')
       /\ Reads(meant', wire'[n + 1], Releases(n + 1)', run2[n + 1], run2[(n + 1) + 1])
  <2>1. ~Releases(n + 1)'
    <3>1. CASE n = 0
      <4>1. wire = <<>>
        BY <1>1, <1>6, <3>1, EmptySeq
      <4>2. ~is_letting_go
        BY <4>1 DEF KeyInvariant, WireIsPaired
      <4> QED
        BY <1>4, <3>1, <4>2 DEF Releases
    <3>2. CASE n # 0
      <4>1. n \in 1 .. n /\ n + 1 # 1 /\ (n + 1) - 1 = n /\ ~(n < n)
        BY <1>7, <3>2
      <4>2. wire[n] # RELEASE_CODE
        BY <1>1, <4>1 DEF KeyInvariant, WireIsPaired
      <4>3. wire'[n] # RELEASE_CODE
        BY <1>7, <4>1, <4>2
      <4> QED
        BY <4>1, <4>3 DEF Releases
    <3> QED
      BY <3>1, <3>2
  <2>2. PICK q : q = run[n + 1]
    OBVIOUS
  <2>3. q.mods = held \cap Modifier /\ q.active = aimed /\ q.n = Len(meant)
    BY <1>15, <2>2
  <2>4. down = q.mods \cup ({k} \cap Modifier)
    BY <1>3, <1>4, <2>3
  <2>5. last = [mods |-> down, active |-> Aims(k, down, q.active),
                n |-> IF Types(k, down) THEN q.n + 1 ELSE q.n]
    BY <1>11, <1>13, <1>14, <2>3
  <2>6. Types(k, down) => last.n <= Len(meant')
                 /\ meant'[last.n] = [display |-> q.active, char |-> Means(k, down)]
    <3>1. last.n = Len(meant')
      BY <1>14
    <3> QED
      BY <1>13, <2>3, <3>1
  <2>7. Reads(meant', k, FALSE, q, last)
    BY <1>6, <2>4, <2>5, <2>6, Zenon DEF Reads
  <2>8. /\ (n + 1) + 1 = n + 2 /\ run2[n + 1] = q /\ run2[(n + 1) + 1] = last /\ wire'[n + 1] = k
    BY <1>7, <1>16, <2>2
  <2>9. Reads(meant', wire'[n + 1], FALSE, run2[n + 1], run2[(n + 1) + 1])
    BY <2>7, <2>8, Zenon
  <2>10. run2[n + 1].n <= Len(meant')
    BY <1>13, <2>3, <2>8
  <2> QED
    BY <2>1, <2>9, <2>10, ReadsSame
<1>19. Run(run2)'
  <2>1. \A i \in 1 .. n + 1 : i \in 1 .. n \/ i = n + 1
    BY <1>7
  <2>2. \A i \in 1 .. Len(wire') :
          /\ run2[i].n <= Len(meant')
          /\ Reads(meant', wire'[i], Releases(i)', run2[i], run2[i + 1])
    BY <1>7, <1>17, <1>18, <2>1, Zenon
  <2>3. /\ run2 \in [1 .. Len(wire') + 1 -> Decoder]
        /\ run2[Len(wire') + 1] = last
    <3>1. Len(wire') + 1 = n + 2
      BY <1>7
    <3> QED
      BY <1>16, <3>1
  <2>4. run2[1] = [mods |-> mods', active |-> active', n |-> Len(inputs')]
    BY <1>4, <1>15, <1>16
  <2> QED
    BY <1>3, <1>14, <2>2, <2>3, <2>4, Zenon DEF Run
<1>20. TypeOK'
  <2>1. wire' \in Seq(Byte)
    <3>1. Seq(KEYS \cup {RELEASE_CODE}) \subseteq Seq(Byte)
      BY Codes
    <3> QED
      BY <1>7, <3>1
  <2>2. presses' \in 0 .. MAX_PRESSES
    BY <1>4, <1>6 DEF TypeOK
  <2> QED
    BY <1>4, <1>6, <1>12, <1>13, <2>1, <2>2 DEF TypeOK
<1>21. Len(inputs') <= Len(meant') /\ \A i \in 1 .. Len(inputs') : inputs'[i] = meant'[i]
  BY <1>4, <1>8, <1>13
<1> QED
  BY <1>19, <1>20, <1>21, Zenon DEF MeantInvariant

(* A key that goes up lengthens it by the release code and its own byte.      *)
LEMMA ReleaseMeant ==
  ASSUME KeyInvariant, MeantInvariant, NEW k \in KEYS, Release(k)
  PROVE  MeantInvariant'
<1>1. PICK n : n = Len(wire)
  OBVIOUS
<1>2. PICK run : Run(run)
  BY DEF MeantInvariant
<1>3. /\ held' = held \ {k} /\ wire' = wire \o <<RELEASE_CODE, k>> /\ presses' = presses
      /\ is_letting_go' = is_letting_go /\ mods' = mods /\ active' = active /\ inputs' = inputs
      /\ meant' = meant /\ aimed' = aimed
  BY DEF Release, flags
<1>4. /\ wire \in Seq(KEYS \cup {RELEASE_CODE}) /\ TypeOK /\ k # RELEASE_CODE
  BY KeyCodes DEF KeyInvariant, MeantInvariant
<1>5. /\ n \in Nat /\ wire' \in Seq(KEYS \cup {RELEASE_CODE})
      /\ Len(wire') = n + 2 /\ wire'[n + 1] = RELEASE_CODE /\ wire'[n + 2] = k
      /\ \A i \in 1 .. n : wire'[i] = wire[i]
  BY <1>1, <1>3, <1>4, PairFacts
<1>6. Len(meant) \in Nat /\ aimed \in 0 .. NUM_DISPLAYS - 1
  BY <1>4, LenProperties DEF TypeOK
<1>7. /\ run \in [1 .. n + 1 -> Decoder]
      /\ run[1] = [mods |-> mods, active |-> active, n |-> Len(inputs)]
      /\ run[n + 1] = [mods |-> held \cap Modifier, active |-> aimed, n |-> Len(meant)]
      /\ \A i \in 1 .. n : run[i].n <= Len(meant)
               /\ Reads(meant, wire[i], Releases(i), run[i], run[i + 1])
  BY <1>1, <1>2 DEF Run
<1>8. PICK q, last : /\ q = run[n + 1]
                     /\ last = [mods |-> held' \cap Modifier, active |-> aimed, n |-> Len(meant)]
  OBVIOUS
<1>9. /\ q.mods = held \cap Modifier /\ q.active = aimed /\ q.n = Len(meant) /\ q \in Decoder
      /\ last \in Decoder
  BY <1>5, <1>6, <1>7, <1>8 DEF Decoder
<1> DEFINE run2 == [i \in 1 .. n + 3 |-> IF i <= n + 1 THEN run[i] ELSE IF i = n + 2 THEN q ELSE last]
<1>10. /\ run2 \in [1 .. n + 3 -> Decoder] /\ run2[1] = run[1] /\ run2[n + 1] = q
       /\ run2[n + 2] = q /\ run2[n + 3] = last
       /\ \A i \in 1 .. n : run2[i] = run[i] /\ run2[i + 1] = run[i + 1]
  <2>1. \A i \in 1 .. n + 1 : run2[i] = run[i] /\ run[i] \in Decoder
    BY <1>5, <1>7
  <2>2. run2[n + 2] = q /\ run2[n + 3] = last
    BY <1>5
  <2>3. \A i \in 1 .. n + 3 : run2[i] \in Decoder
    <3>1. \A i \in 1 .. n + 3 : i \in 1 .. n + 1 \/ i = n + 2 \/ i = n + 3
      BY <1>5
    <3> QED
      BY <1>9, <2>1, <2>2, <3>1, Zenon
  <2>4. run2 \in [1 .. n + 3 -> Decoder]
    BY <2>3, Zenon
  <2> HIDE DEF run2
  <2>5. 1 \in 1 .. n + 1 /\ n + 1 \in 1 .. n + 1
        /\ \A i \in 1 .. n : i \in 1 .. n + 1 /\ i + 1 \in 1 .. n + 1
    BY <1>5
  <2> QED
    BY <1>8, <2>1, <2>2, <2>4, <2>5
<1> HIDE DEF run2
<1>11. ASSUME NEW i \in 1 .. n
       PROVE  /\ run2[i].n <= Len(meant)
              /\ Reads(meant, wire'[i], Releases(i)', run2[i], run2[i + 1])
  <2>1. run2[i] = run[i] /\ run2[i + 1] = run[i + 1] /\ wire'[i] = wire[i]
    BY <1>5, <1>10
  <2>2. run[i].n <= Len(meant) /\ Reads(meant, wire[i], Releases(i), run[i], run[i + 1])
    BY <1>7
  <2>3. Releases(i)' <=> Releases(i)
    BY <1>1, <1>3, <1>5, EarlierBytes
  <2>4. Reads(meant, wire'[i], Releases(i), run2[i], run2[i + 1]) /\ run2[i].n <= Len(meant)
    BY <2>1, <2>2, Zenon
  <2> QED
    BY <2>3, <2>4, ReadsSame
<1>12. /\ run2[n + 1].n <= Len(meant)
       /\ Reads(meant, wire'[n + 1], Releases(n + 1)', run2[n + 1], run2[(n + 1) + 1])
  <2>1. Reads(meant, RELEASE_CODE, Releases(n + 1)', q, q)
    BY Zenon DEF Reads
  <2>2. (n + 1) + 1 = n + 2 /\ q.n <= Len(meant)
    BY <1>5, <1>6, <1>9
  <2> QED
    BY <1>5, <1>10, <2>1, <2>2, Zenon
<1>13. /\ run2[n + 2].n <= Len(meant)
       /\ Reads(meant, wire'[n + 2], Releases(n + 2)', run2[n + 2], run2[(n + 2) + 1])
  <2>1. Releases(n + 2)'
    <3>1. n + 2 # 1 /\ (n + 2) - 1 = n + 1
      BY <1>5
    <3> QED
      BY <1>5, <3>1 DEF Releases
  <2>2. last = [mods |-> q.mods \ {k}, active |-> q.active, n |-> q.n]
    <3>1. held' \cap Modifier = q.mods \ {k}
      BY <1>3, <1>9
    <3> QED
      BY <1>8, <1>9, <3>1
  <2>3. Reads(meant, k, Releases(n + 2)', q, last)
    BY <1>4, <2>1, <2>2, Zenon DEF Reads
  <2>4. (n + 2) + 1 = n + 3 /\ q.n <= Len(meant)
    BY <1>5, <1>6, <1>9
  <2> QED
    BY <1>5, <1>10, <2>3, <2>4, Zenon
<1>14. Run(run2)'
  <2>1. \A i \in 1 .. n + 2 : i \in 1 .. n \/ i = n + 1 \/ i = n + 2
    BY <1>5
  <2>2. \A i \in 1 .. Len(wire') :
          /\ run2[i].n <= Len(meant')
          /\ Reads(meant', wire'[i], Releases(i)', run2[i], run2[i + 1])
    BY <1>3, <1>5, <1>11, <1>12, <1>13, <2>1, Zenon
  <2>3. /\ run2 \in [1 .. Len(wire') + 1 -> Decoder]
        /\ run2[Len(wire') + 1] = last
    <3>1. Len(wire') + 1 = n + 3
      BY <1>5
    <3> QED
      BY <1>10, <3>1
  <2>4. run2[1] = [mods |-> mods', active |-> active', n |-> Len(inputs')]
    BY <1>3, <1>7, <1>10
  <2>5. last = [mods |-> held' \cap Modifier, active |-> aimed', n |-> Len(meant')]
    BY <1>3, <1>8
  <2> QED
    BY <2>2, <2>3, <2>4, <2>5, Zenon DEF Run
<1>15. TypeOK'
  <2>1. wire' \in Seq(Byte)
    <3>1. Seq(KEYS \cup {RELEASE_CODE}) \subseteq Seq(Byte)
      BY Codes
    <3> QED
      BY <1>5, <3>1
  <2> QED
    BY <1>3, <1>4, <2>1 DEF TypeOK
<1>16. Len(inputs') <= Len(meant') /\ \A i \in 1 .. Len(inputs') : inputs'[i] = meant'[i]
  BY <1>3 DEF MeantInvariant
<1> QED
  BY <1>14, <1>15, <1>16, Zenon DEF MeantInvariant

(* What is received, for every step of the start-up and of the keyboard.      *)
LEMMA MeantNext ==
  BootInvariant /\ (boot = "done" => MeantInvariant) /\ [Next]_vars
    => (boot' = "done" => MeantInvariant')
<1> SUFFICES ASSUME BootInvariant, boot = "done" => MeantInvariant, [Next]_vars, boot' = "done"
             PROVE  MeantInvariant'
  OBVIOUS
<1>1. CASE boot = "done" /\ KeyNext /\ UNCHANGED bootVars
  <2>1. KeyInvariant /\ MeantInvariant /\ KeyInvariant'
    BY <1>1, BootNext DEF BootInvariant
  <2> QED
    BY <1>1, <2>1, ReadMeant, PressMeant, ReleaseMeant DEF KeyNext
<1>2. CASE EnableInterrupt
  <2>1. boot = "drain" /\ UNCHANGED keyVars
    BY <1>2 DEF EnableInterrupt
  <2>2. DecoderInit' /\ wire' = <<>>
    <3>1. DecoderInit
      BY <2>1 DEF BootInvariant
    <3>2. BootInvariant'
      BY BootNext
    <3>3. presses' = 0
      BY <2>1, <3>1 DEF DecoderInit, keyVars
    <3> QED
      BY <2>1, <3>1, <3>2, <3>3 DEF DecoderInit, keyVars, flags, BootInvariant, KeyInvariant
  <2>3. PICK q : q = [mods |-> {}, active |-> 0, n |-> 0]
    OBVIOUS
  <2>4. /\ is_letting_go' = FALSE /\ mods' = {} /\ active' = 0 /\ inputs' = <<>> /\ held' = {}
        /\ presses' = 0 /\ meant' = <<>> /\ aimed' = 0
    BY <2>2 DEF DecoderInit
  <2>5. Len(wire') = 0 /\ Len(inputs') = 0 /\ Len(meant') = 0
    BY <2>2, <2>4, EmptySeq
  <2>6. 0 \in 0 .. NUM_DISPLAYS - 1 /\ 0 \in 0 .. MAX_PRESSES
    BY KeyboardAssumption DEF KeyboardAssumption
  <2> DEFINE run == [i \in 1 .. 1 |-> q]
  <2>7. /\ run \in [1 .. Len(wire') + 1 -> Decoder] /\ run[1] = q /\ run[Len(wire') + 1] = q
    <3>1. q \in Decoder /\ Len(wire') + 1 = 1
      BY <2>3, <2>5, <2>6 DEF Decoder
    <3> QED
      BY <3>1
  <2> HIDE DEF run
  <2>8. /\ q = [mods |-> mods', active |-> active', n |-> Len(inputs')]
        /\ q = [mods |-> held' \cap Modifier, active |-> aimed', n |-> Len(meant')]
    BY <2>3, <2>4, <2>5
  <2>9. Run(run)'
    <3>1. \A i \in 1 .. Len(wire') : FALSE
      BY <2>5
    <3> QED
      BY <2>7, <2>8, <3>1, Zenon DEF Run
  <2>10. TypeOK'
    <3>1. inputs' \in Seq(Input) /\ meant' \in Seq(Input) /\ wire' \in Seq(Byte)
      BY <2>2, <2>4, EmptySeq
    <3> QED
      BY <2>4, <2>6, <3>1 DEF TypeOK
  <2>11. Len(inputs') <= Len(meant') /\ \A i \in 1 .. Len(inputs') : inputs'[i] = meant'[i]
    BY <2>5
  <2> QED
    BY <2>9, <2>10, <2>11, Zenon DEF MeantInvariant
<1>3. CASE UNCHANGED vars
  <2>1. MeantInvariant /\ UNCHANGED keyVars
    BY <1>3 DEF vars, bootVars
  <2> QED
    BY <2>1 DEF keyVars, flags, MeantInvariant, TypeOK, Run, Releases
<1>4. CASE \/ DisablePorts \/ WriteConfig \/ PollReply \/ TakeReply \/ Drain \/ Reply
  <2>1. boot = "done" /\ Reply
    BY <1>4 DEF DisablePorts, WriteConfig, PollReply, TakeReply, Drain, Reply, Ask, ResetDevice
  <2> QED
    BY <2>1 DEF BootInvariant, Reply
<1> QED
  BY <1>1, <1>2, <1>3, <1>4 DEF Next

-----------------------------------------------------------------------------
(* Neither old bytes nor the answers to the reset reach the decoder: the      *)
(* count of ps2_reset_device1 ends after the last answer.                     *)
THEOREM StartUpDrains == Spec => []StartsDrained
<1>1. BootInvariant => StartsDrained
  <2> SUFFICES ASSUME BootInvariant PROVE StartsDrained
    OBVIOUS
  <2>1. ASSUME boot = "done", NEW i \in DOMAIN wire PROVE wire[i] \notin Answer
    <3>1. wire \in Seq(KEYS \cup {RELEASE_CODE})
      BY <2>1 DEF BootInvariant, KeyInvariant
    <3>2. wire[i] \in KEYS \cup {RELEASE_CODE}
      BY <2>1, <3>1, LenProperties, ElementOfSeq
    <3> QED
      BY <3>2, KeyCodes
  <2> QED
    BY <2>1 DEF BootInvariant, KeyInvariant, DecoderInit, StartsDrained
<1> QED
  BY <1>1, BootInit, BootNext, PTL DEF Spec

(* Once every byte is read the decoder's modifiers are the keys that are      *)
(* down, in whatever order keys overlapped and however many bytes waited.     *)
THEOREM NoModifierSticks == Spec => []ModifiersMatchKeys
<1>1. BootInvariant => ModifiersMatchKeys
  <2> SUFFICES ASSUME BootInvariant, wire = <<>>
               PROVE  ~is_letting_go /\ mods = held \cap Modifier
    BY DEF ModifiersMatchKeys
  <2>1. CASE boot # "done"
    BY <2>1 DEF BootInvariant, DecoderInit
  <2>2. CASE boot = "done"
    <3>1. KeyInvariant
      BY <2>2 DEF BootInvariant
    <3>2. ~is_letting_go
      BY <3>1 DEF KeyInvariant, WireIsPaired
    <3>3. Len(wire) = 0
      BY EmptySeq
    <3>4. \A m \in Modifier : m \in mods <=> m \in held
      BY <3>1, <3>3 DEF KeyInvariant, LastByteTells
    <3>5. mods \subseteq Modifier
      BY <3>1 DEF KeyInvariant
    <3> QED
      BY <3>2, <3>4, <3>5
  <2> QED
    BY <2>1, <2>2
<1> QED
  BY <1>1, BootInit, BootNext, PTL DEF Spec

(* A key is received once, as what it meant when it was pressed and by the    *)
(* display that was then to be active, however late and interleaved the bytes *)
(* of ps2_intr come; a release is never received.                             *)
THEOREM KeysAreReceived == Spec => []KeysAreReceivedAsMeant
<1> DEFINE Inv == BootInvariant /\ (boot = "done" => MeantInvariant)
<1>1. Init => Inv
  BY BootInit DEF Init
<1>2. Inv /\ [Next]_vars => Inv'
  BY BootNext, MeantNext
<1>3. Inv => KeysAreReceivedAsMeant
  <2> SUFFICES ASSUME BootInvariant, boot = "done" => MeantInvariant
               PROVE  KeysAreReceivedAsMeant
    OBVIOUS
  <2>1. CASE boot # "done"
    <3>1. DecoderInit /\ wire \in Seq(Byte)
      BY <2>1 DEF BootInvariant
    <3>2. inputs = <<>> /\ meant = <<>> /\ Len(inputs) = 0 /\ Len(meant) = 0
      BY <3>1, EmptySeq DEF DecoderInit
    <3>3. inputs \in Seq(Input) /\ meant \in Seq(Input)
      BY <3>2, EmptySeq
    <3>4. TypeOK
      <4>1. 0 \in 0 .. NUM_DISPLAYS - 1 /\ 0 \in 0 .. MAX_PRESSES
        BY KeyboardAssumption DEF KeyboardAssumption
      <4> QED
        BY <3>1, <3>3, <4>1 DEF DecoderInit, TypeOK
    <3>5. inputs = SubSeq(meant, 1, Len(inputs))
      <4>1. SubSeq(meant, 1, 0) = <<>>
        BY SubSeqEmpty
      <4> QED
        BY <3>2, <4>1
    <3> QED
      BY <3>1, <3>2, <3>4, <3>5 DEF DecoderInit, KeysAreReceivedAsMeant
  <2>2. CASE boot = "done"
    <3>1. MeantInvariant
      BY <2>2
    <3>2. /\ TypeOK /\ inputs \in Seq(Input) /\ meant \in Seq(Input)
          /\ Len(inputs) \in Nat /\ Len(meant) \in Nat /\ Len(inputs) <= Len(meant)
          /\ \A i \in 1 .. Len(inputs) : inputs[i] = meant[i]
      BY <3>1, LenProperties DEF MeantInvariant, TypeOK
    <3>3. inputs = SubSeq(meant, 1, Len(inputs))
      <4>1. /\ SubSeq(meant, 1, Len(inputs)) \in Seq(Input)
            /\ Len(SubSeq(meant, 1, Len(inputs))) = Len(inputs)
            /\ \A i \in 1 .. Len(inputs) : SubSeq(meant, 1, Len(inputs))[i] = meant[i]
        <5>1. \A i \in 1 .. Len(inputs) : meant[i] \in Input
          BY <3>2, ElementOfSeq
        <5> QED
          BY <3>2, <5>1, SubSeqProperties
      <4> QED
        BY <3>2, <4>1, SeqEqual
    <3>4. ASSUME wire = <<>> PROVE inputs = meant /\ active = aimed
      <4>1. PICK run : Run(run)
        BY <3>1 DEF MeantInvariant
      <4>2. Len(wire) + 1 = 1
        BY <3>4, EmptySeq
      <4>3. /\ run[1] = [mods |-> mods, active |-> active, n |-> Len(inputs)]
            /\ run[1] = [mods |-> held \cap Modifier, active |-> aimed, n |-> Len(meant)]
        BY <4>1, <4>2 DEF Run
      <4>4. active = aimed /\ Len(inputs) = Len(meant)
        BY <4>3
      <4> QED
        BY <3>2, <4>4, SeqEqual
    <3> QED
      BY <3>2, <3>3, <3>4 DEF KeysAreReceivedAsMeant
  <2> QED
    BY <2>1, <2>2
<1> QED
  BY <1>1, <1>2, <1>3, PTL DEF Spec
=============================================================================
