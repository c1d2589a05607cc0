--------------------------- MODULE AnalysisProofs ---------------------------
(***************************************************************************)
(* Proofs about Analysis: types, the payload printed line by line, the     *)
(* search for passwords, and what the counters count, for any captures and *)
(* any length of a line.                                                   *)
(***************************************************************************)
EXTENDS Analysis, FiniteSetTheorems, TLAPS

\* A number is its own remainder by a larger one: the length of a full line is
\* line_width.
LEMMA SmallMod ==
  ASSUME NEW a \in Nat, NEW b \in Nat, a < b
  PROVE  a % b = a
  BY SMT

\* Multiples of a width are a width apart.
LEMMA NextMultiple ==
  ASSUME NEW w \in Nat \ {0}, NEW c \in Nat, c % w = 0
  PROVE  (c + w) % w = 0
<1>1. PICK q \in Nat : c = w * q
  <2>1. c = w * (c \div w) + (c % w)
    BY SMT
  <2>2. c \div w \in Nat
    BY SMT
  <2> QED
    BY <2>1, <2>2, SMT
<1>2. PICK d \in Int, r \in 0..(w - 1) : c + w = w * d + r /\ r = (c + w) % w
  <2>1. c + w = w * ((c + w) \div w) + ((c + w) % w)
    BY SMT
  <2>2. (c + w) \div w \in Int /\ (c + w) % w \in 0..(w - 1)
    BY SMT
  <2> QED
    BY <2>1, <2>2, Zenon
<1>3. w * (q + 1 - d) = r
  BY <1>1, <1>2, SMT
<1>4. CASE q + 1 - d >= 1
  <2>1. w * (q + 1 - d) >= w
    BY <1>4, SMT
  <2> QED
    BY <2>1, <1>2, <1>3, SMT
<1>5. CASE q + 1 - d <= -1
  <2>1. w * (q + 1 - d) <= -w
    BY <1>5, SMT
  <2> QED
    BY <2>1, <1>2, <1>3, SMT
<1>6. CASE q + 1 - d = 0
  BY <1>6, <1>2, <1>3, SMT
<1> QED
  BY <1>4, <1>5, <1>6, SMT

\* The places of one line have one quotient.
LEMMA SameLine ==
  ASSUME NEW w \in Nat \ {0}, NEW c \in Nat, c % w = 0, NEW i \in (c + 1)..(c + w)
  PROVE  (i - 1) \div w = c \div w
  BY SMT

-----------------------------------------------------------------------------
(* The inductive invariant *)

IInv == AnalysisTypeOK /\ PayloadCovered /\ WordsCaught

\* The frame the loop has come to is one, and its size a number.
LEMMA NextFrame ==
  ASSUME AnalysisTypeOK, ~Ended
  PROVE  /\ next + 1 \in 1..Len(capture)
         /\ Size(capture[next + 1]) \in Int
<1>1. /\ capture \in Seq(Frames)
      /\ next \in 0..Len(capture)
  BY AnalysisAssume DEF AnalysisTypeOK
<1>2. Len(capture) \in Nat
  BY <1>1
<1>3. next + 1 \in 1..Len(capture)
  BY <1>1, <1>2, SMT DEF Ended
<1>4. capture[next + 1] \in Frames
  BY <1>1, <1>3
<1>5. /\ capture[next + 1].ip_len \in Shorts
      /\ capture[next + 1].ihl \in Nibbles
      /\ capture[next + 1].off \in Nibbles
  BY <1>4, SMT DEF Frames
<1>6. (\A n \in Shorts : n \in Int) /\ (\A n \in Nibbles : n \in Int)
  BY SMT DEF Shorts, Nibbles
<1>7. /\ capture[next + 1].ip_len \in Int
      /\ capture[next + 1].ihl \in Int
      /\ capture[next + 1].off \in Int
  BY <1>5, <1>6
<1> QED
  BY <1>3, <1>7, SMT DEF Size

\* A line that is not the last has line_width bytes.
LEMMA FullLine ==
  ASSUME AnalysisTypeOK, len_rem > line_width
  PROVE  LineLen = line_width
<1>1. len_rem \in Nat /\ line_width \in Nat /\ line_width < len_rem
  BY AnalysisAssume, SMT DEF AnalysisTypeOK
<1> QED
  BY <1>1, SmallMod DEF LineLen

\* Counting a port keeps the counters numbers.
LEMMA CountersCount ==
  ASSUME NEW counters \in [PROTOCOLES -> Nat], NEW port
  PROVE  count_protocoles_inc(counters, port) \in [PROTOCOLES -> Nat]
  BY SMT DEF count_protocoles_inc

\* The invariant holds at first.
LEMMA InitHolds ==
  ASSUME Init
  PROVE  IInv
<1>1. capture \in Seq(Frames)
  BY AnalysisAssume DEF Init
<1>2. Len(capture) \in Nat
  BY <1>1
<1>3. AnalysisTypeOK
  BY <1>2, SMT DEF Init, AnalysisTypeOK
<1> QED
  BY <1>3 DEF Init, IInv, PayloadCovered, WordsCaught

\* The steps between two frames, and those that end the program.
LEMMA OtherSteps ==
  ASSUME IInv, Skip \/ LoopEnds \/ PasswordFound \/ SearchCrashes \/ Stats
  PROVE  IInv'
<1> USE DEF IInv, AnalysisTypeOK, PayloadCovered, WordsCaught
<1>0. Len(capture) \in Nat
  BY AnalysisAssume
<1>1. CASE Skip
  <2>1. next + 1 \in 1..Len(capture)
    BY <1>1, NextFrame DEF Skip
  <2> QED
    BY <1>0, <1>1, <2>1, SMT DEF Skip
<1>2. CASE LoopEnds
  BY <1>0, <1>2, SMT DEF LoopEnds
<1>3. CASE PasswordFound
  <2>1. AnalysisTypeOK'
    BY <1>0, <1>3, SMT DEF PasswordFound
  <2>2. PayloadCovered'
    BY <1>3 DEF PasswordFound
  <2>3. WordsCaught'
    BY <1>3 DEF PasswordFound, Text
  <2> QED
    BY <2>1, <2>2, <2>3
<1>4. CASE SearchCrashes
  BY <1>0, <1>4, SMT DEF SearchCrashes
<1>5. CASE Stats
  BY <1>0, <1>5, SMT DEF Stats
<1> QED
  BY <1>1, <1>2, <1>3, <1>4, <1>5

\* A frame with a payload begins its printing at its first byte.
LEMMA GotPacketStep ==
  ASSUME IInv, GotPacket
  PROVE  IInv'
<1> DEFINE f == capture[next + 1]
<1>0. /\ AnalysisTypeOK
      /\ pc = "loop" /\ ~Ended
      /\ next' = next + 1 /\ analysed' = analysed + 1
      /\ UNCHANGED <<caller, capture, num_packets>>
  BY DEF IInv, GotPacket
<1>1. next + 1 \in 1..Len(capture) /\ Size(f) \in Int /\ Len(capture) \in Nat
  BY <1>0, NextFrame, AnalysisAssume DEF AnalysisTypeOK
<1>2. CountPorts(f) \in [PROTOCOLES -> Nat]
  BY <1>0, CountersCount DEF CountPorts, AnalysisTypeOK
<1>3. \/ /\ protocoles' = IF Counted(f) THEN CountPorts(f) ELSE protocoles
         /\ \/ /\ Size(f) > 0
               /\ pc' = "lines"
               /\ ch' = 0 /\ hexed' = 0 /\ offset' = 0 /\ len_rem' = Size(f)
            \/ UNCHANGED <<pc, ch, hexed, offset, len_rem>>
      \/ pc' = "crashed" /\ UNCHANGED <<protocoles, ch, hexed, offset, len_rem>>
  BY DEF GotPacket, HasPayload
<1>4. AnalysisTypeOK'
  BY <1>0, <1>1, <1>2, <1>3, SMT DEF AnalysisTypeOK
<1>5. PayloadCovered'
  <2>1. 0 % line_width = 0
    BY AnalysisAssume, SmallMod
  <2> QED
    BY <1>0, <1>1, <1>3, <2>1, SMT DEF PayloadCovered
<1>6. WordsCaught'
  BY <1>0, <1>3, SMT DEF WordsCaught
<1> QED
  BY <1>4, <1>5, <1>6 DEF IInv

\* The hex columns go one line ahead of the text, and the words in that line are
\* those the search has yet to find.
LEMMA PrintHexStep ==
  ASSUME IInv, PrintHex
  PROVE  IInv'
<1>0. /\ AnalysisTypeOK /\ PayloadCovered /\ WordsCaught
      /\ pc = "lines" /\ pc' = "search" /\ hexed' = ch + ThisLine
      /\ UNCHANGED <<caller, capture, num_packets, next, analysed, protocoles,
                     ch, offset, len_rem>>
  BY DEF IInv, PrintHex
<1>1. /\ line_width \in Nat \ {0}
      /\ ch \in Nat /\ len_rem \in Nat /\ hexed = ch
  BY <1>0, AnalysisAssume DEF AnalysisTypeOK, PayloadCovered
<1>2. ThisLine = IF len_rem < line_width THEN len_rem ELSE line_width
  <2>1. len_rem > line_width => LineLen = line_width
    BY <1>0, FullLine
  <2> QED
    BY <1>1, <2>1, SMT DEF ThisLine
<1>3. AnalysisTypeOK'
  <2>1. ThisLine \in Nat
    BY <1>1, <1>2
  <2> QED
    BY <1>0, <1>1, <2>1, SMT DEF AnalysisTypeOK
<1>4. PayloadCovered'
  <2>1. Size(capture[next])' = Size(capture[next])
    BY <1>0 DEF Size
  <2> QED
    BY <1>0, <1>1, <1>2, <2>1, SMT DEF PayloadCovered
<1>5. WordsCaught'
  <2> SUFFICES ASSUME caller # "earlier", NEW i \in 1..hexed', Text[i] = "word", ~(i > ch)
               PROVE  \E j \in 1..(i - 1) :
                        /\ (j - 1) \div line_width = (i - 1) \div line_width
                        /\ Text[j] = "nul"
    BY <1>0 DEF WordsCaught, Text
  <2>1. i \in 1..hexed
    <3>1. ThisLine \in Nat
      BY <1>1, <1>2
    <3> QED
      BY <1>0, <1>1, <3>1, SMT
  <2> QED
    BY <1>0, <2>1 DEF WordsCaught
<1> QED
  BY <1>3, <1>4, <1>5 DEF IInv

\* A full line: its search has passed over every word in it but those behind a 0.
LEMMA PrintLineStep ==
  ASSUME IInv, PrintLine
  PROVE  IInv'
<1>0. /\ AnalysisTypeOK /\ PayloadCovered /\ WordsCaught
      /\ pc = "search" /\ pc' = "lines" /\ len_rem > line_width /\ ~FindsPassword
      /\ UNCHANGED <<caller, capture, num_packets, next, analysed, protocoles, hexed>>
  BY DEF IInv, PrintLine
<1>1. /\ line_width \in Nat \ {0}
      /\ ch \in Nat /\ len_rem \in Nat /\ offset \in Nat
      /\ ch % line_width = 0
  BY <1>0, AnalysisAssume DEF AnalysisTypeOK, PayloadCovered
<1>2. /\ len_rem' = len_rem - line_width
      /\ ch' = ch + line_width
      /\ offset' = offset + line_width
  BY <1>0, FullLine DEF PrintLine
<1>3. AnalysisTypeOK'
  BY <1>0, <1>1, <1>2, SMT DEF AnalysisTypeOK
<1>4. PayloadCovered'
  <2>1. ch' % line_width = 0
    BY <1>1, <1>2, NextMultiple
  <2>2. Size(capture[next])' = Size(capture[next])
    BY <1>0 DEF Size
  <2>3. /\ ch + len_rem = Size(capture[next])
        /\ offset = ch
        /\ hexed = ch + line_width
    BY <1>0, <1>1, SMT DEF PayloadCovered
  <2> QED
    BY <1>0, <1>1, <1>2, <2>1, <2>2, <2>3, SMT DEF PayloadCovered
<1>5. WordsCaught'
  <2>0. hexed = ch + line_width
    BY <1>0, <1>1, SMT DEF PayloadCovered
  <2> SUFFICES ASSUME caller # "earlier", NEW i \in 1..hexed, Text[i] = "word"
               PROVE  \E j \in 1..(i - 1) :
                        /\ (j - 1) \div line_width = (i - 1) \div line_width
                        /\ Text[j] = "nul"
    BY <1>0 DEF WordsCaught, Text
  <2>1. CASE i \in 1..ch
    <3>1. ~(i > ch)
      BY <2>1, <1>1, SMT
    <3> QED
      BY <3>1, <1>0 DEF WordsCaught
  <2>2. CASE i \in (ch + 1)..(ch + line_width)
    <3>0. next \in 1..Len(capture) /\ capture \in Seq(Frames) /\ capture \in Captures
      BY <1>0, AnalysisAssume DEF AnalysisTypeOK
    <3>1. i \in (ch + 1)..Len(Text)
      <4>1. Size(capture[next]) <= Len(Text)
        BY <3>0, AnalysisAssume DEF Text
      <4>2. Text \in Seq(Bytes)
        <5>1. capture[next] \in Frames
          BY <3>0
        <5>2. capture[next].text \in Seq(Bytes)
          BY <5>1, SMT DEF Frames
        <5> QED
          BY <5>2 DEF Text
      <4>3. ch + len_rem = Size(capture[next])
        BY <1>0 DEF PayloadCovered
      <4>4. Len(Text) \in Nat
        BY <4>2
      <4>5. ch + len_rem <= Len(Text)
        BY <4>1, <4>3
      <4> QED
        BY <2>2, <4>4, <4>5, <1>0, <1>1, SMT
    <3>2. PICK j \in (ch + 1)..(i - 1) : Text[j] = "nul"
      BY <1>0, <3>1 DEF FindsPassword, Finds
    <3>3. j \in (ch + 1)..(ch + line_width) /\ j \in 1..(i - 1)
      BY <2>2, <1>1, SMT
    <3>4. (j - 1) \div line_width = (i - 1) \div line_width
      <4>1. (i - 1) \div line_width = ch \div line_width
        BY <2>2, <1>1, SameLine
      <4>2. (j - 1) \div line_width = ch \div line_width
        BY <3>3, <1>1, SameLine
      <4> QED
        BY <4>1, <4>2
    <3> QED
      BY <3>2, <3>3, <3>4
  <2> QED
    BY <2>0, <2>1, <2>2, <1>1, SMT
<1> QED
  BY <1>3, <1>4, <1>5 DEF IInv

\* The last line ends the printing.
LEMMA PrintLastLineStep ==
  ASSUME IInv, PrintLastLine
  PROVE  IInv'
<1>1. Len(capture) \in Nat
  BY AnalysisAssume DEF IInv, AnalysisTypeOK
<1>2. AnalysisTypeOK'
  BY <1>1, SMT DEF IInv, AnalysisTypeOK, PrintLastLine
<1> QED
  BY <1>2 DEF IInv, PrintLastLine, PayloadCovered, WordsCaught

\* Every step keeps the invariant.
LEMMA Preserved ==
  ASSUME IInv, [Next]_vars
  PROVE  IInv'
<1>1. CASE UNCHANGED vars
  BY <1>1 DEF IInv, AnalysisTypeOK, PayloadCovered, WordsCaught, vars, Size, Text
<1>2. CASE Next
  BY <1>2, OtherSteps, GotPacketStep, PrintHexStep, PrintLineStep, PrintLastLineStep DEF Next
<1> QED
  BY <1>1, <1>2

-----------------------------------------------------------------------------
(* Theorems *)

\* The invariant holds in every reachable state.
LEMMA Invariance == Spec => []IInv
  BY InitHolds, Preserved, PTL DEF Spec

\* Every variable of the analysis keeps its type, for any captures.
THEOREM TypeCorrect == Spec => []AnalysisTypeOK
<1>1. IInv => AnalysisTypeOK
  BY DEF IInv
<1> QED
  BY <1>1, Invariance, PTL

\* The lines of a payload are its bytes in order, none left out or printed
\* twice, for any length of a line: got_packet, print_payload.
THEOREM PayloadPrinted == Spec => []PayloadCovered
<1>1. IInv => PayloadCovered
  BY DEF IInv
<1> QED
  BY <1>1, Invariance, PTL

\* Where a word that announces a password is missed, a 0 stands before it in its
\* own line; any other is shown in hex at most, in the line searched last:
\* look_for_pswd, called between the hex columns of a line and its text.
THEOREM PasswordsStop == Spec => []WordsCaught
<1>1. IInv => WordsCaught
  BY DEF IInv
<1> QED
  BY <1>1, Invariance, PTL

-----------------------------------------------------------------------------
(* The counters *)

\* The places where the port of k stands in the first n frames, of those that
\* pass the filter and get to the counters.
PortEnds(n, k) ==
  {end \in (Passing \cap 1..n) \X {"sport", "dport"} :
     Counted(capture[end[1]]) /\ capture[end[1]][end[2]] = Port[k]}

\* Frames are counted as the loop comes past them, and no more than asked for.
Tally ==
  /\ analysed = Cardinality(Passing \cap 1..next)
  /\ num_packets > 0 => analysed <= num_packets
  /\ pc \notin {"exited", "crashed"} =>
       \A k \in PROTOCOLES : protocoles[k] = Cardinality(PortEnds(next, k))
  /\ pc \in {"stats", "done"} => Ended

\* A set with one element more, when the condition holds.
LEMMA OneMore ==
  ASSUME NEW S, IsFiniteSet(S), NEW x, x \notin S, NEW P \in BOOLEAN
  PROVE  /\ IsFiniteSet(IF P THEN S \cup {x} ELSE S)
         /\ Cardinality(IF P THEN S \cup {x} ELSE S)
              = IF P THEN Cardinality(S) + 1 ELSE Cardinality(S)
BY FS_AddElement

\* There are finitely many of both.
LEMMA Finite ==
  ASSUME NEW n \in Nat, NEW k
  PROVE  IsFiniteSet(Passing \cap 1..n) /\ IsFiniteSet(PortEnds(n, k))
<1>1. IsFiniteSet(1..n)
  BY FS_Interval
<1>2. IsFiniteSet(Passing \cap 1..n)
  <2>1. Passing \cap 1..n \in SUBSET (1..n)
    OBVIOUS
  <2> QED
    BY <1>1, <2>1, FS_Subset
<1>3. IsFiniteSet({"sport", "dport"})
  <2>1. IsFiniteSet({} \cup {"sport"})
    BY FS_EmptySet, FS_AddElement
  <2>2. IsFiniteSet(({} \cup {"sport"}) \cup {"dport"})
    BY <2>1, FS_AddElement
  <2>3. ({} \cup {"sport"}) \cup {"dport"} = {"sport", "dport"}
    OBVIOUS
  <2> QED
    BY <2>2, <2>3
<1>4. IsFiniteSet((Passing \cap 1..n) \X {"sport", "dport"})
  BY <1>2, <1>3, FS_Product
<1>5. PortEnds(n, k) \in SUBSET ((Passing \cap 1..n) \X {"sport", "dport"})
  BY DEF PortEnds
<1> QED
  BY <1>2, <1>4, <1>5, FS_Subset

\* The next frame, when it does not pass,
LEMMA NotCounted ==
  ASSUME NEW n \in Nat, NEW k, n + 1 \in DOMAIN capture => ~Passes(capture[n + 1])
  PROVE  Passing \cap 1..(n + 1) = Passing \cap 1..n /\ PortEnds(n + 1, k) = PortEnds(n, k)
<1>1. n + 1 \notin Passing
  BY DEF Passing
<1>2. \A i \in 1..(n + 1) : i = n + 1 \/ i \in 1..n
  OBVIOUS
<1>3. 1..n \subseteq 1..(n + 1)
  OBVIOUS
<1>4. Passing \cap 1..(n + 1) = Passing \cap 1..n
  BY <1>1, <1>2, <1>3
<1> QED
  BY <1>4 DEF PortEnds

\* and when it does: one frame more, and its two ports.
LEMMA OneFrameMore ==
  ASSUME NEW n \in Nat, NEW k, n + 1 \in DOMAIN capture, Passes(capture[n + 1])
  PROVE  LET f == capture[n + 1]
             s == IF Counted(f) /\ f.sport = Port[k]
                  THEN PortEnds(n, k) \cup {<<n + 1, "sport">>} ELSE PortEnds(n, k)
         IN  /\ Passing \cap 1..(n + 1) = (Passing \cap 1..n) \cup {n + 1}
             /\ n + 1 \notin Passing \cap 1..n
             /\ <<n + 1, "sport">> \notin PortEnds(n, k) /\ <<n + 1, "dport">> \notin s
             /\ PortEnds(n + 1, k) = IF Counted(f) /\ f.dport = Port[k]
                                     THEN s \cup {<<n + 1, "dport">>} ELSE s
<1> DEFINE f == capture[n + 1]
           T == {"sport", "dport"}
           p == Port[k]
           s == IF Counted(f) /\ f.sport = p
                THEN PortEnds(n, k) \cup {<<n + 1, "sport">>} ELSE PortEnds(n, k)
<1>1. n + 1 \in Passing
  BY DEF Passing
<1>2. n + 1 \notin 1..n /\ \A i : i \in 1..(n + 1) <=> (i \in 1..n \/ i = n + 1)
  OBVIOUS
<1>3. /\ Passing \cap 1..(n + 1) = (Passing \cap 1..n) \cup {n + 1}
      /\ n + 1 \notin Passing \cap 1..n
  BY <1>1, <1>2
<1>4. \A e : <<n + 1, e>> \notin PortEnds(n, k)
  BY <1>3 DEF PortEnds
<1>5. <<n + 1, "dport">> \notin s
  BY <1>4
<1>6. f["sport"] = f.sport /\ f["dport"] = f.dport
  OBVIOUS
<1>7. \A i, e : <<i, e>> \in PortEnds(n + 1, k) <=>
                  (<<i, e>> \in PortEnds(n, k)
                   \/ (i = n + 1 /\ e \in T /\ Counted(f) /\ f[e] = p))
  BY <1>3 DEF PortEnds
<1> DEFINE A == PortEnds(n + 1, k)
           B == PortEnds(n, k)
           P == Counted(f) /\ f.sport = p
           Q == Counted(f) /\ f.dport = p
<1>8. \A x \in A \cup B : x = <<x[1], x[2]>>
  BY DEF PortEnds
<1>9. \A x : x \in A <=> (\/ x \in B
                          \/ x = <<n + 1, "sport">> /\ P
                          \/ x = <<n + 1, "dport">> /\ Q)
  <2>1. ASSUME NEW x \in A
        PROVE  \/ x \in B
               \/ x = <<n + 1, "sport">> /\ P
               \/ x = <<n + 1, "dport">> /\ Q
    <3>1. x = <<x[1], x[2]>>
      BY <1>8
    <3>2. x \in B \/ (x[1] = n + 1 /\ x[2] \in T /\ Counted(f) /\ f[x[2]] = p)
      BY <1>7, <3>1
    <3> HIDE DEF A, B
    <3> QED
      BY <1>6, <3>1, <3>2
  <2>2. \A x \in B : x \in A
    BY <1>7, <1>8
  <2>3. (P => <<n + 1, "sport">> \in A) /\ (Q => <<n + 1, "dport">> \in A)
    BY <1>6, <1>7
  <2> HIDE DEF A, B, P, Q
  <2> QED
    BY <2>1, <2>2, <2>3
<1>10. A = IF Q THEN s \cup {<<n + 1, "dport">>} ELSE s
  <2>1. s = IF P THEN B \cup {<<n + 1, "sport">>} ELSE B
    OBVIOUS
  <2> HIDE DEF A, B, P, Q, s
  <2> QED
    BY <1>9, <2>1
<1> QED
  BY <1>3, <1>4, <1>5, <1>10

\* At first nothing is counted.
LEMMA TallyBegins ==
  ASSUME Init
  PROVE  Tally
<1>1. Passing \cap 1..0 = {} /\ \A k : PortEnds(0, k) = {}
  BY DEF PortEnds
<1> QED
  BY <1>1, FS_EmptySet DEF Init, Tally

\* The run is of one program on one capture.
LEMMA SameRun ==
  ASSUME [Next]_vars
  PROVE  /\ UNCHANGED <<caller, capture, num_packets>> /\ Passing' = Passing
         /\ \A n, k : PortEnds(n, k)' = PortEnds(n, k)
         /\ \A f : Counted(f)' = Counted(f)
<1>1. UNCHANGED <<caller, capture, num_packets>>
  BY DEF Next, vars, Skip, LoopEnds, GotPacket, PrintHex, PasswordFound, SearchCrashes,
         PrintLine, PrintLastLine, Stats
<1> QED
  BY <1>1 DEF Passing, Passes, PortEnds, Counted

\* A frame that passes is counted, and its ports when it gets to the counters.
LEMMA TallyGrows ==
  ASSUME IInv, Tally, GotPacket
  PROVE  Tally'
<1> DEFINE f == capture[next + 1]
<1>1. /\ pc = "loop" /\ ~Ended /\ Passes(f) /\ next' = next + 1 /\ analysed' = analysed + 1
      /\ \/ /\ protocoles' = IF Counted(f) THEN CountPorts(f) ELSE protocoles
            /\ pc' \in {"loop", "lines"}
         \/ pc' = "crashed"
  BY DEF GotPacket
<1>2. next \in Nat /\ next + 1 \in DOMAIN capture /\ analysed \in Nat /\ num_packets \in Int
  <2>1. AnalysisTypeOK /\ capture \in Seq(Frames) /\ num_packets \in NumPackets \cup {-1}
    BY AnalysisAssume DEF IInv, AnalysisTypeOK
  <2>2. next \in 0..Len(capture) /\ analysed \in 0..next /\ Len(capture) \in Nat
    BY <2>1 DEF AnalysisTypeOK
  <2>3. next + 1 \in 1..Len(capture)
    BY <1>1, <2>1, NextFrame
  <2>4. num_packets \in Int
    BY <2>1, AnalysisAssume
  <2> QED
    BY <2>1, <2>2, <2>3, <2>4
<1>3. /\ Passing' = Passing /\ num_packets' = num_packets
      /\ \A n, k : PortEnds(n, k)' = PortEnds(n, k)
  BY SameRun DEF Next
<1>4. analysed' = Cardinality((Passing \cap 1..next)')
  <2>1. Cardinality(Passing \cap 1..(next + 1)) = Cardinality(Passing \cap 1..next) + 1
    <3>1. /\ Passing \cap 1..(next + 1) = (Passing \cap 1..next) \cup {next + 1}
          /\ next + 1 \notin Passing \cap 1..next
      BY <1>1, <1>2, OneFrameMore
    <3>2. IsFiniteSet(Passing \cap 1..next)
      BY <1>2, Finite
    <3> QED
      BY <3>1, <3>2, FS_AddElement
  <2> QED
    BY <1>1, <1>3, <2>1 DEF Tally
<1>5. num_packets' > 0 => analysed' <= num_packets'
  BY <1>1, <1>2, <1>3 DEF Tally, Ended
<1>6. ASSUME pc' # "crashed", NEW k \in PROTOCOLES
      PROVE  protocoles'[k] = Cardinality(PortEnds(next, k)')
  <2> DEFINE P == Counted(f) /\ f.sport = Port[k]
             Q == Counted(f) /\ f.dport = Port[k]
             B == PortEnds(next, k)
             s == IF P THEN B \cup {<<next + 1, "sport">>} ELSE B
             A == IF Q THEN s \cup {<<next + 1, "dport">>} ELSE s
             b == Cardinality(B)
  <2>1. PortEnds(next, k)' = A
    <3>1. PortEnds(next + 1, k) = A
      BY <1>1, <1>2, OneFrameMore
    <3>2. PortEnds(next, k)' = PortEnds(next + 1, k)
      BY <1>1, <1>3 DEF PortEnds
    <3> QED
      BY <3>1, <3>2
  <2>2. <<next + 1, "sport">> \notin B /\ <<next + 1, "dport">> \notin s
    BY <1>1, <1>2, OneFrameMore
  <2>3. IsFiniteSet(B) /\ b \in Nat
    BY <1>2, Finite, FS_CardinalityType
  <2>4. protocoles[k] = b
    BY <1>1 DEF Tally
  <2>5. protocoles \in [PROTOCOLES -> Nat]
    BY DEF IInv, AnalysisTypeOK
  <2>6. protocoles'[k] = (b + (IF P THEN 1 ELSE 0)) + (IF Q THEN 1 ELSE 0)
    <3>1. protocoles' = IF Counted(f) THEN CountPorts(f) ELSE protocoles
      BY <1>1, <1>6
    <3>2. CountPorts(f)[k] = (b + (IF f.sport = Port[k] THEN 1 ELSE 0))
                             + (IF f.dport = Port[k] THEN 1 ELSE 0)
      BY <2>3, <2>4, <2>5 DEF CountPorts, count_protocoles_inc
    <3> QED
      BY <2>3, <2>4, <3>1, <3>2
  <2> HIDE DEF P, Q, B
  <2>7. IsFiniteSet(s) /\ Cardinality(s) = IF P THEN b + 1 ELSE b
    BY <2>2, <2>3, FS_AddElement
  <2> HIDE DEF s
  <2>8. Cardinality(A) = IF Q THEN Cardinality(s) + 1 ELSE Cardinality(s)
    BY <2>2, <2>7, FS_AddElement
  <2> HIDE DEF A, b
  <2> QED
    BY <2>1, <2>3, <2>6, <2>7, <2>8
<1> QED
  BY <1>1, <1>4, <1>5, <1>6 DEF Tally

\* The other steps come past no frame, or past one that does not pass.
LEMMA TallyKept ==
  ASSUME IInv, Tally, [Next]_vars
  PROVE  Tally'
<1>1. /\ Passing' = Passing /\ num_packets' = num_packets /\ capture' = capture
      /\ \A n, k : PortEnds(n, k)' = PortEnds(n, k)
  BY SameRun
<1>2. CASE GotPacket
  BY <1>2, TallyGrows
<1>3. CASE Skip
  <2>1. /\ pc' = pc /\ pc = "loop" /\ next' = next + 1 /\ UNCHANGED <<analysed, protocoles>>
        /\ ~Passes(capture[next + 1])
    BY <1>3 DEF Skip
  <2>2. next \in Nat
    BY DEF IInv, AnalysisTypeOK
  <2>3. (Passing \cap 1..next)' = Passing \cap 1..next
    BY <1>1, <2>1, <2>2, NotCounted
  <2>4. \A k : PortEnds(next, k)' = PortEnds(next, k)
    <3> TAKE k
    <3>1. PortEnds(next + 1, k) = PortEnds(next, k)
      BY <2>1, <2>2, NotCounted
    <3>2. PortEnds(next, k)' = PortEnds(next + 1, k)
      BY <1>1, <2>1 DEF PortEnds
    <3> QED
      BY <3>1, <3>2
  <2> QED
    BY <1>1, <2>1, <2>3, <2>4 DEF Tally
<1>4. CASE ~(GotPacket \/ Skip)
  <2>1. /\ UNCHANGED <<next, analysed, protocoles>>
        /\ pc' \notin {"exited", "crashed"} => pc \notin {"exited", "crashed"}
        /\ pc' \in {"stats", "done"} => pc \in {"stats", "done"} \/ Ended
    BY <1>4 DEF Next, vars, LoopEnds, PrintHex, PasswordFound, SearchCrashes,
                PrintLine, PrintLastLine, Stats
  <2>2. Ended' = Ended
    BY <1>1, <2>1 DEF Ended
  <2>3. \A k : PortEnds(next, k)' = PortEnds(next, k)
    BY <1>1, <2>1 DEF PortEnds
  <2>4. (Passing \cap 1..next)' = Passing \cap 1..next
    BY <1>1, <2>1
  <2> QED
    BY <1>1, <2>1, <2>2, <2>3, <2>4 DEF Tally
<1> QED
  BY <1>2, <1>3, <1>4

\* Where the loop ends it has come past what was asked for.
LEMMA AllWanted ==
  ASSUME IInv, Tally, Ended
  PROVE  Wanted = Passing \cap 1..next
<1>1. /\ capture \in Seq(Frames) /\ Len(capture) \in Nat /\ next \in 0..Len(capture)
      /\ DOMAIN capture = 1..Len(capture) /\ num_packets \in Int
  BY AnalysisAssume DEF IInv, AnalysisTypeOK
<1>2. next \in Nat /\ \A i \in Passing : i \in 1..Len(capture)
  BY <1>1 DEF Passing
<1>3. analysed = Cardinality(Passing \cap 1..next) /\ analysed \in Nat
      /\ IsFiniteSet(Passing \cap 1..next)
  BY <1>2, Finite, FS_CardinalityType DEF Tally
<1>4. ASSUME NEW i \in Passing, i <= next
      PROVE  i \in Wanted
  <2>1. Passing \cap 1..i \in SUBSET (Passing \cap 1..next)
    BY <1>1, <1>2, <1>4
  <2>2. IsFiniteSet(Passing \cap 1..i) /\ Cardinality(Passing \cap 1..i) <= analysed
    BY <1>3, <2>1, FS_Subset
  <2>3. Cardinality(Passing \cap 1..i) \in Nat
    BY <2>2, FS_CardinalityType
  <2>4. num_packets > 0 => Cardinality(Passing \cap 1..i) <= num_packets
    BY <1>1, <1>3, <2>2, <2>3 DEF Tally
  <2> QED
    BY <1>4, <2>4 DEF Wanted
<1>5. ASSUME NEW i \in Passing, i > next
      PROVE  i \notin Wanted
  <2>1. num_packets > 0 /\ analysed = num_packets
    <3>1. i \in 1..Len(capture)
      BY <1>2
    <3>2. Len(capture) \in Nat /\ next \in Nat /\ i > next
      BY <1>1, <1>2, <1>5
    <3> DEFINE m == Len(capture)
    <3> HIDE DEF m
    <3>3. next # m
      BY <3>1, <3>2 DEF m
    <3> QED
      BY <3>3 DEF Ended, m
  <2>2. i \in Nat /\ i \notin 1..next
        /\ (Passing \cap 1..next) \cup {i} \in SUBSET (Passing \cap 1..i)
    BY <1>1, <1>2, <1>5
  <2>3. /\ IsFiniteSet((Passing \cap 1..next) \cup {i})
        /\ Cardinality((Passing \cap 1..next) \cup {i}) = analysed + 1
    BY <1>3, <2>2, FS_AddElement
  <2>4. IsFiniteSet(Passing \cap 1..i)
    BY <2>2, Finite
  <2>5. analysed + 1 <= Cardinality(Passing \cap 1..i)
    BY <2>2, <2>3, <2>4, FS_Subset
  <2>6. Cardinality(Passing \cap 1..i) \in Nat
    BY <2>4, FS_CardinalityType
  <2>7. ~(Cardinality(Passing \cap 1..i) <= num_packets)
    BY <1>3, <2>1, <2>5, <2>6
  <2> QED
    BY <2>1, <2>7 DEF Wanted
<1>6. \A i \in Wanted : i \in Passing
  BY DEF Wanted
<1>7. \A i \in Passing : i \in Nat /\ (i \in 1..next <=> i <= next) /\ (i <= next \/ i > next)
  BY <1>1, <1>2
<1> QED
  BY <1>4, <1>5, <1>6, <1>7

\* When the statistics are made each counter is the number of times its port
\* stands in a frame among those asked for: got_packet, count_protocoles_inc and
\* the loop of pcap_loop, for any captures and any num_packets.
THEOREM CountersExact == Spec => []CountsExact
<1>1. Init => IInv /\ Tally
  BY InitHolds, TallyBegins
<1>2. IInv /\ Tally /\ [Next]_vars => (IInv /\ Tally)'
  BY Preserved, TallyKept
<1>3. IInv /\ Tally => CountsExact
  <2> SUFFICES ASSUME IInv, Tally, pc \in {"stats", "done"}, NEW k \in PROTOCOLES
               PROVE  protocoles[k] =
                        Cardinality({end \in Wanted \X {"sport", "dport"} :
                                       /\ Counted(capture[end[1]])
                                       /\ capture[end[1]][end[2]] = Port[k]})
    BY DEF CountsExact
  <2>1. Wanted = Passing \cap 1..next /\ protocoles[k] = Cardinality(PortEnds(next, k))
    BY AllWanted DEF Tally
  <2> QED
    BY <2>1 DEF PortEnds
<1> QED
  BY <1>1, <1>2, <1>3, PTL DEF Spec

-----------------------------------------------------------------------------
(* count_protocoles_stats *)

\* There are nine counters.
LEMMA NineCounters == Cardinality(PROTOCOLES) = 9
<1> DEFINE A == {"TELNET"}
           B == A \cup {"HTTP"}
           C == B \cup {"FTP"}
           D == C \cup {"SSH"}
           E == D \cup {"IMAP"}
           F == E \cup {"POP3"}
           G == F \cup {"HTTPS"}
           H == G \cup {"ECHO"}
           I == H \cup {"DNS"}
<1>1. IsFiniteSet(A) /\ Cardinality(A) = 1
  BY FS_Singleton
<1>2. /\ "HTTP" \notin A /\ "FTP" \notin B /\ "SSH" \notin C /\ "IMAP" \notin D
      /\ "POP3" \notin E /\ "HTTPS" \notin F /\ "ECHO" \notin G /\ "DNS" \notin H
  OBVIOUS
<1>3. PROTOCOLES = I
  BY DEF PROTOCOLES
<1> HIDE DEF A
<1>4. IsFiniteSet(B) /\ Cardinality(B) = 2
  BY <1>1, <1>2, FS_AddElement
<1> HIDE DEF B
<1>5. IsFiniteSet(C) /\ Cardinality(C) = 3
  BY <1>2, <1>4, FS_AddElement
<1> HIDE DEF C
<1>6. IsFiniteSet(D) /\ Cardinality(D) = 4
  BY <1>2, <1>5, FS_AddElement
<1> HIDE DEF D
<1>7. IsFiniteSet(E) /\ Cardinality(E) = 5
  BY <1>2, <1>6, FS_AddElement
<1> HIDE DEF E
<1>8. IsFiniteSet(F) /\ Cardinality(F) = 6
  BY <1>2, <1>7, FS_AddElement
<1> HIDE DEF F
<1>9. IsFiniteSet(G) /\ Cardinality(G) = 7
  BY <1>2, <1>8, FS_AddElement
<1> HIDE DEF G
<1>10. IsFiniteSet(H) /\ Cardinality(H) = 8
  BY <1>2, <1>9, FS_AddElement
<1> HIDE DEF H
<1>11. IsFiniteSet(I) /\ Cardinality(I) = 9
  BY <1>2, <1>10, FS_AddElement
<1> QED
  BY <1>3, <1>11

\* The share of a part in a sum, in percent, rounded down.
LEMMA RoundedDown ==
  ASSUME NEW s \in Nat \ {0}, NEW p \in 0..s
  PROVE  LET q == (p * 100) \div s
         IN  q \in 0..100 /\ s * q <= p * 100 /\ p * 100 < s * q + s
<1> DEFINE n == p * 100
           q == n \div s
<1>1. n \in Nat /\ n <= 100 * s
  OBVIOUS
<1> HIDE DEF n
<1>2. q \in Int /\ n = s * q + (n % s) /\ (n % s) \in 0..(s - 1)
  BY <1>1, SMT
<1> HIDE DEF q
<1>3. s * q <= n /\ n < s * q + s
  <2> DEFINE x == s * q
             r == n % s
  <2>1. x \in Int /\ r \in Int
    BY <1>2
  <2>2. n = x + r /\ 0 <= r /\ r < s
    BY <1>2
  <2> HIDE DEF x, r
  <2>3. x <= n /\ n < x + s
    BY <1>1, <2>1, <2>2
  <2> QED
    BY <2>3 DEF x
<1>4. q >= 0
  <2> SUFFICES ASSUME q <= -1
               PROVE  FALSE
    BY <1>2
  <2>1. s * q + s <= 0
    BY <1>2, SMT
  <2> QED
    BY <1>1, <1>2, <1>3, <2>1, SMT
<1>5. q <= 100
  <2> SUFFICES ASSUME q >= 101
               PROVE  FALSE
    BY <1>2
  <2>1. s * q >= 101 * s
    BY <1>2, SMT
  <2> QED
    BY <1>1, <1>2, <1>3, <2>1, SMT
<1> QED
  BY <1>2, <1>3, <1>4, <1>5 DEF n, q

\* The shares written are percentages, and what rounding takes from their sum is
\* less than one each, so less than nine in all: the division of
\* count_protocoles_stats, for any captures.
THEOREM SharesRight == Spec => []SharesAreShares
<1>1. AnalysisTypeOK => SharesAreShares
  <2> SUFFICES ASSUME AnalysisTypeOK, Sum # 0
               PROVE  LET total == Total([k \in PROTOCOLES |-> Share(k)]) IN
                      /\ \A k \in PROTOCOLES : Share(k) \in 0..100
                      /\ 100 - Cardinality(PROTOCOLES) < total /\ total <= 100
    BY DEF SharesAreShares
  <2> DEFINE p == protocoles
             total == Total([k \in PROTOCOLES |-> Share(k)])
  <2>1. \A k \in PROTOCOLES : p[k] \in Nat
    BY DEF AnalysisTypeOK
  <2>2. Sum \in Nat \ {0} /\ \A k \in PROTOCOLES : p[k] \in 0..Sum
    BY <2>1 DEF Sum, Total, PROTOCOLES
  <2>3. \A k \in PROTOCOLES : /\ Share(k) \in 0..100 /\ Sum * Share(k) <= p[k] * 100
                              /\ p[k] * 100 < Sum * Share(k) + Sum
    BY <2>2, RoundedDown DEF Share
  <2>4. total \in Int /\ Sum * total <= Sum * 100 /\ Sum * 100 < Sum * (total + 9)
    <3> DEFINE S(k) == Share(k)
               m(k) == Sum * S(k)
    <3>1. total = S("TELNET") + S("HTTP") + S("FTP") + S("SSH") + S("IMAP") + S("POP3")
                  + S("HTTPS") + S("ECHO") + S("DNS")
      BY DEF Total, PROTOCOLES
    <3>2. \A k \in PROTOCOLES : S(k) \in Int /\ m(k) \in Int
      BY <2>2, <2>3
    <3>3. Sum * total = m("TELNET") + m("HTTP") + m("FTP") + m("SSH") + m("IMAP")
                        + m("POP3") + m("HTTPS") + m("ECHO") + m("DNS")
      <4> DEFINE a == S("TELNET")  b == S("HTTP")  c == S("FTP")  d == S("SSH")
                 e == S("IMAP")  f == S("POP3")  g == S("HTTPS")  h == S("ECHO")
                 i == S("DNS")
      <4>1. total = a + b + c + d + e + f + g + h + i
        BY <3>1
      <4>2. /\ a \in Int /\ b \in Int /\ c \in Int /\ d \in Int /\ e \in Int
            /\ f \in Int /\ g \in Int /\ h \in Int /\ i \in Int
        BY <3>2 DEF PROTOCOLES
      <4> HIDE DEF a, b, c, d, e, f, g, h, i, total
      <4>3. Sum * total = Sum * a + Sum * b + Sum * c + Sum * d + Sum * e + Sum * f
                          + Sum * g + Sum * h + Sum * i
        BY <2>2, <4>1, <4>2, SMT
      <4> QED
        BY <4>3 DEF a, b, c, d, e, f, g, h, i
    <3>4. total \in Int
      <4> HIDE DEF total, S
      <4> QED
        BY <3>1, <3>2 DEF PROTOCOLES
    <3>5. Sum * (total + 9) = Sum * total + 9 * Sum
      <4> HIDE DEF total
      <4> QED
        BY <2>2, <3>4, SMT
    <3>6. \A k \in PROTOCOLES : m(k) <= p[k] * 100 /\ p[k] * 100 < m(k) + Sum
      BY <2>3
    <3> DEFINE x == Sum * total
               y == Sum * (total + 9)
               z == Sum
    <3>7. x <= Sum * 100 /\ Sum * 100 < y
      <4>1. z = p["TELNET"] + p["HTTP"] + p["FTP"] + p["SSH"] + p["IMAP"] + p["POP3"]
                + p["HTTPS"] + p["ECHO"] + p["DNS"]
        BY DEF Sum, Total
      <4>2. z \in Nat /\ y = x + 9 * z
        BY <2>2, <3>5
      <4> HIDE DEF total, m, x, y, z
      <4>3. x <= z * 100 /\ z * 100 < y
        BY <2>1, <3>2, <3>3, <3>6, <4>1, <4>2 DEF PROTOCOLES, x, z
      <4> QED
        BY <4>3 DEF z
    <3> QED
      BY <3>4, <3>7
  <2> HIDE DEF total
  <2>5. total <= 100
    <3> SUFFICES ASSUME total >= 101
                 PROVE  FALSE
      BY <2>4
    <3>1. Sum * total >= Sum * 101
      BY <2>2, <2>4, SMT
    <3> QED
      BY <2>2, <2>4, <3>1, SMT
  <2>6. 91 < total
    <3> SUFFICES ASSUME total + 9 <= 100
                 PROVE  FALSE
      BY <2>4
    <3>1. Sum * (total + 9) <= Sum * 100
      BY <2>2, <2>4, SMT
    <3> QED
      BY <2>2, <2>4, <3>1, SMT
  <2> QED
    BY <2>3, <2>4, <2>5, <2>6, NineCounters DEF total
<1> QED
  BY <1>1, TypeCorrect, PTL
=============================================================================
