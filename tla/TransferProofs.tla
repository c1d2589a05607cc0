--------------------------- MODULE TransferProofs ---------------------------
(***************************************************************************)
(* Proofs about Transfer, for any sizes of file, buffer, socket and int:   *)
(* types, that the copy implements the queue of Fifo, what a transfer that *)
(* is complete means, and what the end of the server by SIGPIPE means.     *)
(***************************************************************************)
EXTENDS Transfer, SequenceTheorems, TLAPS

-----------------------------------------------------------------------------
(* Operators of the model *)

\* A sequence is what comes up to a place in it and what comes from there.
LEMMA Cut ==
  ASSUME NEW S, NEW s \in Seq(S), NEW n \in 0..Len(s)
  PROVE  /\ UpTo(s, n) \in Seq(S) /\ Len(UpTo(s, n)) = n
         /\ From(s, n) \in Seq(S) /\ Len(From(s, n)) = Len(s) - n
         /\ UpTo(s, n) \o From(s, n) = s
         /\ \A i \in 1..n : UpTo(s, n)[i] = s[i]
<1>1. Len(s) \in Nat /\ \A i \in 1..Len(s) : s[i] \in S
  BY ElementOfSeq, LenProperties
<1>2. UpTo(s, n) \in Seq(S) /\ Len(UpTo(s, n)) = n /\ \A i \in 1..n : UpTo(s, n)[i] = s[i]
  BY <1>1, SubSeqProperties, SMT DEF UpTo
<1>3. From(s, n) \in Seq(S) /\ Len(From(s, n)) = Len(s) - n
  BY <1>1, SubSeqProperties, SMT DEF From
<1>4. UpTo(s, n) \o From(s, n) = s
  <2>1. SubSeq(s, 1, n) \o SubSeq(s, n + 1, Len(s)) = SubSeq(s, 1, Len(s))
    <3>1. 1 \in 1..(Len(s) + 1) /\ n \in (1 - 1)..Len(s) /\ Len(s) \in n..Len(s)
      BY <1>1
    <3> QED
      BY <3>1, ConcatAdjacentSubSeq
  <2> QED
    BY <2>1, SubSeqFull DEF UpTo, From
<1> QED
  BY <1>2, <1>3, <1>4

\* The least of three numbers.
LEMMA LeastOfThree ==
  ASSUME NEW a \in Int, NEW b \in Int, NEW c \in Int
  PROVE  /\ Min({a, b, c}) \in {a, b, c}
         /\ Min({a, b, c}) <= a /\ Min({a, b, c}) <= b /\ Min({a, b, c}) <= c
<1>1. \E x \in {a, b, c} : \A y \in {a, b, c} : x =< y
  <2>1. CASE a <= b /\ a <= c
    BY <2>1
  <2>2. CASE b <= a /\ b <= c
    BY <2>2
  <2>3. CASE c <= a /\ c <= b
    BY <2>3
  <2> QED
    BY <2>1, <2>2, <2>3
<1> QED
  BY <1>1 DEF Min

\* The least of two numbers.
LEMMA LeastOfTwo ==
  ASSUME NEW a \in Int, NEW b \in Int
  PROVE  Min({a, b}) \in {a, b} /\ Min({a, b}) <= a /\ Min({a, b}) <= b
<1>1. {a, b} = {a, b, b}
  OBVIOUS
<1> QED
  BY <1>1, LeastOfThree

\* A conversion to an int gives an int, the number itself when it is one.
LEMMA Ints ==
  ASSUME NEW n \in Nat
  PROVE  /\ ToInt(n) \in -(INT_MAX + 1)..INT_MAX
         /\ n <= INT_MAX => ToInt(n) = n
<1> DEFINE w == 2 * (INT_MAX + 1)
<1>1. INT_MAX \in Nat /\ w \in Nat \ {0} /\ n + INT_MAX + 1 \in Nat
  BY TransferAssume
<1>2. (n + INT_MAX + 1) % w \in 0..(w - 1)
  BY <1>1, SMT
<1>3. n <= INT_MAX => (n + INT_MAX + 1) % w = n + INT_MAX + 1
  BY <1>1, SMT
<1> QED
  BY <1>1, <1>2, <1>3, SMT DEF ToInt

-----------------------------------------------------------------------------
(* The inductive invariant *)

\* What is between the file and the local file.
InFlight == cbuf \o wire \o sbuf

\* Buffers are empty where the loops do not copy them, and everything is before
\* the size has been announced.
Idle ==
  /\ spc \in {"stat", "read", "done"} => sbuf = << >>
  /\ spc = "stat" => /\ at = 0 /\ wire = << >> /\ cbuf = << >> /\ local = << >>
                     /\ happened = {} /\ cpc \in {"answer", "failed"}
  /\ cpc = "answer" => cbuf = << >> /\ local = << >>
  /\ cpc \in Ended => cbuf = << >> /\ wire = << >>
  /\ spc = "killed" => cpc \in Ended

\* copy_n_bytes has counted what it took.
Counted ==
  /\ cpc = "copy" => Len(local) + Len(cbuf) + rest = nbbytes
  /\ cpc = "complete" => Len(local) = nbbytes

\* Every byte read from the file is stored or on its way.
Conserved ==
  cpc \notin Ended => Len(local) + Len(InFlight) = at

\* A file nothing was cut from, and nothing written over, holds what was read, as
\* it was read.
Intact == happened \cap {"cut", "written"} = {}

Copied ==
  Intact =>
    /\ at <= Len(data)
    /\ cpc \notin Ended => local \o InFlight = UpTo(data, at)
    /\ cpc \in Ended => Len(local) <= Len(data) /\ local = UpTo(data, Len(local))

\* A file that did not grow, of a size that is an int, has no more than was
\* announced, and a client that completed took the last of it.
Announced ==
  happened \cap {"big", "grew"} = {} /\ spc \notin {"stat", "exited"} =>
    /\ Len(data) <= nbbytes /\ at <= nbbytes
    /\ cpc = "complete" => sbuf = << >> /\ at = nbbytes /\ spc \notin {"write", "killed"}

IInv == TransferTypeOK /\ Idle /\ Counted /\ Conserved /\ Copied /\ Announced

-----------------------------------------------------------------------------
(* What is on its way *)

\* The bytes on their way form a sequence, as long as its parts together.
LEMMA Flying ==
  ASSUME TransferTypeOK
  PROVE  /\ cbuf \o wire \in Seq(Bytes) /\ InFlight \in Seq(Bytes)
         /\ Len(InFlight) = Len(cbuf) + Len(wire) + Len(sbuf)
         /\ local \o InFlight \in Seq(Bytes)
         /\ Len(local \o InFlight) = Len(local) + Len(InFlight)
         /\ Len(cbuf) \in Nat /\ Len(wire) \in Nat /\ Len(sbuf) \in Nat
         /\ Len(local) \in Nat /\ Len(data) \in Nat
<1>1. cbuf \in Seq(Bytes) /\ wire \in Seq(Bytes) /\ sbuf \in Seq(Bytes)
      /\ local \in Seq(Bytes) /\ data \in Seq(Bytes)
  BY DEF TransferTypeOK
<1>2. cbuf \o wire \in Seq(Bytes) /\ Len(cbuf \o wire) = Len(cbuf) + Len(wire)
  BY <1>1, ConcatProperties
<1>3. InFlight \in Seq(Bytes) /\ Len(InFlight) = Len(cbuf \o wire) + Len(sbuf)
  BY <1>1, <1>2, ConcatProperties DEF InFlight
<1> QED
  BY <1>1, <1>2, <1>3, ConcatProperties, LenProperties

\* The first part of what was read is what was read first.
LEMMA FirstPart ==
  ASSUME NEW S, NEW s \in Seq(S), NEW t \in Seq(S), NEW d \in Seq(S),
         NEW n \in 0..Len(d), s \o t = UpTo(d, n)
  PROVE  Len(s) <= n /\ s = UpTo(d, Len(s))
<1>1. /\ Len(s) \in Nat /\ Len(t) \in Nat /\ Len(s \o t) = Len(s) + Len(t)
      /\ Len(d) \in Nat
      /\ \A i \in 1..Len(s) : (s \o t)[i] = s[i]
  BY ConcatProperties, LenProperties
<1>2. Len(UpTo(d, n)) = n /\ \A i \in 1..n : UpTo(d, n)[i] = d[i]
  BY Cut
<1>3. Len(s) <= n
  BY <1>1, <1>2
<1>4. Len(s) \in 0..Len(d)
  BY <1>1, <1>3
<1>5. /\ UpTo(d, Len(s)) \in Seq(S) /\ Len(UpTo(d, Len(s))) = Len(s)
      /\ \A i \in 1..Len(s) : UpTo(d, Len(s))[i] = d[i]
  BY <1>4, Cut
<1>6. \A i \in 1..Len(s) : s[i] = UpTo(d, Len(s))[i]
  BY <1>1, <1>2, <1>3, <1>5
<1> QED
  BY <1>3, <1>5, <1>6, SeqEqual

\* A file that grows keeps what it begins with.
LEMMA GrownPart ==
  ASSUME NEW S, NEW d \in Seq(S), NEW b \in S, NEW n \in 0..Len(d)
  PROVE  UpTo(Append(d, b), n) = UpTo(d, n)
<1>1. /\ Append(d, b) \in Seq(S) /\ Len(Append(d, b)) = Len(d) + 1 /\ Len(d) \in Nat
      /\ \A i \in 1..Len(d) : Append(d, b)[i] = d[i]
  BY AppendProperties, LenProperties
<1>2. n \in 0..Len(Append(d, b))
  BY <1>1
<1>3. /\ UpTo(d, n) \in Seq(S) /\ Len(UpTo(d, n)) = n
      /\ \A i \in 1..n : UpTo(d, n)[i] = d[i]
  BY Cut
<1>4. /\ UpTo(Append(d, b), n) \in Seq(S) /\ Len(UpTo(Append(d, b), n)) = n
      /\ \A i \in 1..n : UpTo(Append(d, b), n)[i] = Append(d, b)[i]
  BY <1>1, <1>2, Cut
<1>5. \A i \in 1..n : UpTo(Append(d, b), n)[i] = UpTo(d, n)[i]
  BY <1>1, <1>3, <1>4
<1> QED
  BY <1>3, <1>4, <1>5, SeqEqual

\* Concatenation may be regrouped.
LEMMA Assoc == \A a, b, c \in Seq(Bytes) : (a \o b) \o c = a \o (b \o c)
  BY ConcatAssociative

\* Bytes put together are bytes.
LEMMA Concats == \A a, b \in Seq(Bytes) : a \o b \in Seq(Bytes)
  BY ConcatProperties

-----------------------------------------------------------------------------
(* Each step: what it does to the bytes on their way *)

\* The file, what is on its way and the local file after a step.
SameBytes == InFlight' = InFlight /\ UNCHANGED <<local, data, at>>

\* read() of the file: what is on its way grows by the next bytes of the file.
LEMMA ReadGrowsFlight ==
  ASSUME IInv, ServerRead
  PROVE  /\ sbuf' \in Seq(Bytes) /\ sbuf' # << >> /\ Len(sbuf') <= MSGSIZE
         /\ InFlight' = InFlight \o sbuf' /\ InFlight \in Seq(Bytes)
         /\ at' = at + Len(sbuf') /\ at' <= Len(data)
         /\ UpTo(data, at') = UpTo(data, at) \o sbuf'
<1> DEFINE n == Min({MSGSIZE, Len(data) - at})
<1>1. /\ data \in Seq(Bytes) /\ Len(data) \in Nat /\ at \in Nat /\ at < Len(data)
      /\ sbuf = << >> /\ UNCHANGED <<data, cbuf, wire>>
      /\ sbuf' = SubSeq(data, at + 1, at + n) /\ at' = at + n
  BY Flying DEF IInv, TransferTypeOK, Idle, ServerRead, fileVars, clientVars
<1>2. n \in 1..MSGSIZE /\ n <= Len(data) - at /\ MSGSIZE \in Nat
  <2>1. MSGSIZE \in Int /\ Len(data) - at \in Int /\ MSGSIZE \in Nat \ {0}
    BY <1>1, TransferAssume
  <2>2. n \in {MSGSIZE, Len(data) - at} /\ n <= MSGSIZE /\ n <= Len(data) - at
    BY <2>1, LeastOfTwo
  <2> HIDE DEF n
  <2> QED
    BY <1>1, <2>1, <2>2
<1> HIDE DEF n
<1>3. \A i \in (at + 1)..(at + n) : data[i] \in Bytes
  BY <1>1, <1>2, ElementOfSeq
<1>4. sbuf' \in Seq(Bytes) /\ Len(sbuf') = n
  <2>1. at + 1 \in Int /\ at + n \in Int /\ at + 1 <= at + n /\ (at + n) - (at + 1) + 1 = n
    BY <1>1, <1>2
  <2> QED
    BY <1>1, <1>3, <2>1, SubSeqProperties
<1>5. InFlight' = InFlight \o sbuf' /\ InFlight \in Seq(Bytes)
  <2>1. cbuf \o wire \in Seq(Bytes) /\ InFlight = (cbuf \o wire) \o << >>
    BY <1>1, Flying DEF InFlight, IInv
  <2>2. InFlight = cbuf \o wire
    BY <2>1, ConcatEmptySeq
  <2>3. InFlight' = (cbuf \o wire) \o sbuf'
    BY <1>1 DEF InFlight
  <2> QED
    BY <2>1, <2>2, <2>3
<1>6. UpTo(data, at') = UpTo(data, at) \o sbuf'
  <2>1. 1 \in 1..(Len(data) + 1) /\ at \in (1 - 1)..Len(data) /\ at + n \in at..Len(data)
    BY <1>1, <1>2
  <2>2. SubSeq(data, 1, at) \o SubSeq(data, at + 1, at + n) = SubSeq(data, 1, at + n)
    BY <1>1, <2>1, ConcatAdjacentSubSeq
  <2> QED
    BY <1>1, <2>2 DEF UpTo
<1>7. sbuf' # << >> /\ Len(sbuf') <= MSGSIZE
  BY <1>2, <1>4
<1>8. at' = at + Len(sbuf') /\ at' <= Len(data)
  BY <1>1, <1>2, <1>4
<1> QED
  BY <1>4, <1>5, <1>6, <1>7, <1>8, Zenon

\* write() to the socket moves bytes from a buffer to the next, and loses none.
LEMMA WriteKeepsFlight ==
  ASSUME IInv, ServerWrite
  PROVE  /\ SameBytes
         /\ wire' \in Seq(Bytes) /\ Len(wire') <= SockBuf
         /\ sbuf' \in Seq(Bytes) /\ Len(sbuf') <= MSGSIZE
         /\ spc' = IF sbuf' = << >> THEN "read" ELSE "write"
<1>1. /\ cbuf \in Seq(Bytes) /\ wire \in Seq(Bytes) /\ sbuf \in Seq(Bytes)
      /\ Len(wire) \in Nat /\ Len(sbuf) \in Nat /\ Len(wire) <= SockBuf
      /\ Len(sbuf) <= MSGSIZE /\ MSGSIZE \in Nat /\ SockBuf \in Nat
  BY Flying, TransferAssume DEF IInv, TransferTypeOK
<1>2. PICK n \in 1..Min({Len(sbuf), SockBuf - Len(wire)}) :
        wire' = wire \o UpTo(sbuf, n) /\ Written(n)
  BY DEF ServerWrite
<1>3. n \in 0..Len(sbuf) /\ n >= 1 /\ Len(wire) + n <= SockBuf
  <2>1. Len(sbuf) \in Int /\ SockBuf - Len(wire) \in Int
    BY <1>1
  <2>2. Min({Len(sbuf), SockBuf - Len(wire)}) \in {Len(sbuf), SockBuf - Len(wire)}
        /\ Min({Len(sbuf), SockBuf - Len(wire)}) <= Len(sbuf)
        /\ Min({Len(sbuf), SockBuf - Len(wire)}) <= SockBuf - Len(wire)
    BY <2>1, LeastOfTwo
  <2> QED
    BY <1>1, <1>2, <2>2
<1>4. /\ UpTo(sbuf, n) \in Seq(Bytes) /\ Len(UpTo(sbuf, n)) = n
      /\ From(sbuf, n) \in Seq(Bytes) /\ Len(From(sbuf, n)) = Len(sbuf) - n
      /\ UpTo(sbuf, n) \o From(sbuf, n) = sbuf
  BY <1>1, <1>3, Cut
<1>5. /\ sbuf' = From(sbuf, n) /\ spc' = (IF n = Len(sbuf) THEN "read" ELSE "write")
      /\ UNCHANGED <<data, at, cbuf, local>>
  BY <1>2 DEF Written, fileVars, clientVars
<1>6. wire' \in Seq(Bytes) /\ Len(wire') = Len(wire) + n
  BY <1>1, <1>2, <1>4, ConcatProperties
<1>7. InFlight' = InFlight
  <2> DEFINE part == UpTo(sbuf, n)
             tail == From(sbuf, n)
  <2>1. part \o tail = sbuf
    BY <1>4
  <2>2. /\ cbuf \in Seq(Bytes) /\ wire \in Seq(Bytes)
        /\ part \in Seq(Bytes) /\ tail \in Seq(Bytes)
    BY <1>1, <1>4
  <2>3. InFlight' = cbuf \o (wire \o part) \o tail
    BY <1>2, <1>5 DEF InFlight
  <2> HIDE DEF part, tail
  <2>4. cbuf \o (wire \o part) \o tail = cbuf \o wire \o (part \o tail)
    <3> DEFINE front == cbuf \o wire
    <3>1. (cbuf \o wire) \o part = cbuf \o (wire \o part)
      BY <2>2, Assoc
    <3>2. front \in Seq(Bytes) /\ part \in Seq(Bytes) /\ tail \in Seq(Bytes)
      BY <2>2, Concats
    <3> HIDE DEF front
    <3>3. (front \o part) \o tail = front \o (part \o tail)
      BY <3>2, Assoc
    <3> QED
      BY <3>1, <3>3 DEF front
  <2> QED
    BY <2>1, <2>3, <2>4 DEF InFlight
<1>8. sbuf' = << >> <=> n = Len(sbuf)
  BY <1>1, <1>3, <1>4, <1>5, EmptySeq
<1> QED
  BY <1>1, <1>3, <1>4, <1>5, <1>6, <1>7, <1>8 DEF SameBytes

\* read() of the socket moves bytes to the buffer of the client, as many as were
\* asked for at most.
LEMMA TakeKeepsFlight ==
  ASSUME IInv, ClientRead
  PROVE  /\ SameBytes
         /\ wire' \in Seq(Bytes) /\ Len(wire') <= SockBuf
         /\ cbuf' \in Seq(Bytes) /\ Len(cbuf') <= MSGSIZE
         /\ rest' = rest - Len(cbuf') /\ rest' >= 0 /\ rest' <= rest
<1>1. /\ cbuf = << >> /\ wire \in Seq(Bytes) /\ sbuf \in Seq(Bytes)
      /\ Len(wire) \in Nat /\ Len(wire) <= SockBuf /\ rest \in Int
      /\ MSGSIZE \in Nat /\ SockBuf \in Nat
  BY Flying, TransferAssume DEF IInv, TransferTypeOK, ClientRead
<1>2. PICK n \in 1..Min({MSGSIZE, rest, Len(wire)}) :
        cbuf' = UpTo(wire, n) /\ wire' = From(wire, n) /\ rest' = rest - n
  BY DEF ClientRead
<1>3. n \in 0..Len(wire) /\ n >= 1 /\ n <= MSGSIZE /\ n <= rest
  <2>1. MSGSIZE \in Int /\ rest \in Int /\ Len(wire) \in Int
    BY <1>1
  <2>2. /\ Min({MSGSIZE, rest, Len(wire)}) \in {MSGSIZE, rest, Len(wire)}
        /\ Min({MSGSIZE, rest, Len(wire)}) <= MSGSIZE
        /\ Min({MSGSIZE, rest, Len(wire)}) <= rest
        /\ Min({MSGSIZE, rest, Len(wire)}) <= Len(wire)
    BY <2>1, LeastOfThree
  <2> QED
    BY <1>1, <1>2, <2>2
<1>4. /\ cbuf' \in Seq(Bytes) /\ Len(cbuf') = n
      /\ wire' \in Seq(Bytes) /\ Len(wire') = Len(wire) - n
      /\ cbuf' \o wire' = wire
  BY <1>1, <1>2, <1>3, Cut
<1>5. UNCHANGED <<data, at, sbuf, local>>
  BY DEF ClientRead, fileVars, serverVars
<1>6. InFlight' = InFlight
  BY <1>1, <1>4, <1>5, ConcatEmptySeq DEF InFlight
<1> QED
  BY <1>1, <1>2, <1>3, <1>4, <1>5, <1>6 DEF SameBytes

\* write() to the local file takes the first bytes on their way.
LEMMA StoreMovesFlight ==
  ASSUME IInv, ClientWrite
  PROVE  /\ \E part \in Seq(Bytes) : local' = local \o part /\ InFlight = part \o InFlight'
         /\ local' \o InFlight' = local \o InFlight
         /\ Len(local') + Len(cbuf') = Len(local) + Len(cbuf)
         /\ Len(local') + Len(InFlight') = Len(local) + Len(InFlight)
         /\ local' \in Seq(Bytes) /\ cbuf' \in Seq(Bytes) /\ Len(cbuf') <= MSGSIZE
<1>1. /\ cbuf \in Seq(Bytes) /\ wire \in Seq(Bytes) /\ sbuf \in Seq(Bytes)
      /\ local \in Seq(Bytes) /\ Len(cbuf) \in Nat /\ Len(local) \in Nat
      /\ Len(cbuf) <= MSGSIZE /\ MSGSIZE \in Nat
  BY Flying, TransferAssume DEF IInv, TransferTypeOK
<1>2. PICK n \in 1..Len(cbuf) : local' = local \o UpTo(cbuf, n) /\ cbuf' = From(cbuf, n)
  BY DEF ClientWrite
<1> DEFINE part == UpTo(cbuf, n)
<1>3. n \in 0..Len(cbuf)
  BY <1>1, <1>2
<1>4. /\ part \in Seq(Bytes) /\ Len(part) = n
      /\ cbuf' \in Seq(Bytes) /\ Len(cbuf') = Len(cbuf) - n
      /\ part \o cbuf' = cbuf
  BY <1>1, <1>2, <1>3, Cut
<1>5. UNCHANGED <<wire, sbuf>>
  BY DEF ClientWrite, serverVars
<1>6. local' \in Seq(Bytes) /\ Len(local') = Len(local) + n
  BY <1>1, <1>2, <1>4, ConcatProperties
<1> HIDE DEF part
<1>7. /\ part \in Seq(Bytes) /\ cbuf' \in Seq(Bytes) /\ wire \in Seq(Bytes)
      /\ sbuf \in Seq(Bytes) /\ local \in Seq(Bytes)
  BY <1>1, <1>4
<1>8. local' = local \o part
  BY <1>2 DEF part
<1>9. InFlight = part \o InFlight' /\ InFlight' \in Seq(Bytes)
  <2>1. cbuf' \o wire \in Seq(Bytes)
    BY <1>7, Concats
  <2>2. (part \o cbuf') \o wire = part \o (cbuf' \o wire)
    <3> DEFINE held == cbuf'
    <3>1. part \in Seq(Bytes) /\ held \in Seq(Bytes) /\ wire \in Seq(Bytes)
      BY <1>7
    <3> HIDE DEF held
    <3>2. (part \o held) \o wire = part \o (held \o wire)
      BY <3>1, Assoc
    <3> QED
      BY <3>2 DEF held
  <2>3. (part \o (cbuf' \o wire)) \o sbuf = part \o ((cbuf' \o wire) \o sbuf)
    <3> DEFINE middle == cbuf' \o wire
    <3>1. part \in Seq(Bytes) /\ middle \in Seq(Bytes) /\ sbuf \in Seq(Bytes)
      BY <1>7, <2>1
    <3> HIDE DEF middle
    <3>2. (part \o middle) \o sbuf = part \o (middle \o sbuf)
      BY <3>1, Assoc
    <3> QED
      BY <3>2 DEF middle
  <2>4. (cbuf' \o wire) \o sbuf \in Seq(Bytes)
    BY <1>7, <2>1, Concats
  <2>5. InFlight' = (cbuf' \o wire) \o sbuf
    BY <1>5 DEF InFlight
  <2>6. InFlight = (part \o cbuf') \o wire \o sbuf
    BY <1>4 DEF InFlight
  <2> QED
    BY <2>2, <2>3, <2>4, <2>5, <2>6
<1>10. local' \o InFlight' = local \o InFlight
  <2>1. (local \o part) \o InFlight' = local \o (part \o InFlight')
    <3> DEFINE rem == InFlight'
    <3>1. local \in Seq(Bytes) /\ part \in Seq(Bytes) /\ rem \in Seq(Bytes)
      BY <1>7, <1>9
    <3> HIDE DEF rem
    <3>2. (local \o part) \o rem = local \o (part \o rem)
      BY <3>1, Assoc
    <3> QED
      BY <3>2 DEF rem
  <2> QED
    BY <1>8, <1>9, <2>1
<1>13. \E x \in Seq(Bytes) : local' = local \o x /\ InFlight = x \o InFlight'
  BY <1>7, <1>8, <1>9, Zenon
<1>14. Len(local') + Len(cbuf') = Len(local) + Len(cbuf) /\ Len(cbuf') <= MSGSIZE
  BY <1>1, <1>3, <1>4, <1>6
<1>15. Len(local') + Len(InFlight') = Len(local) + Len(InFlight)
  <2>1. InFlight \in Seq(Bytes)
    BY Flying DEF IInv
  <2>2. Len(local' \o InFlight') = Len(local') + Len(InFlight')
    BY <1>6, <1>9, ConcatProperties
  <2>3. Len(local \o InFlight) = Len(local) + Len(InFlight)
    BY <1>1, <2>1, ConcatProperties
  <2> QED
    BY <1>10, <2>2, <2>3
<1> QED
  BY <1>4, <1>6, <1>10, <1>13, <1>14, <1>15, Zenon
-----------------------------------------------------------------------------
(* Each step keeps the invariant *)

\* The size announced is what stat found, when an int holds it.
LEMMA AnnounceKeeps ==
  ASSUME IInv, Announce
  PROVE  IInv'
<1>1. /\ spc = "stat" /\ spc' = "read" /\ at = 0
      /\ nbbytes' = ToInt(Len(data)) /\ Len(data) \in Nat
      /\ happened' = (IF Len(data) > INT_MAX THEN {"big"} ELSE {}) /\ happened = {}
      /\ sbuf = << >> /\ wire = << >> /\ cbuf = << >> /\ local = << >>
      /\ cpc \in {"answer", "failed"}
      /\ UNCHANGED <<data, at, sbuf, wire, cpc, rest, cbuf, local>>
  BY Flying DEF IInv, Idle, Announce, clientVars
<1>2. TransferTypeOK'
  <2>1. nbbytes' \in -(INT_MAX + 1)..INT_MAX
    BY <1>1, Ints
  <2> QED
    BY <1>1, <2>1 DEF IInv, TransferTypeOK
<1>3. Idle'
  BY <1>1 DEF IInv, Idle, Ended
<1>4. Counted'
  BY <1>1 DEF Counted
<1>5. InFlight' = InFlight
  BY <1>1 DEF InFlight
<1>6. Conserved'
  BY <1>1, <1>5 DEF IInv, Conserved
<1>7. Copied'
  BY <1>1, <1>5 DEF IInv, Copied, Intact
<1>8. Announced'
  <2>1. happened' \cap {"big", "grew"} = {} => nbbytes' = Len(data)
    BY <1>1, Ints, TransferAssume
  <2> QED
    BY <1>1, <2>1 DEF Announced
<1> QED
  BY <1>2, <1>3, <1>4, <1>6, <1>7, <1>8 DEF IInv

\* A read of the file keeps the invariant.
LEMMA ServerReadKeeps ==
  ASSUME IInv, ServerRead
  PROVE  IInv'
<1>1. /\ spc = "read" /\ spc' = "write" /\ at < Len(data) /\ at \in Nat
      /\ Len(data) \in Nat /\ Len(data) <= MaxSize /\ MaxSize \in Nat
      /\ nbbytes \in Int
      /\ UNCHANGED <<data, happened, nbbytes, wire, cpc, rest, cbuf, local>>
  BY Flying, TransferAssume
  DEF IInv, TransferTypeOK, ServerRead, fileVars, clientVars
<1>2. /\ sbuf' \in Seq(Bytes) /\ sbuf' # << >> /\ Len(sbuf') <= MSGSIZE
      /\ InFlight' = InFlight \o sbuf' /\ InFlight \in Seq(Bytes)
      /\ at' = at + Len(sbuf') /\ at' <= Len(data)
      /\ UpTo(data, at') = UpTo(data, at) \o sbuf'
  BY ReadGrowsFlight
<1>3. Len(sbuf') \in Nat /\ Len(InFlight) \in Nat /\ local \in Seq(Bytes)
      /\ Len(local) \in Nat
  BY <1>2, LenProperties DEF IInv, TransferTypeOK
<1>4. TransferTypeOK'
  <2>1. at' \in 0..MaxSize
    BY <1>1, <1>2, <1>3
  <2> QED
    BY <1>1, <1>2, <2>1 DEF IInv, TransferTypeOK
<1>5. Idle'
  BY <1>1 DEF IInv, Idle
<1>6. Counted'
  BY <1>1 DEF IInv, Counted
<1>7. Conserved'
  <2>1. Len(InFlight') = Len(InFlight) + Len(sbuf')
    BY <1>2, ConcatProperties
  <2>2. cpc \notin Ended => Len(local) + Len(InFlight) = at
    BY DEF IInv, Conserved
  <2>3. cpc' = cpc /\ local' = local /\ at' = at + Len(sbuf')
    BY <1>1, <1>2
  <2> QED
    BY <1>3, <2>1, <2>2, <2>3 DEF Conserved
<1>8. Copied'
  <2>1. (local \o InFlight) \o sbuf' = local \o (InFlight \o sbuf')
    <3>1. local \in Seq(Bytes) /\ InFlight \in Seq(Bytes) /\ sbuf' \in Seq(Bytes)
      BY <1>2, <1>3
    <3> HIDE DEF InFlight
    <3> QED
      BY <3>1, Assoc
  <2>2. local' \o InFlight' = (local \o InFlight) \o sbuf'
    BY <1>1, <1>2, <2>1
  <2> QED
    BY <1>1, <1>2, <2>2 DEF IInv, Copied, Intact
<1>9. Announced'
  BY <1>1, <1>2 DEF IInv, Announced
<1> QED
  BY <1>4, <1>5, <1>6, <1>7, <1>8, <1>9 DEF IInv

\* The end of the file keeps the invariant.
LEMMA ServerEofKeeps ==
  ASSUME IInv, ServerEof
  PROVE  IInv'
<1>1. /\ spc = "read" /\ spc' = "done" /\ sbuf = << >>
      /\ UNCHANGED <<data, happened, nbbytes, at, sbuf, wire, cpc, rest, cbuf, local>>
  BY DEF IInv, Idle, ServerEof, fileVars, clientVars
<1>2. TransferTypeOK'
  BY <1>1 DEF IInv, TransferTypeOK
<1>3. Idle'
  BY <1>1 DEF IInv, Idle
<1>4. Counted' /\ Conserved' /\ Copied' /\ Announced'
  BY <1>1 DEF IInv, Counted, Conserved, Copied, Intact, Announced, InFlight
<1> QED
  BY <1>2, <1>3, <1>4 DEF IInv

\* A write to the socket keeps the invariant.
LEMMA ServerWriteKeeps ==
  ASSUME IInv, ServerWrite
  PROVE  IInv'
<1>1. /\ spc = "write" /\ cpc \notin Ended
      /\ UNCHANGED <<data, happened, nbbytes, at, cpc, rest, cbuf, local>>
  BY DEF ServerWrite, Written, fileVars, clientVars
<1>2. /\ InFlight' = InFlight
      /\ wire' \in Seq(Bytes) /\ Len(wire') <= SockBuf
      /\ sbuf' \in Seq(Bytes) /\ Len(sbuf') <= MSGSIZE
      /\ spc' = IF sbuf' = << >> THEN "read" ELSE "write"
  BY WriteKeepsFlight DEF SameBytes
<1>3. TransferTypeOK'
  BY <1>1, <1>2 DEF IInv, TransferTypeOK
<1>4. Idle'
  BY <1>1, <1>2 DEF IInv, Idle
<1>5. Counted' /\ Conserved' /\ Copied'
  BY <1>1, <1>2 DEF IInv, Counted, Conserved, Copied, Intact
<1>6. Announced'
  BY <1>1, <1>2 DEF IInv, Announced, Ended
<1> QED
  BY <1>3, <1>4, <1>5, <1>6 DEF IInv

\* A write to a client that ended keeps the invariant.
LEMMA ServerWritesToNobodyKeeps ==
  ASSUME IInv, ServerWritesToNobody
  PROVE  IInv'
<1>1. /\ spc = "write" /\ cpc \in Ended
      /\ UNCHANGED <<data, happened, nbbytes, at, wire, cpc, rest, cbuf, local>>
  BY DEF ServerWritesToNobody, Written, fileVars, clientVars
<1>2. \/ sbuf' = << >> /\ spc' = "read"
      \/ sbuf' = sbuf /\ spc' = "killed"
  <2>1. CASE Written(Len(sbuf))
    <3>1. sbuf \in Seq(Bytes) /\ Len(sbuf) \in 0..Len(sbuf)
      BY Flying DEF IInv, TransferTypeOK
    <3>2. From(sbuf, Len(sbuf)) \in Seq(Bytes)
          /\ Len(From(sbuf, Len(sbuf))) = Len(sbuf) - Len(sbuf)
      BY <3>1, Cut
    <3>3. From(sbuf, Len(sbuf)) = << >>
      BY <3>1, <3>2, EmptySeq
    <3> QED
      BY <2>1, <3>3 DEF Written
  <2> QED
    BY <2>1 DEF ServerWritesToNobody
<1>3. << >> \in Seq(Bytes) /\ Len(<< >>) = 0 /\ MSGSIZE \in Nat
  BY EmptySeq, TransferAssume
<1>4. TransferTypeOK'
  <2>1. /\ sbuf' \in Seq(Bytes) /\ Len(sbuf') <= MSGSIZE
        /\ spc' \in {"read", "killed"}
    <3>1. sbuf \in Seq(Bytes) /\ Len(sbuf) <= MSGSIZE /\ 0 <= MSGSIZE
      BY <1>3 DEF IInv, TransferTypeOK
    <3>2. CASE sbuf' = << >> /\ spc' = "read"
      BY <1>3, <3>1, <3>2
    <3>3. CASE sbuf' = sbuf /\ spc' = "killed"
      BY <3>1, <3>3
    <3> QED
      BY <1>2, <3>2, <3>3
  <2> QED
    BY <1>1, <2>1 DEF IInv, TransferTypeOK, Stopped
<1>5. Idle'
  BY <1>1, <1>2 DEF IInv, Idle
<1>6. Counted' /\ Conserved' /\ Copied'
  BY <1>1 DEF IInv, Counted, Conserved, Copied, Intact
<1>7. Announced'
  BY <1>1, <1>2 DEF IInv, Announced
<1> QED
  BY <1>4, <1>5, <1>6, <1>7 DEF IInv

\* The end of the server process keeps the invariant.
LEMMA ServerExitsKeeps ==
  ASSUME IInv, ServerExits
  PROVE  IInv'
<1>1. /\ spc' = "exited"
      /\ UNCHANGED <<data, happened, nbbytes, at, sbuf, wire, cpc, rest, cbuf, local>>
  BY DEF ServerExits, fileVars, clientVars
<1>2. TransferTypeOK'
  BY <1>1 DEF IInv, TransferTypeOK, Stopped
<1>3. Idle'
  BY <1>1 DEF IInv, Idle
<1>4. Counted' /\ Conserved' /\ Copied' /\ Announced'
  BY <1>1 DEF IInv, Counted, Conserved, Copied, Intact, Announced, InFlight
<1> QED
  BY <1>2, <1>3, <1>4 DEF IInv

\* The answer, which sets what is to be received, keeps the invariant.
LEMMA ReadAnswerKeeps ==
  ASSUME IInv, ReadAnswer
  PROVE  IInv'
<1>1. /\ cpc = "answer" /\ cpc' = "copy" /\ spc \notin {"stat", "killed"}
      /\ rest' = nbbytes /\ cbuf = << >> /\ local = << >>
      /\ UNCHANGED <<data, happened, spc, nbbytes, at, sbuf, wire, cbuf, local>>
  BY DEF IInv, Idle, ReadAnswer, Stopped, fileVars, serverVars
<1>2. TransferTypeOK' /\ nbbytes \in Int /\ Len(<< >>) = 0
  BY <1>1, TransferAssume DEF IInv, TransferTypeOK
<1>3. Idle'
  BY <1>1 DEF IInv, Idle, Ended
<1>4. Counted'
  BY <1>1, <1>2 DEF Counted
<1>5. InFlight' = InFlight
  BY <1>1 DEF InFlight
<1>6. Conserved' /\ Copied'
  BY <1>1, <1>5 DEF IInv, Conserved, Copied, Intact, Ended
<1>7. Announced'
  BY <1>1 DEF IInv, Announced
<1> QED
  BY <1>2, <1>3, <1>4, <1>6, <1>7 DEF IInv

\* A read of the socket keeps the invariant.
LEMMA ClientReadKeeps ==
  ASSUME IInv, ClientRead
  PROVE  IInv'
<1>1. /\ cpc = "copy" /\ cbuf = << >>
      /\ UNCHANGED <<data, happened, spc, nbbytes, at, sbuf, cpc, local>>
  BY DEF ClientRead, fileVars, serverVars
<1>2. /\ InFlight' = InFlight
      /\ wire' \in Seq(Bytes) /\ Len(wire') <= SockBuf
      /\ cbuf' \in Seq(Bytes) /\ Len(cbuf') <= MSGSIZE
      /\ rest' = rest - Len(cbuf') /\ rest' >= 0 /\ rest' <= rest
  BY TakeKeepsFlight DEF SameBytes
<1>3. rest \in -(INT_MAX + 1)..INT_MAX /\ INT_MAX \in Nat /\ Len(cbuf') \in Nat
      /\ Len(local) \in Nat /\ nbbytes \in Int /\ Len(<< >>) = 0
  BY <1>2, Flying, LenProperties, TransferAssume DEF IInv, TransferTypeOK
<1>4. TransferTypeOK'
  <2>1. rest' \in -(INT_MAX + 1)..INT_MAX
    BY <1>2, <1>3
  <2> QED
    BY <1>1, <1>2, <2>1 DEF IInv, TransferTypeOK
<1>5. Idle'
  BY <1>1 DEF IInv, Idle, Ended
<1>6. Counted'
  <2>1. Len(local) + Len(cbuf) + rest = nbbytes
    BY <1>1 DEF IInv, Counted
  <2> QED
    BY <1>1, <1>2, <1>3, <2>1 DEF Counted
<1>7. Conserved' /\ Copied'
  BY <1>1, <1>2 DEF IInv, Conserved, Copied, Intact
<1>8. Announced'
  BY <1>1 DEF IInv, Announced
<1> QED
  BY <1>4, <1>5, <1>6, <1>7, <1>8 DEF IInv

\* A write to the local file keeps the invariant.
LEMMA ClientWriteKeeps ==
  ASSUME IInv, ClientWrite
  PROVE  IInv'
<1>1. /\ cpc = "copy"
      /\ UNCHANGED <<data, happened, spc, nbbytes, at, sbuf, wire, cpc, rest>>
  BY DEF ClientWrite, fileVars, serverVars
<1>2. /\ local' \o InFlight' = local \o InFlight
      /\ Len(local') + Len(cbuf') = Len(local) + Len(cbuf)
      /\ Len(local') + Len(InFlight') = Len(local) + Len(InFlight)
      /\ local' \in Seq(Bytes) /\ cbuf' \in Seq(Bytes) /\ Len(cbuf') <= MSGSIZE
  BY StoreMovesFlight
<1>3. TransferTypeOK'
  BY <1>1, <1>2 DEF IInv, TransferTypeOK
<1>4. Idle'
  BY <1>1 DEF IInv, Idle, Ended
<1>5. Counted' /\ Conserved'
  BY <1>1, <1>2 DEF IInv, Counted, Conserved
<1>6. Copied'
  BY <1>1, <1>2 DEF IInv, Copied, Intact, Ended
<1>7. Announced'
  BY <1>1 DEF IInv, Announced
<1> QED
  BY <1>3, <1>4, <1>5, <1>6, <1>7 DEF IInv

\* The client ends, having all it was told of if it says so.
LEMMA EndClientKeeps ==
  ASSUME IInv, NEW how \in Ended, cpc \notin Ended, EndClient(how),
         how # "failed" => cpc = "copy" /\ cbuf = << >>,
         how = "complete" => rest = 0
  PROVE  IInv'
<1>1. /\ cpc' = how /\ wire' = << >> /\ cbuf' = << >>
      /\ UNCHANGED <<data, happened, spc, nbbytes, at, sbuf, rest, local>>
  BY DEF EndClient, fileVars, serverVars
<1>2. << >> \in Seq(Bytes) /\ Len(<< >>) = 0 /\ MSGSIZE \in Nat /\ SockBuf \in Nat
  BY EmptySeq, TransferAssume
<1>3. /\ local \in Seq(Bytes) /\ InFlight \in Seq(Bytes) /\ data \in Seq(Bytes)
      /\ Len(local) \in Nat /\ Len(InFlight) = Len(cbuf) + Len(wire) + Len(sbuf)
      /\ Len(cbuf) \in Nat /\ Len(wire) \in Nat /\ Len(sbuf) \in Nat
      /\ sbuf \in Seq(Bytes) /\ at \in Nat /\ nbbytes \in Int /\ Len(data) \in Nat
  BY Flying, TransferAssume DEF IInv, TransferTypeOK
<1>4. TransferTypeOK'
  BY <1>1, <1>2 DEF IInv, TransferTypeOK
<1>5. Idle'
  BY <1>1 DEF IInv, Idle, Ended
<1>6. how = "complete" => Len(local) = nbbytes
  BY <1>2, <1>3 DEF IInv, Counted
<1>7. Counted'
  BY <1>1, <1>6 DEF Counted, Ended
<1>8. Conserved'
  BY <1>1 DEF Conserved
<1>9. Copied'
  <2>1. CASE ~Intact
    BY <1>1, <2>1 DEF Copied, Intact
  <2>2. CASE Intact
    <3>1. at \in 0..Len(data) /\ local \o InFlight = UpTo(data, at)
      BY <1>3, <2>2 DEF IInv, Copied, Intact
    <3>2. Len(local) <= at /\ local = UpTo(data, Len(local))
      BY <1>3, <3>1, FirstPart
    <3> QED
      BY <1>1, <1>3, <3>1, <3>2 DEF Copied, Intact
  <2> QED
    BY <2>1, <2>2
<1>10. Announced'
  <2> SUFFICES ASSUME happened \cap {"big", "grew"} = {}, spc \notin {"stat", "exited"}
               PROVE  /\ Len(data) <= nbbytes /\ at <= nbbytes
                      /\ how = "complete" =>
                           sbuf = << >> /\ at = nbbytes /\ spc \notin {"write", "killed"}
    BY <1>1 DEF Announced
  <2>1. Len(data) <= nbbytes /\ at <= nbbytes
    BY DEF IInv, Announced
  <2>2. ASSUME how = "complete"
        PROVE  sbuf = << >> /\ at = nbbytes /\ spc \notin {"write", "killed"}
    <3>1. Len(local) = nbbytes /\ Len(local) + Len(InFlight) = at
      BY <1>6, <2>2 DEF IInv, Conserved
    <3>2. Len(sbuf) = 0 /\ at = nbbytes
      BY <1>3, <2>1, <3>1
    <3>3. sbuf = << >>
      BY <1>3, <3>2, EmptySeq
    <3> QED
      BY <3>2, <3>3 DEF IInv, TransferTypeOK, Idle
  <2> QED
    BY <2>1, <2>2
<1> QED
  BY <1>4, <1>5, <1>7, <1>8, <1>9, <1>10 DEF IInv

\* A file that grows has the bytes it had, and more than was announced.
LEMMA GrowKeeps ==
  ASSUME IInv, Grow
  PROVE  IInv'
<1>1. /\ Len(data) < MaxSize /\ data' = Append(data, 0)
      /\ happened' = (IF spc = "stat" THEN happened ELSE happened \cup {"grew"})
      /\ UNCHANGED <<spc, nbbytes, at, sbuf, wire, cpc, rest, cbuf, local>>
  BY DEF Grow, Mark, serverVars, clientVars
<1>2. /\ data \in Seq(Bytes) /\ Len(data) \in Nat /\ 0 \in Bytes /\ MaxSize \in Nat
      /\ at \in Nat /\ Len(local) \in Nat
  BY Flying, TransferAssume DEF IInv, TransferTypeOK, Bytes
<1>3. data' \in Seq(Bytes) /\ Len(data') = Len(data) + 1
  BY <1>1, <1>2, AppendProperties
<1>4. TransferTypeOK'
  <2>1. Len(data') <= MaxSize /\ happened' \subseteq {"big", "grew", "cut", "written"}
    BY <1>1, <1>2, <1>3 DEF IInv, TransferTypeOK
  <2> QED
    BY <1>1, <1>3, <2>1 DEF IInv, TransferTypeOK
<1>5. Idle'
  BY <1>1 DEF IInv, Idle
<1>6. InFlight' = InFlight
  BY <1>1 DEF InFlight
<1>7. Counted' /\ Conserved'
  BY <1>1, <1>6 DEF IInv, Counted, Conserved
<1>8. Copied'
  <2>1. CASE ~Intact
    BY <1>1, <2>1 DEF Copied, Intact
  <2>2. CASE Intact
    <3>1. /\ at <= Len(data)
          /\ cpc \notin Ended => local \o InFlight = UpTo(data, at)
          /\ cpc \in Ended => Len(local) <= Len(data) /\ local = UpTo(data, Len(local))
      BY <2>2 DEF IInv, Copied, Intact
    <3>2. UpTo(data', at) = UpTo(data, at)
      BY <1>1, <1>2, <3>1, GrownPart
    <3>3. Len(local) <= Len(data) => UpTo(data', Len(local)) = UpTo(data, Len(local))
      BY <1>1, <1>2, GrownPart
    <3>4. at <= Len(data') /\ (Len(local) <= Len(data) => Len(local) <= Len(data'))
      BY <1>2, <1>3, <3>1
    <3> QED
      BY <1>1, <1>6, <3>1, <3>2, <3>3, <3>4 DEF Copied, Intact
  <2> QED
    BY <2>1, <2>2
<1>9. Announced'
  BY <1>1 DEF Announced
<1> QED
  BY <1>4, <1>5, <1>7, <1>8, <1>9 DEF IInv

\* A file that is cut is no longer what was announced, and may not be what was
\* read.
LEMMA ShrinkKeeps ==
  ASSUME IInv, Shrink
  PROVE  IInv'
<1>1. PICK n \in 0..(Len(data) - 1) : data' = UpTo(data, n)
  BY DEF Shrink
<1>2. /\ happened' = (IF spc = "stat" THEN happened ELSE happened \cup {"cut"})
      /\ UNCHANGED <<spc, nbbytes, at, sbuf, wire, cpc, rest, cbuf, local>>
  BY DEF Shrink, Mark, serverVars, clientVars
<1>3. /\ data \in Seq(Bytes) /\ Len(data) \in Nat /\ MaxSize \in Nat
      /\ n \in 0..Len(data) /\ Len(data) <= MaxSize /\ nbbytes \in Int
  BY <1>1, Flying, TransferAssume DEF IInv, TransferTypeOK
<1>4. data' \in Seq(Bytes) /\ Len(data') = n
  BY <1>1, <1>3, Cut
<1>5. TransferTypeOK'
  <2>1. Len(data') <= MaxSize /\ happened' \subseteq {"big", "grew", "cut", "written"}
    BY <1>2, <1>3, <1>4 DEF IInv, TransferTypeOK
  <2> QED
    BY <1>2, <1>4, <2>1 DEF IInv, TransferTypeOK
<1>6. Idle'
  BY <1>2 DEF IInv, Idle
<1>7. InFlight' = InFlight
  BY <1>2 DEF InFlight
<1>8. Counted' /\ Conserved'
  BY <1>2, <1>7 DEF IInv, Counted, Conserved
<1>9. Copied'
  <2>1. CASE spc # "stat"
    BY <1>2, <2>1 DEF Copied, Intact
  <2>2. CASE spc = "stat"
    <3>1. at = 0 /\ wire = << >> /\ cbuf = << >> /\ sbuf = << >> /\ local = << >>
      BY <2>2 DEF IInv, Idle
    <3>2. UpTo(data', 0) \in Seq(Bytes) /\ Len(UpTo(data', 0)) = 0
      <4>1. data' \in Seq(Bytes) /\ 0 \in 0..Len(data')
        BY <1>3, <1>4
      <4> QED
        BY <4>1, Cut
    <3>3. UpTo(data', 0) = << >> /\ Len(<< >>) = 0
      BY <3>2, EmptySeq
    <3>4. local \o InFlight = << >>
      BY <3>1 DEF InFlight
    <3>5. 0 <= Len(data')
      BY <1>3, <1>4
    <3> QED
      BY <1>2, <1>7, <3>1, <3>3, <3>4, <3>5 DEF Copied, Intact
  <2> QED
    BY <2>1, <2>2
<1>10. Announced'
  <2>1. Len(data') <= Len(data)
    BY <1>3, <1>4
  <2>2. ASSUME happened' \cap {"big", "grew"} = {}
        PROVE  happened \cap {"big", "grew"} = {}
    BY <1>2, <2>2
  <2>3. Len(data) <= nbbytes => Len(data') <= nbbytes
    BY <1>3, <1>4
  <2> QED
    BY <1>2, <2>2, <2>3 DEF IInv, Announced
<1> QED
  BY <1>5, <1>6, <1>8, <1>9, <1>10 DEF IInv

\* A file that is written over has as many bytes as before, but may not be what
\* was read.
LEMMA OverwriteKeeps ==
  ASSUME IInv, Overwrite
  PROVE  IInv'
<1>1. PICK i \in DOMAIN data : data' = [data EXCEPT ![i] = 0]
  BY DEF Overwrite
<1>2. /\ happened' = (IF spc = "stat" THEN happened ELSE happened \cup {"written"})
      /\ UNCHANGED <<spc, nbbytes, at, sbuf, wire, cpc, rest, cbuf, local>>
  BY DEF Overwrite, Mark, serverVars, clientVars
<1>3. /\ data \in Seq(Bytes) /\ Len(data) \in Nat /\ 0 \in Bytes /\ MaxSize \in Nat
      /\ Len(data) <= MaxSize
  BY Flying, TransferAssume DEF IInv, TransferTypeOK, Bytes
<1>4. data' \in Seq(Bytes) /\ Len(data') = Len(data)
  BY <1>1, <1>3, ExceptSeq
<1>5. TransferTypeOK'
  <2>1. Len(data') <= MaxSize /\ happened' \subseteq {"big", "grew", "cut", "written"}
    BY <1>2, <1>3, <1>4 DEF IInv, TransferTypeOK
  <2> QED
    BY <1>2, <1>4, <2>1 DEF IInv, TransferTypeOK
<1>6. Idle'
  BY <1>2 DEF IInv, Idle
<1>7. InFlight' = InFlight
  BY <1>2 DEF InFlight
<1>8. Counted' /\ Conserved'
  BY <1>2, <1>7 DEF IInv, Counted, Conserved
<1>9. Copied'
  <2>1. CASE spc # "stat"
    BY <1>2, <2>1 DEF Copied, Intact
  <2>2. CASE spc = "stat"
    <3>1. at = 0 /\ wire = << >> /\ cbuf = << >> /\ sbuf = << >> /\ local = << >>
      BY <2>2 DEF IInv, Idle
    <3>2. UpTo(data', 0) \in Seq(Bytes) /\ Len(UpTo(data', 0)) = 0
      <4>1. data' \in Seq(Bytes) /\ 0 \in 0..Len(data')
        BY <1>3, <1>4
      <4> QED
        BY <4>1, Cut
    <3>3. UpTo(data', 0) = << >> /\ Len(<< >>) = 0
      BY <3>2, EmptySeq
    <3>4. local \o InFlight = << >>
      BY <3>1 DEF InFlight
    <3>5. 0 <= Len(data')
      BY <1>3, <1>4
    <3> QED
      BY <1>2, <1>7, <3>1, <3>3, <3>4, <3>5 DEF Copied, Intact
  <2> QED
    BY <2>1, <2>2
<1>10. Announced'
  <2>1. ASSUME happened' \cap {"big", "grew"} = {}
        PROVE  happened \cap {"big", "grew"} = {}
    BY <1>2, <2>1
  <2> QED
    BY <1>2, <1>4, <2>1 DEF IInv, Announced
<1> QED
  BY <1>5, <1>6, <1>8, <1>9, <1>10 DEF IInv

\* The invariant holds at first,
LEMMA InitHolds == Init => IInv
<1> SUFFICES ASSUME Init
             PROVE  IInv
  OBVIOUS
<1>1. PICK n \in 0..MaxSize : data = [i \in 1..n |-> i]
  BY DEF Init
<1>2. /\ happened = {} /\ spc = "stat" /\ nbbytes = 0 /\ at = 0 /\ sbuf = << >>
      /\ wire = << >> /\ cpc = "answer" /\ rest = 0 /\ cbuf = << >> /\ local = << >>
  BY DEF Init
<1>3. MaxSize \in Nat /\ MSGSIZE \in Nat /\ SockBuf \in Nat /\ INT_MAX \in Nat
  BY TransferAssume
<1>4. data \in Seq(Bytes) /\ Len(data) = n
  <2>1. n \in Nat /\ \A i \in 1..n : i \in Bytes
    BY <1>1, <1>3 DEF Bytes
  <2> QED
    BY <1>1, <2>1, IsASeq
<1>5. << >> \in Seq(Bytes) /\ Len(<< >>) = 0 /\ << >> \o << >> = << >>
  BY EmptySeq
<1>6. TransferTypeOK
  BY <1>1, <1>2, <1>3, <1>4, <1>5 DEF TransferTypeOK
<1>7. Idle
  BY <1>2 DEF Idle
<1>8. Counted
  BY <1>2 DEF Counted
<1>9. InFlight = << >>
  BY <1>2, <1>5 DEF InFlight
<1>10. Conserved
  BY <1>2, <1>5, <1>9 DEF Conserved
<1>11. Copied
  <2>1. UpTo(data, 0) \in Seq(Bytes) /\ Len(UpTo(data, 0)) = 0
    <3>1. data \in Seq(Bytes) /\ 0 \in 0..Len(data)
      BY <1>1, <1>4
    <3> QED
      BY <3>1, Cut
  <2>2. UpTo(data, 0) = << >>
    BY <2>1, EmptySeq
  <2> QED
    BY <1>1, <1>2, <1>4, <1>5, <1>9, <2>2 DEF Copied, Intact, Ended
<1>12. Announced
  BY <1>2 DEF Announced
<1> QED
  BY <1>6, <1>7, <1>8, <1>10, <1>11, <1>12 DEF IInv

\* and every step keeps it.
LEMMA StepHolds == IInv /\ [Next]_vars => IInv'
<1> SUFFICES ASSUME IInv, [Next]_vars
             PROVE  IInv'
  OBVIOUS
<1>1. CASE Announce
  BY <1>1, AnnounceKeeps
<1>2. CASE ServerRead
  BY <1>2, ServerReadKeeps
<1>3. CASE ServerEof
  BY <1>3, ServerEofKeeps
<1>4. CASE ServerWrite
  BY <1>4, ServerWriteKeeps
<1>5. CASE ServerWritesToNobody
  BY <1>5, ServerWritesToNobodyKeeps
<1>6. CASE ServerExits
  BY <1>6, ServerExitsKeeps
<1>7. CASE ReadAnswer
  BY <1>7, ReadAnswerKeeps
<1>8. CASE ClientRead
  BY <1>8, ClientReadKeeps
<1>9. CASE ClientWrite
  BY <1>9, ClientWriteKeeps
<1>10. CASE CopyShort
  BY <1>10, EndClientKeeps DEF CopyShort, Ended
<1>11. CASE CopyComplete
  BY <1>11, EndClientKeeps DEF CopyComplete, Ended
<1>12. CASE ClientFails
  BY <1>12, EndClientKeeps DEF ClientFails, Ended
<1>13. CASE Grow
  BY <1>13, GrowKeeps
<1>14. CASE Shrink
  BY <1>14, ShrinkKeeps
<1>15. CASE Overwrite
  BY <1>15, OverwriteKeeps
<1>16. CASE UNCHANGED vars
  <2>1. UNCHANGED <<data, happened, spc, nbbytes, at, sbuf, wire, cpc, rest, cbuf, local>>
    BY <1>16 DEF vars, fileVars, serverVars, clientVars
  <2>2. UNCHANGED InFlight
    BY <2>1 DEF InFlight
  <2> QED
    BY <2>1, <2>2
    DEF IInv, TransferTypeOK, Idle, Counted, Conserved, Copied, Intact, Announced
<1> QED
  BY <1>1, <1>2, <1>3, <1>4, <1>5, <1>6, <1>7, <1>8, <1>9, <1>10, <1>11, <1>12,
     <1>13, <1>14, <1>15, <1>16 DEF Next, ServerStep, ClientStep

\* The invariant holds in every reachable state.
LEMMA Inductive == Spec => []IInv
  BY InitHolds, StepHolds, PTL DEF Spec

-----------------------------------------------------------------------------
(* Theorems *)

\* The buffers, the connection and the counters of a transfer stay in their
\* types: no copy overruns a buffer.
THEOREM TypeCorrect == Spec => []TransferTypeOK
<1>1. IInv => TransferTypeOK
  BY DEF IInv
<1> QED
  BY <1>1, Inductive, PTL

\* A client whose copy_n_bytes returned 0 has as many bytes as were announced,
\* and the beginning of the file unless something was cut from it or written over.
THEOREM CompleteIsAll == Spec => []CompleteMeansAll
<1>1. IInv => CompleteMeansAll
  BY DEF IInv, Counted, Copied, Intact, Ended, CompleteMeansAll
<1> QED
  BY <1>1, Inductive, PTL

\* SIGPIPE ends the server after a transfer that is complete only if the file
\* grew or had a size that is no int.
THEOREM DeathByGrowth == Spec => []KilledByGrowthOnly
<1>1. IInv => KilledByGrowthOnly
  BY DEF IInv, Announced, KilledByGrowthOnly
<1> QED
  BY <1>1, Inductive, PTL

\* What is sent first is a prefix.
LEMMA PrefixOfConcat ==
  ASSUME NEW s \in Seq(Bytes), NEW t \in Seq(Bytes)
  PROVE  Copy!IsPrefix(s, s \o t)
<1>1. /\ s \o t \in Seq(Bytes) /\ Len(s \o t) = Len(s) + Len(t)
      /\ \A i \in 1..Len(s) : (s \o t)[i] = s[i]
      /\ Len(s) \in Nat /\ Len(t) \in Nat
  BY ConcatProperties, LenProperties
<1>2. Len(s) \in 0..Len(s) /\ Len(s) \in 0..Len(s \o t)
  BY <1>1
<1>3. /\ UpTo(s \o t, Len(s)) \in Seq(Bytes) /\ Len(UpTo(s \o t, Len(s))) = Len(s)
      /\ \A i \in 1..Len(s) : UpTo(s \o t, Len(s))[i] = (s \o t)[i]
  BY <1>1, <1>2, Cut
<1>4. \A i \in 1..Len(s) : UpTo(s \o t, Len(s))[i] = s[i]
  BY <1>1, <1>3
<1>5. UpTo(s \o t, Len(s)) = s
  BY <1>3, <1>4, SeqEqual
<1>6. SubSeq(s, 1, Len(s)) = s
  BY SubSeqFull
<1> QED
  BY <1>1, <1>5, <1>6 DEF Copy!IsPrefix, UpTo

\* The queue of Fifo, in Transfer.
OnItsWay == IF cpc \in Ended THEN << >> ELSE cbuf \o wire \o sbuf

\* The queue of Fifo is what is on its way here.
LEMMA OnItsWayIs ==
  /\ cpc \notin Ended => OnItsWay = InFlight
  /\ cpc \in Ended => OnItsWay = << >>
  /\ cpc' \notin Ended => OnItsWay' = InFlight'
  /\ cpc' \in Ended => OnItsWay' = << >>
  BY DEF OnItsWay, InFlight

\* Every step is a step of Fifo, or leaves its queue as it is.
LEMMA StepsOfFifo ==
  ASSUME IInv, [Next]_vars
  PROVE  [Copy!Next]_<<OnItsWay, local, cpc \notin Ended>>
<1>1. CASE ServerRead
  <2>1. UNCHANGED <<local, cpc>>
    BY <1>1 DEF ServerRead, clientVars
  <2>2. CASE cpc \in Ended
    BY <2>1, <2>2, OnItsWayIs
  <2>3. CASE cpc \notin Ended
    <3>1. sbuf' \in Seq(Bytes) /\ InFlight \in Seq(Bytes) /\ InFlight' = InFlight \o sbuf'
      BY <1>1, ReadGrowsFlight
    <3>2. Copy!IsPrefix(InFlight, InFlight')
      BY <3>1, PrefixOfConcat
    <3>3. Copy!IsPrefix(OnItsWay, OnItsWay')
      BY <2>1, <2>3, <3>2, OnItsWayIs
    <3> QED
      BY <2>1, <2>3, <3>3 DEF Copy!Next, Copy!Enqueue, OnItsWay
  <2> QED
    BY <2>2, <2>3
<1>2. CASE ClientWrite
  <2>1. cpc = "copy" /\ UNCHANGED cpc
    BY <1>2 DEF ClientWrite
  <2>2. cpc \notin Ended
    BY <2>1 DEF Ended
  <2>3. /\ local' \o InFlight' = local \o InFlight
        /\ \E part \in Seq(Bytes) : local' = local \o part
    BY <1>2, StoreMovesFlight
  <2>4. local \in Seq(Bytes)
    BY DEF IInv, TransferTypeOK
  <2>5. Copy!IsPrefix(local, local')
    BY <2>3, <2>4, PrefixOfConcat
  <2>6. local' \o OnItsWay' = local \o OnItsWay
    BY <2>1, <2>2, <2>3, OnItsWayIs
  <2> QED
    BY <2>1, <2>2, <2>5, <2>6 DEF Copy!Next, Copy!Dequeue, OnItsWay
<1>3. ASSUME cpc \notin Ended, NEW how \in Ended, EndClient(how)
      PROVE  Copy!Next
  <2>1. cpc' \in Ended /\ local' = local
    BY <1>3 DEF EndClient
  <2>2. OnItsWay' = << >>
    BY <2>1, OnItsWayIs
  <2> QED
    BY <1>3, <2>1, <2>2 DEF Copy!Next, Copy!Close, OnItsWay
<1>4. CASE CopyShort
  BY <1>3, <1>4 DEF CopyShort, Ended
<1>5. CASE CopyComplete
  BY <1>3, <1>5 DEF CopyComplete, Ended
<1>6. CASE ClientFails
  BY <1>3, <1>6 DEF ClientFails, Ended
<1>7. ASSUME UNCHANGED <<local, InFlight>>, (cpc' \in Ended) = (cpc \in Ended)
      PROVE  UNCHANGED <<OnItsWay, local, cpc \notin Ended>>
  BY <1>7, OnItsWayIs
<1>8. CASE ServerWrite
  <2>1. UNCHANGED <<local, InFlight>>
    BY <1>8, WriteKeepsFlight DEF SameBytes
  <2>2. UNCHANGED cpc
    BY <1>8 DEF ServerWrite, Written, clientVars
  <2> QED
    BY <1>7, <2>1, <2>2
<1>9. CASE ClientRead
  <2>1. UNCHANGED <<local, InFlight>>
    BY <1>9, TakeKeepsFlight DEF SameBytes
  <2>2. UNCHANGED cpc
    BY <1>9 DEF ClientRead
  <2> QED
    BY <1>7, <2>1, <2>2
<1>10. CASE ReadAnswer
  <2>1. UNCHANGED <<local, InFlight>>
    BY <1>10 DEF ReadAnswer, InFlight, serverVars
  <2>2. (cpc' \in Ended) = (cpc \in Ended)
    BY <1>10 DEF ReadAnswer, Ended
  <2> QED
    BY <1>7, <2>1, <2>2
<1>11. CASE ServerWritesToNobody
  <2>1. cpc \in Ended /\ UNCHANGED <<cpc, local>>
    BY <1>11 DEF ServerWritesToNobody, Written, clientVars
  <2> QED
    BY <2>1, OnItsWayIs
<1>12. CASE Announce \/ ServerEof \/ ServerExits \/ Grow \/ Shrink \/ Overwrite
               \/ UNCHANGED vars
  <2>1. UNCHANGED <<local, cpc, cbuf, wire, sbuf>>
    BY <1>12
    DEF Announce, ServerEof, ServerExits, Grow, Shrink, Overwrite, vars, clientVars, serverVars
  <2>2. UNCHANGED InFlight
    BY <2>1 DEF InFlight
  <2> QED
    BY <1>7, <2>1, <2>2
<1> QED
  BY <1>1, <1>2, <1>4, <1>5, <1>6, <1>8, <1>9, <1>10, <1>11, <1>12
  DEF Next, ServerStep, ClientStep

\* The buffers of both loops and the connection are one queue: the local file
\* gets what was read from the server's file in order, each byte once, whatever
\* the sizes of reads and writes.
THEOREM CopyImplementsFifo == Spec => CopyIsFifo
<1>1. Init => Copy!Init
  BY DEF Init, Ended, Copy!Init
<1>2. IInv /\ [Next]_vars => [Copy!Next]_<<OnItsWay, local, cpc \notin Ended>>
  BY StepsOfFifo
<1> QED
  BY <1>1, <1>2, Inductive, PTL DEF Spec, CopyIsFifo, Copy!Spec, OnItsWay
=============================================================================
