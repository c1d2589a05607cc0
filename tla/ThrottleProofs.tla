--------------------------- MODULE ThrottleProofs ---------------------------
(***************************************************************************)
(* What the loop of start_sniffing guarantees whatever the length of a     *)
(* second in ticks and however long pcap_loop and the callback take.       *)
(***************************************************************************)
EXTENDS Throttle, TLAPS

\* The clock readings the loop rests on.  Every call that returned moved t1 on
\* by a second, and a call is let through by a t2 a second after t1.
Credit ==
  /\ t1 <= t2 /\ t2 <= now
  /\ Start <= before /\ before <= last /\ last <= now
  /\ tpc \in {"init", "check", "wait"} => t1 - Start >= calls * Second
  /\ tpc = "call" => t2 - Start >= calls * Second
  /\ tpc \in {"wait", "call"} => t2 - t1 >= Second

\* A t2 later than t1 was read after the last call began, so that t1 is not
\* earlier than the call before it.
Spacing ==
  /\ tpc = "check" => t2 = t1 \/ t2 >= last
  /\ tpc = "wait" => t2 >= last
  /\ tpc = "call" => t2 >= before
  /\ tpc \in {"init", "check", "wait"} => t1 >= before

Inv == TypeOK /\ Credit /\ Spacing

\* The credit of one more call is one more second.
LEMMA Distribute ==
  ASSUME NEW k \in Nat
  PROVE  (k + 1) * Second = k * Second + Second
BY ThrottleAssume DEF ThrottleAssumption

\* The loop begins with no call and no credit.
LEMMA InitInv == Init => Inv
<1> SUFFICES ASSUME Init PROVE Inv
  OBVIOUS
<1>1. 0 * Second = 0
  BY ThrottleAssume DEF ThrottleAssumption
<1> QED
  BY <1>1, ThrottleAssume
  DEF Init, Inv, TypeOK, Credit, Spacing, ThrottleAssumption

\* Every step of the loop, and of the clock, keeps the three parts.
LEMMA StepInv == Inv /\ [Next]_vars => Inv'
<1> SUFFICES ASSUME Inv, [Next]_vars PROVE Inv'
  OBVIOUS
<1> USE ThrottleAssume DEF ThrottleAssumption, Inv, TypeOK
<1>0. calls * Second \in Nat
  BY ThrottleAssume
<1>1. CASE Tick
  BY <1>1 DEF Tick, Credit, Spacing
<1>2. CASE ReadClock
  BY <1>2 DEF ReadClock, Credit, Spacing
<1>3. CASE TooEarly
  BY <1>3 DEF TooEarly, Credit, Spacing
<1>4. CASE CallPcap
  BY <1>4 DEF CallPcap, Credit, Spacing
<1>5. CASE GotPacket
  <2>1. (calls + 1) * Second = calls * Second + Second
    BY Distribute
  <2> QED
    BY <1>0, <1>5, <2>1 DEF GotPacket, Credit, Spacing
<1>6. CASE Return
  BY <1>6 DEF Return, Credit, Spacing
<1>7. CASE LoopFails
  BY <1>0, <1>7 DEF LoopFails, Credit, Spacing
<1>8. CASE UNCHANGED vars
  BY <1>8 DEF vars, Credit, Spacing
<1> QED
  BY <1>1, <1>2, <1>3, <1>4, <1>5, <1>6, <1>7, <1>8 DEF Next

\* Every behaviour of the loop keeps its invariant.
THEOREM Invariance == Spec => []Inv
BY InitInv, StepInv, PTL DEF Spec

\* Every variable keeps its type.
THEOREM TypeCorrect == Spec => []TypeOK
<1>1. Inv => TypeOK
  BY DEF Inv
<1> QED
  BY <1>1, Invariance, PTL

\* However irregular the frames are, no more of them are let through than
\* seconds have passed.
THEOREM RateBounded == Spec => []AverageRate
<1>1. Inv => AverageRate
  <2>1. calls \in Nat => calls * Second \in Nat
    BY ThrottleAssume DEF ThrottleAssumption
  <2> QED
    BY <2>1, ThrottleAssume DEF Inv, TypeOK, Credit, AverageRate, ThrottleAssumption
<1> QED
  BY <1>1, Invariance, PTL

\* A frame comes at least a second after the last but one.
THEOREM BurstsBounded == Spec => []NoBurstOfThree
<1>1. Inv => NoBurstOfThree
  BY ThrottleAssume
  DEF Inv, TypeOK, Credit, Spacing, NoBurstOfThree, ThrottleAssumption
<1> QED
  BY <1>1, Invariance, PTL
=============================================================================
