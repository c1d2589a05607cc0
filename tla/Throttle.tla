------------------------------ MODULE Throttle ------------------------------
(***************************************************************************)
(* The loop at the end of start_sniffing (src/src/sniffer.c), which is to  *)
(* let one frame through per second.  It compares two readings of the      *)
(* clock, t1 and t2, kept as ticks here; module Sniffer says what the      *)
(* callback does, this one when it is called.  The clock is gettimeofday's *)
(* and is assumed not to be set back.                                      *)
(***************************************************************************)
EXTENDS Integers

CONSTANTS
  Second,        \* ticks of a second
  MaxTime,       \* the bound on the clock of an instance
  Start          \* the time at which the loop begins

VARIABLES
  now,           \* the clock
  t1, t2,        \* the variables of the loop
  tpc,           \* "init", "check", "wait" in pcap_loop, "call" in got_packet
  calls,         \* calls of got_packet so far
  last, before   \* when the last of them began, and the one before it

vars == <<now, t1, t2, tpc, calls, last, before>>

ThrottleAssumption ==
  /\ Second \in Nat \ {0}
  /\ MaxTime \in Nat
  /\ Start \in Nat

ASSUME ThrottleAssume == ThrottleAssumption

Init ==
  /\ now = Start
  /\ t1 = Start            \* the first get_time
  /\ t2 = Start
  /\ tpc = "init"
  /\ calls = 0
  /\ last = Start
  /\ before = Start

Tick ==
  /\ now < MaxTime
  /\ now' = now + 1
  /\ UNCHANGED <<t1, t2, tpc, calls, last, before>>

\* The second get_time, before the loop.
ReadClock ==
  /\ tpc = "init"
  /\ t2' = now
  /\ tpc' = "check"
  /\ UNCHANGED <<now, t1, calls, last, before>>

TooEarly ==
  /\ tpc = "check"
  /\ t2 - t1 < Second
  /\ t2' = now
  /\ UNCHANGED <<now, t1, tpc, calls, last, before>>

\* Mutant: the difference is compared in whole units.
CallPcapEarly ==
  /\ tpc = "check"
  /\ t2 - t1 >= Second - 1
  /\ tpc' = "wait"
  /\ UNCHANGED <<now, t1, t2, calls, last, before>>

CallPcap ==
  /\ tpc = "check"
  /\ t2 - t1 >= Second
  /\ tpc' = "wait"
  /\ UNCHANGED <<now, t1, t2, calls, last, before>>

\* pcap_loop hands a frame over, after whatever time.
GotPacket ==
  /\ tpc = "wait"
  /\ tpc' = "call"
  /\ calls' = calls + 1
  /\ last' = now
  /\ before' = last
  /\ UNCHANGED <<now, t1, t2>>

\* pcap_loop returns an error, without a frame; its result is not looked at.
LoopFails ==
  /\ tpc = "wait"
  /\ t1' = t2
  /\ tpc' = "check"
  /\ UNCHANGED <<now, t2, calls, last, before>>

\* Mutant: t1 is not moved on.
ReturnOnly ==
  /\ tpc = "call"
  /\ tpc' = "check"
  /\ UNCHANGED <<now, t1, t2, calls, last, before>>

\* The callback and pcap_loop return.
Return ==
  /\ tpc = "call"
  /\ t1' = t2
  /\ tpc' = "check"
  /\ UNCHANGED <<now, t2, calls, last, before>>

Next == Tick \/ ReadClock \/ TooEarly \/ CallPcap \/ GotPacket \/ LoopFails \/ Return

Spec == Init /\ [][Next]_vars

-----------------------------------------------------------------------------

TypeOK ==
  /\ now \in Nat /\ t1 \in Nat /\ t2 \in Nat
  /\ last \in Nat /\ before \in Nat /\ calls \in Nat
  /\ tpc \in {"init", "check", "wait", "call"}

\* Over its whole life the loop lets through at most one frame per second.
AverageRate == calls * Second <= now - Start

\* Of any three successive frames the first and the last are a second apart:
\* a burst, which a long wait in pcap_loop allows, is of two frames.
NoBurstOfThree == tpc = "wait" /\ calls >= 2 => now - before >= Second
=============================================================================
