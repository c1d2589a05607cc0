------------------------------ MODULE Analysis ------------------------------
(***************************************************************************)
(* src/process_client.c: got_packet as the programs call it that analyse   *)
(* frames, the client on every buffer it has read ("client"), filter.c on  *)
(* a capture file ("filter"), and the earlier filter.c with process.c in   *)
(* src/trunk/analyse/Optimisation ("earlier").  It counts the ports of     *)
(* known services, prints payloads line by line, and looks for passwords.  *)
(* A byte of a payload is "word" where a word pswd or password begins,     *)
(* "tail" where the rest of a longer word reads so, "nul" where it is 0,   *)
(* and "text" otherwise.                                                   *)
(***************************************************************************)
EXTENDS Integers, Sequences, FiniteSets

CONSTANTS
  Callers,       \* of {"client", "filter", "earlier"}
  Captures,      \* sequences of frames to analyse
  NumPackets,    \* values of the argument num_packets of filter.c
  line_width     \* bytes per line, 16

VARIABLES
  caller,        \* which program runs
  capture,       \* the frames it is given
  num_packets,   \* frames to analyse, all when not positive
  next,          \* frames the loop has come past
  analysed,      \* frames got_packet was called on
  pc,            \* program counter
  protocoles,    \* the counters
  ch,            \* print_payload: bytes of the payload printed, as text too
  hexed,         \* bytes of it shown in the hex columns
  offset,        \* print_payload: the number printed before a line
  len_rem        \* print_payload: bytes that remain

vars == <<caller, capture, num_packets, next, analysed, pc, protocoles,
          ch, hexed, offset, len_rem>>

\* The indices of the counters.
PROTOCOLES == {"TELNET", "HTTP", "FTP", "SSH", "IMAP", "POP3", "HTTPS", "ECHO", "DNS"}

Nibbles == 0..15
Shorts  == 0..65535

Bytes == {"text", "word", "tail", "nul"}

\* What got_packet looks at in a frame; ihl and off are in words of 4 bytes,
\* and text is the memory from the payload on, which may be longer than what
\* the lengths of the headers leave for it.
Frames == [ether : {"IP", "ARP", "other"}, ihl : Nibbles, proto : {"tcp", "other"},
           off : Nibbles, sport : Shorts, dport : Shorts,
           ip_len : Shorts, text : Seq(Bytes)]

Size(f) == f.ip_len - (4 * f.ihl + 4 * f.off)

ASSUME AnalysisAssume ==
  /\ Callers \subseteq {"client", "filter", "earlier"}
  /\ \A capt \in Captures :
       /\ capt \in Seq(Frames)
       /\ \A i \in DOMAIN capt : Size(capt[i]) <= Len(capt[i].text)
  /\ NumPackets \subseteq Int
  /\ line_width \in Nat \ {0}

\* The types of the variables; while a payload is printed there is a frame.
AnalysisTypeOK ==
  /\ caller \in Callers
  /\ capture \in Captures
  /\ num_packets \in NumPackets \cup {-1}
  /\ next \in 0..Len(capture)
  /\ analysed \in 0..next
  /\ pc \in {"loop", "lines", "search", "stats", "done", "exited", "crashed"}
  /\ protocoles \in [PROTOCOLES -> Nat]
  /\ ch \in Nat /\ hexed \in Nat /\ offset \in Nat /\ len_rem \in Nat
  /\ pc \in {"lines", "search", "exited"} => next > 0

Init ==
  /\ caller \in Callers
  /\ capture \in Captures
  /\ num_packets \in (IF caller = "client" THEN {-1} ELSE NumPackets)
  /\ next = 0
  /\ analysed = 0
  /\ pc = "loop"
  /\ protocoles = [k \in PROTOCOLES |-> 0]
  /\ ch = 0 /\ hexed = 0 /\ offset = 0 /\ len_rem = 0

-----------------------------------------------------------------------------
(* The loops that call got_packet *)

\* filter_exp of the two filters lets IP through; the client's buffers were
\* chosen by the server.
Passes(f) == caller = "client" \/ f.ether = "IP"

\* pcap_loop has all the frames it was asked for, or the file or the stream
\* ends.
Ended == next = Len(capture) \/ (num_packets > 0 /\ analysed = num_packets)

Skip ==
  /\ pc = "loop" /\ ~Ended
  /\ ~Passes(capture[next + 1])
  /\ next' = next + 1
  /\ UNCHANGED <<caller, capture, num_packets, analysed, pc, protocoles,
                 ch, hexed, offset, len_rem>>

LoopEnds ==
  /\ pc = "loop" /\ Ended
  /\ pc' = "stats"
  /\ UNCHANGED <<caller, capture, num_packets, next, analysed, protocoles,
                 ch, hexed, offset, len_rem>>

-----------------------------------------------------------------------------
(* count_protocoles_inc *)

Port == [HTTP |-> 80, FTP |-> 21, SSH |-> 22, IMAP |-> 143, POP3 |-> 110,
         HTTPS |-> 443, TELNET |-> 23, ECHO |-> 7, DNS |-> 52]

count_protocoles_inc(counters, port) ==
  [k \in PROTOCOLES |-> IF Port[k] = port THEN counters[k] + 1 ELSE counters[k]]

-----------------------------------------------------------------------------
(* got_packet *)

\* The frames whose ports are counted: the length of the IP header is looked at
\* before the ethertype, and a frame of ARP with such a length goes on to be
\* taken for one of IP.  The earlier got_packet does not look at the ethertype.
GetsToTcp(f) == 4 * f.ihl >= 20 /\ f.ether \in {"IP", "ARP"} /\ f.proto = "tcp"

EarlierGetsToTcp(f) == 4 * f.ihl >= 20 /\ f.proto = "tcp"

Counted(f) ==
  /\ IF caller = "earlier" THEN EarlierGetsToTcp(f) ELSE GetsToTcp(f)
  /\ 4 * f.off >= 20

\* Mutant: the source port is counted for the destination's.
CountSourceTwice(f) ==
  count_protocoles_inc(count_protocoles_inc(protocoles, f.sport), f.sport)

CountPorts(f) ==
  count_protocoles_inc(count_protocoles_inc(protocoles, f.sport), f.dport)

\* printf("%s", htons(...)) of the part on ARP takes a number for an address.
ArpCrashes(f) == caller # "earlier" /\ f.ether = "ARP" /\ 4 * f.ihl >= 20

\* Mutant: a payload of a negative size counts as one.
HasPayloadUnsigned(f) == Size(f) # 0

HasPayload(f) == Size(f) > 0

GotPacket ==
  /\ pc = "loop" /\ ~Ended
  /\ LET f == capture[next + 1] IN
     /\ Passes(f)
     /\ next' = next + 1
     /\ analysed' = analysed + 1
     /\ \/ /\ protocoles' = IF Counted(f) THEN CountPorts(f) ELSE protocoles
           /\ IF Counted(f) /\ HasPayload(f)
              THEN /\ pc' = "lines"
                   /\ ch' = 0 /\ hexed' = 0 /\ offset' = 0 /\ len_rem' = Size(f)
              ELSE UNCHANGED <<pc, ch, hexed, offset, len_rem>>
        \/ ArpCrashes(f) /\ pc' = "crashed"
           /\ UNCHANGED <<protocoles, ch, hexed, offset, len_rem>>
  /\ UNCHANGED <<caller, capture, num_packets>>

-----------------------------------------------------------------------------
(* print_payload and print_hex_ascii_line *)

Text == capture[next].text

\* Mutant: the operands of % the other way round.
LineLenSwapped == len_rem % line_width

LineLen == line_width % len_rem

\* The bytes of the line to be printed: the only one of a short payload and the
\* last one are shorter.
ThisLine == IF len_rem > line_width THEN LineLen ELSE len_rem

\* The offset and the hex columns of a line come first, before its search.
PrintHex ==
  /\ pc = "lines"
  /\ hexed' = ch + ThisLine
  /\ pc' = "search"
  /\ UNCHANGED <<caller, capture, num_packets, next, analysed, protocoles,
                 ch, offset, len_rem>>

\* look_for_pswd(payload): the text from the line on, up to the first 0, be that
\* before the end of the line or after the end of the payload.  The line may
\* begin inside a word.
Finds(from) ==
  \E i \in (from + 1)..Len(Text) :
    /\ Text[i] = "word" \/ (Text[i] = "tail" /\ i = from + 1)
    /\ \A j \in (from + 1)..(i - 1) : Text[j] # "nul"

\* Mutant: the text is searched once, from its first line.
FindsPasswordOnce == caller # "earlier" /\ ch = 0 /\ Finds(ch)

\* The search from the line to be printed; the earlier program has none.
FindsPassword == caller # "earlier" /\ Finds(ch)

\* A word found ends the process, whatever follows it: by exit, or by the strcmp
\* of a token that is not there.
PasswordFound ==
  /\ pc = "search"
  /\ FindsPassword
  /\ pc' \in {"exited", "crashed"}
  /\ UNCHANGED <<caller, capture, num_packets, next, analysed, protocoles,
                 ch, hexed, offset, len_rem>>

\* look_for_pswd copies the text to a block one byte too short, which malloc or
\* free may notice.
SearchCrashes ==
  /\ pc = "search"
  /\ caller # "earlier"
  /\ pc' = "crashed"
  /\ UNCHANGED <<caller, capture, num_packets, next, analysed, protocoles,
                 ch, hexed, offset, len_rem>>

\* The line is shown as text.
PrintLine ==
  /\ pc = "search"
  /\ len_rem > line_width
  /\ ~FindsPassword
  /\ len_rem' = len_rem - LineLen
  /\ ch' = ch + LineLen
  /\ offset' = offset + line_width
  /\ pc' = "lines"
  /\ UNCHANGED <<caller, capture, num_packets, next, analysed, protocoles, hexed>>

\* Mutant: no break, and the last line is printed for ever.
PrintLastLineAgain == pc = "search" /\ len_rem <= line_width /\ UNCHANGED vars

PrintLastLine ==
  /\ pc = "search"
  /\ len_rem <= line_width
  /\ ~FindsPassword
  /\ ch' = ch + len_rem
  /\ len_rem' = 0
  /\ pc' = "loop"
  /\ UNCHANGED <<caller, capture, num_packets, next, analysed, protocoles, hexed, offset>>

-----------------------------------------------------------------------------
(* count_protocoles_stats *)

\* The loop over the counters.
Total(c) == c["TELNET"] + c["HTTP"] + c["FTP"] + c["SSH"] + c["IMAP"] + c["POP3"]
            + c["HTTPS"] + c["ECHO"] + c["DNS"]

\* Mutant: the loop begins at 1.
SumFromOne == Total(protocoles) - protocoles["TELNET"]

Sum == Total(protocoles)

Share(k) == (protocoles[k] * 100) \div Sum

\* Nothing was counted and the function returns; or the shares are written, which
\* fails where the pointer fopen returned does not fit in the int it is stored in.
Stats ==
  /\ pc = "stats"
  /\ \/ pc' = "done"
     \/ Sum # 0 /\ caller # "earlier" /\ pc' = "crashed"
  /\ UNCHANGED <<caller, capture, num_packets, next, analysed, protocoles,
                 ch, hexed, offset, len_rem>>

Next == Skip \/ LoopEnds \/ GotPacket \/ PrintHex \/ PasswordFound \/ SearchCrashes
        \/ PrintLine \/ PrintLastLine \/ Stats

Spec     == Init /\ [][Next]_vars
FairSpec == Spec /\ WF_vars(Next)

-----------------------------------------------------------------------------
(* Safety *)

\* Printing a payload, the lines so far are its first bytes and the rest is still
\* to come: no byte is left out or printed twice, each full line has line_width
\* bytes, the number in front of it is the place of its first byte, and the hex
\* columns are one line ahead of the text while that line is searched.
PayloadCovered ==
  pc \in {"lines", "search"} =>
    /\ ch + len_rem = Size(capture[next])
    /\ offset = ch
    /\ ch % line_width = 0
    /\ len_rem > 0
    /\ hexed = IF pc = "lines" THEN ch
               ELSE IF len_rem < line_width THEN ch + len_rem ELSE ch + line_width

\* The search of a line comes after its hex columns and before its text.  It
\* misses a word that announces a password only when a 0 stands before the word
\* in its own line, although it stops at a 0, that of an earlier line included:
\* any other word is shown in the hex columns of the line now searched at most,
\* or of the line whose search ended the process, and never as text.
WordsCaught ==
  pc \in {"lines", "search", "exited"} /\ caller # "earlier" =>
    \A i \in 1..hexed : Text[i] = "word" =>
      \/ \E j \in 1..(i - 1) : /\ (j - 1) \div line_width = (i - 1) \div line_width
                               /\ Text[j] = "nul"
      \/ pc # "lines" /\ i > ch

\* The frames that pass the filter, and those analysed of them when num_packets
\* or the end of the capture stops the loop.
Passing == {i \in DOMAIN capture : Passes(capture[i])}

Wanted ==
  {i \in Passing : num_packets > 0 => Cardinality(Passing \cap 1..i) <= num_packets}

\* When the statistics are made, each counter is the number of times its port is
\* the source or the destination of a TCP frame among those asked for.
CountsExact ==
  pc \in {"stats", "done"} =>
    \A k \in PROTOCOLES :
      protocoles[k] =
        Cardinality({end \in Wanted \X {"sport", "dport"} :
                       Counted(capture[end[1]]) /\ capture[end[1]][end[2]] = Port[k]})

\* The shares written are percentages, and what rounding takes from their sum is
\* less than one each.
SharesAreShares ==
  pc = "stats" /\ Sum # 0 =>
    LET total == Total([k \in PROTOCOLES |-> Share(k)]) IN
    /\ \A k \in PROTOCOLES : Share(k) \in 0..100
    /\ 100 - Cardinality(PROTOCOLES) < total /\ total <= 100

-----------------------------------------------------------------------------
(* Liveness *)

\* The analysis of a capture ends.
AnalysisEnds == <>(pc \in {"done", "exited", "crashed"})
=============================================================================
