----------------------------- MODULE MCAnalysis -----------------------------
(***************************************************************************)
(* Instances of Analysis for TLC: lines of two bytes, and captures of up   *)
(* to three frames, of every kind got_packet tells from another.           *)
(***************************************************************************)
EXTENDS Analysis, TLC

AllCallers == {"client", "filter", "earlier"}
Counts     == {-1, 1}

\* A frame of TCP with a payload of so many bytes in a memory that holds text.
Tcp(sport, dport, size, text) ==
  [ether |-> "IP", ihl |-> 5, proto |-> "tcp", off |-> 5, sport |-> sport,
   dport |-> dport, ip_len |-> 40 + size, text |-> text]

\* Texts that end in no word.
TextsOf(n) == {t \in [1..n -> Bytes] : t[n] = "text"}

\* Payloads of one line, of one and a half, two and more, some with memory
\* behind; ports that are counted, once and twice, and one that is not.
Payloads == {Tcp(80, 1024, n, text) : n \in {1, 2, 4}, text \in TextsOf(4)}
            \cup {Tcp(22, 110, 5, text) : text \in {t \in TextsOf(5) : t[1] = "text"}}
            \cup {Tcp(23, 80, n, text) : n \in {0, 3}, text \in TextsOf(3)}

Behind == [i \in 1..20 |-> "text"]

Plain == Tcp(80, 52, 0, Behind)

Others == {Tcp(443, 443, 0, Behind),
           [Plain EXCEPT !.off = 4],
           [Plain EXCEPT !.ip_len = 30],
           [Plain EXCEPT !.ip_len = 47],
           [Plain EXCEPT !.proto = "other"],
           [Plain EXCEPT !.ihl = 0, !.ether = "ARP"],
           [Plain EXCEPT !.ether = "ARP"],
           [Plain EXCEPT !.ether = "other"]}

SomeCaptures ==
  {<<f>> : f \in Payloads} \cup {<<Plain, f>> : f \in {g \in Payloads : Len(g.text) = 3}}
  \cup {<<f, g, Plain>> : f \in Others, g \in Others}
=============================================================================
