----------------------- MODULE MCHandshakeTransfer --------------------------
(* Scripts of the real commands, with odd and even legs in each direction. *)
EXTENDS HandshakeTransfer

ToCpu(n) == [to |-> "CPU", len |-> n]
ToIo(n) == [to |-> "IO", len |-> n]

MCScripts ==
  \* 13h memory read: header, n bytes back, status
  { [by |-> "IO", legs |-> <<ToCpu(h), ToIo(n), ToCpu(1)>>] :
      h \in {2, 3}, n \in 1..4 }
  \* 14h memory write, 10h/11h comparators, 18h resume: frame, status back
  \union { [by |-> "IO", legs |-> <<ToCpu(n), ToIo(1)>>] : n \in 1..4 }
  \* BIOS calls: request, response
  \union { [by |-> "CPU", legs |-> <<ToIo(n), ToCpu(m)>>] :
             n \in 1..4, m \in 1..3 }
=============================================================================
