------------------------- MODULE MCReliableEndpoint -------------------------
(* Frame sets for model-checking ReliableEndpoint: address 1 is the endpoint, *)
(* the other addresses are its peers.                                        *)
EXTENDS ReliableEndpoint

Data(srcs, sessions, seqs, dsts) ==
  [src : srcs, dst : dsts, reliable : {TRUE}, ack : {FALSE},
   session : sessions, seq : seqs, payload : {<<>>}]

\* ACKs of every SEQ, well formed or not, and plain frames, for the sending side.
AckInbound ==
  [src : {2}, dst : {1}, reliable : {FALSE}, ack : {TRUE},
   session : {1}, seq : {0}, payload : AckPayloads \cup {<<>>}]
  \cup [src : {2}, dst : {1, 2}, reliable : {FALSE}, ack : {FALSE},
        session : {1}, seq : {0}, payload : {<<>>}]

\* A peer that restarts, old sessions coming back late, one that does not, and
\* one more than sources[] can track, with a frame for another endpoint.
ThreePeers ==
  Data({2}, {1}, 0 .. 1, {1}) \cup Data({2}, {2}, {0}, {1})
    \cup Data({3}, {1}, 0 .. 1, {1}) \cup Data({4}, {1}, {0}, {1, 2})

BothInbound == AckInbound \cup ThreePeers

\* The two sides share little: receiving a data frame reads neither the clock nor
\* pending[].  OneSideSpec is FairSpec for behaviours that use one of them, and in
\* which no time passes once a data frame was received.  Whether a frame to send
\* looks like an ACK is stored with it and does not matter to its sender.
Sending ==
  /\ recent = <<>>
  /\ \/ \E c \in CallIds :
          \/ SendRejected(c) \/ SendUnreliable(c) \/ SendBufferFull(c)
          \/ \E dst \in Dsts : SendReliable(c, dst, FALSE)
     \/ \E f \in AckInbound : ReceivePlain(f) \/ ReceiveAnAck(f)
     \/ AdvanceClock

Receiving ==
  /\ now_ms = 0 /\ idle = 0 /\ \A c \in CallIds : status[c] = "unused"
  /\ \E f \in ThreePeers : ReceivePlain(f) \/ ReceiveData(f)

OneSideSpec ==
  /\ Init /\ [][Sending \/ Receiving \/ Tick]_vars
  /\ WF_vars(Tick) /\ WF_vars(AdvanceClock /\ recent = <<>>)

\* The peer with address 2 restarts, the one with address 3 does not.
OneRestartInbound ==
  Data({2}, {1, 2}, 0 .. 1, {1}) \cup Data({3}, {1}, 0 .. 1, {1})

=============================================================================
