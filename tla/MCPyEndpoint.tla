---------------------------- MODULE MCPyEndpoint ----------------------------
EXTENDS PyEndpoint

CONSTANTS me, peer, other

MCCalls == {[id |-> k, dst |-> peer] : k \in 1 .. 2}

Data(src, dst, reliable, sess, seq, id) ==
  [src |-> src, dst |-> dst, reliable |-> reliable, ack |-> FALSE, session |-> sess,
   seq |-> seq, payload |-> <<id>>]

\* Well-formed ACKs for the SEQs in use, and one that is too short.
Acks == {[src |-> peer, dst |-> me, reliable |-> FALSE, ack |-> TRUE, session |-> 1,
          seq |-> 0, payload |-> p] :
           p \in {<<q \div BYTE, q % BYTE>> : q \in 0 .. SEQ_VALUES - 1} \cup {<<0>>}}

\* A peer that keeps its session, one that changes it, and other traffic.
TwoPeers ==
  {Data(peer, me, TRUE, 1, 0, 0)} \cup {Data(other, me, TRUE, s, 0, 10 + s) : s \in 1 .. 2}
    \cup {Data(peer, me, FALSE, 1, 2, 20), Data(peer, other, TRUE, 1, 3, 21)}

MCInbound == Acks \cup TwoPeers

=============================================================================
