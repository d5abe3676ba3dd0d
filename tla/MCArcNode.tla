----------------------------- MODULE MCArcNode -----------------------------
EXTENDS ArcNode

CONSTANTS me, peer, far

\* One link, which leads to peer; nothing leads to far.
MCLinks  == [l \in 0 .. ARC_ROUTER_MAX_LINKS - 1 |-> IF l = 0 THEN TRUE ELSE Free]
MCRoutes == [i \in 0 .. ARC_ROUTER_MAX_ROUTES - 1 |->
               IF i = 0 THEN [dst |-> peer, link_idx |-> 0] ELSE Free]

MCDefault == -1

MCCalls == {[id |-> 1, dst |-> me], [id |-> 2, dst |-> peer], [id |-> 3, dst |-> peer],
            [id |-> 4, dst |-> far]}

MCFrame(src, dst, reliable, ack, seq, payload) ==
  [src |-> src, dst |-> dst, reliable |-> reliable, ack |-> ack, session |-> 1,
   seq |-> seq, payload |-> payload]

\* A reliable frame of the peer and its ACKs for the node's first frames.
MCInbound ==
  {MCFrame(peer, me, TRUE, FALSE, 0, <<"data">>)} \cup
  {MCFrame(peer, me, FALSE, TRUE, 1, <<q \div BYTE, q % BYTE>>) :
     q \in first_seq .. first_seq + 3}

=============================================================================
