--------------------------- MODULE ReliableService ---------------------------
(***************************************************************************)
(* What the reliable transport promises its applications, with no frames,  *)
(* tables or sequence numbers: a call that arc_reliable_send accepted is   *)
(* delivered at most once by each incarnation of the receiver, is          *)
(* confirmed only after it was delivered or lost in a restart of the       *)
(* receiver, and otherwise may be given up; a call given up may still be   *)
(* delivered by a frame that was under way.                                *)
(***************************************************************************)
EXTENDS Naturals

CONSTANTS
  Nodes,
  Calls             \* the calls of arc_reliable_send; c.src, c.dst \in Nodes

VARIABLES
  status,           \* what the sender was told
  deliveries,       \* how often deliver_fn got its payload in a reliable frame
  reboots           \* restarts of each node

svars == <<status, deliveries, reboots>>

SInit ==
  /\ status = [c \in Calls |-> "unused"]
  /\ deliveries = [c \in Calls |-> 0]
  /\ reboots = [n \in Nodes |-> 0]

\* ARC_OK for a reliable or an unreliable frame, or an error.
Submit(c) ==
  /\ status[c] = "unused"
  /\ \E s \in {"parked", "sent", "refused"} : status' = [status EXCEPT ![c] = s]
  /\ UNCHANGED <<deliveries, reboots>>

\* A frame sent unparked may carry ARC_FLAG_RELIABLE: delivered, never confirmed.
\* Only a receiver that restarted since delivers a call again.
Deliver(c) ==
  /\ status[c] \notin {"unused", "refused"}
  /\ deliveries[c] <= reboots[c.dst]
  /\ status[c] = "acked" => reboots[c.dst] > 0
  /\ deliveries' = [deliveries EXCEPT ![c] = @ + 1]
  /\ UNCHANGED <<status, reboots>>

Confirm(c) ==
  /\ status[c] = "parked"
  /\ deliveries[c] > 0 \/ reboots[c.dst] > 0
  /\ status' = [status EXCEPT ![c] = "acked"]
  /\ UNCHANGED <<deliveries, reboots>>

\* One call of arc_reliable_tick may give up several frames.
GiveUp(S) ==
  /\ \A c \in S : status[c] = "parked"
  /\ status' = [c \in Calls |-> IF c \in S THEN "failed" ELSE status[c]]
  /\ UNCHANGED <<deliveries, reboots>>

\* The application of node n forgets what it was sending.
Restart(n) ==
  /\ reboots' = [reboots EXCEPT ![n] = @ + 1]
  /\ status' = [c \in Calls |-> IF c.src = n /\ status[c] = "parked"
                                THEN "forgotten" ELSE status[c]]
  /\ UNCHANGED deliveries

SNext ==
  \/ \E c \in Calls : Submit(c) \/ Deliver(c) \/ Confirm(c)
  \/ \E S \in SUBSET Calls : GiveUp(S)
  \/ \E n \in Nodes : Restart(n)

SSpec == SInit /\ [][SNext]_svars

=============================================================================
