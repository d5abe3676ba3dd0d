---------------------------- MODULE MixedNetwork ----------------------------
(***************************************************************************)
(* C and Python endpoints on one network, as flight computers and Pis are: *)
(* the C nodes are those of ReliableNetwork, the Python nodes have the     *)
(* endpoint of PyReliable.  Both sides read what the other side writes,    *)
(* and together they provide the service of ReliableService: the           *)
(* properties of ReliableNetwork are checked here.                         *)
(***************************************************************************)
EXTENDS ReliableNetwork

CONSTANT PyNodes      \* the nodes that run reliable.py

ASSUME SomePython == PyNodes \subseteq Nodes

VARIABLE py           \* the endpoints of the Python nodes

mixvars == <<nvars, py>>

Py == INSTANCE PyReliable WITH timeout_s <- 1

CNodes == Nodes \ PyNodes

MInit ==
  /\ NInit
  /\ py = [n \in PyNodes |-> Py!ReliableEndpoint(n, ep[n].session, ep[n].next_seq)]

----------------------------------------------------------------------------
(* The Python nodes.  Their dict has no limit, so no send is refused.      *)

PyCalls(pending) == {pending[i].frame.payload[1] : i \in DOMAIN pending}

\* As in C, flags may hold FLAG_RELIABLE although the argument reliable is false.
PySend(c, reliable, flagged) ==
  LET e == py[c.src]
      f == Py!Frame(e, c.dst, reliable \/ flagged, <<c>>)
  IN  /\ status[c] = "unused"
      /\ Draw(c.src)
      /\ py' = [py EXCEPT ![c.src] = Py!take_seq(IF reliable THEN Py!Park(e, f) ELSE e)]
      /\ net' = net \cup {f}
      /\ status' = [status EXCEPT ![c] = IF reliable THEN "parked" ELSE "sent"]
      /\ UNCHANGED <<ep, reboots, deliveries>>

PyReceiveData(n, f) ==
  /\ f.dst = n /\ ~f.ack /\ f.reliable
  /\ Draw(n)
  /\ py' = [py EXCEPT ![n] = Py!Remember(Py!Acknowledge(@, f), f)]
  /\ net' = net \cup {Py!send_ack(py[n], f)}
  /\ deliveries' = IF Py!IsDuplicate(py[n], f) THEN deliveries
                   ELSE [deliveries EXCEPT ![CallOf(f)] = @ + 1]
  /\ UNCHANGED <<ep, reboots, status>>

PyReceiveAnAck(n, f) ==
  LET e == Py!handle_ack(py[n], f)
  IN  /\ f.dst = n /\ f.ack
      /\ py' = [py EXCEPT ![n] = e]
      /\ status' = [c \in Calls |->
                      IF c \in PyCalls(py[n].pending) \ PyCalls(e.pending)
                      THEN "acked" ELSE status[c]]
      /\ UNCHANGED <<ep, net, draws, reboots, deliveries>>

\* Any part of the dict may be due.
PyTick(n, S) ==
  LET e == Py!tick(py[n], S)
  IN  /\ py' = [py EXCEPT ![n] = e]
      /\ status' = [c \in Calls |->
                      IF c \in PyCalls(py[n].pending) \ PyCalls(e.pending)
                      THEN "failed" ELSE status[c]]
      /\ UNCHANGED <<ep, net, draws, reboots, deliveries>>

PyKeys(n) == {Py!pending_key(py[n].pending[i].frame) : i \in DOMAIN py[n].pending}

PyStep ==
  \/ \E c \in Calls, reliable, flagged \in BOOLEAN :
       c.src \in PyNodes /\ PySend(c, reliable, flagged)
  \/ \E n \in PyNodes : \/ \E f \in net : PyReceiveData(n, f) \/ PyReceiveAnAck(n, f)
                        \/ \E S \in SUBSET PyKeys(n) : PyTick(n, S)

----------------------------------------------------------------------------
(* The C nodes.                                                            *)

CStep ==
  /\ UNCHANGED py
  /\ \/ \E c \in Calls : /\ c.src \in CNodes
                         /\ \/ \E now_ms \in Clocks : SendReliable(c, now_ms)
                            \/ \E flagged \in BOOLEAN : SendUnreliable(c, flagged)
                            \/ SendBufferFull(c)
     \/ \E n \in CNodes :
          \/ \E f \in net : ReceiveData(n, f) \/ ReceiveAnAck(n, f) \/ CrashInReceive(n, f)
          \/ \E now_ms \in Clocks : Tick(n, now_ms)
          \/ Reboot(n)

MSpec == MInit /\ [][CStep \/ PyStep]_mixvars

----------------------------------------------------------------------------
(* Properties, besides those of ReliableNetwork.                           *)

PyPendingT == [frame : Frames, due : Nat, retries : 0 .. max_retries]

PyT ==
  [my_addr : Nodes, session : Sessions, next_seq : Seqs, pending : Seq(PyPendingT),
   seen : SUBSET (Nodes \X Sessions \X Seqs),
   source_sessions : UNION {[A -> Sessions] : A \in SUBSET Nodes}]

\* Endpoints of both kinds have their types, with frames, keys and sessions that
\* the other kind can have written; no entry of a dict of reliable.py was sent
\* again more than max_retries times.
MTypeOK == NTypeOK /\ py \in [PyNodes -> PyT]

=============================================================================
