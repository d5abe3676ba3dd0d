---------------------------- MODULE ArcTopology ----------------------------
(***************************************************************************)
(* The network that router.py describes: a Controller and its Senders,     *)
(* each with the static table of controller_routes or sender_routes, and a *)
(* frame that they pass on with Router.route until it is delivered or      *)
(* cannot be routed.  A frame carries no hop count.                        *)
(*                                                                         *)
(* The flight computers and the ground station are not part of the code;   *)
(* they are leaves that hand their frames to the node they are wired to.   *)
(* Every Sender may be configured with any paired_fc or with none, and any *)
(* one link of the Controller or of a Sender may be missing.               *)
(***************************************************************************)
Senders  == {"SENDER_DOWN", "SENDER_AIRBRAKE", "SENDER_PAYLOAD", "SENDER_GROUND"}
FCs      == {"FC_N", "FC_C", "FC_L"}
Leaves   == FCs \cup {"GROUND"}
Nodes    == Senders \cup Leaves \cup {"CONTROLLER"}

\* Addresses that no table names, and 0xFF, which has no meaning to a router.
Unrouted == {"TEENSY_HUB", "BROADCAST"}

None == "none"

VARIABLES
  paired_fc,   \* the configuration of each Sender
  missing,     \* the links that were not registered, as <<node, link>>
  dst,         \* the frame's destination
  at,          \* the node that has the frame
  state        \* "moving", "local" (delivered) or "RouteError"

tvars == <<paired_fc, missing, dst, at, state>>

----------------------------------------------------------------------------
(* The tables.                                                             *)

\* Faulty variant, not used: the Controller has no route to FC_C.
controller_routes_NoFcC ==
  [d \in (Leaves \cup Senders) \ {"FC_C"} |->
     CASE d \in {"GROUND", "FC_N"}            -> "uart-fc-n"
       [] d = "SENDER_AIRBRAKE"               -> "airbrake"
       [] d \in {"FC_L", "SENDER_PAYLOAD"}    -> "payload"
       [] d = "SENDER_DOWN"                   -> "down"
       [] d = "SENDER_GROUND"                 -> "ground"]

controller_routes ==
  [d \in Leaves \cup Senders |->
     CASE d \in {"GROUND", "FC_N"}            -> "uart-fc-n"
       [] d \in {"FC_C", "SENDER_AIRBRAKE"}   -> "airbrake"
       [] d \in {"FC_L", "SENDER_PAYLOAD"}    -> "payload"
       [] d = "SENDER_DOWN"                   -> "down"
       [] d = "SENDER_GROUND"                 -> "ground"]

sender_routes(s) == [d \in {paired_fc[s]} \ {None} |-> "uart-fc"]

routes(n) == IF n = "CONTROLLER" THEN controller_routes ELSE sender_routes(n)
\* Faulty variant: the Controller passes on what it cannot route.
default_route_Everywhere(n) == IF n = "CONTROLLER" THEN "ground" ELSE "controller"

default_route(n) == IF n = "CONTROLLER" THEN None ELSE "controller"

\* The node at the other end of a link.
Peer(n, link) ==
  CASE link = "uart-fc-n"  -> "FC_N"
    [] link = "airbrake"   -> "SENDER_AIRBRAKE"
    [] link = "payload"    -> "SENDER_PAYLOAD"
    [] link = "down"       -> "SENDER_DOWN"
    [] link = "ground"     -> "SENDER_GROUND"
    [] link = "uart-fc"    -> paired_fc[n]
    [] link = "controller" -> "CONTROLLER"

Links ==
  {<<"CONTROLLER", controller_routes[d]>> : d \in DOMAIN controller_routes}
    \cup (Senders \X {"uart-fc", "controller"})

Init ==
  /\ paired_fc \in [Senders -> FCs \cup {None}]
  /\ missing \in {{}} \cup {{l} : l \in Links}
  /\ dst \in Nodes \cup Unrouted
  /\ at \in Nodes \ {dst}
  /\ state = "moving"

----------------------------------------------------------------------------
(* Router.route at the Controller and at the Senders.                      *)

link_name(n) == IF dst \in DOMAIN routes(n) THEN routes(n)[dst] ELSE default_route(n)

RouteLocal ==
  /\ state = "moving" /\ at = dst
  /\ state' = "local"
  /\ UNCHANGED <<paired_fc, missing, dst, at>>

RouteForwarded ==
  /\ state = "moving" /\ at # dst /\ at \notin Leaves
  /\ link_name(at) # None /\ <<at, link_name(at)>> \notin missing
  /\ at' = Peer(at, link_name(at))
  /\ UNCHANGED <<paired_fc, missing, dst, state>>

\* No route and no default, or a link that is not in links.
RouteFails ==
  /\ state = "moving" /\ at # dst /\ at \notin Leaves
  /\ link_name(at) = None \/ <<at, link_name(at)>> \in missing
  /\ state' = "RouteError"
  /\ UNCHANGED <<paired_fc, missing, dst, at>>

\* A flight computer hands a frame to the node it is wired to; FC_N has the radio
\* to the ground station.
Hosts(n) == CASE n = "GROUND" -> {"FC_N"}
              [] n = "FC_N"   -> {IF dst = "GROUND" THEN "GROUND" ELSE "CONTROLLER"}
              [] OTHER        -> {s \in Senders : paired_fc[s] = n}

LeafSends ==
  /\ state = "moving" /\ at # dst /\ at \in Leaves
  /\ \E h \in Hosts(at) : at' = h
  /\ UNCHANGED <<paired_fc, missing, dst, state>>

Routing == RouteLocal \/ RouteForwarded \/ RouteFails \/ LeafSends

Spec == Init /\ [][Routing]_tvars

\* A node that has a frame routes it: route is a call that returns.
FairSpec == Spec /\ WF_tvars(Routing)

----------------------------------------------------------------------------
(* Properties.                                                             *)

\* A flight computer without the Sender through which the Controller reaches it.
\* Its Sender sends frames for it back to the Controller, and so on for ever.
Unpaired(fc) ==
  \/ fc = "FC_C" /\ paired_fc["SENDER_AIRBRAKE"] # fc
  \/ fc = "FC_L" /\ paired_fc["SENDER_PAYLOAD"] # fc

\* A leaf that is wired to no node keeps its frame.
Unwired(n) == n \in Leaves /\ Hosts(n) = {}

\* Although frames carry no hop count and all Senders default to the Controller,
\* every frame is delivered or refused after finitely many hops, wherever it
\* starts and whichever links are missing, unless it is for an unpaired FC.
EveryFrameLeaves ==
  state = "moving" /\ ~Unpaired(dst) /\ ~Unwired(at) ~> state # "moving"

\* No frame for a node that the tables name is refused because of the tables: it
\* is refused where the very link it should take is not registered, or, when
\* nobody knows dst, by the Controller, to which all defaults lead.
RefusedWithReason ==
  state = "RouteError" =>
    \/ <<at, link_name(at)>> \in missing
    \/ dst \in Unrouted /\ at = "CONTROLLER"

=============================================================================
