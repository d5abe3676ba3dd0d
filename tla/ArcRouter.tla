------------------------------ MODULE ArcRouter ------------------------------
(***************************************************************************)
(* The static frame router of an ARC node (arc_router.h, arc_router.c).    *)
(* The embedder registers links, adds routes and sets a default in any     *)
(* order, before and between the frames it routes.                         *)
(*                                                                         *)
(* A used slot of links[] holds TRUE when the link has a send_fn and FALSE *)
(* when send_fn is NULL.                                                   *)
(***************************************************************************)
EXTENDS Tables, FiniteSets

CONSTANTS
  ARC_ROUTER_MAX_LINKS,
  ARC_ROUTER_MAX_ROUTES,
  Dsts,         \* destination addresses
  my_addr

\* link_idx is kept in an uint8_t and an int8_t.
ASSUME RouterSizes ==
  /\ ARC_ROUTER_MAX_LINKS \in 1 .. 128
  /\ ARC_ROUTER_MAX_ROUTES \in Nat \ {0}
  /\ my_addr \in Dsts

Links  == 0 .. ARC_ROUTER_MAX_LINKS - 1
Routes == 0 .. ARC_ROUTER_MAX_ROUTES - 1

\* The link_idx arguments a caller may pass, out of range ones included.
LinkArgs == -1 .. ARC_ROUTER_MAX_LINKS

arc_router_route_t == [dst : Dsts, link_idx : Links]

ASSUME FreeIsNoRoute == Free \notin BOOLEAN /\ Free \notin arc_router_route_t

VARIABLES
  links, routes, default_link_idx,  \* the fields of arc_router_t
  out                               \* the last call and what it returned

rvars == <<links, routes, default_link_idx, out>>

arc_router_init ==
  /\ links = EmptyTable(ARC_ROUTER_MAX_LINKS)
  /\ routes = EmptyTable(ARC_ROUTER_MAX_ROUTES)
  /\ default_link_idx = -1
  /\ out = <<"arc_router_init">>

----------------------------------------------------------------------------
arc_router_add_link(has_send_fn) ==
  /\ IF FreeSlots(links) # {}
     THEN /\ links' = [links EXCEPT ![FirstSlot(FreeSlots(links))] = has_send_fn]
          /\ out' = <<"add_link", has_send_fn, FirstSlot(FreeSlots(links))>>
     ELSE links' = links /\ out' = <<"add_link", has_send_fn, "ARC_ERR_BUFFER">>
  /\ UNCHANGED <<routes, default_link_idx>>

\* Faulty variants, which the properties below must reject: the range check is
\* off by one, and in_use is not checked.
LinkInUse_OffByOne(l) ==
  l \in 0 .. ARC_ROUTER_MAX_LINKS /\ (l \in Links => links[l] # Free)
LinkInUse_NotChecked(l) == l \in Links

\* The range check comes first, so links[] is never read out of bounds.
LinkInUse(l) == l \in Links /\ links[l] # Free

RoutesFor(dst) == {i \in UsedSlots(routes) : routes[i].dst = dst}

\* Faulty variant: a free slot is taken before the table is searched.
RouteSlots_FreeFirst(dst) ==
  IF FreeSlots(routes) # {} THEN FreeSlots(routes) ELSE RoutesFor(dst)

\* The slot of an existing route for dst, else a free one.
RouteSlots(dst) ==
  IF RoutesFor(dst) # {} THEN RoutesFor(dst) ELSE FreeSlots(routes)

arc_router_add_route(dst, l) ==
  /\ IF ~LinkInUse(l)
     THEN routes' = routes /\ out' = <<"add_route", dst, l, "ARC_ERR_BAD_ARG">>
     ELSE IF RouteSlots(dst) = {}
     THEN routes' = routes /\ out' = <<"add_route", dst, l, "ARC_ERR_BUFFER">>
     ELSE /\ routes' = [routes EXCEPT ![FirstSlot(RouteSlots(dst))] =
                                         [dst |-> dst, link_idx |-> l]]
          /\ out' = <<"add_route", dst, l, "ARC_OK">>
  /\ UNCHANGED <<links, default_link_idx>>

arc_router_set_default(l) ==
  /\ IF l < 0
     THEN default_link_idx' = -1 /\ out' = <<"set_default", l, "ARC_OK">>
     ELSE IF ~LinkInUse(l)
     THEN /\ default_link_idx' = default_link_idx
          /\ out' = <<"set_default", l, "ARC_ERR_BAD_ARG">>
     ELSE default_link_idx' = l /\ out' = <<"set_default", l, "ARC_OK">>
  /\ UNCHANGED <<links, routes>>

\* Faulty variant: the default wins over the routes.
RouteLink_DefaultFirst(dst) ==
  IF default_link_idx >= 0 \/ RoutesFor(dst) = {} THEN default_link_idx
  ELSE routes[FirstSlot(RoutesFor(dst))].link_idx

\* The link_idx that the scan of routes[] and the default leave.
RouteLink(dst) ==
  IF RoutesFor(dst) # {} THEN routes[FirstSlot(RoutesFor(dst))].link_idx
                         ELSE default_link_idx

\* A registered link may still have no send_fn.
CanSend(l) == links[l] # Free /\ links[l]

arc_router_route(dst) ==
  /\ out' = IF dst = my_addr THEN <<"route", dst, "ARC_ROUTE_LOCAL">>
            ELSE IF RouteLink(dst) < 0 \/ ~CanSend(RouteLink(dst))
            THEN <<"route", dst, "ARC_ERR_BAD_ARG">>
            ELSE <<"route", dst, "ARC_ROUTE_FORWARDED", RouteLink(dst)>>
  /\ UNCHANGED <<links, routes, default_link_idx>>

RNext ==
  \/ \E b \in BOOLEAN : arc_router_add_link(b)
  \/ \E dst \in Dsts, l \in LinkArgs : arc_router_add_route(dst, l)
  \/ \E l \in LinkArgs : arc_router_set_default(l)
  \/ \E dst \in Dsts : arc_router_route(dst)

RSpec == arc_router_init /\ [][RNext]_rvars

----------------------------------------------------------------------------
(* Properties.                                                             *)

\* The tables and the default have their types.
RTypeOK ==
  /\ links \in [Links -> BOOLEAN \cup {Free}]
  /\ routes \in [Routes -> arc_router_route_t \cup {Free}]
  /\ default_link_idx \in -1 .. ARC_ROUTER_MAX_LINKS - 1

\* No destination has two routes, so the scan that stops at the first one and
\* the one that replaces a route work on the same entry.
OneRoutePerDst ==
  \A i, j \in UsedSlots(routes) : routes[i].dst = routes[j].dst => i = j

\* Every route and the default name a registered link: arc_router_route never
\* forwards onto a slot of links[] that is not in use.
NoDanglingLink ==
  /\ \A i \in UsedSlots(routes) : links[routes[i].link_idx] # Free
  /\ default_link_idx # -1 => links[default_link_idx] # Free

BoundDsts == {routes[i].dst : i \in UsedSlots(routes)}

\* The tables implement the map of RouteMap: a frame leaves on the link its
\* destination was last bound to, or on the default, links are numbered in the
\* order of add_link, refusals change nothing, and a table is full only with as
\* many entries as it has slots.
Map == INSTANCE RouteMap WITH
  MaxLinks <- ARC_ROUTER_MAX_LINKS,
  Capacity <- ARC_ROUTER_MAX_ROUTES,
  open     <- [l \in UsedSlots(links) |-> links[l]],
  table    <- [d \in BoundDsts |-> routes[CHOOSE i \in RoutesFor(d) : TRUE].link_idx],
  fallback <- default_link_idx

ImplementsRouteMap == Map!MSpec

=============================================================================
