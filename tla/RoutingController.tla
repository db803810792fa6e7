------------------------- MODULE RoutingController -------------------------
(***************************************************************************)
(* What the parts of the routing controller share: whether the BGP server  *)
(* has been started (NetworkRoutingController.bgpServerStarted).           *)
(* BgpServer is about the start itself and the peers and policies of the   *)
(* server, VipAdvertisement about the service VIPs that it advertises.     *)
(***************************************************************************)

VARIABLE bgpServerStarted
=============================================================================
