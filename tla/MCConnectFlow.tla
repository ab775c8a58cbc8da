--------------------------- MODULE MCConnectFlow ---------------------------
(***************************************************************************)
(* Model values and bounds for ConnectFlow: two saved hosts, one of them   *)
(* on the local network.                                                   *)
(***************************************************************************)
EXTENDS ConnectFlow

CONSTANTS h1, h2

MCHosts == {h1, h2}
MCLan   == {h1}

=============================================================================
