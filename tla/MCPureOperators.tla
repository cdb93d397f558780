-------------------------- MODULE MCPureOperators --------------------------
(***************************************************************************)
(* The pure operators of the project checked against their reference     *)
(* definitions together: RoutingAlgo over every order in which replicas   *)
(* join (MCRoutingAlgo), and GetBootstrap over every pair of short       *)
(* environment values (MCBootstrap).                                      *)
(***************************************************************************)
EXTENDS MCRoutingAlgo, MCBootstrap

\* Replicas join while the environment values stay as the process got them.
PureInit == Init /\ BootInit

PureNext == Next /\ BootNext

PureSpec == PureInit /\ [][PureNext]_<<vars, bootVars>>

=============================================================================
