--------------------------- MODULE MCGameModules ---------------------------
(***************************************************************************)
(* The rank package as the repository has it: nothing assigns Mod, so     *)
(* init() registers the nil pointer.  Two players, one of each player     *)
(* package, and two messages a session may send.                          *)
(***************************************************************************)
EXTENDS GameModules

CONSTANTS nil, obj, p1, p2, m1, m2, e1, scLogin, scChat

MCPlayers == {p1, p2}

(***************************************************************************)
(* init() registers the rank module so that module.MManager can run it,   *)
(* and the module interface's Init reports failure as its error result.   *)
(* So the manager's Init call on the registered module returns, with nil  *)
(* or an error, and never panics.                                         *)
(***************************************************************************)
InitDoesNotPanic == crashed # "Init"

=============================================================================
