----------------------------- MODULE GameModules -----------------------------
(***************************************************************************)
(* The game server's business modules and the client's handler table     *)
(* (src/business/module/rank/module.go, src/gre/client/...):              *)
(*                                                                         *)
(*   rank: the package's init() registers the package variable Mod with   *)
(*   module.MManager; the manager then calls the module's Init, and later *)
(*   its queries (GetRank, GetZCard, Clear, Save) and its event hooks     *)
(*   (OnEvent, SetEventCategoryActive).  Every method has a *Module       *)
(*   receiver, so a call on a nil Mod runs until it touches a field.      *)
(*                                                                         *)
(*   player: NewPlayer builds a Player; Start loops receiving messages    *)
(*   from HandlerParamCh and handing each to Handler; a session goroutine *)
(*   sends the messages.  NewPlayer leaves HandlerParamCh nil, and in Go  *)
(*   a send or a receive on a nil channel blocks forever.                 *)
(*                                                                         *)
(*   client: MessageHandlerRegister fills c.messageHandlers.              *)
(*                                                                         *)
(* module.MManager, Handler, the session and the client's dispatch are    *)
(* not in the repository; the manager's calls and the session's sends are *)
(* the environment of this model.  An unrecovered panic ends the process, *)
(* so every step requires that none has happened.                         *)
(***************************************************************************)
EXTENDS Naturals, Sequences

CONSTANTS Nil,          \* the nil pointer / nil channel
          ModObject,    \* a *Module that points to a Module value
          Mod,          \* the value of the package variable Mod at init()
          StartUnix,    \* start.Unix() of "2023-01-01 00:00:00"
          FinalUnix,    \* final.Unix() of "2100-01-01 00:00:00"
          RankIds, SortTypes, \* rank ids and SortType values of queries
          Events,       \* event.IEvent values and event categories
          Players, GamePlayPlayers,  \* the players; those of the GamePlay package
          Messages,     \* *network.Message values a session may send
          MaxHandled,   \* bound on the messages a player handles
          ResponseIds   \* the SC message ids MessageHandlerRegister names

VARIABLES registered,  \* the module MManager holds under "", or "none"
          module,      \* the fields of the Module value a non-nil Mod points to
          startTime, finalTime, \* the rank package's time globals
          ready,       \* the manager's Init call returned nil
          crashed,     \* the method whose panic ended the process, or "none"
          player,      \* player -> its fields, or "none" before NewPlayer
          sending,     \* player -> the message a session is sending, or Nil
          handled,     \* player -> the messages Handler was given, in order
          handlers     \* the ids c.messageHandlers has a handler for

(* The rank module's state: the package's registration, its globals and   *)
(* the fields of Module that the code writes.                             *)
rankVars == <<registered, module, startTime, finalTime, ready, crashed>>

(* A Player's state: UId, HandlerParamCh, the embedded GamePlay, its loop. *)
playerVars == <<player, sending, handled>>

vars == <<rankVars, playerVars, handlers>>

Init ==
    /\ registered = "none"
    /\ module = [initFlag |-> FALSE, blackList |-> Nil, rankLastScoreList |-> Nil]
    /\ startTime = 0 /\ finalTime = 0
    /\ ready = FALSE
    /\ crashed = "none"
    /\ player = [p \in Players |-> "none"]
    /\ sending = [p \in Players |-> Nil]
    /\ handled = [p \in Players |-> << >>]
    /\ handlers = {}

Alive == crashed = "none"

-----------------------------------------------------------------------------
(* The rank module.                                                        *)

\* init(): module.MManager.RegisterModule("", Mod), Mod as it is then.
RegisterModule ==
    /\ Alive /\ registered = "none"
    /\ registered' = Mod
    /\ UNCHANGED <<module, startTime, finalTime, ready, crashed, playerVars, handlers>>

(***************************************************************************)
(* Init on the registered receiver.  The two time.ParseInLocation calls   *)
(* parse fixed, well-formed strings, so their error returns never happen. *)
(* The globals are set first; m.blackList is the first field written, and *)
(* on a nil receiver that write panics.                                   *)
(***************************************************************************)
ModuleInit ==
    /\ Alive /\ registered \notin {"none"} /\ ~ready
    /\ startTime' = StartUnix
    /\ finalTime' = FinalUnix
    /\ IF registered = Nil
       THEN /\ crashed' = "Init"
            /\ UNCHANGED <<module, ready>>
       ELSE /\ module' = [initFlag |-> TRUE, blackList |-> "made",
                          rankLastScoreList |-> "made"]
            /\ ready' = TRUE
            /\ UNCHANGED crashed
    /\ UNCHANGED <<registered, playerVars, handlers>>

\* GetRank builds the rank name from a fresh Config and, for Aes, takes
\* the mock redis instance; the sorted-set calls are still TODOs.  It
\* never reads a field of m, so it changes nothing here.
GetRank(rankId, sortType) ==
    /\ Alive /\ ready
    /\ UNCHANGED vars

\* GetZCard: the ZCard call is a TODO; it returns 0.
GetZCard(rankId) ==
    /\ Alive /\ ready
    /\ UNCHANGED vars

\* Clear and Save have empty bodies.
ClearOrSave(rankId) ==
    /\ Alive /\ ready
    /\ UNCHANGED vars

\* OnEvent and SetEventCategoryActive panic("implement me").
OnEvent(e) ==
    /\ Alive /\ ready
    /\ crashed' = "OnEvent"
    /\ UNCHANGED <<registered, module, startTime, finalTime, ready, playerVars, handlers>>

SetEventCategoryActive(e) ==
    /\ Alive /\ ready
    /\ crashed' = "SetEventCategoryActive"
    /\ UNCHANGED <<registered, module, startTime, finalTime, ready, playerVars, handlers>>

-----------------------------------------------------------------------------
(* The player.                                                             *)

\* NewPlayer: UId 0, no channel; the GamePlay package's also embeds
\* NewGamePlay(), the other's FriendSystem and PrivateChat stay nil.
NewPlayer(p) ==
    /\ Alive /\ player[p] = "none"
    /\ player' = [player EXCEPT ![p] = [uid |-> 0, ch |-> Nil,
                                        gamePlay |-> p \in GamePlayPlayers,
                                        running |-> FALSE, loaded |-> FALSE]]
    /\ UNCHANGED <<rankVars, sending, handled, handlers>>

\* Start: the receive loop begins (the `for`); it never returns.
Start(p) ==
    /\ Alive /\ player[p] # "none" /\ ~player[p].running
    /\ player' = [player EXCEPT ![p].running = TRUE]
    /\ UNCHANGED <<rankVars, sending, handled, handlers>>

\* A session goroutine begins `p.HandlerParamCh <- msg`.
Send(p, msg) ==
    /\ Alive /\ player[p] # "none" /\ sending[p] = Nil
    /\ sending' = [sending EXCEPT ![p] = msg]
    /\ UNCHANGED <<rankVars, player, handled, handlers>>

\* One turn of the select: the unbuffered channel hands the message over
\* and the loop calls p.Handler with it.  A nil channel never does.
Receive(p) ==
    /\ Alive /\ player[p] # "none" /\ player[p].running
    /\ player[p].ch # Nil /\ sending[p] # Nil
    /\ Len(handled[p]) < MaxHandled
    /\ handled' = [handled EXCEPT ![p] = Append(@, sending[p])]
    /\ sending' = [sending EXCEPT ![p] = Nil]
    /\ UNCHANGED <<rankVars, player, handlers>>

\* OnLogin: the GamePlay package's loads the task data from the database;
\* the other package's body is only comments.
OnLogin(p) ==
    /\ Alive /\ player[p] # "none"
    /\ player' = [player EXCEPT ![p].loaded = player[p].gamePlay]
    /\ UNCHANGED <<rankVars, sending, handled, handlers>>

\* Stop and OnLogout have empty bodies.
StopOrLogout(p) ==
    /\ Alive /\ player[p] # "none"
    /\ UNCHANGED vars

-----------------------------------------------------------------------------
(* The client.                                                             *)

\* MessageHandlerRegister: one handler per SC response id.
MessageHandlerRegister ==
    /\ Alive
    /\ handlers' = handlers \cup ResponseIds
    /\ UNCHANGED <<rankVars, playerVars>>

-----------------------------------------------------------------------------
Next ==
    \/ RegisterModule \/ ModuleInit \/ MessageHandlerRegister
    \/ \E r \in RankIds : \/ \E s \in SortTypes : GetRank(r, s)
                          \/ GetZCard(r) \/ ClearOrSave(r)
    \/ \E e \in Events : OnEvent(e) \/ SetEventCategoryActive(e)
    \/ \E p \in Players : \/ NewPlayer(p) \/ Start(p) \/ Receive(p)
                          \/ OnLogin(p) \/ StopOrLogout(p)
                          \/ \E m \in Messages : Send(p, m)

Spec == Init /\ [][Next]_vars

=============================================================================
