------------------------------ MODULE Presence ------------------------------
(***************************************************************************)
(* Who is connected and who is shown online: the connection handlers of    *)
(* src/websocket with sign-in and sign-out of src/auth and the session an  *)
(* agent opens himself (src/session).                                      *)
(*                                                                         *)
(* The gateway keeps two Maps and a gauge in memory and User.isOnline in   *)
(* the database.  A socket may close while the handler of its connection   *)
(* still waits for the database, and a user may have several sockets.      *)
(***************************************************************************)
EXTENDS Integers, FiniteSets

CONSTANTS
    Sockets,
    Staff,        (* agents and administrators                             *)
    Members,      (* users that are neither                                *)
    Guest         (* a socket without a token                              *)

ASSUME PresenceAssumption == Staff \cap Members = {} /\ Guest \notin Staff \cup Members

People == Staff \cup Members

VARIABLES
    sockets,   (* the sockets and how far their two handlers have come     *)
    online,    (* User.isOnline                                            *)
    gauge,     (* wsConnectionsGauge                                       *)
    excused    (* history: online for another reason than a connection     *)

presenceVars == <<sockets, online, gauge, excused>>

(* noted: in connectedClients with its user; typed: with a clientType;     *)
(* joined: in playerSessions; late: a handler was overtaken.               *)
NewSocket == [user |-> Guest, connecting |-> "none", leaving |-> "none",
              noted |-> FALSE, typed |-> FALSE, joined |-> FALSE, late |-> FALSE]

PresenceTypeOK ==
    /\ sockets \in [Sockets -> [user : People \cup {Guest},
                                connecting : {"none", "verify", "mark", "done"},
                                leaving : {"none", "lookup", "unmark", "done"},
                                noted : BOOLEAN, typed : BOOLEAN,
                                joined : BOOLEAN, late : BOOLEAN]]
    /\ online \in [People -> BOOLEAN] /\ excused \in [People -> BOOLEAN]
    /\ gauge \in Int

PresenceInit ==
    /\ sockets = [s \in Sockets |-> NewSocket]
    /\ online = [p \in People |-> FALSE]
    /\ excused = [p \in People |-> FALSE]
    /\ gauge = 0

Known(s) == sockets[s].noted /\ sockets[s].user # Guest
Alive(s) == sockets[s].connecting # "none" /\ sockets[s].leaving = "none"

Mark(p, shown, reason) ==
    /\ online' = [online EXCEPT ![p] = shown]
    /\ excused' = [excused EXCEPT ![p] = reason]
-----------------------------------------------------------------------------
(* handleConnection: with a token that verifies the user is looked up.     *)
Connect(s) ==
    /\ sockets[s].connecting = "none"
    /\ \E user \in People \cup {Guest} :
          sockets' = [sockets EXCEPT ![s].user = user,
              ![s].connecting = IF user = Guest THEN "done" ELSE "verify",
              ![s].noted = (user = Guest)]
    /\ UNCHANGED <<online, gauge, excused>>

(* A token that is not valid, a user deleted or an error: the socket stays *)
(* and is not noted.                                                       *)
UserFound(s) ==
    /\ sockets[s].connecting = "verify"
    /\ \/ sockets' = [sockets EXCEPT ![s].noted = TRUE,
              ![s].late = @ \/ sockets[s].leaving # "none",
              ![s].connecting = IF sockets[s].user \in Staff THEN "mark" ELSE "done"]
       \/ sockets' = [sockets EXCEPT ![s].connecting = "done"]
    /\ UNCHANGED <<online, gauge, excused>>

MarkOnline(s) ==
    /\ sockets[s].connecting = "mark"
    /\ sockets' = [sockets EXCEPT ![s].connecting = "done"]
    /\ \/ Mark(sockets[s].user, TRUE, sockets[s].leaving # "none")
       \/ UNCHANGED <<online, excused>>
    /\ UNCHANGED gauge

(* handlePlayerMessage, handleAgentMessage: the first message tells what   *)
(* kind of client it is.                                                   *)
FirstMessage(s) ==
    /\ Alive(s) /\ sockets[s].noted /\ ~sockets[s].typed
    /\ sockets' = [sockets EXCEPT ![s].typed = TRUE]
    /\ gauge' = gauge + 1
    /\ UNCHANGED <<online, excused>>

(* handleJoinSession: a client without a known user is taken for a player, *)
(* also when its user is only not known yet.                               *)
JoinSession(s) ==
    /\ Alive(s) /\ ~Known(s)
    /\ sockets' = [sockets EXCEPT ![s].joined = TRUE,
                                  ![s].late = @ \/ sockets[s].user # Guest]
    /\ UNCHANGED <<online, gauge, excused>>

(* handleDisconnect                                                        *)
Disconnect(s) ==
    /\ Alive(s)
    /\ gauge' = IF sockets[s].noted /\ sockets[s].typed THEN gauge - 1 ELSE gauge
    /\ sockets' = [sockets EXCEPT
          ![s].leaving = IF Known(s) THEN "lookup" ELSE "done",
          ![s].noted = Known(s),
          ![s].joined = @ /\ Known(s)]
    /\ UNCHANGED <<online, excused>>

(* The role is only looked up for the announcement; an error is caught.    *)
RoleFound(s) ==
    /\ sockets[s].leaving = "lookup"
    /\ sockets' = [sockets EXCEPT ![s].leaving = "unmark"]
    /\ UNCHANGED <<online, gauge, excused>>

(* Mutant: only the last socket of a user, by a Map entry that is still    *)
(* there, takes him offline.                                               *)
MarkOfflineOnceGone(s) ==
    /\ sockets[s].leaving = "unmark"
    /\ sockets' = [sockets EXCEPT ![s].leaving = "done", ![s].noted = FALSE]
    /\ IF \E r \in Sockets : Known(r) /\ sockets[r].user = sockets[s].user
       THEN UNCHANGED <<online, excused>>
       ELSE Mark(sockets[s].user, FALSE, FALSE)
    /\ UNCHANGED gauge

(* An error of the update is swallowed: the user stays online.             *)
MarkOffline(s) ==
    /\ sockets[s].leaving = "unmark"
    /\ sockets' = [sockets EXCEPT ![s].leaving = "done", ![s].noted = FALSE]
    /\ \/ Mark(sockets[s].user, FALSE, FALSE)
       \/ UNCHANGED online /\ excused' = [excused EXCEPT ![sockets[s].user] = TRUE]
    /\ UNCHANGED gauge

(* login, and an agent who opens a session from a ticket.                  *)
SignIn(p) ==
    /\ Mark(p, TRUE, TRUE)
    /\ UNCHANGED <<sockets, gauge>>

SignOut(p) ==
    /\ Mark(p, FALSE, FALSE)
    /\ UNCHANGED <<sockets, gauge>>

(* The process restarts: its memory is lost and isOnline is as it was.     *)
RestartGateway ==
    /\ \E s \in Sockets : Alive(s)
    /\ sockets' = [s \in Sockets |-> IF sockets[s].connecting = "none" THEN NewSocket
          ELSE [NewSocket EXCEPT !.user = sockets[s].user, !.connecting = "done",
                                 !.leaving = "done"]]
    /\ gauge' = 0
    /\ excused' = online
    /\ UNCHANGED online

Socket(s) ==
    \/ Connect(s) \/ UserFound(s) \/ MarkOnline(s) \/ FirstMessage(s) \/ JoinSession(s)
    \/ Disconnect(s) \/ RoleFound(s) \/ MarkOffline(s)

PresenceNext ==
    \/ \E s \in Sockets : Socket(s)
    \/ \E p \in People : SignIn(p) \/ SignOut(p)
    \/ RestartGateway

PresenceSpec == PresenceInit /\ [][PresenceNext]_presenceVars
-----------------------------------------------------------------------------
(* The books of the gateway follow the connections.  Nobody is shown       *)
(* online for nothing: he is connected, his sockets are being taken off,   *)
(* or he signed in since, a restart or an error kept the flag, or a        *)
(* connection was noted after it had closed.  The gauge counts the clients *)
(* that sent a message and are there; a Map forgets a client that left,    *)
(* but for one whose two handlers overlapped or that joined a session      *)
(* before it was known (handleConnection, handleDisconnect).               *)
OnlineIsExplained ==
    /\ \A p \in People : online[p] =>
          \/ excused[p]
          \/ \E s \in Sockets : /\ sockets[s].user = p /\ sockets[s].connecting # "none"
                                /\ sockets[s].leaving # "done"
    /\ gauge = Cardinality({s \in Sockets : Alive(s) /\ sockets[s].typed})
    /\ \A s \in Sockets : sockets[s].leaving = "done" /\ ~sockets[s].late =>
          ~sockets[s].noted /\ ~sockets[s].joined
=============================================================================
