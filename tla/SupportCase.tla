---------------------------- MODULE SupportCase ----------------------------
(***************************************************************************)
(* What the ticket desk promises its users, with no handlers, snapshots,   *)
(* faults or clocks: sessions are opened, talked in and closed, tickets    *)
(* change status, each in one step.  SessionTicket implements this.        *)
(***************************************************************************)
CONSTANTS Tickets, Sessions, Agents, Admins, NoOne, NoTicket

VARIABLES tStatus, tClosedAt, sStatus, sTicket, sAgent, library, spoke

ticketVars  == <<tStatus, tClosedAt>>
sessionVars == <<sStatus, sTicket, sAgent, library>>
vars == <<ticketVars, sessionVars, spoke>>

Staff == Agents \cup Admins

Init ==
    /\ tStatus \in [Tickets -> {"NONE", "WAITING", "IN_PROGRESS"}]
    /\ tClosedAt = [t \in Tickets |-> FALSE]
    /\ sStatus \in [Sessions -> {"NONE", "QUEUED"}]
    /\ sTicket \in [Sessions -> Tickets \cup {NoTicket}]
    /\ sAgent \in [Sessions -> Staff \cup {NoOne}]
    /\ library \in [Sessions -> {"none", "off", "on"}]
    /\ spoke = {}

(* A ticket is created unresolved.  Later it takes any status, but it is   *)
(* RESOLVED only together with a closing stamp.                            *)
CreateTicket(t) ==
    /\ tStatus[t] = "NONE"
    /\ \E status \in {"WAITING", "IN_PROGRESS"} :
           tStatus' = [tStatus EXCEPT ![t] = status]
    /\ UNCHANGED <<tClosedAt, sessionVars, spoke>>

SetTicket(t, status, stamp) ==
    /\ tStatus[t] # "NONE"
    /\ status = "RESOLVED" => stamp
    /\ tStatus' = [tStatus EXCEPT ![t] = status]
    /\ tClosedAt' = [tClosedAt EXCEPT ![t] = stamp]
    /\ UNCHANGED <<sessionVars, spoke>>

(* A session is opened on an existing ticket, either for the AI (PENDING)  *)
(* or for a member of staff who owns it from then on.                      *)
OpenSession(s, t, agent) ==
    /\ sStatus[s] = "NONE"
    /\ tStatus[t] # "NONE"
    /\ sStatus' = [sStatus EXCEPT ![s] = IF agent = NoOne THEN "PENDING"
                                                          ELSE "IN_PROGRESS"]
    /\ sTicket' = [sTicket EXCEPT ![s] = t]
    /\ sAgent' = [sAgent EXCEPT ![s] = agent]
    /\ library' = [library EXCEPT ![s] = "none"]
    /\ UNCHANGED <<ticketVars, spoke>>

CloseSession(s) ==
    /\ sStatus[s] # "NONE"
    /\ sStatus' = [sStatus EXCEPT ![s] = "CLOSED"]
    /\ UNCHANGED <<ticketVars, sTicket, sAgent, library, spoke>>

(* A session is given a knowledge base, which is then on or off.           *)
SwitchLibrary(s, to) ==
    /\ sStatus[s] # "NONE"
    /\ to = "off" => library[s] # "none"
    /\ library' = [library EXCEPT ![s] = to]
    /\ UNCHANGED <<ticketVars, sStatus, sTicket, sAgent, spoke>>

(* Agents speak in their own sessions only; the AI speaks unasked only     *)
(* where no one owns the session; and a knowledge base ("LIBRARY") answers *)
(* only in a session that was given it and in which a question was asked.  *)
Speak(s, sender) ==
    /\ sStatus[s] # "NONE"
    /\ sender \in Agents => sAgent[s] = sender
    /\ sender = "AI" => sAgent[s] = NoOne
    /\ sender = "LIBRARY" => library[s] # "none" /\ <<s, "PLAYER">> \in spoke
    /\ spoke' = spoke \cup {<<s, sender>>}
    /\ UNCHANGED <<ticketVars, sessionVars>>

Next ==
    \/ \E t \in Tickets : CreateTicket(t)
    \/ \E t \in Tickets, status \in {"WAITING", "IN_PROGRESS", "RESOLVED"},
          stamp \in BOOLEAN : SetTicket(t, status, stamp)
    \/ \E s \in Sessions, t \in Tickets, agent \in Staff \cup {NoOne} :
          OpenSession(s, t, agent)
    \/ \E s \in Sessions : CloseSession(s)
    \/ \E s \in Sessions, sender \in {"PLAYER", "AI", "LIBRARY"} \cup Staff :
          Speak(s, sender)
    \/ \E s \in Sessions, to \in {"on", "off"} : SwitchLibrary(s, to)

Spec == Init /\ [][Next]_vars
=============================================================================
