--------------------------- MODULE SessionTicket ---------------------------
(***************************************************************************)
(* The life of support tickets and of the chat sessions opened on them:    *)
(* src/session, src/ticket, src/ticket-message, src/satisfaction and the   *)
(* message handlers of the WebSocket gateway.                              *)
(*                                                                         *)
(* Two things speak with senderType AI, and the model keeps them apart:    *)
(* "AI" is what speaks unasked (the welcome and processAIReply), "LIBRARY" *)
(* the answer of handleRagQuery to a query somebody put to the knowledge   *)
(* base of the session.                                                    *)
(*                                                                         *)
(* Everything lives in one PostgreSQL database and one Node process.  A    *)
(* request handler is a chain of awaited calls: each call is atomic, and   *)
(* any other handler may run between two of them.  A worker is one handler *)
(* in flight; its record keeps the next call and what the handler read     *)
(* from the database earlier, however old that has become.                 *)
(***************************************************************************)
EXTENDS Naturals

CONSTANTS
    Tickets,    (* tickets                                                 *)
    Sessions,   (* session identifiers, used or not                        *)
    Agents,     (* staff with role AGENT                                   *)
    Admins,     (* staff with role ADMIN                                   *)
    Workers,    (* handlers that may be in flight at the same time         *)
    Legacy,     (* sessions that may be QUEUED in the database already: no *)
                (* handler of this version queues one, all expect some     *)
    NoOne,      (* agentId null                                            *)
    NoTicket, NoSession,
    StaleDays,  (* days without an update after which a ticket is stale    *)
    MaxFaults,  (* bound on failing database calls                         *)
    MaxCrashes, (* bound on process restarts                               *)
    Traffic     (* kinds of event an instance receives, to bound TLC's     *)
                (* runs; the theorems hold for every subset of AllTraffic  *)

Staff   == Agents \cup Admins
Senders == {"PLAYER", "AI", "LIBRARY"} \cup Staff
AllTraffic == {"create", "player", "direct", "agent", "close", "rate", "join",
               "token", "reply", "status", "time", "rag"}

ASSUME ConstantsAssumption ==
    /\ Legacy \subseteq Sessions
    /\ NoOne \notin Senders
    /\ NoTicket \notin Tickets
    /\ NoSession \notin Sessions
    /\ "PLAYER" \notin Staff
    /\ "AI" \notin Staff
    /\ "LIBRARY" \notin Staff
    /\ Agents \cap Admins = {}
    /\ StaleDays \in Nat \ {0}
    /\ MaxFaults \in Nat
    /\ MaxCrashes \in Nat
    /\ Traffic \subseteq AllTraffic

VARIABLES
    tStatus,    (* Ticket.status, "NONE" before the ticket is created      *)
    tClosedAt,  (* is Ticket.closedAt set                                  *)
    idle,       (* whole days since Ticket.updatedAt, up to StaleDays      *)
    sStatus,    (* Session.status, "NONE" before the session is created    *)
    sTicket,    (* Session.ticketId                                        *)
    sAgent,     (* Session.agentId                                         *)
    library,    (* Session.kbId and ragEnabled: "none" while kbId is null, *)
                (* then "on" or "off"                                      *)
    rated,      (* sessions with a SatisfactionRating row                  *)
    spoke,      (* who has a row in Message: pairs <<session, sender>>     *)
    notices,    (* "session ended" system messages per session             *)
    req,        (* the handler of each worker                              *)
    cron,       (* stale tickets the hourly job has read but not resolved  *)
    faults, crashes,
    excused,    (* history: tickets written open, or whose closing handler *)
                (* died, since a session of theirs was last closed         *)
    unanswered  (* history: handlers that owe the player an AI answer      *)

ticketVars  == <<tStatus, tClosedAt, idle>>
sessionVars == <<sStatus, sTicket, sAgent, library>>
chatVars    == <<rated, spoke, notices>>
faultVars   == <<faults, crashes>>
vars == <<ticketVars, sessionVars, chatVars, req, cron, faultVars,
          excused, unanswered>>

TicketStatus  == {"WAITING", "IN_PROGRESS", "RESOLVED"}
SessionStatus == {"PENDING", "QUEUED", "IN_PROGRESS", "CLOSED"}

PCs == {"idle", "create_insert", "welcome",
        "player_insert", "player_insert_ai",
        "ai_read", "ai_call", "ai_insert", "ai_fallback", "ai_last",
        "agent_insert", "agent_ticket",
        "close_update", "close_notice", "check_read", "check_write",
        "rate_insert", "join_insert", "join_ticket",
        "token_find", "token_insert",
        "rag_player", "rag_query", "rag_insert", "rag_error"}

LibraryStates == {"none", "off", "on"}

Request == [pc : PCs,
            t  : Tickets \cup {NoTicket},
            s  : Sessions \cup {NoSession},
            by : Staff \cup {NoOne}]

IdleReq == [pc |-> "idle", t |-> NoTicket, s |-> NoSession, by |-> NoOne]

TypeOK ==
    /\ tStatus \in [Tickets -> TicketStatus \cup {"NONE"}]
    /\ tClosedAt \in [Tickets -> BOOLEAN]
    /\ idle \in [Tickets -> 0..StaleDays]
    /\ sStatus \in [Sessions -> SessionStatus \cup {"NONE"}]
    /\ sTicket \in [Sessions -> Tickets \cup {NoTicket}]
    /\ sAgent \in [Sessions -> Staff \cup {NoOne}]
    /\ library \in [Sessions -> LibraryStates]
    /\ rated \in SUBSET Sessions
    /\ spoke \in SUBSET (Sessions \X Senders)
    /\ notices \in [Sessions -> Nat]
    /\ req \in [Workers -> Request]
    /\ cron \in SUBSET Tickets
    /\ faults \in 0..MaxFaults
    /\ crashes \in 0..MaxCrashes
    /\ excused \in SUBSET Tickets
    /\ unanswered \in SUBSET Workers
-----------------------------------------------------------------------------
Exists(s)   == sStatus[s] # "NONE"
Live(s)     == Exists(s) /\ sStatus[s] # "CLOSED"
Of(t)       == {s \in Sessions : Exists(s) /\ sTicket[s] = t}
AllClosed(t) == \A s \in Of(t) : sStatus[s] = "CLOSED"
Open(t)     == tStatus[t] \in {"WAITING", "IN_PROGRESS"}

At(w, pc)   == req[w].pc = pc
Goto(w, pc) == req' = [req EXCEPT ![w].pc = pc]
Done(w)     == req' = [req EXCEPT ![w] = IdleReq]
Begin(w, pc, t, s, by) ==
    /\ At(w, "idle")
    /\ req' = [req EXCEPT ![w] = [pc |-> pc, t |-> t, s |-> s, by |-> by]]

(* A write of Ticket.status: closedAt is what the caller says, updatedAt   *)
(* is now, and a write that opens the ticket excuses it from being closed. *)
WriteTicket(t, status, closedAt) ==
    /\ tStatus' = [tStatus EXCEPT ![t] = status]
    /\ tClosedAt' = [tClosedAt EXCEPT ![t] = closedAt]
    /\ idle' = [idle EXCEPT ![t] = 0]
    /\ excused' = IF status = "RESOLVED" THEN excused ELSE excused \cup {t}

(* A row of Message.                                                       *)
Say(s, sender) ==
    /\ spoke' = spoke \cup {<<s, sender>>}
    /\ UNCHANGED <<rated, notices>>

(* A new row of Session.                                                   *)
Insert(s, t, status, agent) ==
    /\ sStatus[s] = "NONE"
    /\ sStatus' = [sStatus EXCEPT ![s] = status]
    /\ sTicket' = [sTicket EXCEPT ![s] = t]
    /\ sAgent' = [sAgent EXCEPT ![s] = agent]
    /\ library' = [library EXCEPT ![s] = "none"]

Init ==
    /\ tStatus \in [Tickets -> {"NONE", "WAITING", "IN_PROGRESS"}]
    /\ tClosedAt = [t \in Tickets |-> FALSE]
    /\ idle = [t \in Tickets |-> 0]
    /\ \E kept \in SUBSET Legacy :
          sStatus = [s \in Sessions |-> IF s \in kept THEN "QUEUED" ELSE "NONE"]
    /\ sTicket \in [Sessions -> Tickets \cup {NoTicket}]
    /\ sAgent \in [Sessions -> Staff \cup {NoOne}]
    /\ library \in [Sessions -> LibraryStates]
    /\ \A s \in Sessions :
          IF Exists(s) THEN sTicket[s] # NoTicket /\ tStatus[sTicket[s]] # "NONE"
          ELSE sTicket[s] = NoTicket /\ sAgent[s] = NoOne /\ library[s] = "none"
    /\ \A t \in Tickets : tStatus[t] # "NONE" => Of(t) # {}
    /\ rated = {}
    /\ spoke = {}
    /\ notices = [s \in Sessions |-> 0]
    /\ req = [w \in Workers |-> IdleReq]
    /\ cron = {}
    /\ faults = 0
    /\ crashes = 0
    /\ excused = {}
    /\ unanswered = {}
-----------------------------------------------------------------------------
(* TicketService.create: WAITING when an issue type requires a direct      *)
(* transfer to staff, IN_PROGRESS (the AI answers first) otherwise.        *)
CreateTicket(t) ==
    /\ tStatus[t] = "NONE"
    /\ \E status \in {"WAITING", "IN_PROGRESS"} :
           tStatus' = [tStatus EXCEPT ![t] = status]
    /\ UNCHANGED <<tClosedAt, idle, sessionVars, chatVars, req, cron,
                   faultVars, excused, unanswered>>

(* SessionService.create looks for a session that is not CLOSED and        *)
(* returns it; only without one does it go on to insert.                   *)
CreateCheck(w, t) ==
    /\ tStatus[t] # "NONE"
    /\ AllClosed(t)
    /\ Begin(w, "create_insert", t, NoSession, NoOne)
    /\ UNCHANGED <<ticketVars, sessionVars, chatVars, cron, faultVars,
                   excused, unanswered>>

CreateInsert(w) ==
    /\ At(w, "create_insert")
    /\ \E s \in Sessions :
          /\ Insert(s, req[w].t, "PENDING", NoOne)
          /\ req' = [req EXCEPT ![w].pc = "welcome", ![w].s = s]
    /\ UNCHANGED <<ticketVars, chatVars, cron, faultVars, excused, unanswered>>

(* The detached sendWelcomeMessage of the new session.                     *)
Welcome(w) ==
    /\ At(w, "welcome")
    /\ Say(req[w].s, "AI")
    /\ Done(w)
    /\ UNCHANGED <<ticketVars, sessionVars, cron, faultVars, excused, unanswered>>
-----------------------------------------------------------------------------
(* SessionService.handlePlayerMessage: refused for a CLOSED session or a   *)
(* RESOLVED ticket, both as read here.  The same read decides whether the  *)
(* AI will be asked: only for text, and not when queued or taken by staff. *)
PlayerCheck(w, s, text) ==
    /\ Live(s)
    /\ tStatus[sTicket[s]] # "RESOLVED"
    /\ LET taken == sStatus[s] = "IN_PROGRESS" /\ sAgent[s] # NoOne
           askAI == text /\ ~taken /\ sStatus[s] # "QUEUED"
       IN  Begin(w, IF askAI THEN "player_insert_ai" ELSE "player_insert",
                 NoTicket, s, NoOne)
    /\ UNCHANGED <<ticketVars, sessionVars, chatVars, cron, faultVars,
                   excused, unanswered>>

PlayerInsert(w) ==
    /\ \/ /\ At(w, "player_insert_ai")
          /\ Goto(w, "ai_read")
          /\ unanswered' = unanswered \cup {w}
       \/ /\ At(w, "player_insert")
          /\ Done(w)
          /\ UNCHANGED unanswered
    /\ Say(req[w].s, "PLAYER")
    /\ UNCHANGED <<ticketVars, sessionVars, cron, faultVars, excused>>

(* The gateway's 'send-message' and the public POST of messages: one       *)
(* insert, whatever the state of the session and its ticket.               *)
DirectPlayerMessage(s) ==
    /\ Exists(s)
    /\ Say(s, "PLAYER")
    /\ UNCHANGED <<ticketVars, sessionVars, req, cron, faultVars, excused,
                   unanswered>>

(* processAIReply reads the session again and is silent when it is CLOSED, *)
(* QUEUED or has an agent.  Without an API key it greets at once: like the *)
(* fallback, a single insert whose failure leads to the outer handler.     *)
AiRead(w) ==
    /\ At(w, "ai_read")
    /\ LET s == req[w].s IN
       IF sStatus[s] \in {"CLOSED", "QUEUED"} \/ sAgent[s] # NoOne
       THEN Done(w) /\ unanswered' = unanswered \ {w}
       ELSE /\ \E next \in {"ai_call", "ai_fallback"} : Goto(w, next)
            /\ UNCHANGED unanswered
    /\ UNCHANGED <<ticketVars, sessionVars, chatVars, cron, faultVars, excused>>

(* The model answers, or the call fails or times out after 30 s.           *)
AiCall(w) ==
    /\ At(w, "ai_call")
    /\ \E next \in {"ai_insert", "ai_fallback"} : Goto(w, next)
    /\ UNCHANGED <<ticketVars, sessionVars, chatVars, cron, faultVars,
                   excused, unanswered>>

(* The answer, or one of the two apologies, is stored; nothing is re-read. *)
AiInsert(w) ==
    /\ req[w].pc \in {"ai_insert", "ai_fallback", "ai_last"}
    /\ Say(req[w].s, "AI")
    /\ unanswered' = unanswered \ {w}
    /\ Done(w)
    /\ UNCHANGED <<ticketVars, sessionVars, cron, faultVars, excused>>
-----------------------------------------------------------------------------
(* Mutant: an AGENT need not own the session.                              *)
AgentCheckAnyOwner(w, by, s) ==
    /\ Exists(s)
    /\ by \in Agents => sStatus[s] = "IN_PROGRESS"
    /\ Begin(w, "agent_insert", sTicket[s], s, by)
    /\ UNCHANGED <<ticketVars, sessionVars, chatVars, cron, faultVars,
                   excused, unanswered>>

(* The gateway's handleAgentMessage.  An AGENT must own the session and    *)
(* the session must be IN_PROGRESS; an ADMIN is not checked.  The handler  *)
(* checks twice (itself, then MessageService.create) and inserts last: the *)
(* second read implies the first, so one action stands for both.           *)
AgentCheck(w, by, s) ==
    /\ Exists(s)
    /\ by \in Agents => sAgent[s] = by /\ sStatus[s] = "IN_PROGRESS"
    /\ Begin(w, "agent_insert", sTicket[s], s, by)
    /\ UNCHANGED <<ticketVars, sessionVars, chatVars, cron, faultVars,
                   excused, unanswered>>

AgentInsert(w) ==
    /\ At(w, "agent_insert")
    /\ Say(req[w].s, req[w].by)
    /\ Goto(w, "agent_ticket")
    /\ UNCHANGED <<ticketVars, sessionVars, cron, faultVars, excused, unanswered>>

(* The copy of the message on the ticket: status IN_PROGRESS whatever it   *)
(* was, closedAt left alone.                                               *)
AgentTicket(w) ==
    /\ At(w, "agent_ticket")
    /\ WriteTicket(req[w].t, "IN_PROGRESS", tClosedAt[req[w].t])
    /\ Done(w)
    /\ UNCHANGED <<sessionVars, chatVars, cron, faultVars, unanswered>>
-----------------------------------------------------------------------------
(* Mutant: the end is announced before the session is updated.             *)
CloseCheckNoticeFirst(w, s) ==
    /\ Live(s)
    /\ Begin(w, "close_notice", sTicket[s], s, NoOne)
    /\ UNCHANGED <<ticketVars, sessionVars, chatVars, cron, faultVars,
                   excused, unanswered>>

(* SessionService.performCloseSession, for staff and players alike.  It    *)
(* returns at once when the session it reads is already CLOSED.            *)
CloseCheck(w, s) ==
    /\ Live(s)
    /\ Begin(w, "close_update", sTicket[s], s, NoOne)
    /\ UNCHANGED <<ticketVars, sessionVars, chatVars, cron, faultVars,
                   excused, unanswered>>

(* Mutant: the ticket's sessions are read before this one is closed.       *)
CloseUpdateChecksFirst(w) ==
    /\ At(w, "close_update")
    /\ sStatus' = [sStatus EXCEPT ![req[w].s] = "CLOSED"]
    /\ excused' = excused \ {req[w].t}
    /\ IF AllClosed(req[w].t) THEN Goto(w, "check_write") ELSE Done(w)
    /\ UNCHANGED <<ticketVars, sTicket, sAgent, library, chatVars, cron, faultVars,
                   unanswered>>

CloseUpdate(w) ==
    /\ At(w, "close_update")
    /\ sStatus' = [sStatus EXCEPT ![req[w].s] = "CLOSED"]
    /\ excused' = excused \ {req[w].t}
    /\ Goto(w, "close_notice")
    /\ UNCHANGED <<ticketVars, sTicket, sAgent, library, chatVars, cron, faultVars,
                   unanswered>>

(* The system message; then the session leaves the Redis queues, which is  *)
(* the subject of SessionQueue.                                            *)
CloseNotice(w) ==
    /\ At(w, "close_notice")
    /\ notices' = [notices EXCEPT ![req[w].s] = @ + 1]
    /\ Goto(w, "check_read")
    /\ UNCHANGED <<ticketVars, sessionVars, rated, spoke, cron, faultVars,
                   excused, unanswered>>

(* TicketService.checkAndUpdateTicketStatus: all sessions are read first,  *)
(* and the ticket is RESOLVED in a later call if all of them were CLOSED.  *)
CheckRead(w) ==
    /\ At(w, "check_read")
    /\ IF AllClosed(req[w].t) THEN Goto(w, "check_write") ELSE Done(w)
    /\ UNCHANGED <<ticketVars, sessionVars, chatVars, cron, faultVars,
                   excused, unanswered>>

CheckWrite(w) ==
    /\ At(w, "check_write")
    /\ WriteTicket(req[w].t, "RESOLVED", TRUE)
    /\ Done(w)
    /\ UNCHANGED <<sessionVars, chatVars, cron, faultVars, unanswered>>

(* SatisfactionService.create: a CLOSED session is rated once (the column  *)
(* is unique), after which the ticket is checked again.                    *)
RateCheck(w, s) ==
    /\ sStatus[s] = "CLOSED"
    /\ s \notin rated
    /\ Begin(w, "rate_insert", sTicket[s], s, NoOne)
    /\ UNCHANGED <<ticketVars, sessionVars, chatVars, cron, faultVars,
                   excused, unanswered>>

RateInsert(w) ==
    /\ At(w, "rate_insert")
    /\ IF req[w].s \in rated THEN Done(w) ELSE Goto(w, "check_read")
    /\ rated' = rated \cup {req[w].s}
    /\ UNCHANGED <<ticketVars, sessionVars, spoke, notices, cron, faultVars,
                   excused, unanswered>>
-----------------------------------------------------------------------------
(* SessionService.joinSessionByTicketId.  With any session on the ticket   *)
(* it ends in joinSession, which refuses ("not implemented"); with none it *)
(* inserts one owned by the caller.  Sessions are never deleted, so the    *)
(* two reads (ticket, sessions) are one action.                            *)
JoinCheck(w, by, t) ==
    /\ Open(t)
    /\ Of(t) = {}
    /\ Begin(w, "join_insert", t, NoSession, by)
    /\ UNCHANGED <<ticketVars, sessionVars, chatVars, cron, faultVars,
                   excused, unanswered>>

(* Mutant: a session that appeared since the check is taken over.          *)
JoinInsertTakesOver(w) ==
    /\ At(w, "join_insert")
    /\ \E s \in Sessions :
          /\ IF Of(req[w].t) = {} THEN sStatus[s] = "NONE" ELSE s \in Of(req[w].t)
          /\ sStatus' = [sStatus EXCEPT ![s] = "IN_PROGRESS"]
          /\ sTicket' = [sTicket EXCEPT ![s] = req[w].t]
          /\ sAgent' = [sAgent EXCEPT ![s] = req[w].by]
          /\ UNCHANGED library
          /\ req' = [req EXCEPT ![w].pc = "join_ticket", ![w].s = s]
    /\ UNCHANGED <<ticketVars, chatVars, cron, faultVars, excused, unanswered>>

JoinInsert(w) ==
    /\ At(w, "join_insert")
    /\ \E s \in Sessions :
          /\ Insert(s, req[w].t, "IN_PROGRESS", req[w].by)
          /\ req' = [req EXCEPT ![w].pc = "join_ticket", ![w].s = s]
    /\ UNCHANGED <<ticketVars, chatVars, cron, faultVars, excused, unanswered>>

JoinTicket(w) ==
    /\ At(w, "join_ticket")
    /\ WriteTicket(req[w].t, "IN_PROGRESS", FALSE)
    /\ Done(w)
    /\ UNCHANGED <<sessionVars, chatVars, cron, faultVars, unanswered>>
-----------------------------------------------------------------------------
(* TicketMessageService.create: staff answer on the ticket itself.         *)
TicketReply(t) ==
    /\ tStatus[t] # "NONE"
    /\ WriteTicket(t, "WAITING", tClosedAt[t])
    /\ UNCHANGED <<sessionVars, chatVars, req, cron, faultVars, unanswered>>

(* TicketService.sendMessageByToken: the player writes on the ticket.  The *)
(* status becomes WAITING, then the message is copied into a session that  *)
(* is QUEUED or IN_PROGRESS, if one is found.                              *)
TokenUpdate(w, t) ==
    /\ tStatus[t] # "NONE"
    /\ WriteTicket(t, "WAITING", tClosedAt[t])
    /\ Begin(w, "token_find", t, NoSession, NoOne)
    /\ UNCHANGED <<sessionVars, chatVars, cron, faultVars, unanswered>>

TokenFind(w) ==
    /\ At(w, "token_find")
    /\ LET found == {s \in Of(req[w].t) : sStatus[s] \in {"QUEUED", "IN_PROGRESS"}}
       IN  \/ /\ found = {}
              /\ Done(w)
           \/ \E s \in found :
                 req' = [req EXCEPT ![w].pc = "token_insert", ![w].s = s]
    /\ UNCHANGED <<ticketVars, sessionVars, chatVars, cron, faultVars,
                   excused, unanswered>>

TokenInsert(w) ==
    /\ At(w, "token_insert")
    /\ Say(req[w].s, "PLAYER")
    /\ Done(w)
    /\ UNCHANGED <<ticketVars, sessionVars, cron, faultVars, excused, unanswered>>

(* TicketService.updateStatus, called as such by staff and, with the       *)
(* ticket's token, by players; markAsResolved is the RESOLVED case.  The   *)
(* current status is not looked at.                                        *)
UpdateStatus(t, status) ==
    /\ tStatus[t] # "NONE"
    /\ WriteTicket(t, status, status = "RESOLVED")
    /\ UNCHANGED <<sessionVars, chatVars, req, cron, faultVars, unanswered>>

(* updatePriority only touches updatedAt, as far as this model goes.       *)
UpdatePriority(t) ==
    /\ tStatus[t] # "NONE"
    /\ idle' = [idle EXCEPT ![t] = 0]
    /\ UNCHANGED <<tStatus, tClosedAt, sessionVars, chatVars, req, cron,
                   faultVars, excused, unanswered>>
-----------------------------------------------------------------------------
(* SessionRagService.enableRag and disableRag: anybody signed in switches  *)
(* the knowledge base of any session on, giving it one, or off.            *)
SwitchLibrary(s, to) ==
    /\ Exists(s)
    /\ library' = [library EXCEPT ![s] = IF to = "off" /\ @ = "none" THEN "none" ELSE to]
    /\ UNCHANGED <<ticketVars, sStatus, sTicket, sAgent, chatVars, req, cron,
                   faultVars, excused, unanswered>>

(* SessionRagService.handleRagQuery: the session needs a knowledge base    *)
(* that is switched on.  Neither its status nor its agent is looked at,    *)
(* here or later.                                                          *)
RagCheck(w, s) ==
    /\ Exists(s)
    /\ library[s] = "on"
    /\ Begin(w, "rag_player", NoTicket, s, NoOne)
    /\ UNCHANGED <<ticketVars, sessionVars, chatVars, cron, faultVars,
                   excused, unanswered>>

(* The query is stored as a message of the player, whoever asks.           *)
RagPlayer(w) ==
    /\ At(w, "rag_player")
    /\ Say(req[w].s, "PLAYER")
    /\ Goto(w, "rag_query")
    /\ UNCHANGED <<ticketVars, sessionVars, cron, faultVars, excused, unanswered>>

(* Access, retrieval and model, any of which may refuse or fail.           *)
RagQuery(w) ==
    /\ At(w, "rag_query")
    /\ \E next \in {"rag_insert", "rag_error"} : Goto(w, next)
    /\ UNCHANGED <<ticketVars, sessionVars, chatVars, cron, faultVars,
                   excused, unanswered>>

RagInsert(w) ==
    /\ At(w, "rag_insert")
    /\ Say(req[w].s, "LIBRARY")
    /\ Done(w)
    /\ UNCHANGED <<ticketVars, sessionVars, cron, faultVars, excused, unanswered>>

(* A system message says that it failed (these are not counted in          *)
(* notices), and the request ends with the error.                          *)
RagError(w) ==
    /\ At(w, "rag_error")
    /\ Done(w)
    /\ UNCHANGED <<ticketVars, sessionVars, chatVars, cron, faultVars,
                   excused, unanswered>>
-----------------------------------------------------------------------------
TimePasses ==
    /\ idle' = [t \in Tickets |-> IF idle[t] < StaleDays THEN idle[t] + 1
                                                         ELSE idle[t]]
    /\ UNCHANGED <<tStatus, tClosedAt, sessionVars, chatVars, req, cron,
                   faultVars, excused, unanswered>>

Stale(t) == Open(t) /\ idle[t] = StaleDays

(* Mutant: tickets in progress are never stale.                            *)
CronReadWaitingOnly ==
    /\ cron = {}
    /\ cron' = {t \in Tickets : Stale(t) /\ tStatus[t] = "WAITING"}
    /\ UNCHANGED <<ticketVars, sessionVars, chatVars, req, faultVars, excused,
                   unanswered>>

(* Mutant: the job updates the status by itself and forgets closedAt.      *)
CronResolveUnstamped ==
    /\ \E t \in cron :
          /\ WriteTicket(t, "RESOLVED", tClosedAt[t])
          /\ cron' = cron \ {t}
    /\ UNCHANGED <<sessionVars, chatVars, req, faultVars, unanswered>>

(* The hourly checkStaleTickets reads the stale tickets once, then         *)
(* resolves them one by one without looking at them again.                 *)
CronRead ==
    /\ cron = {}
    /\ cron' = {t \in Tickets : Stale(t)}
    /\ UNCHANGED <<ticketVars, sessionVars, chatVars, req, faultVars, excused,
                   unanswered>>

CronResolve ==
    /\ \E t \in cron :
          /\ WriteTicket(t, "RESOLVED", TRUE)
          /\ cron' = cron \ {t}
    /\ UNCHANGED <<sessionVars, chatVars, req, faultVars, unanswered>>
-----------------------------------------------------------------------------
Closing == {"close_notice", "check_read", "check_write"}

(* Mutant: processAIReply without its outer catch.                         *)
AfterFaultNoOuterCatch(pc) ==
    CASE pc = "ai_insert"    -> "ai_fallback"
      [] pc = "close_notice" -> "check_read"
      [] pc = "rag_insert"   -> "rag_error"
      [] OTHER               -> "idle"

(* The next database call of a handler fails.  The AI reply falls back to  *)
(* an apology, twice; the system message of a close is only logged; the    *)
(* answer to a query turns into a message of its failure; in all other     *)
(* handlers the exception ends the request.                                *)
AfterFault(pc) ==
    CASE pc = "ai_insert"                    -> "ai_fallback"
      [] pc \in {"ai_read", "ai_fallback"}   -> "ai_last"
      [] pc = "close_notice"                 -> "check_read"
      [] pc = "rag_insert"                   -> "rag_error"
      [] OTHER                               -> "idle"

Fault(w) ==
    /\ faults < MaxFaults
    /\ req[w].pc \notin {"idle", "ai_call", "rag_query"}
    /\ faults' = faults + 1
    /\ LET next == AfterFault(req[w].pc)
       IN  /\ IF next = "idle" THEN Done(w) ELSE Goto(w, next)
           /\ excused' = IF next = "idle" /\ req[w].pc \in Closing
                         THEN excused \cup {req[w].t} ELSE excused
    /\ UNCHANGED <<ticketVars, sessionVars, chatVars, cron, crashes, unanswered>>

CronFault ==
    /\ faults < MaxFaults
    /\ cron # {}
    /\ cron' = {}
    /\ faults' = faults + 1
    /\ UNCHANGED <<ticketVars, sessionVars, chatVars, req, crashes, excused,
                   unanswered>>

(* The process restarts: what was in flight is forgotten.                  *)
Crash ==
    /\ crashes < MaxCrashes
    /\ crashes' = crashes + 1
    /\ req' = [w \in Workers |-> IdleReq]
    /\ cron' = {}
    /\ excused' = excused \cup {req[w].t : w \in {v \in Workers : req[v].pc \in Closing}}
    /\ unanswered' = {}
    /\ UNCHANGED <<ticketVars, sessionVars, chatVars, faults>>
-----------------------------------------------------------------------------
(* A new request arrives at an idle worker.                                *)
Arrive(w) ==
    \/ "create" \in Traffic /\ \E t \in Tickets : CreateCheck(w, t)
    \/ "token" \in Traffic /\ \E t \in Tickets : TokenUpdate(w, t)
    \/ "join" \in Traffic /\ \E t \in Tickets, by \in Staff : JoinCheck(w, by, t)
    \/ "close" \in Traffic /\ \E s \in Sessions : CloseCheck(w, s)
    \/ "rate" \in Traffic /\ \E s \in Sessions : RateCheck(w, s)
    \/ "player" \in Traffic /\ \E s \in Sessions, text \in BOOLEAN : PlayerCheck(w, s, text)
    \/ "agent" \in Traffic /\ \E s \in Sessions, by \in Staff : AgentCheck(w, by, s)
    \/ "rag" \in Traffic /\ \E s \in Sessions : RagCheck(w, s)

(* A handler in flight makes its next call.                                *)
Continue(w) ==
    \/ CreateInsert(w) \/ Welcome(w)
    \/ PlayerInsert(w) \/ AiRead(w) \/ AiCall(w) \/ AiInsert(w)
    \/ AgentInsert(w) \/ AgentTicket(w)
    \/ CloseUpdate(w) \/ CloseNotice(w) \/ CheckRead(w) \/ CheckWrite(w)
    \/ RateInsert(w) \/ JoinInsert(w) \/ JoinTicket(w)
    \/ TokenFind(w) \/ TokenInsert(w)
    \/ RagPlayer(w) \/ RagQuery(w) \/ RagInsert(w) \/ RagError(w)

(* Requests that are one call.                                             *)
OneCall ==
    \/ \E t \in Tickets : CreateTicket(t)
    \/ "reply" \in Traffic /\ \E t \in Tickets : TicketReply(t)
    \/ "status" \in Traffic /\ \E t \in Tickets, status \in TicketStatus : UpdateStatus(t, status)
    \/ "status" \in Traffic /\ \E t \in Tickets : UpdatePriority(t)
    \/ "direct" \in Traffic /\ \E s \in Sessions : DirectPlayerMessage(s)
    \/ "rag" \in Traffic /\ \E s \in Sessions, to \in {"on", "off"} : SwitchLibrary(s, to)

(* The clock and the hourly job.                                           *)
Clock ==
    /\ "time" \in Traffic
    /\ TimePasses \/ CronRead \/ CronResolve \/ CronFault

Next ==
    \/ \E w \in Workers : Arrive(w) \/ Continue(w) \/ Fault(w)
    \/ OneCall
    \/ Clock
    \/ Crash

Spec == Init /\ [][Next]_vars

(* The event loop resumes every handler whose call returned, and every     *)
(* call returns: queries succeed or throw and the calls of the AI and of   *)
(* the knowledge base (which do not stream) have timeouts.                 *)
(* The scheduler fires the cron job every hour and days go by.             *)
Fairness ==
    /\ \A w \in Workers : WF_vars(Continue(w))
    /\ WF_vars("time" \in Traffic /\ CronRead)
    /\ WF_vars("time" \in Traffic /\ CronResolve)
    /\ WF_vars("time" \in Traffic /\ TimePasses)

FairSpec == Spec /\ Fairness
-----------------------------------------------------------------------------
(* Staff with role AGENT are heard only in the sessions they own, although *)
(* handleAgentMessage inserts after an await: the owner it checked cannot  *)
(* have changed, because only the insert of a session sets agentId.        *)
AgentsSpeakInOwnSessions ==
    \A s \in Sessions, a \in Agents : <<s, a>> \in spoke => sAgent[s] = a

(* A session with an agent never hears the AI unasked, although            *)
(* processAIReply looks at agentId once and stores its answer up to 30     *)
(* seconds later: whoever owns a session owned it from its insert.  What   *)
(* the AI does say there answers a query: handleRagQuery looks at neither  *)
(* agent nor status, but it stores the query first, as a message of the    *)
(* player, and only in a session that has been given a knowledge base.     *)
TakenSessionsHearNoUnaskedAi ==
    \A s \in Sessions :
        /\ sAgent[s] # NoOne => <<s, "AI">> \notin spoke
        /\ <<s, "LIBRARY">> \in spoke => library[s] # "none" /\ <<s, "PLAYER">> \in spoke

(* The last session out resolves the ticket: when every session of a       *)
(* ticket is CLOSED, the ticket is RESOLVED, or a close or rating handler  *)
(* is still going to check it, or somebody wrote the ticket open (or that  *)
(* handler died) after the last close.  performCloseSession closes first   *)
(* and reads the sessions afterwards, so that of two sessions closed at    *)
(* the same time the later reader sees both closed.                        *)
NoLostResolution ==
    \A t \in Tickets :
        Of(t) # {} /\ AllClosed(t) =>
            \/ tStatus[t] = "RESOLVED"
            \/ t \in excused
            \/ \E w \in Workers : req[w].pc \in Closing /\ req[w].t = t

(* Every path that makes a ticket RESOLVED stamps closedAt, and no path    *)
(* that leaves it RESOLVED clears the stamp.                               *)
ResolvedIsStamped ==
    \A t \in Tickets : tStatus[t] = "RESOLVED" => tClosedAt[t]

(* The "session ended" message appears only in sessions that are CLOSED    *)
(* for good: the notice follows the update, and nothing reopens a session. *)
NoticeOnlyWhenClosed ==
    \A s \in Sessions : notices[s] > 0 => sStatus[s] = "CLOSED"

(* A session keeps its ticket and its agent for life and is never reopened *)
(* once CLOSED, whatever stale snapshot a handler still holds.             *)
SessionRowsAreStable ==
    [][\A s \in Sessions : Exists(s) =>
          /\ sTicket'[s] = sTicket[s]
          /\ sAgent'[s] = sAgent[s]
          /\ sStatus[s] = "CLOSED" => sStatus'[s] = "CLOSED"]_vars

(* A text that handlePlayerMessage accepted for the AI is answered, by the *)
(* model or by an apology, or the session was closed or taken meanwhile, or*)
(* the process restarted; one failing database call anywhere on the way    *)
(* does not change that.                                                   *)
QuestionsAreAnswered ==
    \A w \in Workers : w \in unanswered ~> w \notin unanswered

(* A ticket nobody touches for StaleDays is RESOLVED in the end, even when *)
(* the handler that should have done it, or one run of the cron, died.     *)
StaleTicketsAreResolved ==
    \A t \in Tickets : Stale(t) ~> ~Stale(t)
-----------------------------------------------------------------------------
(* Rows: every session is on a ticket that exists; the AI's sessions have  *)
(* no agent, those in progress have one.                                   *)
RowsOK ==
    \A s \in Sessions : Exists(s) =>
        /\ sTicket[s] \in Tickets
        /\ tStatus[sTicket[s]] # "NONE"
        /\ sStatus[s] = "PENDING" => sAgent[s] = NoOne
        /\ sStatus[s] = "IN_PROGRESS" => sAgent[s] # NoOne

OnSession == PCs \ {"idle", "create_insert", "join_insert", "token_find",
                    "check_read", "check_write", "join_ticket"}
OnTicket  == {"create_insert", "join_insert", "join_ticket", "token_find",
              "agent_insert", "agent_ticket", "close_update", "rate_insert"} \cup Closing
AfterQuery == {"rag_query", "rag_insert", "rag_error"}
ForAI     == {"welcome", "player_insert_ai", "ai_read", "ai_call",
              "ai_insert", "ai_fallback", "ai_last"}

(* What a handler read earlier and may still rely on, however old: the     *)
(* ticket and session exist, nobody has taken the session the AI answers   *)
(* in, an agent still owns the session, a closing session is still on its  *)
(* ticket and, once announced, still closed, and the knowledge base asked  *)
(* is still there (it may have been switched off).                         *)
RequestOK(r) ==
    /\ r.pc \in OnTicket => r.t \in Tickets /\ tStatus[r.t] # "NONE"
    /\ r.pc \in OnSession => r.s \in Sessions /\ Exists(r.s)
    /\ r.pc \in ForAI => sAgent[r.s] = NoOne
    /\ r.pc = "agent_insert" => /\ r.by \in Staff
                                /\ r.by \in Agents => sAgent[r.s] = r.by
    /\ r.pc = "join_insert" => r.by \in Staff
    /\ r.pc \in AfterQuery \cup {"rag_player"} => library[r.s] # "none"
    /\ r.pc \in AfterQuery => <<r.s, "PLAYER">> \in spoke
    /\ r.pc = "close_update" => r.t = sTicket[r.s]
    /\ r.pc = "close_notice" => sStatus[r.s] = "CLOSED"

(* No handler writes on the strength of a fact that has ceased to hold:    *)
(* what the handlers of src/session, src/ticket and the gateway read       *)
(* before an await is still true when they act on it, whoever ran          *)
(* meanwhile.  (What they do not rely on, such as the ticket's status, may *)
(* well have changed.)                                                     *)
RequestsOK == \A w \in Workers : RequestOK(req[w])

CronOK == \A t \in cron : tStatus[t] # "NONE"

(* Only in sessions that exist has anything been said.                     *)
ChatOK == \A m \in spoke : Exists(m[1])

(* The inductive invariant of SessionTicketProofs.                         *)
IInv ==
    /\ TypeOK
    /\ RowsOK
    /\ RequestsOK
    /\ CronOK
    /\ ChatOK
    /\ AgentsSpeakInOwnSessions
    /\ TakenSessionsHearNoUnaskedAi
    /\ NoticeOnlyWhenClosed
    /\ ResolvedIsStamped
    /\ NoLostResolution

(* SessionTicket implements SupportCase: the same tables, the handlers,    *)
(* the faults and the clock hidden.                                        *)
Case == INSTANCE SupportCase
ImplementsSupportCase == Case!Spec
=============================================================================
