------------------------ MODULE SessionTicketProofs ------------------------
(***************************************************************************)
(* What holds of SessionTicket for every number of tickets, sessions,      *)
(* staff, concurrent handlers, faults and crashes.                         *)
(***************************************************************************)
EXTENDS SessionTicket, TLAPS

(* Every step of Next is one of these; the proofs below go through them.   *)
LEMMA NextSteps ==
    ASSUME Next
    PROVE  \/ \E w \in Workers, t \in Tickets : CreateCheck(w, t) \/ TokenUpdate(w, t)
           \/ \E w \in Workers, t \in Tickets, by \in Staff : JoinCheck(w, by, t)
           \/ \E w \in Workers, s \in Sessions :
                 CloseCheck(w, s) \/ RateCheck(w, s) \/ RagCheck(w, s)
           \/ \E w \in Workers, s \in Sessions, text \in BOOLEAN : PlayerCheck(w, s, text)
           \/ \E w \in Workers, s \in Sessions, by \in Staff : AgentCheck(w, by, s)
           \/ \E w \in Workers : Continue(w)
           \/ \E w \in Workers : Fault(w)
           \/ OneCall
           \/ TimePasses
           \/ CronRead
           \/ CronResolve
           \/ CronFault
           \/ Crash
  BY DEF Next, Arrive, Clock

-----------------------------------------------------------------------------
LEMMA TypeInit == Init => TypeOK
  BY ConstantsAssumption, SMTT(30)
     DEF Init, TypeOK, IdleReq, Request, PCs, TicketStatus, SessionStatus

LEMMA TypeStep == TypeOK /\ RequestsOK /\ [Next]_vars => TypeOK'
<1> SUFFICES ASSUME TypeOK, RequestsOK, [Next]_vars
             PROVE  TypeOK'
  OBVIOUS
<1> USE ConstantsAssumption
<1>1. CASE UNCHANGED vars
  BY <1>1 DEF vars, ticketVars, sessionVars, chatVars, faultVars, TypeOK
<1>2. CASE \E w \in Workers, t \in Tickets : CreateCheck(w, t) \/ TokenUpdate(w, t)
  BY <1>2 DEF CreateCheck, TokenUpdate, WriteTicket, Begin, TypeOK, Request, PCs,
     TicketStatus, ticketVars, sessionVars, chatVars, faultVars
<1>3. CASE \E w \in Workers, t \in Tickets, by \in Staff : JoinCheck(w, by, t)
  BY <1>3 DEF JoinCheck, Begin, TypeOK, Request, PCs, ticketVars, sessionVars,
     chatVars, faultVars
<1>4. CASE \E w \in Workers, s \in Sessions :
              CloseCheck(w, s) \/ RateCheck(w, s) \/ RagCheck(w, s)
  BY <1>4 DEF CloseCheck, RateCheck, RagCheck, Begin, TypeOK, Request, PCs, ticketVars,
     sessionVars, chatVars, faultVars
<1>5. CASE \E w \in Workers, s \in Sessions, text \in BOOLEAN : PlayerCheck(w, s, text)
  BY <1>5 DEF PlayerCheck, Begin, TypeOK, Request, PCs, ticketVars, sessionVars,
     chatVars, faultVars
<1>6. CASE \E w \in Workers, s \in Sessions, by \in Staff : AgentCheck(w, by, s)
  BY <1>6 DEF AgentCheck, Begin, TypeOK, Request, PCs, ticketVars, sessionVars,
     chatVars, faultVars
<1>7. ASSUME NEW w \in Workers, Continue(w)
      PROVE  TypeOK'
  <2>a. /\ req[w] \in Request
        /\ req[w].pc \in OnTicket => req[w].t \in Tickets
        /\ req[w].pc \in OnSession => req[w].s \in Sessions
        /\ req[w].pc = "agent_insert" => req[w].by \in Staff
    BY DEF TypeOK, RequestsOK, RequestOK
  <2>b. ASSUME NEW pc \in PCs, Goto(w, pc)
        PROVE  req' \in [Workers -> Request]
    BY <2>a, <2>b DEF Goto, Request, TypeOK
  <2>c. ASSUME Done(w)
        PROVE  req' \in [Workers -> Request]
    BY <2>c DEF Done, IdleReq, Request, PCs, TypeOK
  <2>d. ASSUME NEW pc \in PCs, NEW s \in Sessions,
               req' = [req EXCEPT ![w].pc = pc, ![w].s = s]
        PROVE  req' \in [Workers -> Request]
    BY <2>a, <2>d DEF Request, TypeOK
  <2> USE DEF At, TypeOK, ticketVars, sessionVars, chatVars, faultVars
  <2>1. CASE CreateInsert(w)
    <3>1. PICK s \in Sessions :
             /\ Insert(s, req[w].t, "PENDING", NoOne)
             /\ req' = [req EXCEPT ![w].pc = "welcome", ![w].s = s]
      BY <2>1 DEF CreateInsert
    <3>2. req' \in [Workers -> Request]
      BY <3>1, <2>d DEF PCs
    <3>3. /\ sStatus' \in [Sessions -> SessionStatus \cup {"NONE"}]
          /\ sTicket' \in [Sessions -> Tickets \cup {NoTicket}]
          /\ sAgent' \in [Sessions -> Staff \cup {NoOne}]
          /\ library' \in [Sessions -> LibraryStates]
      BY <3>1, <2>a DEF Insert, SessionStatus, LibraryStates, Request
    <3> QED
      BY <2>1, <3>2, <3>3 DEF CreateInsert
  <2>2. CASE JoinInsert(w)
    <3>1. PICK s \in Sessions :
             /\ Insert(s, req[w].t, "IN_PROGRESS", req[w].by)
             /\ req' = [req EXCEPT ![w].pc = "join_ticket", ![w].s = s]
      BY <2>2 DEF JoinInsert
    <3>2. req' \in [Workers -> Request]
      BY <3>1, <2>d DEF PCs
    <3>3. /\ sStatus' \in [Sessions -> SessionStatus \cup {"NONE"}]
          /\ sTicket' \in [Sessions -> Tickets \cup {NoTicket}]
          /\ sAgent' \in [Sessions -> Staff \cup {NoOne}]
          /\ library' \in [Sessions -> LibraryStates]
      BY <3>1, <2>a DEF Insert, SessionStatus, LibraryStates, Request
    <3> QED
      BY <2>2, <3>2, <3>3 DEF JoinInsert
  <2>3. CASE \/ Welcome(w) \/ AiInsert(w) \/ TokenInsert(w) \/ AgentInsert(w)
             \/ RagPlayer(w) \/ RagInsert(w)
    <3> USE DEF Welcome, AiInsert, TokenInsert, AgentInsert, RagPlayer, RagInsert
    <3>1. req[w].s \in Sessions
      BY <2>3, <2>a DEF OnSession, PCs
    <3>2. req' \in [Workers -> Request]
      BY <2>3, <2>b, <2>c DEF PCs
    <3>3. spoke' \in SUBSET (Sessions \X Senders)
      BY <2>3, <3>1, <2>a DEF Say, Senders
    <3> QED
      BY <2>3, <3>2, <3>3 DEF Say
  <2>4. CASE PlayerInsert(w)
    <3>1. req[w].s \in Sessions
      BY <2>4, <2>a DEF PlayerInsert, OnSession, PCs
    <3>2. req' \in [Workers -> Request]
      BY <2>4, <2>b, <2>c DEF PlayerInsert, PCs
    <3> QED
      BY <2>4, <3>1, <3>2 DEF PlayerInsert, Say, Senders
  <2>5. CASE AiRead(w) \/ AiCall(w) \/ CheckRead(w) \/ RagQuery(w) \/ RagError(w)
    <3>1. req' \in [Workers -> Request]
      BY <2>5, <2>b, <2>c DEF AiRead, AiCall, CheckRead, RagQuery, RagError, PCs
    <3> QED
      BY <2>5, <3>1 DEF AiRead, AiCall, CheckRead, RagQuery, RagError
  <2>6. CASE AgentTicket(w) \/ CheckWrite(w) \/ JoinTicket(w)
    <3>1. req[w].t \in Tickets
      BY <2>6, <2>a DEF AgentTicket, CheckWrite, JoinTicket, OnTicket, Closing
    <3>2. req' \in [Workers -> Request]
      BY <2>6, <2>c DEF AgentTicket, CheckWrite, JoinTicket
    <3>3. \E status \in TicketStatus, stamp \in BOOLEAN :
             WriteTicket(req[w].t, status, stamp)
      BY <2>6, <3>1 DEF AgentTicket, CheckWrite, JoinTicket, TicketStatus
    <3>4. /\ tStatus' \in [Tickets -> TicketStatus \cup {"NONE"}]
          /\ tClosedAt' \in [Tickets -> BOOLEAN]
          /\ idle' \in [Tickets -> 0..StaleDays]
          /\ excused' \in SUBSET Tickets
      BY <3>1, <3>3 DEF WriteTicket
    <3> QED
      BY <2>6, <3>2, <3>4 DEF AgentTicket, CheckWrite, JoinTicket
  <2>7. CASE CloseUpdate(w) \/ CloseNotice(w) \/ RateInsert(w)
    <3>1. req[w].s \in Sessions /\ req' \in [Workers -> Request]
      BY <2>7, <2>a, <2>b, <2>c DEF CloseUpdate, CloseNotice, RateInsert, OnSession, PCs
    <3>2. CASE CloseUpdate(w)
      BY <3>1, <3>2 DEF CloseUpdate, SessionStatus
    <3>3. CASE CloseNotice(w)
      BY <3>1, <3>3 DEF CloseNotice
    <3>4. CASE RateInsert(w)
      BY <3>1, <3>4 DEF RateInsert
    <3> QED
      BY <2>7, <3>2, <3>3, <3>4
  <2>8. CASE TokenFind(w)
    <3>1. req' \in [Workers -> Request]
      BY <2>8, <2>c, <2>d DEF TokenFind, Of, PCs
    <3> QED
      BY <2>8, <3>1 DEF TokenFind
  <2> QED
    BY <1>7, <2>1, <2>2, <2>3, <2>4, <2>5, <2>6, <2>7, <2>8 DEF Continue
<1>8. ASSUME NEW w \in Workers, Fault(w)
      PROVE  TypeOK'
  <2>1. req[w] \in Request /\ (req[w].pc \in Closing => req[w].t \in Tickets)
    BY DEF TypeOK, RequestsOK, RequestOK, OnTicket
  <2>2. AfterFault(req[w].pc) \in PCs
    BY DEF AfterFault, PCs
  <2>3. req' \in [Workers -> Request]
    BY <1>8, <2>1, <2>2 DEF Fault, Goto, Done, IdleReq, Request, PCs, TypeOK
  <2>4. excused' \in SUBSET Tickets /\ faults' \in 0..MaxFaults
    BY <1>8, <2>1 DEF Fault, TypeOK
  <2> QED
    BY <1>8, <2>3, <2>4 DEF Fault, TypeOK, ticketVars, sessionVars, chatVars
<1>9. CASE OneCall
  <2> USE DEF TypeOK, TicketStatus, ticketVars, sessionVars, chatVars, faultVars
  <2>1. CASE \E t \in Tickets : CreateTicket(t)
    BY <2>1 DEF CreateTicket
  <2>2. CASE \E t \in Tickets : TicketReply(t)
    BY <2>2 DEF TicketReply, WriteTicket
  <2>3. CASE \E t \in Tickets, status \in TicketStatus : UpdateStatus(t, status)
    BY <2>3 DEF UpdateStatus, WriteTicket
  <2>4. CASE \E t \in Tickets : UpdatePriority(t)
    BY <2>4 DEF UpdatePriority
  <2>5. CASE \E s \in Sessions : DirectPlayerMessage(s)
    BY <2>5 DEF DirectPlayerMessage, Say, Senders
  <2>6. CASE \E s \in Sessions, to \in {"on", "off"} : SwitchLibrary(s, to)
    BY <2>6 DEF SwitchLibrary, LibraryStates
  <2> QED
    BY <1>9, <2>1, <2>2, <2>3, <2>4, <2>5, <2>6 DEF OneCall
<1>10. CASE TimePasses \/ CronRead \/ CronResolve \/ CronFault
  <2> USE DEF TypeOK, TicketStatus, ticketVars, sessionVars, chatVars, faultVars
  <2>1. CASE TimePasses
    BY <2>1 DEF TimePasses
  <2>2. CASE CronRead
    BY <2>2 DEF CronRead
  <2>3. CASE CronResolve
    BY <2>3 DEF CronResolve, WriteTicket
  <2>4. CASE CronFault
    BY <2>4 DEF CronFault
  <2> QED
    BY <1>10, <2>1, <2>2, <2>3, <2>4
<1>11. CASE Crash
  <2>1. \A w \in Workers : req[w].pc \in Closing => req[w].t \in Tickets
    BY DEF RequestsOK, RequestOK, OnTicket
  <2> QED
    BY <1>11, <2>1 DEF Crash, IdleReq, Request, PCs, TypeOK, ticketVars,
       sessionVars, chatVars
<1> QED
  BY <1>1, <1>2, <1>3, <1>4, <1>5, <1>6, <1>7, <1>8, <1>9, <1>10, <1>11, NextSteps
-----------------------------------------------------------------------------
(* Refinement, step by step: what a handler does to the tables is one step *)
(* of SupportCase or nothing, given what the handler may rely on.          *)
Grounds == TypeOK /\ RowsOK /\ RequestsOK /\ CronOK

LEMMA WriteTicketIsSetTicket ==
    ASSUME NEW t \in Tickets, NEW status \in TicketStatus, NEW stamp \in BOOLEAN,
           tStatus[t] # "NONE", status = "RESOLVED" => stamp,
           WriteTicket(t, status, stamp), UNCHANGED <<sessionVars, chatVars>>
    PROVE  Case!Next
  BY DEF WriteTicket, sessionVars, chatVars, TicketStatus, Case!Next, Case!SetTicket, Case!sessionVars

LEMMA SayIsSpeak ==
    ASSUME NEW s \in Sessions, NEW sender \in Senders, Exists(s),
           sender \in Agents => sAgent[s] = sender,
           sender = "AI" => sAgent[s] = NoOne,
           sender = "LIBRARY" => library[s] # "none" /\ <<s, "PLAYER">> \in spoke,
           Say(s, sender), UNCHANGED <<ticketVars, sessionVars>>
    PROVE  Case!Next
<1>1. Case!Speak(s, sender)
  BY DEF Say, Exists, ticketVars, sessionVars, Case!Speak, Case!ticketVars, Case!sessionVars
<1> QED
  BY <1>1 DEF Case!Next, Senders, Staff, Case!Staff

LEMMA InsertIsOpenSession ==
    ASSUME NEW s \in Sessions, NEW t \in Tickets, NEW agent \in Staff \cup {NoOne},
           tStatus[t] # "NONE",
           Insert(s, t, IF agent = NoOne THEN "PENDING" ELSE "IN_PROGRESS", agent),
           UNCHANGED <<ticketVars, chatVars>>
    PROVE  Case!Next
<1>1. Case!OpenSession(s, t, agent)
  BY DEF Insert, ticketVars, chatVars, Case!OpenSession, Case!ticketVars
<1> QED
  BY <1>1 DEF Case!Next, Staff, Case!Staff

LEMMA CaseStep == Grounds /\ [Next]_vars => [Case!Next]_(Case!vars)
<1> SUFFICES ASSUME Grounds, [Next]_vars
             PROVE  Case!Next \/ UNCHANGED <<tStatus, tClosedAt, sStatus, sTicket, sAgent, library, spoke>>
  BY DEF Case!vars, Case!ticketVars, Case!sessionVars
<1> USE ConstantsAssumption DEF Grounds
<1>1. CASE UNCHANGED vars
  BY <1>1 DEF vars, ticketVars, sessionVars, chatVars
<1>2. ASSUME NEW w \in Workers, NEW t \in Tickets, CreateCheck(w, t) \/ TokenUpdate(w, t)
      PROVE  Case!Next \/ UNCHANGED <<tStatus, tClosedAt, sStatus, sTicket, sAgent, library, spoke>>
  <2>1. CASE CreateCheck(w, t)
    BY <2>1 DEF CreateCheck, ticketVars, sessionVars, chatVars
  <2>2. CASE TokenUpdate(w, t)
    BY <2>2, WriteTicketIsSetTicket, tClosedAt[t] \in BOOLEAN
       DEF TokenUpdate, TicketStatus, TypeOK
  <2> QED
    BY <1>2, <2>1, <2>2
<1>3. CASE \E w \in Workers, t \in Tickets, by \in Staff : JoinCheck(w, by, t)
  BY <1>3 DEF JoinCheck, ticketVars, sessionVars, chatVars
<1>4. CASE \E w \in Workers, s \in Sessions :
              CloseCheck(w, s) \/ RateCheck(w, s) \/ RagCheck(w, s)
  BY <1>4 DEF CloseCheck, RateCheck, RagCheck, ticketVars, sessionVars, chatVars
<1>5. CASE \E w \in Workers, s \in Sessions, text \in BOOLEAN : PlayerCheck(w, s, text)
  BY <1>5 DEF PlayerCheck, ticketVars, sessionVars, chatVars
<1>6. CASE \E w \in Workers, s \in Sessions, by \in Staff : AgentCheck(w, by, s)
  BY <1>6 DEF AgentCheck, ticketVars, sessionVars, chatVars
<1>7. ASSUME NEW w \in Workers, Continue(w)
      PROVE  Case!Next \/ UNCHANGED <<tStatus, tClosedAt, sStatus, sTicket, sAgent, library, spoke>>
  <2>a. /\ req[w].pc \in OnTicket => req[w].t \in Tickets /\ tStatus[req[w].t] # "NONE"
        /\ req[w].pc \in OnSession => req[w].s \in Sessions /\ Exists(req[w].s)
        /\ req[w].pc \in ForAI => sAgent[req[w].s] = NoOne
        /\ req[w].pc = "agent_insert" => /\ req[w].by \in Staff
                                         /\ req[w].by \in Agents => sAgent[req[w].s] = req[w].by
        /\ req[w].pc = "join_insert" => req[w].by \in Staff
        /\ req[w].pc = "rag_insert" => /\ library[req[w].s] # "none"
                                       /\ <<req[w].s, "PLAYER">> \in spoke
    BY DEF RequestsOK, RequestOK, AfterQuery
  <2> USE DEF At, OnTicket, OnSession, AfterQuery, ForAI, Closing, PCs
  <2>1. CASE CreateInsert(w)
    BY <2>1, <2>a, InsertIsOpenSession DEF CreateInsert
  <2>2. CASE JoinInsert(w)
    <3>1. req[w].by # NoOne
      BY <2>2, <2>a DEF JoinInsert, Senders
    <3> QED
      BY <2>2, <3>1, <2>a, InsertIsOpenSession DEF JoinInsert
  <2>3. CASE Welcome(w) \/ AiInsert(w)
    BY <2>3, <2>a, SayIsSpeak DEF Welcome, AiInsert, Senders, Staff
  <2>4. CASE TokenInsert(w) \/ PlayerInsert(w) \/ RagPlayer(w)
    BY <2>4, <2>a, SayIsSpeak DEF TokenInsert, PlayerInsert, RagPlayer, Senders, Staff
  <2>5. CASE AgentInsert(w)
    BY <2>5, <2>a, SayIsSpeak DEF AgentInsert, Senders, Staff
  <2>6. CASE AgentTicket(w)
    BY <2>6, <2>a, WriteTicketIsSetTicket, tClosedAt[req[w].t] \in BOOLEAN
       DEF AgentTicket, TicketStatus, TypeOK
  <2>7. CASE CheckWrite(w) \/ JoinTicket(w)
    BY <2>7, <2>a, WriteTicketIsSetTicket DEF CheckWrite, JoinTicket, TicketStatus
  <2>8. CASE CloseUpdate(w)
    BY <2>8, <2>a DEF CloseUpdate, Exists, ticketVars, chatVars, Case!Next, Case!CloseSession,
       Case!ticketVars
  <2>9. CASE \/ AiRead(w) \/ AiCall(w) \/ CheckRead(w) \/ CloseNotice(w) \/ RateInsert(w)
             \/ TokenFind(w) \/ RagQuery(w) \/ RagError(w)
    BY <2>9 DEF AiRead, AiCall, CheckRead, CloseNotice, RateInsert, TokenFind, RagQuery,
       RagError, ticketVars, sessionVars, chatVars
  <2>10. CASE RagInsert(w)
    BY <2>10, <2>a, SayIsSpeak DEF RagInsert, Senders, Staff
  <2> QED
    BY <1>7, <2>1, <2>2, <2>3, <2>4, <2>5, <2>6, <2>7, <2>8, <2>9, <2>10 DEF Continue
<1>8. CASE \E w \in Workers : Fault(w)
  BY <1>8 DEF Fault, ticketVars, sessionVars, chatVars
<1>9. CASE OneCall
  <2>1. CASE \E t \in Tickets : CreateTicket(t)
    BY <2>1 DEF CreateTicket, sessionVars, chatVars, Case!Next, Case!CreateTicket,
       Case!sessionVars
  <2>2. CASE \E t \in Tickets : TicketReply(t)
    BY <2>2, WriteTicketIsSetTicket, \A t \in Tickets : tClosedAt[t] \in BOOLEAN
       DEF TicketReply, TicketStatus, TypeOK
  <2>3. CASE \E t \in Tickets, status \in TicketStatus : UpdateStatus(t, status)
    BY <2>3, WriteTicketIsSetTicket DEF UpdateStatus
  <2>4. CASE \E t \in Tickets : UpdatePriority(t)
    BY <2>4 DEF UpdatePriority, sessionVars, chatVars
  <2>5. CASE \E s \in Sessions : DirectPlayerMessage(s)
    BY <2>5, SayIsSpeak DEF DirectPlayerMessage, Senders, Staff
  <2>6. ASSUME NEW s \in Sessions, NEW to \in {"on", "off"}, SwitchLibrary(s, to)
        PROVE  Case!Next \/ UNCHANGED <<tStatus, tClosedAt, sStatus, sTicket, sAgent, library, spoke>>
    <3>1. CASE to = "off" /\ library[s] = "none"
      BY <2>6, <3>1 DEF SwitchLibrary, TypeOK, ticketVars, chatVars
    <3>2. CASE ~(to = "off" /\ library[s] = "none")
      <4>1. Case!SwitchLibrary(s, to)
        BY <2>6, <3>2 DEF SwitchLibrary, Exists, Case!SwitchLibrary, ticketVars, chatVars,
           Case!ticketVars
      <4> QED
        BY <4>1 DEF Case!Next
    <3> QED
      BY <3>1, <3>2
  <2> QED
    BY <1>9, <2>1, <2>2, <2>3, <2>4, <2>5, <2>6 DEF OneCall
<1>10. CASE TimePasses \/ CronRead \/ CronFault \/ Crash
  BY <1>10 DEF TimePasses, CronRead, CronFault, Crash, ticketVars, sessionVars, chatVars
<1>11. CASE CronResolve
  BY <1>11, WriteTicketIsSetTicket DEF CronResolve, CronOK, TypeOK, TicketStatus
<1> QED
  BY <1>1, <1>2, <1>3, <1>4, <1>5, <1>6, <1>7, <1>8, <1>9, <1>10, <1>11, NextSteps
-----------------------------------------------------------------------------
(* What steps of SupportCase cannot do, whoever takes them.                *)
Stable ==
    /\ \A t \in Tickets : tStatus[t] # "NONE" => tStatus'[t] # "NONE"
    /\ \A s \in Sessions : Exists(s) =>
          /\ sStatus'[s] # "NONE"
          /\ sTicket'[s] = sTicket[s]
          /\ sAgent'[s] = sAgent[s]
          /\ sStatus[s] = "CLOSED" => sStatus'[s] = "CLOSED"
          /\ library[s] # "none" => library'[s] # "none"
    /\ spoke \subseteq spoke'

Chat == ChatOK /\ AgentsSpeakInOwnSessions /\ TakenSessionsHearNoUnaskedAi

LEMMA CaseIsStable == TypeOK /\ [Case!Next]_(Case!vars) => Stable
<1> SUFFICES ASSUME TypeOK, [Case!Next]_(Case!vars)
             PROVE  Stable
  OBVIOUS
<1> USE DEF TypeOK, Stable, Exists, Case!ticketVars, Case!sessionVars
<1>1. CASE UNCHANGED Case!vars
  BY <1>1 DEF Case!vars
<1>2. CASE \E t \in Tickets : Case!CreateTicket(t)
  BY <1>2 DEF Case!CreateTicket
<1>3. CASE \E t \in Tickets, status \in {"WAITING", "IN_PROGRESS", "RESOLVED"},
              stamp \in BOOLEAN : Case!SetTicket(t, status, stamp)
  BY <1>3 DEF Case!SetTicket
<1>4. CASE \E s \in Sessions, t \in Tickets, agent \in Case!Staff \cup {NoOne} :
              Case!OpenSession(s, t, agent)
  BY <1>4 DEF Case!OpenSession
<1>5. CASE \E s \in Sessions : Case!CloseSession(s)
  BY <1>5 DEF Case!CloseSession
<1>6. CASE \E s \in Sessions, sender \in {"PLAYER", "AI", "LIBRARY"} \cup Case!Staff :
              Case!Speak(s, sender)
  BY <1>6 DEF Case!Speak
<1>7. CASE \E s \in Sessions, to \in {"on", "off"} : Case!SwitchLibrary(s, to)
  BY <1>7 DEF Case!SwitchLibrary
<1> QED
  BY <1>1, <1>2, <1>3, <1>4, <1>5, <1>6, <1>7 DEF Case!Next

LEMMA CaseKeepsRows ==
    TypeOK /\ RowsOK /\ ResolvedIsStamped /\ [Case!Next]_(Case!vars)
        => RowsOK' /\ ResolvedIsStamped'
<1> SUFFICES ASSUME TypeOK, RowsOK, ResolvedIsStamped, [Case!Next]_(Case!vars)
             PROVE  RowsOK' /\ ResolvedIsStamped'
  OBVIOUS
<1> USE ConstantsAssumption
    DEF TypeOK, RowsOK, ResolvedIsStamped, Exists, Case!ticketVars, Case!sessionVars
<1>1. CASE UNCHANGED Case!vars
  BY <1>1 DEF Case!vars
<1>2. CASE \E t \in Tickets : Case!CreateTicket(t)
  BY <1>2 DEF Case!CreateTicket
<1>3. CASE \E t \in Tickets, status \in {"WAITING", "IN_PROGRESS", "RESOLVED"},
              stamp \in BOOLEAN : Case!SetTicket(t, status, stamp)
  BY <1>3 DEF Case!SetTicket
<1>4. CASE \E s \in Sessions, t \in Tickets, agent \in Case!Staff \cup {NoOne} :
              Case!OpenSession(s, t, agent)
  BY <1>4 DEF Case!OpenSession
<1>5. CASE \E s \in Sessions : Case!CloseSession(s)
  BY <1>5 DEF Case!CloseSession
<1>6. CASE \E s \in Sessions, sender \in {"PLAYER", "AI", "LIBRARY"} \cup Case!Staff :
              Case!Speak(s, sender)
  BY <1>6 DEF Case!Speak
<1>7. CASE \E s \in Sessions, to \in {"on", "off"} : Case!SwitchLibrary(s, to)
  BY <1>7 DEF Case!SwitchLibrary
<1> QED
  BY <1>1, <1>2, <1>3, <1>4, <1>5, <1>6, <1>7 DEF Case!Next

LEMMA CaseKeepsChat == TypeOK /\ Chat /\ [Case!Next]_(Case!vars) => Chat'
<1> SUFFICES ASSUME TypeOK, Chat, [Case!Next]_(Case!vars)
             PROVE  Chat'
  OBVIOUS
<1> USE ConstantsAssumption
    DEF TypeOK, Chat, ChatOK, AgentsSpeakInOwnSessions, TakenSessionsHearNoUnaskedAi, Exists,
        Case!ticketVars, Case!sessionVars
<1>1. CASE UNCHANGED Case!vars
  BY <1>1 DEF Case!vars
<1>2. CASE \E t \in Tickets : Case!CreateTicket(t)
  BY <1>2 DEF Case!CreateTicket
<1>3. CASE \E t \in Tickets, status \in {"WAITING", "IN_PROGRESS", "RESOLVED"},
              stamp \in BOOLEAN : Case!SetTicket(t, status, stamp)
  BY <1>3 DEF Case!SetTicket
<1>4. CASE \E s \in Sessions, t \in Tickets, agent \in Case!Staff \cup {NoOne} :
              Case!OpenSession(s, t, agent)
  BY <1>4 DEF Case!OpenSession
<1>5. CASE \E s \in Sessions : Case!CloseSession(s)
  BY <1>5 DEF Case!CloseSession
<1>6. CASE \E s \in Sessions, sender \in {"PLAYER", "AI", "LIBRARY"} \cup Case!Staff :
              Case!Speak(s, sender)
  BY <1>6 DEF Case!Speak, Case!Staff
<1>7. CASE \E s \in Sessions, to \in {"on", "off"} : Case!SwitchLibrary(s, to)
  BY <1>7 DEF Case!SwitchLibrary
<1> QED
  BY <1>1, <1>2, <1>3, <1>4, <1>5, <1>6, <1>7 DEF Case!Next
-----------------------------------------------------------------------------
(* What a handler read stays true while it is not scheduled.               *)
LEMMA RequestStep == Grounds /\ Stable /\ [Next]_vars => RequestsOK'
<1> SUFFICES ASSUME Grounds, Stable, [Next]_vars
             PROVE  RequestsOK'
  OBVIOUS
<1> USE ConstantsAssumption
<1>a. \A v \in Workers : RequestOK(req[v]) /\ req[v] \in Request
  BY DEF Grounds, RequestsOK, TypeOK
<1>b. ASSUME NEW v \in Workers, req'[v] \in {req[v], IdleReq}
      PROVE  RequestOK(req[v])'
  <2>1. CASE req'[v] = req[v]
    BY <1>a, <2>1 DEF Stable, RequestOK, Exists, OnTicket, OnSession, AfterQuery, ForAI, PCs
  <2>2. CASE req'[v] = IdleReq
    BY <2>2 DEF RequestOK, IdleReq, OnTicket, OnSession, AfterQuery, ForAI, Closing, PCs
  <2> QED
    BY <1>b, <2>1, <2>2
<1>c. ASSUME NEW w \in Workers, NEW r, req' = [req EXCEPT ![w] = r], RequestOK(req[w])'
      PROVE  RequestsOK'
  BY <1>a, <1>b, <1>c DEF RequestsOK, Grounds, TypeOK
<1>d. ASSUME req' = req
      PROVE  RequestsOK'
  BY <1>d, <1>b DEF RequestsOK
<1>1. CASE UNCHANGED vars
  BY <1>1, <1>d DEF vars
<1>2. ASSUME NEW w \in Workers, NEW t \in Tickets, CreateCheck(w, t) \/ TokenUpdate(w, t)
      PROVE  RequestsOK'
  <2> DEFINE r(pc) == [pc |-> pc, t |-> t, s |-> NoSession, by |-> NoOne]
  <2>1. \E pc \in {"create_insert", "token_find"} : req' = [req EXCEPT ![w] = r(pc)]
    BY <1>2 DEF CreateCheck, TokenUpdate, Begin
  <2>2. tStatus[t] # "NONE" /\ tStatus'[t] # "NONE"
    BY <1>2 DEF CreateCheck, TokenUpdate, Stable
  <2>3. RequestOK(req[w])'
    BY <2>1, <2>2 DEF RequestOK, OnTicket, OnSession, AfterQuery, ForAI, Closing, PCs, Grounds, TypeOK
  <2> QED
    BY <2>1, <2>3, <1>c
<1>3. ASSUME NEW w \in Workers, NEW t \in Tickets, NEW by \in Staff, JoinCheck(w, by, t)
      PROVE  RequestsOK'
  <2> DEFINE r == [pc |-> "join_insert", t |-> t, s |-> NoSession, by |-> by]
  <2>1. req' = [req EXCEPT ![w] = r]
    BY <1>3 DEF JoinCheck, Begin
  <2>2. tStatus'[t] # "NONE"
    BY <1>3 DEF JoinCheck, Open, Stable
  <2>3. RequestOK(req[w])'
    BY <2>1, <2>2 DEF RequestOK, OnTicket, OnSession, AfterQuery, ForAI, Closing, PCs, Grounds, TypeOK
  <2> QED
    BY <2>1, <2>3, <1>c
<1>4. ASSUME NEW w \in Workers, NEW s \in Sessions, CloseCheck(w, s) \/ RateCheck(w, s)
      PROVE  RequestsOK'
  <2> DEFINE r(pc) == [pc |-> pc, t |-> sTicket[s], s |-> s, by |-> NoOne]
  <2>1. \E pc \in {"close_update", "rate_insert"} : req' = [req EXCEPT ![w] = r(pc)]
    BY <1>4 DEF CloseCheck, RateCheck, Begin
  <2>2. /\ Exists(s)
        /\ sTicket[s] \in Tickets
        /\ tStatus'[sTicket[s]] # "NONE"
        /\ sStatus'[s] # "NONE"
        /\ sTicket'[s] = sTicket[s]
    BY <1>4 DEF CloseCheck, RateCheck, Live, Exists, Stable, Grounds, RowsOK
  <2>3. RequestOK(req[w])'
    BY <2>1, <2>2 DEF RequestOK, Exists, OnTicket, OnSession, AfterQuery, ForAI, Closing, PCs, Grounds, TypeOK
  <2> QED
    BY <2>1, <2>3, <1>c
<1>5. ASSUME NEW w \in Workers, NEW s \in Sessions, NEW text \in BOOLEAN, PlayerCheck(w, s, text)
      PROVE  RequestsOK'
  <2> DEFINE r(pc) == [pc |-> pc, t |-> NoTicket, s |-> s, by |-> NoOne]
  <2>1. \/ req' = [req EXCEPT ![w] = r("player_insert")]
        \/ /\ req' = [req EXCEPT ![w] = r("player_insert_ai")]
           /\ sAgent[s] = NoOne
    BY <1>5 DEF PlayerCheck, Begin, Live, Exists, Grounds, RowsOK, TypeOK, SessionStatus
  <2>2. Exists(s) /\ sStatus'[s] # "NONE" /\ sAgent'[s] = sAgent[s]
    BY <1>5 DEF PlayerCheck, Live, Exists, Stable
  <2>3. RequestOK(req[w])'
    BY <2>1, <2>2 DEF RequestOK, Exists, OnTicket, OnSession, AfterQuery, ForAI, Closing, PCs, Grounds, TypeOK
  <2> QED
    BY <2>1, <2>3, <1>c
<1>6. ASSUME NEW w \in Workers, NEW s \in Sessions, NEW by \in Staff, AgentCheck(w, by, s)
      PROVE  RequestsOK'
  <2> DEFINE r == [pc |-> "agent_insert", t |-> sTicket[s], s |-> s, by |-> by]
  <2>1. req' = [req EXCEPT ![w] = r]
    BY <1>6 DEF AgentCheck, Begin
  <2>2. /\ Exists(s)
        /\ by \in Agents => sAgent'[s] = by
        /\ sTicket[s] \in Tickets
        /\ tStatus'[sTicket[s]] # "NONE"
        /\ sStatus'[s] # "NONE"
    BY <1>6 DEF AgentCheck, Exists, Stable, Grounds, RowsOK
  <2>3. RequestOK(req[w])'
    BY <2>1, <2>2 DEF RequestOK, Exists, OnTicket, OnSession, AfterQuery, ForAI, Closing, PCs, Grounds, TypeOK
  <2> QED
    BY <2>1, <2>3, <1>c
<1>11. ASSUME NEW w \in Workers, NEW s \in Sessions, RagCheck(w, s)
      PROVE  RequestsOK'
  <2> DEFINE r == [pc |-> "rag_player", t |-> NoTicket, s |-> s, by |-> NoOne]
  <2>1. req' = [req EXCEPT ![w] = r]
    BY <1>11 DEF RagCheck, Begin
  <2>2. sStatus'[s] # "NONE" /\ library'[s] # "none"
    BY <1>11 DEF RagCheck, Exists, Stable
  <2>3. RequestOK(req[w])'
    BY <2>1, <2>2 DEF RequestOK, Exists, OnTicket, OnSession, AfterQuery, ForAI, Closing, PCs, Grounds, TypeOK
  <2> QED
    BY <2>1, <2>3, <1>c
<1>7. ASSUME NEW w \in Workers, Continue(w)
      PROVE  RequestsOK'
  <2>a. RequestOK(req[w]) /\ req[w] \in Request
    BY <1>a
  <2>d. Done(w) => RequestsOK'
    <3>1. Done(w) => req'[w] = IdleReq
      BY DEF Done, Grounds, TypeOK
    <3> QED
      BY <3>1, <1>b, <1>c DEF Done
  <2> USE DEF At
  <2>1. CASE \/ Welcome(w) \/ AiInsert(w) \/ AgentTicket(w)
             \/ CheckWrite(w) \/ JoinTicket(w) \/ TokenInsert(w)
             \/ RagInsert(w) \/ RagError(w)
    BY <2>1, <2>d DEF Welcome, AiInsert, AgentTicket, CheckWrite, JoinTicket, TokenInsert,
       RagInsert, RagError
  <2> DEFINE Moved(pc) == [pc |-> pc, t |-> req[w].t, s |-> req[w].s, by |-> req[w].by]
  <2>g. ASSUME NEW pc, Goto(w, pc)
        PROVE  req' = [req EXCEPT ![w] = Moved(pc)] /\ req'[w] = Moved(pc)
    <3>1. [req[w] EXCEPT !.pc = pc] = Moved(pc)
      BY <2>a DEF Request
    <3> QED
      BY <2>g, <3>1 DEF Goto, Grounds, TypeOK
  <2>m. ASSUME NEW pc, Goto(w, pc), RequestOK(Moved(pc))
        PROVE  RequestsOK'
    <3>1. req'[w] = Moved(pc)
      BY <2>m, <2>g
    <3>2. RequestOK(req[w])'
      BY <2>m, <3>1 DEF Stable, RequestOK, Exists, OnTicket, OnSession, AfterQuery, ForAI, PCs
    <3> QED
      BY <2>m, <2>g, <3>2, <1>c
  <2>2. CASE PlayerInsert(w)
    <3>1. CASE Done(w)
      BY <3>1, <2>d
    <3>2. CASE At(w, "player_insert_ai") /\ Goto(w, "ai_read")
      <4>1. RequestOK(Moved("ai_read"))
        BY <3>2, <2>a DEF RequestOK, OnTicket, OnSession, AfterQuery, ForAI, Closing, PCs
      <4> QED
        BY <4>1, <3>2, <2>m
    <3> QED
      BY <2>2, <3>1, <3>2 DEF PlayerInsert
  <2>3. CASE AiRead(w) \/ AiCall(w)
    <3>1. CASE Done(w)
      BY <3>1, <2>d
    <3>2. ASSUME NEW pc \in {"ai_call", "ai_insert", "ai_fallback"}, Goto(w, pc)
          PROVE  RequestsOK'
      <4>1. req[w].pc \in {"ai_read", "ai_call"}
        BY <2>3 DEF AiRead, AiCall
      <4>2. RequestOK(Moved(pc))
        BY <4>1, <2>a DEF RequestOK, OnTicket, OnSession, AfterQuery, ForAI, Closing, PCs
      <4> QED
        BY <4>2, <3>2, <2>m
    <3> QED
      BY <2>3, <3>1, <3>2 DEF AiRead, AiCall
  <2>4. CASE AgentInsert(w)
    <3>1. RequestOK(Moved("agent_ticket"))
      <4>1. req[w].t \in Tickets /\ tStatus[req[w].t] # "NONE"
        BY <2>4, <2>a DEF AgentInsert, RequestOK, OnTicket
      <4>2. req[w].s \in Sessions /\ Exists(req[w].s)
        BY <2>4, <2>a DEF AgentInsert, RequestOK, OnSession, PCs
      <4> QED
        BY <4>1, <4>2, "agent_ticket" \notin ForAI DEF RequestOK, AfterQuery, ForAI
    <3> QED
      BY <2>4, <3>1, <2>m DEF AgentInsert
  <2>5. CASE CloseUpdate(w)
    <3>1. req[w].s \in Sessions /\ req[w].t \in Tickets /\ tStatus'[req[w].t] # "NONE"
      BY <2>5, <2>a DEF CloseUpdate, RequestOK, OnSession, OnTicket, PCs, Stable
    <3>2. sStatus'[req[w].s] = "CLOSED"
      BY <2>5, <3>1 DEF CloseUpdate, Grounds, TypeOK
    <3>3. req'[w] = Moved("close_notice")
      BY <2>5, <2>g DEF CloseUpdate
    <3>4. RequestOK(req[w])'
      BY <3>1, <3>2, <3>3 DEF RequestOK, Exists, AfterQuery, ForAI
    <3> QED
      BY <2>5, <3>4, <2>g, <1>c DEF CloseUpdate
  <2>6. CASE CloseNotice(w) \/ CheckRead(w) \/ RateInsert(w)
    <3>1. CASE Done(w)
      BY <3>1, <2>d
    <3>2. ASSUME NEW pc \in {"check_read", "check_write"}, Goto(w, pc)
          PROVE  RequestsOK'
      <4>1. req[w].t \in Tickets /\ tStatus[req[w].t] # "NONE"
        BY <2>6, <2>a DEF CloseNotice, CheckRead, RateInsert, RequestOK, OnTicket, Closing
      <4>2. RequestOK(Moved(pc))
        BY <4>1 DEF RequestOK, OnSession, AfterQuery, ForAI
      <4> QED
        BY <4>2, <3>2, <2>m
    <3> QED
      BY <2>6, <3>1, <3>2 DEF CloseNotice, CheckRead, RateInsert
  <2>7. CASE CreateInsert(w)
    <3>1. PICK s \in Sessions :
             /\ Insert(s, req[w].t, "PENDING", NoOne)
             /\ req' = [req EXCEPT ![w].pc = "welcome", ![w].s = s]
      BY <2>7 DEF CreateInsert
    <3>2. req' = [req EXCEPT ![w] = [req[w] EXCEPT !.pc = "welcome", !.s = s]]
      BY <3>1, <2>a DEF Request, Grounds, TypeOK
    <3>3. req'[w].pc = "welcome" /\ req'[w].s = s
      BY <3>1, <2>a DEF Request, Grounds, TypeOK
    <3>4. sStatus'[s] = "PENDING" /\ sAgent'[s] = NoOne
      BY <3>1 DEF Insert, Grounds, TypeOK
    <3>5. RequestOK(req[w])'
      BY <3>3, <3>4 DEF RequestOK, Exists, OnTicket, OnSession, AfterQuery, ForAI, Closing, PCs
    <3> QED
      BY <3>2, <3>5, <1>c
  <2>8. CASE JoinInsert(w)
    <3>1. PICK s \in Sessions :
             req' = [req EXCEPT ![w].pc = "join_ticket", ![w].s = s]
      BY <2>8 DEF JoinInsert
    <3>2. req' = [req EXCEPT ![w] = [req[w] EXCEPT !.pc = "join_ticket", !.s = s]]
      BY <3>1, <2>a DEF Request, Grounds, TypeOK
    <3>3. req'[w].pc = "join_ticket" /\ req'[w].t = req[w].t
      BY <3>1, <2>a DEF Request, Grounds, TypeOK
    <3>4. req[w].t \in Tickets /\ tStatus'[req[w].t] # "NONE"
      BY <2>8, <2>a DEF JoinInsert, RequestOK, OnTicket, Stable
    <3>5. RequestOK(req[w])'
      BY <3>3, <3>4 DEF RequestOK, OnTicket, OnSession, AfterQuery, ForAI, Closing, PCs
    <3> QED
      BY <3>2, <3>5, <1>c
  <2>9. CASE TokenFind(w)
    <3>1. CASE Done(w)
      BY <3>1, <2>d
    <3>2. ASSUME NEW s \in Of(req[w].t),
                 req' = [req EXCEPT ![w].pc = "token_insert", ![w].s = s]
          PROVE  RequestsOK'
      <4>1. s \in Sessions /\ Exists(s) /\ sStatus'[s] # "NONE"
        BY DEF Of, Stable
      <4>2. req' = [req EXCEPT ![w] = [req[w] EXCEPT !.pc = "token_insert", !.s = s]]
        BY <3>2, <2>a DEF Request, Grounds, TypeOK
      <4>3. req'[w].pc = "token_insert" /\ req'[w].s = s
        BY <3>2, <2>a DEF Request, Grounds, TypeOK
      <4>4. RequestOK(req[w])'
        BY <4>1, <4>3 DEF RequestOK, Exists, OnTicket, OnSession, AfterQuery, ForAI, Closing, PCs
      <4> QED
        BY <4>2, <4>4, <1>c
    <3> QED
      BY <2>9, <3>1, <3>2 DEF TokenFind
  <2>10. CASE RagPlayer(w)
    <3>1. /\ req[w].s \in Sessions
          /\ sStatus'[req[w].s] # "NONE"
          /\ library'[req[w].s] # "none"
      BY <2>10, <2>a DEF RagPlayer, RequestOK, OnSession, PCs, Exists, Stable
    <3>2. <<req[w].s, "PLAYER">> \in spoke'
      BY <2>10 DEF RagPlayer, Say
    <3>3. req'[w] = Moved("rag_query")
      BY <2>10, <2>g DEF RagPlayer
    <3>4. RequestOK(req[w])'
      BY <3>1, <3>2, <3>3 DEF RequestOK, Exists, OnTicket, Closing, ForAI
    <3> QED
      BY <2>10, <3>4, <2>g, <1>c DEF RagPlayer
  <2>11. CASE RagQuery(w)
    <3>1. ASSUME NEW pc \in {"rag_insert", "rag_error"}, Goto(w, pc)
          PROVE  RequestsOK'
      <4>1. req[w].pc = "rag_query"
        BY <2>11 DEF RagQuery
      <4>2. RequestOK(Moved(pc))
        BY <4>1, <2>a DEF RequestOK, OnTicket, OnSession, AfterQuery, ForAI, Closing, PCs
      <4> QED
        BY <4>2, <3>1, <2>m
    <3> QED
      BY <2>11, <3>1 DEF RagQuery
  <2> QED
    BY <1>7, <2>1, <2>2, <2>3, <2>4, <2>5, <2>6, <2>7, <2>8, <2>9, <2>10, <2>11 DEF Continue
<1>8. ASSUME NEW w \in Workers, Fault(w)
      PROVE  RequestsOK'
  <2>1. RequestOK(req[w]) /\ req[w] \in Request
    BY <1>a
  <2>2. CASE Done(w)
    <3>1. req'[w] = IdleReq
      BY <2>2 DEF Done, Grounds, TypeOK
    <3> QED
      BY <2>2, <3>1, <1>b, <1>c DEF Done
  <2>3. CASE Goto(w, AfterFault(req[w].pc))
    <3>1. req' = [req EXCEPT ![w] = [req[w] EXCEPT !.pc = AfterFault(req[w].pc)]]
      BY <2>1, <2>3 DEF Goto, Request, Grounds, TypeOK
    <3>2. req'[w] = [pc |-> AfterFault(req[w].pc), t |-> req[w].t, s |-> req[w].s, by |-> req[w].by]
      BY <2>1, <2>3 DEF Goto, Request, Grounds, TypeOK
    <3>3. RequestOK(req[w])'
      BY <2>1, <3>2 DEF AfterFault, Stable, RequestOK, Exists, OnTicket, OnSession, AfterQuery, ForAI, Closing, PCs
    <3> QED
      BY <3>1, <3>3, <1>c
  <2> QED
    BY <1>8, <2>2, <2>3 DEF Fault
<1>9. CASE OneCall \/ TimePasses \/ CronRead \/ CronResolve \/ CronFault
  BY <1>9, <1>d DEF OneCall, CreateTicket, TicketReply, UpdateStatus, UpdatePriority,
     DirectPlayerMessage, SwitchLibrary, TimePasses, CronRead, CronResolve, CronFault
<1>10. CASE Crash
  <2>1. \A v \in Workers : req'[v] = IdleReq
    BY <1>10 DEF Crash
  <2> QED
    BY <2>1, <1>b DEF RequestsOK
<1> QED
  BY <1>1, <1>2, <1>3, <1>4, <1>5, <1>6, <1>7, <1>8, <1>9, <1>10, <1>11, NextSteps
-----------------------------------------------------------------------------
LEMMA NoticeStep ==
    Grounds /\ Stable /\ NoticeOnlyWhenClosed /\ [Next]_vars => NoticeOnlyWhenClosed'
<1> SUFFICES ASSUME Grounds, Stable, NoticeOnlyWhenClosed, [Next]_vars,
                    NEW s \in Sessions, notices'[s] > 0
             PROVE  sStatus'[s] = "CLOSED"
  BY DEF NoticeOnlyWhenClosed
<1>1. CASE notices' = notices
  BY <1>1 DEF NoticeOnlyWhenClosed, Stable, Exists
<1>2. CASE \E w \in Workers : CloseNotice(w)
  <2>1. PICK w \in Workers : CloseNotice(w)
    BY <1>2
  <2>2. RequestOK(req[w])
    BY DEF Grounds, RequestsOK
  <2>3. req[w].s \in Sessions /\ sStatus[req[w].s] = "CLOSED"
    BY <2>1, <2>2 DEF CloseNotice, At, RequestOK, OnSession, PCs
  <2>4. CASE s = req[w].s
    BY <2>3, <2>4 DEF Stable, Exists
  <2>5. CASE s # req[w].s
    <3>1. notices'[s] = notices[s]
      BY <2>1, <2>5 DEF CloseNotice, Grounds, TypeOK
    <3> QED
      BY <3>1 DEF NoticeOnlyWhenClosed, Stable, Exists
  <2> QED
    BY <2>4, <2>5
<1>3. notices' = notices \/ \E w \in Workers : CloseNotice(w)
  <2> USE DEF vars, chatVars
  <2>1. ASSUME NEW w \in Workers, Continue(w)
        PROVE  notices' = notices \/ CloseNotice(w)
    BY <2>1 DEF Continue, CreateInsert, Welcome, PlayerInsert, AiRead, AiCall, AiInsert,
       AgentInsert, AgentTicket, CloseUpdate, CheckRead, CheckWrite, RateInsert, JoinInsert,
       JoinTicket, TokenFind, TokenInsert, RagPlayer, RagQuery, RagInsert, RagError, Say
  <2>2. CASE UNCHANGED vars
    BY <2>2
  <2> QED
    BY <2>1, <2>2, NextSteps
       DEF CreateCheck, TokenUpdate, JoinCheck, CloseCheck, RateCheck, PlayerCheck, AgentCheck, RagCheck,
           Fault, OneCall, CreateTicket, TicketReply, UpdateStatus, UpdatePriority,
           DirectPlayerMessage, SwitchLibrary, Say, TimePasses, CronRead, CronResolve, CronFault, Crash
<1> QED
  BY <1>1, <1>2, <1>3
-----------------------------------------------------------------------------
(* Towards NoLostResolution: of the three reasons why a fully closed       *)
(* ticket may be left alone, none is lost without another taking its place.*)
Closer(w, t) == req[w].pc \in Closing /\ req[w].t = t

LEMMA WriteKeepsMarks ==
    ASSUME TypeOK, NEW u \in Tickets, NEW status, NEW stamp, WriteTicket(u, status, stamp)
    PROVE  \A t \in Tickets :
              /\ tStatus[t] = "RESOLVED" => tStatus'[t] = "RESOLVED" \/ t \in excused'
              /\ t \in excused => t \in excused'
  BY DEF WriteTicket, TypeOK

LEMMA MarksStep ==
    Grounds /\ [Next]_vars =>
        \A t \in Tickets :
            /\ tStatus[t] = "RESOLVED" => tStatus'[t] = "RESOLVED" \/ t \in excused'
            /\ t \in excused => \/ t \in excused'
                               \/ \E w \in Workers : CloseUpdate(w) /\ req[w].t = t
<1> SUFFICES ASSUME Grounds, [Next]_vars
             PROVE  \A t \in Tickets :
                /\ tStatus[t] = "RESOLVED" => tStatus'[t] = "RESOLVED" \/ t \in excused'
                /\ t \in excused => \/ t \in excused'
                                   \/ \E w \in Workers : CloseUpdate(w) /\ req[w].t = t
  OBVIOUS
<1>1. ASSUME NEW u \in Tickets, NEW status, NEW stamp, WriteTicket(u, status, stamp)
      PROVE  \A t \in Tickets :
                /\ tStatus[t] = "RESOLVED" => tStatus'[t] = "RESOLVED" \/ t \in excused'
                /\ t \in excused => t \in excused'
  BY <1>1, WriteKeepsMarks DEF Grounds
<1>2. ASSUME tStatus' = tStatus, excused \subseteq excused'
      PROVE  \A t \in Tickets :
                /\ tStatus[t] = "RESOLVED" => tStatus'[t] = "RESOLVED"
                /\ t \in excused => t \in excused'
  BY <1>2
<1>3. ASSUME NEW w \in Workers, Continue(w)
      PROVE  \/ tStatus' = tStatus /\ excused \subseteq excused'
             \/ \E u \in Tickets : \E status, stamp : WriteTicket(u, status, stamp)
             \/ CloseUpdate(w)
  <2>1. CASE AgentTicket(w) \/ CheckWrite(w) \/ JoinTicket(w)
    <3>1. RequestOK(req[w])
      BY DEF Grounds, RequestsOK
    <3>2. req[w].t \in Tickets
      BY <2>1, <3>1 DEF AgentTicket, CheckWrite, JoinTicket, At, RequestOK, OnTicket, Closing
    <3> QED
      BY <2>1, <3>2 DEF AgentTicket, CheckWrite, JoinTicket
  <2> QED
    BY <1>3, <2>1 DEF Continue, CreateInsert, Welcome, PlayerInsert, AiRead, AiCall, AiInsert,
       AgentInsert, CloseNotice, CheckRead, RateInsert, JoinInsert, TokenFind, TokenInsert, RagPlayer, RagQuery, RagInsert, RagError,
       ticketVars
<1>4. ASSUME NEW w \in Workers, CloseUpdate(w)
      PROVE  \A t \in Tickets : req[w].t = t \/ (t \in excused => t \in excused')
  BY <1>4 DEF CloseUpdate
<1>5. CASE UNCHANGED vars
  BY <1>2, <1>5 DEF vars, ticketVars
<1>6. CASE OneCall
  <2>1. CASE \E t \in Tickets : CreateTicket(t)
    BY <2>1 DEF CreateTicket, Grounds, TypeOK
  <2> QED
    BY <1>1, <1>2, <1>6, <2>1 DEF OneCall, TicketReply, UpdateStatus, UpdatePriority,
       DirectPlayerMessage, SwitchLibrary, ticketVars
<1>7. CASE CronResolve
  BY <1>1, <1>7 DEF CronResolve, Grounds, TypeOK
<1>8. CASE \E w \in Workers, t \in Tickets : TokenUpdate(w, t)
  BY <1>1, <1>8 DEF TokenUpdate
<1>9. ASSUME NEW w \in Workers, Continue(w)
      PROVE  \A t \in Tickets :
                /\ tStatus[t] = "RESOLVED" => tStatus'[t] = "RESOLVED" \/ t \in excused'
                /\ t \in excused => \/ t \in excused'
                                   \/ \E v \in Workers : CloseUpdate(v) /\ req[v].t = t
  <2>1. CASE CloseUpdate(w)
    BY <2>1, <1>4 DEF CloseUpdate, ticketVars
  <2> QED
    BY <1>1, <1>2, <1>3, <1>9, <2>1
<1>10. CASE \E w \in Workers : Fault(w)
  BY <1>2, <1>10 DEF Fault, ticketVars
<1>11. CASE Crash \/ TimePasses \/ CronRead \/ CronFault
  BY <1>2, <1>11 DEF Crash, TimePasses, CronRead, CronFault, ticketVars
<1>12. ASSUME NEW w \in Workers,
              \/ \E t \in Tickets : CreateCheck(w, t)
              \/ \E t \in Tickets, by \in Staff : JoinCheck(w, by, t)
              \/ \E s \in Sessions : CloseCheck(w, s) \/ RateCheck(w, s) \/ RagCheck(w, s)
              \/ \E s \in Sessions, text \in BOOLEAN : PlayerCheck(w, s, text)
              \/ \E s \in Sessions, by \in Staff : AgentCheck(w, by, s)
      PROVE  tStatus' = tStatus /\ excused' = excused
  BY <1>12 DEF CreateCheck, JoinCheck, CloseCheck, RateCheck, PlayerCheck, AgentCheck, RagCheck, ticketVars
<1> QED
  BY <1>2, <1>5, <1>6, <1>7, <1>8, <1>9, <1>10, <1>11, <1>12, NextSteps

LEMMA ClosersStep ==
    Grounds /\ [Next]_vars =>
        \A t \in Tickets, v \in Workers : Closer(v, t) =>
            \/ Closer(v, t)'
            \/ t \in excused'
            \/ tStatus'[t] = "RESOLVED"
            \/ ~AllClosed(t)
<1> SUFFICES ASSUME Grounds, [Next]_vars,
                    NEW t \in Tickets, NEW v \in Workers, Closer(v, t),
                    req'[v] # req[v]
             PROVE  \/ Closer(v, t)'
                    \/ t \in excused'
                    \/ tStatus'[t] = "RESOLVED"
                    \/ ~AllClosed(t)
  BY DEF Closer
<1>a. req[v].pc \in Closing /\ req[v].t = t
  BY DEF Closer
<1>b. req \in [Workers -> Request]
  BY DEF Grounds, TypeOK
<1>1. CASE UNCHANGED vars
  BY <1>1 DEF vars
<1>2. ASSUME NEW w \in Workers, NEW pc, NEW u, NEW s, NEW by, Begin(w, pc, u, s, by)
      PROVE  req'[v] = req[v]
  BY <1>2, <1>a, <1>b DEF Begin, At, Closing
<1>3. ASSUME NEW w \in Workers, Continue(w)
      PROVE  \/ Closer(v, t)'
             \/ tStatus'[t] = "RESOLVED"
             \/ ~AllClosed(t)
  <2>1. w = v
    BY <1>3, <1>b DEF Continue, CreateInsert, Welcome, PlayerInsert, AiRead, AiCall, AiInsert,
       AgentInsert, AgentTicket, CloseUpdate, CloseNotice, CheckRead, CheckWrite, RateInsert,
       JoinInsert, JoinTicket, TokenFind, TokenInsert, RagPlayer, RagQuery, RagInsert, RagError, Goto, Done
  <2>2. CloseNotice(v) \/ CheckRead(v) \/ CheckWrite(v)
    BY <1>3, <2>1, <1>a DEF Continue, CreateInsert, Welcome, PlayerInsert, AiRead, AiCall,
       AiInsert, AgentInsert, AgentTicket, CloseUpdate, RateInsert, JoinInsert, JoinTicket,
       TokenFind, TokenInsert, RagPlayer, RagQuery, RagInsert, RagError, At, Closing
  <2>3. ASSUME NEW pc \in Closing, Goto(v, pc)
        PROVE  Closer(v, t)'
    BY <2>3, <1>a, <1>b DEF Goto, Closer, Request
  <2>4. CASE CloseNotice(v) \/ CheckRead(v)
    BY <2>4, <2>3, <1>a DEF CloseNotice, CheckRead, Closing
  <2>5. CASE CheckWrite(v)
    BY <2>5, <1>a DEF CheckWrite, WriteTicket, Grounds, TypeOK
  <2> QED
    BY <2>2, <2>4, <2>5
<1>4. ASSUME NEW w \in Workers, Fault(w)
      PROVE  Closer(v, t)' \/ t \in excused'
  <2>1. w = v
    BY <1>4, <1>b DEF Fault, Goto, Done
  <2>2. CASE AfterFault(req[v].pc) = "idle"
    BY <1>4, <2>1, <2>2, <1>a DEF Fault
  <2>3. CASE AfterFault(req[v].pc) # "idle"
    <3>1. AfterFault(req[v].pc) \in Closing /\ Goto(v, AfterFault(req[v].pc))
      BY <1>4, <2>1, <2>3, <1>a DEF Fault, AfterFault, Closing
    <3> QED
      BY <3>1, <1>a, <1>b DEF Goto, Closer, Request
  <2> QED
    BY <2>2, <2>3
<1>5. CASE Crash
  BY <1>5, <1>a DEF Crash
<1>6. CASE OneCall \/ TimePasses \/ CronRead \/ CronResolve \/ CronFault
  BY <1>6 DEF OneCall, CreateTicket, TicketReply, UpdateStatus, UpdatePriority,
     DirectPlayerMessage, SwitchLibrary, TimePasses, CronRead, CronResolve, CronFault
<1> QED
  BY <1>1, <1>2, <1>3, <1>4, <1>5, <1>6, NextSteps
     DEF CreateCheck, TokenUpdate, JoinCheck, CloseCheck, RateCheck, PlayerCheck, AgentCheck, RagCheck

(* Who may touch status, ticket and agent of a session.                    *)
LEMMA SessionWriters ==
    [Next]_vars => \/ UNCHANGED <<sStatus, sTicket, sAgent>>
                   \/ \E w \in Workers : CloseUpdate(w) \/ CreateInsert(w) \/ JoinInsert(w)
<1> SUFFICES ASSUME [Next]_vars
             PROVE  \/ UNCHANGED <<sStatus, sTicket, sAgent>>
                    \/ \E w \in Workers : CloseUpdate(w) \/ CreateInsert(w) \/ JoinInsert(w)
  OBVIOUS
<1>1. CASE UNCHANGED vars
  BY <1>1 DEF vars, sessionVars
<1>2. ASSUME NEW w \in Workers, Continue(w)
      PROVE  UNCHANGED <<sStatus, sTicket, sAgent>> \/ CloseUpdate(w) \/ CreateInsert(w) \/ JoinInsert(w)
  BY <1>2 DEF Continue, Welcome, PlayerInsert, AiRead, AiCall, AiInsert, AgentInsert,
     AgentTicket, CloseNotice, CheckRead, CheckWrite, RateInsert, JoinTicket, TokenFind,
     TokenInsert, RagPlayer, RagQuery, RagInsert, RagError, sessionVars
<1> QED
  BY <1>1, <1>2, NextSteps
     DEF CreateCheck, TokenUpdate, JoinCheck, CloseCheck, RateCheck, PlayerCheck, AgentCheck, RagCheck,
         Fault, OneCall, CreateTicket, TicketReply, UpdateStatus, UpdatePriority,
         DirectPlayerMessage, SwitchLibrary, TimePasses, CronRead, CronResolve, CronFault, Crash, sessionVars

LEMMA NoLostStep ==
    Grounds /\ NoLostResolution /\ [Next]_vars => NoLostResolution'
<1> SUFFICES ASSUME Grounds, NoLostResolution, [Next]_vars,
                    NEW t \in Tickets, Of(t)' # {}, AllClosed(t)'
             PROVE  \/ tStatus'[t] = "RESOLVED"
                    \/ t \in excused'
                    \/ \E v \in Workers : Closer(v, t)'
  BY DEF NoLostResolution, Closer
<1>1. ASSUME Of(t) # {}, AllClosed(t), ~ \E w \in Workers : CloseUpdate(w) /\ req[w].t = t
      PROVE  \/ tStatus'[t] = "RESOLVED"
             \/ t \in excused'
             \/ \E v \in Workers : Closer(v, t)'
  <2>1. \/ tStatus[t] = "RESOLVED"
        \/ t \in excused
        \/ \E v \in Workers : Closer(v, t)
    BY <1>1 DEF NoLostResolution, Closer
  <2> QED
    BY <1>1, <2>1, MarksStep, ClosersStep
<1>2. CASE UNCHANGED <<sStatus, sTicket, sAgent>> /\ ~ \E w \in Workers : CloseUpdate(w)
  BY <1>1, <1>2 DEF Of, AllClosed, Exists
<1>3. ASSUME NEW w \in Workers, CloseUpdate(w)
      PROVE  \/ tStatus'[t] = "RESOLVED"
             \/ t \in excused'
             \/ \E v \in Workers : Closer(v, t)'
  <2>1. /\ req[w] \in Request
        /\ req[w].s \in Sessions
        /\ Exists(req[w].s)
        /\ sTicket[req[w].s] = req[w].t
    BY <1>3 DEF CloseUpdate, At, Grounds, TypeOK, RequestsOK, RequestOK, OnSession, PCs
  <2>2. CASE req[w].t = t
    <3>1. Closer(w, t)'
      BY <1>3, <2>1, <2>2 DEF CloseUpdate, Goto, Closer, Closing, Request, Grounds, TypeOK
    <3> QED
      BY <3>1
  <2>3. CASE req[w].t # t
    <3>1. /\ \A s \in Sessions : s # req[w].s => sStatus'[s] = sStatus[s]
          /\ sTicket' = sTicket
          /\ sStatus'[req[w].s] # "NONE"
      BY <1>3, <2>1 DEF CloseUpdate, Grounds, TypeOK
    <3>2. Of(t)' = Of(t)
      BY <2>1, <2>3, <3>1 DEF Of, Exists
    <3>3. AllClosed(t)
      BY <2>1, <2>3, <3>1, <3>2 DEF AllClosed, Of
    <3>4. \A v \in Workers : CloseUpdate(v) => req[v].t # t
      <4> SUFFICES ASSUME NEW v \in Workers, CloseUpdate(v)
                   PROVE  v = w
        BY <2>3
      <4> QED
        BY <1>3 DEF CloseUpdate, Goto, At, Grounds, TypeOK, Request
    <3> QED
      BY <1>1, <3>2, <3>3, <3>4
  <2> QED
    BY <2>2, <2>3
<1>4. ASSUME NEW w \in Workers, CreateInsert(w) \/ JoinInsert(w),
             ~ \E v \in Workers : CloseUpdate(v)
      PROVE  \/ tStatus'[t] = "RESOLVED"
             \/ t \in excused'
             \/ \E v \in Workers : Closer(v, t)'
  <2>1. PICK s \in Sessions, status \in {"PENDING", "IN_PROGRESS"},
                agent \in {NoOne, req[w].by} : Insert(s, req[w].t, status, agent)
    BY <1>4 DEF CreateInsert, JoinInsert
  <2>2. /\ sStatus[s] = "NONE"
        /\ sStatus'[s] = status
        /\ sTicket'[s] = req[w].t
        /\ \A r \in Sessions : r # s => /\ sStatus'[r] = sStatus[r]
                                      /\ sTicket'[r] = sTicket[r]
    BY <2>1 DEF Insert, Grounds, TypeOK
  <2>3. s \notin Of(t)'
    BY <2>2 DEF AllClosed, Of
  <2>4. Of(t)' = Of(t)
    BY <2>2, <2>3 DEF Of, Exists
  <2>5. AllClosed(t)
    BY <2>2, <2>3, <2>4 DEF AllClosed, Of
  <2> QED
    BY <1>1, <1>4, <2>4, <2>5
<1> QED
  BY <1>2, <1>3, <1>4, SessionWriters
-----------------------------------------------------------------------------
LEMMA InitIsGood == Init => IInv
<1> SUFFICES ASSUME Init
             PROVE  IInv
  OBVIOUS
<1> USE ConstantsAssumption
<1>1. TypeOK
  BY TypeInit
<1>2. RowsOK /\ CronOK /\ ChatOK
  BY DEF Init, RowsOK, CronOK, ChatOK, Exists
<1>3. RequestsOK
  BY DEF Init, RequestsOK, RequestOK, IdleReq, OnTicket, OnSession, AfterQuery, ForAI, Closing, PCs
<1>4. AgentsSpeakInOwnSessions /\ TakenSessionsHearNoUnaskedAi /\ NoticeOnlyWhenClosed
  BY DEF Init, AgentsSpeakInOwnSessions, TakenSessionsHearNoUnaskedAi, NoticeOnlyWhenClosed
<1>5. ResolvedIsStamped
  BY DEF Init, ResolvedIsStamped
<1>6. NoLostResolution
  BY DEF Init, NoLostResolution, Of, AllClosed, Exists
<1> QED
  BY <1>1, <1>2, <1>3, <1>4, <1>5, <1>6 DEF IInv

LEMMA CronStep == Grounds /\ Stable /\ [Next]_vars => CronOK'
<1> SUFFICES ASSUME Grounds, Stable, [Next]_vars
             PROVE  CronOK'
  OBVIOUS
<1>1. cron' \subseteq cron \/ CronRead
  <2>1. ASSUME NEW w \in Workers, Continue(w)
        PROVE  cron' = cron
    BY <2>1 DEF Continue, CreateInsert, Welcome, PlayerInsert, AiRead, AiCall, AiInsert,
       AgentInsert, AgentTicket, CloseUpdate, CloseNotice, CheckRead, CheckWrite, RateInsert,
       JoinInsert, JoinTicket, TokenFind, TokenInsert, RagPlayer, RagQuery, RagInsert, RagError
  <2>2. CASE UNCHANGED vars
    BY <2>2 DEF vars
  <2> QED
    BY <2>1, <2>2, NextSteps
       DEF CreateCheck, TokenUpdate, JoinCheck, CloseCheck, RateCheck, PlayerCheck, AgentCheck, RagCheck,
           Fault, OneCall, CreateTicket, TicketReply, UpdateStatus, UpdatePriority,
           DirectPlayerMessage, SwitchLibrary, TimePasses, CronResolve, CronFault, Crash
<1>2. CASE cron' \subseteq cron
  BY <1>2 DEF Grounds, TypeOK, CronOK, Stable
<1>3. CASE CronRead
  BY <1>3 DEF CronRead, Stale, Open, CronOK, ticketVars
<1> QED
  BY <1>1, <1>2, <1>3

LEMMA Step == IInv /\ [Next]_vars => IInv' /\ Stable
<1> SUFFICES ASSUME IInv, [Next]_vars
             PROVE  IInv' /\ Stable
  OBVIOUS
<1>1. Grounds /\ Chat
  BY DEF IInv, Grounds, Chat
<1>2. [Case!Next]_(Case!vars)
  BY <1>1, CaseStep
<1>3. Stable
  BY <1>1, <1>2, CaseIsStable DEF Grounds
<1>4. TypeOK' /\ RowsOK' /\ ResolvedIsStamped' /\ Chat'
  BY <1>1, <1>2, TypeStep, CaseKeepsRows, CaseKeepsChat DEF IInv, Grounds
<1>5. RequestsOK' /\ CronOK' /\ NoticeOnlyWhenClosed' /\ NoLostResolution'
  BY <1>1, <1>3, RequestStep, CronStep, NoticeStep, NoLostStep DEF IInv
<1> QED
  BY <1>3, <1>4, <1>5 DEF IInv, Chat
-----------------------------------------------------------------------------
(* IInv holds of every reachable state.                                    *)
THEOREM Inductive == Spec => []IInv
<1>1. Init => IInv
  BY InitIsGood
<1>2. IInv /\ [Next]_vars => IInv'
  BY Step
<1> QED
  BY <1>1, <1>2, PTL DEF Spec

(* Every reachable state of tickets, sessions, handlers and jobs is        *)
(* well formed.                                                            *)
THEOREM TypeCorrect == Spec => []TypeOK
<1>1. IInv => TypeOK
  BY DEF IInv
<1> QED
  BY <1>1, Inductive, PTL

(* What a handler read before an await and goes on relying on is still so  *)
(* when it acts, whatever the other handlers did.                          *)
THEOREM SnapshotsHold == Spec => []RequestsOK
<1>1. IInv => RequestsOK
  BY DEF IInv
<1> QED
  BY <1>1, Inductive, PTL

(* However handlers overlap, fail or die, a ticket whose sessions are all  *)
(* closed is RESOLVED, about to be checked, or excused.                    *)
THEOREM ResolutionIsNotLost == Spec => []NoLostResolution
<1>1. IInv => NoLostResolution
  BY DEF IInv
<1> QED
  BY <1>1, Inductive, PTL

(* handleAgentMessage lets an AGENT speak only in sessions of their own.   *)
THEOREM AgentsAreConfined == Spec => []AgentsSpeakInOwnSessions
<1>1. IInv => AgentsSpeakInOwnSessions
  BY DEF IInv
<1> QED
  BY <1>1, Inductive, PTL

(* processAIReply never speaks in a session owned by staff, and            *)
(* handleRagQuery only where a knowledge base was given and asked.         *)
THEOREM AiSpeaksWhenAsked == Spec => []TakenSessionsHearNoUnaskedAi
<1>1. IInv => TakenSessionsHearNoUnaskedAi
  BY DEF IInv
<1> QED
  BY <1>1, Inductive, PTL

(* performCloseSession never announces an end that has not come.           *)
THEOREM NoticesAreTrue == Spec => []NoticeOnlyWhenClosed
<1>1. IInv => NoticeOnlyWhenClosed
  BY DEF IInv
<1> QED
  BY <1>1, Inductive, PTL

(* Every RESOLVED ticket carries closedAt.                                 *)
THEOREM StampsArePresent == Spec => []ResolvedIsStamped
<1>1. IInv => ResolvedIsStamped
  BY DEF IInv
<1> QED
  BY <1>1, Inductive, PTL

(* No handler moves a session to another ticket or agent, or reopens it.   *)
THEOREM RowsAreStable == Spec => SessionRowsAreStable
<1>1. IInv /\ [Next]_vars =>
        [\A s \in Sessions : Exists(s) =>
            /\ sTicket'[s] = sTicket[s]
            /\ sAgent'[s] = sAgent[s]
            /\ sStatus[s] = "CLOSED" => sStatus'[s] = "CLOSED"]_vars
  BY Step DEF Stable
<1> QED
  BY <1>1, Inductive, PTL DEF Spec, SessionRowsAreStable

(* The handlers together implement the one-step operations of SupportCase. *)
THEOREM Refinement == Spec => ImplementsSupportCase
<1>1. Init => Case!Init
  BY ConstantsAssumption DEF Init, Case!Init, Staff, Case!Staff, LibraryStates
<1>2. IInv /\ [Next]_vars => [Case!Next]_(Case!vars)
  BY CaseStep DEF IInv, Grounds
<1> QED
  BY <1>1, <1>2, Inductive, PTL DEF Spec, ImplementsSupportCase, Case!Spec
=============================================================================
