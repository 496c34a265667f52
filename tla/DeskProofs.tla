----------------------------- MODULE DeskProofs -----------------------------
(***************************************************************************)
(* Theorems about what an agent works with beside the chat itself: who is  *)
(* online, the cached lists, translations and quick replies.               *)
(***************************************************************************)
EXTENDS MCDesk, SessionQueueProofs

(***************************************************************************)
(* Presence.  A socket is new until it connects; whoever is about to be    *)
(* marked online is noted unless the socket has left again; a client that  *)
(* sent a message is noted while it is there; only a user's socket is      *)
(* looked up when it leaves; and a client that joined a session was a      *)
(* guest or not known yet.                                                 *)
(***************************************************************************)
SocketInOrder(s) ==
    /\ sockets[s].connecting = "none" => sockets[s] = NewSocket
    /\ sockets[s].connecting \in {"verify", "mark"} => sockets[s].user # Guest
    /\ sockets[s].connecting = "mark" /\ sockets[s].leaving = "none" => sockets[s].noted
    /\ sockets[s].leaving \in {"lookup", "unmark"} => sockets[s].user # Guest
    /\ sockets[s].typed /\ sockets[s].leaving = "none" => sockets[s].noted
    /\ sockets[s].joined => sockets[s].late \/ sockets[s].user = Guest
    /\ sockets[s].leaving = "done" /\ ~sockets[s].late =>
          ~sockets[s].noted /\ ~sockets[s].joined

(* Whoever is shown online without an excuse has a socket that is noted:   *)
(* only such a socket is looked up, and takes him offline, when it leaves. *)
Shows(p, s) ==
    /\ sockets[s].user = p /\ sockets[s].noted
    /\ sockets[s].connecting = "done" /\ sockets[s].leaving # "done"

OnlineIsNoted == \A p \in People : online[p] /\ ~excused[p] => \E s \in Sockets : Shows(p, s)

Talking == {s \in Sockets : Alive(s) /\ sockets[s].typed}
GaugeCounts == IsFiniteSet(Talking) /\ gauge = Cardinality(Talking)

PresenceInv ==
    /\ PresenceTypeOK
    /\ \A s \in Sockets : SocketInOrder(s)
    /\ OnlineIsNoted
    /\ GaugeCounts
-----------------------------------------------------------------------------
LEMMA PresenceStarts == PresenceInit => PresenceInv
<1>. SUFFICES ASSUME PresenceInit PROVE PresenceInv
  OBVIOUS
<1>1. PresenceTypeOK
  BY DEF PresenceInit, PresenceTypeOK, NewSocket
<1>2. \A s \in Sockets : SocketInOrder(s)
  BY DEF PresenceInit, SocketInOrder, NewSocket
<1>3. OnlineIsNoted
  BY DEF PresenceInit, OnlineIsNoted
<1>4. Talking = {}
  BY DEF PresenceInit, Talking, Alive, NewSocket
<1>5. GaugeCounts
  BY <1>4, FS_EmptySet DEF GaugeCounts, PresenceInit
<1>. QED  BY <1>1, <1>2, <1>3, <1>5 DEF PresenceInv

(* A socket becomes r, and the others stay as they are.                     *)
SocketRecords == [user : People \cup {Guest},
                  connecting : {"none", "verify", "mark", "done"},
                  leaving : {"none", "lookup", "unmark", "done"},
                  noted : BOOLEAN, typed : BOOLEAN, joined : BOOLEAN, late : BOOLEAN]

Becomes(s, r) == r \in SocketRecords /\ sockets' = [sockets EXCEPT ![s] = r]

LEMMA SocketBecomes ==
    ASSUME PresenceTypeOK, NEW s \in Sockets, NEW r, Becomes(s, r)
    PROVE  sockets' \in [Sockets -> SocketRecords]
BY DEF PresenceTypeOK, SocketRecords, Becomes

Joined(s) == [sockets[s] EXCEPT !.joined = TRUE, !.late = @ \/ sockets[s].user # Guest]
Typed(s) == [sockets[s] EXCEPT !.typed = TRUE]
Left(s) == [sockets[s] EXCEPT !.leaving = IF Known(s) THEN "lookup" ELSE "done",
                              !.noted = Known(s), !.joined = @ /\ Known(s)]
TakenOff(s) == [sockets[s] EXCEPT !.leaving = "done", !.noted = FALSE]

LEMMA SocketSteps ==
    ASSUME PresenceTypeOK, NEW s \in Sockets
    PROVE  /\ FirstMessage(s) => Becomes(s, Typed(s))
           /\ JoinSession(s) => Becomes(s, Joined(s))
           /\ Disconnect(s) => Becomes(s, Left(s))
           /\ MarkOffline(s) => Becomes(s, TakenOff(s))
<1>1. sockets[s] \in SocketRecords
  BY DEF PresenceTypeOK, SocketRecords
<1>2. Typed(s) \in SocketRecords /\ TakenOff(s) \in SocketRecords
  BY <1>1 DEF SocketRecords, Typed, TakenOff
<1>3. Joined(s) \in SocketRecords
  <2>. DEFINE l == sockets[s].late \/ sockets[s].user # Guest
  <2>1. l \in BOOLEAN /\ Joined(s) = [sockets[s] EXCEPT !.joined = TRUE, !.late = l]
    BY <1>1 DEF SocketRecords, Joined
  <2>. HIDE DEF l
  <2>. QED  BY <1>1, <2>1 DEF SocketRecords
<1>4. Left(s) \in SocketRecords
  <2>. DEFINE k == Known(s)
              j == sockets[s].joined /\ k
              l == IF k THEN "lookup" ELSE "done"
  <2>1. k \in BOOLEAN /\ j \in BOOLEAN /\ l \in {"lookup", "done"}
    BY DEF Known
  <2>2. Left(s) = [sockets[s] EXCEPT !.leaving = l, !.noted = k, !.joined = j]
    BY <1>1 DEF SocketRecords, Left
  <2>. HIDE DEF k, j, l
  <2>. QED  BY <1>1, <2>1, <2>2 DEF SocketRecords
<1>5. FirstMessage(s) => sockets' = [sockets EXCEPT ![s] = Typed(s)]
  BY DEF FirstMessage, Typed, PresenceTypeOK
<1>6. JoinSession(s) => sockets' = [sockets EXCEPT ![s] = Joined(s)]
  BY DEF JoinSession, Joined, PresenceTypeOK
<1>7. Disconnect(s) => sockets' = [sockets EXCEPT ![s] = Left(s)]
  BY DEF Disconnect, Left, PresenceTypeOK
<1>8. MarkOffline(s) => sockets' = [sockets EXCEPT ![s] = TakenOff(s)]
  BY DEF MarkOffline, TakenOff, PresenceTypeOK
<1>. QED  BY <1>2, <1>3, <1>4, <1>5, <1>6, <1>7, <1>8 DEF Becomes

LEMMA PresenceTypes == PresenceTypeOK /\ [PresenceNext]_presenceVars => PresenceTypeOK'
<1>. SUFFICES ASSUME PresenceTypeOK, [PresenceNext]_presenceVars PROVE PresenceTypeOK'
  OBVIOUS
<1>a. PresenceTypeOK <=> /\ sockets \in [Sockets -> SocketRecords] /\ gauge \in Int
                         /\ online \in [People -> BOOLEAN] /\ excused \in [People -> BOOLEAN]
  BY Zenon DEF PresenceTypeOK, SocketRecords
<1>b. ASSUME NEW s \in Sockets, NEW r, Becomes(s, r), gauge' \in Int,
             online' \in [People -> BOOLEAN], excused' \in [People -> BOOLEAN]
      PROVE  PresenceTypeOK'
  BY <1>b, SocketBecomes DEF PresenceTypeOK, SocketRecords
<1>1. ASSUME NEW s \in Sockets, Connect(s) PROVE PresenceTypeOK'
  BY <1>1 DEF Connect, PresenceTypeOK
<1>2. ASSUME NEW s \in Sockets, UserFound(s) PROVE PresenceTypeOK'
  BY <1>2 DEF UserFound, PresenceTypeOK
<1>3. ASSUME NEW s \in Sockets, MarkOnline(s) PROVE PresenceTypeOK'
  BY <1>3 DEF MarkOnline, Mark, PresenceTypeOK
<1>4. ASSUME NEW s \in Sockets, FirstMessage(s) PROVE PresenceTypeOK'
  <2>1. online' \in [People -> BOOLEAN] /\ excused' \in [People -> BOOLEAN] /\ gauge' \in Int
    BY <1>4, <1>a DEF FirstMessage
  <2>. QED  BY <2>1, <1>4, <1>b, SocketSteps
<1>5. ASSUME NEW s \in Sockets, JoinSession(s) PROVE PresenceTypeOK'
  BY <1>5, <1>a, <1>b, SocketSteps DEF JoinSession
<1>6. ASSUME NEW s \in Sockets, Disconnect(s) PROVE PresenceTypeOK'
  <2>1. online' \in [People -> BOOLEAN] /\ excused' \in [People -> BOOLEAN]
    BY <1>6, <1>a DEF Disconnect
  <2>2. gauge' = gauge - 1 \/ gauge' = gauge
    BY <1>6 DEF Disconnect
  <2>3. gauge' \in Int
    BY <2>2, <1>a
  <2>. QED  BY <2>1, <2>3, <1>6, <1>b, SocketSteps
<1>7. ASSUME NEW s \in Sockets, RoleFound(s) PROVE PresenceTypeOK'
  BY <1>7 DEF RoleFound, PresenceTypeOK
<1>8. ASSUME NEW s \in Sockets, MarkOffline(s) PROVE PresenceTypeOK'
  <2>1. online' \in [People -> BOOLEAN] /\ excused' \in [People -> BOOLEAN] /\ gauge' \in Int
    BY <1>8, <1>a DEF MarkOffline, Mark
  <2>. QED  BY <2>1, <1>8, <1>b, SocketSteps
<1>9. ASSUME NEW p \in People, SignIn(p) \/ SignOut(p) PROVE PresenceTypeOK'
  BY <1>9 DEF SignIn, SignOut, Mark, PresenceTypeOK
<1>10. CASE RestartGateway
  <2>1. ASSUME NEW s \in Sockets PROVE sockets'[s] \in SocketRecords
    BY <1>10, <1>a DEF RestartGateway, NewSocket, SocketRecords
  <2>2. sockets' = [s \in Sockets |-> sockets'[s]]
    BY <1>10 DEF RestartGateway
  <2>3. sockets' \in [Sockets -> SocketRecords]
    BY <2>1, <2>2
  <2>4. gauge' = 0 /\ online' = online /\ excused' = online
    BY <1>10 DEF RestartGateway
  <2>5. online \in [People -> BOOLEAN]
    BY <1>a
  <2>. QED  BY <2>3, <2>4, <2>5 DEF PresenceTypeOK, SocketRecords
<1>11. CASE UNCHANGED presenceVars
  BY <1>11 DEF presenceVars, PresenceTypeOK
<1>. QED
  BY <1>1, <1>2, <1>3, <1>4, <1>5, <1>6, <1>7, <1>8, <1>9, <1>10, <1>11
  DEF PresenceNext, Socket

LEMMA SocketsStayInOrder ==
    ASSUME PresenceTypeOK, \A s \in Sockets : SocketInOrder(s), [PresenceNext]_presenceVars
    PROVE  \A s \in Sockets : SocketInOrder(s)'
<1>. USE PresenceAssumption
<1>a. sockets \in [Sockets -> SocketRecords]
  BY DEF PresenceTypeOK, SocketRecords
<1>b. ASSUME NEW s \in Sockets, NEW r, sockets' = [sockets EXCEPT ![s] = r], SocketInOrder(s)'
      PROVE  \A t \in Sockets : SocketInOrder(t)'
  BY <1>a, <1>b DEF SocketInOrder
<1>1. ASSUME NEW s \in Sockets, Connect(s) PROVE \A t \in Sockets : SocketInOrder(t)'
  BY <1>1, <1>a DEF Connect, SocketInOrder, NewSocket, SocketRecords
<1>2. ASSUME NEW s \in Sockets, UserFound(s) PROVE \A t \in Sockets : SocketInOrder(t)'
  BY <1>2, <1>a DEF UserFound, SocketInOrder, SocketRecords
<1>3. ASSUME NEW s \in Sockets, MarkOnline(s) PROVE \A t \in Sockets : SocketInOrder(t)'
  BY <1>3, <1>a DEF MarkOnline, SocketInOrder, SocketRecords
<1>4. ASSUME NEW s \in Sockets, FirstMessage(s) PROVE \A t \in Sockets : SocketInOrder(t)'
  BY <1>4, <1>a DEF FirstMessage, Alive, SocketInOrder, SocketRecords
<1>5. ASSUME NEW s \in Sockets, JoinSession(s) PROVE \A t \in Sockets : SocketInOrder(t)'
  <2>1. sockets' = [sockets EXCEPT ![s] = Joined(s)] /\ sockets'[s] = Joined(s)
    BY <1>5, <1>a, SocketSteps DEF Becomes
  <2>2. /\ Joined(s).user = sockets[s].user /\ Joined(s).connecting = sockets[s].connecting
        /\ Joined(s).leaving = sockets[s].leaving /\ Joined(s).noted = sockets[s].noted
        /\ Joined(s).typed = sockets[s].typed
        /\ Joined(s).late <=> (sockets[s].late \/ sockets[s].user # Guest)
    BY <1>a DEF Joined, SocketRecords
  <2>3. Alive(s)
    BY <1>5 DEF JoinSession
  <2>4. SocketInOrder(s)'
    BY <2>1, <2>2, <2>3 DEF SocketInOrder, Alive
  <2>. QED  BY <1>b, <2>1, <2>4
<1>6. ASSUME NEW s \in Sockets, Disconnect(s) PROVE \A t \in Sockets : SocketInOrder(t)'
  <2>1. sockets' = [sockets EXCEPT ![s] = Left(s)] /\ sockets'[s] = Left(s)
    BY <1>6, <1>a, SocketSteps DEF Becomes
  <2>2. /\ Left(s).user = sockets[s].user /\ Left(s).connecting = sockets[s].connecting
        /\ Left(s).leaving = IF Known(s) THEN "lookup" ELSE "done"
        /\ Left(s).noted = Known(s) /\ Left(s).late = sockets[s].late
        /\ Left(s).joined <=> (sockets[s].joined /\ Known(s))
    BY <1>a DEF Left, SocketRecords
  <2>3. Alive(s)
    BY <1>6 DEF Disconnect
  <2>4. SocketInOrder(s)'
    BY <2>1, <2>2, <2>3 DEF SocketInOrder, Alive, Known
  <2>. QED  BY <1>b, <2>1, <2>4
<1>7. ASSUME NEW s \in Sockets, RoleFound(s) PROVE \A t \in Sockets : SocketInOrder(t)'
  <2>. DEFINE r == [sockets[s] EXCEPT !.leaving = "unmark"]
  <2>1. sockets' = [sockets EXCEPT ![s] = r] /\ sockets'[s] = r
    BY <1>7, <1>a DEF RoleFound
  <2>2. /\ r.user = sockets[s].user /\ r.connecting = sockets[s].connecting
        /\ r.leaving = "unmark" /\ r.noted = sockets[s].noted /\ r.typed = sockets[s].typed
        /\ r.joined = sockets[s].joined /\ r.late = sockets[s].late
    BY <1>a DEF SocketRecords
  <2>3. sockets[s].leaving = "lookup" /\ sockets[s].connecting # "none"
    BY <1>7, <1>a DEF RoleFound, SocketInOrder, NewSocket
  <2>. HIDE DEF r
  <2>4. SocketInOrder(s)'
    BY <2>1, <2>2, <2>3 DEF SocketInOrder
  <2>. QED  BY <1>b, <2>1, <2>4
<1>8. ASSUME NEW s \in Sockets, MarkOffline(s) PROVE \A t \in Sockets : SocketInOrder(t)'
  <2>1. sockets' = [sockets EXCEPT ![s] = TakenOff(s)] /\ sockets'[s] = TakenOff(s)
    BY <1>8, <1>a, SocketSteps DEF Becomes
  <2>2. /\ TakenOff(s).user = sockets[s].user
        /\ TakenOff(s).connecting = sockets[s].connecting
        /\ TakenOff(s).leaving = "done" /\ TakenOff(s).noted = FALSE
        /\ TakenOff(s).typed = sockets[s].typed /\ TakenOff(s).joined = sockets[s].joined
        /\ TakenOff(s).late = sockets[s].late
    BY <1>a DEF TakenOff, SocketRecords
  <2>3. /\ sockets[s].leaving = "unmark" /\ sockets[s].connecting # "none"
        /\ sockets[s].user # Guest
    BY <1>8, <1>a DEF MarkOffline, SocketInOrder, NewSocket
  <2>4. SocketInOrder(s)'
    BY <2>1, <2>2, <2>3 DEF SocketInOrder
  <2>. QED  BY <1>b, <2>1, <2>4
<1>9. ASSUME UNCHANGED sockets PROVE \A t \in Sockets : SocketInOrder(t)'
  BY <1>9 DEF SocketInOrder
<1>10. CASE RestartGateway
  BY <1>10, <1>a DEF RestartGateway, SocketInOrder, NewSocket, SocketRecords
<1>. QED
  BY <1>1, <1>2, <1>3, <1>4, <1>5, <1>6, <1>7, <1>8, <1>9, <1>10
  DEF PresenceNext, Socket, SignIn, SignOut, presenceVars

LEMMA OnlineStaysNoted ==
    ASSUME PresenceTypeOK, \A s \in Sockets : SocketInOrder(s), OnlineIsNoted,
           [PresenceNext]_presenceVars
    PROVE  OnlineIsNoted'
<1>. USE PresenceAssumption
<1>a. /\ sockets \in [Sockets -> SocketRecords]
      /\ online \in [People -> BOOLEAN] /\ excused \in [People -> BOOLEAN]
  BY Zenon DEF PresenceTypeOK, SocketRecords
<1>p. Guest \notin People
  BY DEF People
<1>b. ASSUME NEW s \in Sockets, NEW r, sockets' = [sockets EXCEPT ![s] = r],
             \A p \in People : online'[p] /\ ~excused'[p] =>
                /\ online[p] /\ ~excused[p]
                /\ Shows(p, s) => /\ r.user = p /\ r.noted
                                  /\ r.connecting = "done" /\ r.leaving # "done"
      PROVE  OnlineIsNoted'
  <2>1. SUFFICES ASSUME NEW p \in People, online'[p], ~excused'[p]
                 PROVE  \E t \in Sockets : Shows(p, t)'
    BY DEF OnlineIsNoted
  <2>2. PICK t \in Sockets : Shows(p, t)
    BY <1>b, <2>1 DEF OnlineIsNoted
  <2>3. CASE t = s
    <3>1. sockets'[s] = r
      BY <1>a, <1>b
    <3>2. Shows(p, s)'
      BY <1>b, <2>1, <2>2, <2>3, <3>1 DEF Shows
    <3>. QED  BY <3>2
  <2>4. CASE t # s
    <3>1. sockets'[t] = sockets[t]
      BY <1>a, <1>b, <2>4
    <3>. QED  BY <2>2, <3>1 DEF Shows
  <2>. QED  BY <2>3, <2>4
<1>1. ASSUME NEW s \in Sockets, Connect(s) PROVE OnlineIsNoted'
  <2>1. PICK r : sockets' = [sockets EXCEPT ![s] = r]
    BY <1>1, <1>a DEF Connect
  <2>. QED  BY <1>1, <1>b, <2>1 DEF Connect, Shows
<1>2. ASSUME NEW s \in Sockets, UserFound(s) PROVE OnlineIsNoted'
  <2>1. PICK r : sockets' = [sockets EXCEPT ![s] = r]
    BY <1>2, <1>a DEF UserFound
  <2>. QED  BY <1>2, <1>b, <2>1 DEF UserFound, Shows
<1>3. ASSUME NEW s \in Sockets, MarkOnline(s) PROVE OnlineIsNoted'
  <2>. DEFINE r == [sockets[s] EXCEPT !.connecting = "done"]
              u == sockets[s].user
  <2>1. sockets' = [sockets EXCEPT ![s] = r] /\ sockets[s].connecting = "mark"
    BY <1>3, <1>a DEF MarkOnline
  <2>2. /\ r.user = u /\ r.connecting = "done"
        /\ r.leaving = sockets[s].leaving /\ r.noted = sockets[s].noted
    BY <1>a DEF SocketRecords
  <2>. HIDE DEF r
  <2>3. CASE UNCHANGED <<online, excused>>
    BY <1>b, <2>1, <2>3 DEF Shows
  <2>4. CASE Mark(u, TRUE, sockets[s].leaving # "none")
    <3>1. u \in People
      BY <1>a, <2>1 DEF SocketInOrder, SocketRecords
    <3>2. sockets[s].leaving # "none" => excused'[u]
      BY <1>a, <2>4, <3>1 DEF Mark
    <3>3. \A p \in People : p # u => online'[p] = online[p] /\ excused'[p] = excused[p]
      BY <1>a, <2>4 DEF Mark
    <3>4. sockets[s].leaving = "none" => sockets[s].noted
      BY <2>1 DEF SocketInOrder
    <3>5. sockets'[s] = r /\ \A t \in Sockets : t # s => sockets'[t] = sockets[t]
      BY <1>a, <2>1
    <3>6. SUFFICES ASSUME NEW p \in People, online'[p], ~excused'[p]
                   PROVE  \E t \in Sockets : Shows(p, t)'
      BY DEF OnlineIsNoted
    <3>7. CASE p = u
      <4>1. Shows(p, s)'
        BY <2>2, <3>2, <3>4, <3>5, <3>6, <3>7 DEF Shows
      <4>. QED  BY <4>1
    <3>8. CASE p # u
      <4>1. PICK t \in Sockets : Shows(p, t)
        BY <3>3, <3>6, <3>8 DEF OnlineIsNoted
      <4>2. t # s
        BY <3>8, <4>1 DEF Shows
      <4>. QED  BY <3>5, <4>1, <4>2 DEF Shows
    <3>. QED  BY <3>7, <3>8
  <2>. QED  BY <1>3, <2>3, <2>4 DEF MarkOnline
<1>4. ASSUME NEW s \in Sockets, FirstMessage(s) PROVE OnlineIsNoted'
  <2>1. /\ Typed(s).user = sockets[s].user /\ Typed(s).connecting = sockets[s].connecting
        /\ Typed(s).leaving = sockets[s].leaving /\ Typed(s).noted = sockets[s].noted
    BY <1>a DEF Typed, SocketRecords
  <2>2. UNCHANGED <<online, excused>>
    BY <1>4 DEF FirstMessage
  <2>. QED  BY <1>4, <1>b, <2>1, <2>2, SocketSteps DEF Becomes, Shows
<1>5. ASSUME NEW s \in Sockets, JoinSession(s) PROVE OnlineIsNoted'
  <2>1. /\ Joined(s).user = sockets[s].user /\ Joined(s).connecting = sockets[s].connecting
        /\ Joined(s).leaving = sockets[s].leaving /\ Joined(s).noted = sockets[s].noted
    BY <1>a DEF Joined, SocketRecords
  <2>2. UNCHANGED <<online, excused>>
    BY <1>5 DEF JoinSession
  <2>. QED  BY <1>5, <1>b, <2>1, <2>2, SocketSteps DEF Becomes, Shows
<1>6. ASSUME NEW s \in Sockets, Disconnect(s) PROVE OnlineIsNoted'
  <2>1. /\ Left(s).user = sockets[s].user /\ Left(s).connecting = sockets[s].connecting
        /\ Left(s).noted = Known(s) /\ Left(s).leaving = IF Known(s) THEN "lookup" ELSE "done"
    BY <1>a DEF Left, SocketRecords
  <2>2. UNCHANGED <<online, excused>>
    BY <1>6 DEF Disconnect
  <2>3. \A p \in People : Shows(p, s) => Known(s)
    BY <1>p DEF Shows, Known
  <2>. QED  BY <1>6, <1>b, <2>1, <2>2, <2>3, SocketSteps DEF Becomes, Shows
<1>7. ASSUME NEW s \in Sockets, RoleFound(s) PROVE OnlineIsNoted'
  <2>. DEFINE r == [sockets[s] EXCEPT !.leaving = "unmark"]
  <2>1. sockets' = [sockets EXCEPT ![s] = r] /\ UNCHANGED <<online, excused>>
    BY <1>7, <1>a DEF RoleFound
  <2>2. /\ r.user = sockets[s].user /\ r.connecting = sockets[s].connecting
        /\ r.leaving = "unmark" /\ r.noted = sockets[s].noted
    BY <1>a DEF SocketRecords
  <2>. HIDE DEF r
  <2>. QED  BY <1>b, <2>1, <2>2 DEF Shows
<1>8. ASSUME NEW s \in Sockets, MarkOffline(s) PROVE OnlineIsNoted'
  <2>. DEFINE u == sockets[s].user
  <2>1. u \in People
    BY <1>8, <1>a DEF MarkOffline, SocketInOrder, SocketRecords
  <2>2. ~online'[u] \/ excused'[u]
    BY <1>8, <1>a, <2>1 DEF MarkOffline, Mark
  <2>3. \A p \in People : p # u => online'[p] = online[p] /\ excused'[p] = excused[p]
    BY <1>8, <1>a, <2>1 DEF MarkOffline, Mark
  <2>4. \A p \in People : p # u => ~Shows(p, s)
    BY DEF Shows
  <2>. QED  BY <1>8, <1>b, <2>2, <2>3, <2>4, SocketSteps DEF Becomes
<1>9. ASSUME NEW p \in People, SignIn(p) \/ SignOut(p) PROVE OnlineIsNoted'
  <2>1. ~online'[p] \/ excused'[p]
    BY <1>9, <1>a DEF SignIn, SignOut, Mark
  <2>2. \A q \in People : q # p => online'[q] = online[q] /\ excused'[q] = excused[q]
    BY <1>9, <1>a DEF SignIn, SignOut, Mark
  <2>3. sockets' = sockets
    BY <1>9 DEF SignIn, SignOut
  <2>. QED  BY <2>1, <2>2, <2>3 DEF OnlineIsNoted, Shows
<1>10. CASE RestartGateway
  BY <1>10 DEF RestartGateway, OnlineIsNoted
<1>11. CASE UNCHANGED presenceVars
  BY <1>11 DEF presenceVars, OnlineIsNoted, Shows
<1>. QED
  BY <1>1, <1>2, <1>3, <1>4, <1>5, <1>6, <1>7, <1>8, <1>9, <1>10, <1>11
  DEF PresenceNext, Socket

(* The gauge counts a client from its first message until it leaves.        *)
LEMMA GaugeStaysExact ==
    ASSUME PresenceTypeOK, \A s \in Sockets : SocketInOrder(s), GaugeCounts,
           [PresenceNext]_presenceVars
    PROVE  GaugeCounts'
<1>a. sockets \in [Sockets -> SocketRecords]
  BY DEF PresenceTypeOK, SocketRecords
<1>b. ASSUME Talking' = Talking, gauge' = gauge PROVE GaugeCounts'
  BY <1>b DEF GaugeCounts
<1>c. ASSUME NEW s \in Sockets, NEW r, sockets' = [sockets EXCEPT ![s] = r], gauge' = gauge,
             (sockets[s].connecting # "none" /\ sockets[s].leaving = "none" /\ sockets[s].typed)
               <=> (r.connecting # "none" /\ r.leaving = "none" /\ r.typed)
      PROVE  GaugeCounts'
  <2>1. \A t \in Sockets : t # s => sockets'[t] = sockets[t]
    BY <1>a, <1>c
  <2>2. sockets'[s] = r
    BY <1>a, <1>c
  <2>3. Talking' = Talking
    BY <1>c, <2>1, <2>2 DEF Talking, Alive
  <2>. QED  BY <1>b, <1>c, <2>3
<1>1. ASSUME NEW s \in Sockets, Connect(s) PROVE GaugeCounts'
  <2>1. sockets[s].leaving = "none" /\ sockets[s].typed = FALSE
    BY <1>1 DEF Connect, SocketInOrder, NewSocket
  <2>2. ASSUME NEW user \in People \cup {Guest},
               sockets' = [sockets EXCEPT ![s].user = user,
                  ![s].connecting = IF user = Guest THEN "done" ELSE "verify",
                  ![s].noted = (user = Guest)]
        PROVE  sockets'[s].typed = FALSE /\ \A t \in Sockets : t # s => sockets'[t] = sockets[t]
    BY <1>a, <2>1, <2>2 DEF SocketRecords
  <2>3. sockets'[s].typed = FALSE /\ \A t \in Sockets : t # s => sockets'[t] = sockets[t]
    BY <1>1, <2>2 DEF Connect
  <2>4. ASSUME NEW t \in Sockets
        PROVE  (Alive(t) /\ sockets[t].typed)' <=> (Alive(t) /\ sockets[t].typed)
    BY <2>1, <2>3 DEF Alive
  <2>5. Talking' = Talking
    BY <2>4 DEF Talking
  <2>. QED  BY <1>1, <1>b, <2>5 DEF Connect
<1>2. ASSUME NEW s \in Sockets, UserFound(s) PROVE GaugeCounts'
  <2>1. PICK r : /\ sockets' = [sockets EXCEPT ![s] = r] /\ r.connecting # "none"
                 /\ r.leaving = sockets[s].leaving /\ r.typed = sockets[s].typed
    BY <1>2, <1>a DEF UserFound, SocketRecords
  <2>. QED  BY <1>2, <1>c, <2>1 DEF UserFound
<1>3. ASSUME NEW s \in Sockets, MarkOnline(s) PROVE GaugeCounts'
  <2>. DEFINE r == [sockets[s] EXCEPT !.connecting = "done"]
  <2>1. /\ r.connecting = "done" /\ r.leaving = sockets[s].leaving /\ r.typed = sockets[s].typed
    BY <1>a DEF SocketRecords
  <2>2. /\ sockets' = [sockets EXCEPT ![s] = r] /\ gauge' = gauge
        /\ sockets[s].connecting = "mark"
    BY <1>3, <1>a DEF MarkOnline
  <2>. HIDE DEF r
  <2>. QED  BY <1>c, <2>1, <2>2
<1>4. ASSUME NEW s \in Sockets, FirstMessage(s) PROVE GaugeCounts'
  <2>1. /\ Typed(s).connecting = sockets[s].connecting /\ Typed(s).typed = TRUE
        /\ Typed(s).leaving = sockets[s].leaving
    BY <1>a DEF Typed, SocketRecords
  <2>2. sockets' = [sockets EXCEPT ![s] = Typed(s)]
    BY <1>4, SocketSteps DEF Becomes
  <2>3. sockets'[s] = Typed(s) /\ \A t \in Sockets : t # s => sockets'[t] = sockets[t]
    BY <1>a, <2>2
  <2>4. Alive(s) /\ sockets[s].typed = FALSE /\ gauge' = gauge + 1
    BY <1>4, <1>a DEF FirstMessage, SocketRecords
  <2>5. Talking' = Talking \cup {s} /\ s \notin Talking
    BY <2>1, <2>3, <2>4 DEF Talking, Alive
  <2>6. IsFiniteSet(Talking') /\ Cardinality(Talking') = Cardinality(Talking) + 1
    BY <2>5, FS_AddElement DEF GaugeCounts
  <2>. QED  BY <2>4, <2>6 DEF GaugeCounts
<1>5. ASSUME NEW s \in Sockets, JoinSession(s) PROVE GaugeCounts'
  <2>1. /\ Joined(s).connecting = sockets[s].connecting /\ Joined(s).typed = sockets[s].typed
        /\ Joined(s).leaving = sockets[s].leaving
    BY <1>a DEF Joined, SocketRecords
  <2>2. UNCHANGED gauge
    BY <1>5 DEF JoinSession
  <2>. QED  BY <1>5, <1>c, <2>1, <2>2, SocketSteps DEF Becomes
<1>6. ASSUME NEW s \in Sockets, Disconnect(s) PROVE GaugeCounts'
  <2>1. Left(s).leaving # "none" /\ sockets' = [sockets EXCEPT ![s] = Left(s)] /\ Alive(s)
    <3>1. Left(s).leaving = IF Known(s) THEN "lookup" ELSE "done"
      BY <1>a DEF Left, SocketRecords
    <3>. QED  BY <1>6, <3>1, SocketSteps DEF Becomes, Disconnect
  <2>2. sockets'[s].leaving # "none" /\ \A t \in Sockets : t # s => sockets'[t] = sockets[t]
    BY <1>a, <2>1
  <2>3. Talking' = Talking \ {s}
    BY <2>2 DEF Talking, Alive
  <2>4. sockets[s].typed => sockets[s].noted
    BY <2>1 DEF Alive, SocketInOrder
  <2>5. s \in Talking <=> sockets[s].typed
    BY <2>1 DEF Talking
  <2>6. CASE sockets[s].typed
    <3>1. gauge' = gauge - 1
      BY <1>6, <2>4, <2>6 DEF Disconnect
    <3>2. IsFiniteSet(Talking') /\ Cardinality(Talking') = Cardinality(Talking) - 1
      BY <2>3, <2>5, <2>6, FS_RemoveElement DEF GaugeCounts
    <3>. QED  BY <3>1, <3>2 DEF GaugeCounts
  <2>7. CASE ~sockets[s].typed
    <3>1. gauge' = gauge
      BY <1>6, <2>7 DEF Disconnect
    <3>2. Talking' = Talking
      BY <2>3, <2>5, <2>7
    <3>. QED  BY <1>b, <3>1, <3>2
  <2>. QED  BY <2>6, <2>7
<1>7. ASSUME NEW s \in Sockets, RoleFound(s) PROVE GaugeCounts'
  <2>. DEFINE r == [sockets[s] EXCEPT !.leaving = "unmark"]
  <2>1. r.leaving = "unmark"
    BY <1>a DEF SocketRecords
  <2>2. /\ sockets' = [sockets EXCEPT ![s] = r] /\ gauge' = gauge
        /\ sockets[s].leaving = "lookup"
    BY <1>7, <1>a DEF RoleFound
  <2>. HIDE DEF r
  <2>. QED  BY <1>c, <2>1, <2>2
<1>8. ASSUME NEW s \in Sockets, MarkOffline(s) PROVE GaugeCounts'
  <2>1. TakenOff(s).leaving = "done" /\ gauge' = gauge /\ sockets[s].leaving = "unmark"
    BY <1>8, <1>a DEF TakenOff, SocketRecords, MarkOffline
  <2>. QED  BY <1>8, <1>c, <2>1, SocketSteps DEF Becomes
<1>9. ASSUME UNCHANGED <<sockets, gauge>> PROVE GaugeCounts'
  BY <1>9, <1>b DEF Talking, Alive
<1>10. CASE RestartGateway
  <2>1. \A s \in Sockets : sockets'[s].leaving = "done" \/ sockets'[s].connecting = "none"
    BY <1>10, <1>a DEF RestartGateway, NewSocket, SocketRecords
  <2>2. Talking' = {}
    BY <2>1 DEF Talking, Alive
  <2>. QED  BY <1>10, <2>2, FS_EmptySet DEF RestartGateway, GaugeCounts
<1>. QED
  BY <1>1, <1>2, <1>3, <1>4, <1>5, <1>6, <1>7, <1>8, <1>9, <1>10
  DEF PresenceNext, Socket, SignIn, SignOut, presenceVars

LEMMA PresenceStep == PresenceInv /\ [PresenceNext]_presenceVars => PresenceInv'
<1>. SUFFICES ASSUME PresenceInv, [PresenceNext]_presenceVars PROVE PresenceInv'
  OBVIOUS
<1>1. PresenceTypeOK'
  BY PresenceTypes DEF PresenceInv
<1>2. (\A s \in Sockets : SocketInOrder(s))'
  BY SocketsStayInOrder DEF PresenceInv
<1>3. OnlineIsNoted'
  BY OnlineStaysNoted DEF PresenceInv
<1>4. GaugeCounts'
  BY GaugeStaysExact DEF PresenceInv
<1>. QED  BY <1>1, <1>2, <1>3, <1>4 DEF PresenceInv

LEMMA PresenceInductive == PresenceSpec => []PresenceInv
BY PresenceStarts, PresenceStep, PTL DEF PresenceSpec

(* For any number of sockets and users: nobody is shown online for         *)
(* nothing, the gauge counts exactly the clients that sent a message and   *)
(* are still there, and the Maps forget who has left (handleConnection,    *)
(* handleDisconnect, login, logout, a restart).                            *)
THEOREM OnlineExplained == PresenceSpec => []OnlineIsExplained
<1>1. PresenceInv => OnlineIsExplained
  <2>. SUFFICES ASSUME PresenceInv PROVE OnlineIsExplained
    OBVIOUS
  <2>1. ASSUME NEW p \in People, online[p], ~excused[p]
        PROVE  \E s \in Sockets : /\ sockets[s].user = p /\ sockets[s].connecting # "none"
                                  /\ sockets[s].leaving # "done"
    BY <2>1 DEF PresenceInv, OnlineIsNoted, Shows
  <2>2. gauge = Cardinality({s \in Sockets : Alive(s) /\ sockets[s].typed})
    BY DEF PresenceInv, GaugeCounts, Talking
  <2>3. \A s \in Sockets : sockets[s].leaving = "done" /\ ~sockets[s].late =>
           ~sockets[s].noted /\ ~sockets[s].joined
    BY DEF PresenceInv, SocketInOrder
  <2>. QED  BY <2>1, <2>2, <2>3 DEF OnlineIsExplained
<1>. QED  BY <1>1, PresenceInductive, PTL

-----------------------------------------------------------------------------
(* The cache in front of the lists.                                        *)
CacheInv == CacheTypeOK /\ OldAnswersAreExplained

LEMMA CacheStarts == CacheInit => CacheInv
<1>. SUFFICES ASSUME CacheInit PROVE CacheInv
  OBVIOUS
<1>1. NotReading \in [phase : {"none", "get", "wait"}, key : CacheKeys]
  BY CacheAssumption DEF NotReading
<1>. QED
  BY <1>1, CacheAssumption DEF CacheInit, CacheInv, CacheTypeOK, OldAnswersAreExplained

LEMMA CacheTypes == CacheTypeOK /\ [CacheNext]_cacheVars => CacheTypeOK'
<1>. USE CacheAssumption
<1>. DEFINE LoadOf(v) == [phase : {"none", "load", "store"}, value : 0..v]
            Reader == [phase : {"none", "get", "wait"}, key : CacheKeys]
<1>. SUFFICES ASSUME CacheTypeOK, [CacheNext]_cacheVars PROVE CacheTypeOK'
  OBVIOUS
<1>a. NotReading \in Reader
  BY DEF NotReading
<1>b. readers \in [CacheReaders -> Reader] /\ loads \in [CacheKeys -> LoadOf(version)]
  BY DEF CacheTypeOK
<1>c. ASSUME UNCHANGED <<version, cached, writers, overtaken>>,
             readers' \in [CacheReaders -> Reader], loads' \in [CacheKeys -> LoadOf(version)]
      PROVE  CacheTypeOK'
  BY <1>c DEF CacheTypeOK
<1>1. ASSUME NEW r \in CacheReaders, AskCache(r) \/ CacheHit(r) PROVE CacheTypeOK'
  <2>1. PICK v \in Reader : readers' = [readers EXCEPT ![r] = v]
    BY <1>1, <1>a DEF AskCache, CacheHit
  <2>2. readers' \in [CacheReaders -> Reader]
    BY <1>b, <2>1
  <2>3. UNCHANGED <<version, cached, loads, writers, overtaken>>
    BY <1>1 DEF AskCache, CacheHit
  <2>. QED  BY <1>b, <1>c, <2>2, <2>3
<1>2. ASSUME NEW r \in CacheReaders, CacheMiss(r) PROVE CacheTypeOK'
  <2>1. readers' \in [CacheReaders -> Reader]
    BY <1>2, <1>b DEF CacheMiss
  <2>2. readers[r].key \in CacheKeys /\ 0 \in 0..version
    BY <1>b DEF CacheTypeOK
  <2>3. loads' \in [CacheKeys -> LoadOf(version)]
    BY <1>2, <1>b, <2>2 DEF CacheMiss
  <2>4. UNCHANGED <<version, cached, writers, overtaken>>
    BY <1>2 DEF CacheMiss
  <2>. QED  BY <1>c, <2>1, <2>3, <2>4
<1>3. ASSUME NEW k \in CacheKeys, Settle(k), UNCHANGED version
      PROVE  loads' \in [CacheKeys -> LoadOf(version')] /\ readers' \in [CacheReaders -> Reader]
  BY <1>3, <1>a DEF Settle, CacheTypeOK
<1>4. ASSUME NEW k \in CacheKeys, Load(k) PROVE CacheTypeOK'
  BY <1>4 DEF Load, CacheTypeOK
<1>5. ASSUME NEW k \in CacheKeys, Store(k) PROVE CacheTypeOK'
  <2>1. Settle(k) /\ UNCHANGED <<version, writers>>
    BY <1>5 DEF Store
  <2>2. loads' \in [CacheKeys -> LoadOf(version')] /\ readers' \in [CacheReaders -> Reader]
    BY <1>3, <2>1
  <2>3. cached' \in [CacheKeys -> 0..version'] /\ overtaken' \subseteq CacheKeys
    BY <1>5, <2>1 DEF Store, CacheTypeOK
  <2>. QED  BY <2>1, <2>2, <2>3 DEF CacheTypeOK
<1>6. ASSUME NEW k \in CacheKeys, StoreNothing(k) PROVE CacheTypeOK'
  <2>1. Settle(k) /\ UNCHANGED <<version, cached, writers, overtaken>>
    BY <1>6 DEF StoreNothing
  <2>2. loads' \in [CacheKeys -> LoadOf(version')] /\ readers' \in [CacheReaders -> Reader]
    BY <1>3, <2>1
  <2>. QED  BY <2>1, <2>2 DEF CacheTypeOK
<1>7. ASSUME NEW k \in CacheKeys, ExpireKey(k) PROVE CacheTypeOK'
  BY <1>7 DEF ExpireKey, Forget, CacheTypeOK
<1>8. ASSUME NEW w \in CacheWriters, UpdateRow(w) PROVE CacheTypeOK'
  <2>1. version' \in 1..(MaxVersion + 1) /\ 0..version \subseteq 0..version'
    BY <1>8 DEF UpdateRow, CacheTypeOK
  <2>2. cached' \in [CacheKeys -> 0..version'] /\ loads' \in [CacheKeys -> LoadOf(version')]
    BY <1>8, <2>1 DEF UpdateRow, CacheTypeOK
  <2>. QED  BY <1>8, <2>1, <2>2 DEF UpdateRow, CacheTypeOK
<1>9. ASSUME NEW w \in CacheWriters, DeleteKeys(w) PROVE CacheTypeOK'
  BY <1>9 DEF DeleteKeys, Forget, CacheTypeOK
<1>10. ASSUME NEW w \in CacheWriters, DeleteFails(w) PROVE CacheTypeOK'
  BY <1>10 DEF DeleteFails, CacheTypeOK
<1>11. CASE UNCHANGED cacheVars
  BY <1>11 DEF cacheVars, CacheTypeOK
<1>. QED
  BY <1>1, <1>2, <1>4, <1>5, <1>6, <1>7, <1>8, <1>9, <1>10, <1>11 DEF CacheNext

LEMMA OldAnswersStayExplained == CacheInv /\ [CacheNext]_cacheVars => OldAnswersAreExplained'
<1>. USE DEF OldAnswersAreExplained, CacheTypeOK, Pending
<1>. SUFFICES ASSUME CacheInv, [CacheNext]_cacheVars PROVE OldAnswersAreExplained'
  OBVIOUS
<1>1. ASSUME UNCHANGED <<version, cached, writers, overtaken>> PROVE OldAnswersAreExplained'
  BY <1>1 DEF CacheInv
<1>2. ASSUME NEW k \in CacheKeys, Store(k) PROVE OldAnswersAreExplained'
  BY <1>2 DEF CacheInv, Store
<1>3. ASSUME NEW k \in CacheKeys, ExpireKey(k) PROVE OldAnswersAreExplained'
  BY <1>3 DEF CacheInv, ExpireKey, Forget
<1>4. ASSUME NEW w \in CacheWriters, UpdateRow(w) PROVE OldAnswersAreExplained'
  BY <1>4 DEF CacheInv, UpdateRow
<1>5. ASSUME NEW w \in CacheWriters, DeleteKeys(w) PROVE OldAnswersAreExplained'
  <2>1. PICK keys \in SUBSET writers[w] :
           Forget(keys) /\ writers' = [writers EXCEPT ![w] = @ \ keys] /\ UNCHANGED version
    BY <1>5 DEF DeleteKeys
  <2>2. ASSUME NEW k \in CacheKeys
        PROVE  cached'[k] \in {0, version'} \/ Pending(k)' \/ k \in overtaken'
    BY <2>1 DEF CacheInv, Forget
  <2>. QED  BY <2>2
<1>6. ASSUME NEW w \in CacheWriters, DeleteFails(w) PROVE OldAnswersAreExplained'
  BY <1>6 DEF CacheInv, DeleteFails
<1>. QED
  BY <1>1, <1>2, <1>3, <1>4, <1>5, <1>6
  DEF CacheNext, AskCache, CacheHit, CacheMiss, Load, StoreNothing, cacheVars

LEMMA CacheInductive == CacheSpec => []CacheInv
<1>1. CacheInv /\ [CacheNext]_cacheVars => CacheInv'
  BY CacheTypes, OldAnswersStayExplained DEF CacheInv
<1>. QED  BY <1>1, CacheStarts, PTL DEF CacheSpec

(* However many readers, writers and keys there are, a key holds an old    *)
(* answer only while a writer is about to delete it, or after a late load  *)
(* or a refused deletion (getOrSet, delMany, delByPrefix).                 *)
THEOREM OldAnswersExplained == CacheSpec => []OldAnswersAreExplained
<1>1. CacheInv => OldAnswersAreExplained
  BY DEF CacheInv
<1>. QED  BY <1>1, CacheInductive, PTL
-----------------------------------------------------------------------------
(* Languages and translations.  What a detection read is a language, too.  *)
Languages == [player : ValidCodes \cup {"none"}, history : 0..HistoryMax, locked : BOOLEAN]

(* A detection only runs while the history it read is not full.            *)
TranslationInv ==
    /\ TranslationTypeOK
    /\ language \in Languages
    /\ detections \in [PlayerTexts -> [phase : {"none", "called", "done"}, read : Languages]]
    /\ \A p \in PlayerTexts :
          detections[p].phase = "called" => detections[p].read.history < HistoryMax
    /\ translated \in [TranslatedTexts -> [target : ValidCodes \cup {"none", "auto"},
                                           content : ProviderAnswers \cup {"none"}]]
    /\ translating \in [TranslateCalls -> [message : TranslatedTexts \cup {"none"},
                                           asked : Targets \cup ValidCodes \cup {"none", "zh"}]]

LEMMA TranslationStarts == TranslationInit => TranslationInv
BY TranslationAssumption
DEF TranslationInit, TranslationInv, TranslationTypeOK, Languages, UnknownLanguage,
    NoTranslation, NotTranslating, ProviderAnswers

LEMMA ConfirmedIsValid ==
    ASSUME NEW read \in Languages, NEW code \in ValidCodes
    PROVE  ConfirmLanguage(read, code) \in ValidCodes
BY DEF ConfirmLanguage

LEMMA TranslationStep == TranslationInv /\ [TranslationNext]_translationVars => TranslationInv'
<1>. USE TranslationAssumption
<1>. SUFFICES ASSUME TranslationInv, [TranslationNext]_translationVars PROVE TranslationInv'
  OBVIOUS
<1>a. TranslationInv' <=>
        /\ language' \in Languages
        /\ detections' \in [PlayerTexts -> [phase : {"none", "called", "done"}, read : Languages]]
        /\ \A p \in PlayerTexts :
              detections'[p].phase = "called" => detections'[p].read.history < HistoryMax
        /\ translated' \in [TranslatedTexts -> [target : ValidCodes \cup {"none", "auto"},
                                               content : ProviderAnswers \cup {"none"}]]
        /\ translating' \in [TranslateCalls -> [message : TranslatedTexts \cup {"none"},
                                               asked : Targets \cup ValidCodes \cup {"none", "zh"}]]
        /\ sessionOpen' \in BOOLEAN
  BY DEF TranslationInv, TranslationTypeOK, Languages
<1>1. ASSUME NEW p \in PlayerTexts, CreatePlayerText(p) PROVE TranslationInv'
  BY <1>1, <1>a DEF CreatePlayerText, TranslationInv, TranslationTypeOK, Languages
<1>2. ASSUME NEW p \in PlayerTexts, DetectEnds(p) PROVE TranslationInv'
  <2>. DEFINE read == detections[p].read
  <2>1. read \in Languages /\ read.history < HistoryMax
    BY <1>2 DEF DetectEnds, TranslationInv
  <2>2. PICK answer \in Detected :
           language' = [player |-> ConfirmLanguage(read, IF answer \in ValidCodes THEN answer ELSE "zh"),
                        history |-> read.history + 1, locked |-> Confidence(answer) > 90]
    BY <1>2 DEF DetectEnds
  <2>. DEFINE code == IF answer \in ValidCodes THEN answer ELSE "zh"
  <2>3. code \in ValidCodes
    BY DEF ValidCodes
  <2>4. ConfirmLanguage(read, code) \in ValidCodes
    BY <2>1, <2>3, ConfirmedIsValid
  <2>5. read.history + 1 \in 0..HistoryMax
    BY <2>1 DEF Languages
  <2>6. (Confidence(answer) > 90) \in BOOLEAN
    OBVIOUS
  <2>7. language' \in Languages
    <3>. HIDE DEF read
    <3>. DEFINE l == Confidence(answer) > 90
                c == ConfirmLanguage(read, code)
    <3>1. l \in BOOLEAN /\ c \in ValidCodes /\ language' = [player |-> c, history |-> read.history + 1, locked |-> l]
      BY <2>2, <2>4, <2>6
    <3>. HIDE DEF l, c
    <3>. QED  BY <2>5, <3>1 DEF Languages
  <2>. QED  BY <1>2, <1>a, <2>7 DEF DetectEnds, TranslationInv, TranslationTypeOK
<1>3. ASSUME NEW p \in PlayerTexts, DetectFails(p) PROVE TranslationInv'
  BY <1>3, <1>a DEF DetectFails, TranslationInv, TranslationTypeOK
<1>4. LeaveSession => TranslationInv'
  BY <1>a DEF LeaveSession, TranslationInv, TranslationTypeOK
<1>5. ASSUME NEW c \in TranslateCalls, NEW m \in TranslatedTexts,
             BeginTranslate(c, m) \/ BeginTicketTranslate(c, m)
      PROVE  TranslationInv'
  <2>1. PlayersTarget \in ValidCodes
    BY DEF PlayersTarget, ValidCodes, TranslationInv, Languages
  <2>2. \A request \in RequestedTargets \cup TicketTargets :
           NormalizedTarget(request) \in Targets \cup ValidCodes \cup {"none", "zh"}
    BY <2>1 DEF RequestedTargets, TicketTargets, NormalizedTarget
  <2>3. PICK request \in RequestedTargets \cup TicketTargets :
           translating' = [translating EXCEPT ![c] =
              [message |-> m, asked |-> NormalizedTarget(request)]]
    BY <1>5 DEF BeginTranslate, BeginTicketTranslate, AskTranslation
  <2>4. UNCHANGED <<language, detections, translated, sessionOpen>>
    BY <1>5 DEF BeginTranslate, BeginTicketTranslate, AskTranslation
  <2>. QED  BY <1>a, <2>2, <2>3, <2>4 DEF TranslationInv, TranslationTypeOK
<1>6. ASSUME NEW c \in TranslateCalls, NEW m \in TranslatedTexts, TranslateEnds(c, m)
      PROVE  TranslationInv'
  <2>1. MapToBaiduLangCode(translating[c].asked) \in ValidCodes \cup {"none", "auto"}
    BY DEF MapToBaiduLangCode, ValidCodes
  <2>. QED  BY <1>6, <1>a, <2>1 DEF TranslateEnds, TranslationInv, TranslationTypeOK, NotTranslating
<1>7. ASSUME NEW c \in TranslateCalls, NEW m \in TranslatedTexts, TranslateFails(c, m)
      PROVE  TranslationInv'
  BY <1>7, <1>a DEF TranslateFails, TranslationInv, TranslationTypeOK, NotTranslating
<1>8. CASE UNCHANGED translationVars
  BY <1>8, <1>a DEF translationVars, TranslationInv, TranslationTypeOK
<1>. QED  BY <1>1, <1>2, <1>3, <1>4, <1>5, <1>6, <1>7, <1>8 DEF TranslationNext

LEMMA TranslationInductive == TranslationSpec => []TranslationInv
BY TranslationStarts, TranslationStep, PTL DEF TranslationSpec

(* However the answers of the service arrive, only a detection that read   *)
(* another language changes the language of a player once it is found:     *)
(* no answer is sure enough to replace what its detection read (confirmLang *)
(* with the confidence of detectLanguage).                                 *)
THEOREM LanguageSettles == TranslationSpec => SettledLanguageStays
<1>. DEFINE Stays == language.player # "none" /\ language'.player # language.player =>
                        \E p \in PlayerTexts : /\ detections[p].phase = "called"
                                               /\ detections[p].read.player # language.player
<1>1. TranslationInv /\ [TranslationNext]_translationVars => [Stays]_translationVars
  <2>. SUFFICES ASSUME TranslationInv, TranslationNext, language.player # "none",
                       language'.player # language.player
                PROVE  \E p \in PlayerTexts : /\ detections[p].phase = "called"
                                              /\ detections[p].read.player # language.player
    OBVIOUS
  <2>1. PICK p \in PlayerTexts : DetectEnds(p)
    BY DEF TranslationNext, LeaveSession, CreatePlayerText, DetectFails, BeginTranslate,
           BeginTicketTranslate, AskTranslation, TranslateEnds, TranslateFails
  <2>2. detections[p].phase = "called"
    BY <2>1 DEF DetectEnds
  <2>3. PICK answer \in Detected, code \in ValidCodes :
           language'.player = ConfirmLanguage(detections[p].read, code) /\ code = IF answer \in ValidCodes THEN answer ELSE "zh"
    BY <2>1 DEF DetectEnds, ValidCodes
  <2>. QED  BY <2>2, <2>3 DEF ConfirmLanguage, Confidence, TranslationInv, Languages, ValidCodes
<1>. QED  BY <1>1, TranslationInductive, PTL DEF TranslationSpec, SettledLanguageStays

-----------------------------------------------------------------------------
(* Quick replies.  Whoever keeps a reply, or is about to, keeps one that   *)
(* was created: no reply goes back to nobody.                              *)
ReplyRows == [owner : ReplyUsers \cup {"nobody"}, active : BOOLEAN, deleted : BOOLEAN,
              uses : 0..MaxUses, favoriteCount : 0..Cardinality(ReplyUsers)]
ClickRows == [phase : {"none", "read"}, agent : ReplyUsers \cup {"nobody"},
              reply : Replies \cup {"none"}, existing : BOOLEAN]

Keepers(r) == {s \in ReplyUsers : <<s, r>> \in favorites}

OnlyCreatedReplies ==
    /\ \A s \in ReplyUsers, r \in Replies : <<s, r>> \in favorites => replies[r].owner # "nobody"
    /\ \A c \in Clicks : clicks[c].phase = "read" =>
          /\ clicks[c].agent \in ReplyUsers /\ clicks[c].reply \in Replies
          /\ replies[clicks[c].reply].owner # "nobody"

RepliesInv == RepliesTypeOK /\ OnlyCreatedReplies /\ FavoritesAreCounted

LEMMA KeepersAreFew ==
    ASSUME NEW r \in Replies
    PROVE  /\ IsFiniteSet(Keepers(r)) /\ Cardinality(Keepers(r)) \in Nat
           /\ Cardinality(Keepers(r)) \in 0..Cardinality(ReplyUsers)
<1>1. Keepers(r) \subseteq ReplyUsers
  BY DEF Keepers
<1>. QED  BY <1>1, QuickReplyAssumption, FS_Subset, FS_CardinalityType

LEMMA RepliesStart == RepliesInit => RepliesInv
<1>. SUFFICES ASSUME RepliesInit PROVE RepliesInv
  OBVIOUS
<1>1. Cardinality(ReplyUsers) \in Nat /\ MaxUses \in Nat
  BY QuickReplyAssumption, FS_CardinalityType
<1>2. NoReply \in ReplyRows
  BY <1>1 DEF NoReply, ReplyRows
<1>3. NoClick \in ClickRows
  BY DEF NoClick, ClickRows
<1>4. RepliesTypeOK
  BY <1>2, <1>3 DEF RepliesInit, RepliesTypeOK, ReplyRows, ClickRows, Counts
<1>5. OnlyCreatedReplies
  BY DEF RepliesInit, OnlyCreatedReplies, NoClick
<1>6. FavoritesAreCounted
  <2>1. \A r \in Replies : Keepers(r) = {} /\ replies[r].favoriteCount = 0
    BY DEF RepliesInit, Keepers, NoReply
  <2>. QED  BY <2>1, FS_EmptySet DEF FavoritesAreCounted, Keepers
<1>. QED  BY <1>4, <1>5, <1>6 DEF RepliesInv

LEMMA ClearingKeepsCounts ==
    ASSUME NEW s, listed \in [ReplyUsers -> Counts], ClearUserCache(s)
    PROVE  listed' \in [ReplyUsers -> Counts]
BY DEF ClearUserCache, Counts

(* A reply that stays anybody's and keeps its number leaves the books as    *)
(* they are.                                                                *)
LEMMA ReplyBecomes ==
    ASSUME RepliesInv, NEW r \in Replies, NEW row \in ReplyRows,
           replies' = [replies EXCEPT ![r] = row],
           replies[r].owner # "nobody" => row.owner # "nobody",
           row.favoriteCount = replies[r].favoriteCount,
           UNCHANGED <<favorites, clicks>>
    PROVE  /\ replies' \in [Replies -> ReplyRows]
           /\ OnlyCreatedReplies' /\ FavoritesAreCounted'
<1>1. replies \in [Replies -> ReplyRows]
  BY DEF RepliesInv, RepliesTypeOK, ReplyRows
<1>2. replies' \in [Replies -> ReplyRows]
  BY <1>1
<1>3. \A q \in Replies : /\ replies'[q].favoriteCount = replies[q].favoriteCount
                         /\ replies[q].owner # "nobody" => replies'[q].owner # "nobody"
  BY <1>1
<1>. QED  BY <1>2, <1>3 DEF RepliesInv, OnlyCreatedReplies, FavoritesAreCounted

LEMMA ClickEnds ==
    ASSUME RepliesInv, NEW c \in Clicks, clicks' = [clicks EXCEPT ![c] = NoClick]
    PROVE  /\ clicks' \in [Clicks -> ClickRows]
           /\ \A d \in Clicks : clicks'[d].phase = "read" =>
                 clicks[d].phase = "read" /\ clicks'[d] = clicks[d]
<1>1. clicks \in [Clicks -> ClickRows]
  BY DEF RepliesInv, RepliesTypeOK, ClickRows
<1>2. NoClick \in ClickRows /\ NoClick.phase = "none"
  BY DEF NoClick, ClickRows
<1>. QED  BY <1>1, <1>2

(* The row and the counter change together: the agent was not counted and  *)
(* is, or was and is not.                                                  *)
LEMMA ToggleCounts ==
    ASSUME RepliesInv, NEW c \in Clicks, CommitToggle(c)
    PROVE  RepliesInv'
<1>1. PICK s \in ReplyUsers, r \in Replies : /\ s = clicks[c].agent /\ r = clicks[c].reply
                                             /\ replies[r].owner # "nobody"
  BY DEF CommitToggle, RepliesInv, OnlyCreatedReplies
<1>. DEFINE n == replies[r].favoriteCount
            row == [replies[r] EXCEPT !.favoriteCount = CountAfter(c)]
<1>2. replies \in [Replies -> ReplyRows] /\ clicks \in [Clicks -> ClickRows]
  BY DEF RepliesInv, RepliesTypeOK, ReplyRows, ClickRows
<1>3. n = Cardinality(Keepers(r)) /\ n \in Nat /\ IsFiniteSet(Keepers(r))
  BY <1>1, KeepersAreFew DEF RepliesInv, FavoritesAreCounted, Keepers
<1>e. clicks[c].existing \in BOOLEAN
  BY <1>2 DEF ClickRows
<1>4. /\ clicks[c].existing = TRUE => favorites' = favorites \ {<<s, r>>}
      /\ clicks[c].existing = FALSE => favorites' = favorites \cup {<<s, r>>}
  BY <1>1, <1>e DEF CommitToggle, Toggle
<1>5. clicks[c].existing <=> s \in Keepers(r)
  BY <1>1 DEF CommitToggle, Keepers
<1>6. CountAfter(c) = Cardinality(Keepers(r)')
  <2>1. CASE clicks[c].existing = TRUE
    <3>1. Keepers(r)' = Keepers(r) \ {s} /\ s \in Keepers(r)
      BY <1>4, <1>5, <2>1 DEF Keepers
    <3>2. Cardinality(Keepers(r)') = n - 1
      BY <1>3, <3>1, FS_RemoveElement
    <3>3. n # 0
      BY <1>3, <3>1, FS_EmptySet
    <3>4. CountAfter(c) = n - 1
      BY <1>1, <2>1, <3>3 DEF CountAfter
    <3>. QED  BY <3>2, <3>4
  <2>2. CASE clicks[c].existing = FALSE
    <3>1. Keepers(r)' = Keepers(r) \cup {s} /\ s \notin Keepers(r)
      BY <1>4, <1>5, <2>2 DEF Keepers
    <3>2. Cardinality(Keepers(r)') = n + 1
      <4>. HIDE DEF n
      <4>1. Cardinality(Keepers(r) \cup {s}) = Cardinality(Keepers(r)) + 1
        BY <1>3, <3>1, FS_AddElement
      <4>. QED  BY <1>3, <3>1, <4>1
    <3>3. CountAfter(c) = n + 1
      BY <1>1, <2>2 DEF CountAfter
    <3>. QED  BY <3>2, <3>3
  <2>. QED  BY <1>e, <2>1, <2>2
<1>7. Keepers(r)' \subseteq ReplyUsers
  BY DEF Keepers
<1>8. Cardinality(Keepers(r)') \in 0..Cardinality(ReplyUsers)
  BY <1>7, QuickReplyAssumption, FS_Subset, FS_CardinalityType
<1>9. replies' = [replies EXCEPT ![r] = row] /\ row \in ReplyRows /\ row.owner = replies[r].owner
      /\ row.favoriteCount = Cardinality(Keepers(r)')
  <2>1. replies' = [replies EXCEPT ![r].favoriteCount = CountAfter(c)]
    BY <1>1 DEF CommitToggle, Toggle
  <2>2. replies[r] \in ReplyRows
    BY <1>1, <1>2
  <2>3. CountAfter(c) \in 0..Cardinality(ReplyUsers)
    BY <1>6, <1>8
  <2>4. row \in ReplyRows /\ row.owner = replies[r].owner /\ row.favoriteCount = CountAfter(c)
    BY <2>2, <2>3 DEF ReplyRows
  <2>. QED  BY <1>1, <1>2, <1>6, <2>1, <2>4
<1>10. replies' \in [Replies -> ReplyRows]
  BY <1>2, <1>9
<1>11. \A q \in Replies : replies'[q].owner = replies[q].owner
  BY <1>1, <1>2, <1>9
<1>12. FavoritesAreCounted'
  <2>1. ASSUME NEW q \in Replies PROVE replies'[q].favoriteCount = Cardinality(Keepers(q)')
    <3>1. CASE q = r
      BY <1>1, <1>2, <1>9, <3>1
    <3>2. CASE q # r
      <4>1. Keepers(q)' = Keepers(q)
        BY <1>1, <3>2 DEF Keepers, CommitToggle, Toggle
      <4>2. replies'[q] = replies[q]
        BY <1>1, <1>2, <1>9, <3>2
      <4>. QED  BY <4>1, <4>2 DEF RepliesInv, FavoritesAreCounted, Keepers
    <3>. QED  BY <3>1, <3>2
  <2>. QED  BY <2>1 DEF FavoritesAreCounted, Keepers
<1>13. /\ clicks' \in [Clicks -> ClickRows]
       /\ \A d \in Clicks : clicks'[d].phase = "read" =>
             clicks[d].phase = "read" /\ clicks'[d] = clicks[d]
  BY ClickEnds DEF CommitToggle, Toggle
<1>14. favorites' \subseteq favorites \cup {<<s, r>>}
  BY <1>1 DEF CommitToggle, Toggle
<1>15. OnlyCreatedReplies'
  BY <1>1, <1>11, <1>13, <1>14 DEF OnlyCreatedReplies, RepliesInv
<1>16. listed' \in [ReplyUsers -> Counts] /\ UNCHANGED <<categories, counting>>
  BY ClearingKeepsCounts DEF CommitToggle, Toggle, RepliesInv, RepliesTypeOK
<1>17. RepliesTypeOK'
  BY <1>1, <1>10, <1>13, <1>14, <1>16 DEF RepliesTypeOK, RepliesInv, ReplyRows, ClickRows
<1>. QED  BY <1>12, <1>15, <1>17 DEF RepliesInv

LEMMA RepliesStep == RepliesInv /\ [RepliesNext]_replyVars => RepliesInv'
<1>. SUFFICES ASSUME RepliesInv, [RepliesNext]_replyVars PROVE RepliesInv'
  OBVIOUS
<1>a. /\ replies \in [Replies -> ReplyRows] /\ clicks \in [Clicks -> ClickRows]
      /\ listed \in [ReplyUsers -> Counts] /\ counting \in [ReplyUsers -> Counts]
      /\ categories \in [ReplyUsers -> {"absent", "kept", "deleted"}]
      /\ favorites \subseteq ReplyUsers \X Replies
  BY DEF RepliesInv, RepliesTypeOK, ReplyRows, ClickRows
<1>b. ASSUME categories' \in [ReplyUsers -> {"absent", "kept", "deleted"}],
             listed' \in [ReplyUsers -> Counts], counting' \in [ReplyUsers -> Counts],
             UNCHANGED <<replies, favorites, clicks>>
      PROVE  RepliesInv'
  BY <1>a, <1>b DEF RepliesInv, RepliesTypeOK, OnlyCreatedReplies, FavoritesAreCounted,
                    ReplyRows, ClickRows
<1>c. ASSUME NEW r \in Replies, NEW row \in ReplyRows, replies' = [replies EXCEPT ![r] = row],
             replies[r].owner # "nobody" => row.owner # "nobody",
             row.favoriteCount = replies[r].favoriteCount,
             listed' \in [ReplyUsers -> Counts],
             UNCHANGED <<categories, favorites, clicks, counting>>
      PROVE  RepliesInv'
  <2>1. /\ replies' \in [Replies -> ReplyRows] /\ OnlyCreatedReplies' /\ FavoritesAreCounted'
    BY <1>c, ReplyBecomes
  <2>. QED  BY <1>a, <1>c, <2>1 DEF RepliesInv, RepliesTypeOK, ReplyRows, ClickRows
<1>1. ASSUME NEW s \in ReplyUsers, ChangeCategory(s) PROVE RepliesInv'
  BY <1>1, <1>a, <1>b, ClearingKeepsCounts DEF ChangeCategory
<1>2. ASSUME NEW s \in ReplyUsers, NEW r \in Replies, CreateReply(s, r) PROVE RepliesInv'
  <2>. DEFINE row == [NoReply EXCEPT !.owner = s, !.active = TRUE]
  <2>1. Cardinality(ReplyUsers) \in Nat /\ MaxUses \in Nat
    BY QuickReplyAssumption, FS_CardinalityType
  <2>2. row \in ReplyRows /\ row.owner = s /\ row.favoriteCount = 0
    <3>1. 0 \in 0..MaxUses /\ 0 \in 0..Cardinality(ReplyUsers)
      BY <2>1
    <3>2. NoReply \in ReplyRows /\ NoReply.favoriteCount = 0
      BY <3>1 DEF NoReply, ReplyRows
    <3>. QED  BY <3>2 DEF ReplyRows
  <2>3. Keepers(r) = {}
    BY <1>2 DEF CreateReply, RepliesInv, OnlyCreatedReplies, Keepers
  <2>4. replies[r].favoriteCount = 0
    BY <2>3, FS_EmptySet DEF RepliesInv, FavoritesAreCounted, Keepers
  <2>5. replies' = [replies EXCEPT ![r] = row] /\ replies[r].owner = "nobody"
        /\ UNCHANGED <<categories, favorites, clicks, listed, counting>>
    BY <1>2 DEF CreateReply
  <2>. HIDE DEF row
  <2>. QED  BY <1>a, <1>c, <2>2, <2>4, <2>5
<1>3. ASSUME NEW s \in ReplyUsers, NEW r \in Replies, ChangeReply(s, r) PROVE RepliesInv'
  <2>. DEFINE other == ~replies[r].active
              turned == [replies[r] EXCEPT !.active = other]
              gone == [replies[r] EXCEPT !.deleted = TRUE]
  <2>1. replies[r] \in ReplyRows
    BY <1>a
  <2>2. turned \in ReplyRows /\ turned.owner = replies[r].owner
        /\ turned.favoriteCount = replies[r].favoriteCount
    <3>1. other \in BOOLEAN
      OBVIOUS
    <3>. HIDE DEF other
    <3>. QED  BY <2>1, <3>1 DEF ReplyRows
  <2>3. gone \in ReplyRows /\ gone.owner = replies[r].owner
        /\ gone.favoriteCount = replies[r].favoriteCount
    BY <2>1 DEF ReplyRows
  <2>4. replies' = [replies EXCEPT ![r] = turned] \/ replies' = [replies EXCEPT ![r] = gone]
    BY <1>3 DEF ChangeReply
  <2>5. listed' \in [ReplyUsers -> Counts] /\ UNCHANGED <<categories, favorites, clicks, counting>>
    BY <1>3, <1>a, ClearingKeepsCounts DEF ChangeReply
  <2>. HIDE DEF turned, gone
  <2>. QED  BY <1>c, <2>2, <2>3, <2>4, <2>5
<1>4. ASSUME NEW r \in Replies, IncrementUsage(r) PROVE RepliesInv'
  <2>. DEFINE row == [replies[r] EXCEPT !.uses = @ + 1]
  <2>1. replies[r] \in ReplyRows /\ replies[r].uses < MaxUses /\ MaxUses \in Nat
    BY <1>4, <1>a, QuickReplyAssumption DEF IncrementUsage
  <2>2. replies[r].uses + 1 \in 0..MaxUses
    BY <2>1 DEF ReplyRows
  <2>3. row \in ReplyRows /\ row.owner = replies[r].owner
        /\ row.favoriteCount = replies[r].favoriteCount
    BY <2>1, <2>2 DEF ReplyRows
  <2>4. replies' = [replies EXCEPT ![r] = row]
    BY <1>4 DEF IncrementUsage
  <2>5. listed' \in [ReplyUsers -> Counts] /\ UNCHANGED <<categories, favorites, clicks, counting>>
    BY <1>4, <1>a, ClearingKeepsCounts DEF IncrementUsage
  <2>. HIDE DEF row
  <2>. QED  BY <1>c, <2>3, <2>4, <2>5
<1>5. ASSUME NEW c \in Clicks, NEW s \in ReplyUsers, NEW r \in Replies, BeginToggle(c, s, r)
      PROVE  RepliesInv'
  <2>. DEFINE e == <<s, r>> \in favorites
              click == [phase |-> "read", agent |-> s, reply |-> r, existing |-> e]
  <2>1. e \in BOOLEAN /\ clicks' = [clicks EXCEPT ![c] = click]
    BY <1>5 DEF BeginToggle
  <2>. HIDE DEF e
  <2>2. clicks' \in [Clicks -> ClickRows]
    BY <1>a, <2>1 DEF ClickRows
  <2>3. clicks'[c].agent = s /\ clicks'[c].reply = r
        /\ \A d \in Clicks : d # c => clicks'[d] = clicks[d]
    BY <1>a, <2>1
  <2>4. UNCHANGED <<categories, replies, favorites, listed, counting>> /\ replies[r].owner # "nobody"
    BY <1>5 DEF BeginToggle
  <2>5. OnlyCreatedReplies'
    BY <2>3, <2>4 DEF OnlyCreatedReplies, RepliesInv
  <2>6. FavoritesAreCounted'
    BY <2>4 DEF FavoritesAreCounted, RepliesInv
  <2>. QED  BY <1>a, <2>2, <2>4, <2>5, <2>6 DEF RepliesInv, RepliesTypeOK, ReplyRows, ClickRows
<1>6. ASSUME NEW c \in Clicks, CommitToggle(c) PROVE RepliesInv'
  BY <1>6, ToggleCounts
<1>7. ASSUME NEW c \in Clicks, RollBackToggle(c) PROVE RepliesInv'
  <2>1. clicks' = [clicks EXCEPT ![c] = NoClick]
        /\ UNCHANGED <<categories, replies, favorites, listed, counting>>
    BY <1>7 DEF RollBackToggle
  <2>2. /\ clicks' \in [Clicks -> ClickRows]
        /\ \A d \in Clicks : clicks'[d].phase = "read" =>
              clicks[d].phase = "read" /\ clicks'[d] = clicks[d]
    BY <2>1, ClickEnds
  <2>3. OnlyCreatedReplies'
    BY <2>1, <2>2 DEF OnlyCreatedReplies, RepliesInv
  <2>4. FavoritesAreCounted'
    BY <2>1 DEF FavoritesAreCounted, RepliesInv
  <2>. QED  BY <1>a, <2>1, <2>2, <2>3, <2>4 DEF RepliesInv, RepliesTypeOK, ReplyRows, ClickRows
<1>8. ASSUME NEW s \in ReplyUsers, CountCategories(s) PROVE RepliesInv'
  <2>. DEFINE n == IF categories[s] = "kept" THEN Cardinality(ActiveReplies(s)) ELSE 0
  <2>1. Cardinality(Replies) \in Nat
    BY QuickReplyAssumption, FS_CardinalityType
  <2>2. ActiveReplies(s) \subseteq Replies
    BY DEF ActiveReplies
  <2>3. Cardinality(ActiveReplies(s)) \in 0..Cardinality(Replies)
    BY <2>1, <2>2, QuickReplyAssumption, FS_Subset, FS_CardinalityType
  <2>4. {n} \in Counts
    BY <2>1, <2>3 DEF Counts
  <2>5. counting' = [counting EXCEPT ![s] = {n}]
        /\ UNCHANGED <<categories, replies, favorites, clicks, listed>>
    BY <1>8 DEF CountCategories
  <2>. HIDE DEF n
  <2>. QED  BY <1>a, <1>b, <2>4, <2>5
<1>9. ASSUME NEW s \in ReplyUsers, StoreCategories(s) \/ ExpireCategories(s) PROVE RepliesInv'
  <2>1. {} \in Counts /\ counting[s] \in Counts
    BY <1>a DEF Counts
  <2>2. /\ counting' \in [ReplyUsers -> Counts] /\ listed' \in [ReplyUsers -> Counts]
        /\ UNCHANGED <<categories, replies, favorites, clicks>>
    BY <1>9, <1>a, <2>1 DEF StoreCategories, ExpireCategories
  <2>. QED  BY <1>a, <1>b, <2>2
<1>10. CASE UNCHANGED replyVars
  BY <1>10, <1>a, <1>b DEF replyVars
<1>. QED
  BY <1>1, <1>2, <1>3, <1>4, <1>5, <1>6, <1>7, <1>8, <1>9, <1>10 DEF RepliesNext

LEMMA RepliesInductive == RepliesSpec => []RepliesInv
BY RepliesStart, RepliesStep, PTL DEF RepliesSpec

(* For any number of agents, replies and overlapping clicks, the counter   *)
(* of a reply is the number of agents who keep it (toggleFavorite: the     *)
(* unique key refuses the transaction that read too early, and the row and *)
(* the counter change in one transaction).                                 *)
THEOREM FavoritesCounted == RepliesSpec => []FavoritesAreCounted
<1>1. RepliesInv => FavoritesAreCounted
  BY DEF RepliesInv
<1>. QED  BY <1>1, RepliesInductive, PTL
-----------------------------------------------------------------------------
(* Every variable of the queue, the presence, the cache, the translations  *)
(* and the quick replies keeps its type, whichever of them runs.           *)
THEOREM DeskTypesCorrect == DeskSpec => []DeskTypeOK
<1>. DEFINE All == TypeOK /\ PresenceInv /\ CacheInv /\ TranslationInv /\ RepliesInv
<1>1. DeskInit => All
  BY TypeInit, PresenceStarts, CacheStarts, TranslationStarts, RepliesStart DEF DeskInit
<1>2. All /\ [DeskNext]_deskVars => All'
  <2>. SUFFICES ASSUME All, [DeskNext]_deskVars PROVE All'
    OBVIOUS
  <2>1. /\ [Next]_vars /\ [PresenceNext]_presenceVars /\ [CacheNext]_cacheVars
        /\ [TranslationNext]_translationVars /\ [RepliesNext]_replyVars
    BY DEF DeskNext, deskVars
  <2>. QED
    BY <2>1, TypeStep, PresenceStep, CacheTypes, OldAnswersStayExplained, TranslationStep,
       RepliesStep
    DEF CacheInv
<1>3. All => DeskTypeOK
  BY DEF DeskTypeOK, PresenceInv, CacheInv, TranslationInv, RepliesInv
<1>. QED  BY <1>1, <1>2, <1>3, PTL DEF DeskSpec
=============================================================================
