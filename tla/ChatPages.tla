----------------------------- MODULE ChatPages ------------------------------
(***************************************************************************)
(* Pages, models and examples of STIGPT: src/stigpt-chat.                  *)
(*                                                                         *)
(* Nobody installs them: every request begins by making sure that they are *)
(* there, one row after the other, and requests overlap.  A conversation   *)
(* then belongs to a page, with a working mode and a model the page offers.*)
(***************************************************************************)
EXTENDS Integers, Sequences

CONSTANTS
    PageRequests,  (* requests that may be in progress at the same time    *)
    MaxCopies      (* bound on the copies of the examples of a page        *)

ASSUME PagesAssumption == MaxCopies \in Nat \ {0}

VARIABLES
    pages,         (* StigptPageConfig rows, by route key                  *)
    models,        (* StigptChatModel rows, by code                        *)
    copies,        (* how often the examples of a page are there           *)
    requests,      (* ensureBootstrapData and what follows                 *)
    chat,          (* one conversation                                     *)
    answered       (* history: has a request got past the bootstrap        *)

pagesVars == <<pages, models, copies, requests, chat, answered>>

(* ROUTE_SURFACE_DEFINITIONS: pages in their order, with their modes.      *)
RouteSurfaces ==
    <<[route |-> "webIdx", modes |-> <<"policy", "project", "aiRead">>, default |-> "policy"],
      [route |-> "answer/policy", modes |-> <<"policy">>, default |-> "policy"],
      [route |-> "answer/project", modes |-> <<"project">>, default |-> "project"],
      [route |-> "aiRead", modes |-> <<"aiRead">>, default |-> "aiRead"]>>

(* The models in their order; the first is the default.                    *)
ModelDefinitions ==
    <<[code |-> "policy-assistant", routes |-> {"webIdx", "answer/policy"}],
      [code |-> "research-copilot", routes |-> {"webIdx", "answer/project"}],
      [code |-> "ai-reader", routes |-> {"webIdx", "aiRead"}]>>

Routes == {RouteSurfaces[i].route : i \in DOMAIN RouteSurfaces}
RouteModes == {"policy", "project", "aiRead"}
ModelCodes == {ModelDefinitions[i].code : i \in DOMAIN ModelDefinitions}
SurfaceOf(route) ==
    RouteSurfaces[CHOOSE i \in DOMAIN RouteSurfaces : RouteSurfaces[i].route = route]

NoChat == [route |-> "none", mode |-> "none", model |-> "none"]
NoRequest == [phase |-> "none", at |-> 1, late |-> FALSE, read |-> NoChat]

PagesTypeOK ==
    /\ pages \in SUBSET Routes /\ models \in SUBSET ModelCodes
    /\ copies \in [Routes -> 0..MaxCopies]
    /\ \A r \in PageRequests :
          /\ requests[r].phase \in {"none", "pages", "models", "count", "create", "serve", "turn"}
          /\ requests[r].at \in 1..Len(RouteSurfaces)
    /\ chat.route \in Routes \cup {"none"}
    /\ answered \in BOOLEAN

PagesInit ==
    /\ pages = {} /\ models = {}
    /\ copies = [route \in Routes |-> 0]
    /\ requests = [r \in PageRequests |-> NoRequest]
    /\ chat = NoChat
    /\ answered = FALSE

Stage(r, phase) == requests[r].phase = phase

(* The loop of a stage goes on, or the next stage begins.                  *)
StageGoes(r, last, next) ==
    requests' = [requests EXCEPT
        ![r].phase = IF requests[r].at = last THEN next ELSE @,
        ![r].at = IF requests[r].at = last THEN 1 ELSE @ + 1]
-----------------------------------------------------------------------------
BeginRequest(r) ==
    /\ Stage(r, "none")
    /\ requests' = [requests EXCEPT ![r] = [NoRequest EXCEPT !.phase = "pages", !.late = answered]]
    /\ UNCHANGED <<pages, models, copies, chat, answered>>

UpsertPage(r) ==
    /\ Stage(r, "pages")
    /\ pages' = pages \cup {RouteSurfaces[requests[r].at].route}
    /\ StageGoes(r, Len(RouteSurfaces), "models")
    /\ UNCHANGED <<models, copies, chat, answered>>

UpsertModel(r) ==
    /\ Stage(r, "models")
    /\ models' = models \cup {ModelDefinitions[requests[r].at].code}
    /\ StageGoes(r, Len(ModelDefinitions), "count")
    /\ UNCHANGED <<pages, copies, chat, answered>>

(* The examples of a page are counted ...                                  *)
CountExamples(r) ==
    /\ Stage(r, "count")
    /\ IF copies[RouteSurfaces[requests[r].at].route] > 0
       THEN StageGoes(r, Len(RouteSurfaces), "serve")
       ELSE requests' = [requests EXCEPT ![r].phase = "create"]
    /\ UNCHANGED <<pages, models, copies, chat, answered>>

(* Mutant: the loop ends with the first page that had none.                *)
CreateExamplesAndReturn(r) ==
    /\ Stage(r, "create")
    /\ LET route == RouteSurfaces[requests[r].at].route
       IN  /\ copies[route] < MaxCopies
           /\ copies' = [copies EXCEPT ![route] = @ + 1]
    /\ requests' = [requests EXCEPT ![r].phase = "serve", ![r].at = 1]
    /\ UNCHANGED <<pages, models, chat, answered>>

(* ... and added when there were none.                                     *)
CreateExamples(r) ==
    /\ Stage(r, "create")
    /\ LET route == RouteSurfaces[requests[r].at].route
       IN  /\ copies[route] < MaxCopies
           /\ copies' = [copies EXCEPT ![route] = @ + 1]
    /\ requests' = [requests EXCEPT
          ![r].phase = IF requests[r].at = Len(RouteSurfaces) THEN "serve" ELSE "count",
          ![r].at = IF requests[r].at = Len(RouteSurfaces) THEN 1 ELSE @ + 1]
    /\ UNCHANGED <<pages, models, chat, answered>>

(* normalizeRouteKey: the first page stands in for an unknown one.         *)
NormalizeRouteKey(route) == IF route \in Routes THEN route ELSE RouteSurfaces[1].route

(* resolveRouteMode: a page with one mode has no choice; otherwise the one *)
(* asked for, the conversation's, the page's default.                      *)
ResolveRouteMode(requested, current, route) ==
    LET surface == SurfaceOf(route)
    IN  IF Len(surface.modes) = 1 THEN surface.modes[1]
        ELSE IF requested \in RouteModes THEN requested
        ELSE IF current \in RouteModes THEN current ELSE surface.default

(* resolveModel: the one asked for, the conversation's, or the page's      *)
(* first, as far as the page has them.                                     *)
ResolveModel(route, requested, current) ==
    LET serves(code) == \E i \in DOMAIN ModelDefinitions :
            /\ ModelDefinitions[i].code = code /\ code \in models
            /\ route \in ModelDefinitions[i].routes
        offered == {i \in DOMAIN ModelDefinitions : serves(ModelDefinitions[i].code)}
    IN  IF serves(requested) THEN requested
        ELSE IF serves(current) THEN current
        ELSE IF offered = {} THEN "none"
        ELSE ModelDefinitions[CHOOSE i \in offered : \A j \in offered : i <= j].code

(* getPageConfig, getModels, getExamples, getKnowledgeBases and the lists  *)
(* only read now.                                                          *)
ServePage(r) ==
    /\ Stage(r, "serve")
    /\ requests' = [requests EXCEPT ![r] = NoRequest]
    /\ answered' = TRUE
    /\ UNCHANGED <<pages, models, copies, chat>>

CreateConversation(r) ==
    /\ Stage(r, "serve") /\ chat = NoChat
    /\ \E asked \in Routes \cup {"unknown"}, mode \in RouteModes \cup {"none"},
          model \in ModelCodes \cup {"none"} :
          LET route == NormalizeRouteKey(asked)
          IN  chat' = [route |-> route, mode |-> ResolveRouteMode(mode, "none", route),
                       model |-> ResolveModel(route, model, "none")]
    /\ requests' = [requests EXCEPT ![r] = NoRequest]
    /\ answered' = TRUE
    /\ UNCHANGED <<pages, models, copies>>

(* prepareConversationTurn reads the conversation ...                      *)
ReadConversation(r) ==
    /\ Stage(r, "serve") /\ chat # NoChat
    /\ requests' = [requests EXCEPT ![r].phase = "turn", ![r].read = chat]
    /\ answered' = TRUE
    /\ UNCHANGED <<pages, models, copies, chat>>

(* ... and stores the turn's mode and model with it.                       *)
StoreConversation(r) ==
    /\ Stage(r, "turn")
    /\ \E mode \in RouteModes \cup {"none"}, model \in ModelCodes \cup {"none"} :
          LET read == requests[r].read
          IN  chat' = [chat EXCEPT
                 !.mode = ResolveRouteMode(mode, read.mode, read.route),
                 !.model = LET m == ResolveModel(read.route, model, read.model)
                           IN  IF m = "none" THEN @ ELSE m]
    /\ requests' = [requests EXCEPT ![r] = NoRequest]
    /\ UNCHANGED <<pages, models, copies, answered>>

(* A call fails or the process stops: what was added stays.                *)
RequestEnds(r) ==
    /\ ~Stage(r, "none")
    /\ requests' = [requests EXCEPT ![r] = NoRequest]
    /\ UNCHANGED <<pages, models, copies, chat, answered>>

PagesNext ==
    \E r \in PageRequests :
        \/ BeginRequest(r) \/ UpsertPage(r) \/ UpsertModel(r)
        \/ CountExamples(r) \/ CreateExamples(r) \/ ServePage(r)
        \/ CreateConversation(r) \/ ReadConversation(r) \/ StoreConversation(r)
        \/ RequestEnds(r)

PagesSpec == PagesInit /\ [][PagesNext]_pagesVars
-----------------------------------------------------------------------------
(* The examples of a page may be there twice, but only by requests that    *)
(* came before anyone was answered: a later request adds nothing.  Whoever *)
(* is answered finds every page with examples, and a conversation stays    *)
(* with a mode and a model of its page, whatever was asked for and         *)
(* whichever turns overlap (ensureBootstrapData, resolveRouteMode,         *)
(* resolveModel).                                                          *)
PagesAreKept ==
    /\ \A r \in PageRequests : requests[r].late => ~Stage(r, "create")
    /\ answered => /\ pages = Routes /\ models = ModelCodes
                   /\ \A route \in Routes : copies[route] > 0
    /\ chat # NoChat =>
          /\ \E k \in DOMAIN SurfaceOf(chat.route).modes :
                SurfaceOf(chat.route).modes[k] = chat.mode
          /\ \E i \in DOMAIN ModelDefinitions :
                ModelDefinitions[i].code = chat.model /\ chat.route \in ModelDefinitions[i].routes
=============================================================================
