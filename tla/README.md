# STIGPT backend in TLA+

STIGPT backend is one NestJS process over one PostgreSQL database, one Redis server and
a number of outside services (language models, speech, a vector store). It was built as a
support desk — tickets, chat sessions with an AI or a member of staff, a waiting queue —
and has grown a knowledge base, a paper library, conversations and writing tools. This
directory holds TLA+ modules of what happens in it at the same time, TLC configurations
that check them, and proofs for TLAPS.

Almost every hazard in this code has one of two shapes. A handler is a chain of awaited
calls with no transaction around them, so any other handler may run between two of its
calls and what it read is old when it acts. Or the same facts live in two places (rows and
Redis, memory and files, a counter and the rows it counts) that are kept together by jobs
which may fail, be repeated, or overlap. The models therefore make **each awaited call one
atomic step** and keep what a handler read earlier in the state.

## 1. Inventory

### Modelled

| Part of the system | State it keeps | Operations | Modules |
|---|---|---|---|
| Tickets (`ticket/`), chat sessions (`session/`), messages (`message/`, `ticket-message/`), ratings (`satisfaction/`), the gateway's message handlers (`websocket/`), queries in a session (`session-rag`), the hourly job (`ticket-scheduler`) | rows of Ticket, Session, Message, SatisfactionRating; the handlers in flight; the list of stale tickets the job read | create a ticket; create, join, close a session; player, AI, agent and system messages; give a session a knowledge base and query it; the ticket token; rating; status and priority changes; close stale tickets | `SessionTicket`, implementing `SupportCase` |
| Waiting queue (`queue/`), urgency rules (`urgency-rule/`), removal on close (`session/`), recovery at boot (`main.ts`), reconnection (`redis/`) | Session.status, priorityScore, queuePosition; two kinds of Redis sorted set; the connection; the jobs' snapshots | add, remove, position; consistency check; position sync; recovery; recalculation; outage, loss of Redis' memory, restart | `SessionQueue` |
| File logger (`common/logger/logger.service.ts`) | two memory queues, a timer, a chain of flushes, two streams | log, batch, flush, hourly rotation, failing stream, shutdown | `LogQueue` |
| Documents (`document/`), papers put into a knowledge base (`paper/`), the vector store behind them (`vector/`) | rows of Document and DocumentChunk, vectors, files, two counters of the knowledge base; the requests and the background runs in flight | upload, remove, reprocess, index a paper; the run: parse, store batch by batch, complete or fail; restart | `DocumentProcessing` |
| Redis log buffer and its consumer (`redis-log-buffer`, `redis-log-consumer`, `enqueueLog`) | a Redis list, the batch in hand, two files, two connections | push, read–write–trim loop, retry, restart, lost reply, shutdown | `LogBuffer` |
| The nightly job over old log files (`logger.service.ts`) | log files, archives, the jobs of two loggers | compress, delete, fail, restart | `LogArchive` |
| 429 circuit breaker (`common/logger/`, `common/filters/`) | counter and mark in Redis with expiry, copies in memory, the calls in progress | count, set the expiry, open, look, delete, send again, expire, lose Redis | `CircuitBreaker` |
| Writing tasks (`ai-write/`) | outline, sections, profile and history in one JSON column; the handlers' copies | create, outline, section, polish, profile, update, delete | `WriteTask` |
| STIGPT conversations (`stigpt-chat/`) | the conversation, a question and an answer row per turn; pages, models and examples | choose a knowledge base, prepare, stream, answer, complete; install pages, choose mode and model | `ChatTurn`, `ChatPages` |
| Answers from a knowledge base (`rag/`, `session-rag`) | what each question found so far; citation statistics | access, vector and keyword search, merge, fall back, rerank, generate, record | `Retrieval` |
| Library of papers and its graph (`paper/`, `graph/`) | papers, authors, institutions, topics, counts of shared papers | process, process again, delete, fail, restart | `PaperLibrary` |
| Dashboard (`dashboard/`) | a short cache, snapshots, a degraded flag, the manual switch | ask, count, store, refresh, deploy | `Dashboard` |
| Reviews and similarity checks (`ai-review/`, `ai-check/`) | a row per task, the work in memory | upload, work unit by unit, report, fail, delete, restart | `AnalysisTask`, implementing `JobLife` |
| Avatars and talking heads (`avatar/`, `linly-talker/`) | tasks in Maps of the process | create, sound, submit, poll, give up; answer, speak, film | `AvatarTask`, implementing `JobLife` |
| Presence (`websocket/`, `auth/`) | two Maps, a gauge, `isOnline` | connect, first message, join, disconnect, sign in, sign out, restart | `Presence` |
| Translation and language detection (`message/`, `ticket-message/`, `shared/translation/`) | metadata of session and message, read, then a call, then written back whole | detect, translate, reuse | `Translation` |
| Read-through cache (`common/cache/`; games, issue types, rules) | values with expiry, loads in progress | read, join a load, store, change, delete keys | `ReadThroughCache` |
| Quick replies (`quick-reply/`) | categories, replies, favourites, counters, a cached list | create, change, delete, favourite, use, list | `QuickReplies` |

How they interact: closing a session (SessionTicket) removes it from Redis (SessionQueue);
the two modules share the statuses of a session but SessionQueue keeps only QUEUED and
CLOSED, because **no handler of this version sets QUEUED**: such rows are left from
earlier versions (`Legacy` in SessionTicket, the initial rows in SessionQueue), and the
queue code still serves them. LogBuffer hands a line to LogQueue when Redis is not
connected; the models meet at the set `memory`.

What is hard about each, and what makes it correct:

* **Support desk.** Handlers check a session and act an await later; the AI answers up to
  30 seconds after it looked at `agentId`; closing the last session must resolve the ticket
  although a close is four calls; a failed call or a restart may cut a handler anywhere.
  Correct means: nobody is heard in a session that is not theirs, the AI never answers a
  player over an agent's head, an end is announced only when it is true, and no ticket stays open forever
  after its last session.
* **Queue.** Four jobs and any number of closes act on snapshots of rows; Redis may be
  away, forget everything, or be given up for good. Correct means: a closed session leaves
  Redis, a waiting one gets into it, the order is priority then waiting time, the column
  `queuePosition` settles at the rank in Redis.
* **Log queue.** The trigger for a flush (timer or full batch), the promise chain and a
  rotation that replaces the streams must together never forget a waiting line, and the
  stop must flush; the limit of the queue interacts with the errors that are queued twice.
* **Log buffer.** At-least-once delivery from a list that is trimmed *by count* after the
  write: what is trimmed must be what was written.
* **Documents.** A request starts a run and answers; nothing stops a second run of the same
  document, or its removal, while the first is storing chunks, and the facts of a document
  lie in five places. Correct means: what is shown as completed is complete, chunks and
  vectors match, and no document is shown as pending or processing when nobody works on it.
* **Old log files.** The process has two LoggerServices (`main.ts` makes one for the start,
  the framework another), and both run the same job on the same directory at the same
  hour. Correct means: no line is gone before its time.
* **429 breaker.** Counting, setting the expiry and opening are calls of their own, each of
  which may be late, fail, or be sent twice when its answer is lost, and the copy in memory
  takes over whenever Redis is away. Correct means: it opens only after that many refusals
  within a window, and one can name what else opens it.
* **Writing, conversations, translation.** One shape: a row is read, a language model or a
  translator is asked for up to a minute, and the whole row or column is written back.
  Correct means: text is lost only where two handlers overlapped, what is shown says where
  it came from, a settled language stays settled.
* **Answers.** Two searches, either of which may fail, while the owner withdraws access or
  deletes documents; the answer's numbers must point at the right texts.
* **Library.** Runs over papers of the same authors count shared papers in one call and
  write the count in another. Correct means: the graph shows what the papers say.
* **Dashboard and caches.** Values are stored after they were read, while rows change.
  Correct means: one can say how old a shown value may be, and why.
* **Background tasks.** They outlive their request and not the process. Correct means: one
  end per task, a result that appears with it, nobody watching for ever.
* **Presence, quick replies.** One flag for all sockets of a user; a counter beside the rows
  it counts. Correct means: the flag has a reason, the counter is the number of rows.

### Not modelled, and why

* Ticket priority, encryption, validation of the environment, chunking, prompts, parsers,
  exports: pure functions of text, out of proportion to what a model checker can say.
* Guards, filters, interceptors, decorators, DTOs, Swagger, the front end of the logger:
  no state between two requests.
* Clients of outside services (`common/services/`, `dify/`): one request, one answer, of
  which the models keep success or failure.
* Uploads, users, personas, games and rules as rows: a plain insert or update each.
* Listing queries and statistics: they read and compute.
* `log-writer.worker.ts`, `SelfRagService`, `handleRagQueryStream`, `moveToAgentQueue`:
  nothing in this version calls them.

`PROJECT.json` lists every component with its sources, and under `hazards` the line where
each hazard bites, with the properties that are about it.

## 2. SessionTicket and SupportCase

A **worker** is one handler in flight: `req[w]` holds the next call (`pc`) and the ticket,
session and member of staff the handler found. Handlers start in `Arrive`, go on in
`Continue`, fail in `Fault` (a database call throws: `AfterFault` says where the code's
`catch` takes the handler), and all die in `Crash`. Requests that are a single call are in
`OneCall`; `Clock` has the days and the hourly job.

| Code | Actions |
|---|---|
| `SessionService.create` | `CreateCheck`, `CreateInsert`, `Welcome` |
| `SessionService.handlePlayerMessage`, `processAIReply` | `PlayerCheck`, `PlayerInsert`, `AiRead`, `AiCall`, `AiInsert` |
| gateway `handlePlayerMessage`, `handleAgentMessage` | `DirectPlayerMessage`; `AgentCheck`, `AgentInsert`, `AgentTicket` |
| `performCloseSession`, `checkAndUpdateTicketStatus` | `CloseCheck`, `CloseUpdate`, `CloseNotice`, `CheckRead`, `CheckWrite` |
| `SatisfactionService.create` | `RateCheck`, `RateInsert`, then `CheckRead`, `CheckWrite` |
| `joinSessionByTicketId` | `JoinCheck`, `JoinInsert`, `JoinTicket` |
| `TicketService.create`, `updateStatus`, `updatePriority`, `sendMessageByToken` | `CreateTicket`, `UpdateStatus`, `UpdatePriority`; `TokenUpdate`, `TokenFind`, `TokenInsert` |
| `TicketMessageService.create` | `TicketReply` |
| `SessionRagService.enableRag`, `disableRag`, `handleRagQuery` | `SwitchLibrary`; `RagCheck`, `RagPlayer`, `RagQuery`, `RagInsert`, `RagError` |
| `TicketSchedulerService`, `checkStaleTickets` | `CronRead`, `CronResolve`, `CronFault` |

There are two ways for the AI to speak. `processAIReply` answers a player's message, and
only where it saw no agent (`"AI"` in `spoke`). `handleRagQuery` answers a query that
somebody signed in puts to the session's knowledge base, whoever owns the session and
whether or not it is closed (`"LIBRARY"`): it looks at `kbId` and `ragEnabled` (`library`)
and nothing else. Both rows say `senderType = 'AI'`; the model keeps them apart because
they promise different things.

Abstractions: message texts are reduced to who spoke in which session (`spoke`) and
whether the text asks for the AI; `updatedAt` to whole days; a rating to its existence.
Two overlapping runs of the hourly job are left out (a run lasts far less than an hour).
`excused` and `unanswered` are history: no guard reads them.

`SupportCase` is the desk as its users may imagine it: tickets and sessions change in one
step each, agents speak in their own sessions, the AI where nobody owns the session or
where a knowledge base was given to it and asked, and a ticket is resolved only with a
closing stamp. `ImplementsSupportCase` says that the
interleaved handlers, with every stale read, fault and restart, implement it.

`Traffic` limits which events an instance receives: all twelve kinds at once, with two
workers and two sessions, are beyond TLC, and no property needs more than those that
touch its rows. The theorems hold for every `Traffic`.

## 3. SessionQueue

Rows (`status`, `prio`, `pos`) and Redis (`zset[s]`: the priority at which the session is
in the sorted set of its owner, or `Absent`). `Rank(s)` is what `ZRANK` answers, from the
score that `calculateScore` computes: `Weight * priority + (MaxTime - queuedAt)`, read in
descending order, ties by name. The runs have one queue; that a session's rank counts its
own queue only is in `Rank` and in the proofs. Each job keeps its snapshot: `recover`, `check` and
`missing`, `sync` and `found`, `recalc` and `reorder`.

| Code | Actions |
|---|---|
| `performCloseSession` and `removeFromQueue` | `CloseUpdate`, `CloseRemove` |
| `recoverQueueFromDatabase` (called from `main.ts`) | `RecoverRead`, `RecoverAdd` |
| `handleCheckConsistency` | `CheckRead`, `CheckLook`, `CheckAdd` |
| `syncQueueToDatabase` | `SyncRead`, `SyncLook`, `SyncWrite` |
| `recalculateQueue`, `reorderQueue` | `RecalcRead`, `RecalcWrite`, `ReorderRead`, `ReorderWrite` |
| Redis, `retryStrategy`, the process | `ServerDown`, `ServerBack` (with or without its memory), `Reconnect`, `Restart` |

`LongOutages` says whether an outage may outlast all attempts to reconnect, after which
ioredis never connects again (`client = "ended"`).

## 4. Logging: LogQueue, LogBuffer, LogArchive, CircuitBreaker

`LogQueue`: `Enqueue` is `enqueueToMemory` with its drop rule and both triggers; `chain` is
the promise chain, whose elements are a flush and what follows it (nothing, a rotation, the
end); `WriteDone` and `StreamBreaks` are the streams' callbacks. The files of successive
hours are one sequence. `LogBuffer`: `PushLen` and `PushAdd` are the two calls of
`pushLog`; `Fetch`, `Write`, `WriteErrors`, `Confirm` the consumer's loop, `ConfirmFails`
its retry; `ReplyLost` is a connection that breaks after Redis has executed an `LTRIM` and
before the answer arrives (ioredis then sends it again: `autoResendUnfulfilledCommands` is
left at its default); `Restart` kills the process at any point. A file that cannot be
opened at boot is not modelled; a stream that fails later is. How often the consumer
retries is reduced to `LongOutages`.

`LogArchive`: a file is the day of its last line; `jobs[l]` is the nightly job of one
LoggerService, which goes through the directory (`ArchiveOldLogs`, `ReadLog`,
`OpenArchive`, `WriteArchive`, `UnlinkLog`) and then through the archives
(`CleanExpiredLogs`, `DeleteArchive`). Opening an archive empties it: a job that is about
to write what the other has written and whose original is gone loses it for the moment, or
for good if the process stops there; such days are in `overwritten`.

`CircuitBreaker`: `refusal[r]` is a 429 being recorded and then asked about, at its next
call. `RefuseWithRedis` begins it; `Increment` is the `INCR`, `ExpireCounter` the `PEXPIRE`
that follows the first of a window, `OpenCircuit` the mark, `CheckCircuit` the `GET` of
`isCircuitOpen`, `DeleteCircuit` and `DeleteCounter` its two `DEL`s. Redis may execute a
command whose answer is lost; the client then sends it again (`answered = FALSE`, as for
`LTRIM` above), or gives up after three times (`RecordFails`, `DeletionFails`), and the
process may die between any two calls (`CrashRefusals`). `RefuseWithoutRedis` and
`CheckInMemory` are the copies in memory. Ticks stand for milliseconds and pass between the
calls of one refusal as well. `recent`, `spoilt` and `late` are history: for every number of
ticks up to a window, how many refusals are at most that old; whether one of the accidents
`OpensForAReason` names has befallen the counter; whether a refusal was counted in memory in
a later tick than it was given.

## 5. DocumentProcessing

Two kinds of process. `req[h]` is a request in flight, `run[r]` a call of
`processDocument`, which a request starts (`Process`) and does not wait for.

| Code | Actions |
|---|---|
| `DocumentService.upload`, `remove`, `reprocess` | `UploadFind`, `UploadCreate`; `RemoveFind`, `RemoveMark`, `RemoveCount`; `ReprocessFind`, `ReprocessReset`, `ReprocessClear` |
| `PaperService.indexToKnowledgeBase` | `IndexFind`, `IndexCreate`, `IndexLink` |
| `prepareDocumentForProcessing` | `Prepare`, `PrepareVectors`, `PrepareRows`, `PrepareCount`, `PrepareReset` |
| `DocumentProcessorService.processDocument` | `RunStart`, `RunParse`, then `RunVectors` and `RunRows` per batch, `RunComplete`, `RunCount`; `RunFail` is its `catch` |
| any call that throws; a restart | `RunFault`, `HandlerFault`; `Crash` |

A file is its hash and the number of batches it is cut into; a chunk row is (document,
batch, run), where the run stands for the vector id it stored. `createMany` fails as a
whole on the unique index of (documentId, chunkIndex), and for want of vector ids when
there is no Milvus client, since `insert` then returns an empty list without an error.
There is one knowledge base, so that the refusal to link a paper across two is absent.
`lost`, `spoilt` and `overlapped` are history: no guard reads them. `Room` and
`RoomForRow` are bounds of the instance.

## 6. Texts, conversations, answers, papers, dashboard

**WriteTask.** One task and the handlers in flight on it. `calls[c]` is what a handler read
when it began; `End…` is its last write, which puts back whole what was read, with what it
changed. A text is its origin (model, template, fallback, user) and the number of the write
that stored it, so that "is this the section the full text was made from" can be asked.

| Code (`ai-write.service.ts`) | Actions |
|---|---|
| `create`, `delete` | `CreateTask`, `DeleteTask` |
| `generateOutline`, `generateSection`, `polish` | `BeginOutline`, `EndOutline`; `BeginSection`, `EndSection`; `BeginPolish`, `EndPolish` |
| `updateProfile`, `update` | `BeginProfile`, `EndProfile`; `BeginUpdate`, `EndUpdate` |
| any call that throws | `Abandon` |

**ChatTurn.** Turns of one conversation: `TryRequested`, `TryCurrent` and `Recommend` are the
three attempts of `resolveKnowledgeBaseId`, each its own call, `PrepareTurn` the transaction
that adds both rows, `StreamChunk` and `StreamEnd` the stream (`Answer` where there is
none), `FinalizeAssistantMessage` the last write. What the handler and calls of bounded
length do is `TurnWork`; the stream's own steps are `StreamStep`. `ChangeAccess` is the owner of a
knowledge base at any moment between. **ChatPages** is what every request does first
(`UpsertPage`, `UpsertModel`, `CountExamples`, `CreateExamples`, row by row) and which mode
and model a conversation may have; the table of pages is `RouteSurfaces`, as in
`stigpt-chat.definitions.ts`.

**Retrieval.** A question is put by a session (hybrid search) or through the dual route.
`VectorSearch` and `KeywordSearch` end in either order, found or failed; `Merge`,
`VectorAgain` (the fallback), `Rerank`, `Generate`, `RecordCitations` follow.
What is similar to what, how a passage scores and which numbers the model cites are choices.

**PaperLibrary.** `LibraryStep(r)` is a run of `processPaper` at its next call: `Extract`,
then per author `FindAuthor` and `CreateAuthor`, `ClearAuthors`, `LinkAuthors`,
`SyncPaperTopics`, `SyncAuthorInstitutions`, then per pair of authors `CountPair` and
`WritePair`. Titles and years are left out. `doubtful` is history.

**Dashboard.** A result is how many ticks ago its rows were read. `AskDashboard` looks into
the short cache, `ShouldUseSnapshot` into the degraded flag and the snapshot;
`StartCounting` to `CountingEnds` is `computeMetrics`, which takes time; `RefreshStarts` and
`RefreshEnds` the job. `setJson` jitters the life of every key it stores: the sets
`ShortTtls`, `SnapshotTtls` and `DegradedTtls`. `manual` is `DASHBOARD_DEGRADED`, which sends
everybody to the snapshots and which only a new deployment changes (`Redeploy`); what Redis
keeps outlives it. `calm` and `seen` are history.

## 7. Background tasks, presence, translation, caches, quick replies

**JobLife** is what a user may rely on about background work: queued, running, ended once;
a result appears with the end and stays; what was removed does not come back.
**AnalysisTask** and **AvatarTask** implement it (`AnalysesAreJobs`, `ShowsAreJobs`).

AnalysisTask: `CreateCheck` and `CreateReview` are the uploads, `RunCheck` and `RunReview`
the start, `CheckParagraph` and `EvaluateDimension` one unit of work, `CompleteWork` and
`FailWork` the end, which finds its row deleted or not; `LeaveSilently` is a start whose
update throws, `RestartAnalyses` a restart. Similarities are percentages and grades tenths,
with the thresholds and the rounding of the code; what the model or the heuristic says of a
text is a choice among `Similarities`, `Verdicts` and `Grades`.
AvatarTask: `GenerateAudio`, `SubmitVideo`, `Poll` (at most `MaxAttempts` times) and
`GiveUp`; `Chat`, `Speak`, `GenerateVideo`, each going on with less when a service fails.

**Presence.** A socket has two handlers, `Connect`–`UserFound`–`MarkOnline` and
`Disconnect`–`RoleFound`–`MarkOffline`, which overlap when it closes early. `online` is one
flag per user, also written by `SignIn` and `SignOut`. **Translation.** `DetectEnds` writes
back the session's metadata as read by `CreatePlayerText`, `TranslateEnds` the message's.
**ReadThroughCache.** `version` stands for all rows a list depends on; `AskCache`,
`CacheHit`, `CacheMiss`, `Load`, `Store` are the steps of `getOrSet`, `DeleteKeys` one call
of `delMany` or one round of `delByPrefix`. **QuickReplies.** `BeginToggle` and
`CommitToggle` are a transaction at READ COMMITTED, whose insert meets the unique index.

## 8. Runs

Twelve runs, each of at most four minutes with two workers. Parts of the system that share
no state are checked in one run: `MCDesk`, `MCLogging`, `MCProgress` and `MCResearch` hold
one instance of each module and a variable `part` that says which of them runs while the
others stay at their initial states. Nothing is lost by this: no action of one part reads
or writes a variable of another, so their interleavings would only multiply states.
`CHECK_DEADLOCK FALSE` appears where the program really ends or rests (a process that has
stopped, a task that is done) or where an instance has used up its lines, outages, writes
and closes.
`SYMMETRY` (over handlers, sessions, lines, refusals) is used only in runs without a
liveness property, and only over sets whose members the code does not tell apart.

| Run | What it shows | Bounds, and why they are enough |
|---|---|---|
| `support_chat` | confinement of agents, the AI speaks unasked to nobody who has an agent, truth of the end notice, refinement of `SupportCase` | one ticket, one session (perhaps left QUEUED in the database), one agent, one admin, three handlers in flight: each property fails, if at all, by handlers meeting in one session; three are a join, a message and a close, or a query to the knowledge base in place of one; the hourly job resolves meanwhile |
| `support_tickets` | the last close resolves the ticket; what handlers rely on at each call still holds (`RequestsOK`) | two sessions closed at once by two handlers is the hard case; ratings, joins, messages by token, status writes and the hourly job race with it; one failing call anywhere |
| `support_live` | a question for the AI is answered or overtaken, a ticket untouched for the limit is resolved (liveness) | one session, two handlers, one failing call and one restart anywhere; the limit is one day instead of three, since only reaching it matters |
| `desk` | which closed sessions are still in Redis; who is shown online; how old a cached list may be; the favourites counted; a language once settled stays; the breaker opens for a reason | queue: two sessions in one agent's queue, closed, recovered and checked by the consistency job, one outage of any length, with or without a loss of memory, one restart. Presence: two sockets, which suffice for one user twice or two users. Cache: two keys, two readers, two writers, two changes, so that a load can miss either. Language: two detections, one translation. Replies: two agents, two clicks on one reply. Breaker: threshold three, window two, so that refusals leave it one by one, two refusals at once with any number after them, any number of lost answers and crashes |
| `queue_live` | Redis serves priority first, then waiting time; what an outage took is put back, and positions settle at the ranks (liveness) | two sessions in one agent's queue (order is between two), two priorities, weight 10 against times 3 apart; one outage that ends in time, one recalculation in between. Closes and restarts are absent (`LiveNext`): the property is about rows that stay QUEUED |
| `logging` | no waiting line is forgotten, files keep the order, memory is bounded, every line gets out (liveness); old lines are kept for their time | three lines, one of them an error, a queue of two: full after two lines; one rotation, one failing write. Archive: two loggers, periods of one day, days 0 to 4, so that files of several ages meet |
| `log_buffer` | trimmed lines are written, in order, without gaps or needless repetitions; a lost answer costs at most a batch | three lines, list of two, batch of two: refusals and partial batches occur; one outage of any length, one loss of memory, one lost answer, one restart, one failing write |
| `documents` | a completed document has all its chunks, chunks have their vectors, nobody waits for a document in vain | two documents (needed for two rows of one paper), one content of two batches: a run can be overtaken between them; two requests and two runs at once, each kind of request; one failing call or restart anywhere, with or without Milvus. `View` leaves out the two counters of the knowledge base, which no guard reads |
| `research` | text is lost only to an overlap and what is shown of it is true; a completed answer is what was shown; a turn uses what its user may read; pages are installed; "nothing found" has a reason; shared papers are counted; old numbers are explained | writing: two handlers, two sections, three writes, a history of two, so that it overflows. Turns: one streamed and one not, one change of access, two pieces. Pages: two requests at once, all routes, modes and models of the code. Answers: three passages of which two are shown. Library: two papers, two authors of whom one has an institution, two runs: one pair counted by both. Dashboard: two boards, one viewer beside the job, lives of 1 or 2 (short cache), 3 or 4 (snapshot) and 2 or 3 ticks (flag), a counting of one, so that a snapshot gets older than the short cache allows; the switch set and unset |
| `progress` | analyses and avatars implement `JobLife`, reports add up; answers, checks, avatars and buffered lines come to an end (liveness) | one check of at most three paragraphs with similarities on each side of every threshold; one review of either type over three documents: a short one, the richest without method, experiments and results, and the same with results, so that both recommendations and each heuristic occur; two videos, one talk, two polls; two lines, one outage that ends in time, one failing write; two turns at once, one of them streamed, with one piece and one change of access: ends of every kind, whole, broken and blank |

**Where the code and its comments disagree.** Two runs each check one statement of a
comment, and TLC finds it violated; the quotations are in `PROJECT.json`.

| Run | Statement | What the code does |
|---|---|---|
| `claim_restored` | what failed is restored at the next check | not after the client has given up |
| `claim_citations` | an answer's `[n]` is the n-th text it was given | the prompt begins with the SQL summary, the list that is looked up does not: a citation names the text after the one meant, or none; only `[1]` is right, and only when the summary also ranks first |

**Met while modelling.** These are behaviours of the code, most of them seen as
counterexamples of statements that are not part of the runs, some read while translating.
They are recorded because they explain why a property above is no stronger than it is.

| Where | Statement | What the code does |
|---|---|---|
| `ticket.controller.ts:390` | the listed transitions: none leaves RESOLVED | `updateStatus` writes any status over any other |
| `ticket-scheduler.service.ts:22` | answered tickets close after 24 idle hours | three days apply to all |
| `session-rag.service.ts:148` | the AI leaves an agent's session alone (`session.service.ts:264`) | a query to the session's knowledge base is answered there, as an AI message, also when the session is closed, and the query is stored as the player's whoever put it |
| `session-rag.service.ts:153` | the answer is stored with its citations | `message.service.ts:62` stores no `metadata` |
| `session.service.ts:182` | no player message after the end | the insert follows the check by an await |
| `session.service.ts:733` | a closed session is not closed again | two overlapping closes both pass and both announce |
| `session.service.ts:91` | an existing session is reused | two overlapping creates both insert |
| `queue-scheduler.service.ts:43` | the check repairs sessions the database has and Redis lacks | it adds rows read earlier, closed or not |
| `queue-scheduler.service.ts:25` | `queuePosition` agrees with Redis | the sync writes into a row closed meanwhile, and nothing clears it |
| `urgency-rule.service.ts:135` | the order has been recalculated | the recalculation writes rows only, Redis keeps the old scores, the consistency check adds only missing sessions, and the next sync restores the old order |
| `document.service.ts:49` | a file is not stored twice | two overlapping uploads both find nothing and both create a document |
| `document.service.ts:196` | removing a document removes its file | two documents of one paper share the paper's file: removing one makes every later run of the other fail, and the paper cannot be indexed again |
| `document.service.ts:231` | reprocessing starts over | the counters of the knowledge base keep the first run's document and chunks, and the second run adds its own; its vectors stay in Milvus beside the new ones |
| `document-processor.service.ts:91` | a run stores the chunks of its document | a run overtaken by a reprocess collides with the second one: the document may end failed with all its chunks, or completed with chunks of both |
| `schema.prisma:513` | the statuses pending, processing, ready, failed | no code writes `ready`; it is `completed` |
| `logger.service.ts:486` | a full queue drops its oldest line that is not an error | it drops the oldest whatever it is, and errors fill the queue without limit |
| `redis-log-buffer.service.ts:76` | the length is checked against overflow | length and push are two calls, so overlapping pushes all pass |
| `redis-log-consumer.service.ts:179` | lines are deleted from Redis only when written | a repeated `LTRIM` deletes others |
| `ticket.service.ts:276` | resolved only when all sessions are closed (comment at 267) | a session created between read and write is open on a resolved ticket |
| `logger.service.ts:471` | a refused line goes to memory (`redis-log-buffer.service.ts:68`) | `pushLog` answers false and nobody looks: the line is in neither |
| `logger.service.ts:296` | the archive holds the file | two LoggerServices archive the same directory: one empties the archive the other has finished |
| `session.service.ts:222` | the AI answers | a restart while its call is pending loses the question: nothing stored says that an answer is due |
| `baidu.provider.ts:137` | the language of the text | `sourceLanguage` is the source text of the first result, so nearly every player is taken to write Chinese |
| `baidu.provider.ts:282` | a translation | the stand-in text given without network is stored and reused as one |
| `message.service.ts:243` | an existing translation is reused | not for languages Baidu names otherwise (`ja`, `ko`, …): the stored target is Baidu's code, the one compared with is not |
| `document.service.ts:189` | a removed document is gone | its passages stay in Milvus and are still found by vectors |
| `dual-route.service.ts:43` | three routes complete each other | one failing vector search fails the whole question |
| `rate-limit-circuit-breaker.service.ts:84` | the threshold counts refusals | an `INCR` whose answer is lost is sent again and counts its refusal twice; the first answer is then 2, nobody sets the expiry, and the counter outlives its window |
| `rate-limit-circuit-breaker.service.ts:88` | the counter lives for a window (comment at 87) | `PEXPIRE` may fail, come late, or meet a counter created since and lengthen its life; the process may die before it |
| `rate-limit-circuit-breaker.service.ts:161` | the mark that has cooled down is deleted | the two `DEL`s delete what is there by then: perhaps a circuit opened since, and its count |
| `rate-limit-circuit-breaker.service.ts:96` | the circuit stays open for the cooldown | the time written is that of the refusal, before its calls of Redis: the cooldown is over before the key expires |
| `llm.service.ts:160` | a timeout of 60 s | it is over when the headers have come: a stream that stands still is never cut, its turn never ends and its row stays `streaming` |
| `stigpt-chat.service.ts:1237` | examples are installed once | overlapping first requests install them twice |
| `paper.service.ts:559` | deleting a paper removes it from the graph | the counts of shared papers stay |
| `paper.service.ts:312` | one row per author | overlapping runs may create two of one name |
| `paper.service.ts:144` | a failed run is marked failed | after a restart the paper stays in processing |
| `ai-check.service.ts:448` | lost work is shown as stale | so it is for a check; a review that lost its work looks busy for ever |
| `quick-reply.service.ts:463` | creating a reply returns it | it returns nothing, accepts a deleted category and leaves the cached list; `getReplies` answers only who asks for favourites and has none |
| `ai-check.service.ts:198` | a failed check has no report | the completing update may succeed and its answer be lost; the catch then marks the completed task as failed and leaves its report (a lost answer of the database is not modelled) |
| `websocket.gateway.ts:218` | offline means gone | an agent with two connections closes one and is offline while the other is open |
| `dashboard.service.ts:218` | snapshots are for times of high load | with `DASHBOARD_DEGRADED='true'` they are answered for as long as the deployment lives, under any load |
| `dashboard.service.ts:250` | the snapshot is there when needed | its life, spread by jitter, may end before the next refresh |

### Fairness

Safety properties assume none. The liveness properties assume, and the code justifies:

* every handler whose call returned goes on: one event loop, and every awaited call returns
  or throws (queries, the AI calls with their timeouts);
* the cron jobs fire again and again and finish: `@Cron` decorators in `ticket-scheduler`
  and `queue-scheduler`. The job that closes stale tickets runs only with
  `ENABLE_AUTO_CLOSURE='true'`, which `support_live` assumes;
* days pass, timers fire, streams call back, a row that nobody updates grows older;
* a turn that has begun goes on whether or not the browser listens, and its calls with one
  answer end by their timeouts. Its stream need never bring another piece, nor end
  (`StreamStep` has no fairness): axios' timeout does not cover the body of a stream, and
  the loop over it has none of its own. `AnswersArrive` therefore promises that a turn ends
  or listens for ever. Each step of an avatar or a talk ends, since every request has a timeout. The rendering
  itself (`RenderEnds`) need never happen: `Poll` is bounded;
* Redis comes back and ioredis tries to reconnect, except where it has given up.

Nothing is assumed of people: nobody need close, join, write or log anything. Strong
fairness is used once, for the change of day in `LogBuffer` (`NewDay`): it can be taken
only between two rounds of the consumer's loop, so it is disabled again and again, but the
calendar does not wait for a round that happens to be idle. The stop of the process runs
because `main.ts` calls `enableShutdownHooks`.

## 9. Proofs

TLC says that the properties hold on the instances above. Eight modules prove the safety
properties of the passing runs for every value of the constants: any number of tickets,
sessions, handlers, documents, runs, lines, papers, sockets, tasks, faults and restarts.
They assume what the named assumptions of the modules say, and nothing else: identities are
distinct, bounds and periods are numbers, what is counted is finite, and the few facts
about the code's numbers that matter (`Threshold > 1`, a reply belongs to nobody before it
is created, every life of the short cache is exceeded or met by some life of a snapshot, `StaleAge` is
not zero). Each proof has the same plan: an invariant that says what every handler may
still rely on at each of its calls, proved of the initial states and of every step, and the
property as a consequence. Where an invariant was in doubt, TLC tried it on the instance of
the run first.

| Module of proofs | Proves about | Runs' properties |
|---|---|---|
| `SessionTicketProofs` | `SessionTicket`, `SupportCase` | `RequestsOK`, `NoLostResolution`, `AgentsSpeakInOwnSessions`, `TakenSessionsHearNoUnaskedAi`, `NoticeOnlyWhenClosed`, `ImplementsSupportCase` |
| `SessionQueueProofs` | `SessionQueue` | `NoUnexplainedGhosts`, `QueueOrder` |
| `DocumentProofs` | `DocumentProcessing` | `DocumentsAreNotForgotten`, `RowsAreSound`, `CompletedHasAllChunks` |
| `DeskProofs` | `Presence`, `ReadThroughCache`, `Translation`, `QuickReplies` | `OnlineIsExplained`, `OldAnswersAreExplained`, `SettledLanguageStays`, `FavoritesAreCounted`, `DeskTypeOK` |
| `TurnProofs` | `ChatTurn`; facts about numbers and texts | `KnowledgeIsChecked`, `CompletedTurnsAreHonest` |
| `ResearchProofs` | `Retrieval`, `Dashboard`, `ChatPages`, `WriteTask`, `PaperLibrary` | `NothingFoundIsExplained`, `OldNumbersAreExplained`, `PagesAreKept`, `ShownTextIsTrue`, `OnlyOverlapLosesText`, `SharedPapersAreCounted`, `ResearchTypeOK` |
| `LogProofs` | `LogQueue`, `LogArchive`, `CircuitBreaker` | `NoLineIsForgotten`, `FilesKeepTheOrder`, `LinesAreKept`, `OpensForAReason`, `LoggingTypeOK` |
| `ProgressProofs` | `AnalysisTask`, `AvatarTask`, `JobLife`, `LogBuffer` | `JobsKeepTheirLife`, `ReportsAddUp`, `TrimmedLinesAreWritten`, `FileFollowsTheBuffer`, `ProgressTypeOK` |

**SessionTicketProofs.** `Inductive` proves `Spec => []IInv`. The safety properties are not
inductive alone: that the agent who inserts owns the session depends on what the handler
read one call before. `RequestsOK` says what every handler may still rely on at each of its
calls (`SnapshotsHold`), `RowsOK` what rows say of each other, `CronOK` and `ChatOK` the
same of the job and the messages. The argument is in two halves:

1. `CaseStep`: under those facts (`Grounds`), every step is a step of `SupportCase` or
   leaves its variables alone. This gives the `Refinement` theorem, and
2. what matters is stable under the steps of `SupportCase` (`CaseIsStable`,
   `CaseKeepsRows`, `CaseKeepsChat`), so that what a handler read and relies on cannot
   become false (`RequestStep`). Few cases remain of the many actions.

`NoLostStep` treats the delicate one, `NoLostResolution`: a step that makes all sessions of
a ticket CLOSED is `CloseUpdate`, after which that handler itself is going to check the
ticket; a handler that leaves its check has read all sessions closed or found one open; and
whoever kills a handler or writes the ticket open excuses the ticket. The named results are
`TypeCorrect`, `SnapshotsHold`, `ResolutionIsNotLost`, `AgentsAreConfined`,
`AiSpeaksWhenAsked`, `NoticesAreTrue`, `StampsArePresent`, `RowsAreStable` and `Refinement`.

**SessionQueueProofs.** `QueueInductive` proves the invariant behind `ClosedLeavesRedis`: a
session that is gone from Redis and untainted is in no job's snapshot, so no job can put it
back; a row open is QUEUED; and only rows with a time are scored. `HigherPriorityFirst` and
`FirstComeFirstServed` are about the score function: for every `Weight` and `MaxTime`, a
higher priority outweighs every difference in waiting time below `Weight`
(`PriorityOutweighsTime`), and a higher score means fewer entries ahead
(`HigherScoreRanksFirst`, by cardinalities of finite sets). `QueueIsOrdered` is both.

**DocumentProofs.** `DocumentsAreKept` proves `DocumentInv`, of five parts. `Known`: a run,
and a handler past its first call, works on a document that is there. `WaitingIsSeenTo`: a
pending or processing document has a run that will settle it or a handler that will start
one, unless a fault cut that off. `Sound`: a run about to write rows has inserted their
vectors, and rows lack theirs only while the handler that deleted the vectors has yet to
delete the rows. `Chunks`: behind a stored batch there is the next, or a run storing it
(`NextIsStored`); a completed document has its first batch, or someone who will store it or
clear it (`FirstIsStored`); without Milvus no run passes its first batch. The unique index
is what makes this inductive: of two runs over one document only one gets past a batch.
From there to `CompletedHasAllChunks` it is an induction over batches, done by looking at
the least one missing (`AllBatches`), since the library's least-element theorem can be
used.

**DeskProofs.** Who is online without an excuse has a socket that is noted and will be
looked up when it leaves (`OnlineIsNoted`); the gauge is the number of talking sockets
(`GaugeCounts`). The cache's property is inductive with its types. The settled language
needs only that a detection in progress has read fewer than `HistoryMax` answers. The
counter of favourites needs that nobody keeps a reply which was never created, because
creating one sets the counter to zero (`OnlyCreatedReplies`).

**TurnProofs.** `TurnInv` follows each turn through its phases: what it has read of
knowledge bases was readable at the time it was read (`KnowsKbs`), and the text it holds is
what was shown, marked as degraded exactly if it holds a notice (`AnswerIsHonest`). The
rest is what trimming and appending do to a text that is a sequence (`TrimOfSolid` and the
lemmas before it).

**ResearchProofs.** `RetrievalInv`: an empty answer of a session has found nothing or a
search was broken. `DashboardInv`: how old a value in each cache may be, together with how
long it stays, and the degraded flag, whose remaining life and the time since the last high
load are together at most its longest life (`FlagIsFresh`), for any lives the jitter
chooses. `PagesInv`: a request past one of
its calls has made sure of what that call installs, and nothing installed is taken away
(`PagesGrow`). `WriteInv`: the history of a row, or of a handler's copy, is in the order of
the writes and tells of each section that is a stand-in (`AsTold`); a handler holds the
present outline or one that was replaced after it began; and a full text was composed from
what the row holds (`Composed`). `LibraryInv` is the longest: each pair's count of shared
papers is right, or doubtful, or some run still has to count it (`PairIsCounted`), and the
number a run has counted and not yet written is right unless another run has overtaken it
or will count after it (`HeldIsCounted`).

**LogProofs.** `QueueInv`: the file, the batches handed to the stream and the lines still
waiting are, in this order, in the order in which they were logged (`InLine`); a waiting
line has a timer, a flush in the chain, or the stop (`TimerOK`, `LogFlushOK`, `DueOK`).
`ArchiveInv`: what each of the two jobs is about to do is due, and what it deletes is in
the archive, overwritten by the other job, or past its time (`JobOK`). `ReasonInv`, for the
breaker: a counter in Redis that is not spoilt, together with the refusals of this tick that
have still to `INCR` (`Counting`), is at most the number of refusals since the key was
created (`CounterOK`: the key is `KeyAge` ticks old, which its expiry tells); and the
counter in memory, together with the refusals of this tick that would be counted there if
their call failed (`Recording`), is at most `recent[age]` (`OwnCountOK`). The second is what
shows that falling back to memory never counts a refusal that was not given.

**ProgressProofs.** `WorkIsAJob` maps every step of `AnalysisTask` and `AvatarTask` to a
step of `JobLife` or to none, under `AnalysisInv` and `AvatarInv`. `ReportsStayTrue` is
arithmetic: the report of a finished task has the rounded, weighted grades and the counts
of its paragraphs. `BufferInv`: the list is the end of what Redis accepted, the batch in
hand is the beginning of the list until it is trimmed, the combined file the beginning of
what was accepted (`BatchOK`, `FileOK`, `OnceOK`), and lines are lost at most a batch per
lost answer (`LossOK`).

Some proof attempts failed for a good reason, and the model or the property was corrected
after the source had been read again: `ReportsAddUp` misjudged papers with six
contributions and results, which no document of the instance then had, so `MCProgress` now
has three documents; a run of `PaperLibrary` resets what its loop holds when it skips the
graph; a text may not contain the stand-in notices by chance (`Notes` in `ChatTurn`);
nobody favours a reply before it exists (`QuickReplies`); and the sets that are counted are
assumed to be finite.

**Only model-checked.** Liveness under fairness, which this prover does not handle:
`QuestionsAreAnswered`, `StaleTicketsAreResolved`, `PositionsSettle`, `LinesGetOut`,
`WorkComesToAnEnd`. The statements of comments that the code does not keep
(`claim_restored`, `claim_citations`) are refuted by TLC.

The theorems `TypeCorrect`, `StampsArePresent`, `RowsAreStable`, `QueueTypeCorrect`,
`QueueInductive`, `HigherPriorityFirst`, `FirstComeFirstServed`, `DocumentsAreKept`,
`TurnsKeepTheirWord` and `BufferKeepsTogether` are about parts of the runs' properties,
about the invariants behind them, or about what `ImplementsSupportCase` implies, and are
not listed as properties of a run of their own.

## 10. Plan

Every safety property of the passing runs is proved. What may still be added, in the order
of what it would tell:

1. Abstract specifications for the components that have none: a log that only grows
   implemented by `LogQueue` and `LogBuffer` (the order of files, proved as an invariant,
   would be a consequence), and a document that appears complete at once implemented by
   `DocumentProcessing` where runs do not overlap.
2. What the invariants already imply and no property says: in `PaperLibrary`, that a count
   is right when all runs have ended; in `LogQueue`, how many lines a crash may cost.
3. Shorter proofs where two modules repeat a case analysis, above all in `ResearchProofs`
   and `ProgressProofs`.
