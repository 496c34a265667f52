------------------------------ MODULE Dashboard ------------------------------
(***************************************************************************)
(* DashboardService.getMetrics and refreshSnapshot: an answer comes from   *)
(* the short cache, from the snapshot while the service is degraded or its *)
(* queries fail, or from the database.  The counting is slow: what it read *)
(* ages before it is answered and stored.                                  *)
(*                                                                         *)
(* A result is how many ticks ago its rows were read.  A board is a game   *)
(* and a range of days; the job refreshes the snapshot of one only.        *)
(***************************************************************************)
EXTENDS Naturals, FiniteSets, FiniteSetsExt

CONSTANTS
  Boards, MainBoard,          (* MainBoard: every game, the last seven days *)
  Viewers,                    (* requests that may overlap *)
  ShortTtls, SnapshotTtls,    (* setJson jitters how long it keeps a key: *)
  DegradedTtls,               (* 60 s, 300 s and 300 s, and a tenth more or less *)
  RefreshEvery,
  MaxQuery                    (* ticks the counting may take *)

ASSUME DashboardAssumption ==
  /\ MainBoard \in Boards /\ {RefreshEvery, MaxQuery} \subseteq Nat \ {0}
  /\ \A ttls \in {ShortTtls, SnapshotTtls, DegradedTtls} :
       ttls \subseteq Nat \ {0} /\ ttls # {} /\ IsFiniteSet(ttls)
  /\ \A brief \in ShortTtls : \E ttl \in SnapshotTtls : brief <= ttl

VARIABLES
  short, snapshot,   (* what Redis keeps of each board *)
  degraded,          (* ticks the degraded flag has left *)
  counts,            (* what each request, and the job, is at *)
  refresh,           (* ticks to the next refresh *)
  manual,            (* DASHBOARD_DEGRADED, which a deployment sets *)
  calm,              (* ticks since a high load or a slow query was last seen *)
  seen               (* the last answer of this tick *)

dashboardVars == <<short, snapshot, degraded, counts, refresh, manual, calm, seen>>

Job == "job"
LongestShort == Max(ShortTtls)
Longest == Max(SnapshotTtls)
LongestFlag == Max(DegradedTtls)
Calm == LongestFlag + 1
Oldest == Longest + MaxQuery
Gone == [left |-> 0, age |-> 0]
NoCount == [phase |-> "none", board |-> MainBoard, age |-> 0]
NoAnswer == [age |-> 0, calm |-> 0, manual |-> FALSE, failed |-> FALSE]

DashboardTypeOK ==
  /\ \A b \in Boards :
       {short[b], snapshot[b]} \subseteq [left : 0..Longest, age : 0..Oldest]
  /\ degraded \in 0..LongestFlag /\ refresh \in 0..RefreshEvery /\ calm \in 0..Calm
  /\ manual \in BOOLEAN
  /\ \A v \in Viewers \cup {Job} :
       counts[v] \in [phase : {"none", "asked", "counting"}, board : Boards, age : 0..MaxQuery]
  /\ seen \in [age : 0..Oldest, calm : 0..Calm, manual : BOOLEAN, failed : BOOLEAN]

DashboardInit ==
  /\ short = [b \in Boards |-> Gone] /\ snapshot = [b \in Boards |-> Gone]
  /\ degraded = 0 /\ refresh = RefreshEvery /\ calm = Calm /\ manual \in BOOLEAN
  /\ counts = [v \in Viewers \cup {Job} |-> NoCount] /\ seen = NoAnswer

GiveAnswer(v, age, failed) ==
  /\ seen' = [age |-> age, calm |-> calm', manual |-> manual, failed |-> failed]
  /\ counts' = [counts EXCEPT ![v] = NoCount]

\* getMetrics: the short cache first.
AskDashboard(v, b) ==
  /\ counts[v].phase = "none" /\ UNCHANGED calm
  /\ IF short[b].left > 0
     THEN GiveAnswer(v, short[b].age, FALSE)
     ELSE counts' = [counts EXCEPT ![v] = [NoCount EXCEPT !.phase = "asked", !.board = b]]
          /\ UNCHANGED seen
  /\ UNCHANGED <<short, snapshot, degraded, refresh, manual>>

StartCounting(v) ==
  counts' = [counts EXCEPT ![v].phase = "counting", ![v].age = 0] /\ UNCHANGED seen

\* markDegraded, where something was seen.
MarkDegraded(seenNow) ==
  IF seenNow THEN degraded' \in DegradedTtls /\ calm' = 0 ELSE UNCHANGED <<degraded, calm>>

\* shouldUseSnapshot: the switch, the flag, else the load of the machine and the delay of the
\* event loop, which raise it.  Without a snapshot the rows are counted all the same.
ShouldUseSnapshot(v) ==
  LET b == counts[v].board
  IN /\ counts[v].phase = "asked"
     /\ \E loaded \in BOOLEAN : MarkDegraded(loaded /\ ~manual /\ degraded = 0)
     /\ IF (manual \/ degraded' > 0) /\ snapshot[b].left > 0
        THEN GiveAnswer(v, snapshot[b].age, FALSE)
        ELSE StartCounting(v)
     /\ UNCHANGED <<short, snapshot, refresh, manual>>

\* A result kept in the short cache as long as in the snapshot.
StoreTooLong(b, age) ==
  \E ttl \in SnapshotTtls :
    /\ short' = [short EXCEPT ![b] = [left |-> ttl, age |-> age]]
    /\ snapshot' = [snapshot EXCEPT ![b] = [left |-> ttl, age |-> age]]

StoreResult(b, age) ==
  \E brief \in ShortTtls, ttl \in SnapshotTtls :
    /\ short' = [short EXCEPT ![b] = [left |-> brief, age |-> age]]
    /\ snapshot' = [snapshot EXCEPT ![b] = [left |-> ttl, age |-> age]]

\* computeMetrics ends; a slow one raises the flag.
CountingEnds(v) ==
  /\ v # Job /\ counts[v].phase = "counting"
  /\ StoreResult(counts[v].board, counts[v].age)
  /\ \E slow \in BOOLEAN : MarkDegraded(slow)
  /\ GiveAnswer(v, counts[v].age, FALSE)
  /\ UNCHANGED <<refresh, manual>>

\* It fails: the snapshot, or the error.
CountingFails(v) ==
  /\ v # Job /\ counts[v].phase = "counting"
  /\ UNCHANGED calm
  /\ IF snapshot[counts[v].board].left > 0
     THEN GiveAnswer(v, snapshot[counts[v].board].age, TRUE)
     ELSE counts' = [counts EXCEPT ![v] = NoCount] /\ UNCHANGED seen
  /\ UNCHANGED <<short, snapshot, degraded, refresh, manual>>

\* refreshSnapshot, by the cron; it counts whether the service is degraded or not.
RefreshStarts ==
  /\ refresh = 0 /\ counts[Job].phase = "none"
  /\ refresh' = RefreshEvery
  /\ counts' = [counts EXCEPT ![Job].phase = "counting"]
  /\ UNCHANGED <<short, snapshot, degraded, manual, calm, seen>>

RefreshEnds ==
  /\ counts[Job].phase = "counting"
  /\ counts' = [counts EXCEPT ![Job] = NoCount]
  /\ \/ \E ttl \in SnapshotTtls :
          snapshot' = [snapshot EXCEPT ![MainBoard] = [left |-> ttl, age |-> counts[Job].age]]
     \/ UNCHANGED snapshot
  /\ UNCHANGED <<short, degraded, refresh, manual, calm, seen>>

Aged(entry) == IF entry.left <= 1 THEN Gone ELSE [left |-> entry.left - 1, age |-> entry.age + 1]

\* Time passes, but no counting takes more than MaxQuery and no refresh is missed.
DashboardTick ==
  /\ \A v \in Viewers \cup {Job} : counts[v].phase = "counting" => counts[v].age < MaxQuery
  /\ refresh > 0
  /\ short' = [b \in Boards |-> Aged(short[b])]
  /\ snapshot' = [b \in Boards |-> Aged(snapshot[b])]
  /\ degraded' = IF degraded = 0 THEN 0 ELSE degraded - 1
  /\ refresh' = refresh - 1
  /\ calm' = Min({calm + 1, Calm})
  /\ counts' = [v \in Viewers \cup {Job} |->
                  IF counts[v].phase = "counting" THEN [counts[v] EXCEPT !.age = @ + 1] ELSE counts[v]]
  /\ seen' = NoAnswer
  /\ UNCHANGED manual

\* The process is deployed anew, with the switch set or not: what it was counting is lost, what
\* Redis keeps stays.
Redeploy ==
  /\ manual' \in BOOLEAN
  /\ counts' = [v \in Viewers \cup {Job} |-> NoCount]
  /\ UNCHANGED <<short, snapshot, degraded, refresh, calm, seen>>

DashboardNext ==
  \/ DashboardTick \/ Redeploy \/ RefreshStarts \/ RefreshEnds
  \/ \E v \in Viewers :
       \/ \E b \in Boards : AskDashboard(v, b)
       \/ ShouldUseSnapshot(v) \/ CountingEnds(v) \/ CountingFails(v)

DashboardSpec == DashboardInit /\ [][DashboardNext]_dashboardVars

\* The numbers somebody is shown are older than the short cache and the counting allow only
\* under the manual switch, when a high load or a slow query was seen within the life of the
\* degraded flag, or when the counting failed just now; and never older than a snapshot may
\* get (getMetrics, shouldUseSnapshot).
OldNumbersAreExplained ==
  /\ seen.age > LongestShort + MaxQuery =>
       (seen.manual \/ seen.calm <= LongestFlag \/ seen.failed)
  /\ seen.age <= Oldest
=============================================================================
