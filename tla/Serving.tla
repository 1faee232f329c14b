------------------------------ MODULE Serving -------------------------------
(***************************************************************************)
(* The read side: the API's connection pool and request handlers           *)
(* (api/app), and the dashboard's portfolio page that polls them           *)
(* (dashboard/src), against the transactions of the speed and the batch    *)
(* layer.                                                                  *)
(*                                                                         *)
(* A handler runs in a thread.  It takes a connection, runs its SELECTs    *)
(* one by one under READ COMMITTED, each on what is committed then, and    *)
(* gives the connection back before the answer is sent.  The three routes  *)
(* here are the shapes all routes have: live never fails on what it reads, *)
(* daily answers 404 after its first SELECT, ready turns a database error  *)
(* into an answer.                                                         *)
(*                                                                         *)
(* A live row is the end of its window.  Event time and wall clock are on  *)
(* one axis, in units of STALE_DATA_SECONDS or less.                       *)
(***************************************************************************)
EXTENDS Integers, FiniteSets, Sequences, FiniteSetsExt

CONSTANTS
    Plants,
    Active,       \* the plants with active = TRUE
    MaxConn,      \* maxconn of the pool
    StaleAfter,   \* STALE_DATA_SECONDS
    Offset,       \* event time at wall clock 0: SIMULATION_START_DATE
    Speed,        \* the compression of the simulated clock
    DayLength,    \* of event time
    MaxPoints,    \* MAX_POINTS of the power chart
    Retries,      \* react-query's retries of a query that fails
    Late,         \* how far a batch of telemetry may be behind the clock
    MaxNow,       \* bound: the wall clock
    MaxVersions,  \* bound: reconciliations of a day
    MaxCrashes,   \* bound: crashes of PostgreSQL
    Null

ASSUME ServingAssumption ==
    /\ IsFiniteSet(Plants)
    /\ {StaleAfter, Offset, Retries, Late, MaxNow, MaxVersions, MaxCrashes} \subseteq Nat
    /\ {MaxConn, Speed, DayLength, MaxPoints} \subseteq Nat \ {0}
    /\ Active \subseteq Plants
    /\ Null \notin Nat

Clients == {"live", "daily", "ready"}
EventTime(t) == Offset + Speed * t
DayOf(e) == e \div DayLength
Dates == 0..DayOf(EventTime(MaxNow))

VARIABLES
    now,       \* the wall clock
    rows,      \* live_portfolio_metrics: the ends of its windows
    newest,    \* ghost: the row written last and when, or Null
    summary,   \* daily_plant_summary: the reconciliation each row is of, 0 for no row
    up,        \* PostgreSQL takes connections
    idle,      \* the connection the pool keeps: "none", "good" or "dead"
    used,      \* how many connections the pool has given out
    requests,  \* the request of each client
    replies,   \* the last answers to daily and ready; live is what became of its own
    paid,      \* ghost: requests since the crash that were given a broken connection
    live,      \* usePortfolioLive's data; "recent" is a ghost
    chart,     \* useLivePortfolioPowerBuffer
    daily,     \* usePortfolioDaily's state for each date
    tries,     \* attempts that failed, for each date
    crashes    \* bound

tables   == <<rows, newest, summary>>
pool     == <<idle, used>>
page     == <<live, chart, daily, tries>>
vars == <<now, tables, up, pool, requests, replies, paid, page, crashes>>

NoRequest == [phase |-> "none", date |-> Null, conn |-> "none",
              reads |-> <<>>, rewritten |-> FALSE]
NoReply == [status |-> 0, reads |-> <<>>, rewritten |-> FALSE]
NoData == [end |-> Null, label |-> "NO_DATA", recent |-> FALSE]

Open == { c \in Clients : requests[c].phase = "open" }
PageDate == IF live.end = Null THEN Null ELSE DayOf(live.end)

TablesOK ==
    /\ now \in 0..MaxNow
    /\ rows \subseteq 0..EventTime(MaxNow)
    /\ newest # Null => newest.end \in rows /\ newest.at \in 0..now
    /\ summary \in [Dates -> [Plants -> 0..MaxVersions]]

PoolOK ==
    /\ up \in BOOLEAN
    /\ idle \in {"none", "good", "dead"}
    /\ used \in Nat
    /\ paid \in Nat

\* What the SELECTs of a route find.
Found(c) ==
    CASE c = "live"  -> Nat \cup {Null}
      [] c = "daily" -> UNION { [S -> 0..MaxVersions] : S \in SUBSET Plants }
      [] c = "ready" -> {"plants"}

Request(c) ==
    [phase : {"none", "waiting", "open"}, date : Dates \cup {Null},
     conn : {"none", "good", "dead"}, reads : Seq(Found(c)), rewritten : BOOLEAN]

Reply(c) ==
    [status : {0, 200, 404, 500, 503}, reads : Seq(Found(c)), rewritten : BOOLEAN]

RequestsOK ==
    /\ DOMAIN requests = Clients /\ DOMAIN replies = Clients \ {"live"}
    /\ \A c \in Clients : requests[c] \in Request(c)
    /\ \A c \in DOMAIN replies : replies[c] \in Reply(c)

PageOK ==
    /\ live \in [end : rows \cup {Null}, label : {"LIVE", "STALE", "NO_DATA"},
                 recent : BOOLEAN]
    /\ chart \in Seq(Nat) /\ Len(chart) <= MaxPoints
    /\ daily \in [Dates -> {"unknown", "missing", "failed", "shown"}]
    /\ tries \in [Dates -> 0..(Retries + 1)]

\* Tables, pool, requests and page hold what their types allow.
TypeOK == TablesOK /\ PoolOK /\ RequestsOK /\ PageOK

Init ==
    /\ now = 0
    /\ rows = {}
    /\ newest = Null
    /\ summary = [d \in Dates |-> [p \in Plants |-> 0]]
    /\ up = TRUE
    /\ idle = "good"
    /\ used = 0
    /\ requests = [c \in Clients |-> NoRequest]
    /\ replies = [c \in Clients \ {"live"} |-> NoReply]
    /\ paid = 0
    /\ live = NoData
    /\ chart = <<>>
    /\ daily = [d \in Dates |-> "unknown"]
    /\ tries = [d \in Dates |-> 0]
    /\ crashes = 0

(***************************************************************************)
(* The clock, the writers and the database.                                *)
(***************************************************************************)
Tick ==
    /\ now < MaxNow
    /\ now' = now + 1
    /\ UNCHANGED <<tables, up, pool, requests, replies, paid, page, crashes>>

\* A microbatch commits its row.  A late one is of an earlier window.
WriteLive ==
    /\ up
    /\ \E e \in (EventTime(now) - Late)..EventTime(now) :
          /\ e >= Offset
          /\ rows' = rows \cup {e}
          /\ newest' = [end |-> e, at |-> now]
    /\ UNCHANGED <<now, summary, up, pool, requests, replies, paid, page, crashes>>

Overtaken(d) ==
    requests' = [c \in Clients |->
        IF requests[c].date = d /\ requests[c].reads # <<>>
        THEN [requests[c] EXCEPT !.rewritten = TRUE] ELSE requests[c]]

\* Mutant: each plant's row is committed on its own.
ReconcilePlantByPlant(d) ==
    /\ up
    /\ d < DayOf(EventTime(now))
    /\ \E p \in Plants :
          /\ summary[d][p] < MaxVersions
          /\ summary' = [summary EXCEPT ![d][p] = @ + 1]
    /\ Overtaken(d)
    /\ UNCHANGED <<now, rows, newest, up, pool, replies, paid, page, crashes>>

\* write_daily_summary: every plant of a day that has ended, in one
\* transaction.
Reconcile(d) ==
    /\ up
    /\ d < DayOf(EventTime(now))
    /\ \A p \in Plants : summary[d][p] < MaxVersions
    /\ summary' = [summary EXCEPT ![d] = [p \in Plants |-> @[p] + 1]]
    /\ Overtaken(d)
    /\ UNCHANGED <<now, rows, newest, up, pool, replies, paid, page, crashes>>

\* Every connection is broken, in use or not.
Crash ==
    /\ up
    /\ crashes < MaxCrashes
    /\ crashes' = crashes + 1
    /\ up' = FALSE
    /\ idle' = IF idle = "none" THEN "none" ELSE "dead"
    /\ requests' = [c \in Clients |->
          IF c \in Open THEN [requests[c] EXCEPT !.conn = "dead"] ELSE requests[c]]
    /\ paid' = 0
    /\ UNCHANGED <<now, tables, used, replies, page>>

Restore ==
    /\ ~up
    /\ up' = TRUE
    /\ UNCHANGED <<now, tables, pool, requests, replies, paid, page, crashes>>

(***************************************************************************)
(* The page asks.                                                          *)
(***************************************************************************)
\* Live data is polled and readiness probed.  The daily query runs when the
\* date of the page is one it knows nothing of, and until its retries are
\* used up.
Asks(c, d) ==
    IF c = "daily"
    THEN d # Null /\ daily[d] = "unknown" /\ (d = PageDate \/ tries[d] > 0)
    ELSE d = Null

Ask(c) ==
    /\ requests[c].phase = "none"
    /\ \E d \in Dates \cup {Null} :
          /\ Asks(c, d)
          /\ requests' = [requests EXCEPT ![c] = [NoRequest EXCEPT !.phase = "waiting",
                                                                   !.date = d]]
    /\ UNCHANGED <<now, tables, up, pool, replies, paid, page, crashes>>

(***************************************************************************)
(* The answer, and what the page makes of it.                              *)
(***************************************************************************)
\* data_status.
DataStatus(end) ==
    CASE end = Null -> "NO_DATA"
      [] end # Null /\ now - end > StaleAfter -> "STALE"
      [] end # Null /\ now - end <= StaleAfter -> "LIVE"

LastOf(seq, n) == SubSeq(seq, Max({1, Len(seq) - n + 1}), Len(seq))

\* useLivePortfolioPowerBuffer: a timestamp that is shown already is skipped.
Plotted(end) ==
    IF end = Null \/ (live.end # Null /\ end = live.end) THEN chart
    ELSE LastOf(Append(chart, end), MaxPoints)

\* A failed poll leaves the data of the last one.
ShowLive(status, reads) ==
    /\ IF status = 200
       THEN /\ live' = [end |-> reads[1], label |-> DataStatus(reads[1]),
                        recent |-> newest # Null /\ now - newest.at <= StaleAfter]
            /\ chart' = Plotted(reads[1])
       ELSE UNCHANGED <<live, chart>>
    /\ UNCHANGED <<daily, tries>>

\* A 404 is final; any other failure is retried.
ShowDaily(status, d) ==
    /\ daily' = [daily EXCEPT ![d] =
          CASE status = 200 -> "shown"
            [] status = 404 -> "missing"
            [] status = 500 -> IF tries[d] < Retries THEN "unknown" ELSE "failed"]
    /\ tries' = IF status = 500 THEN [tries EXCEPT ![d] = @ + 1] ELSE tries
    /\ UNCHANGED <<live, chart>>

Answer(c, status) ==
    /\ requests' = [requests EXCEPT ![c] = NoRequest]
    /\ replies' = IF c = "live" THEN replies
                  ELSE [replies EXCEPT ![c] = [status |-> status, reads |-> requests[c].reads,
                                               rewritten |-> requests[c].rewritten]]
    /\ CASE c = "live"  -> ShowLive(status, requests[c].reads)
         [] c = "daily" -> ShowDaily(status, requests[c].date)
         [] c = "ready" -> UNCHANGED page

\* Every psycopg2.Error, the pool's own among them, makes ready say 503.
ErrorStatus(c) == IF c = "ready" THEN 503 ELSE 500

(***************************************************************************)
(* The pool.                                                               *)
(***************************************************************************)
\* Mutant: a broken connection goes back into the pool.
PutConnBroken(conn) ==
    /\ used' = used - 1
    /\ idle' = IF idle = "none" THEN conn ELSE idle

\* putconn: one connection is kept, and not one that is closed.
PutConn(conn) ==
    /\ used' = used - 1
    /\ idle' = IF idle = "none" /\ conn = "good" THEN "good" ELSE idle

\* getconn: the kept connection as it is, or else a new one.
GetConn(c) ==
    /\ requests[c].phase = "waiting"
    /\ \/ idle # "none"
       \/ idle = "none" /\ used < MaxConn /\ up
    /\ requests' = [requests EXCEPT
          ![c].phase = "open", ![c].conn = IF idle = "none" THEN "good" ELSE idle]
    /\ idle' = "none"
    /\ used' = used + 1
    /\ paid' = IF idle = "dead" THEN paid + 1 ELSE paid
    /\ UNCHANGED <<now, tables, up, replies, page, crashes>>

\* Mutant: a request waits for a connection.
GetConnWaits(c) ==
    /\ requests[c].phase = "waiting"
    /\ idle = "none" /\ ~up
    /\ Answer(c, ErrorStatus(c))
    /\ UNCHANGED <<now, tables, up, pool, paid, crashes>>

\* The pool is exhausted, or PostgreSQL cannot be reached.
GetConnFails(c) ==
    /\ requests[c].phase = "waiting"
    /\ idle = "none"
    /\ used = MaxConn \/ ~up
    /\ Answer(c, ErrorStatus(c))
    /\ UNCHANGED <<now, tables, up, pool, paid, crashes>>

(***************************************************************************)
(* The handlers.                                                           *)
(***************************************************************************)
\* Mutant: the newest row is the one written last.
LatestWritten == IF newest = Null THEN Null ELSE newest.end

\* ORDER BY window_end DESC LIMIT 1.
LatestMetric == IF rows = {} THEN Null ELSE Max(rows)

\* SELECT ... FROM daily_plant_summary: the reconciliation of each row found.
RowsOf(d, plants) ==
    [p \in { q \in plants : summary[d][q] > 0 } |-> summary[d][p]]

DailyTotals(d) == RowsOf(d, Plants)

DailyPlantRows(d) == RowsOf(d, Plants)

\* The SELECTs of each route, in order.
Selects(c, d) ==
    CASE c = "live"  -> <<LatestMetric, Cardinality(Active)>>
      [] c = "daily" -> <<DailyTotals(d), DailyPlantRows(d)>>
      [] c = "ready" -> <<"plants">>

HasRead(c) == Len(requests[c].reads)
IsMissing(c, found) == c = "daily" /\ HasRead(c) = 0 /\ DOMAIN found = {}

\* A SELECT on what is committed now.
Read(c) ==
    LET selects == Selects(c, requests[c].date)
    IN  /\ requests[c].phase = "open" /\ requests[c].conn = "good"
        /\ HasRead(c) < Len(selects)
        /\ ~IsMissing(c, selects[HasRead(c) + 1])
        /\ requests' = [requests EXCEPT ![c].reads = Append(@, selects[HasRead(c) + 1])]
        /\ UNCHANGED <<now, tables, up, pool, replies, paid, page, crashes>>

\* There is no row of the day: the handler raises 404, and the connection is
\* rolled back and given back.
Missing(c) ==
    /\ requests[c].phase = "open" /\ requests[c].conn = "good"
    /\ HasRead(c) < Len(Selects(c, requests[c].date))
    /\ IsMissing(c, Selects(c, requests[c].date)[HasRead(c) + 1])
    /\ PutConn("good")
    /\ Answer(c, 404)
    /\ UNCHANGED <<now, tables, up, paid, crashes>>

\* Commit, give back, answer.
Complete(c) ==
    /\ requests[c].phase = "open" /\ requests[c].conn = "good"
    /\ HasRead(c) = Len(Selects(c, requests[c].date))
    /\ PutConn("good")
    /\ Answer(c, 200)
    /\ UNCHANGED <<now, tables, up, paid, crashes>>

\* Mutant: the connection is given back only if the rollback succeeds.
BreakKeepingConn(c) ==
    /\ requests[c].phase = "open" /\ requests[c].conn = "dead"
    /\ Answer(c, ErrorStatus(c))
    /\ UNCHANGED <<now, tables, up, pool, paid, crashes>>

\* A SELECT or the commit fails on a broken connection.  So does the rollback,
\* and the connection is given back all the same.
Break(c) ==
    /\ requests[c].phase = "open" /\ requests[c].conn = "dead"
    /\ PutConn("dead")
    /\ Answer(c, ErrorStatus(c))
    /\ UNCHANGED <<now, tables, up, paid, crashes>>

Handle(c) ==
    GetConn(c) \/ GetConnFails(c) \/ Read(c) \/ Missing(c) \/ Complete(c) \/ Break(c)

Next ==
    \/ Tick \/ WriteLive \/ Crash \/ Restore
    \/ \E d \in Dates : Reconcile(d)
    \/ \E c \in Clients : Ask(c) \/ Handle(c)

Spec == Init /\ [][Next]_vars

\* The server runs the threads it has started, and the page polls and asks.
FairSpec ==
    /\ Spec
    /\ \A c \in Clients : WF_vars(Handle(c))
    /\ WF_vars(Ask("live")) /\ WF_vars(Ask("daily"))

(***************************************************************************)
(* Properties.                                                             *)
(***************************************************************************)
\* The pool has given out a connection for each request that holds one, never
\* more than its limit, through errors whose rollback fails too
\* (api/app/db.py:34-45).  This one carries the type invariant.
PoolAccounts == TypeOK /\ used = Cardinality(Open) /\ used <= MaxConn

\* A crash of PostgreSQL costs one request that comes after it at most: a
\* broken connection is found once and never handed out again.
OneRequestPays == paid <= 1

\* A daily reply is of all plants or says 404, and its totals and its plant
\* rows are of the same reconciliation unless the day was reconciled again
\* between its two SELECTs: nothing else makes a report not add up
\* (reconcile.py:327-345, routers/portfolio.py:57-93).
ReportIsWhole ==
    replies["daily"].status = 200 =>
        /\ \A i \in 1..2 : DOMAIN replies["daily"].reads[i] = Plants
        /\ \/ replies["daily"].rewritten
           \/ replies["daily"].reads[1] = replies["daily"].reads[2]

\* The power chart is in the order of event time, without repeats, although
\* microbatches commit late windows after later ones
\* (useLivePortfolioPowerBuffer.ts:11-33).
ChartInOrder == \A i \in 1..(Len(chart) - 1) : chart[i] < chart[i + 1]

\* Every request is answered: an exhausted pool fails it rather than let it
\* wait (api/app/db.py:34-45).
RequestsAreAnswered ==
    \A c \in Clients : requests[c].phase # "none" ~> requests[c].phase = "none"

\* What member-2-handoff.md:127 and freshness.py say of the label: LIVE means
\* that the pipeline has written within the threshold.
LiveMeansRecent == live.label = "LIVE" => live.recent
=============================================================================
