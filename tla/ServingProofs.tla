---------------------------- MODULE ServingProofs ----------------------------
(***************************************************************************)
(* What the API promises under errors, for any number of plants, days,     *)
(* connections, reconciliations and crashes of PostgreSQL.                 *)
(*                                                                         *)
(* The pool accounts for its connections because every way out of a        *)
(* handler gives one back.  A report is whole because a day is reconciled  *)
(* for all plants in one transaction: what the first SELECT found is what  *)
(* the second finds, or the day was reconciled in between.  The chart is   *)
(* in order because each request finds a row that is not before the page's *)
(* own: a row never goes away.                                             *)
(***************************************************************************)
EXTENDS Serving, SetLemmas, SequenceTheorems

-----------------------------------------------------------------------------
(***************************************************************************)
(* The invariant.                                                          *)
(***************************************************************************)
\* What the pool holds and has given out is within its limit, and a broken
\* connection that is kept has not been handed out since the crash.
PoolInv ==
    /\ used = Cardinality(Open)
    /\ idle # "none" => used < MaxConn
    /\ used <= MaxConn
    /\ idle = "dead" => paid = 0
    /\ paid <= 1

\* A day is reconciled for all plants or for none.
DaysAreWhole == \A d \in Dates : \A p, q \in Plants : summary[d][p] = summary[d][q]

\* The daily request that is under way, and the date it is about.
DailyInv ==
    LET r == requests["daily"]
    IN  /\ r.phase # "none" => r.date \in Dates /\ daily[r.date] = "unknown"
        /\ Len(r.reads) <= 2
        /\ r.phase # "open" => r.reads = <<>>
        /\ r.reads # <<>> => \A p \in Plants : summary[r.date][p] > 0
        /\ \A i \in 1..Len(r.reads) :
              /\ DOMAIN r.reads[i] = Plants
              /\ r.rewritten \/ r.reads[i] = summary[r.date]

TriesInv == \A d \in Dates : daily[d] = "unknown" => tries[d] <= Retries

\* The live request that is under way has found the page's row or a later one.
LiveInv ==
    LET r == requests["live"]
    IN  /\ r.phase # "open" => r.reads = <<>>
        /\ r.reads # <<>> =>
              IF r.reads[1] = Null THEN live.end = Null
              ELSE /\ r.reads[1] \in rows
                   /\ live.end # Null => live.end <= r.reads[1]

\* The chart ends at the row the page shows.
ChartInv ==
    /\ \A i \in 1..(Len(chart) - 1) : chart[i] < chart[i + 1]
    /\ chart # <<>> => live.end = chart[Len(chart)]

IInv ==
    /\ TypeOK
    /\ PoolInv
    /\ DaysAreWhole
    /\ DailyInv
    /\ TriesInv
    /\ LiveInv
    /\ ChartInv
    /\ ReportIsWhole

-----------------------------------------------------------------------------
(***************************************************************************)
(* Tables.                                                                 *)
(***************************************************************************)
LEMMA ClocksAreNumbers ==
    /\ \A t \in Nat : EventTime(t) \in Nat
    /\ \A t \in 0..MaxNow : EventTime(t) <= EventTime(MaxNow)
  <1> USE ServingAssumption
  <1>1. Speed \in Nat /\ Offset \in Nat /\ MaxNow \in Nat
    OBVIOUS
  <1>2. \A t \in Nat : Speed * t \in Nat
    BY <1>1
  <1>3. ASSUME NEW t \in 0..MaxNow PROVE Speed * t <= Speed * MaxNow
    <2>1. PICK d \in Nat : MaxNow = t + d
      <3>1. MaxNow = t + (MaxNow - t) /\ MaxNow - t \in Nat
        BY <1>1
      <3> QED
        BY <3>1
    <2>2. t \in Nat /\ Speed * MaxNow = Speed * t + Speed * d
      BY <1>1, <2>1
    <2>3. Speed * t \in Nat /\ Speed * d \in Nat
      BY <1>2, <2>1, <2>2
    <2> QED
      BY <2>2, <2>3
  <1>4. \A t \in 0..MaxNow : Speed * t \in Nat
    BY <1>1, <1>2
  <1>5. Speed * MaxNow \in Nat
    BY <1>1, <1>2
  <1> QED
    BY <1>1, <1>2, <1>3, <1>4, <1>5 DEF EventTime

\* A step of a request changes no table.
LEMMA HandlersOnlyRead ==
    ASSUME NEW c \in Clients, Ask(c) \/ Handle(c)
    PROVE  UNCHANGED <<now, tables, up, crashes>>
  BY DEF Ask, Handle, GetConn, GetConnFails, Read, Missing, Complete, Break

LEMMA TablesStay == TypeOK /\ Next => TablesOK' /\ rows \subseteq rows'
  <1> SUFFICES ASSUME TypeOK, Next PROVE TablesOK' /\ rows \subseteq rows'
    OBVIOUS
  <1> USE ServingAssumption
  <1>1. CASE Tick
    <2>1. now \in 0..MaxNow /\ MaxNow \in Nat /\ now < MaxNow /\ now' = now + 1
      BY <1>1 DEF Tick, TypeOK, TablesOK
    <2>2. now' \in 0..MaxNow /\ \A t \in 0..now : t \in 0..now'
      BY <2>1
    <2>3. UNCHANGED <<rows, newest, summary>>
      BY <1>1 DEF Tick, tables
    <2> QED
      BY <2>2, <2>3 DEF TypeOK, TablesOK
  <1>2. CASE WriteLive
    <2>1. PICK e \in (EventTime(now) - Late)..EventTime(now) :
              /\ e >= Offset
              /\ rows' = rows \cup {e}
              /\ newest' = [end |-> e, at |-> now]
      BY <1>2 DEF WriteLive
    <2>2. now \in 0..MaxNow /\ MaxNow \in Nat /\ Offset \in Nat /\ Late \in Nat
      BY DEF TypeOK, TablesOK
    <2>3. EventTime(now) \in Nat /\ EventTime(now) <= EventTime(MaxNow)
          /\ EventTime(MaxNow) \in Nat
      BY <2>2, ClocksAreNumbers
    <2>4. e \in 0..EventTime(MaxNow)
      BY <2>1, <2>2, <2>3
    <2>5. now' = now /\ summary' = summary
      BY <1>2 DEF WriteLive
    <2>6. newest'.end \in rows' /\ newest'.at \in 0..now'
      BY <2>1, <2>2, <2>5
    <2>7. rows' \subseteq 0..EventTime(MaxNow) /\ rows \subseteq rows'
      BY <2>1, <2>4 DEF TypeOK, TablesOK
    <2> QED
      BY <2>5, <2>6, <2>7 DEF TypeOK, TablesOK
  <1>3. ASSUME NEW d \in Dates, Reconcile(d)
        PROVE  TablesOK' /\ rows \subseteq rows'
    <2>1. [p \in Plants |-> summary[d][p] + 1] \in [Plants -> 0..MaxVersions]
      BY <1>3 DEF Reconcile, TypeOK, TablesOK
    <2>2. summary' = [summary EXCEPT ![d] = [p \in Plants |-> summary[d][p] + 1]]
          /\ UNCHANGED <<now, rows, newest>>
      BY <1>3 DEF Reconcile
    <2> QED
      BY <2>1, <2>2 DEF TypeOK, TablesOK
  <1>4. CASE Crash \/ Restore \/ \E c \in Clients : Ask(c) \/ Handle(c)
    <2>1. UNCHANGED <<now, rows, newest, summary>>
      BY <1>4, HandlersOnlyRead DEF Crash, Restore, tables
    <2> QED
      BY <2>1 DEF TypeOK, TablesOK
  <1> QED
    BY <1>1, <1>2, <1>3, <1>4 DEF Next

LEMMA DaysStayWhole == TypeOK /\ DaysAreWhole /\ Next => DaysAreWhole'
  <1> SUFFICES ASSUME TypeOK, DaysAreWhole, Next PROVE DaysAreWhole'
    OBVIOUS
  <1>1. ASSUME NEW d \in Dates, Reconcile(d) PROVE DaysAreWhole'
    BY <1>1 DEF Reconcile, DaysAreWhole, TypeOK, TablesOK
  <1>2. CASE summary' = summary
    BY <1>2 DEF DaysAreWhole
  <1>3. ASSUME NEW c \in Clients, Ask(c) \/ Handle(c) PROVE summary' = summary
    BY <1>3, HandlersOnlyRead DEF tables
  <1> QED
    BY <1>1, <1>2, <1>3 DEF Next, Tick, WriteLive, Crash, Restore, tables

-----------------------------------------------------------------------------
(***************************************************************************)
(* Requests.                                                               *)
(***************************************************************************)
LEMMA AnswerEndsRequest ==
    ASSUME RequestsOK, NEW c \in Clients, NEW status, Answer(c, status)
    PROVE  /\ requests'[c] = NoRequest
           /\ \A b \in Clients \ {c} : requests'[b] = requests[b]
           /\ DOMAIN requests' = Clients
  BY DEF Answer, RequestsOK

\* The handlers that answer.
LEMMA AnswersAre ==
    ASSUME NEW c \in Clients, GetConnFails(c) \/ Missing(c) \/ Complete(c) \/ Break(c)
    PROVE  \E status \in {200, 404, 500, 503} :
              /\ Answer(c, status)
              /\ status = 200 => Complete(c)
              /\ status = 404 => Missing(c)
              /\ status = 503 => c = "ready"
  BY DEF GetConnFails, Missing, Complete, Break, ErrorStatus

LEMMA LatestIsARow ==
    ASSUME TypeOK
    PROVE  /\ rows \subseteq Nat
           /\ LatestMetric \in rows \cup {Null}
           /\ \A e \in rows : LatestMetric # Null /\ e <= LatestMetric
  <1> USE ServingAssumption
  <1>1. EventTime(MaxNow) \in Nat
    BY ClocksAreNumbers
  <1>2. rows \subseteq Nat /\ IsFiniteSet(rows)
    <2>1. IsFiniteSet(0..EventTime(MaxNow))
      BY <1>1, FS_Interval
    <2>2. rows \subseteq 0..EventTime(MaxNow)
      BY DEF TypeOK, TablesOK
    <2>3. rows \subseteq Nat
      BY <1>1, <2>2
    <2>4. IsFiniteSet(rows)
      BY <2>1, <2>2, FS_Subset
    <2> QED
      BY <2>3, <2>4
  <1>3. rows # {} => Max(rows) \in rows /\ \A e \in rows : e <= Max(rows)
    BY <1>2, MaxIsLargest
  <1> QED
    BY <1>2, <1>3 DEF LatestMetric

LEMMA RowsAreFound ==
    ASSUME TypeOK, NEW d \in Dates
    PROVE  /\ RowsOf(d, Plants) \in UNION { [S -> 0..MaxVersions] : S \in SUBSET Plants }
           /\ DaysAreWhole /\ DOMAIN RowsOf(d, Plants) # {} =>
                 /\ DOMAIN RowsOf(d, Plants) = Plants
                 /\ \A p \in Plants : summary[d][p] > 0
           /\ (\A p \in Plants : summary[d][p] > 0) => RowsOf(d, Plants) = summary[d]
  <1> DEFINE S == { p \in Plants : summary[d][p] > 0 }
  <1>1. summary[d] \in [Plants -> 0..MaxVersions]
    BY DEF TypeOK, TablesOK
  <1>2. RowsOf(d, Plants) = [p \in S |-> summary[d][p]] /\ S \in SUBSET Plants
    BY DEF RowsOf
  <1>3. RowsOf(d, Plants) \in [S -> 0..MaxVersions]
    BY <1>1, <1>2
  <1>4. DaysAreWhole /\ S # {} => S = Plants
    BY DEF DaysAreWhole
  <1>5. S = Plants => RowsOf(d, Plants) = summary[d]
    BY <1>1, <1>2
  <1> QED
    BY <1>2, <1>3, <1>4, <1>5

\* What the SELECTs of a request find.
LEMMA SelectsFind ==
    ASSUME TypeOK, NEW c \in Clients, NEW d, c = "daily" => d \in Dates,
           NEW i \in 1..Len(Selects(c, d))
    PROVE  /\ Selects(c, d)[i] \in Found(c)
           /\ Len(Selects(c, d)) \in 1..2
           /\ c = "daily" => Selects(c, d)[i] = RowsOf(d, Plants)
           /\ c = "live" /\ i = 1 => Selects(c, d)[i] = LatestMetric
  <1> USE ServingAssumption
  <1>1. CASE c = "live"
    <2>1. Cardinality(Active) \in Nat
      BY FS_Subset, FS_CardinalityType
    <2>2. LatestMetric \in Nat \cup {Null}
      BY LatestIsARow
    <2> QED
      BY <1>1, <2>1, <2>2 DEF Selects, Found
  <1>2. CASE c = "daily"
    BY <1>2, RowsAreFound DEF Selects, Found, DailyTotals, DailyPlantRows
  <1>3. CASE c = "ready"
    BY <1>3 DEF Selects, Found
  <1> QED
    BY <1>1, <1>2, <1>3 DEF Clients

\* A request is for a day if it is for the daily report.
LEMMA DailyIsOfADay ==
    ASSUME IInv, NEW c \in Clients, requests[c].phase # "none"
    PROVE  c = "daily" => requests[c].date \in Dates
  BY DEF IInv, DailyInv

LEMMA AnswersAreTyped ==
    ASSUME RequestsOK, NEW c \in Clients, NEW status \in {200, 404, 500, 503},
           Answer(c, status)
    PROVE  RequestsOK'
  <1>1. NoRequest \in Request(c)
    BY DEF NoRequest, Request
  <1>2. /\ DOMAIN requests' = Clients
        /\ \A b \in Clients : requests'[b] = IF b = c THEN NoRequest ELSE requests[b]
    BY DEF Answer, RequestsOK
  <1>3. \A b \in Clients : requests'[b] \in Request(b)
    BY <1>1, <1>2 DEF RequestsOK
  <1>4. CASE c = "live"
    BY <1>2, <1>3, <1>4 DEF Answer, RequestsOK
  <1>5. CASE c # "live"
    <2> DEFINE reply == [status |-> status, reads |-> requests[c].reads,
                         rewritten |-> requests[c].rewritten]
    <2>1. reply \in Reply(c)
      <3>1. requests[c] \in Request(c)
        BY DEF RequestsOK
      <3>2. requests[c].reads \in Seq(Found(c)) /\ requests[c].rewritten \in BOOLEAN
        BY <3>1, Zenon DEF Request
      <3> QED
        BY <3>2 DEF Reply
    <2>2. replies' = [replies EXCEPT ![c] = reply]
      BY <1>5 DEF Answer
    <2> HIDE DEF reply
    <2> QED
      BY <1>2, <1>3, <1>5, <2>1, <2>2 DEF RequestsOK
  <1> QED
    BY <1>4, <1>5

\* A request that is changed in one place.
LEMMA UpdatesAreTyped ==
    ASSUME RequestsOK, NEW c \in Clients, NEW r \in Request(c),
           requests' = [requests EXCEPT ![c] = r], replies' = replies
    PROVE  RequestsOK'
  BY DEF RequestsOK

LEMMA RequestsStay == IInv /\ Next => RequestsOK'
  <1> SUFFICES ASSUME IInv, Next PROVE RequestsOK'
    OBVIOUS
  <1>1. RequestsOK /\ \A c \in Clients : requests[c] \in Request(c)
    BY DEF IInv, TypeOK, RequestsOK
  <1>2. CASE UNCHANGED <<requests, replies>>
    BY <1>1, <1>2 DEF RequestsOK
  <1>3. ASSUME NEW d \in Dates, Reconcile(d) PROVE RequestsOK'
    <2>1. \A c \in Clients : [requests[c] EXCEPT !.rewritten = TRUE] \in Request(c)
      BY <1>1 DEF Request
    <2> QED
      BY <1>1, <1>3, <2>1 DEF Reconcile, Overtaken, RequestsOK
  <1>4. CASE Crash
    <2>1. \A c \in Clients : [requests[c] EXCEPT !.conn = "dead"] \in Request(c)
      BY <1>1 DEF Request
    <2> QED
      BY <1>1, <1>4, <2>1 DEF Crash, RequestsOK
  <1>5. ASSUME NEW c \in Clients, Ask(c) PROVE RequestsOK'
    <2>1. PICK d \in Dates \cup {Null} :
              requests' = [requests EXCEPT
                  ![c] = [NoRequest EXCEPT !.phase = "waiting", !.date = d]]
      BY <1>5 DEF Ask
    <2>2. [NoRequest EXCEPT !.phase = "waiting", !.date = d] \in Request(c)
      <3>1. NoRequest \in Request(c)
        BY DEF NoRequest, Request
      <3> QED
        BY <3>1 DEF Request
    <2>3. replies' = replies
      BY <1>5 DEF Ask
    <2> QED
      BY <1>1, <2>1, <2>2, <2>3, UpdatesAreTyped
  <1>6. ASSUME NEW c \in Clients, GetConn(c) PROVE RequestsOK'
    <2> DEFINE conn == IF idle = "none" THEN "good" ELSE idle
               r == [requests[c] EXCEPT !.phase = "open", !.conn = conn]
    <2>1. conn \in {"none", "good", "dead"}
      BY DEF IInv, TypeOK, PoolOK
    <2>2. r \in Request(c)
      <3> HIDE DEF conn
      <3> QED
        BY <1>1, <2>1 DEF Request
    <2>3. requests' = [requests EXCEPT ![c] = r] /\ replies' = replies
      BY <1>1, <1>6 DEF GetConn, RequestsOK
    <2> QED
      BY <1>1, <2>2, <2>3, UpdatesAreTyped
  <1>7. ASSUME NEW c \in Clients, Read(c) PROVE RequestsOK'
    <2> DEFINE found == Selects(c, requests[c].date)[HasRead(c) + 1]
               r == [requests[c] EXCEPT !.reads = Append(requests[c].reads, found)]
    <2>1. /\ requests' = [requests EXCEPT ![c] = r]
          /\ replies' = replies
          /\ requests[c].phase = "open"
          /\ HasRead(c) < Len(Selects(c, requests[c].date))
      BY <1>7 DEF Read
    <2>2. requests[c].reads \in Seq(Found(c))
      BY <1>1, Zenon DEF Request
    <2>3. HasRead(c) \in Nat
      BY <2>2 DEF HasRead
    <2>4. Len(Selects(c, requests[c].date)) \in Nat
      BY SMT DEF Selects, Clients
    <2>5. found \in Found(c)
      BY <2>1, <2>3, <2>4, SelectsFind, DailyIsOfADay DEF IInv
    <2> HIDE DEF found
    <2>6. Append(requests[c].reads, found) \in Seq(Found(c))
      BY <2>2, <2>5
    <2>7. r \in Request(c)
      BY <1>1, <2>6 DEF Request
    <2> QED
      BY <1>1, <2>1, <2>7, UpdatesAreTyped
  <1>8. ASSUME NEW c \in Clients, GetConnFails(c) \/ Missing(c) \/ Complete(c) \/ Break(c)
        PROVE  RequestsOK'
    BY <1>1, <1>8, AnswersAre, AnswersAreTyped
  <1> QED
    BY <1>2, <1>3, <1>4, <1>5, <1>6, <1>7, <1>8
    DEF Next, Handle, Tick, WriteLive, Restore

-----------------------------------------------------------------------------
(***************************************************************************)
(* The pool.                                                               *)
(***************************************************************************)
LEMMA OpenIsFinite == IsFiniteSet(Open) /\ Cardinality(Open) \in Nat
  <1>1. IsFiniteSet(Clients)
    <2>1. IsFiniteSet({"live"})
      BY FS_Singleton
    <2>2. IsFiniteSet({"live"} \cup {"daily"})
      BY <2>1, FS_AddElement
    <2>3. IsFiniteSet({"live"} \cup {"daily"} \cup {"ready"})
      BY <2>2, FS_AddElement
    <2>4. Clients = {"live"} \cup {"daily"} \cup {"ready"}
      BY DEF Clients
    <2> QED
      BY <2>3, <2>4
  <1>2. Open \subseteq Clients
    BY DEF Open
  <1> QED
    BY <1>1, <1>2, FS_Subset, FS_CardinalityType

\* The request that gives its connection back.
LEMMA GivenBack ==
    ASSUME PoolOK, PoolInv, NEW c \in Open, NEW conn \in {"good", "dead"},
           PutConn(conn), Open' = Open \ {c}, up' = up, paid' = paid
    PROVE  PoolOK' /\ PoolInv'
  <1>1. Cardinality(Open \ {c}) = Cardinality(Open) - 1 /\ Cardinality(Open) \in Nat
    BY OpenIsFinite, FS_RemoveElement
  <1>2. Cardinality(Open) # 0
    BY OpenIsFinite, FS_EmptySet
  <1>3. used' = used - 1 /\ used \in Nat /\ used > 0
    BY <1>1, <1>2 DEF PutConn, PoolInv
  <1>4. used' = Cardinality(Open')
    BY <1>1, <1>3 DEF PoolInv
  <1>5. /\ idle' \in {"none", "good", "dead"}
        /\ idle' = "dead" => idle = "dead"
    BY DEF PutConn, PoolOK
  <1>6. used' \in Nat /\ used' < MaxConn
    BY <1>3, ServingAssumption DEF PoolInv
  <1>7. MaxConn \in Nat
    BY ServingAssumption
  <1> QED
    BY <1>4, <1>5, <1>6, <1>7 DEF PoolOK, PoolInv

LEMMA PoolStays == IInv /\ Next => PoolOK' /\ PoolInv'
  <1> SUFFICES ASSUME IInv, Next PROVE PoolOK' /\ PoolInv'
    OBVIOUS
  <1>1. RequestsOK /\ PoolOK /\ PoolInv
    BY DEF IInv, TypeOK
  <1>2. ASSUME UNCHANGED <<idle, used, paid>>, up' \in BOOLEAN,
               \A c \in Clients : requests'[c].phase = "open" <=> requests[c].phase = "open"
        PROVE  PoolOK' /\ PoolInv'
    <2>1. Open' = Open
      BY <1>2 DEF Open
    <2> QED
      BY <1>1, <1>2, <2>1 DEF PoolOK, PoolInv
  <1>3. CASE UNCHANGED <<requests, up, pool, paid>>
    BY <1>1, <1>2, <1>3 DEF pool, PoolOK
  <1>4. ASSUME NEW d \in Dates, Reconcile(d) PROVE PoolOK' /\ PoolInv'
    <2>1. \A c \in Clients : requests'[c].phase = requests[c].phase
      BY <1>1, <1>4 DEF Reconcile, Overtaken, RequestsOK, Request
    <2> QED
      BY <1>1, <1>2, <1>4, <2>1 DEF Reconcile, pool, PoolOK
  <1>5. CASE Crash
    <2>1. \A c \in Clients : requests'[c].phase = requests[c].phase
      BY <1>1, <1>5 DEF Crash, RequestsOK, Request
    <2>2. Open' = Open
      BY <2>1 DEF Open
    <2>3. /\ up' = FALSE /\ paid' = 0 /\ used' = used
          /\ idle' \in {"none", "dead"}
          /\ idle' # "none" => idle # "none"
      BY <1>1, <1>5 DEF Crash
    <2>4. PoolOK'
      BY <1>1, <2>3 DEF PoolOK
    <2>5. PoolInv'
      BY <1>1, <2>2, <2>3 DEF PoolOK, PoolInv
    <2> QED
      BY <2>4, <2>5
  <1>6. CASE Restore
    BY <1>1, <1>2, <1>6 DEF Restore, pool
  <1>7. ASSUME NEW c \in Clients, Ask(c) PROVE PoolOK' /\ PoolInv'
    <2>1. \A b \in Clients : requests'[b].phase = "open" <=> requests[b].phase = "open"
      BY <1>1, <1>7 DEF Ask, NoRequest, RequestsOK
    <2> QED
      BY <1>1, <1>2, <1>7, <2>1 DEF Ask, pool, PoolOK
  <1>8. ASSUME NEW c \in Clients, GetConn(c) PROVE PoolOK' /\ PoolInv'
    <2>1. Open' = Open \cup {c} /\ c \notin Open
      <3>1. requests[c].phase = "waiting" /\ requests'[c].phase = "open"
        BY <1>1, <1>8 DEF GetConn, RequestsOK, Request
      <3>2. \A b \in Clients \ {c} : requests'[b] = requests[b]
        BY <1>1, <1>8 DEF GetConn, RequestsOK
      <3> QED
        BY <3>1, <3>2 DEF Open
    <2>2. Cardinality(Open') = Cardinality(Open) + 1
      BY <2>1, OpenIsFinite, FS_AddElement
    <2>3. /\ used' = used + 1 /\ idle' = "none" /\ up' = up
          /\ used < MaxConn /\ used \in Nat /\ MaxConn \in Nat
      BY <1>1, <1>8, ServingAssumption DEF GetConn, PoolOK, PoolInv
    <2>4. paid' \in Nat /\ paid' <= 1
      BY <1>1, <1>8 DEF GetConn, PoolOK, PoolInv
    <2> QED
      BY <1>1, <2>2, <2>3, <2>4 DEF PoolOK, PoolInv
  <1>9. ASSUME NEW c \in Clients, Read(c) PROVE PoolOK' /\ PoolInv'
    <2>1. \A b \in Clients : requests'[b].phase = requests[b].phase
      BY <1>1, <1>9 DEF Read, RequestsOK, Request
    <2> QED
      BY <1>1, <1>2, <1>9, <2>1 DEF Read, pool, PoolOK
  <1>10. ASSUME NEW c \in Clients, GetConnFails(c) PROVE PoolOK' /\ PoolInv'
    <2>1. PICK status \in {200, 404, 500, 503} : Answer(c, status)
      BY <1>10, AnswersAre
    <2>2. \A b \in Clients : requests'[b].phase = "open" <=> requests[b].phase = "open"
      BY <1>1, <1>10, <2>1, AnswerEndsRequest DEF GetConnFails, NoRequest
    <2> QED
      BY <1>1, <1>2, <1>10, <2>2 DEF GetConnFails, pool, PoolOK
  <1>11. ASSUME NEW c \in Clients, Missing(c) \/ Complete(c) \/ Break(c)
         PROVE  PoolOK' /\ PoolInv'
    <2>1. PICK status \in {200, 404, 500, 503} : Answer(c, status)
      BY <1>11, AnswersAre
    <2>2. requests[c].phase = "open"
      BY <1>11 DEF Missing, Complete, Break
    <2>3. Open' = Open \ {c} /\ c \in Open
      BY <1>1, <2>1, <2>2, AnswerEndsRequest DEF Open, NoRequest
    <2>4. \E conn \in {"good", "dead"} : PutConn(conn)
      BY <1>11 DEF Missing, Complete, Break
    <2>5. up' = up /\ paid' = paid
      BY <1>11 DEF Missing, Complete, Break
    <2> QED
      BY <1>1, <2>3, <2>4, <2>5, GivenBack
  <1> QED
    BY <1>3, <1>4, <1>5, <1>6, <1>7, <1>8, <1>9, <1>10, <1>11
    DEF Next, Handle, Tick, WriteLive

-----------------------------------------------------------------------------
(***************************************************************************)
(* The daily report.                                                       *)
(***************************************************************************)
\* An answer changes the part of the page that asked.
LEMMA AnswersShow ==
    ASSUME NEW c \in Clients, NEW status, Answer(c, status)
    PROVE  /\ c # "live" => UNCHANGED <<live, chart>>
           /\ c # "daily" => UNCHANGED <<daily, tries>>
           /\ c = "live" => ShowLive(status, requests[c].reads)
           /\ c = "daily" => ShowDaily(status, requests[c].date)
  <1>1. CASE c = "live"
    BY <1>1 DEF Answer, ShowLive
  <1>2. CASE c = "daily"
    BY <1>2 DEF Answer, ShowDaily
  <1>3. CASE c = "ready"
    BY <1>3 DEF Answer, page
  <1> QED
    BY <1>1, <1>2, <1>3 DEF Clients

\* The other clients' steps.
LEMMA OthersLeaveDaily ==
    ASSUME IInv, NEW c \in Clients \ {"daily"}, Ask(c) \/ Handle(c)
    PROVE  /\ requests'["daily"] = requests["daily"] /\ replies'["daily"] = replies["daily"]
           /\ UNCHANGED <<daily, tries, summary>>
  <1>1. RequestsOK /\ "daily" \in Clients /\ "daily" \in DOMAIN replies
    BY DEF IInv, TypeOK, RequestsOK, Clients
  <1>2. CASE Ask(c) \/ GetConn(c) \/ Read(c)
    BY <1>1, <1>2 DEF Ask, GetConn, Read, RequestsOK, page, tables
  <1>3. CASE GetConnFails(c) \/ Missing(c) \/ Complete(c) \/ Break(c)
    <2>1. PICK status \in {200, 404, 500, 503} : Answer(c, status)
      BY <1>3, AnswersAre
    <2>2. UNCHANGED <<daily, tries>> /\ requests'["daily"] = requests["daily"]
      BY <1>1, <2>1, AnswersShow, AnswerEndsRequest
    <2>3. replies'["daily"] = replies["daily"]
      BY <1>1, <2>1 DEF Answer
    <2>4. summary' = summary
      BY <1>3 DEF GetConnFails, Missing, Complete, Break, tables
    <2> QED
      BY <2>2, <2>3, <2>4
  <1> QED
    BY <1>2, <1>3 DEF Handle

\* The request goes on with what it has read.
LEMMA DailyGoesOn ==
    ASSUME DailyInv, UNCHANGED <<summary, daily>>,
           LET r == requests["daily"]
               s == requests'["daily"]
           IN  /\ s.reads = r.reads /\ s.date = r.date /\ s.rewritten = r.rewritten
               /\ s.phase = r.phase \/ (s.phase = "open" /\ r.phase # "none")
    PROVE  DailyInv'
  BY DEF DailyInv

LEMMA DailyReads ==
    ASSUME IInv, Read("daily")
    PROVE  DailyInv'
  <1> DEFINE r == requests["daily"]
             d == r.date
             found == Selects("daily", d)[HasRead("daily") + 1]
             n == Len(r.reads)
  <1>1. /\ r.phase = "open" /\ "daily" \in Clients
        /\ r \in Request("daily") /\ DOMAIN requests = Clients
    BY DEF Read, IInv, TypeOK, RequestsOK, Clients
  <1>2. d \in Dates /\ daily[d] = "unknown"
    BY <1>1 DEF IInv, DailyInv
  <1>3. r.reads \in Seq(Found("daily")) /\ n \in Nat
    <2>1. r.reads \in Seq(Found("daily"))
      BY <1>1 DEF Request
    <2> QED
      BY <2>1
  <1>4. Len(Selects("daily", d)) = 2
    BY DEF Selects
  <1>5. n < 2 /\ HasRead("daily") = n
    BY <1>4 DEF Read, HasRead
  <1>6. found = RowsOf(d, Plants)
    BY <1>1, <1>2, <1>3, <1>4, <1>5, SelectsFind DEF IInv
  <1>7. DOMAIN found = Plants /\ \A p \in Plants : summary[d][p] > 0
    <2>1. CASE n = 0
      <3>1. DOMAIN found # {}
        BY <1>5, <2>1 DEF Read, IsMissing
      <3> QED
        BY <1>2, <1>6, <3>1, RowsAreFound DEF IInv
    <2>2. CASE n = 1
      <3>1. \A p \in Plants : summary[d][p] > 0
        BY <1>3, <2>2 DEF IInv, DailyInv
      <3>2. summary[d] \in [Plants -> 0..MaxVersions]
        BY <1>2 DEF IInv, TypeOK, TablesOK
      <3>3. found = summary[d]
        BY <1>2, <1>6, <3>1, RowsAreFound DEF IInv
      <3> QED
        BY <3>1, <3>2, <3>3
    <2>3. n = 0 \/ n = 1
      <3> HIDE DEF n
      <3> QED
        BY <1>3, <1>5
    <2> QED
      BY <2>1, <2>2, <2>3
  <1>8. found = summary[d]
    BY <1>2, <1>6, <1>7, RowsAreFound DEF IInv
  <1>9. /\ requests'["daily"].phase = "open" /\ requests'["daily"].date = d
        /\ requests'["daily"].rewritten = r.rewritten
        /\ requests'["daily"].reads = Append(r.reads, found)
    <2>1. requests' = [requests EXCEPT !["daily"].reads = Append(r.reads, found)]
      BY DEF Read
    <2> HIDE DEF found
    <2> QED
      BY <1>1, <2>1 DEF Request
  <1>10. UNCHANGED <<summary, daily>>
    BY DEF Read, tables, page
  <1> HIDE DEF found
  <1>11. /\ Len(Append(r.reads, found)) = n + 1
         /\ \A i \in 1..n : Append(r.reads, found)[i] = r.reads[i]
         /\ Append(r.reads, found)[n + 1] = found
    BY <1>3
  <1>12. \A i \in 1..(n + 1) :
            /\ DOMAIN Append(r.reads, found)[i] = Plants
            /\ r.rewritten \/ Append(r.reads, found)[i] = summary[d]
    <2>1. \A i \in 1..n : DOMAIN r.reads[i] = Plants /\ (r.rewritten \/ r.reads[i] = summary[d])
      BY DEF IInv, DailyInv
    <2> QED
      BY <1>3, <1>7, <1>8, <1>11, <2>1
  <1> QED
    BY <1>2, <1>3, <1>5, <1>7, <1>9, <1>10, <1>11, <1>12 DEF DailyInv

LEMMA DailyEnds ==
    ASSUME RequestsOK, NEW status, Answer("daily", status)
    PROVE  DailyInv'
  <1>1. requests'["daily"] = NoRequest
    BY AnswerEndsRequest DEF Clients
  <1> QED
    BY <1>1 DEF DailyInv, NoRequest

LEMMA DailyStays == IInv /\ Next => DailyInv'
  <1> SUFFICES ASSUME IInv, Next PROVE DailyInv'
    OBVIOUS
  <1>1. /\ RequestsOK /\ DailyInv /\ "daily" \in Clients
        /\ requests["daily"] \in Request("daily")
    BY DEF IInv, TypeOK, RequestsOK, Clients
  <1>2. CASE UNCHANGED <<summary, daily>> /\ requests'["daily"] = requests["daily"]
    BY <1>1, <1>2 DEF DailyInv
  <1>3. CASE Tick \/ WriteLive \/ Restore
    BY <1>2, <1>3 DEF Tick, WriteLive, Restore, tables, page
  <1>4. ASSUME NEW d \in Dates, Reconcile(d) PROVE DailyInv'
    <2> DEFINE r == requests["daily"]
               s == requests'["daily"]
    <2>1. /\ s.reads = r.reads /\ s.date = r.date /\ s.phase = r.phase
          /\ s.rewritten = r.rewritten \/ s.rewritten = TRUE
          /\ r.date = d /\ r.reads # <<>> => s.rewritten = TRUE
      BY <1>1, <1>4 DEF Reconcile, Overtaken, Request
    <2>2. daily' = daily
      BY <1>4 DEF Reconcile, page
    <2>3. /\ \A e \in Dates \ {d} : summary'[e] = summary[e]
          /\ \A p \in Plants : summary'[d][p] = summary[d][p] + 1 /\ summary[d][p] \in Nat
      BY <1>4 DEF Reconcile, IInv, TypeOK, TablesOK
    <2>4. r.reads # <<>> => r.date \in Dates
      BY <1>1 DEF DailyInv
    <2>5. ASSUME r.reads # <<>>, NEW p \in Plants PROVE summary'[r.date][p] > 0
      <3>1. summary[r.date][p] > 0
        BY <1>1, <2>5 DEF DailyInv
      <3>2. CASE r.date = d
        BY <2>3, <3>2
      <3>3. CASE r.date # d
        BY <2>3, <2>4, <2>5, <3>1, <3>3
      <3> QED
        BY <3>2, <3>3
    <2>6. ASSUME NEW i \in 1..Len(r.reads)
          PROVE  DOMAIN r.reads[i] = Plants /\ (s.rewritten \/ r.reads[i] = summary'[r.date])
      <3>1. r.reads # <<>>
        BY <2>6
      <3>2. DOMAIN r.reads[i] = Plants /\ (r.rewritten \/ r.reads[i] = summary[r.date])
        BY <1>1, <2>6 DEF DailyInv
      <3>3. CASE r.date = d
        BY <2>1, <3>1, <3>2, <3>3
      <3>4. CASE r.date # d
        BY <2>1, <2>3, <2>4, <3>1, <3>2, <3>4
      <3> QED
        BY <3>3, <3>4
    <2> QED
      BY <1>1, <2>1, <2>2, <2>5, <2>6 DEF DailyInv
  <1>5. CASE Crash
    <2>1. LET r == requests["daily"]
              s == requests'["daily"]
          IN  /\ s.reads = r.reads /\ s.date = r.date /\ s.rewritten = r.rewritten
              /\ s.phase = r.phase
      BY <1>1, <1>5 DEF Crash, Request
    <2>2. UNCHANGED <<summary, daily>>
      BY <1>5 DEF Crash, tables, page
    <2> QED
      BY <1>1, <2>1, <2>2, DailyGoesOn
  <1>6. CASE Ask("daily")
    <2>1. PICK d \in Dates \cup {Null} :
             /\ d # Null /\ daily[d] = "unknown"
             /\ requests' = [requests EXCEPT
                  !["daily"] = [NoRequest EXCEPT !.phase = "waiting", !.date = d]]
      BY <1>6 DEF Ask, Asks
    <2>2. LET s == requests'["daily"]
          IN  s.phase = "waiting" /\ s.date = d /\ s.reads = <<>>
      BY <1>1, <2>1 DEF RequestsOK, NoRequest
    <2>3. daily' = daily
      BY <1>6 DEF Ask, page
    <2> QED
      BY <2>1, <2>2, <2>3 DEF DailyInv
  <1>7. CASE GetConn("daily")
    <2>1. LET r == requests["daily"]
              s == requests'["daily"]
          IN  /\ s.reads = r.reads /\ s.date = r.date /\ s.rewritten = r.rewritten
              /\ s.phase = "open" /\ r.phase # "none"
      BY <1>1, <1>7 DEF GetConn, RequestsOK, Request
    <2>2. UNCHANGED <<summary, daily>>
      BY <1>7 DEF GetConn, tables, page
    <2> QED
      BY <1>1, <2>1, <2>2, DailyGoesOn
  <1>8. CASE Read("daily")
    BY <1>8, DailyReads
  <1>9. CASE GetConnFails("daily") \/ Missing("daily") \/ Complete("daily") \/ Break("daily")
    BY <1>1, <1>9, AnswersAre, DailyEnds
  <1>10. ASSUME NEW c \in Clients \ {"daily"}, Ask(c) \/ Handle(c) PROVE DailyInv'
    BY <1>2, <1>10, OthersLeaveDaily
  <1> QED
    BY <1>3, <1>4, <1>5, <1>6, <1>7, <1>8, <1>9, <1>10 DEF Next, Handle

\* What the page knows of the days, and how often it has tried.
DaysShown ==
    /\ daily \in [Dates -> {"unknown", "missing", "failed", "shown"}]
    /\ tries \in [Dates -> 0..(Retries + 1)]
    /\ TriesInv

LEMMA DaysShownStay == IInv /\ Next => DaysShown'
  <1> SUFFICES ASSUME IInv, Next PROVE DaysShown'
    OBVIOUS
  <1> USE ServingAssumption
  <1>1. /\ daily \in [Dates -> {"unknown", "missing", "failed", "shown"}]
        /\ tries \in [Dates -> 0..(Retries + 1)]
        /\ TriesInv /\ DailyInv /\ "daily" \in Clients
    BY DEF IInv, TypeOK, PageOK, Clients
  <1>2. CASE UNCHANGED <<daily, tries>>
    BY <1>1, <1>2 DEF DaysShown, TriesInv
  <1>3. ASSUME NEW c \in Clients \ {"daily"}, Ask(c) \/ Handle(c) PROVE DaysShown'
    BY <1>2, <1>3, OthersLeaveDaily
  <1>4. CASE GetConnFails("daily") \/ Missing("daily") \/ Complete("daily") \/ Break("daily")
    <2> DEFINE d == requests["daily"].date
    <2>1. PICK status \in {200, 404, 500} : Answer("daily", status)
      BY <1>1, <1>4, AnswersAre
    <2>2. ShowDaily(status, d)
      BY <1>1, <2>1, AnswersShow
    <2>3. d \in Dates /\ daily[d] = "unknown"
      BY <1>1, <1>4 DEF DailyInv, GetConnFails, Missing, Complete, Break
    <2>4. tries[d] \in Nat /\ tries[d] <= Retries /\ Retries \in Nat
      BY <1>1, <2>3 DEF TriesInv
    <2> HIDE DEF d
    <2>5. CASE status = 200
      <3>1. daily' = [daily EXCEPT ![d] = "shown"] /\ tries' = tries
        BY <2>2, <2>5 DEF ShowDaily
      <3> QED
        BY <1>1, <2>3, <3>1 DEF DaysShown, TriesInv
    <2>6. CASE status = 404
      <3>1. daily' = [daily EXCEPT ![d] = "missing"] /\ tries' = tries
        BY <2>2, <2>6 DEF ShowDaily
      <3> QED
        BY <1>1, <2>3, <3>1 DEF DaysShown, TriesInv
    <2>7. CASE status = 500
      <3>1. /\ daily' = [daily EXCEPT ![d] = IF tries[d] < Retries THEN "unknown" ELSE "failed"]
            /\ tries' = [tries EXCEPT ![d] = tries[d] + 1]
        BY <2>2, <2>7 DEF ShowDaily
      <3>2. tries' \in [Dates -> 0..(Retries + 1)]
        BY <1>1, <2>3, <2>4, <3>1
      <3>3. daily' \in [Dates -> {"unknown", "missing", "failed", "shown"}]
        BY <1>1, <2>3, <3>1
      <3>4. TriesInv'
        BY <1>1, <2>3, <2>4, <3>1 DEF TriesInv
      <3> QED
        BY <3>2, <3>3, <3>4 DEF DaysShown
    <2> QED
      BY <2>1, <2>5, <2>6, <2>7
  <1>5. CASE Ask("daily") \/ GetConn("daily") \/ Read("daily")
    BY <1>2, <1>5 DEF Ask, GetConn, Read, page
  <1>6. CASE Tick \/ WriteLive \/ Crash \/ Restore \/ \E d \in Dates : Reconcile(d)
    BY <1>2, <1>6 DEF Tick, WriteLive, Crash, Restore, Reconcile, page
  <1> QED
    BY <1>3, <1>4, <1>5, <1>6 DEF Next, Handle

LEMMA ReportStaysWhole == IInv /\ Next => ReportIsWhole'
  <1> SUFFICES ASSUME IInv, Next PROVE ReportIsWhole'
    OBVIOUS
  <1>1. /\ RequestsOK /\ DailyInv /\ ReportIsWhole /\ "daily" \in Clients
        /\ "daily" \in DOMAIN replies /\ requests["daily"] \in Request("daily")
    BY DEF IInv, TypeOK, RequestsOK, Clients
  <1>2. CASE replies'["daily"] = replies["daily"]
    BY <1>1, <1>2 DEF ReportIsWhole
  <1>3. ASSUME NEW c \in Clients \ {"daily"}, Ask(c) \/ Handle(c) PROVE ReportIsWhole'
    BY <1>2, <1>3, OthersLeaveDaily
  <1>4. CASE GetConnFails("daily") \/ Missing("daily") \/ Complete("daily") \/ Break("daily")
    <2> DEFINE r == requests["daily"]
    <2>1. PICK status \in {200, 404, 500, 503} :
              Answer("daily", status) /\ (status = 200 => Complete("daily"))
      BY <1>1, <1>4, AnswersAre
    <2>2. replies'["daily"] = [status |-> status, reads |-> r.reads,
                               rewritten |-> r.rewritten]
      BY <1>1, <2>1 DEF Answer
    <2>3. CASE status # 200
      BY <2>2, <2>3 DEF ReportIsWhole
    <2>4. CASE Complete("daily")
      <3>1. Len(r.reads) = 2
        BY <2>4 DEF Complete, HasRead, Selects
      <3>2. \A i \in 1..2 : /\ DOMAIN r.reads[i] = Plants
                            /\ r.rewritten \/ r.reads[i] = summary[r.date]
        BY <1>1, <3>1 DEF DailyInv
      <3>3. r.rewritten \/ r.reads[1] = r.reads[2]
        BY <3>2
      <3> QED
        BY <2>2, <3>2, <3>3 DEF ReportIsWhole
    <2> QED
      BY <2>1, <2>3, <2>4
  <1> QED
    BY <1>2, <1>3, <1>4
    DEF Next, Handle, Tick, WriteLive, Crash, Restore, Reconcile, Ask, GetConn, Read

-----------------------------------------------------------------------------
(***************************************************************************)
(* The live page.                                                          *)
(***************************************************************************)
LEMMA OthersLeaveLive ==
    ASSUME IInv, NEW c \in Clients \ {"live"}, Ask(c) \/ Handle(c)
    PROVE  requests'["live"] = requests["live"] /\ UNCHANGED <<live, chart, rows>>
  <1>1. RequestsOK /\ "live" \in Clients
    BY DEF IInv, TypeOK, Clients
  <1>2. CASE Ask(c) \/ GetConn(c) \/ Read(c)
    BY <1>1, <1>2 DEF Ask, GetConn, Read, RequestsOK, page, tables
  <1>3. CASE GetConnFails(c) \/ Missing(c) \/ Complete(c) \/ Break(c)
    <2>1. PICK status \in {200, 404, 500, 503} : Answer(c, status)
      BY <1>3, AnswersAre
    <2>2. UNCHANGED <<live, chart>> /\ requests'["live"] = requests["live"]
      BY <1>1, <2>1, AnswersShow, AnswerEndsRequest
    <2>3. rows' = rows
      BY <1>3 DEF GetConnFails, Missing, Complete, Break, tables
    <2> QED
      BY <2>2, <2>3
  <1> QED
    BY <1>2, <1>3 DEF Handle

\* The last n entries of a sequence.
LEMMA LastOfIsSuffix ==
    ASSUME NEW seq \in Seq(Nat), seq # <<>>, NEW n \in Nat \ {0}
    PROVE  \E k \in Nat :
              /\ k < Len(seq)
              /\ LastOf(seq, n) \in Seq(Nat)
              /\ Len(LastOf(seq, n)) = Len(seq) - k
              /\ Len(LastOf(seq, n)) <= n
              /\ \A i \in 1..(Len(seq) - k) : LastOf(seq, n)[i] = seq[i + k]
  <1> DEFINE l == Len(seq)
             m == Max({1, l - n + 1})
             k == m - 1
  <1>1. l \in Nat /\ l > 0
    OBVIOUS
  <1>2. m = IF l >= n THEN l - n + 1 ELSE 1
    <2> HIDE DEF l
    <2> QED
      BY <1>1 DEF Max
  <1>3. m \in Nat /\ k \in Nat /\ k < l /\ l - k <= n /\ m = k + 1
    <2> HIDE DEF l
    <2> QED
      BY <1>1, <1>2
  <1>4. \A i \in m..l : seq[i] \in Nat
    <2>1. \A i \in m..l : i \in 1..l
      <3> HIDE DEF l, m
      <3> QED
        BY <1>1, <1>3
    <2> HIDE DEF m
    <2> QED
      BY <2>1
  <1>5. LastOf(seq, n) = SubSeq(seq, m, l)
    BY DEF LastOf
  <1> HIDE DEF l, m
  <1>6. /\ SubSeq(seq, m, l) \in Seq(Nat)
        /\ Len(SubSeq(seq, m, l)) = l - m + 1
        /\ \A i \in 1..(l - m + 1) : SubSeq(seq, m, l)[i] = seq[m + i - 1]
    <2>1. m \in Int /\ l \in Int /\ m <= l
      BY <1>1, <1>3
    <2> QED
      BY <1>4, <2>1, SubSeqProperties
  <1>7. l - m + 1 = l - k /\ \A i \in 1..(l - k) : m + i - 1 = i + k
    BY <1>1, <1>3
  <1> QED
    BY <1>3, <1>5, <1>6, <1>7 DEF l

LiveShown ==
    /\ live \in [end : rows \cup {Null}, label : {"LIVE", "STALE", "NO_DATA"},
                 recent : BOOLEAN]
    /\ chart \in Seq(Nat) /\ Len(chart) <= MaxPoints
    /\ LiveInv
    /\ ChartInv

\* The page as it is, while rows arrive and the request goes on or ends.
LEMMA LiveGoesOn ==
    ASSUME LiveShown, rows \subseteq rows', UNCHANGED <<live, chart>>,
           LET r == requests["live"]
               s == requests'["live"]
           IN  \/ s.reads = <<>>
               \/ s.reads = r.reads /\ (s.phase = "open" \/ s.phase = r.phase)
    PROVE  LiveShown'
  <1>1. live' \in [end : rows' \cup {Null}, label : {"LIVE", "STALE", "NO_DATA"},
                   recent : BOOLEAN]
    <2>1. live = [end |-> live.end, label |-> live.label, recent |-> live.recent]
          /\ live.end \in rows \cup {Null} /\ live.label \in {"LIVE", "STALE", "NO_DATA"}
          /\ live.recent \in BOOLEAN
      BY Zenon DEF LiveShown
    <2> QED
      BY <2>1
  <1>2. LiveInv'
    BY DEF LiveShown, LiveInv
  <1>3. ChartInv'
    BY DEF LiveShown, ChartInv
  <1> QED
    BY <1>1, <1>2, <1>3 DEF LiveShown

\* What the request finds is the page's row or a later one.
LEMMA LiveReads ==
    ASSUME IInv, Read("live")
    PROVE  LiveShown'
  <1> DEFINE r == requests["live"]
             found == Selects("live", r.date)[HasRead("live") + 1]
             n == Len(r.reads)
  <1>1. /\ r.phase = "open" /\ "live" \in Clients /\ r \in Request("live")
        /\ DOMAIN requests = Clients
    BY DEF Read, IInv, TypeOK, RequestsOK, Clients
  <1>2. r.reads \in Seq(Found("live")) /\ n \in Nat
    <2>1. r.reads \in Seq(Found("live"))
      BY <1>1 DEF Request
    <2> QED
      BY <2>1
  <1>3. n < Len(Selects("live", r.date)) /\ HasRead("live") = n
    BY DEF Read, HasRead
  <1>4. Len(Selects("live", r.date)) = 2
    BY DEF Selects
  <1>5. requests'["live"].reads = Append(r.reads, found) /\ requests'["live"].phase = "open"
    <2>1. requests' = [requests EXCEPT !["live"].reads = Append(r.reads, found)]
      BY DEF Read
    <2> HIDE DEF found
    <2> QED
      BY <1>1, <2>1 DEF Request
  <1>6. UNCHANGED <<rows, live, chart>>
    BY DEF Read, tables, page
  <1>7. n = 0 => found = LatestMetric
    BY <1>1, <1>3, <1>4, SelectsFind DEF IInv
  <1>8. live.end \in rows \cup {Null}
    BY DEF IInv, TypeOK, PageOK
  <1> HIDE DEF found
  <1>9. Append(r.reads, found)[1] = (IF n = 0 THEN found ELSE r.reads[1])
        /\ (n # 0 => r.reads # <<>>)
    BY <1>2
  <1>10. LiveInv'
    <2>1. CASE n = 0
      <3>1. requests'["live"].reads[1] = LatestMetric
        BY <1>5, <1>7, <1>9, <2>1
      <3>2. /\ LatestMetric = Null => live.end = Null
            /\ LatestMetric # Null =>
                  LatestMetric \in rows /\ (live.end # Null => live.end <= LatestMetric)
        BY <1>8, LatestIsARow DEF IInv
      <3> QED
        BY <1>5, <1>6, <3>1, <3>2 DEF LiveInv
    <2>2. CASE n # 0
      <3>1. requests'["live"].reads[1] = r.reads[1] /\ r.reads # <<>>
        BY <1>5, <1>9, <2>2
      <3> QED
        BY <1>5, <1>6, <3>1 DEF IInv, LiveInv
    <2> QED
      BY <2>1, <2>2
  <1> QED
    BY <1>6, <1>10 DEF IInv, TypeOK, PageOK, LiveShown, ChartInv

\* A new row is plotted after the others.
LEMMA PlottedInOrder ==
    ASSUME LiveShown, rows \subseteq Nat,
           NEW e \in Nat, live.end # Null => live.end <= e, live'.end = e,
           chart' = Plotted(e)
    PROVE  chart' \in Seq(Nat) /\ Len(chart') <= MaxPoints /\ ChartInv'
  <1> USE ServingAssumption
  <1>1. chart \in Seq(Nat) /\ Len(chart) <= MaxPoints /\ ChartInv /\ e # Null
    BY DEF LiveShown
  <1>2. CASE live.end # Null /\ e = live.end
    <2>1. chart' = chart
      BY <1>2 DEF Plotted
    <2> QED
      BY <1>1, <1>2, <2>1 DEF ChartInv
  <1>3. CASE ~(live.end # Null /\ e = live.end)
    <2> DEFINE seq == Append(chart, e)
               n == Len(chart)
    <2>1. chart' = LastOf(seq, MaxPoints)
      BY <1>1, <1>3 DEF Plotted
    <2>2. /\ n \in Nat /\ seq \in Seq(Nat) /\ seq # <<>> /\ Len(seq) = n + 1
          /\ \A i \in 1..n : seq[i] = chart[i] /\ chart[i] \in Nat
          /\ seq[n + 1] = e
      <3>1. n \in Nat /\ seq \in Seq(Nat) /\ Len(seq) = n + 1
        BY <1>1
      <3>2. \A i \in 1..n : seq[i] = chart[i] /\ chart[i] \in Nat
        BY <1>1
      <3>3. seq[n + 1] = e
        BY <1>1
      <3>4. seq # <<>>
        BY <1>1
      <3> QED
        BY <3>1, <3>2, <3>3, <3>4
    <2>3. n # 0 => chart[n] < e
      <3>1. SUFFICES ASSUME n # 0 PROVE chart[n] < e
        OBVIOUS
      <3>2. chart # <<>> /\ chart[n] \in Nat
        BY <1>1, <3>1
      <3>3. live.end = chart[n]
        BY <1>1, <3>2 DEF ChartInv
      <3>4. live.end # Null /\ live.end # e
        BY <1>3, <3>2, <3>3
      <3> HIDE DEF n
      <3> QED
        BY <3>2, <3>3, <3>4
    <2>4. \A i \in 1..(n - 1) : chart[i] < chart[i + 1]
      BY <1>1 DEF ChartInv
    <2> HIDE DEF seq, n
    <2>5. \A i \in 1..n : seq[i] < seq[i + 1]
      <3> SUFFICES ASSUME NEW i \in 1..n PROVE seq[i] < seq[i + 1]
        OBVIOUS
      <3>1. CASE i = n
        BY <2>2, <2>3, <3>1
      <3>2. CASE i # n
        <4>1. i \in 1..(n - 1) /\ i + 1 \in 1..n
          BY <2>2, <3>2
        <4> QED
          BY <2>2, <2>4, <4>1
      <3> QED
        BY <3>1, <3>2
    <2>6. PICK k \in Nat :
              /\ k < n + 1
              /\ chart' \in Seq(Nat)
              /\ Len(chart') = n + 1 - k
              /\ Len(chart') <= MaxPoints
              /\ \A i \in 1..(n + 1 - k) : chart'[i] = seq[i + k]
      <3>1. PICK k \in Nat :
                /\ k < Len(seq)
                /\ LastOf(seq, MaxPoints) \in Seq(Nat)
                /\ Len(LastOf(seq, MaxPoints)) = Len(seq) - k
                /\ Len(LastOf(seq, MaxPoints)) <= MaxPoints
                /\ \A i \in 1..(Len(seq) - k) : LastOf(seq, MaxPoints)[i] = seq[i + k]
        <4>1. MaxPoints \in Nat \ {0}
          OBVIOUS
        <4> QED
          BY <2>2, <4>1, LastOfIsSuffix
      <3> QED
        BY <2>1, <2>2, <3>1
    <2>7. \A i \in 1..(Len(chart') - 1) : chart'[i] < chart'[i + 1]
      <3> SUFFICES ASSUME NEW i \in 1..(Len(chart') - 1) PROVE chart'[i] < chart'[i + 1]
        OBVIOUS
      <3>1. /\ i \in 1..(n + 1 - k) /\ i + 1 \in 1..(n + 1 - k)
            /\ i + k \in 1..n /\ (i + 1) + k = (i + k) + 1
        BY <2>2, <2>6
      <3>2. chart'[i] = seq[i + k] /\ chart'[i + 1] = seq[(i + k) + 1]
        BY <2>6, <3>1
      <3> QED
        BY <2>5, <3>1, <3>2
    <2>8. chart'[Len(chart')] = e
      <3>1. Len(chart') \in 1..(n + 1 - k) /\ Len(chart') + k = n + 1
        BY <2>2, <2>6
      <3> QED
        BY <2>2, <2>6, <3>1
    <2> QED
      BY <2>6, <2>7, <2>8 DEF ChartInv
  <1> QED
    BY <1>2, <1>3

LEMMA StatusIsALabel ==
    ASSUME TypeOK, NEW e \in rows \cup {Null}
    PROVE  DataStatus(e) \in {"LIVE", "STALE", "NO_DATA"}
  <1> USE ServingAssumption
  <1>1. now \in Int /\ StaleAfter \in Int
    BY DEF TypeOK, TablesOK
  <1>2. CASE e = Null
    BY <1>2 DEF DataStatus
  <1>3. CASE e # Null
    <2>1. e \in Int
      BY <1>3, LatestIsARow
    <2> QED
      BY <1>1, <1>3, <2>1 DEF DataStatus
  <1> QED
    BY <1>2, <1>3

LEMMA LiveIsAnswered ==
    ASSUME IInv, NEW status \in {200, 500}, Answer("live", status), tables' = tables,
           status = 200 => Complete("live")
    PROVE  LiveShown'
  <1> USE ServingAssumption
  <1> DEFINE r == requests["live"]
             e == r.reads[1]
  <1>1. /\ LiveShown /\ LiveInv /\ RequestsOK /\ "live" \in Clients
        /\ rows' = rows /\ rows \subseteq Nat
    BY LatestIsARow DEF IInv, TypeOK, PageOK, LiveShown, Clients, tables
  <1>2. requests'["live"].reads = <<>>
    BY <1>1, AnswerEndsRequest DEF NoRequest
  <1>3. ShowLive(status, r.reads)
    BY <1>1, AnswersShow
  <1>4. CASE status # 200
    <2>1. UNCHANGED <<live, chart>>
      BY <1>3, <1>4 DEF ShowLive
    <2> QED
      BY <1>1, <1>2, <2>1, LiveGoesOn
  <1>5. CASE status = 200
    <2>1. r.reads # <<>>
      <3>1. Len(Selects("live", r.date)) = 2
        BY DEF Selects
      <3>2. HasRead("live") = Len(Selects("live", r.date))
        BY <1>5 DEF Complete
      <3>3. HasRead("live") = 2
        BY <3>1, <3>2
      <3>4. Len(<<>>) # 2
        OBVIOUS
      <3> QED
        BY <3>3, <3>4, Zenon DEF HasRead
    <2>2. /\ e = Null => live.end = Null
          /\ e # Null => e \in rows /\ (live.end # Null => live.end <= e)
      BY <1>1, <2>1 DEF LiveInv
    <2> HIDE DEF e
    <2>3. /\ live' = [end |-> e, label |-> DataStatus(e),
                      recent |-> newest # Null /\ now - newest.at <= StaleAfter]
          /\ chart' = Plotted(e)
      BY <1>3, <1>5 DEF ShowLive, e
    <2>4. DataStatus(e) \in {"LIVE", "STALE", "NO_DATA"}
      <3>1. e \in rows \cup {Null}
        BY <2>2
      <3> QED
        BY <3>1, StatusIsALabel DEF IInv
    <2>5. e \in rows \cup {Null}
      BY <2>2
    <2>6. live' \in [end : rows' \cup {Null}, label : {"LIVE", "STALE", "NO_DATA"},
                     recent : BOOLEAN]
      <3> DEFINE label == DataStatus(e)
                 recent == newest # Null /\ now - newest.at <= StaleAfter
      <3>1. recent \in BOOLEAN
        OBVIOUS
      <3> HIDE DEF label, recent
      <3> QED
        BY <1>1, <2>3, <2>4, <2>5, <3>1 DEF label, recent
    <2>7. LiveInv'
      BY <1>2 DEF LiveInv
    <2>8. live'.end = e
      BY <2>3
    <2>9. CASE e = Null
      <3>1. chart' = chart /\ live.end = Null
        BY <2>2, <2>3, <2>9 DEF Plotted
      <3>2. ChartInv'
        BY <1>1, <2>8, <2>9, <3>1 DEF LiveShown, ChartInv
      <3> QED
        BY <1>1, <2>6, <2>7, <3>1, <3>2 DEF LiveShown
    <2>10. CASE e # Null
      BY <1>1, <2>2, <2>3, <2>6, <2>7, <2>8, <2>10, PlottedInOrder DEF LiveShown
    <2> QED
      BY <2>9, <2>10
  <1> QED
    BY <1>4, <1>5

LEMMA LiveStays == IInv /\ Next => LiveShown'
  <1> SUFFICES ASSUME IInv, Next PROVE LiveShown'
    OBVIOUS
  <1>1. /\ LiveShown /\ RequestsOK /\ "live" \in Clients /\ rows \subseteq rows'
        /\ requests["live"] \in Request("live")
    BY TablesStay DEF IInv, TypeOK, PageOK, LiveShown, RequestsOK, Clients
  <1>2. CASE UNCHANGED <<live, chart>> /\ requests'["live"] = requests["live"]
    BY <1>1, <1>2, LiveGoesOn
  <1>3. CASE Tick \/ WriteLive \/ Restore
    BY <1>2, <1>3 DEF Tick, WriteLive, Restore, page
  <1>4. ASSUME NEW d \in Dates, Reconcile(d) PROVE LiveShown'
    <2>1. /\ requests'["live"].reads = requests["live"].reads
          /\ requests'["live"].phase = requests["live"].phase
      BY <1>1, <1>4 DEF Reconcile, Overtaken, Request
    <2>2. UNCHANGED <<live, chart>>
      BY <1>4 DEF Reconcile, page
    <2> QED
      BY <1>1, <2>1, <2>2, LiveGoesOn
  <1>5. CASE Crash
    <2>1. /\ requests'["live"].reads = requests["live"].reads
          /\ requests'["live"].phase = requests["live"].phase
      BY <1>1, <1>5 DEF Crash, Request
    <2>2. UNCHANGED <<live, chart>>
      BY <1>5 DEF Crash, page
    <2> QED
      BY <1>1, <2>1, <2>2, LiveGoesOn
  <1>6. CASE Ask("live")
    <2>1. requests'["live"].reads = <<>>
      BY <1>1, <1>6 DEF Ask, RequestsOK, NoRequest
    <2>2. UNCHANGED <<live, chart>>
      BY <1>6 DEF Ask, page
    <2> QED
      BY <1>1, <2>1, <2>2, LiveGoesOn
  <1>7. CASE GetConn("live")
    <2>1. /\ requests'["live"].reads = requests["live"].reads
          /\ requests'["live"].phase = "open"
      BY <1>1, <1>7 DEF GetConn, RequestsOK, Request
    <2>2. UNCHANGED <<live, chart>>
      BY <1>7 DEF GetConn, page
    <2> QED
      BY <1>1, <2>1, <2>2, LiveGoesOn
  <1>8. CASE Read("live")
    BY <1>8, LiveReads
  <1>9. CASE GetConnFails("live") \/ Missing("live") \/ Complete("live") \/ Break("live")
    <2>1. PICK status \in {200, 404, 500, 503} :
              /\ Answer("live", status)
              /\ status = 200 => Complete("live")
              /\ status = 404 => Missing("live")
              /\ status # 503
      BY <1>1, <1>9, AnswersAre
    <2>2. ~Missing("live")
      BY DEF Missing, IsMissing
    <2>3. tables' = tables
      BY <1>9 DEF GetConnFails, Missing, Complete, Break
    <2> QED
      BY <2>1, <2>2, <2>3, LiveIsAnswered
  <1>10. ASSUME NEW c \in Clients \ {"live"}, Ask(c) \/ Handle(c) PROVE LiveShown'
    BY <1>2, <1>10, OthersLeaveLive
  <1> QED
    BY <1>3, <1>4, <1>5, <1>6, <1>7, <1>8, <1>9, <1>10 DEF Next, Handle

-----------------------------------------------------------------------------
(***************************************************************************)
(* The specification.                                                      *)
(***************************************************************************)
LEMMA InvInitially == Init => IInv
  <1> SUFFICES ASSUME Init PROVE IInv
    OBVIOUS
  <1> USE ServingAssumption
  <1>1. EventTime(MaxNow) \in Nat
    BY ClocksAreNumbers
  <1>2. TablesOK
    BY <1>1 DEF Init, TablesOK
  <1>3. PoolOK
    BY DEF Init, PoolOK
  <1>4. RequestsOK
    <2>1. \A c \in Clients : NoRequest \in Request(c) /\ NoReply \in Reply(c)
      BY DEF NoRequest, Request, NoReply, Reply
    <2> QED
      BY <2>1 DEF Init, RequestsOK
  <1>5. PageOK
    <2>1. live \in [end : rows \cup {Null}, label : {"LIVE", "STALE", "NO_DATA"},
                    recent : BOOLEAN]
      BY DEF Init, NoData
    <2>2. chart \in Seq(Nat) /\ Len(chart) <= MaxPoints
      BY DEF Init
    <2>3. /\ daily \in [Dates -> {"unknown", "missing", "failed", "shown"}]
          /\ tries \in [Dates -> 0..(Retries + 1)]
      BY DEF Init
    <2> QED
      BY <2>1, <2>2, <2>3 DEF PageOK
  <1>6. PoolInv
    <2>1. Open = {}
      BY DEF Init, Open, NoRequest
    <2>2. Cardinality(Open) = 0
      BY <2>1, FS_EmptySet
    <2> QED
      BY <2>2 DEF Init, PoolInv
  <1>7. DaysAreWhole
    BY DEF Init, DaysAreWhole
  <1>8. DailyInv
    BY DEF Init, DailyInv, NoRequest, Clients
  <1>9. TriesInv
    BY DEF Init, TriesInv
  <1>10. LiveInv /\ ChartInv
    BY DEF Init, LiveInv, ChartInv, NoRequest, Clients
  <1>11. ReportIsWhole
    BY DEF Init, ReportIsWhole, NoReply, Clients
  <1> QED
    BY <1>2, <1>3, <1>4, <1>5, <1>6, <1>7, <1>8, <1>9, <1>10, <1>11 DEF IInv, TypeOK

LEMMA InvStays == IInv /\ [Next]_vars => IInv'
  <1>1. CASE Next
    <2> SUFFICES ASSUME IInv, Next PROVE IInv'
      BY <1>1
    <2>1. TablesOK' /\ DaysAreWhole'
      BY TablesStay, DaysStayWhole DEF IInv
    <2>2. PoolOK' /\ PoolInv' /\ RequestsOK'
      BY PoolStays, RequestsStay
    <2>3. DailyInv' /\ DaysShown' /\ ReportIsWhole' /\ LiveShown'
      BY DailyStays, DaysShownStay, ReportStaysWhole, LiveStays
    <2> QED
      BY <2>1, <2>2, <2>3 DEF IInv, TypeOK, PageOK, DaysShown, LiveShown
  <1>2. CASE UNCHANGED vars
    BY <1>2 DEF vars, tables, pool, page, IInv, TypeOK, TablesOK, PoolOK, RequestsOK, PageOK,
        PoolInv, Open, DaysAreWhole, DailyInv, TriesInv, LiveInv, ChartInv, ReportIsWhole
  <1> QED
    BY <1>1, <1>2

\* Pool, requests, tables and page stay in step, whatever crashes and whenever.
THEOREM ServingInvariant == Spec => []IInv
  BY InvInitially, InvStays, PTL DEF Spec

\* The pool has given out a connection for each request that holds one, and
\* never more than its limit.
THEOREM PoolAccountsTheorem == Spec => []PoolAccounts
  <1>1. IInv => PoolAccounts
    BY DEF IInv, PoolInv, PoolAccounts
  <1> QED
    BY <1>1, ServingInvariant, PTL

\* A crash costs one request that comes after it at most.
THEOREM OneRequestPaysTheorem == Spec => []OneRequestPays
  <1>1. IInv => OneRequestPays
    BY DEF IInv, PoolInv, OneRequestPays
  <1> QED
    BY <1>1, ServingInvariant, PTL

\* A daily reply is of all plants, and of one reconciliation unless another one
\* overtook it.
THEOREM ReportIsWholeTheorem == Spec => []ReportIsWhole
  <1>1. IInv => ReportIsWhole
    BY DEF IInv
  <1> QED
    BY <1>1, ServingInvariant, PTL

\* The chart is in the order of event time, without repeats.
THEOREM ChartInOrderTheorem == Spec => []ChartInOrder
  <1>1. IInv => ChartInOrder
    BY DEF IInv, ChartInv, ChartInOrder
  <1> QED
    BY <1>1, ServingInvariant, PTL
=============================================================================
