----------------------------- MODULE DailyFeed ------------------------------
(***************************************************************************)
(* One simulated day's reference feed and what the batch layer makes of    *)
(* it, as operators: the generator (simulators/batch/reference.py), the    *)
(* validation and the upsert (processing/batch/reference.py) and the       *)
(* reconciliation (processing/batch/reconcile.py).  BatchDay runs them     *)
(* under Airflow.                                                          *)
(*                                                                         *)
(* A CSV field is the value its text parses to, or Null when it is empty   *)
(* or does not parse.  Energy and power are integers in a unit of the      *)
(* instance; availability and downtime pass through the reconciliation     *)
(* unread and are left out.                                                *)
(***************************************************************************)
EXTENDS Integers, SequencesExt

CONSTANTS
    Plants,      \* every plant a configuration or a feed may name
    Dates,       \* simulated dates
    Today,       \* the date the runs reconcile
    DefaultRate, \* DEFAULT_PPA_RATE_PER_KWH
    FullPower,   \* what a tick's shape value is a fraction of
    TickHours,   \* simulated hours in a tick
    MaxHours,    \* MAX_EQUIVALENT_SUN_HOURS
    Null

ASSUME FeedAssumption ==
    /\ Today \in Dates
    /\ DefaultRate \in Nat
    /\ {FullPower, TickHours, MaxHours} \subseteq Nat \ {0}
    /\ Null \notin Plants \cup Dates \cup Int

TrueValues  == {"true", "t", "yes", "y", "1"}
FalseValues == {"false", "f", "no", "n", "0", "", "nan"}

ParseBool(text) ==
    IF text \in TrueValues THEN TRUE
    ELSE IF text \in FalseValues THEN FALSE ELSE Null

Numbers == {"capacity", "generation", "peak", "irradiance", "rate"}

PlantsOf(feed) == { feed.rows[i].plant : i \in DOMAIN feed.rows }

(***************************************************************************)
(* The generator.  A configuration is what portfolio.yaml and the settings *)
(* give it: for each plant a capacity and a rate, Null when the plant has  *)
(* none of its own, and the noise-free output of each tick of a day.       *)
(***************************************************************************)
SumOf(shape) == FoldFunction(+, 0, shape)
MaxOf(shape) == FoldFunction(LAMBDA x, y : IF x >= y THEN x ELSE y, 0, shape)

RateOf(spec) == IF spec.rate = Null THEN DefaultRate ELSE spec.rate

\* forecast_plant: the healthy day, integrated over its ticks.
ForecastPlant(p, spec, shape) ==
    [plant       |-> p,
     capacity    |-> spec.capacity,
     generation  |-> (spec.capacity * SumOf(shape) * TickHours) \div FullPower,
     peak        |-> (spec.capacity * MaxOf(shape)) \div FullPower,
     irradiance  |-> SumOf(shape) * TickHours,
     rate        |-> RateOf(spec),
     maintenance |-> "false",
     version     |-> "v1",
     date        |-> Today]

\* The generator refuses a forecast the validation below would reject.
ExpectationIsValid(r) ==
    /\ r.rate >= 0
    /\ r.generation > 0
    /\ r.peak > 0
    /\ r.peak <= r.capacity
    /\ r.generation <= MaxHours * r.capacity

\* The rows are in the order of the configuration, any fixed order here.
GeneratedFeed(config) ==
    LET order == SetToSeq(DOMAIN config.plants)
    IN  [header |-> TRUE,
         rows   |-> [i \in DOMAIN order |->
                       ForecastPlant(order[i], config.plants[order[i]], config.shape)]]

\* generate_daily_reference gets as far as writing: there are ticks, there
\* are plants and every forecast is valid.
CanGenerate(config) ==
    /\ config.shape # <<>>
    /\ DOMAIN config.plants # {}
    /\ \A i \in DOMAIN GeneratedFeed(config).rows :
          ExpectationIsValid(GeneratedFeed(config).rows[i])

(***************************************************************************)
(* validate_reference_frame.  It collects every problem of the feed; what  *)
(* decides is whether there is one.                                        *)
(***************************************************************************)
\* _check_physical_ranges.
RangesAreSound(r) ==
    /\ r.capacity > 0
    /\ r.generation > 0
    /\ r.peak > 0
    /\ r.irradiance >= 0
    /\ r.rate >= 0
    /\ r.peak <= r.capacity
    /\ r.generation <= MaxHours * r.capacity

RowIsSound(r) ==
    /\ Null \notin {r.plant, r.date, r.version}
    /\ \A field \in Numbers : r[field] # Null
    /\ ParseBool(r.maintenance) # Null
    /\ RangesAreSound(r)

\* Mutant: a plant the feed leaves out is not missed.
CoversKnownOnly(seen, expected) == expected = {} \/ seen \subseteq expected

\* Mutant: a plant the registry does not have is not noticed.
CoversAtLeast(seen, expected) == expected \subseteq seen

\* _check_portfolio_coverage: no expectation, no check.
CoversPortfolio(seen, expected) == expected = {} \/ seen = expected

\* _check_single_date: rows of one date, the one that was asked for.
IsForDate(feed, date) == { feed.rows[i].date : i \in DOMAIN feed.rows } = {date}

IsValidFeed(feed, expected, date) ==
    /\ feed # Null
    /\ feed.header
    /\ feed.rows # <<>>
    /\ \A i \in DOMAIN feed.rows : RowIsSound(feed.rows[i])
    /\ \A i, j \in DOMAIN feed.rows :
          feed.rows[i].plant = feed.rows[j].plant => i = j
    /\ CoversPortfolio(PlantsOf(feed), expected)
    /\ IsForDate(feed, date)

(***************************************************************************)
(* Table daily_reference, as a function from the plants it has a row for.  *)
(***************************************************************************)
ReferenceRow(r) ==
    [capacity    |-> r.capacity,
     generation  |-> r.generation,
     peak        |-> r.peak,
     irradiance  |-> r.irradiance,
     rate        |-> r.rate,
     maintenance |-> ParseBool(r.maintenance)]

ReferenceOf(feed) ==
    [p \in PlantsOf(feed) |->
        ReferenceRow(CHOOSE r \in Range(feed.rows) : r.plant = p)]

\* The constraints of the table: its CHECKs, NOT NULL and the foreign key.
AcceptedReference(rows, registry) ==
    /\ DOMAIN rows \subseteq registry
    /\ \A p \in DOMAIN rows :
          /\ rows[p].capacity > 0 /\ rows[p].generation > 0 /\ rows[p].peak > 0
          /\ rows[p].irradiance >= 0 /\ rows[p].rate >= 0
          /\ rows[p].maintenance \in BOOLEAN

\* Mutant: ON CONFLICT DO NOTHING.
UpsertNothing(table, rows) ==
    [p \in DOMAIN rows \cup DOMAIN table |->
        IF p \in DOMAIN table THEN table[p] ELSE rows[p]]

\* ON CONFLICT DO UPDATE, of daily_reference and of daily_plant_summary.
Upsert(table, rows) ==
    [p \in DOMAIN rows \cup DOMAIN table |->
        IF p \in DOMAIN rows THEN rows[p] ELSE table[p]]

(***************************************************************************)
(* reconcile_day.  `actuals` has an entry for each plant with telemetry.   *)
(***************************************************************************)
\* No telemetry at all is reported as zero generation.
Measured(actuals, p) == IF p \in DOMAIN actuals THEN actuals[p] ELSE 0

\* More than IMPLAUSIBLE_PERFORMANCE_PCT of what was expected.
IsImplausible(actual, expected) == 100 * actual > 300 * expected

CanReconcile(actuals, reference) ==
    /\ DOMAIN reference # {}
    /\ DOMAIN actuals \subseteq DOMAIN reference
    /\ \A p \in DOMAIN reference :
          /\ Measured(actuals, p) >= 0
          /\ reference[p].generation > 0
          /\ ~IsImplausible(Measured(actuals, p), reference[p].generation)

LostEnergy(actual, expected) == IF actual < expected THEN expected - actual ELSE 0

SummaryRow(actual, r, alertCount) ==
    [actual      |-> actual,
     expected    |-> r.generation,
     lost        |-> LostEnergy(actual, r.generation),
     rate        |-> r.rate,
     revenue     |-> actual * r.rate,
     lostRevenue |-> LostEnergy(actual, r.generation) * r.rate,
     alerts      |-> alertCount,
     maintenance |-> r.maintenance]

ReconcileDay(actuals, reference, alertCounts) ==
    [p \in DOMAIN reference |->
        SummaryRow(Measured(actuals, p), reference[p], alertCounts[p])]

\* What run_data_quality_checks holds the stored rows against.
PassesQuality(summary, reference, registry) ==
    /\ registry \subseteq DOMAIN summary
    /\ Cardinality(DOMAIN summary) = Cardinality(DOMAIN reference)
    /\ \A p \in DOMAIN summary :
          /\ summary[p].actual >= 0
          /\ summary[p].expected > 0
          /\ summary[p].lost >= 0
          /\ summary[p].revenue >= 0
          /\ summary[p].lostRevenue >= 0
=============================================================================
