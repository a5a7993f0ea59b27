--------------------------- MODULE ClusterLimiter ---------------------------
(***************************************************************************)
(* What one Cluster may send over time (metricsingest/clusterlimit.go): a  *)
(* token bucket of samples, and the active series of the last window, kept *)
(* in a sketch.  The budget of a Cluster that has been silent is forgotten.*)
(* Budgets share nothing but the moment they are pruned at, so that one    *)
(* Cluster is followed, and the batches of others only prune.  Time and    *)
(* tokens are whole; the sketch has a bit per series, so that its estimate *)
(* is the number of bits set.                                              *)
(***************************************************************************)
EXTENDS Integers, FiniteSets, FiniteSetsExt

CONSTANTS
    NoBudget,           \* the Cluster is not in the map
    Series,             \* the series it sends
    BatchSizes,         \* the samples a batch may have
    SampleRate,         \* MaxSamplesPerSecond
    BurstWindow,        \* SampleBurstWindow
    MaxActiveSeries,
    SeriesWindow,       \* ActiveSeriesWindow
    MaxTime             \* bound: the last moment

ASSUME LimiterAssumption ==
    /\ SampleRate \in Nat \ {0} /\ BurstWindow \in Nat \ {0}
    /\ SeriesWindow \in Nat \ {0} /\ MaxActiveSeries \in Nat \ {0}
    /\ BatchSizes \subseteq Nat \ {0}
    /\ IsFiniteSet(Series) /\ MaxTime \in Nat

Burst == SampleRate * BurstWindow

\* The values a budget may have; it is made when its Cluster first sends.
Budgets ==
    [tokens : 0..Burst, tokensAt : Nat, sketch : SUBSET Series, startedAt : Nat,
     previous : 0..Cardinality(Series), reason : {"", "cardinality", "sample_rate"},
     lastSeenAt : Nat]

ASSUME BudgetAssumption == NoBudget \notin Budgets

VARIABLES
    clock,
    budget,             \* clusters[clusterID]
    prunedAt,
    reply,              \* what admit answered at this moment, if it was called
    \* what really happened, for the properties
    reported,           \* when the Cluster last sent each series
    returned,           \* when it last sent after two windows of silence
    accepted            \* the samples accepted since each moment

clVars == <<clock, budget, prunedAt, reply, reported, returned, accepted>>

NoReply == [reason |-> "none", samples |-> 0]

CLInit ==
    /\ clock = 0
    /\ budget = NoBudget
    /\ prunedAt = -SeriesWindow
    /\ reply = NoReply
    /\ reported = [x \in Series |-> -3 * SeriesWindow]
    /\ returned = 0
    /\ accepted = [t \in 0..MaxTime |-> 0]

TimePasses ==
    /\ clock < MaxTime
    /\ clock' = clock + 1
    /\ reply' = NoReply
    /\ UNCHANGED <<budget, prunedAt, reported, returned, accepted>>

NewBudget ==
    [tokens |-> Burst, tokensAt |-> clock, sketch |-> {}, startedAt |-> clock,
     previous |-> 0, reason |-> "", lastSeenAt |-> clock]

\* Faulty: the windows before the last one stay in the count.
RotatedAdding(b) ==
    IF clock - b.startedAt < SeriesWindow THEN b
    ELSE [b EXCEPT !.previous = @ + Cardinality(b.sketch),
                   !.sketch = {}, !.startedAt = clock]

\* rotateLocked: a window that is over becomes the previous one, or is too old.
Rotated(b) ==
    LET elapsed == clock - b.startedAt IN
    IF elapsed < SeriesWindow THEN b
    ELSE [b EXCEPT !.previous = IF elapsed >= 2 * SeriesWindow THEN 0
                                ELSE Cardinality(b.sketch),
                   !.sketch = {}, !.startedAt = clock]

\* activeSeriesLocked: the previous window counts for what remains of this one.
ActiveSeries(b) ==
    LET remaining == SeriesWindow - (clock - b.startedAt) IN
    Cardinality(b.sketch)
      + IF remaining <= 0 THEN 0 ELSE (b.previous * remaining) \div SeriesWindow

PruneIsDue == clock - prunedAt >= SeriesWindow

\* pruneLocked, at the start of every admit, whoever's batch it is.
Kept ==
    IF PruneIsDue /\ budget # NoBudget
         /\ clock - budget.lastSeenAt > 2 * SeriesWindow
    THEN NoBudget ELSE budget

Prune ==
    /\ budget' = Kept
    /\ prunedAt' = IF PruneIsDue THEN clock ELSE prunedAt
    /\ UNCHANGED <<clock, reply, reported, returned, accepted>>

\* The budget admit charges, with the series of the batch already observed.
Observed(batch) ==
    [Rotated(IF Kept = NoBudget THEN NewBudget ELSE Kept)
       EXCEPT !.lastSeenAt = clock, !.sketch = @ \cup batch]

Refilled(b) == Min({Burst, b.tokens + SampleRate * (clock - b.tokensAt)})

Reason(b, samples) ==
    CASE ActiveSeries(b) > MaxActiveSeries -> "cardinality"
      [] Refilled(b) < samples -> "sample_rate"
      [] OTHER -> ""

Charged(b, samples, reason) ==
    IF reason = "cardinality" THEN [b EXCEPT !.reason = reason]
    ELSE [b EXCEPT !.reason = reason, !.tokensAt = clock,
                   !.tokens = Refilled(b) - IF reason = "" THEN samples ELSE 0]

Silent == \A x \in Series : clock - reported[x] > 2 * SeriesWindow

Admit(batch, samples) ==
    LET b == Observed(batch)
        reason == Reason(b, samples) IN
    /\ budget' = Charged(b, samples, reason)
    /\ prunedAt' = IF PruneIsDue THEN clock ELSE prunedAt
    /\ reply' = [reason |-> reason, samples |-> samples]
    /\ reported' = [x \in Series |-> IF x \in batch THEN clock ELSE reported[x]]
    /\ returned' = IF Silent THEN clock ELSE returned
    /\ accepted' = [t \in 0..MaxTime |->
                      accepted[t] + IF t <= clock /\ reason = "" THEN samples ELSE 0]
    /\ UNCHANGED clock

\* state: the Console reads the budget, which turns its window over.
ReadBudget ==
    /\ budget # NoBudget
    /\ budget' = Rotated(budget)
    /\ UNCHANGED <<clock, prunedAt, reply, reported, returned, accepted>>

CLNext ==
    \/ TimePasses
    \/ Prune
    \/ ReadBudget
    \/ \E batch \in SUBSET Series \ {{}}, samples \in BatchSizes :
         Admit(batch, samples)

CLSpec == CLInit /\ [][CLNext]_clVars

-----------------------------------------------------------------------------

\* Every variable stays in its range.
CLTypeOK ==
    /\ clock \in 0..MaxTime
    /\ budget # NoBudget =>
         /\ budget \in Budgets
         /\ {budget.tokensAt, budget.startedAt, budget.lastSeenAt} \subseteq 0..clock
    /\ prunedAt \in {-SeriesWindow} \cup 0..clock
    /\ reply.reason \in {"", "none", "cardinality", "sample_rate"}
    /\ returned \in 0..clock
    /\ accepted \in [0..MaxTime -> Nat]

\* What may be accepted since t.
Allowed(t) == Burst + SampleRate * (clock - t)

\* The series the Cluster has sent within the last three windows.
Recent == {x \in Series : clock - reported[x] < 3 * SeriesWindow}

\* A Cluster that has sent at most half of the series it may within three windows is
\* not refused for them.  Half is all there is to say: a series sent in two successive
\* windows counts twice.
CardinalityIsJustified ==
    reply.reason = "cardinality" => 2 * Cardinality(Recent) > MaxActiveSeries

\* Whether a budget has filled up by the time it is forgotten.  It has with the defaults,
\* one minute and ten, but neither withDefaults nor validateConfig relates the windows.
FullWhenForgotten == BurstWindow <= 2 * SeriesWindow

\* The moments since which the Cluster has the burst and the rate and no more.  Unless
\* budgets are full when they are forgotten, a silence makes it a present.
Accountable(t) == FullWhenForgotten \/ returned <= t

\* admit refuses what the budget of the Cluster forbids and nothing else, whatever
\* is forgotten, turned over or read in between.  A batch is refused for its samples
\* only if it would overrun the burst and the rate since some moment, and accepted
\* only if it overruns them since none that counts.
RefusalsAreJustified ==
    /\ reply.reason = "sample_rate" =>
         \E t \in 0..clock : accepted[t] + reply.samples > Allowed(t)
    /\ reply.reason = "" =>
         \A t \in 0..clock : Accountable(t) => accepted[t] <= Allowed(t)
    /\ CardinalityIsJustified
=============================================================================
