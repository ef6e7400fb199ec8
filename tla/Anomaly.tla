------------------------------ MODULE Anomaly -------------------------------
(***************************************************************************)
(* Anomaly detection (burnlens/detection/anomaly.py).  Every stored        *)
(* request starts a check of its scopes as a task of its own, and an       *)
(* hourly job checks each active agent, so checks of one key overlap: the  *)
(* traffic is read, the verdict is reached, the dedup table is asked, the  *)
(* event is inserted and the dedup row is written, with an await between   *)
(* any two.  The statistics are checked on their own over small samples.   *)
(***************************************************************************)
EXTENDS Integers, Sequences, FiniteSets, FiniteSetsExt, TLC

CONSTANTS
    Checkers,           \* overlapping checks of one target
    Hours,              \* what an hour of traffic may look like
    LoopMax,            \* alerts.agent_loop_max_requests
    MinSpend, Multiple, \* agent_min_spend_usd, agent_deviation_multiplier
    MinSample,          \* AGENT_MIN_RETRY_SAMPLE
    BaselineHours,      \* hours of the baseline (agent_baseline_days)
    LastHour,           \* bound: hours observed
    MaxLost,            \* bound: such failures
    SampleSize, SampleMax   \* bounds of the samples

ASSUME AnomalyAssumption ==
    /\ IsFiniteSet(Checkers) /\ Hours # {}
    /\ LastHour \in Nat \ {0} /\ {MaxLost, SampleSize, SampleMax} \subseteq Nat

VARIABLES
    hour,           \* the current hour
    traffic,        \* the target's requests, hour by hour
    checks,         \* the checks under way
    firedAlerts,    \* fired_alerts: [signal, at]
    anomalyEvents,  \* anomaly_events: the number of rows per signal and hour
    lost,           \* history: failures of the dedup table or the insert
    sample          \* a sample for the statistics

detectVars == <<hour, traffic, checks, firedAlerts, anomalyEvents, lost>>
anomalyVars == <<detectVars, sample>>

Signals == {"runaway_loop", "cost_spike"}
NoCheck == [pc |-> "idle"]

AnomalyInit ==
    /\ hour = 1
    /\ traffic \in {<<h>> : h \in Hours}
    /\ checks = [c \in Checkers |-> NoCheck]
    /\ firedAlerts = {}
    /\ anomalyEvents = [s \in Signals |-> [h \in 1..LastHour |-> 0]]
    /\ lost = 0
    /\ sample = <<>>

-----------------------------------------------------------------------------
(* calculate_median, doubled to stay an integer; of no values it is zero.  *)
MedianTwice(values) ==
    LET sorted == SortSeq(values, <)
        n == Len(values)
    IN  IF n = 0 THEN 0
        ELSE IF n % 2 = 1 THEN 2 * sorted[(n + 1) \div 2]
        ELSE sorted[n \div 2] + sorted[n \div 2 + 1]

(* calculate_mad, four times.                                              *)
Magnitude(x) == IF x < 0 THEN -x ELSE x
MadFourfold(values) ==
    MedianTwice([i \in DOMAIN values |->
                    Magnitude(2 * values[i] - MedianTwice(values))])

SumOver(values, Op(_)) == MapThenSumSet(LAMBDA i : Op(values[i]), DOMAIN values)

(* _check_window: the robust score of the current value against the        *)
(* baseline is at least 3.5; without deviation the mean and the standard   *)
(* deviation decide, and with neither any rise above the median does.      *)
DeviatesFlatEither(values, current) ==
    2 * current # MedianTwice(values)
DeviatesFlat(values, current) ==
    2 * current > MedianTwice(values)

Deviates(values, current) ==
    LET n == Len(values)
        sum == SumOver(values, LAMBDA v : v)
        spread == n * SumOver(values, LAMBDA v : v * v) - sum * sum
        above == n * current - sum
    IN  IF MadFourfold(values) > 0
        THEN 2 * 6745 * (2 * current - MedianTwice(values))
                 >= 35000 * MadFourfold(values)
        ELSE IF spread > 0 THEN above >= 0 /\ 4 * above * above >= 49 * spread
        ELSE DeviatesFlat(values, current)

(* max_requests_in_span: two pointers over ascending times; the step takes *)
(* the left end and the best count so far to those for one time more.      *)
OutOfSpanEarly(gap, span) == gap >= span
OutOfSpan(gap, span) == gap > span

MaxRequestsInSpan(times, span) ==
    LET left[right \in 0..Len(times)] ==
            IF right = 0 THEN 1
            ELSE CHOOSE l \in left[right - 1]..right :
                    /\ ~OutOfSpan(times[right] - times[l], span) \/ l = right
                    /\ \A k \in left[right - 1]..(l - 1) :
                          OutOfSpan(times[right] - times[k], span)
        best[right \in 0..Len(times)] ==
            IF right = 0 THEN 0
            ELSE Max({best[right - 1], right - left[right] + 1})
    IN  best[Len(times)]

DrawSample ==
    /\ Len(sample) < SampleSize
    /\ \E v \in 0..SampleMax : sample' = Append(sample, v)
    /\ UNCHANGED detectVars

-----------------------------------------------------------------------------
(* The hours before the current one, those without any request as zeros;   *)
(* and the retry rates of the hours that had requests, in units of 1/12.   *)
Baseline(seen, field) ==
    [i \in 1..BaselineHours |->
        IF i < Len(seen) THEN seen[Len(seen) - i][field] ELSE 0]
RetryRate(h) == (12 * h.retries) \div h.calls
BaselineRates(seen) ==
    LET before == SubSeq(seen, Max({1, Len(seen) - BaselineHours}), Len(seen) - 1)
        called == SelectSeq(before, LAMBDA h : h.calls > 0)
    IN  [i \in DOMAIN called |-> RetryRate(called[i])]

(* check_agent's verdict: a loop outranks a spend deviation, which         *)
(* outranks a retry rate; the last two are both stored as cost_spike.      *)
RetriesDeviate(seen) ==
    LET now == seen[Len(seen)]
        median == MedianTwice(BaselineRates(seen))
    IN  /\ now.calls >= MinSample /\ now.retries > 0
        /\ IF median > 0 THEN 2 * RetryRate(now) >= Multiple * median
           ELSE 2 * now.retries >= now.calls

AgentVerdict(seen) ==
    LET now == seen[Len(seen)]
        median == MedianTwice(Baseline(seen, "cost"))
    IN  IF now.loop > LoopMax THEN {"runaway_loop"}
        ELSE IF \/ now.cost >= MinSpend /\ 2 * now.cost >= Multiple * median
                \/ RetriesDeviate(seen)
             THEN {"cost_spike"}
        ELSE {}

(* The rows are fetched and judged; without a verdict the check is over.   *)
CheckJudges(c) ==
    /\ checks[c].pc = "idle"
    /\ \E s \in AgentVerdict(traffic) :
          checks' = [checks EXCEPT ![c] = [pc |-> "ask", signal |-> s, at |-> hour]]
    /\ UNCHANGED <<hour, traffic, firedAlerts, anomalyEvents, lost, sample>>

(* was_alert_fired(within_hours=1) in _trigger_event.                      *)
WasFiredEver(s) == \E f \in firedAlerts : f.signal = s
WasFiredNever(s) == FALSE
WasFired(s) == \E f \in firedAlerts : f.signal = s /\ f.at >= hour - 1

DedupAsked(c) ==
    /\ checks[c].pc = "ask"
    /\ checks' = [checks EXCEPT ![c].pc =
                     IF WasFired(checks[c].signal) THEN "known" ELSE "insert"]
    /\ UNCHANGED <<hour, traffic, firedAlerts, anomalyEvents, lost, sample>>

(* The question itself fails: logged, and the event is taken for new.      *)
DedupRaises(c) ==
    /\ checks[c].pc = "ask" /\ lost < MaxLost
    /\ lost' = lost + 1
    /\ checks' = [checks EXCEPT ![c].pc = "insert"]
    /\ UNCHANGED <<hour, traffic, firedAlerts, anomalyEvents, sample>>

EventInserted(c) ==
    /\ checks[c].pc = "insert"
    /\ anomalyEvents' = [anomalyEvents EXCEPT ![checks[c].signal][hour] = @ + 1]
    /\ checks' = [checks EXCEPT ![c].pc = "mark"]
    /\ UNCHANGED <<hour, traffic, firedAlerts, lost, sample>>

(* mark_alert_fired, and the message to Slack.                             *)
AlertMarked(c) ==
    /\ checks[c].pc = "mark"
    /\ firedAlerts' = firedAlerts \cup {[signal |-> checks[c].signal, at |-> hour]}
    /\ checks' = [checks EXCEPT ![c].pc = "sent"]
    /\ UNCHANGED <<hour, traffic, anomalyEvents, lost, sample>>

(* The insert or the mark raises: logged, and nothing is sent.             *)
TriggerFails(c) ==
    /\ checks[c].pc \in {"insert", "mark"} /\ lost < MaxLost
    /\ lost' = lost + 1
    /\ checks' = [checks EXCEPT ![c] = NoCheck]
    /\ UNCHANGED <<hour, traffic, firedAlerts, anomalyEvents, sample>>

CheckEnds(c) ==
    /\ checks[c].pc \in {"known", "sent"}
    /\ checks' = [checks EXCEPT ![c] = NoCheck]
    /\ UNCHANGED <<hour, traffic, firedAlerts, anomalyEvents, lost, sample>>

HourPasses ==
    /\ hour < LastHour /\ hour' = hour + 1
    /\ \E h \in Hours : traffic' = Append(traffic, h)
    /\ UNCHANGED <<checks, firedAlerts, anomalyEvents, lost, sample>>

DetectNext ==
    \/ \E c \in Checkers :
          \/ CheckJudges(c) \/ DedupAsked(c) \/ DedupRaises(c)
          \/ EventInserted(c)
          \/ AlertMarked(c) \/ TriggerFails(c) \/ CheckEnds(c)
    \/ HourPasses

-----------------------------------------------------------------------------
(* What each variable may hold.                                            *)
AnomalyTypeOK ==
    /\ hour \in 1..LastHour /\ Len(traffic) = hour
    /\ \A c \in Checkers :
          checks[c].pc \in {"idle", "ask", "insert", "mark", "known", "sent"}
    /\ firedAlerts \subseteq [signal : Signals, at : 1..LastHour]
    /\ lost \in 0..MaxLost
    /\ sample \in Seq(0..SampleMax)

(* A check that found its signal announced already is right: it met a      *)
(* dedup row no more than an hour older than its own judgement, and an     *)
(* event of that signal was inserted no later than that row was written.   *)
KnownMeansAnnounced ==
    \A c \in Checkers : checks[c].pc = "known" =>
        \E h \in 1..LastHour :
            /\ anomalyEvents[checks[c].signal][h] > 0
            /\ \E f \in firedAlerts :
                  /\ f.signal = checks[c].signal
                  /\ h <= f.at /\ f.at >= checks[c].at - 1

(* A signal is inserted in an hour no oftener than checks can overlap,     *)
(* plus the failures of the dedup table: its row stops the rest.           *)
SignalRepeatsBounded ==
    \A s \in Signals, h \in 1..LastHour :
        anomalyEvents[s][h] <= Cardinality(Checkers) + lost

(* max_requests_in_span counts what its docstring says: the most times     *)
(* that lie within one span.                                               *)
SpanCountRight ==
    LET times == SortSeq(sample, <)
        within(i, span) == {j \in i..Len(times) : times[j] - times[i] <= span}
    IN  \A span \in 0..SampleMax :
            MaxRequestsInSpan(times, span)
                = Max({0} \cup {Cardinality(within(i, span)) : i \in DOMAIN times})

(* Whatever branch scores a window, spending more never clears an alarm,   *)
(* and traffic at the level of a flat baseline never raises one.           *)
AlarmMonotone ==
    sample # <<>> =>
        /\ \A v \in 0..(2 * SampleMax) :
              Deviates(sample, v) => Deviates(sample, v + 1)
        /\ \A v \in 0..SampleMax :
              (\A i \in DOMAIN sample : sample[i] = v) => ~Deviates(sample, v)
=============================================================================
