---------------------------- MODULE UsagePricing ----------------------------
(***************************************************************************)
(* What a streamed call costs (burnlens/proxy/streaming.py, providers,     *)
(* cost/calculator.py, cost/pricing.py).  The proxy passes the bytes on as *)
(* they come and keeps them; when the stream is over, for whatever reason, *)
(* it splits them into events, adds up the usage the provider reported,    *)
(* prices it and queues the record.  The row is written later, perhaps     *)
(* after midnight or by the next release, and only then gets its pricing   *)
(* class and the fingerprint of the rate.                                  *)
(***************************************************************************)
EXTENDS Integers, Sequences, FiniteSets, SequencesExt, TLC

CONSTANTS
    PricedCalls,    \* [provider, model]: a model id is a sequence of segments
    Turns,          \* the provider's counts of a call
    Releases,       \* the bundled tables, by release: provider -> entries
    LastToday       \* bound: days

VARIABLES
    upstream,       \* the call: [provider, model, turn, reports]
    buffered,       \* raw_buffer: how many half events it holds
    chunkEnds,      \* where the chunks ended
    streamState,    \* "open", "closed", "logged", "stored"
    whole,          \* the upstream had sent everything
    usageRecord,    \* the queued record: usage, cost, and when it was priced
    ledgerRow,      \* class and fingerprint of the stored row
    today, release  \* the date, and the release that is running

usageVars == <<upstream, buffered, chunkEnds, streamState, whole, usageRecord,
               ledgerRow, today, release>>

Providers == {"openai", "anthropic", "google", "bedrock"}

(* prompt_tokens_include_cache: the prompt count holds the cached tokens.  *)
IncludesCacheNever(p) == FALSE
IncludesCache(p) == p \in {"openai", "google"}

(* Counts a provider can report (external): OpenAI and Gemini count cached *)
(* tokens in the prompt, Anthropic and Bedrock apart and without           *)
(* reasoning.  OpenAI's completion holds its reasoning tokens, Gemini's    *)
(* candidates do not hold its thoughts.                                    *)
Reportable(p, t) ==
    /\ IncludesCache(p) => t.cached <= t.prompt /\ t.written = 0
    /\ p = "openai" => t.reasoning <= t.completion
    /\ p \in {"anthropic", "bedrock"} => t.reasoning = 0

(* The streams that may carry no usage in plain JSON: OpenAI's unless the  *)
(* client asked for it (stream_options.include_usage), and Bedrock's       *)
(* invoke-with-response-stream, whose events are encoded.                  *)
MayHideUsage == {"openai", "bedrock"}

(* The events of a call.                                                   *)
Event(kind, t, completion) == [kind |-> kind, turn |-> t, completion |-> completion]
EventsOf(u) ==
    LET t == u.turn
    IN  CASE u.provider = "anthropic" ->
                 <<Event("start", t, 1), Event("text", t, 0),
                   Event("delta", t, t.completion)>>
          [] u.provider = "google" ->
                 <<Event("meta", t, 1), Event("meta", t, t.completion)>>
          [] OTHER ->
                 <<Event("text", t, 0),
                   Event(IF u.reports THEN "usage" ELSE "text", t, t.completion)>>
Halves(u) == 2 * Len(EventsOf(u))

UpstreamCalls ==
    {u \in [provider : Providers, model : {c.model : c \in PricedCalls},
            turn : Turns, reports : BOOLEAN] :
        /\ [provider |-> u.provider, model |-> u.model] \in PricedCalls
        /\ Reportable(u.provider, u.turn)
        /\ u.provider \notin MayHideUsage => u.reports}

ASSUME UsageAssumption ==
    UpstreamCalls # {} /\ LastToday \in Nat \ {0} /\ Len(Releases) \in Nat \ {0}

UsageInit ==
    /\ upstream \in UpstreamCalls
    /\ buffered = 0 /\ chunkEnds = {} /\ streamState = "open" /\ whole = FALSE
    /\ usageRecord = <<>> /\ ledgerRow = <<>>
    /\ today = 1 /\ release = 1

-----------------------------------------------------------------------------
(* A chunk, cut anywhere by the network, goes to the client and then to    *)
(* the buffer.                                                             *)
ChunkArrives ==
    /\ streamState = "open"
    /\ \E n \in (buffered + 1)..Halves(upstream) :
          buffered' = n /\ chunkEnds' = chunkEnds \cup {n}
    /\ UNCHANGED <<upstream, streamState, whole, usageRecord, ledgerRow, today, release>>

(* The end: of the stream, of the connection to the provider, or of the    *)
(* client, whose last chunk never reaches the buffer.                      *)
StreamCloses ==
    /\ streamState = "open"
    /\ streamState' = "closed" /\ whole' = (buffered = Halves(upstream))
    /\ UNCHANGED <<upstream, buffered, chunkEnds, usageRecord, ledgerRow, today, release>>

(* split_sse_events: the whole events of the buffer (the half at the end   *)
(* is no JSON) that the provider's should_buffer_chunk lets through.       *)
ReadableByChunk(i) ==
    2 * i <= buffered /\ (2 * i - 1) \notin chunkEnds
Readable(i) == 2 * i <= buffered
SplitSseEvents(u) ==
    LET read == SelectSeq([i \in DOMAIN EventsOf(u) |-> i], LAMBDA i : Readable(i))
    IN  SelectSeq([k \in DOMAIN read |-> EventsOf(u)[read[k]]],
                  LAMBDA e : e.kind # "text")

(* extract_usage_from_stream_chunk: what one event does to the counts.     *)
NoUsage == [input |-> 0, output |-> 0, reasoning |-> 0, cacheRead |-> 0, cacheWrite |-> 0]
LatestOutputAdded(acc, e) == acc.output + e.completion
LatestOutput(acc, e) == IF e.completion > 0 THEN e.completion ELSE acc.output
AccumulateOpenAI(acc, e) ==
    [input |-> e.turn.prompt, output |-> e.completion - e.turn.reasoning,
     reasoning |-> e.turn.reasoning, cacheRead |-> e.turn.cached, cacheWrite |-> 0]
AccumulateAnthropic(acc, e) ==
    IF e.kind = "delta" THEN [acc EXCEPT !.output = LatestOutput(acc, e)]
    ELSE [acc EXCEPT !.input = e.turn.prompt, !.output = LatestOutput(acc, e),
                     !.cacheRead = e.turn.cached, !.cacheWrite = e.turn.written]
AccumulateGoogle(acc, e) ==
    [acc EXCEPT !.input = e.turn.prompt, !.output = e.completion]
AccumulateBedrock(acc, e) ==
    [acc EXCEPT !.input = e.turn.prompt, !.output = e.completion,
                !.cacheRead = IF e.turn.cached > 0 THEN e.turn.cached ELSE @,
                !.cacheWrite = IF e.turn.written > 0 THEN e.turn.written ELSE @]
Accumulate(p, acc, e) ==
    CASE p = "openai" -> AccumulateOpenAI(acc, e)
      [] p = "anthropic" -> AccumulateAnthropic(acc, e)
      [] p = "google" -> AccumulateGoogle(acc, e)
      [] p = "bedrock" -> AccumulateBedrock(acc, e)
ExtractUsage(u) ==
    FoldLeft(LAMBDA acc, e : Accumulate(u.provider, acc, e), NoUsage, SplitSseEvents(u))

-----------------------------------------------------------------------------
(* get_model_pricing: the entry of that name, or that of the longest       *)
(* prefix; Bedrock ids first lose their geo prefix.                        *)
StripGeo(p, model) ==
    IF p = "bedrock" /\ Len(model) > 1 /\ model[2] = "anthropic"
    THEN Tail(model) ELSE model
LongestPrefixFirst(best, entry) == IF best = <<>> THEN <<entry>> ELSE best
LongestPrefix(best, entry) ==
    IF best = <<>> \/ Len(entry.name) > Len(best[1].name) THEN <<entry>> ELSE best
Lookup(entries, model) ==
    LET exact == SelectSeq(entries, LAMBDA e : e.name = model)
        prefixes == SelectSeq(entries, LAMBDA e : IsPrefix(e.name, model))
    IN  IF exact # <<>> THEN exact ELSE FoldLeft(LongestPrefix, <<>>, prefixes)

(* _apply_scheduled and apply_tiered: loops that keep the best so far.     *)
LatestScheduled(date, active, tier) ==
    IF tier.effective <= date /\ (active = <<>> \/ tier.effective >= active[1].effective)
    THEN <<tier>> ELSE active
TierOver(input, tier) == input > tier.over
HighestTier(input, active, tier) ==
    IF TierOver(input, tier) /\ (active = <<>> \/ tier.over > active[1].over)
    THEN <<tier>> ELSE active
Merged(rates, active) == IF active = <<>> THEN rates ELSE active[1].rates @@ rates

(* resolve_pricing and apply_tiered, on a date with the tables of a        *)
(* release: <<rates>>, or <<>> for no entry.                               *)
RatesFor(u, input, date, tables) ==
    LET found == Lookup(Releases[tables][u.provider], StripGeo(u.provider, u.model))
    IN  IF found = <<>> THEN <<>>
        ELSE LET dated == Merged(found[1].rates,
                              FoldLeft(LAMBDA a, t : LatestScheduled(date, a, t),
                                       <<>>, found[1].scheduled))
             IN  <<Merged(dated, FoldLeft(LAMBDA a, t : HighestTier(input, a, t),
                                          <<>>, found[1].tiered))>>

PositivePart(n) == IF n > 0 THEN n ELSE 0
CalculateCost(p, rates, usage) ==
    LET cached == IF IncludesCache(p) THEN usage.cacheRead ELSE 0
    IN  IF rates = <<>> THEN 0
        ELSE PositivePart(usage.input - cached) * rates[1].in
             + (usage.output + usage.reasoning) * rates[1].out
             + usage.cacheRead * rates[1].read + usage.cacheWrite * rates[1].write

LogStreamingUsage ==
    /\ streamState = "closed" /\ streamState' = "logged"
    /\ LET usage == ExtractUsage(upstream)
           rates == RatesFor(upstream, usage.input, today, release)
       IN  usageRecord' = <<[usage |-> usage, rates |-> rates, day |-> today,
                             release |-> release,
                             cost |-> CalculateCost(upstream.provider, rates, usage)]>>
    /\ UNCHANGED <<upstream, buffered, chunkEnds, whole, ledgerRow, today, release>>

(* insert_request resolves the rates again, for the class and for the      *)
(* fingerprint, with the input tokens of the record.                       *)
FingerprintTokensNone(r) == 0
FingerprintTokens(r) == r.usage.input
RowStored ==
    /\ streamState = "logged" /\ streamState' = "stored"
    /\ LET rates == RatesFor(upstream, FingerprintTokens(usageRecord[1]), today, release)
       IN  ledgerRow' = <<[class |-> IF rates = <<>> THEN "unpriced" ELSE "calculated",
                           fingerprint |-> rates]>>
    /\ UNCHANGED <<upstream, buffered, chunkEnds, whole, usageRecord, today, release>>

DayBreaks ==
    /\ streamState # "stored" /\ today < LastToday /\ today' = today + 1
    /\ UNCHANGED <<upstream, buffered, chunkEnds, streamState, whole, usageRecord,
                   ledgerRow, release>>

(* The proxy restarts under a new release; the record waits in the WAL.    *)
Upgraded ==
    /\ streamState = "logged" /\ release < Len(Releases) /\ release' = release + 1
    /\ UNCHANGED <<upstream, buffered, chunkEnds, streamState, whole, usageRecord,
                   ledgerRow, today>>

UsageNext ==
    \/ ChunkArrives \/ StreamCloses \/ LogStreamingUsage \/ RowStored
    \/ DayBreaks \/ Upgraded

-----------------------------------------------------------------------------
(* What each variable may hold.                                            *)
UsageTypeOK ==
    /\ buffered \in 0..Halves(upstream)
    /\ chunkEnds \subseteq 1..Halves(upstream)
    /\ streamState \in {"open", "closed", "logged", "stored"}
    /\ Len(usageRecord) = (IF streamState \in {"logged", "stored"} THEN 1 ELSE 0)
    /\ Len(ledgerRow) = (IF streamState = "stored" THEN 1 ELSE 0)
    /\ today \in 1..LastToday /\ release \in 1..Len(Releases)

(* The provider's counts, every token in one kind only.                    *)
Reported ==
    LET t == upstream.turn
    IN  [input |-> t.prompt, reasoning |-> t.reasoning,
         output |-> IF upstream.provider = "openai" THEN t.completion - t.reasoning
                    ELSE t.completion,
         cacheRead |-> t.cached, cacheWrite |-> t.written]

(* What the plugin of the call's provider reads of them: of a Gemini call  *)
(* neither cachedContentTokenCount nor thoughtsTokenCount.                 *)
KindsRead == IF upstream.provider = "google" THEN {"input", "output"} ELSE DOMAIN NoUsage

(* However the network cut the stream, the usage of a stream that came to  *)
(* its end is the provider's in every kind that the plugin reads, and 0 in *)
(* the others: in all of them, if the stream carried no readable usage.    *)
UsageExact ==
    usageRecord # <<>> /\ whole =>
        usageRecord[1].usage = [k \in DOMAIN NoUsage |->
            IF upstream.reports /\ k \in KindsRead THEN Reported[k] ELSE 0]

(* A stream cut off early is never recorded with more tokens than the      *)
(* provider counted, of any kind.                                          *)
CutNeverOverbills ==
    usageRecord # <<>> =>
        \A k \in DOMAIN NoUsage : usageRecord[1].usage[k] <= Reported[k]

(* The rate that the tables mean: the entry with the longest name that     *)
(* starts the model's, under its last price change that had taken effect,  *)
(* at the highest tier the prompt exceeds.                                 *)
MeantRates(r) ==
    LET entries == ToSet(Releases[r.release][upstream.provider])
        model == StripGeo(upstream.provider, upstream.model)
        fits == {e \in entries : IsPrefix(e.name, model)}
        entry == CHOOSE e \in fits : \A d \in fits : Len(d.name) <= Len(e.name)
        dates == {s \in ToSet(entry.scheduled) : s.effective <= r.day}
        tiers == {t \in ToSet(entry.tiered) : t.over < upstream.turn.prompt}
        last(S, f(_)) == {CHOOSE x \in S : \A y \in S : f(y) <= f(x)}
        over(S, base) == IF S = {} THEN base ELSE (CHOOSE x \in S : TRUE).rates @@ base
    IN  IF fits = {} THEN <<>>
        ELSE <<over(IF tiers = {} THEN {} ELSE last(tiers, LAMBDA t : t.over),
                    over(IF dates = {} THEN {} ELSE last(dates, LAMBDA s : s.effective),
                         entry.rates))>>

(* What a call comes to at given rates.  A Gemini prompt is charged in     *)
(* full at the input rate, cached or not, and its thoughts are not         *)
(* charged: there this is not the provider's bill.                         *)
AtRates(rate) ==
    LET t == upstream.turn
    IN  CASE upstream.provider = "google" -> t.prompt * rate.in + t.completion * rate.out
          [] upstream.provider = "openai" ->
                 (t.prompt - t.cached) * rate.in + t.cached * rate.read
                 + t.completion * rate.out
          [] OTHER -> t.prompt * rate.in + t.cached * rate.read + t.written * rate.write
                      + t.completion * rate.out

(* The cost of a whole stream is what its tokens come to, each kind at its *)
(* rate of the day, and 0 for a model without an entry and for a stream    *)
(* without readable usage.  For OpenAI, Anthropic and Bedrock's Converse   *)
(* that is the provider's bill.                                            *)
BilledRight ==
    usageRecord # <<>> /\ whole =>
        LET rates == MeantRates(usageRecord[1])
        IN  usageRecord[1].cost =
                IF upstream.reports /\ rates # <<>> THEN AtRates(rates[1]) ELSE 0

(* Class and fingerprint are of the rates the cost was computed with, if   *)
(* the row was stored on the day and by the release that priced it.        *)
SameRateTwice ==
    ledgerRow # <<>> /\ usageRecord[1].day = today /\ usageRecord[1].release = release =>
        ledgerRow[1].fingerprint = usageRecord[1].rates
=============================================================================
