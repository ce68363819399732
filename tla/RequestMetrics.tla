--------------------------- MODULE RequestMetrics ---------------------------
(***************************************************************************)
(* The request counters (metrics.go): handleChat records into the window   *)
(* it loaded when its request arrived, one atomic add after another, while *)
(* reportMetricsLoop (reporter.go) swaps the window for an empty one, reads*)
(* the old one field by field and reports it.                              *)
(*                                                                         *)
(* A window is a function from its fields to numbers.  Two of them matter: *)
(* live, which arriving requests load, and old, the one swapped out, as    *)
(* long as it is being reported.  What is added to it later is read by     *)
(* nobody.  The input and output tokens of a request are recorded and read *)
(* one right after the other; they are one field here.                     *)
(***************************************************************************)
EXTENDS Integers, Sequences, FiniteSets

CONSTANTS
    Requests,     \* the chat requests, each handled by a goroutine of its own
    Series,       \* the latency series that are looked at, of nonStream and
                  \* stream, which are recorded and read in the same way
    Boundaries,   \* latencyBoundariesMs: an increasing sequence
    Samples       \* the latencies, in milliseconds, that requests may have

ASSUME MetricsAssumption ==
    /\ Series \subseteq {"nonStream", "stream"}
    /\ Boundaries \in Seq(Nat) /\ Len(Boundaries) > 0
    /\ Samples \subseteq Nat /\ Samples # {}

VARIABLES
    plan,       \* per request: the adds its handler makes, in order
    done,       \* how many of them it has made
    at,         \* the window it holds: none, live, old, gone
    live, old,  \* the contents of those two windows
    pos,        \* the field snapshot reads next, 0 between two snapshots
    rep,        \* the report, as far as it is assembled
    added,      \* history: per field, the sum of all adds so far,
    reported,   \* of the reports that were posted,
    dropped,    \* and of those that could not be
    cut         \* history: the requests under way when their window was
                \* swapped out

requestVars == <<plan, done, at>>
reportVars == <<pos, rep, reported, dropped, cut>>
vars == <<plan, done, at, live, old, added, pos, rep, reported, dropped, cut>>

-----------------------------------------------------------------------------
(* Histograms *)

Buckets == 1..Len(Boundaries) + 1    \* the last one is unbounded

BucketIndex(ms) ==
    LET fits == {i \in 1..Len(Boundaries) : ms <= Boundaries[i]}
    IN  IF fits = {} THEN Len(Boundaries) + 1
        ELSE CHOOSE i \in fits : \A j \in fits : i <= j

\* The running sum over the buckets of b: cum after each of them.
Cumulative(b) ==
    LET cum[i \in 0..Len(Boundaries) + 1] ==
            IF i = 0 THEN 0 ELSE cum[i - 1] + b[i]
    IN  cum

\* The rank p95FromBuckets looks for.  Faulty variant: 0 for a single sample.
Target_Zero(total) == (total * 95) \div 100
Target(total) == LET n == (total * 95) \div 100 IN IF n = 0 THEN 1 ELSE n

P95(b, total) ==
    LET last == Boundaries[Len(Boundaries)]
        hits == {i \in Buckets : Cumulative(b)[i] >= Target(total)}
        i == CHOOSE h \in hits : \A j \in hits : h <= j
    IN  IF total = 0 THEN 0
        ELSE IF hits = {} THEN last
        ELSE IF i <= Len(Boundaries) THEN Boundaries[i] ELSE last

-----------------------------------------------------------------------------
(* The fields of a window, and the adds to them *)

Count(s) == <<s, "count">>
Sum(s) == <<s, "sum">>
Bucket(s, i) == <<s, "bucket", i>>
Plain(name) == <<"plain", name>>

Fields ==
    {Plain(n) : n \in {"requests", "errors", "tokens"}}
    \cup {Count(s) : s \in Series} \cup {Sum(s) : s \in Series}
    \cup {Bucket(s, i) : s \in Series, i \in Buckets}

Empty == [f \in Fields |-> 0]

Add(field, amount) == [field |-> field, by |-> amount]
Start == <<Add(Plain("requests"), 1)>>
Error == <<Add(Plain("errors"), 1)>>
Tokens == <<Add(Plain("tokens"), 1)>>
Latency(s, ms) ==
    <<Add(Count(s), 1), Add(Sum(s), ms), Add(Bucket(s, BucketIndex(ms)), 1)>>

\* What recordTokens adds: nothing but zeros, if the backend names no usage.
Usage == {<<>>, Tokens}

\* What handleChat records of a request without a latency: refused, a stream
\* without a content chunk, and such a stream that breaks in the end.
Untimed == {Start \o u : u \in Usage} \cup {Start \o u \o Error : u \in Usage}

\* And of one with a latency: answered, or a stream that breaks in the end.
Answered(s, ms, u) == Start \o Latency(s, ms) \o u
Broken(s, ms, u) == Answered(s, ms, u) \o Error

Plans ==
    Untimed
    \cup {Answered(s, ms, u) : s \in Series, ms \in Samples, u \in Usage}
    \cup {Broken(s, ms, u) :
              s \in Series \cap {"stream"}, ms \in Samples, u \in Usage}

Finished(r) == at[r] # "none" /\ done[r] = Len(plan[r])

-----------------------------------------------------------------------------
(* The handlers *)

\* A request arrives and its handler loads the window.
Arrive(r) ==
    /\ at[r] = "none"
    /\ at' = [at EXCEPT ![r] = "live"]
    /\ plan' \in {[plan EXCEPT ![r] = p] : p \in Plans}
    /\ UNCHANGED <<done, live, old, added, reportVars>>

Record(r) ==
    /\ at[r] # "none"
    /\ ~Finished(r)
    /\ done' = [done EXCEPT ![r] = @ + 1]
    /\ LET add == plan[r][done[r] + 1]
           After(w) == [w EXCEPT ![add.field] = @ + add.by]
       IN  /\ added' = After(added)
           /\ live' = IF at[r] = "live" THEN After(live) ELSE live
           /\ old' = IF at[r] = "old" THEN After(old) ELSE old
    /\ UNCHANGED <<plan, at, reportVars>>

-----------------------------------------------------------------------------
(* The reporter *)

\* The window that handlers held as from is to them to.
Becomes(from, to) ==
    at' = [r \in Requests |-> IF at[r] = from THEN to ELSE at[r]]

UnderWay == {r \in Requests : at[r] = "live" /\ ~Finished(r)}

\* Faulty variant: the window stays in circulation.
Swap_NoStore ==
    /\ pos = 0
    /\ pos' = 1
    /\ old' = live
    /\ cut' = cut \cup UnderWay
    /\ UNCHANGED <<plan, done, at, live, added, rep, reported, dropped>>

\* Faulty variant: the empty window is stored first, and loaded.
Swap_StoreFirst ==
    /\ pos = 0
    /\ pos' = 1
    /\ old' = Empty
    /\ live' = Empty
    /\ Becomes("live", "gone")
    /\ cut' = cut \cup UnderWay
    /\ UNCHANGED <<plan, done, added, rep, reported, dropped>>

\* A tick, and swap: its load and its store are one step, since a window
\* loaded between them is the one loaded before both.
Swap ==
    /\ pos = 0
    /\ pos' = 1
    /\ old' = live
    /\ live' = Empty
    /\ Becomes("live", "old")
    /\ cut' = cut \cup UnderWay
    /\ UNCHANGED <<plan, done, added, rep, reported, dropped>>

Of(s, reads) == IF s \in Series THEN reads ELSE <<>>
SeriesReads(s) == <<Sum(s)>> \o [i \in Buckets |-> Bucket(s, i)]
Latencies ==
    Of("nonStream", SeriesReads("nonStream")) \o Of("stream", SeriesReads("stream"))
CountReads ==
    Of("nonStream", <<Count("nonStream")>>) \o Of("stream", <<Count("stream")>>)

\* The order in which snapshot reads.  Faulty variant: without the errors.
Reads_NoErrors ==
    <<Plain("requests"), Plain("tokens")>>
    \o CountReads \o Latencies
Reads ==
    <<Plain("requests"), Plain("errors"), Plain("tokens")>>
    \o CountReads \o Latencies

\* The latencies of a series are looked at only if its count was not 0.
Read ==
    /\ pos \in 1..Len(Reads)
    /\ LET f == Reads[pos]
           skipped ==
               f[1] \in Series /\ f # Count(f[1]) /\ rep[Count(f[1])] = 0
       IN  rep' = [rep EXCEPT ![f] = IF skipped THEN 0 ELSE old[f]]
    /\ pos' = pos + 1
    /\ UNCHANGED <<requestVars, live, old, added, reported, dropped, cut>>

Complete == pos = Len(Reads) + 1

\* total, and the report that is assembled.
Plus(total) == [f \in Fields |-> total[f] + rep[f]]

NextWindow ==
    /\ pos' = 0
    /\ Becomes("old", "gone")
    /\ old' = Empty
    /\ rep' = Empty
    /\ UNCHANGED <<plan, done, live, added, cut>>

PostOk ==
    /\ Complete
    /\ reported' = Plus(reported)
    /\ NextWindow
    /\ UNCHANGED dropped

\* An error of api.reportMetrics is logged.  Faulty variant: it ends the loop.
PostFails_Return ==
    /\ Complete
    /\ pos' = -1
    /\ UNCHANGED <<requestVars, live, old, added, rep, reported, dropped, cut>>

\* The report is not made again, and what it held is gone.
PostFails ==
    /\ Complete
    /\ dropped' = Plus(dropped)
    /\ NextWindow
    /\ UNCHANGED reported

-----------------------------------------------------------------------------
Init ==
    /\ plan = [r \in Requests |-> <<>>]
    /\ done = [r \in Requests |-> 0]
    /\ at = [r \in Requests |-> "none"]
    /\ live = Empty
    /\ old = Empty
    /\ pos = 0
    /\ rep = Empty
    /\ added = Empty
    /\ reported = Empty
    /\ dropped = Empty
    /\ cut = {}

ReporterStep == Swap \/ Read \/ PostOk \/ PostFails

Next == (\E r \in Requests : Arrive(r) \/ Record(r)) \/ ReporterStep

Spec == Init /\ [][Next]_vars

-----------------------------------------------------------------------------
\* What adds, those of r, add to field f, unit by unit.
Units(r, adds, f) ==
    UNION {{<<r, i, k>> : k \in 1..adds[i].by} :
              i \in {j \in DOMAIN adds : adds[j].field = f}}

\* What the given requests, when they are through, have contributed to f.
Total(rs, f) == Cardinality(UNION {Units(r, plan[r], f) : r \in rs})

\* The requests that were through with the old window when it was swapped out.
settled == {r \in Requests : at[r] = "old" /\ r \notin cut}

\* Every variable has its type.
TypeOK ==
    /\ \A r \in Requests : plan[r] \in Plans \cup {<<>>}
    /\ \A r \in Requests : done[r] \in 0..Len(plan[r])
    /\ at \in [Requests -> {"none", "live", "old", "gone"}]
    /\ pos \in 0..Len(Reads) + 1
    /\ cut \subseteq Requests
    /\ {live, old, added, rep, reported, dropped} \subseteq [Fields -> Nat]

\* A report holds at least everything recorded by the requests that were
\* through when the window was swapped, and nothing but what requests that
\* arrived in the window record: with no request under way across the swap it
\* is exact, and its sums, counts and buckets belong to the same requests.
ReportBracketed ==
    Complete =>
        \A f \in Fields :
            /\ Total(settled, f) <= rep[f]
            /\ rep[f] <= Total({r \in Requests : at[r] = "old"}, f)

\* No sample is counted in two reports, or in a report and again in the window
\* that will be the next.
NeverCountedTwice ==
    \A f \in Fields :
        reported[f] + dropped[f] + rep[f] + live[f] <= added[f]

\* The p95 of a series that has samples is the edge of a bucket that holds one
\* of them (the last edge for the unbounded bucket), and no more than a twentieth
\* of the samples and one lie in buckets above.  The walk falls off the end, to
\* the last edge, only if a request was under way across the swap, whose sample
\* was in the count and not yet in its bucket.
P95OfSample ==
    Complete =>
        \A s \in Series :
            LET b == [i \in Buckets |-> rep[Bucket(s, i)]]
                total == rep[Count(s)]
                p == P95(b, total)
                last == Len(Boundaries)
                underWay == \E r \in Requests : at[r] = "old" /\ r \in cut
            IN  total > 0 =>
                  \/ \E i \in Buckets :
                        /\ b[i] > 0
                        /\ p = Boundaries[IF i > last THEN last ELSE i]
                        /\ 20 * (total - Cumulative(b)[i]) < total + 20
                  \/ /\ underWay /\ p = Boundaries[last]
                     /\ Cumulative(b)[last + 1] < total

\* Between two reports, nothing is missing from all the reports so far, posted
\* or dropped, and the live window but samples of requests that were under way
\* when their window was swapped out: whoever is through in time is in a report,
\* over any number of windows.
OnlyCutLost ==
    pos = 0 =>
        \A f \in Fields :
            added[f] <= reported[f] + dropped[f] + live[f] + Total(cut, f)

\* What metrics.go says of swap: "no sample is ever lost or double-counted".
\* A report that is dropped, which the documentation allows for, is no loss here.
NoSampleLost ==
    pos = 0 => \A f \in Fields : reported[f] + dropped[f] + live[f] = added[f]
=============================================================================
