----------------------- MODULE RequestMetrics_proofs -----------------------
(***************************************************************************)
(* What the reports of RequestMetrics hold, for any number of requests, any*)
(* boundaries and any latencies.                                           *)
(*                                                                         *)
(* The invariant says what a window holds: exactly the adds that those who *)
(* loaded it have made so far (Exact).  The swap hands the old window over *)
(* together with its requests, so it lies between what the settled ones and*)
(* what all of them come to (Bracketed), and so does what was read of it:  *)
(* the snapshot reads every field (ReadsOrder), and it skips the latencies *)
(* of a series only when no settled request has counted one, for the three *)
(* adds of a latency come together (PlanShape, NothingSkipped).  That every*)
(* counted sample of a settled request is also in a bucket, one by one, is *)
(* why the walk for the p95 ends unless the swap cut a request off         *)
(* (CountedInBuckets).                                                     *)
(***************************************************************************)
EXTENDS RequestMetrics, Counting_proofs, SequenceTheorems

Windows == [Fields -> Nat]
Adds == [field : Fields, by : Nat]

-----------------------------------------------------------------------------
(* Buckets and plans *)

LEMMA BoundariesType ==
    Len(Boundaries) \in Nat \ {0} /\ Buckets = 1..Len(Boundaries) + 1
BY MetricsAssumption DEF Buckets

LEMMA BucketIndexType ==
    ASSUME NEW ms
    PROVE  BucketIndex(ms) \in Buckets
<1> DEFINE fits == {i \in 1..Len(Boundaries) : ms <= Boundaries[i]}
<1>1. fits \in SUBSET Nat
  BY BoundariesType
<1>2. CASE fits = {}
  BY <1>2, BoundariesType DEF BucketIndex
<1>3. CASE fits # {}
  <2>1. \E i \in fits : \A j \in fits : i <= j
    BY <1>1, <1>3, LeastNumber
  <2>2. BucketIndex(ms) \in fits
    BY <1>3, <2>1 DEF BucketIndex
  <2> QED
    BY <2>2, BoundariesType
<1> QED
  BY <1>2, <1>3

\* The second to the fourth add of a request whose latency is recorded.
Timed(p, s) ==
    /\ Len(p) >= 4
    /\ \E ms \in Samples :
          /\ p[2] = Add(Count(s), 1)
          /\ p[3] = Add(Sum(s), ms)
          /\ p[4] = Add(Bucket(s, BucketIndex(ms)), 1)

PlainFields == {Plain(n) : n \in {"requests", "errors", "tokens"}}

\* Whatever way a request goes, its handler makes a sequence of adds, of which
\* three belong to a latency series and come together.
LEMMA PlanShape ==
    ASSUME NEW p \in Plans
    PROVE  /\ p \in Seq(Adds)
           /\ \A i \in 1..Len(p) :
                 \/ p[i].field \in PlainFields
                 \/ i \in 2..4 /\ \E s \in Series : Timed(p, s)
<1>1. /\ Start \in Seq(Adds) /\ Error \in Seq(Adds) /\ Tokens \in Seq(Adds)
      /\ Len(Start) = 1 /\ Len(Error) = 1 /\ Len(Tokens) = 1
      /\ {Start[1].field, Error[1].field, Tokens[1].field} \subseteq PlainFields
  <2>1. PlainFields \subseteq Fields
    BY DEF PlainFields, Fields
  <2>2. {Plain("requests"), Plain("errors"), Plain("tokens")} \subseteq PlainFields
    BY DEF PlainFields
  <2>3. ASSUME NEW f \in PlainFields
        PROVE  <<Add(f, 1)>> \in Seq(Adds) /\ Add(f, 1).field = f
    <3>1. Add(f, 1) \in Adds
      BY <2>1 DEF Adds, Add
    <3> QED
      BY <3>1 DEF Add
  <2> QED
    BY <2>2, <2>3 DEF Start, Error, Tokens
<1>2. ASSUME NEW q \in Seq(Adds), NEW e \in {Error, Tokens, <<>>}
      PROVE  /\ q \o e \in Seq(Adds) /\ Len(q \o e) \in Len(q)..Len(q) + 1
             /\ \A i \in 1..Len(q) : (q \o e)[i] = q[i]
             /\ \A i \in 1..Len(q \o e) :
                   i \in 1..Len(q) \/ (q \o e)[i].field \in PlainFields
  <2>1. CASE e = <<>>
    <3>1. q \o e = q /\ Len(q) \in Nat
      BY <2>1, ConcatEmptySeq, LenProperties
    <3> QED
      BY <3>1
  <2>2. CASE e # <<>>
    <3>1. e \in Seq(Adds) /\ Len(e) = 1 /\ e[1].field \in PlainFields
      BY <1>1, <1>2, <2>2
    <3>2. /\ q \o e \in Seq(Adds) /\ Len(q \o e) = Len(q) + Len(e)
          /\ \A i \in 1..Len(q) + Len(e) :
                (q \o e)[i] = IF i <= Len(q) THEN q[i] ELSE e[i - Len(q)]
          /\ Len(q) \in Nat
      BY <3>1, ConcatProperties, LenProperties
    <3>3. ASSUME NEW i \in 1..Len(q) PROVE (q \o e)[i] = q[i]
      BY <3>1, <3>2
    <3>4. (q \o e)[Len(q) + 1] = e[1]
      <4>1. Len(q) + 1 \in 1..Len(q) + 1 /\ ~(Len(q) + 1 <= Len(q))
            /\ Len(q) + 1 - Len(q) = 1
        BY <3>2
      <4> QED
        BY <3>1, <3>2, <4>1
    <3>5. ASSUME NEW i \in 1..Len(q \o e), i \notin 1..Len(q)
          PROVE  (q \o e)[i].field \in PlainFields
      <4>1. i = Len(q) + 1
        BY <3>1, <3>2, <3>5
      <4> QED
        BY <3>1, <3>4, <4>1
    <3> QED
      BY <3>1, <3>2, <3>3, <3>5
  <2> QED
    BY <2>1, <2>2
<1>3. ASSUME NEW q \in Seq(Adds), NEW s \in Series, NEW e \in {Error, Tokens, <<>>},
             \A i \in 1..Len(q) :
                q[i].field \in PlainFields \/ (i \in 2..4 /\ Timed(q, s))
      PROVE  /\ q \o e \in Seq(Adds)
             /\ \A i \in 1..Len(q \o e) :
                   \/ (q \o e)[i].field \in PlainFields
                   \/ i \in 2..4 /\ Timed(q \o e, s)
  <2>1. Len(q) \in Nat
    BY LenProperties
  <2>2. Timed(q, s) => Timed(q \o e, s)
    <3> DEFINE w == q \o e
    <3>1. Len(w) >= Len(q) /\ Len(w) \in Nat /\ \A i \in 1..Len(q) : w[i] = q[i]
      BY <1>2, <2>1
    <3> HIDE DEF w
    <3>2. Timed(q, s) => w[2] = q[2] /\ w[3] = q[3] /\ w[4] = q[4] /\ Len(w) >= 4
      BY <2>1, <3>1 DEF Timed
    <3>3. Timed(q, s) => Timed(w, s)
      BY <3>2 DEF Timed
    <3> QED
      BY <3>3 DEF w
  <2>3. ASSUME NEW i \in 1..Len(q \o e)
        PROVE  \/ (q \o e)[i].field \in PlainFields
               \/ i \in 2..4 /\ Timed(q \o e, s)
    <3>1. CASE i \in 1..Len(q)
      BY <1>2, <1>3, <2>2, <3>1
    <3>2. CASE i \notin 1..Len(q)
      BY <1>2, <3>2
    <3> QED
      BY <3>1, <3>2
  <2> QED
    BY <1>2, <2>3
<1>4. CASE p \in Untimed
  <2>1. ASSUME NEW q \in Seq(Adds), \A i \in 1..Len(q) : q[i].field \in PlainFields,
               NEW e \in {Error, Tokens, <<>>}
        PROVE  /\ q \o e \in Seq(Adds)
               /\ \A i \in 1..Len(q \o e) : (q \o e)[i].field \in PlainFields
    <3>1. ASSUME NEW i \in 1..Len(q \o e) PROVE (q \o e)[i].field \in PlainFields
      <4>1. CASE i \in 1..Len(q)
        <5>1. (q \o e)[i] = q[i]
          BY <1>2, <4>1
        <5> QED
          BY <2>1, <4>1, <5>1
      <4>2. CASE i \notin 1..Len(q)
        BY <1>2, <4>2
      <4> QED
        BY <4>1, <4>2
    <3> QED
      BY <1>2, <3>1
  <2>2. \A i \in 1..Len(Start) : Start[i].field \in PlainFields
    BY <1>1
  <2>3. PICK u \in Usage : p = Start \o u \/ p = (Start \o u) \o Error
    BY <1>4 DEF Untimed
  <2>4. u \in {Error, Tokens, <<>>}
    BY DEF Usage
  <2>5. /\ Start \o u \in Seq(Adds)
        /\ \A i \in 1..Len(Start \o u) : (Start \o u)[i].field \in PlainFields
    BY <1>1, <2>1, <2>2, <2>4
  <2>6. /\ (Start \o u) \o Error \in Seq(Adds)
        /\ \A i \in 1..Len((Start \o u) \o Error) :
              ((Start \o u) \o Error)[i].field \in PlainFields
    BY <2>1, <2>5
  <2> QED
    BY <2>3, <2>5, <2>6
<1>5. ASSUME NEW s \in Series, NEW ms \in Samples, NEW u \in Usage
      PROVE  /\ Answered(s, ms, u) \in Seq(Adds)
             /\ \A i \in 1..Len(Answered(s, ms, u)) :
                   \/ Answered(s, ms, u)[i].field \in PlainFields
                   \/ i \in 2..4 /\ Timed(Answered(s, ms, u), s)
  <2>1. {Count(s), Sum(s), Bucket(s, BucketIndex(ms))} \subseteq Fields
    BY BucketIndexType DEF Fields
  <2>2. {Add(Count(s), 1), Add(Sum(s), ms),
         Add(Bucket(s, BucketIndex(ms)), 1)} \subseteq Adds
    BY <2>1, MetricsAssumption DEF Adds, Add
  <2> DEFINE l == Latency(s, ms)
             q == Start \o l
  <2>3. /\ l \in Seq(Adds) /\ Len(l) = 3 /\ l[1] = Add(Count(s), 1)
        /\ l[2] = Add(Sum(s), ms) /\ l[3] = Add(Bucket(s, BucketIndex(ms)), 1)
    BY <2>2 DEF Latency
  <2> HIDE DEF l
  <2>4. /\ q \in Seq(Adds) /\ Len(q) = 4 /\ q[1] = Start[1]
        /\ q[2] = l[1] /\ q[3] = l[2] /\ q[4] = l[3]
    <3>1. /\ q \in Seq(Adds) /\ Len(q) = Len(Start) + Len(l)
          /\ \A i \in 1..Len(Start) + Len(l) :
                q[i] = IF i <= Len(Start) THEN Start[i] ELSE l[i - Len(Start)]
      BY <1>1, <2>3, ConcatProperties
    <3> QED
      BY <1>1, <2>3, <3>1
  <2> HIDE DEF q
  <2>5. Timed(q, s)
    BY <2>3, <2>4 DEF Timed
  <2>6. q[1].field \in PlainFields
    BY <1>1, <2>4
  <2>7. \A i \in 1..Len(q) : q[i].field \in PlainFields \/ (i \in 2..4 /\ Timed(q, s))
    BY <2>4, <2>5, <2>6
  <2>8. u \in {Error, Tokens, <<>>}
    BY DEF Usage
  <2>9. Answered(s, ms, u) = q \o u
    BY DEF Answered, l, q
  <2> QED
    BY <1>3, <2>4, <2>7, <2>8, <2>9
<1>6. CASE \E s \in Series, ms \in Samples, u \in Usage : p = Answered(s, ms, u)
  BY <1>5, <1>6
<1>7. CASE \E s \in Series, ms \in Samples, u \in Usage : p = Broken(s, ms, u)
  <2>1. PICK s \in Series, ms \in Samples, u \in Usage :
            p = Answered(s, ms, u) \o Error
    BY <1>7 DEF Broken
  <2> DEFINE q == Answered(s, ms, u)
  <2>2. /\ q \in Seq(Adds)
        /\ \A i \in 1..Len(q) :
              q[i].field \in PlainFields \/ (i \in 2..4 /\ Timed(q, s))
    BY <1>5
  <2> HIDE DEF q
  <2>3. /\ q \o Error \in Seq(Adds)
        /\ \A i \in 1..Len(q \o Error) :
              \/ (q \o Error)[i].field \in PlainFields
              \/ i \in 2..4 /\ Timed(q \o Error, s)
    BY <1>3, <2>2
  <2> QED
    BY <2>1, <2>3 DEF q
<1> QED
  BY <1>4, <1>6, <1>7 DEF Plans

-----------------------------------------------------------------------------
(* The order of the reads *)

LEMMA Joined ==
    ASSUME NEW u \in Seq(Fields), NEW v \in Seq(Fields)
    PROVE  /\ u \o v \in Seq(Fields) /\ Len(u \o v) = Len(u) + Len(v)
           /\ \A i \in 1..Len(u) : (u \o v)[i] = u[i]
           /\ \A i \in 1..Len(v) : (u \o v)[Len(u) + i] = v[i]
           /\ \A i \in 1..Len(u \o v) :
                 i \in 1..Len(u) \/ \E j \in 1..Len(v) : i = Len(u) + j
<1>1. /\ u \o v \in Seq(Fields) /\ Len(u \o v) = Len(u) + Len(v)
      /\ \A i \in 1..Len(u) + Len(v) :
            (u \o v)[i] = IF i <= Len(u) THEN u[i] ELSE v[i - Len(u)]
      /\ Len(u) \in Nat /\ Len(v) \in Nat
  BY ConcatProperties, LenProperties
<1>2. ASSUME NEW i \in 1..Len(u)
      PROVE  (u \o v)[i] = u[i]
  <2>1. i \in 1..Len(u) + Len(v) /\ i <= Len(u)
    BY <1>1
  <2> QED
    BY <1>1, <2>1
<1>3. ASSUME NEW i \in 1..Len(u \o v), i \notin 1..Len(u)
      PROVE  \E j \in 1..Len(v) : i = Len(u) + j
  <2>1. i - Len(u) \in 1..Len(v) /\ i = Len(u) + (i - Len(u))
    BY <1>1, <1>3
  <2> QED
    BY <2>1
<1>4. ASSUME NEW i \in 1..Len(v)
      PROVE  (u \o v)[Len(u) + i] = v[i]
  <2>1. /\ Len(u) + i \in 1..Len(u) + Len(v) /\ ~(Len(u) + i <= Len(u))
        /\ Len(u) + i - Len(u) = i
    BY <1>1
  <2> QED
    BY <1>1, <2>1
<1>5. /\ \A i \in 1..Len(u) : (u \o v)[i] = u[i]
      /\ \A i \in 1..Len(v) : (u \o v)[Len(u) + i] = v[i]
  BY <1>2, <1>4
<1>6. \A i \in 1..Len(u \o v) :
          i \in 1..Len(u) \/ \E j \in 1..Len(v) : i = Len(u) + j
  BY <1>3
<1> QED
  BY <1>1, <1>5, <1>6

LEMMA SeriesReadsAll ==
    ASSUME NEW s \in Series
    PROVE  /\ SeriesReads(s) \in Seq(Fields)
           /\ \E i \in 1..Len(SeriesReads(s)) : SeriesReads(s)[i] = Sum(s)
           /\ \A b \in Buckets :
                 \E i \in 1..Len(SeriesReads(s)) : SeriesReads(s)[i] = Bucket(s, b)
           /\ \A i \in 1..Len(SeriesReads(s)) : SeriesReads(s)[i][1] = s
<1> DEFINE u == <<Sum(s)>>
           v == [b \in Buckets |-> Bucket(s, b)]
<1>1. u \in Seq(Fields) /\ Len(u) = 1 /\ u[1] = Sum(s)
  BY DEF Fields
<1>2. v \in Seq(Fields) /\ Len(v) = Len(Boundaries) + 1
  <2>1. \A b \in Buckets : Bucket(s, b) \in Fields
    BY DEF Fields
  <2>2. v \in [1..Len(Boundaries) + 1 -> Fields]
    BY <2>1, BoundariesType
  <2> QED
    BY <2>2, BoundariesType, IsASeq
<1>3. \A b \in Buckets : v[b] = Bucket(s, b)
  OBVIOUS
<1>4. Sum(s)[1] = s /\ \A b \in Buckets : Bucket(s, b)[1] = s
  BY DEF Sum, Bucket
<1> HIDE DEF u, v
<1>5. SeriesReads(s) = u \o v
  BY DEF SeriesReads, u, v
<1> DEFINE w == u \o v
<1>6. /\ w \in Seq(Fields) /\ Len(w) = 1 + Len(v)
      /\ \A i \in 1..1 : w[i] = u[i]
      /\ \A i \in 1..Len(v) : w[1 + i] = v[i]
      /\ \A i \in 1..Len(w) : i \in 1..1 \/ \E j \in 1..Len(v) : i = 1 + j
  <2>1. /\ w \in Seq(Fields) /\ Len(w) = Len(u) + Len(v)
        /\ \A i \in 1..Len(u) : w[i] = u[i]
        /\ \A i \in 1..Len(v) : w[Len(u) + i] = v[i]
        /\ \A i \in 1..Len(w) :
              i \in 1..Len(u) \/ \E j \in 1..Len(v) : i = Len(u) + j
    BY <1>1, <1>2, Joined
  <2> QED
    BY <1>1, <2>1
<1> HIDE DEF w
<1>7. w[1] = Sum(s) /\ 1 \in 1..Len(w)
  BY <1>1, <1>2, <1>6, BoundariesType
<1>8. ASSUME NEW b \in Buckets
      PROVE  1 + b \in 1..Len(w) /\ w[1 + b] = Bucket(s, b)
  BY <1>2, <1>3, <1>6, BoundariesType
<1>9. ASSUME NEW i \in 1..Len(w)
      PROVE  w[i][1] = s
  <2>1. CASE i = 1
    BY <1>4, <1>7, <2>1
  <2>2. CASE i # 1
    <3>1. PICK j \in 1..Len(v) : i = 1 + j
      BY <1>6, <2>2
    <3>2. j \in Buckets
      BY <1>2, BoundariesType
    <3> QED
      BY <1>4, <1>8, <3>1, <3>2
  <2> QED
    BY <2>1, <2>2
<1>10. SeriesReads(s) = w
  BY <1>5 DEF w
<1> QED
  BY <1>6, <1>7, <1>8, <1>9, <1>10

LEMMA OfType ==
    ASSUME NEW s, NEW u, s \in Series => u \in Seq(Fields)
    PROVE  Of(s, u) \in Seq(Fields) /\ (s \notin Series => Len(Of(s, u)) = 0)
BY DEF Of

\* Every field is read, and the count of a series before its other fields.
LEMMA ReadsOrder ==
    /\ Reads \in Seq(Fields)
    /\ \A f \in Fields : \E i \in 1..Len(Reads) : Reads[i] = f
    /\ \A i \in 1..Len(Reads), s \in Series :
          Reads[i][1] = s /\ Reads[i] # Count(s)
          => \E j \in 1..i - 1 : Reads[j] = Count(s)
<1> DEFINE p == <<Plain("requests"), Plain("errors"), Plain("tokens")>>
           ns == "nonStream"
           st == "stream"
           c == CountReads
           l == Latencies
           k == p \o c
<1>1. /\ p \in Seq(Fields) /\ Len(p) = 3
      /\ \A f \in PlainFields : \E i \in 1..3 : p[i] = f
      /\ \A i \in 1..3 : p[i] \in PlainFields
  BY DEF PlainFields, Fields
<1>2. /\ c \in Seq(Fields)
      /\ \A s \in Series : \E i \in 1..Len(c) : c[i] = Count(s)
      /\ \A i \in 1..Len(c) : \E s \in Series : c[i] = Count(s)
  <2> DEFINE u == Of(ns, <<Count(ns)>>)
             v == Of(st, <<Count(st)>>)
  <2>1. ASSUME NEW s \in Series
        PROVE  /\ <<Count(s)>> \in Seq(Fields) /\ Len(<<Count(s)>>) = 1
               /\ <<Count(s)>>[1] = Count(s)
    BY DEF Fields
  <2>2. u \in Seq(Fields) /\ v \in Seq(Fields)
    BY <2>1, OfType
  <2>3. /\ ns \in Series => u[1] = Count(ns) /\ Len(u) = 1
        /\ st \in Series => v[1] = Count(st) /\ Len(v) = 1
        /\ ns \notin Series => Len(u) = 0
        /\ st \notin Series => Len(v) = 0
    BY <2>1 DEF Of
  <2>4. c = u \o v
    BY DEF CountReads
  <2> HIDE DEF u, v
  <2> DEFINE w == u \o v
  <2>5. /\ w \in Seq(Fields) /\ Len(w) = Len(u) + Len(v)
        /\ \A i \in 1..Len(u) : w[i] = u[i]
        /\ \A i \in 1..Len(v) : w[Len(u) + i] = v[i]
        /\ \A i \in 1..Len(w) :
              i \in 1..Len(u) \/ \E j \in 1..Len(v) : i = Len(u) + j
        /\ Len(u) \in Nat /\ Len(v) \in Nat
    BY <2>2, Joined, LenProperties
  <2> HIDE DEF w
  <2>6. ASSUME NEW s \in Series
        PROVE  \E i \in 1..Len(w) : w[i] = Count(s)
    <3>1. s \in {ns, st}
      BY MetricsAssumption
    <3>2. CASE s = ns
      <4>1. 1 \in 1..Len(w) /\ w[1] = Count(s)
        BY <2>3, <2>5, <3>2
      <4> QED
        BY <4>1
    <3>3. CASE s = st
      <4>1. Len(v) = 1 /\ v[1] = Count(s)
        BY <2>3, <3>3
      <4>2. Len(u) + 1 \in 1..Len(w) /\ 1 \in 1..Len(v)
        BY <2>5, <4>1
      <4>3. w[Len(u) + 1] = Count(s)
        BY <2>5, <4>1, <4>2
      <4> QED
        BY <4>2, <4>3
    <3> QED
      BY <3>1, <3>2, <3>3
  <2>7. ASSUME NEW i \in 1..Len(w)
        PROVE  \E s \in Series : w[i] = Count(s)
    <3>1. CASE i \in 1..Len(u)
      <4>1. ns \in Series /\ i = 1
        <5>1. Len(u) # 0
          BY <2>5, <3>1
        <5>2. ns \in Series /\ Len(u) = 1
          BY <2>3, <5>1
        <5> QED
          BY <3>1, <5>2
      <4> QED
        BY <2>3, <2>5, <3>1, <4>1
    <3>2. CASE i \notin 1..Len(u)
      <4>1. PICK j \in 1..Len(v) : i = Len(u) + j
        BY <2>5, <3>2
      <4>2. st \in Series /\ j = 1
        <5>1. Len(v) # 0
          BY <2>5, <4>1
        <5>2. st \in Series /\ Len(v) = 1
          BY <2>3, <5>1
        <5> QED
          BY <4>1, <5>2
      <4> QED
        BY <2>3, <2>5, <4>1, <4>2
    <3> QED
      BY <3>1, <3>2
  <2> QED
    BY <2>4, <2>5, <2>6, <2>7 DEF w
<1>3. /\ l \in Seq(Fields)
      /\ \A s \in Series :
            /\ \E i \in 1..Len(l) : l[i] = Sum(s)
            /\ \A b \in Buckets : \E i \in 1..Len(l) : l[i] = Bucket(s, b)
  <2> DEFINE u == Of(ns, SeriesReads(ns))
             v == Of(st, SeriesReads(st))
  <2>1. u \in Seq(Fields) /\ v \in Seq(Fields)
    BY SeriesReadsAll, OfType
  <2>2. /\ ns \in Series => u = SeriesReads(ns)
        /\ st \in Series => v = SeriesReads(st)
    BY DEF Of
  <2>3. l = u \o v
    BY DEF Latencies
  <2> HIDE DEF u, v
  <2> DEFINE w == u \o v
  <2>4. /\ w \in Seq(Fields) /\ Len(w) = Len(u) + Len(v)
        /\ \A i \in 1..Len(u) : w[i] = u[i]
        /\ \A i \in 1..Len(v) : w[Len(u) + i] = v[i]
        /\ Len(u) \in Nat /\ Len(v) \in Nat
    BY <2>1, Joined, LenProperties
  <2> HIDE DEF w
  <2>5. /\ \A i \in 1..Len(u) : i \in 1..Len(w)
        /\ \A i \in 1..Len(v) : Len(u) + i \in 1..Len(w)
    BY <2>4
  <2>6. ASSUME NEW s \in Series,
               NEW f \in {Sum(s)} \cup {Bucket(s, b) : b \in Buckets}
        PROVE  \E i \in 1..Len(w) : w[i] = f
    <3>1. PICK i \in 1..Len(SeriesReads(s)) : SeriesReads(s)[i] = f
      BY SeriesReadsAll
    <3>2. s \in {ns, st}
      BY MetricsAssumption
    <3>3. CASE s = ns
      <4>1. i \in 1..Len(w) /\ w[i] = f
        BY <2>2, <2>4, <2>5, <3>1, <3>3
      <4> QED
        BY <4>1
    <3>4. CASE s = st
      <4>1. Len(u) + i \in 1..Len(w) /\ w[Len(u) + i] = f
        BY <2>2, <2>4, <2>5, <3>1, <3>4
      <4> QED
        BY <4>1
    <3> QED
      BY <3>2, <3>3, <3>4
  <2> QED
    BY <2>3, <2>4, <2>6 DEF w
<1>4. Reads = k \o l
  BY DEF Reads
<1> HIDE DEF p, c, l
<1>5. /\ k \in Seq(Fields) /\ Len(k) = 3 + Len(c)
      /\ \A i \in 1..3 : k[i] = p[i]
      /\ \A i \in 1..Len(c) : k[3 + i] = c[i]
      /\ \A i \in 1..Len(k) : i \in 1..3 \/ \E j \in 1..Len(c) : i = 3 + j
      /\ Len(c) \in Nat
  <2>1. /\ k \in Seq(Fields) /\ Len(k) = Len(p) + Len(c)
        /\ \A i \in 1..Len(p) : k[i] = p[i]
        /\ \A i \in 1..Len(c) : k[Len(p) + i] = c[i]
        /\ \A i \in 1..Len(k) :
              i \in 1..Len(p) \/ \E j \in 1..Len(c) : i = Len(p) + j
    <3>1. p \in Seq(Fields) /\ c \in Seq(Fields)
      BY <1>1, <1>2
    <3> QED
      BY <3>1, Joined
  <2>2. Len(p) = 3 /\ Len(c) \in Nat
    BY <1>1, <1>2, LenProperties
  <2> HIDE DEF k
  <2> QED
    BY <2>1, <2>2
<1> HIDE DEF k
<1> DEFINE w == k \o l
<1>6. /\ w \in Seq(Fields) /\ Len(w) = Len(k) + Len(l)
      /\ \A i \in 1..Len(k) : w[i] = k[i]
      /\ \A i \in 1..Len(l) : w[Len(k) + i] = l[i]
      /\ Len(k) \in Nat /\ Len(l) \in Nat
  BY <1>3, <1>5, Joined, LenProperties
<1> HIDE DEF w
<1>7. ASSUME NEW s \in Series
      PROVE  \E i \in 1..Len(k) : w[i] = Count(s)
  <2>1. PICK j \in 1..Len(c) : c[j] = Count(s)
    BY <1>2
  <2>2. 3 + j \in 1..Len(k)
    BY <1>5
  <2> QED
    BY <1>5, <1>6, <2>1, <2>2
<1>8. ASSUME NEW f \in Fields
      PROVE  \E i \in 1..Len(w) : w[i] = f
  <2>1. CASE f \in PlainFields
    <3>1. PICK i \in 1..3 : p[i] = f
      BY <1>1, <2>1
    <3>2. i \in 1..Len(w) /\ i \in 1..Len(k)
      BY <1>5, <1>6
    <3> QED
      BY <1>5, <1>6, <3>1, <3>2
  <2>2. CASE \E s \in Series : f = Count(s)
    <3>1. PICK i \in 1..Len(k) : w[i] = f
      BY <1>7, <2>2
    <3>2. i \in 1..Len(w)
      BY <1>6
    <3> QED
      BY <3>1, <3>2
  <2>3. CASE \E i \in 1..Len(l) : l[i] = f
    <3>1. PICK i \in 1..Len(l) : l[i] = f
      BY <2>3
    <3>2. Len(k) + i \in 1..Len(w)
      BY <1>6
    <3> QED
      BY <1>6, <3>1, <3>2
  <2> QED
    BY <1>3, <2>1, <2>2, <2>3 DEF Fields, PlainFields
<1>9. ASSUME NEW i \in 1..Len(w), NEW s \in Series,
             w[i][1] = s, w[i] # Count(s)
      PROVE  \E j \in 1..i - 1 : w[j] = Count(s)
  <2>1. i \notin 1..Len(k)
    <3> SUFFICES ASSUME i \in 1..Len(k) PROVE FALSE
      OBVIOUS
    <3>1. CASE i \in 1..3
      <4>1. w[i] \in PlainFields
        BY <1>1, <1>5, <1>6, <3>1
      <4>2. w[i][1] = "plain"
        BY <4>1 DEF PlainFields, Plain
      <4> QED
        BY <1>9, <4>2, MetricsAssumption
    <3>2. CASE i \notin 1..3
      <4>1. PICK j \in 1..Len(c) : i = 3 + j
        BY <1>5, <3>2
      <4>2. PICK t \in Series : c[j] = Count(t)
        BY <1>2
      <4>3. w[i] = Count(t)
        BY <1>5, <1>6, <4>1, <4>2
      <4> QED
        BY <1>9, <4>3 DEF Count
    <3> QED
      BY <3>1, <3>2
  <2>2. PICK j \in 1..Len(k) : w[j] = Count(s)
    BY <1>7
  <2>3. j \in 1..i - 1
    BY <1>6, <2>1
  <2> QED
    BY <2>2, <2>3
<1>10. Reads = w
  BY <1>4 DEF w
<1> QED
  BY <1>6, <1>8, <1>9, <1>10

-----------------------------------------------------------------------------
(* Counting what requests have added *)

\* What rs add in all to f, and what they have added so far, with the plans pl
\* and so many adds made as dn says.
Whole(pl, rs, f) == UNION {Units(r, pl[r], f) : r \in rs}
Made(pl, dn, rs, f) == {x \in Whole(pl, rs, f) : x[2] <= dn[x[1]]}

LEMMA InWhole ==
    ASSUME NEW pl, NEW rs, NEW f, NEW x
    PROVE  x \in Whole(pl, rs, f) <=>
              \E r \in rs : \E i \in DOMAIN pl[r] : \E k \in 1..pl[r][i].by :
                  pl[r][i].field = f /\ x = <<r, i, k>>
BY DEF Whole, Units

LEMMA OneAdd ==
    ASSUME NEW r, NEW i, NEW n \in Nat
    PROVE  IsFiniteSet({<<r, i, k>> : k \in 1..n})
<1> DEFINE S == 1..n
           T == {<<r, i, k>> : k \in 1..n}
           g == [k \in 1..n |-> <<r, i, k>>]
<1>1. IsFiniteSet(S)
  BY FS_Interval
<1>2. g \in [S -> T]
  OBVIOUS
<1>3. \A x, y \in S : g[x] = g[y] => x = y
  OBVIOUS
<1>4. \A t \in T : \E x \in S : g[x] = t
  OBVIOUS
<1> HIDE DEF S, T, g
<1>5. IsFiniteSet(T)
  BY <1>1, <1>2, <1>3, <1>4, SameCard
<1> QED
  BY <1>5 DEF T

LEMMA WholeFinite ==
    ASSUME NEW pl, NEW rs, IsFiniteSet(rs), NEW f,
           \A r \in rs : pl[r] \in Seq(Adds)
    PROVE  IsFiniteSet(Whole(pl, rs, f))
<1>1. ASSUME NEW r \in rs
      PROVE  IsFiniteSet(Units(r, pl[r], f))
  <2> DEFINE p == pl[r]
             S == {j \in DOMAIN p : p[j].field = f}
             Of1(i) == {<<r, i, k>> : k \in 1..p[i].by}
             F == [i \in S |-> Of1(i)]
  <2>1. p \in Seq(Adds) /\ DOMAIN p = 1..Len(p) /\ Len(p) \in Nat
    BY LenProperties
  <2>2. IsFiniteSet(S)
    <3>1. IsFiniteSet(1..Len(p))
      BY <2>1, FS_Interval
    <3>2. S \subseteq 1..Len(p)
      BY <2>1
    <3> QED
      BY <3>1, <3>2, SubsetCard
  <2>3. ASSUME NEW i \in S
        PROVE  IsFiniteSet(Of1(i))
    <3> DEFINE n == p[i].by
    <3>1. n \in Nat
      <4>1. p[i] \in Adds
        BY <2>1
      <4> QED
        BY <4>1 DEF Adds
    <3> HIDE DEF n
    <3> QED
      BY <3>1, OneAdd DEF n
  <2>4. DOMAIN F = S /\ \A i \in S : F[i] = Of1(i)
    OBVIOUS
  <2>5. Units(r, p, f) = UNION {F[i] : i \in S}
    <3> HIDE DEF F, S, Of1
    <3>1. {F[i] : i \in S} = {Of1(i) : i \in S}
      BY <2>4
    <3> USE DEF S, Of1
    <3> QED
      BY <3>1 DEF Units
  <2> HIDE DEF F, S
  <2> QED
    BY <2>2, <2>3, <2>4, <2>5, UnionFinite
<1> DEFINE F == [r \in rs |-> Units(r, pl[r], f)]
<1>2. DOMAIN F = rs /\ \A r \in rs : IsFiniteSet(F[r])
  BY <1>1
<1>3. Whole(pl, rs, f) = UNION {F[r] : r \in rs}
  BY DEF Whole
<1> HIDE DEF F
<1> QED
  BY <1>2, <1>3, UnionFinite

\* From dn to dn2 request r makes one more add, and no other of rs does.
OneMore(pl, dn, dn2, rs, r, add) ==
    /\ pl[r] \in Seq(Adds) /\ dn[r] \in Nat /\ dn[r] + 1 \in 1..Len(pl[r])
    /\ add = pl[r][dn[r] + 1]
    /\ dn2[r] = dn[r] + 1 /\ \A q \in rs : q # r => dn2[q] = dn[q]

\* It counts, if r is one of rs.
LEMMA MadeOneMore ==
    ASSUME NEW pl, NEW dn, NEW dn2, NEW rs, NEW f, NEW r, NEW add,
           IsFiniteSet(Made(pl, dn, rs, f)), OneMore(pl, dn, dn2, rs, r, add)
    PROVE  LET before == Cardinality(Made(pl, dn, rs, f))
               after == Cardinality(Made(pl, dn2, rs, f))
           IN  /\ r \in rs /\ f = add.field => after = before + add.by
               /\ ~(r \in rs /\ f = add.field) => after = before
<1> DEFINE i == dn[r] + 1
           before == Made(pl, dn, rs, f)
           after == Made(pl, dn2, rs, f)
           n == add.by
           new == {<<r, i, k>> : k \in 1..n}
<1>1. add = pl[r][i] /\ add \in Adds /\ n \in Nat /\ DOMAIN pl[r] = 1..Len(pl[r])
  <2>1. add = pl[r][i] /\ add \in Adds /\ DOMAIN pl[r] = 1..Len(pl[r])
    BY LenProperties DEF OneMore
  <2> QED
    BY <2>1 DEF Adds
<1>2. /\ dn2[r] = i /\ \A q \in rs : q # r => dn2[q] = dn[q]
      /\ dn[r] \in Nat /\ i \in 1..Len(pl[r])
  BY DEF OneMore
<1>3. \A x : x \in Whole(pl, rs, f) =>
          /\ x[1] \in rs
          /\ x[1] = r => x[2] \in 1..Len(pl[r])
          /\ x[1] = r /\ x[2] = i => f = add.field /\ x \in new /\ r \in rs
  BY <1>1, InWhole
<1>4. \A x \in Whole(pl, rs, f) :
          x[2] <= dn2[x[1]] <=> x[2] <= dn[x[1]] \/ (x[1] = r /\ x[2] = i)
  BY <1>1, <1>2, <1>3
<1>5. CASE r \in rs /\ f = add.field
  <2>1. new \subseteq Whole(pl, rs, f)
    BY <1>1, <1>2, <1>5, InWhole
  <2>2. \A x \in new : x[1] = r /\ x[2] = i
    OBVIOUS
  <2>3. \A x \in new : ~(x[2] <= dn[x[1]])
    BY <1>2, <2>2
  <2> HIDE DEF new
  <2>4. after = before \cup new
    BY <1>3, <1>4, <2>1, <2>2 DEF Made
  <2>5. before \cap new = {}
    BY <2>3 DEF Made
  <2>6. IsFiniteSet(new) /\ Cardinality(new) = n
    <3> DEFINE g == [k \in 1..n |-> <<r, i, k>>]
    <3>1. IsFiniteSet(1..n) /\ Cardinality(1..n) = n
      <4> HIDE DEF n
      <4>1. IsFiniteSet(1..n)
            /\ Cardinality(1..n) = IF 1 > n THEN 0 ELSE n - 1 + 1
        <5>1. 1 \in Int /\ n \in Int
          BY <1>1
        <5> QED
          BY <5>1, FS_Interval
      <4> QED
        BY <1>1, <4>1
    <3>2. /\ g \in [1..n -> new]
          /\ \A x, y \in 1..n : g[x] = g[y] => x = y
          /\ \A t \in new : \E x \in 1..n : g[x] = t
      BY DEF new
    <3> HIDE DEF g, n
    <3>3. IsFiniteSet(new) /\ Cardinality(new) = Cardinality(1..n)
      BY <3>1, <3>2, SameCard
    <3> QED
      BY <3>1, <3>3
  <2> HIDE DEF before, after
  <2>7. IsFiniteSet(before)
    BY DEF before
  <2>8. Cardinality(after) = Cardinality(before) + n
    BY <2>4, <2>5, <2>6, <2>7, DisjointUnion
  <2> QED
    BY <1>5, <2>8 DEF before, after
<1>6. CASE ~(r \in rs /\ f = add.field)
  <2>1. after = before
    BY <1>3, <1>4, <1>6 DEF Made
  <2> QED
    BY <1>6, <2>1
<1> QED
  BY <1>5, <1>6

\* From pl to pl2 request r, which has made no add, gets its plan, and from rs to
\* ss nobody but r comes or goes.
Newcomer(pl, pl2, dn, rs, ss, r) ==
    /\ pl[r] = <<>> /\ pl2[r] \in Seq(Adds) /\ dn[r] = 0
    /\ \A q \in rs : q # r => pl2[q] = pl[q]
    /\ \A q : q # r => (q \in ss <=> q \in rs)

\* It does not count.
LEMMA MadeNone ==
    ASSUME NEW pl, NEW pl2, NEW dn, NEW rs, NEW ss, NEW f, NEW r,
           Newcomer(pl, pl2, dn, rs, ss, r)
    PROVE  Made(pl2, dn, ss, f) = Made(pl, dn, rs, f)
<1>0. /\ pl[r] = <<>> /\ pl2[r] \in Seq(Adds) /\ dn[r] = 0
      /\ \A q \in rs : q # r => pl2[q] = pl[q]
      /\ \A q : q # r => (q \in ss <=> q \in rs)
  BY DEF Newcomer
<1>1. DOMAIN pl[r] = {} /\ \A i \in DOMAIN pl2[r] : i \in Nat \ {0}
  BY <1>0, LenProperties
<1>2. \A x : x \in Made(pl2, dn, ss, f) <=>
          \E q \in ss : \E i \in DOMAIN pl2[q] : \E k \in 1..pl2[q][i].by :
              pl2[q][i].field = f /\ x = <<q, i, k>> /\ i <= dn[q]
  BY InWhole DEF Made
<1>3. \A x : x \in Made(pl, dn, rs, f) <=>
          \E q \in rs : \E i \in DOMAIN pl[q] : \E k \in 1..pl[q][i].by :
              pl[q][i].field = f /\ x = <<q, i, k>> /\ i <= dn[q]
  BY InWhole DEF Made
<1>4. \A q, i : q \in ss /\ i \in DOMAIN pl2[q] /\ i <= dn[q] => q # r
  BY <1>0, <1>1
<1>5. \A q, i : q \in rs /\ i \in DOMAIN pl[q] => q # r
  BY <1>1
<1>7. ASSUME NEW x, x \in Made(pl2, dn, ss, f)
      PROVE  x \in Made(pl, dn, rs, f)
  <2>1. PICK q \in ss : \E i \in DOMAIN pl2[q] : \E k \in 1..pl2[q][i].by :
            pl2[q][i].field = f /\ x = <<q, i, k>> /\ i <= dn[q]
    BY <1>2, <1>7
  <2>2. q \in rs /\ pl2[q] = pl[q]
    BY <1>0, <1>4, <2>1
  <2> QED
    BY <1>3, <2>1, <2>2
<1>8. ASSUME NEW x, x \in Made(pl, dn, rs, f)
      PROVE  x \in Made(pl2, dn, ss, f)
  <2>1. PICK q \in rs : \E i \in DOMAIN pl[q] : \E k \in 1..pl[q][i].by :
            pl[q][i].field = f /\ x = <<q, i, k>> /\ i <= dn[q]
    BY <1>3, <1>8
  <2>2. q \in ss /\ pl2[q] = pl[q]
    BY <1>0, <1>5, <2>1
  <2> QED
    BY <1>2, <2>1, <2>2
<1> QED
  BY <1>7, <1>8

-----------------------------------------------------------------------------
(* The inductive invariant *)

Holding(w) == {r \in Requests : at[r] = w}
Active == {r \in Requests : at[r] # "none"}

PlanInv ==
    /\ at \in [Requests -> {"none", "live", "old", "gone"}]
    /\ done \in [Requests -> Nat] /\ DOMAIN plan = Requests
    /\ \A r \in Requests :
          IF at[r] = "none" THEN plan[r] = <<>> /\ done[r] = 0
          ELSE plan[r] \in Plans /\ done[r] <= Len(plan[r])
    /\ IsFiniteSet(Active)

WindowInv ==
    /\ live \in Windows /\ old \in Windows /\ added \in Windows
    /\ rep \in Windows /\ reported \in Windows /\ dropped \in Windows

\* A window holds what those who hold it have added so far, and added what all
\* have.
Exact ==
    \A f \in Fields :
        /\ added[f] = Cardinality(Made(plan, done, Active, f))
        /\ live[f] = Cardinality(Made(plan, done, Holding("live"), f))
        /\ old[f] = Cardinality(Made(plan, done, Holding("old"), f))

\* The requests that were through with their window, which has been reported.
Through == Holding("gone") \ cut

Phase ==
    /\ pos \in 0..Len(Reads) + 1
    /\ pos = 0 => Holding("old") = {} /\ rep = Empty
    /\ cut \subseteq Active /\ cut \cap Holding("live") = {}
    /\ \A r \in settled \cup Through : done[r] = Len(plan[r])

\* What has been read of the old window holds all of the settled requests.
ReadSoFar ==
    \A i \in 1..pos - 1 : Total(settled, Reads[i]) <= rep[Reads[i]]

Conserved ==
    \A f \in Fields :
        /\ rep[f] <= old[f]
        /\ reported[f] + dropped[f] + old[f] + live[f] <= added[f]

\* All that they have added is in the reports.
Past == \A f \in Fields : Total(Through, f) <= reported[f] + dropped[f]

IInv ==
    PlanInv /\ WindowInv /\ Exact /\ Phase /\ ReadSoFar /\ Conserved /\ Past

\* Who was through with the old window when it was swapped out holds it.
LEMMA SettledHold ==
    /\ settled = Holding("old") \ cut
    /\ settled \subseteq Active /\ settled \subseteq Holding("old")
BY DEF settled, Holding, Active

LEMMA HeldPlans ==
    ASSUME PlanInv, NEW r \in Requests
    PROVE  plan[r] \in Seq(Adds) /\ Len(plan[r]) \in Nat
<1>1. <<>> \in Seq(Adds)
  OBVIOUS
<1>2. plan[r] \in Seq(Adds)
  BY <1>1, PlanShape DEF PlanInv
<1> QED
  BY <1>2, LenProperties

LEMMA HeldFinite ==
    ASSUME PlanInv, NEW rs, rs \subseteq Active, NEW f
    PROVE  /\ IsFiniteSet(Whole(plan, rs, f))
           /\ IsFiniteSet(Made(plan, done, rs, f))
<1>1. IsFiniteSet(rs)
  BY SubsetCard DEF PlanInv
<1>2. \A r \in rs : plan[r] \in Seq(Adds)
  BY HeldPlans DEF Active
<1>3. IsFiniteSet(Whole(plan, rs, f))
  BY <1>1, <1>2, WholeFinite
<1>4. Made(plan, done, rs, f) \subseteq Whole(plan, rs, f)
  BY DEF Made
<1> QED
  BY <1>3, <1>4, SubsetCard

LEMMA TotalType ==
    ASSUME PlanInv, NEW rs, rs \subseteq Active, NEW f
    PROVE  Total(rs, f) \in Nat
<1>1. IsFiniteSet(Whole(plan, rs, f))
  BY HeldFinite
<1> QED
  BY <1>1, FS_CardinalityType DEF Total, Whole

\* The old window is between what the settled requests and what all of its
\* requests come to.
LEMMA Bracketed ==
    ASSUME IInv, NEW f \in Fields
    PROVE  /\ Total(settled, f) \in Nat /\ Total(settled, f) <= old[f]
           /\ old[f] <= Total(Holding("old"), f)
<1> DEFINE W == Whole(plan, Holding("old"), f)
           M == Made(plan, done, Holding("old"), f)
           S == Whole(plan, settled, f)
<1>1. Holding("old") \subseteq Active
  BY DEF Holding, Active
<1>2. IsFiniteSet(W) /\ IsFiniteSet(M)
  BY <1>1, HeldFinite DEF IInv
<1>3. M \subseteq W
  BY DEF Made
<1>4. S \subseteq M
  <2> SUFFICES ASSUME NEW x \in S PROVE x \in M
    OBVIOUS
  <2>1. PICK r, i, k :
            /\ r \in settled /\ i \in DOMAIN plan[r] /\ k \in 1..plan[r][i].by
            /\ plan[r][i].field = f /\ x = <<r, i, k>>
    BY InWhole
  <2>2. r \in Holding("old") /\ done[r] = Len(plan[r])
    BY <2>1, SettledHold DEF IInv, Phase
  <2>3. r \in Requests
    BY <2>2 DEF Holding
  <2>4. i <= done[r]
    BY <2>1, <2>2, <2>3, HeldPlans, LenProperties DEF IInv
  <2>5. x \in W
    BY <2>1, <2>2, InWhole
  <2> QED
    BY <2>1, <2>4, <2>5 DEF Made
<1>5. /\ IsFiniteSet(S) /\ Cardinality(S) <= Cardinality(M)
      /\ Cardinality(M) <= Cardinality(W) /\ Cardinality(S) \in Nat
  BY <1>2, <1>3, <1>4, SubsetCard, FS_CardinalityType
<1>6. /\ Total(settled, f) = Cardinality(S)
      /\ Total(Holding("old"), f) = Cardinality(W)
      /\ old[f] = Cardinality(M)
  BY DEF Total, Whole, IInv, Exact
<1> QED
  BY <1>5, <1>6

\* With no count of a series among the settled requests, they have added to
\* none of its fields.
LEMMA NothingSkipped ==
    ASSUME PlanInv, settled \subseteq Active, NEW f \in Fields,
           f[1] \in Series, Total(settled, Count(f[1])) = 0
    PROVE  Total(settled, f) = 0
<1> DEFINE s == f[1]
           C == Whole(plan, settled, Count(s))
           S == Whole(plan, settled, f)
<1>1. /\ Total(settled, Count(s)) = Cardinality(C)
      /\ Total(settled, f) = Cardinality(S)
  BY DEF Total, Whole
<1>2. C = {}
  <2>1. IsFiniteSet(C)
    BY HeldFinite
  <2> QED
    BY <1>1, <2>1, FS_EmptySet
<1>3. ASSUME NEW r \in settled PROVE ~Timed(plan[r], s)
  <2> SUFFICES ASSUME Timed(plan[r], s) PROVE FALSE
    OBVIOUS
  <2>1. plan[r] \in Seq(Adds) /\ Len(plan[r]) \in Nat
    BY HeldPlans DEF Active
  <2>2. 2 \in DOMAIN plan[r] /\ plan[r][2] = Add(Count(s), 1)
    BY <2>1, LenProperties DEF Timed
  <2>3. plan[r][2].field = Count(s) /\ 1 \in 1..plan[r][2].by
    BY <2>2 DEF Add
  <2>4. <<r, 2, 1>> \in C
    BY <2>2, <2>3, InWhole
  <2> QED
    BY <1>2, <2>4
<1>4. S = {}
  <2> SUFFICES ASSUME NEW x \in S PROVE FALSE
    OBVIOUS
  <2>1. PICK r, i, k :
            /\ r \in settled /\ i \in DOMAIN plan[r] /\ k \in 1..plan[r][i].by
            /\ plan[r][i].field = f /\ x = <<r, i, k>>
    BY InWhole
  <2>2. plan[r] \in Plans
    BY <2>1 DEF PlanInv, Active
  <2>3. i \in 1..Len(plan[r])
    BY <2>1, <2>2, PlanShape, LenProperties
  <2>4. f \notin PlainFields
    BY MetricsAssumption DEF PlainFields, Plain
  <2>5. PICK t \in Series : Timed(plan[r], t) /\ i \in 2..4
    BY <2>1, <2>2, <2>3, <2>4, PlanShape
  <2>6. plan[r][i].field[1] = t
    BY <2>5 DEF Timed, Add, Count, Sum, Bucket
  <2> QED
    BY <1>3, <2>1, <2>5, <2>6
<1> QED
  BY <1>1, <1>4, FS_EmptySet

-----------------------------------------------------------------------------
(* Every step preserves it *)

LEMMA EmptyWindow == Empty \in Windows /\ \A f \in Fields : Empty[f] = 0
BY DEF Empty, Windows

LEMMA NobodyMade ==
    ASSUME NEW pl, NEW dn, NEW f
    PROVE  Cardinality(Made(pl, dn, {}, f)) = 0
<1>1. Made(pl, dn, {}, f) = {}
  BY DEF Made, Whole
<1> QED
  BY <1>1, FS_EmptySet

LEMMA NobodyTotal ==
    ASSUME NEW f
    PROVE  Total({}, f) = 0
<1>1. UNION {Units(r, plan[r], f) : r \in {}} = {}
  OBVIOUS
<1> QED
  BY <1>1, FS_EmptySet DEF Total

LEMMA InitInv == Init => IInv
<1> SUFFICES ASSUME Init PROVE IInv
  OBVIOUS
<1>1. /\ Active = {} /\ Holding("live") = {} /\ Holding("old") = {}
      /\ Through = {} /\ settled = {}
  BY DEF Init, Active, Holding, Through, settled
<1>2. PlanInv
  BY <1>1, FS_EmptySet DEF Init, PlanInv
<1>3. WindowInv /\ Conserved
  BY EmptyWindow DEF Init, WindowInv, Conserved
<1>4. Exact
  BY <1>1, EmptyWindow, NobodyMade DEF Init, Exact
<1>5. Phase /\ ReadSoFar
  BY <1>1, ReadsOrder, LenProperties DEF Init, Phase, ReadSoFar
<1>6. Past
  BY <1>1, EmptyWindow, NobodyTotal DEF Init, Past
<1> QED
  BY <1>2, <1>3, <1>4, <1>5, <1>6 DEF IInv

LEMMA ArriveStep ==
    ASSUME IInv, NEW r \in Requests, Arrive(r)
    PROVE  IInv'
<1>1. PICK p \in Plans : plan' = [plan EXCEPT ![r] = p]
  BY DEF Arrive
<1>2. /\ at[r] = "none" /\ at' = [at EXCEPT ![r] = "live"]
      /\ plan[r] = <<>> /\ done[r] = 0
      /\ UNCHANGED <<done, live, old, added, pos, rep, reported, dropped, cut>>
  BY DEF Arrive, reportVars, IInv, PlanInv
<1>3. p \in Seq(Adds) /\ Len(p) \in Nat
  BY PlanShape, LenProperties
<1>4. /\ Active' = Active \cup {r}
      /\ Holding("live")' = Holding("live") \cup {r}
      /\ Holding("old")' = Holding("old") /\ r \notin Holding("old")
      /\ Through' = Through /\ settled' = settled
      /\ r \notin Through /\ r \notin settled /\ r \notin Active
  BY <1>2 DEF Active, Holding, IInv, PlanInv, Through, settled
<1>5. PlanInv'
  <2>1. IsFiniteSet(Active')
    BY <1>4, FS_AddElement DEF IInv, PlanInv
  <2> QED
    BY <1>1, <1>2, <1>3, <2>1 DEF IInv, PlanInv
<1>6. WindowInv' /\ Conserved'
  BY <1>2 DEF IInv, WindowInv, Conserved
<1>7. Exact'
  <2> SUFFICES ASSUME NEW f \in Fields
               PROVE  /\ added[f] = Cardinality(Made(plan', done, Active', f))
                      /\ live[f] = Cardinality(Made(plan', done, Holding("live")', f))
                      /\ old[f] = Cardinality(Made(plan', done, Holding("old")', f))
    BY <1>2 DEF Exact
  <2>1. plan'[r] \in Seq(Adds) /\ plan[r] = <<>> /\ done[r] = 0
    BY <1>1, <1>2, <1>3 DEF IInv, PlanInv
  <2>2. \A q \in Requests : q # r => plan'[q] = plan[q]
    BY <1>1 DEF IInv, PlanInv
  <2>3. ASSUME NEW rs, NEW ss, rs \subseteq Requests, ss \ {r} = rs \ {r}
        PROVE  Made(plan', done, ss, f) = Made(plan, done, rs, f)
    <3>1. Newcomer(plan, plan', done, rs, ss, r)
      BY <2>1, <2>2, <2>3 DEF Newcomer
    <3> QED
      BY <3>1, MadeNone
  <2>4. /\ Holding("live")' \ {r} = Holding("live") \ {r}
        /\ Holding("old")' \ {r} = Holding("old") \ {r}
        /\ Active' \ {r} = Active \ {r}
        /\ Holding("live") \subseteq Requests /\ Holding("old") \subseteq Requests
        /\ Active \subseteq Requests
    BY <1>4 DEF Holding, Active
  <2>5. /\ Made(plan', done, Active', f) = Made(plan, done, Active, f)
        /\ Made(plan', done, Holding("live")', f)
              = Made(plan, done, Holding("live"), f)
        /\ Made(plan', done, Holding("old")', f)
              = Made(plan, done, Holding("old"), f)
    BY <2>3, <2>4
  <2> QED
    BY <2>5 DEF IInv, Exact
<1>8. \A q \in settled \cup Through : q # r /\ plan'[q] = plan[q]
  BY <1>1, <1>4 DEF IInv, PlanInv, settled, Through, Holding
<1>9. Phase'
  BY <1>2, <1>4, <1>8 DEF IInv, Phase
<1>10. ReadSoFar'
  BY <1>2, <1>4, <1>8 DEF IInv, ReadSoFar, Total
<1>11. Past'
  BY <1>2, <1>4, <1>8 DEF IInv, Past, Total
<1> QED
  BY <1>5, <1>6, <1>7, <1>9, <1>10, <1>11 DEF IInv

\* An add to one window is an add to the total as well.
LEMMA RecordStep ==
    ASSUME IInv, NEW r \in Requests, Record(r)
    PROVE  IInv'
<1> DEFINE add == plan[r][done[r] + 1]
           After(w) == [w EXCEPT ![add.field] = @ + add.by]
<1>1. /\ plan[r] \in Seq(Adds) /\ Len(plan[r]) \in Nat /\ done[r] \in Nat
      /\ done[r] + 1 \in 1..Len(plan[r]) /\ at[r] # "none"
      /\ done[r] # Len(plan[r])
  BY HeldPlans DEF IInv, PlanInv, Record, Finished
<1>2. add.by \in Nat /\ add.field \in Fields
  <2>1. add \in Adds
    BY <1>1
  <2> QED
    BY <2>1 DEF Adds
<1>3. /\ added' = After(added)
      /\ live' = IF at[r] = "live" THEN After(live) ELSE live
      /\ old' = IF at[r] = "old" THEN After(old) ELSE old
      /\ done' = [done EXCEPT ![r] = @ + 1]
      /\ UNCHANGED <<plan, at, pos, rep, reported, dropped, cut>>
  BY DEF Record, reportVars
<1>4. plan' = plan /\ add = plan[r][done[r] + 1]
  BY <1>3
<1>5. ASSUME NEW w \in Windows
      PROVE  /\ After(w) \in Windows
             /\ \A f \in Fields :
                   After(w)[f] = w[f] + IF f = add.field THEN add.by ELSE 0
  <2>1. ASSUME NEW f \in Fields
        PROVE  /\ After(w)[f] = w[f] + IF f = add.field THEN add.by ELSE 0
               /\ After(w)[f] \in Nat
    <3>1. w[f] \in Nat
      BY DEF Windows
    <3>2. CASE f = add.field
      BY <1>2, <3>1, <3>2 DEF Windows
    <3>3. CASE f # add.field
      BY <3>1, <3>3 DEF Windows
    <3> QED
      BY <3>2, <3>3
  <2>2. DOMAIN After(w) = Fields
    BY DEF Windows
  <2> HIDE DEF add
  <2>3. After(w) \in [Fields -> Nat]
    BY <2>1, <2>2
  <2> QED
    BY <2>1, <2>3 DEF Windows
<1>6. PlanInv'
  BY <1>1, <1>3 DEF IInv, PlanInv, Active
<1>7. /\ Holding("live")' = Holding("live") /\ Holding("old")' = Holding("old")
      /\ Active' = Active /\ Through' = Through /\ settled' = settled
  BY <1>3 DEF Holding, Active, Through, settled
<1>8. ASSUME NEW f \in Fields, NEW rs, rs \subseteq Active
      PROVE  Cardinality(Made(plan', done', rs, f))
                 = Cardinality(Made(plan, done, rs, f))
                   + IF r \in rs /\ f = add.field THEN add.by ELSE 0
  <2>2. IsFiniteSet(Made(plan, done, rs, f))
    BY <1>8, HeldFinite DEF IInv
  <2>3. /\ done'[r] = done[r] + 1
        /\ \A q \in rs : q # r => done'[q] = done[q]
    BY <1>3, <1>8 DEF IInv, PlanInv, Active
  <2> DEFINE before == Cardinality(Made(plan, done, rs, f))
             after == Cardinality(Made(plan, done', rs, f))
  <2>4. /\ r \in rs /\ f = add.field => after = before + add.by
        /\ ~(r \in rs /\ f = add.field) => after = before
    <3> HIDE DEF add, After
    <3>1. OneMore(plan, done, done', rs, r, add)
      BY <1>1, <1>4, <2>3 DEF OneMore
    <3> QED
      BY <2>2, <3>1, MadeOneMore
  <2>5. before \in Nat
    BY <2>2, FS_CardinalityType
  <2> HIDE DEF before, after, add
  <2>6. after = before + IF r \in rs /\ f = add.field THEN add.by ELSE 0
    BY <2>4, <2>5
  <2> QED
    BY <1>4, <2>6 DEF before, after
<1> HIDE DEF add, After
<1>9. WindowInv'
  BY <1>3, <1>5 DEF IInv, WindowInv
<1>10. ASSUME NEW f \in Fields
       PROVE  LET n == IF f = add.field THEN add.by ELSE 0 IN
              /\ n \in Nat
              /\ added[f] \in Nat /\ live[f] \in Nat /\ old[f] \in Nat
              /\ rep[f] \in Nat /\ reported[f] \in Nat /\ dropped[f] \in Nat
              /\ added'[f] = added[f] + n
              /\ live'[f] = IF at[r] = "live" THEN live[f] + n ELSE live[f]
              /\ old'[f] = IF at[r] = "old" THEN old[f] + n ELSE old[f]
              /\ rep'[f] = rep[f] /\ reported'[f] = reported[f]
              /\ dropped'[f] = dropped[f]
  <2>1. /\ added[f] \in Nat /\ live[f] \in Nat /\ old[f] \in Nat
        /\ rep[f] \in Nat /\ reported[f] \in Nat /\ dropped[f] \in Nat
    BY DEF IInv, WindowInv, Windows
  <2> QED
    BY <1>2, <1>3, <1>5, <2>1 DEF IInv, WindowInv
<1>11. Exact'
  <2> SUFFICES ASSUME NEW f \in Fields
               PROVE  /\ added'[f] = Cardinality(Made(plan', done', Active, f))
                      /\ live'[f] = Cardinality(Made(plan', done', Holding("live"), f))
                      /\ old'[f] = Cardinality(Made(plan', done', Holding("old"), f))
    BY <1>7 DEF Exact
  <2>1. /\ added[f] = Cardinality(Made(plan, done, Active, f))
        /\ live[f] = Cardinality(Made(plan, done, Holding("live"), f))
        /\ old[f] = Cardinality(Made(plan, done, Holding("old"), f))
    BY DEF IInv, Exact
  <2>2. /\ Holding("live") \subseteq Active /\ Holding("old") \subseteq Active
        /\ r \in Active /\ (r \in Holding("live") <=> at[r] = "live")
        /\ (r \in Holding("old") <=> at[r] = "old")
    BY <1>1 DEF Holding, Active
  <2>3. /\ Cardinality(Made(plan', done', Active, f))
              = added[f] + IF f = add.field THEN add.by ELSE 0
        /\ Cardinality(Made(plan', done', Holding("live"), f))
              = live[f] + IF at[r] = "live" /\ f = add.field THEN add.by ELSE 0
        /\ Cardinality(Made(plan', done', Holding("old"), f))
              = old[f] + IF at[r] = "old" /\ f = add.field THEN add.by ELSE 0
    BY <1>8, <2>1, <2>2
  <2> QED
    BY <1>10, <2>3
<1>12. Conserved'
  <2> SUFFICES ASSUME NEW f \in Fields
               PROVE  /\ rep'[f] <= old'[f]
                      /\ reported'[f] + dropped'[f] + old'[f] + live'[f]
                            <= added'[f]
    BY DEF Conserved
  <2>1. /\ rep[f] <= old[f]
        /\ reported[f] + dropped[f] + old[f] + live[f] <= added[f]
    BY DEF IInv, Conserved
  <2>2. CASE at[r] = "live"
    BY <1>10, <2>1, <2>2
  <2>3. CASE at[r] # "live"
    BY <1>10, <2>1, <2>3
  <2> QED
    BY <2>2, <2>3
<1>13. Phase'
  <2>1. \A q \in settled \cup Through : done'[q] = Len(plan'[q])
    BY <1>1, <1>3 DEF IInv, Phase, PlanInv, settled, Through, Holding
  <2> QED
    BY <1>3, <1>7, <2>1 DEF IInv, Phase
<1>14. ReadSoFar'
  BY <1>3, <1>7 DEF IInv, ReadSoFar, Total
<1>15. Past'
  BY <1>3, <1>7 DEF IInv, Past, Total
<1> QED
  BY <1>6, <1>9, <1>11, <1>12, <1>13, <1>14, <1>15 DEF IInv

LEMMA SwapStep ==
    ASSUME IInv, Swap
    PROVE  IInv'
<1>1. /\ pos = 0 /\ pos' = 1 /\ old' = live /\ live' = Empty /\ rep = Empty
      /\ at' = [r \in Requests |-> IF at[r] = "live" THEN "old" ELSE at[r]]
      /\ cut' = cut \cup {r \in Requests : at[r] = "live" /\ ~Finished(r)}
      /\ UNCHANGED <<plan, done, rep, added, reported, dropped>>
      /\ Holding("old") = {}
  BY DEF Swap, Becomes, UnderWay, IInv, Phase
<1>2. /\ Holding("old")' = Holding("live") /\ Holding("live")' = {}
      /\ Active' = Active
  BY <1>1 DEF Holding, Active, IInv, PlanInv
<1>a. Through' = Through
  BY <1>1 DEF Holding, Through, IInv, PlanInv
<1>3. PlanInv'
  BY <1>1, <1>2 DEF IInv, PlanInv
<1>4. WindowInv'
  BY <1>1, EmptyWindow DEF IInv, WindowInv
<1>5. Exact'
  BY <1>1, <1>2, EmptyWindow, NobodyMade DEF IInv, Exact
<1>6. Phase'
  <2>1. \A r \in settled' \cup Through : done[r] = Len(plan[r])
    BY <1>1 DEF settled, IInv, PlanInv, Phase, Finished
  <2>2. cut' \subseteq Active
    BY <1>1 DEF IInv, Phase, Active
  <2> QED
    BY <1>1, <1>2, <1>a, <2>1, <2>2, ReadsOrder, LenProperties DEF IInv, Phase
<1>7. ReadSoFar'
  BY <1>1 DEF ReadSoFar
<1>8. Conserved'
  BY <1>1, EmptyWindow DEF IInv, WindowInv, Windows, Conserved
<1>9. Past'
  BY <1>1, <1>a DEF IInv, Past, Total
<1> QED
  BY <1>3, <1>4, <1>5, <1>6, <1>7, <1>8, <1>9 DEF IInv

\* What is read is what the old window holds, or nothing where the settled
\* requests have added nothing.
LEMMA ReadStep ==
    ASSUME IInv, Read
    PROVE  IInv'
<1> DEFINE f == Reads[pos]
           skipped == f[1] \in Series /\ f # Count(f[1]) /\ rep[Count(f[1])] = 0
           v == IF skipped THEN 0 ELSE old[f]
<1>1. /\ pos \in 1..Len(Reads) /\ pos' = pos + 1 /\ rep' = [rep EXCEPT ![f] = v]
      /\ UNCHANGED <<plan, done, at, live, old, added, reported, dropped, cut>>
  BY DEF Read, requestVars
<1>a. settled' = settled /\ Through' = Through /\ Active' = Active
  BY <1>1 DEF settled, Through, Holding, Active
<1>2. f \in Fields /\ Len(Reads) \in Nat
  BY <1>1, ReadsOrder, LenProperties
<1>3. Total(settled, f) <= v /\ v \in Nat /\ v <= old[f]
  <2>1. /\ old[f] \in Nat /\ Total(settled, f) <= old[f]
    BY <1>2, Bracketed DEF IInv, WindowInv, Windows
  <2>2. CASE ~skipped
    BY <2>1, <2>2
  <2>3. CASE skipped
    <3> DEFINE c == Count(f[1])
    <3>1. PICK j \in 1..pos - 1 : Reads[j] = c
      BY <1>1, <2>3, ReadsOrder
    <3>2. Total(settled, c) <= rep[c]
      BY <3>1 DEF IInv, ReadSoFar
    <3>3. c \in Fields
      BY <2>3 DEF Fields
    <3>4. Total(settled, c) \in Nat
      BY <3>3, Bracketed
    <3>5. Total(settled, c) = 0
      BY <2>3, <3>2, <3>4
    <3>6. settled \subseteq Active
      BY SettledHold
    <3>7. Total(settled, f) = 0
      BY <1>2, <2>3, <3>5, <3>6, NothingSkipped DEF IInv
    <3> QED
      BY <2>1, <2>3, <3>7
  <2> QED
    BY <2>2, <2>3
<1> HIDE DEF v
<1>4. /\ rep'[f] = v /\ DOMAIN rep' = Fields
      /\ \A g \in Fields : g # f => rep'[g] = rep[g]
  BY <1>1, <1>2 DEF IInv, WindowInv, Windows
<1> HIDE DEF f
<1>5. PlanInv'
  BY <1>1 DEF IInv, PlanInv, Active
<1>6. WindowInv'
  <2>1. \A g \in Fields : rep[g] \in Nat
    BY DEF IInv, WindowInv, Windows
  <2>2. \A g \in Fields : rep'[g] \in Nat
    BY <1>3, <1>4, <2>1
  <2>3. rep' = [g \in Fields |-> rep'[g]]
    BY <1>1, <1>4 DEF IInv, WindowInv, Windows
  <2>4. rep' \in Windows
    BY <2>2, <2>3 DEF Windows
  <2> QED
    BY <1>1, <2>4 DEF IInv, WindowInv
<1>7. Exact'
  BY <1>1, <1>a DEF IInv, Exact, Holding
<1>8. Phase'
  BY <1>1, <1>2, <1>a DEF IInv, Phase, Holding
<1>9. ReadSoFar'
  <2> SUFFICES ASSUME NEW i \in 1..pos
               PROVE  Total(settled, Reads[i])' <= rep'[Reads[i]]
    BY <1>1, <1>2 DEF ReadSoFar
  <2>1. Total(settled, Reads[i])' = Total(settled, Reads[i])
    BY <1>1, <1>a DEF Total
  <2>2. CASE Reads[i] = f
    BY <1>3, <1>4, <2>1, <2>2
  <2>3. CASE Reads[i] # f
    <3>1. i \in 1..pos - 1 /\ i \in 1..Len(Reads)
      BY <1>1, <1>2, <2>3 DEF f
    <3>2. Reads[i] \in Fields
      BY <3>1, ReadsOrder
    <3> QED
      BY <1>4, <2>1, <2>3, <3>1, <3>2 DEF IInv, ReadSoFar
  <2> QED
    BY <2>2, <2>3
<1>10. Conserved'
  BY <1>1, <1>3, <1>4 DEF IInv, Conserved
<1>11. Past'
  BY <1>1, <1>a DEF IInv, Past, Total
<1> QED
  BY <1>5, <1>6, <1>7, <1>8, <1>9, <1>10, <1>11 DEF IInv

\* A finished report holds all that the requests through before the swap have
\* recorded, and nothing but what requests of its window record.
LEMMA Reported ==
    ASSUME IInv, Complete, NEW f \in Fields
    PROVE  Total(settled, f) <= rep[f] /\ rep[f] <= Total(Holding("old"), f)
<1>1. PICK i \in 1..Len(Reads) : Reads[i] = f
  BY ReadsOrder
<1>2. i \in 1..pos - 1
  BY ReadsOrder, LenProperties DEF Complete
<1>3. Total(settled, f) <= rep[f]
  BY <1>1, <1>2 DEF IInv, ReadSoFar
<1>4. /\ Total(settled, f) \in Nat /\ rep[f] \in Nat /\ old[f] \in Nat
      /\ rep[f] <= old[f] /\ old[f] <= Total(Holding("old"), f)
  BY Bracketed DEF IInv, WindowInv, Windows, Conserved
<1>5. Total(Holding("old"), f) \in Nat
  <2>1. Holding("old") \subseteq Active
    BY DEF Holding, Active
  <2> QED
    BY <2>1, TotalType DEF IInv
<1> QED
  BY <1>3, <1>4, <1>5

\* The requests that were through with the window join those before them.
LEMMA ThroughGrows ==
    ASSUME IInv, NEW f \in Fields
    PROVE  Total(Through \cup settled, f) <= Total(Through, f) + Total(settled, f)
<1> DEFINE S == Whole(plan, Through, f)
           T == Whole(plan, settled, f)
<1>1. Through \subseteq Active /\ settled \subseteq Active
  BY SettledHold DEF Through, Holding, Active
<1>2. IsFiniteSet(S) /\ IsFiniteSet(T)
  BY <1>1, HeldFinite DEF IInv
<1>3. Whole(plan, Through \cup settled, f) = S \cup T
  BY DEF Whole
<1> HIDE DEF S, T
<1>4. Cardinality(S \cup T) <= Cardinality(S) + Cardinality(T)
  BY <1>2, UnionBound
<1> QED
  BY <1>3, <1>4 DEF Total, Whole, S, T

\* Whether it is posted or dropped, the report goes into one of the sums.
LEMMA NextWindowStep ==
    ASSUME IInv, PostOk \/ PostFails
    PROVE  IInv'
<1>1. /\ Complete /\ pos' = 0 /\ old' = Empty /\ rep' = Empty
      /\ at' = [r \in Requests |-> IF at[r] = "old" THEN "gone" ELSE at[r]]
      /\ UNCHANGED <<plan, done, live, added, cut>>
      /\ \/ reported' = Plus(reported) /\ dropped' = dropped
         \/ dropped' = Plus(dropped) /\ reported' = reported
  BY DEF PostOk, PostFails, NextWindow, Becomes
<1>2. /\ Holding("old")' = {} /\ Holding("live")' = Holding("live")
      /\ Active' = Active
  BY <1>1 DEF Holding, Active, IInv, PlanInv
<1>3. Through' = Through \cup settled /\ settled' = {}
  BY <1>1 DEF Through, settled, Holding, IInv, PlanInv
<1>4. reported' \in Windows /\ dropped' \in Windows
  BY <1>1 DEF Plus, IInv, WindowInv, Windows
<1>5. ASSUME NEW f \in Fields
      PROVE  /\ reported'[f] + dropped'[f] = reported[f] + dropped[f] + rep[f]
             /\ reported[f] \in Nat /\ dropped[f] \in Nat /\ rep[f] \in Nat
             /\ reported'[f] \in Nat /\ dropped'[f] \in Nat
             /\ old[f] \in Nat /\ live[f] \in Nat /\ added[f] \in Nat
  <2>1. /\ reported[f] \in Nat /\ dropped[f] \in Nat /\ rep[f] \in Nat
        /\ old[f] \in Nat /\ live[f] \in Nat /\ added[f] \in Nat
    BY DEF IInv, WindowInv, Windows
  <2> QED
    BY <1>1, <2>1 DEF Plus
<1>6. PlanInv'
  BY <1>1, <1>2 DEF IInv, PlanInv
<1>7. WindowInv'
  BY <1>1, <1>4, EmptyWindow DEF IInv, WindowInv
<1>8. Exact'
  BY <1>1, <1>2, EmptyWindow, NobodyMade DEF IInv, Exact
<1>9. Phase'
  BY <1>1, <1>2, <1>3, ReadsOrder, LenProperties DEF IInv, Phase
<1>10. ReadSoFar'
  BY <1>1 DEF ReadSoFar
<1>11. Conserved'
  <2> SUFFICES ASSUME NEW f \in Fields
               PROVE  /\ rep'[f] <= old'[f]
                      /\ reported'[f] + dropped'[f] + old'[f] + live'[f]
                            <= added'[f]
    BY DEF Conserved
  <2>1. /\ rep'[f] = 0 /\ old'[f] = 0 /\ live'[f] = live[f] /\ added'[f] = added[f]
    BY <1>1, EmptyWindow
  <2>2. /\ rep[f] <= old[f]
        /\ reported[f] + dropped[f] + old[f] + live[f] <= added[f]
    BY DEF IInv, Conserved
  <2> QED
    BY <1>5, <2>1, <2>2
<1>12. Past'
  <2> SUFFICES ASSUME NEW f \in Fields
               PROVE  Total(Through \cup settled, f) <= reported'[f] + dropped'[f]
    BY <1>1, <1>3 DEF Past, Total
  <2>1. Total(Through, f) <= reported[f] + dropped[f]
    BY DEF IInv, Past
  <2>2. Total(settled, f) <= rep[f] /\ Total(settled, f) \in Nat
    BY <1>1, Reported, Bracketed
  <2>3. Total(Through \cup settled, f) <= Total(Through, f) + Total(settled, f)
    BY ThroughGrows
  <2>4. Total(Through, f) \in Nat /\ Total(Through \cup settled, f) \in Nat
    <3>1. Through \subseteq Active /\ Through \cup settled \subseteq Active
      BY SettledHold DEF Through, Holding, Active
    <3> QED
      BY <3>1, TotalType DEF IInv
  <2> QED
    BY <1>5, <2>1, <2>2, <2>3, <2>4
<1> QED
  BY <1>6, <1>7, <1>8, <1>9, <1>10, <1>11, <1>12 DEF IInv

LEMMA Invariant == Spec => []IInv
<1>1. IInv /\ [Next]_vars => IInv'
  <2> SUFFICES ASSUME IInv, [Next]_vars PROVE IInv'
    OBVIOUS
  <2>1. ASSUME NEW r \in Requests, Arrive(r) \/ Record(r) PROVE IInv'
    BY <2>1, ArriveStep, RecordStep
  <2>2. CASE ReporterStep
    BY <2>2, SwapStep, ReadStep, NextWindowStep
    DEF ReporterStep
  <2>3. CASE UNCHANGED vars
    <3>1. UNCHANGED <<plan, done, at, live, old, added, pos, rep, reported,
                      dropped, cut>>
      BY <2>3 DEF vars
    <3>2. /\ settled' = settled /\ Through' = Through /\ Active' = Active
          /\ Holding("live")' = Holding("live") /\ Holding("old")' = Holding("old")
      BY <3>1 DEF settled, Through, Holding, Active
    <3>3. PlanInv' /\ WindowInv' /\ Conserved'
      BY <3>1, <3>2 DEF IInv, PlanInv, WindowInv, Conserved
    <3>4. Exact' /\ Phase'
      BY <3>1, <3>2 DEF IInv, Exact, Phase
    <3>5. ReadSoFar' /\ Past'
      BY <3>1, <3>2 DEF IInv, ReadSoFar, Past, Total
    <3> QED
      BY <3>3, <3>4, <3>5 DEF IInv
  <2> QED
    BY <2>1, <2>2, <2>3 DEF Next
<1> QED
  BY <1>1, InitInv, PTL DEF Spec

\* Every variable has its type: the plans of all requests are among those the
\* handlers can go through, a snapshot reads no further than its last field,
\* and all counters are natural numbers.
THEOREM TypeCorrect == Spec => []TypeOK
<1>1. IInv => TypeOK
  <2> SUFFICES ASSUME IInv PROVE TypeOK
    OBVIOUS
  <2>1. \A r \in Requests : plan[r] \in Plans \cup {<<>>}
    BY DEF IInv, PlanInv
  <2>2. ASSUME NEW r \in Requests PROVE done[r] \in 0..Len(plan[r])
    <3>1. Len(plan[r]) \in Nat /\ Len(<<>>) = 0
      BY HeldPlans DEF IInv
    <3> QED
      BY <3>1 DEF IInv, PlanInv
  <2>3. cut \subseteq Requests /\ pos \in 0..Len(Reads) + 1
    BY DEF IInv, Phase, Active
  <2> QED
    BY <2>1, <2>2, <2>3 DEF TypeOK, IInv, PlanInv, WindowInv, Windows
<1> QED
  BY <1>1, Invariant, PTL

\* No sample is counted in two reports, or in a report and again in the next
\* window: at every moment the reports, the report in progress and the live
\* window hold no more than what was added.
THEOREM CountedOnce == Spec => []NeverCountedTwice
<1>1. IInv => NeverCountedTwice
  BY DEF IInv, WindowInv, Windows, Conserved, NeverCountedTwice
<1> QED
  BY <1>1, Invariant, PTL

\* Every report is bracketed: it holds at least what the requests through before
\* the swap have recorded, and no more than what the requests of its window do.
THEOREM ReportsBracketed == Spec => []ReportBracketed
<1>1. IInv => ReportBracketed
  BY Reported DEF ReportBracketed, Holding
<1> QED
  BY <1>1, Invariant, PTL

\* Between two reports nothing is missing from the reports and the live window
\* but samples of requests that were under way when their window was swapped out,
\* over any number of windows, posted or dropped.
THEOREM LossBounded == Spec => []OnlyCutLost
<1>1. IInv => OnlyCutLost
  <2> SUFFICES ASSUME IInv, pos = 0, NEW f \in Fields
               PROVE  added[f] <= reported[f] + dropped[f] + live[f] + Total(cut, f)
    BY DEF OnlyCutLost
  <2> DEFINE All == Made(plan, done, Active, f)
             L == Made(plan, done, Holding("live"), f)
             T == Whole(plan, Through, f)
             C == Whole(plan, cut, f)
  <2>1. /\ Through \subseteq Active /\ cut \subseteq Active
        /\ Holding("live") \subseteq Active
    BY DEF IInv, Phase, Through, Holding, Active
  <2>2. /\ IsFiniteSet(All) /\ IsFiniteSet(L) /\ IsFiniteSet(T)
        /\ IsFiniteSet(C)
    BY <2>1, HeldFinite DEF IInv
  <2>3. All \subseteq L \cup (T \cup C)
    <3>1. Active \subseteq Holding("live") \cup (Through \cup cut)
      BY DEF IInv, Phase, PlanInv, Through, Holding, Active
    <3>2. Whole(plan, Active, f)
             \subseteq Whole(plan, Holding("live"), f) \cup (T \cup C)
      BY <3>1 DEF Whole
    <3> QED
      BY <3>2 DEF Made
  <2>4. /\ added[f] = Cardinality(All) /\ live[f] = Cardinality(L)
        /\ Total(Through, f) = Cardinality(T) /\ Total(cut, f) = Cardinality(C)
    BY DEF IInv, Exact, Total, Whole
  <2>5. /\ reported[f] \in Nat /\ dropped[f] \in Nat
        /\ Total(Through, f) <= reported[f] + dropped[f]
    BY DEF IInv, WindowInv, Windows, Past
  <2> HIDE DEF All, L, T, C
  <2>6. /\ IsFiniteSet(T \cup C)
        /\ Cardinality(T \cup C) <= Cardinality(T) + Cardinality(C)
    BY <2>2, UnionBound
  <2>7. /\ IsFiniteSet(L \cup (T \cup C))
        /\ Cardinality(L \cup (T \cup C)) <= Cardinality(L) + Cardinality(T \cup C)
    BY <2>2, <2>6, UnionBound
  <2>8. Cardinality(All) <= Cardinality(L \cup (T \cup C))
    BY <2>3, <2>7, SubsetCard
  <2>9. /\ Cardinality(All) \in Nat /\ Cardinality(L) \in Nat
        /\ Cardinality(T) \in Nat /\ Cardinality(C) \in Nat
        /\ Cardinality(T \cup C) \in Nat /\ Cardinality(L \cup (T \cup C)) \in Nat
    BY <2>2, <2>6, <2>7, FS_CardinalityType
  <2> QED
    BY <2>4, <2>5, <2>6, <2>7, <2>8, <2>9
<1> QED
  BY <1>1, Invariant, PTL

-----------------------------------------------------------------------------
(* The p95 of a report *)

LEMMA CumulativeSums ==
    ASSUME NEW b \in [Buckets -> Nat]
    PROVE  /\ Cumulative(b) \in [0..Len(Boundaries) + 1 -> Nat]
           /\ Cumulative(b)[0] = 0
           /\ \A i \in Buckets : Cumulative(b)[i] = Cumulative(b)[i - 1] + b[i]
<1> DEFINE n == Len(Boundaries) + 1
           Sums(m, c) ==
               c = [i \in 0..m |-> IF i = 0 THEN 0 ELSE c[i - 1] + b[i]]
           Exists(m) == \E c \in [0..m -> Nat] : Sums(m, c)
           D == {m \in 0..n : ~Exists(m)}
<1>1. n \in Nat /\ Buckets = 1..n
  BY BoundariesType
<1>2. \A m \in 0..n : Exists(m)
  <2> HIDE DEF Exists
  <2> SUFFICES ASSUME D # {} PROVE FALSE
    OBVIOUS
  <2>1. D \in SUBSET Nat
    BY <1>1
  <2>2. PICK m \in D : \A k \in D : m <= k
    BY <2>1, LeastNumber
  <2>3. CASE m = 0
    <3> DEFINE c == [i \in 0..0 |-> 0]
    <3>1. c \in [0..0 -> Nat] /\ Sums(0, c)
      OBVIOUS
    <3>2. Exists(0)
      BY <3>1 DEF Exists
    <3> QED
      BY <2>2, <2>3, <3>2
  <2>4. CASE m # 0
    <3>1. m \in 1..n /\ m - 1 \in 0..n /\ Exists(m - 1)
      BY <1>1, <2>2, <2>4
    <3>2. PICK c \in [0..m - 1 -> Nat] : Sums(m - 1, c)
      BY <3>1 DEF Exists
    <3> DEFINE e == [i \in 0..m |-> IF i = m THEN c[m - 1] + b[m] ELSE c[i]]
    <3>3. b[m] \in Nat /\ c[m - 1] \in Nat
      BY <1>1, <3>1
    <3>4. e \in [0..m -> Nat]
      BY <3>1, <3>3
    <3>5. ASSUME NEW i \in 0..m
          PROVE  e[i] = IF i = 0 THEN 0 ELSE e[i - 1] + b[i]
      <4>1. CASE i = m
        BY <3>1, <4>1
      <4>2. CASE i # m
        <5>1. i \in 0..m - 1
          BY <3>1, <4>2
        <5>2. e[i] = c[i] /\ (i # 0 => e[i - 1] = c[i - 1])
          BY <3>1, <4>2, <5>1
        <5>3. c[i] = IF i = 0 THEN 0 ELSE c[i - 1] + b[i]
          BY <3>2, <5>1
        <5> QED
          BY <5>2, <5>3
      <4> QED
        BY <4>1, <4>2
    <3> HIDE DEF e
    <3>6. Sums(m, e)
      BY <3>4, <3>5
    <3>7. Exists(m)
      BY <3>4, <3>6 DEF Exists
    <3> QED
      BY <2>2, <3>7
  <2> QED
    BY <2>3, <2>4
<1>3. PICK c \in [0..n -> Nat] : Sums(n, c)
  <2>1. n \in 0..n
    BY <1>1
  <2> HIDE DEF n
  <2> QED
    BY <1>2, <2>1
<1> DEFINE C == Cumulative(b)
<1>4. C = CHOOSE d : d = [i \in 0..n |-> IF i = 0 THEN 0 ELSE d[i - 1] + b[i]]
  BY DEF Cumulative
<1>5. C = [i \in 0..n |-> IF i = 0 THEN 0 ELSE C[i - 1] + b[i]]
  BY <1>3, <1>4
<1> HIDE DEF C
<1>6. C[0] = 0 /\ \A i \in 1..n : C[i] = C[i - 1] + b[i]
  BY <1>1, <1>5
<1>7. \A i \in 0..n : C[i] \in Nat
  <2> DEFINE N == {i \in 0..n : C[i] \notin Nat}
  <2> SUFFICES ASSUME N # {} PROVE FALSE
    OBVIOUS
  <2>1. N \in SUBSET Nat
    BY <1>1
  <2>2. PICK i \in N : \A k \in N : i <= k
    BY <2>1, LeastNumber
  <2>3. i # 0
    BY <1>6, <2>2
  <2>4. i \in 1..n /\ i - 1 \in 0..n /\ i - 1 \notin N
    BY <1>1, <2>2, <2>3
  <2>5. C[i - 1] \in Nat /\ b[i] \in Nat
    BY <1>1, <2>4
  <2> QED
    BY <1>6, <2>2, <2>4, <2>5
<1>8. C \in [0..n -> Nat]
  BY <1>5, <1>7
<1> QED
  BY <1>1, <1>6, <1>8 DEF C

\* The rank is one of the samples, and no more than a twentieth of them and one
\* are above.
LEMMA TargetBounds ==
    ASSUME NEW n \in Nat \ {0}
    PROVE  /\ Target(n) \in 1..n
           /\ \A c \in Nat : c >= Target(n) => 20 * (n - c) < n + 20
<1> DEFINE t == (n * 95) \div 100
<1>1. t \in Nat /\ 100 * t <= 95 * n /\ 95 * n < 100 * t + 100
  BY Z3
<1> HIDE DEF t
<1>2. Target(n) = IF t = 0 THEN 1 ELSE t
  BY DEF Target, t
<1> QED
  BY <1>1, <1>2

\* Requests that are through have put each sample they counted into a bucket.
LEMMA CountedInBuckets ==
    ASSUME PlanInv, NEW rs, rs \subseteq Active, NEW s \in Series,
           NEW b \in [Buckets -> Nat],
           \A i \in Buckets : Total(rs, Bucket(s, i)) <= b[i]
    PROVE  Total(rs, Count(s)) <= Cumulative(b)[Len(Boundaries) + 1]
<1> DEFINE n == Len(Boundaries) + 1
           C == Cumulative(b)
           B(i) == Whole(plan, rs, Bucket(s, i))
           U(i) == UNION {B(j) : j \in 1..i}
           Below(i) == IsFiniteSet(U(i)) /\ Cardinality(U(i)) <= C[i]
           D == {i \in 0..n : ~Below(i)}
           W == Whole(plan, rs, Count(s))
<1>1. n \in Nat /\ Buckets = 1..n
  BY BoundariesType
<1>2. /\ C \in [0..n -> Nat] /\ C[0] = 0
      /\ \A i \in 1..n : C[i] = C[i - 1] + b[i]
  BY <1>1, CumulativeSums
<1> HIDE DEF C
<1>3. ASSUME NEW i \in 1..n
      PROVE  IsFiniteSet(B(i)) /\ Cardinality(B(i)) <= b[i]
  <2>1. IsFiniteSet(B(i))
    BY HeldFinite
  <2>2. Cardinality(B(i)) <= b[i]
    BY <1>1 DEF Total, Whole
  <2> QED
    BY <2>1, <2>2
<1> HIDE DEF B
<1>4. \A i \in 0..n : Below(i)
  <2> HIDE DEF Below
  <2> SUFFICES ASSUME D # {} PROVE FALSE
    OBVIOUS
  <2>1. D \in SUBSET Nat
    BY <1>1
  <2>2. PICK i \in D : \A k \in D : i <= k
    BY <2>1, LeastNumber
  <2>3. i # 0
    <3>1. U(0) = {}
      OBVIOUS
    <3>2. Cardinality(U(0)) = 0 /\ IsFiniteSet(U(0))
      BY <3>1, FS_EmptySet
    <3>3. Below(0)
      BY <1>2, <3>2 DEF Below
    <3> QED
      BY <2>2, <3>3
  <2>4. i \in 1..n /\ i - 1 \in 0..n /\ Below(i - 1)
    BY <1>1, <2>2, <2>3
  <2>5. U(i) = U(i - 1) \cup B(i)
    <3>1. 1..i = 1..(i - 1) \cup {i}
      BY <1>1, <2>4
    <3> QED
      BY <3>1
  <2>6. /\ IsFiniteSet(U(i - 1)) /\ Cardinality(U(i - 1)) <= C[i - 1]
        /\ IsFiniteSet(B(i)) /\ Cardinality(B(i)) <= b[i]
    BY <1>3, <2>4 DEF Below
  <2> DEFINE X == U(i - 1)
             Y == B(i)
  <2> HIDE DEF U
  <2>7. /\ IsFiniteSet(X \cup Y)
        /\ Cardinality(X \cup Y)
              = Cardinality(X) + Cardinality(Y) - Cardinality(X \cap Y)
        /\ IsFiniteSet(X \cap Y)
    BY <2>6, FS_Union, FS_Intersection
  <2>8. /\ Cardinality(X) \in Nat /\ Cardinality(Y) \in Nat
        /\ Cardinality(X \cap Y) \in Nat
    BY <2>6, <2>7, FS_CardinalityType
  <2>9. C[i - 1] \in Nat /\ b[i] \in Nat /\ C[i] = C[i - 1] + b[i]
    BY <1>1, <1>2, <2>4
  <2>10. Cardinality(X \cup Y) <= C[i]
    BY <2>6, <2>7, <2>8, <2>9
  <2>11. Below(i)
    BY <2>5, <2>7, <2>10 DEF Below
  <2> QED
    BY <2>2, <2>11
<1>5. IsFiniteSet(U(n)) /\ Cardinality(U(n)) <= C[n]
  <2>1. n \in 0..n
    BY <1>1
  <2> HIDE DEF n, U
  <2> QED
    BY <1>4, <2>1
<1>6. ASSUME NEW x \in W
      PROVE  x[1] \in rs /\ x = <<x[1], 2, 1>> /\ <<x[1], 4, 1>> \in U(n)
  <2>1. PICK r, i, k :
            /\ r \in rs /\ i \in DOMAIN plan[r] /\ k \in 1..plan[r][i].by
            /\ plan[r][i].field = Count(s) /\ x = <<r, i, k>>
    BY InWhole
  <2>2. plan[r] \in Plans
    BY <2>1 DEF PlanInv, Active
  <2>3. i \in 1..Len(plan[r]) /\ DOMAIN plan[r] = 1..Len(plan[r])
    BY <2>1, <2>2, PlanShape, LenProperties
  <2>4. Count(s) \notin PlainFields
    BY MetricsAssumption DEF PlainFields, Plain, Count
  <2>5. PICK t \in Series : Timed(plan[r], t) /\ i \in 2..4
    BY <2>1, <2>2, <2>3, <2>4, PlanShape
  <2>6. plan[r][i].field[1] = t
    BY <2>5 DEF Timed, Add, Count, Sum, Bucket
  <2>7. t = s
    BY <2>1, <2>6 DEF Count
  <2>8. i = 2 /\ plan[r][2].by = 1
    BY <2>1, <2>5 DEF Timed, Add, Count, Sum, Bucket
  <2>9. x = <<r, 2, 1>>
    BY <2>1, <2>8
  <2>10. PICK j \in Buckets : plan[r][4] = Add(Bucket(s, j), 1)
    BY <2>5, <2>7, BucketIndexType DEF Timed
  <2>11. 4 \in DOMAIN plan[r]
    <3>1. Len(plan[r]) \in Nat
      BY <2>2, PlanShape, LenProperties
    <3> QED
      BY <2>3, <2>5, <3>1 DEF Timed
  <2>12. plan[r][4].field = Bucket(s, j) /\ 1 \in 1..plan[r][4].by
    BY <2>10 DEF Add
  <2>13. <<r, 4, 1>> \in B(j)
    BY <2>1, <2>11, <2>12, InWhole DEF B
  <2> QED
    BY <1>1, <2>1, <2>9, <2>13
<1> DEFINE g == [x \in W |-> <<x[1], 4, 1>>]
<1> HIDE DEF W, U
<1>7. g \in Injection(W, U(n))
  <2>1. g \in [W -> U(n)]
    BY <1>6
  <2>2. ASSUME NEW x \in W, NEW y \in W, g[x] = g[y] PROVE x = y
    <3>1. x[1] = y[1]
      BY <2>2
    <3> QED
      BY <1>6, <3>1
  <2> QED
    BY <2>1, <2>2 DEF Injection, IsInjective
<1>8. Cardinality(W) <= Cardinality(U(n))
  <2> DEFINE T == U(n)
  <2>1. IsFiniteSet(T) /\ g \in Injection(W, T)
    BY <1>5, <1>7
  <2> HIDE DEF T, g
  <2>2. Cardinality(W) <= Cardinality(T)
    BY <2>1, FS_Injection
  <2> QED
    BY <2>2 DEF T
<1>9. IsFiniteSet(W) /\ Total(rs, Count(s)) = Cardinality(W)
  <2>1. IsFiniteSet(Whole(plan, rs, Count(s)))
    BY HeldFinite
  <2>2. W = Whole(plan, rs, Count(s))
    BY DEF W
  <2>3. Total(rs, Count(s)) = Cardinality(Whole(plan, rs, Count(s)))
    BY DEF Total, Whole
  <2> QED
    BY <2>1, <2>2, <2>3
<1>10. Cardinality(W) \in Nat /\ Cardinality(U(n)) \in Nat /\ C[n] \in Nat
  BY <1>1, <1>2, <1>5, <1>9, FS_CardinalityType
<1>11. Total(rs, Count(s)) <= C[n]
  BY <1>5, <1>8, <1>9, <1>10
<1> QED
  BY <1>11 DEF C

\* The p95 of a report is the edge of a bucket that holds a sample and has at
\* most a twentieth of the samples and one above it; the last edge stands in for
\* it only where the swap cut a request off between its count and its bucket.
THEOREM P95Sound == Spec => []P95OfSample
<1>1. IInv => P95OfSample
  <2> SUFFICES ASSUME IInv, Complete, NEW s \in Series, rep[Count(s)] > 0
               PROVE
                   LET b == [i \in Buckets |-> rep[Bucket(s, i)]]
                       total == rep[Count(s)]
                       p == P95(b, total)
                       last == Len(Boundaries)
                       underWay ==
                           \E r \in Requests : at[r] = "old" /\ r \in cut
                   IN  \/ \E i \in Buckets :
                             /\ b[i] > 0
                             /\ p = Boundaries[IF i > last THEN last ELSE i]
                             /\ 20 * (total - Cumulative(b)[i]) < total + 20
                       \/ /\ underWay /\ p = Boundaries[last]
                          /\ Cumulative(b)[last + 1] < total
    BY DEF P95OfSample
  <2> DEFINE b == [i \in Buckets |-> rep[Bucket(s, i)]]
             total == rep[Count(s)]
             last == Len(Boundaries)
             C == Cumulative(b)
             hits == {i \in Buckets : C[i] >= Target(total)}
             underWay == \E r \in Requests : at[r] = "old" /\ r \in cut
  <2>1. /\ Count(s) \in Fields /\ \A i \in Buckets : Bucket(s, i) \in Fields
        /\ last \in Nat \ {0} /\ Buckets = 1..last + 1
    BY BoundariesType DEF Fields
  <2>2. b \in [Buckets -> Nat] /\ total \in Nat \ {0}
    BY <2>1 DEF IInv, WindowInv, Windows
  <2>3. /\ C \in [0..last + 1 -> Nat] /\ C[0] = 0
        /\ \A i \in Buckets : C[i] = C[i - 1] + b[i]
    BY <2>2, CumulativeSums
  <2>4. /\ Target(total) \in 1..total
        /\ \A c \in Nat : c >= Target(total) => 20 * (total - c) < total + 20
    BY <2>2, TargetBounds
  <2>5. CASE hits # {}
    <3>1. hits \in SUBSET Nat
      BY <2>1
    <3>2. \E h \in hits : \A j \in hits : h <= j
      BY <2>5, <3>1, LeastNumber
    <3>3. PICK i \in hits :
              /\ \A j \in hits : i <= j
              /\ P95(b, total) =
                    IF i <= last THEN Boundaries[i] ELSE Boundaries[last]
      <4> DEFINE i == CHOOSE h \in hits : \A j \in hits : h <= j
      <4>1. i \in hits /\ \A j \in hits : i <= j
        BY <3>2
      <4>2. P95(b, total) = IF i <= last THEN Boundaries[i] ELSE Boundaries[last]
        BY <2>2, <2>5 DEF P95
      <4> HIDE DEF i
      <4> QED
        BY <4>1, <4>2
    <3> HIDE DEF b, total, C
    <3>4. C[i] >= Target(total) /\ C[i] \in Nat /\ i \in 1..last + 1
      BY <2>1, <2>3
    <3>5. C[i - 1] < Target(total)
      <4>1. CASE i = 1
        BY <2>3, <2>4, <4>1
      <4>2. CASE i # 1
        <5>1. i - 1 \in Buckets /\ ~(i <= i - 1)
          BY <2>1, <3>4, <4>2
        <5>2. C[i - 1] \in Nat /\ ~(C[i - 1] >= Target(total))
          BY <2>1, <2>3, <3>3, <5>1
        <5> QED
          BY <2>4, <5>2
      <4> QED
        BY <4>1, <4>2
    <3>6. b[i] > 0
      <4>1. C[i] = C[i - 1] + b[i] /\ b[i] \in Nat /\ C[i - 1] \in Nat
        BY <2>1, <2>2, <2>3, <3>4
      <4> QED
        BY <2>4, <3>4, <3>5, <4>1
    <3>7. P95(b, total) = Boundaries[IF i > last THEN last ELSE i]
      BY <2>1, <3>3, <3>4
    <3>8. 20 * (total - C[i]) < total + 20
      BY <2>4, <3>4
    <3> QED
      BY <3>6, <3>7, <3>8 DEF b, total, C
  <2>6. CASE hits = {}
    <3>1. P95(b, total) = Boundaries[last]
      BY <2>2, <2>6 DEF P95
    <3>2. C[last + 1] < Target(total) /\ C[last + 1] < total
      <4>1. last + 1 \in Buckets /\ C[last + 1] \in Nat
        BY <2>1, <2>3
      <4>2. ~(C[last + 1] >= Target(total))
        BY <2>6, <4>1
      <4> HIDE DEF C, total
      <4> QED
        BY <2>2, <2>4, <4>1, <4>2
    <3>3. underWay
      <4> SUFFICES ASSUME ~underWay PROVE FALSE
        OBVIOUS
      <4>1. settled = Holding("old") /\ settled \subseteq Active
        BY SettledHold DEF Holding
      <4>2. ASSUME NEW f \in Fields PROVE rep[f] = Total(settled, f)
        <5>1. Total(settled, f) <= rep[f] /\ rep[f] <= Total(settled, f)
          BY <4>1, Reported
        <5>2. Total(settled, f) \in Nat /\ rep[f] \in Nat
          BY Bracketed DEF IInv, WindowInv, Windows
        <5> QED
          BY <5>1, <5>2
      <4>3. \A i \in Buckets : Total(settled, Bucket(s, i)) <= b[i]
        BY <2>1, <2>2, <4>2
      <4>4. Total(settled, Count(s)) <= C[last + 1]
        BY <2>2, <4>1, <4>3, CountedInBuckets DEF IInv
      <4>5. total <= C[last + 1] /\ C[last + 1] \in Nat
        BY <2>1, <2>3, <4>2, <4>4
      <4> HIDE DEF total, C
      <4> QED
        BY <2>2, <3>2, <4>5
    <3> QED
      BY <3>1, <3>2, <3>3
  <2> QED
    BY <2>5, <2>6
<1> QED
  BY <1>1, Invariant, PTL
=============================================================================
