------------------------- MODULE ChatFrames_proofs --------------------------
(***************************************************************************)
(* The safety of the frames of a connection, for any requests, streams and *)
(* caps. WriteInv has writes not overlap, CapInv carries what a frame      *)
(* tells about the token caps to the wire, and Flow relates where a        *)
(* handler is, what it has pending and what of it is on the wire, so that  *)
(* the frames of each request form one reply.                              *)
(*                                                                         *)
(* Stream says that what is on the wire and what is pending are together   *)
(* the pieces of the lines so far, the former before the latter; ToolInv   *)
(* that toolCallOrder and toolCalls are those of the deltas so far         *)
(* (Assembled), which Accumulates carries through the deltas of one line,  *)
(* one by one.                                                             *)
(***************************************************************************)
EXTENDS ChatFrames, Counting_proofs, SequenceTheorems

IsSeq(s) == \E S : s \in Seq(S)
FramesOf(s) == {s[i] : i \in DOMAIN s}

-----------------------------------------------------------------------------
(* Lemmas about sequences whose elements have no common type *)

LEMMA Empty == IsSeq(<<>>) /\ FramesOf(<<>>) = {} /\ Len(<<>>) = 0
<1>1. <<>> \in Seq({})
  OBVIOUS
<1>2. QED
  BY <1>1 DEF IsSeq, FramesOf

LEMMA One ==
    ASSUME NEW x
    PROVE  /\ IsSeq(<<x>>) /\ FramesOf(<<x>>) = {x} /\ <<x>> # <<>>
           /\ Head(<<x>>) = x /\ Tail(<<x>>) = <<>>
<1>1. <<x>> \in Seq({x})
  OBVIOUS
<1>2. DOMAIN <<x>> = {1} /\ <<x>>[1] = x
  OBVIOUS
<1>3. FramesOf(<<x>>) = {x}
  BY <1>2 DEF FramesOf
<1>4. QED
  BY <1>1, <1>3 DEF IsSeq

LEMMA Two ==
    ASSUME NEW x, NEW y
    PROVE  /\ IsSeq(<<x, y>>) /\ FramesOf(<<x, y>>) = {x, y}
           /\ <<x, y>> # <<>> /\ Head(<<x, y>>) = x /\ Tail(<<x, y>>) = <<y>>
<1>1. <<x, y>> \in Seq({x, y})
  OBVIOUS
<1>2. DOMAIN <<x, y>> = {1, 2} /\ <<x, y>>[1] = x /\ <<x, y>>[2] = y
  OBVIOUS
<1>3. FramesOf(<<x, y>>) = {x, y}
  BY <1>2 DEF FramesOf
<1>4. QED
  BY <1>1, <1>3 DEF IsSeq

LEMMA Appended ==
    ASSUME NEW s, IsSeq(s), NEW x
    PROVE  /\ IsSeq(Append(s, x)) /\ FramesOf(Append(s, x)) = FramesOf(s) \cup {x}
           /\ Append(s, x) # <<>> /\ Last(Append(s, x)) = x
<1>1. PICK S : s \in Seq(S)
  BY DEF IsSeq
<1>2. s \in Seq(S \cup {x}) /\ Append(s, x) \in Seq(S \cup {x})
  BY <1>1
<1>3. /\ Len(s) \in Nat /\ DOMAIN s = 1..Len(s)
      /\ Len(Append(s, x)) = Len(s) + 1
      /\ DOMAIN Append(s, x) = 1..Len(s) + 1
      /\ \A i \in 1..Len(s) : Append(s, x)[i] = s[i]
      /\ Append(s, x)[Len(s) + 1] = x
  BY <1>1, <1>2
<1>4. FramesOf(Append(s, x)) = FramesOf(s) \cup {x}
  BY <1>3 DEF FramesOf
<1>5. QED
  BY <1>2, <1>3, <1>4 DEF IsSeq, Last

LEMMA Shortened ==
    ASSUME NEW s, IsSeq(s), s # <<>>
    PROVE  /\ IsSeq(Tail(s)) /\ FramesOf(Tail(s)) \subseteq FramesOf(s)
           /\ Head(s) \in FramesOf(s)
<1>1. PICK S : s \in Seq(S)
  BY DEF IsSeq
<1>2. /\ Len(s) \in Nat \ {0} /\ DOMAIN s = 1..Len(s) /\ Head(s) = s[1]
      /\ Tail(s) \in Seq(S) /\ DOMAIN Tail(s) = 1..Len(s) - 1
      /\ \A i \in 1..Len(s) - 1 : Tail(s)[i] = s[i + 1]
  BY <1>1
<1>3. Head(s) \in FramesOf(s)
  BY <1>2 DEF FramesOf
<1>4. FramesOf(Tail(s)) \subseteq FramesOf(s)
  BY <1>2 DEF FramesOf
<1>5. QED
  BY <1>2, <1>3, <1>4 DEF IsSeq

LEMMA LastIsFrame ==
    ASSUME NEW s, IsSeq(s), s # <<>>
    PROVE  Last(s) \in FramesOf(s)
<1>1. PICK S : s \in Seq(S)
  BY DEF IsSeq
<1>2. Len(s) \in Nat \ {0} /\ DOMAIN s = 1..Len(s)
  BY <1>1
<1>3. QED
  BY <1>2 DEF FramesOf, Last

-----------------------------------------------------------------------------
(* The frames that handlers send *)

AllChunks(s) == \A f \in FramesOf(s) : f.type \in ChunkTypes

Told(n) == IF Clamped(n) THEN Effective(n) ELSE 0

LEMMA FrameFields ==
    ASSUME NEW t
    PROVE  Frame(t).type = t /\ \A n : Chunk(t, n).type = t
<1> DEFINE f == Frame(t)
<1>1. DOMAIN f = {"type", "line", "tools", "max"} /\ f.type = t
  BY DEF Frame
<1>2. \A n : Chunk(t, n) = [f EXCEPT !.line = n]
  BY DEF Chunk
<1> HIDE DEF f
<1>3. \A n : Chunk(t, n).type = t
  BY <1>1, <1>2
<1>4. QED
  BY <1>1, <1>3 DEF f

LEMMA ChunksAre ==
    ASSUME NEW l, NEW n
    PROVE  LET a == Chunk("content", n)
               b == Chunk("reasoning", n)
           IN  Chunks(l, n) = IF l.content
                                THEN IF l.reasoning THEN <<a, b>> ELSE <<a>>
                                ELSE IF l.reasoning THEN <<b>> ELSE <<>>
<1> DEFINE a == Chunk("content", n)
           b == Chunk("reasoning", n)
<1> HIDE DEF a, b
<1>1. Chunks(l, n) = IF l.content
                       THEN IF l.reasoning THEN <<a, b>> ELSE <<a>>
                       ELSE IF l.reasoning THEN <<b>> ELSE <<>>
  <2>1. <<>> \o <<>> = <<>> /\ <<a>> \o <<>> = <<a>> /\ <<>> \o <<b>> = <<b>>
        /\ <<a>> \o <<b>> = <<a, b>>
    <3>1. <<a>> \in Seq({a, b}) /\ <<b>> \in Seq({a, b}) /\ <<>> \in Seq({a, b})
      BY SMT
    <3>2. <<a>> \o <<b>> = Append(<<a>>, b)
      BY <3>1, AppendIsConcat
    <3>3. Append(<<a>>, b) = <<a, b>>
      <4>1. /\ <<a, b>> \in Seq({a, b}) /\ Len(<<a, b>>) = 2
            /\ <<a, b>>[1] = a /\ <<a, b>>[2] = b
            /\ Len(<<a>>) = 1 /\ <<a>>[1] = a
        OBVIOUS
      <4>2. /\ Append(<<a>>, b) \in Seq({a, b}) /\ Len(Append(<<a>>, b)) = 2
            /\ Append(<<a>>, b)[1] = a /\ Append(<<a>>, b)[2] = b
        BY <3>1, <4>1, AppendProperties
      <4>3. \A i \in 1..2 : Append(<<a>>, b)[i] = <<a, b>>[i]
        BY <4>1, <4>2
      <4>4. QED
        BY <4>1, <4>2, <4>3, SeqEqual
    <3>4. <<>> \o <<>> = <<>> /\ <<a>> \o <<>> = <<a>> /\ <<>> \o <<b>> = <<b>>
      BY <3>1, ConcatEmptySeq
    <3>5. QED
      BY <3>2, <3>3, <3>4
  <2>2. QED
    BY <2>1 DEF Chunks, a, b
<1> QED
  BY <1>1 DEF a, b

LEMMA ChunksSent ==
    ASSUME NEW l, NEW n
    PROVE  IsSeq(Chunks(l, n)) /\ AllChunks(Chunks(l, n))
<1> DEFINE a == Chunk("content", n)
           b == Chunk("reasoning", n)
<1>1. a.type \in ChunkTypes /\ b.type \in ChunkTypes
  BY FrameFields DEF ChunkTypes
<1>2. Chunks(l, n) \in {<<>>, <<a>>, <<b>>, <<a, b>>}
  BY ChunksAre
<1> HIDE DEF a, b
<1>3. IsSeq(<<>>) /\ FramesOf(<<>>) = {}
  BY Empty
<1>4. IsSeq(<<a>>) /\ FramesOf(<<a>>) = {a}
  BY One
<1>5. IsSeq(<<b>>) /\ FramesOf(<<b>>) = {b}
  BY One
<1>6. IsSeq(<<a, b>>) /\ FramesOf(<<a, b>>) = {a, b}
  BY Two
<1>7. QED
  BY <1>1, <1>2, <1>3, <1>4, <1>5, <1>6 DEF AllChunks

-----------------------------------------------------------------------------
(* What is where, and who writes *)

Shape ==
    /\ DOMAIN pending = Writers
    /\ DOMAIN out = Requests /\ DOMAIN kind = Requests
    /\ DOMAIN max = Requests /\ DOMAIN pc = Requests
    /\ caps \in CapSets
    /\ \A g \in Writers : IsSeq(pending[g])
    /\ \A r \in Requests : IsSeq(out[r]) /\ max[r] \in Int

WriteInv ==
    /\ Shape
    /\ OneWriter
    /\ \A g \in writing : g \in Writers /\ pending[g] # <<>>
    /\ reader = "hello" => pending[Reader] = <<>>
    /\ \A r \in Requests :
          pc[r] \in {"idle", "ask"} => pending[r] = <<>> /\ out[r] = <<>>

LEMMA WriteInit == Init => WriteInv
  BY Empty, ChatAssumption DEF Init, WriteInv, Shape, OneWriter, Writers

\* A handler sends when it has nothing pending, and does nothing else that
\* others can see.
LEMMA HandlerSends ==
    ASSUME WriteInv, NEW r \in Requests, HandlerStep(r)
    PROVE  /\ UNCHANGED <<caps, alive, ping, reader, kind, max, writing, out>>
           /\ DOMAIN pc' = Requests
           /\ \A q \in Requests :
                 pc'[q] \in {"idle", "ask"} => q # r /\ pc'[q] = pc[q]
           /\ pending[r] = <<>>
           /\ UNCHANGED pending
              \/ \E fs : IsSeq(fs) /\ pending' = [pending EXCEPT ![r] = fs]
<1>1. CASE Refused(r) \/ Answered(r) \/ Benchmarked(r)
  BY <1>1, One DEF Refused, Answered, Benchmarked, Goto, Send, WriteInv, Shape
<1>2. CASE Opened(r)
  BY <1>2 DEF Opened, Goto, WriteInv, Shape
<1>3. CASE Line(r)
  <2>1. PICK l \in Lines : pending' = [pending EXCEPT ![r] = Chunks(l, Len(seen[r]) + 1)]
    BY <1>3 DEF Line, Send
  <2>2. UNCHANGED pc /\ pc[r] = "open" /\ DOMAIN pc = Requests
    BY <1>3 DEF Line, WriteInv, Shape, requestVars
  <2>3. pending[r] = <<>>
        /\ UNCHANGED <<caps, alive, ping, reader, kind, max, writing, out>>
    BY <1>3 DEF Line, requestVars
  <2>4. QED
    BY <2>1, <2>2, <2>3, ChunksSent
<1>4. CASE StreamEnds(r)
  BY <1>4, One DEF StreamEnds, Goto, Send, WriteInv, Shape
<1>5. CASE StreamBreaks(r)
  BY <1>5, Two DEF StreamBreaks, Goto, Send, WriteInv, Shape
<1>6. QED
  BY <1>1, <1>2, <1>3, <1>4, <1>5 DEF HandlerStep

LEMMA WriteNext == WriteInv /\ [Next]_vars => WriteInv'
<1> SUFFICES ASSUME WriteInv, [Next]_vars PROVE WriteInv'
  OBVIOUS
<1> USE DEF WriteInv, Shape, OneWriter
<1>1. ASSUME NEW r \in Requests, HandlerStep(r)
      PROVE  WriteInv'
  <2>1. \A g \in writing : g # r
    BY <1>1, HandlerSends
  <2>2. r # Reader /\ r \in Writers
    BY ChatAssumption DEF Writers
  <2>3. /\ UNCHANGED <<caps, alive, ping, reader, kind, max, writing, out>>
        /\ DOMAIN pc' = Requests
        /\ \A q \in Requests :
              pc'[q] \in {"idle", "ask"} => q # r /\ pc'[q] = pc[q]
        /\ UNCHANGED pending
           \/ \E fs : IsSeq(fs) /\ pending' = [pending EXCEPT ![r] = fs]
    BY <1>1, HandlerSends
  <2>4. /\ DOMAIN pending' = Writers
        /\ \A g \in Writers : IsSeq(pending'[g])
        /\ \A g \in Writers : g # r => pending'[g] = pending[g]
    BY <2>2, <2>3
  <2>5. QED
    BY <2>1, <2>2, <2>3, <2>4 DEF Writers
<1>2. ASSUME NEW r \in Requests, Receive(r)
      PROVE  WriteInv'
  <2>1. PICK k \in {"stream", "plain", "benchmark"}, n \in MaxTokens[r] :
            kind' = [kind EXCEPT ![r] = k] /\ max' = [max EXCEPT ![r] = n]
    BY <1>2 DEF Receive
  <2>2. n \in Int
    BY <2>1, ChatAssumption
  <2>3. QED
    BY <1>2, <2>1, <2>2 DEF Receive, streamVars, Goto
<1>3. ASSUME NEW g \in Writers, StartWrite(g)
      PROVE  WriteInv'
  BY <1>3 DEF StartWrite, WriteMuFree, streamVars, requestVars
<1>4. ASSUME NEW g \in Writers, EndWrite(g)
      PROVE  WriteInv'
  BY <1>4, Shortened, Appended DEF EndWrite, Written, Send, requestVars
<1>5. CASE ReaderStep
  BY <1>5, One, Empty, ChatAssumption
  DEF ReaderStep, Hello, ReadPing, ReadError, Reads, Send, requestVars,
      Writers
<1>6. CASE RouterPings \/ Drop
  BY <1>6 DEF RouterPings, Drop, requestVars
<1>7. CASE UNCHANGED vars
  BY <1>7 DEF vars
<1>8. QED
  BY <1>1, <1>2, <1>3, <1>4, <1>5, <1>6, <1>7 DEF Next

\* Frames never overlap, however many handlers and pings there are.
THEOREM WritesExclude == Spec => []OneWriter
<1>1. WriteInv => OneWriter
  BY DEF WriteInv
<1>2. QED
  BY <1>1, WriteInit, WriteNext, PTL DEF Spec

-----------------------------------------------------------------------------
(* Token caps *)

CapInv ==
    \A r \in Requests : \A f \in FramesOf(out[r]) \cup FramesOf(pending[r]) :
        f.type \in {"response", "final"} => f.max = Told(max[r])

LEMMA HandlerTells ==
    ASSUME NEW r \in Requests, HandlerStep(r), WriteInv
    PROVE  UNCHANGED pending
           \/ \A f \in FramesOf(pending'[r]) :
                 f.type \in {"response", "final"} => f.max = Told(max[r])
<1> USE DEF Send, WriteInv, Shape, Writers
<1>1. CASE Refused(r)
  BY <1>1, One, FrameFields DEF Refused
<1>2. CASE Answered(r)
  <2> DEFINE f == Ending("response", r, <<>>)
  <2>1. pending'[r] = <<f>>
    BY <1>2 DEF Answered
  <2>2. f.max = Told(max[r])
    BY DEF Ending, Told
  <2> HIDE DEF f
  <2>3. QED
    BY <2>1, <2>2, One
<1>3. CASE Benchmarked(r)
  BY <1>3, One, FrameFields DEF Benchmarked
<1>4. CASE Opened(r)
  BY <1>4 DEF Opened
<1>5. CASE Line(r)
  <2>1. PICK l \in Lines : pending' = [pending EXCEPT ![r] = Chunks(l, Len(seen[r]) + 1)]
    BY <1>5 DEF Line
  <2>2. \A f \in FramesOf(pending'[r]) : f.type \in ChunkTypes
    BY <2>1, ChunksSent DEF AllChunks
  <2>3. QED
    BY <2>2 DEF ChunkTypes
<1>6. CASE StreamEnds(r)
  <2> DEFINE f == Ending("final", r, Collected(r))
  <2>1. pending'[r] = <<f>>
    BY <1>6 DEF StreamEnds
  <2>2. f.max = Told(max[r])
    BY DEF Ending, Told
  <2> HIDE DEF f
  <2>3. QED
    BY <2>1, <2>2, One
<1>7. CASE StreamBreaks(r)
  <2> DEFINE f == Ending("final", r, Collected(r))
             e == Frame("error")
  <2>1. pending'[r] = <<f, e>>
    BY <1>7 DEF StreamBreaks
  <2>2. f.max = Told(max[r]) /\ e.type = "error"
    BY FrameFields DEF Ending, Told
  <2> HIDE DEF f, e
  <2>3. FramesOf(<<f, e>>) = {f, e}
    BY Two
  <2>4. QED
    BY <2>1, <2>2, <2>3
<1>8. QED
  BY <1>1, <1>2, <1>3, <1>4, <1>5, <1>6, <1>7 DEF HandlerStep

\* The frames in play change only at the writer, and none appears but the one
\* that is written.
LEMMA WriteMoves ==
    ASSUME WriteInv, NEW g \in Writers, EndWrite(g)
    PROVE  /\ UNCHANGED <<caps, alive, reader, kind, max, pc>>
           /\ Head(pending[g]) \in FramesOf(pending[g])
           /\ FramesOf(pending'[g]) \subseteq FramesOf(pending[g])
           /\ pending'[g] = Tail(pending[g])
           /\ \A q \in Writers : q # g => pending'[q] = pending[q]
           /\ IF alive /\ g \in Requests
                THEN /\ out'[g] = Append(out[g], Head(pending[g]))
                     /\ \A q \in Requests : q # g => out'[q] = out[q]
                ELSE UNCHANGED out
<1>1. IsSeq(pending[g]) /\ pending[g] # <<>>
  BY DEF WriteInv, Shape, EndWrite
<1>2. QED
  BY <1>1, Shortened
  DEF WriteInv, Shape, EndWrite, Written, Send, requestVars, streamVars

LEMMA CapNext == WriteInv /\ CapInv /\ [Next]_vars => CapInv'
<1> SUFFICES ASSUME WriteInv, CapInv, [Next]_vars, NEW r \in Requests,
                    NEW f \in FramesOf(out'[r]) \cup FramesOf(pending'[r]),
                    f.type \in {"response", "final"}
             PROVE  f.max = Told(max[r])'
  BY DEF CapInv
<1>1. ASSUME UNCHANGED <<caps, max>>, f \in FramesOf(out[r]) \cup FramesOf(pending[r])
      PROVE  f.max = Told(max[r])'
  BY <1>1 DEF CapInv, Told, Clamped, Effective, Ceiling
<1>2. ASSUME NEW q \in Requests, HandlerStep(q)
      PROVE  f.max = Told(max[r])'
  <2>1. /\ UNCHANGED <<caps, max, out>>
        /\ q # r => pending'[r] = pending[r]
    BY <1>2, HandlerSends DEF WriteInv, Shape, Writers
  <2>2. CASE f \in FramesOf(out[r]) \cup FramesOf(pending[r])
    BY <1>1, <2>1, <2>2
  <2>3. CASE q = r /\ f \in FramesOf(pending'[r])
    <3>1. f.max = Told(max[r])
      BY <1>2, <2>3, HandlerTells DEF CapInv
    <3>2. QED
      BY <2>1, <3>1 DEF Told, Clamped, Effective, Ceiling
  <2>4. QED
    BY <2>1, <2>2, <2>3
<1>3. ASSUME NEW q \in Requests, Receive(q)
      PROVE  f.max = Told(max[r])'
  <2>1. UNCHANGED <<caps, pending, out>> /\ q # r => UNCHANGED max[r]
    BY <1>3 DEF Receive, WriteInv, Shape
  <2>2. UNCHANGED <<caps, pending, out>>
    BY <1>3 DEF Receive
  <2>3. CASE q # r
    BY <2>1, <2>2, <2>3 DEF CapInv, Told, Clamped, Effective, Ceiling
  <2>4. CASE q = r
    <3>1. out[r] = <<>> /\ pending[r] = <<>>
      BY <1>3, <2>4 DEF Receive, Goto, WriteInv
    <3>2. QED
      BY <2>2, <3>1, Empty
  <2>5. QED
    BY <2>3, <2>4
<1>4. ASSUME NEW g \in Writers, StartWrite(g)
      PROVE  f.max = Told(max[r])'
  BY <1>1, <1>4 DEF StartWrite, requestVars
<1>5. ASSUME NEW g \in Writers, EndWrite(g)
      PROVE  f.max = Told(max[r])'
  <2>1. IsSeq(out[r]) /\ r \in Writers
    BY DEF WriteInv, Shape, Writers
  <2>2. /\ FramesOf(pending'[r]) \subseteq FramesOf(pending[r])
        /\ FramesOf(out'[r]) \subseteq FramesOf(out[r]) \cup FramesOf(pending[r])
    <3>1. CASE alive /\ g = r
      <4>1. out'[r] = Append(out[r], Head(pending[r]))
        BY <1>5, <3>1, WriteMoves
      <4>2. FramesOf(out'[r]) = FramesOf(out[r]) \cup {Head(pending[r])}
        BY <2>1, <4>1, Appended
      <4>3. QED
        BY <1>5, <3>1, <4>2, WriteMoves
    <3>2. CASE ~(alive /\ g = r)
      BY <1>5, <2>1, <3>2, WriteMoves
    <3>3. QED
      BY <3>1, <3>2
  <2>3. QED
    BY <1>1, <1>5, <2>2, WriteMoves
<1>6. CASE ReaderStep
  <2>1. UNCHANGED <<caps, max, out>> /\ pending'[r] = pending[r]
    BY <1>6, ChatAssumption
    DEF ReaderStep, Hello, ReadPing, ReadError, Send, requestVars, WriteInv,
        Shape, Writers
  <2>2. QED
    BY <1>1, <2>1
<1>7. CASE RouterPings \/ Drop \/ UNCHANGED vars
  BY <1>1, <1>7 DEF RouterPings, Drop, requestVars, vars
<1>8. QED
  BY <1>2, <1>3, <1>4, <1>5, <1>6, <1>7 DEF Next

\* No cap that is set is exceeded, and the router is told what was used just
\* when that is less than it asked for, for any caps and max_tokens.
THEOREM CapsRespected == Spec => []TokensWithinCaps
<1>1. Init => CapInv
  BY Empty, ChatAssumption DEF Init, CapInv, Writers
<1>2. WriteInv /\ CapInv => TokensWithinCaps
  <2> SUFFICES ASSUME WriteInv, CapInv, NEW r \in Requests, max[r] > 0
               PROVE  /\ \A cap \in {caps.MaxOutputLength, caps.ContextLength} :
                            cap > 0 => Effective(max[r]) <= cap
                      /\ \A k \in DOMAIN out[r] :
                            out[r][k].type \in {"response", "final"} =>
                                out[r][k].max = IF Effective(max[r]) = max[r] THEN 0
                                                ELSE Effective(max[r])
    BY DEF TokensWithinCaps
  <2>1. /\ caps.MaxOutputLength \in Nat /\ caps.ContextLength \in Nat
        /\ max[r] \in Int
    BY ChatAssumption DEF WriteInv, Shape
  <2>2. Told(max[r]) = IF Effective(max[r]) = max[r] THEN 0 ELSE Effective(max[r])
    BY <2>1 DEF Told, Clamped, Effective, Ceiling
  <2>3. \A k \in DOMAIN out[r] : out[r][k] \in FramesOf(out[r])
    BY DEF FramesOf
  <2>4. \A k \in DOMAIN out[r] :
            out[r][k].type \in {"response", "final"} => out[r][k].max = Told(max[r])
    BY <2>3 DEF CapInv
  <2>5. \A cap \in {caps.MaxOutputLength, caps.ContextLength} :
            cap > 0 => Effective(max[r]) <= cap
    BY <2>1 DEF Clamped, Effective, Ceiling
  <2>6. QED
    BY <2>2, <2>4, <2>5
<1>3. QED
  BY <1>1, <1>2, CapNext, WriteInit, WriteNext, PTL DEF Spec

-----------------------------------------------------------------------------
(* The frames of a request *)

\* What a handler that is done with the backend still owes the socket.
Due(r) ==
    \/ pending[r] = <<>>
    \/ out[r] = <<>> /\ \E f : pending[r] = <<f>> /\ f.type \in Endings
    \/ AllChunks(out[r]) /\ \E f : pending[r] = <<f>> /\ f.type = "final"
    \/ AllChunks(out[r]) /\ \E f, e :
          pending[r] = <<f, e>> /\ f.type = "final" /\ e.type = "error"
    \/ out[r] # <<>> /\ Last(out[r]).type = "final" /\ \E e :
          pending[r] = <<e>> /\ e.type = "error"

Flow(r) ==
    /\ pc[r] \in {"idle", "ask", "open", "done"}
    /\ kind[r] \in {"none", "stream", "plain", "benchmark"}
    /\ pc[r] = "idle" <=> kind[r] = "none"
    /\ pc[r] = "open" => AllChunks(out[r]) /\ AllChunks(pending[r])
    /\ pc[r] = "done" /\ alive => Due(r)

FlowInv == \A r \in Requests : Flow(r)

LEMMA HandlerFlows ==
    ASSUME WriteInv, FlowInv, NEW r \in Requests, HandlerStep(r)
    PROVE  Flow(r)'
<1> USE DEF Flow, FlowInv, WriteInv, Shape, Goto, Send, Writers
<1>0. AllChunks(<<>>)
  BY Empty DEF AllChunks
<1>1. CASE Refused(r)
  <2> DEFINE f == Frame("error")
  <2>1. f.type \in Endings
    BY FrameFields DEF Endings
  <2>2. /\ pc'[r] = "done" /\ pending'[r] = <<f>> /\ out'[r] = <<>>
        /\ UNCHANGED kind /\ kind[r] # "none"
    BY <1>1 DEF Refused
  <2> HIDE DEF f
  <2>3. Due(r)'
    BY <2>1, <2>2 DEF Due
  <2>4. QED
    BY <2>2, <2>3
<1>2. CASE Answered(r)
  <2> DEFINE f == Ending("response", r, <<>>)
  <2>1. f.type \in Endings
    BY DEF Ending, Endings
  <2>2. /\ pc'[r] = "done" /\ pending'[r] = <<f>> /\ out'[r] = <<>>
        /\ UNCHANGED kind /\ kind[r] # "none"
    BY <1>2 DEF Answered
  <2> HIDE DEF f
  <2>3. Due(r)'
    BY <2>1, <2>2 DEF Due
  <2>4. QED
    BY <2>2, <2>3
<1>3. CASE Benchmarked(r)
  <2> DEFINE f == Frame("benchmark_result")
  <2>1. f.type \in Endings
    BY FrameFields DEF Endings
  <2>2. /\ pc'[r] = "done" /\ pending'[r] = <<f>> /\ out'[r] = <<>>
        /\ UNCHANGED kind /\ kind[r] # "none"
    BY <1>3 DEF Benchmarked
  <2> HIDE DEF f
  <2>3. Due(r)'
    BY <2>1, <2>2 DEF Due
  <2>4. QED
    BY <2>2, <2>3
<1>4. CASE Opened(r)
  <2>1. /\ pc'[r] = "open" /\ pending'[r] = <<>> /\ out'[r] = <<>>
        /\ UNCHANGED kind /\ kind[r] # "none"
    BY <1>4 DEF Opened
  <2>2. QED
    BY <1>0, <2>1 DEF AllChunks
<1>5. CASE Line(r)
  <2>1. PICK l \in Lines : pending' = [pending EXCEPT ![r] = Chunks(l, Len(seen[r]) + 1)]
    BY <1>5 DEF Line
  <2>2. AllChunks(pending'[r])
    BY <2>1, ChunksSent DEF AllChunks
  <2>3. pc[r] = "open" /\ UNCHANGED <<pc, kind, out>>
    BY <1>5 DEF Line, requestVars
  <2>4. QED
    BY <2>2, <2>3 DEF AllChunks
<1>6. CASE StreamEnds(r)
  <2> DEFINE f == Ending("final", r, Collected(r))
  <2>1. f.type = "final"
    BY DEF Ending
  <2>2. /\ pc'[r] = "done" /\ pending'[r] = <<f>> /\ out'[r] = out[r]
        /\ UNCHANGED kind /\ kind[r] # "none" /\ AllChunks(out[r])
    BY <1>6 DEF StreamEnds
  <2> HIDE DEF f
  <2>3. Due(r)'
    BY <2>1, <2>2 DEF Due, AllChunks
  <2>4. QED
    BY <2>2, <2>3
<1>7. CASE StreamBreaks(r)
  <2> DEFINE f == Ending("final", r, Collected(r))
             e == Frame("error")
  <2>1. f.type = "final" /\ e.type = "error"
    BY FrameFields DEF Ending
  <2>2. /\ pc'[r] = "done" /\ pending'[r] = <<f, e>> /\ out'[r] = out[r]
        /\ UNCHANGED kind /\ kind[r] # "none" /\ AllChunks(out[r])
    BY <1>7 DEF StreamBreaks
  <2> HIDE DEF f, e
  <2>3. Due(r)'
    BY <2>1, <2>2 DEF Due, AllChunks
  <2>4. QED
    BY <2>2, <2>3
<1>8. QED
  BY <1>1, <1>2, <1>3, <1>4, <1>5, <1>6, <1>7 DEF HandlerStep

\* Which frame a handler writes next, while the socket is open, and what has
\* come before it.
NextFrame(r, f) ==
    \/ f.type \in ChunkTypes /\ AllChunks(out[r])
    \/ f.type \in Endings /\ out[r] = <<>>
    \/ f.type = "final" /\ AllChunks(out[r])
    \/ f.type = "error" /\ out[r] # <<>> /\ Last(out[r]).type = "final"

LEMMA WriteFlows ==
    ASSUME WriteInv, FlowInv, NEW r \in Requests, EndWrite(r)
    PROVE  Flow(r)' /\ (alive => NextFrame(r, Head(pending[r])))
<1> DEFINE f == Head(pending[r])
<1>1. /\ UNCHANGED <<kind, pc, alive>>
      /\ pending'[r] = Tail(pending[r])
      /\ FramesOf(pending'[r]) \subseteq FramesOf(pending[r])
      /\ f \in FramesOf(pending[r])
      /\ IF alive THEN out'[r] = Append(out[r], f) ELSE out'[r] = out[r]
  BY WriteMoves DEF Writers
<1>2. pending[r] # <<>> /\ pc[r] \notin {"idle", "ask"} /\ IsSeq(out[r])
  BY DEF EndWrite, WriteInv, Shape
<1>3. /\ IsSeq(Append(out[r], f)) /\ Append(out[r], f) # <<>>
      /\ Last(Append(out[r], f)) = f
      /\ FramesOf(Append(out[r], f)) = FramesOf(out[r]) \cup {f}
  BY <1>2, Appended
<1>4. CASE pc[r] = "open"
  <2>1. AllChunks(out[r]) /\ AllChunks(pending[r])
    BY <1>4 DEF FlowInv, Flow
  <2>2. AllChunks(pending'[r]) /\ AllChunks(out'[r]) /\ f.type \in ChunkTypes
    BY <1>1, <1>3, <2>1 DEF AllChunks
  <2>3. QED
    BY <1>1, <1>4, <2>1, <2>2 DEF FlowInv, Flow, NextFrame, AllChunks
<1>5. CASE pc[r] = "done" /\ ~alive
  BY <1>1, <1>5 DEF FlowInv, Flow
<1>6. CASE pc[r] = "done" /\ alive
  <2>1. Due(r)
    BY <1>6 DEF FlowInv, Flow
  <2>2. CASE out[r] = <<>> /\ \E x : pending[r] = <<x>> /\ x.type \in Endings
    <3>1. f.type \in Endings /\ Tail(pending[r]) = <<>>
      BY <2>2, One
    <3>2. Due(r)'
      BY <1>1, <3>1 DEF Due
    <3>3. QED
      BY <1>1, <1>6, <2>2, <3>1, <3>2 DEF FlowInv, Flow, NextFrame
  <2>3. CASE AllChunks(out[r]) /\ \E x : pending[r] = <<x>> /\ x.type = "final"
    <3>1. f.type = "final" /\ Tail(pending[r]) = <<>>
      BY <2>3, One
    <3>2. Due(r)'
      BY <1>1, <3>1 DEF Due
    <3>3. QED
      BY <1>1, <1>6, <2>3, <3>1, <3>2 DEF FlowInv, Flow, NextFrame
  <2>4. CASE AllChunks(out[r]) /\ \E x, y :
               pending[r] = <<x, y>> /\ x.type = "final" /\ y.type = "error"
    <3>1. PICK x, y : pending[r] = <<x, y>> /\ x.type = "final" /\ y.type = "error"
      BY <2>4
    <3>2. f = x /\ Tail(pending[r]) = <<y>>
      BY <3>1, Two
    <3>3. Due(r)'
      BY <1>1, <1>3, <1>6, <3>1, <3>2 DEF Due
    <3>4. QED
      BY <1>1, <1>6, <2>4, <3>1, <3>2, <3>3 DEF FlowInv, Flow, NextFrame
  <2>5. CASE out[r] # <<>> /\ Last(out[r]).type = "final" /\ \E x :
               pending[r] = <<x>> /\ x.type = "error"
    <3>1. f.type = "error" /\ Tail(pending[r]) = <<>>
      BY <2>5, One
    <3>2. Due(r)'
      BY <1>1, <3>1 DEF Due
    <3>3. QED
      BY <1>1, <1>6, <2>5, <3>1, <3>2 DEF FlowInv, Flow, NextFrame
  <2>6. QED
    BY <1>2, <2>1, <2>2, <2>3, <2>4, <2>5 DEF Due
<1>7. QED
  BY <1>2, <1>4, <1>5, <1>6 DEF FlowInv, Flow

LEMMA FlowNext == WriteInv /\ FlowInv /\ [Next]_vars => FlowInv'
<1> SUFFICES ASSUME WriteInv, FlowInv, [Next]_vars, NEW r \in Requests
             PROVE  Flow(r)'
  BY DEF FlowInv
<1>1. ASSUME /\ pc'[r] = pc[r] /\ kind'[r] = kind[r] /\ out'[r] = out[r]
             /\ pending'[r] = pending[r]
             /\ alive' => alive
      PROVE  Flow(r)'
  BY <1>1 DEF FlowInv, Flow, Due, AllChunks
<1>2. ASSUME NEW q \in Requests, HandlerStep(q)
      PROVE  Flow(r)'
  <2>1. CASE q = r
    BY <1>2, <2>1, HandlerFlows
  <2>2. CASE q # r
    <3>1. /\ UNCHANGED <<kind, out, alive>>
          /\ pending'[r] = pending[r]
      BY <1>2, <2>2, HandlerSends DEF WriteInv, Shape, Writers
    <3>2. pc'[r] = pc[r]
      BY <1>2, <2>2
      DEF HandlerStep, Refused, Answered, Benchmarked, Opened, Line, StreamEnds,
          StreamBreaks, Goto, requestVars, WriteInv, Shape
    <3>3. QED
      BY <1>1, <3>1, <3>2
  <2>3. QED
    BY <2>1, <2>2
<1>3. ASSUME NEW q \in Requests, Receive(q)
      PROVE  Flow(r)'
  <2>1. /\ UNCHANGED <<pending, out, alive>>
        /\ q # r => pc'[r] = pc[r] /\ kind'[r] = kind[r]
    BY <1>3 DEF Receive, Goto, WriteInv, Shape
  <2>2. q = r => pc'[r] = "ask" /\ kind'[r] \in {"stream", "plain", "benchmark"}
    BY <1>3 DEF Receive, Goto, WriteInv, Shape
  <2>3. QED
    BY <1>1, <2>1, <2>2 DEF Flow
<1>4. ASSUME NEW g \in Writers, StartWrite(g)
      PROVE  Flow(r)'
  BY <1>1, <1>4 DEF StartWrite, requestVars
<1>5. ASSUME NEW g \in Writers, EndWrite(g)
      PROVE  Flow(r)'
  <2>1. CASE g = r
    BY <1>5, <2>1, WriteFlows
  <2>2. CASE g # r
    BY <1>1, <1>5, <2>2, WriteMoves DEF Writers
  <2>3. QED
    BY <2>1, <2>2
<1>6. CASE ReaderStep
  <2>1. UNCHANGED <<pc, kind, out, alive>> /\ pending'[r] = pending[r]
    BY <1>6, ChatAssumption
    DEF ReaderStep, Hello, ReadPing, ReadError, Send, requestVars, WriteInv,
        Shape, Writers
  <2>2. QED
    BY <1>1, <2>1
<1>7. CASE RouterPings \/ Drop \/ UNCHANGED vars
  BY <1>1, <1>7 DEF RouterPings, Drop, requestVars, vars
<1>8. QED
  BY <1>2, <1>3, <1>4, <1>5, <1>6, <1>7 DEF Next

-----------------------------------------------------------------------------
(* The refinement *)

replies == [r \in Requests |-> ReplyOf(r)]

LEMMA ReplyMoves ==
    ASSUME WriteInv, FlowInv, NEW r \in Requests, EndWrite(r), alive
    PROVE  \/ ReplyOf(r)' = ReplyOf(r)
           \/ ReplyOf(r) = "owed" /\ ReplyOf(r)' \in {"begun", "complete", "ended"}
           \/ ReplyOf(r) = "begun" /\ ReplyOf(r)' = "complete"
           \/ ReplyOf(r) = "complete" /\ ReplyOf(r)' = "ended"
<1> DEFINE f == Head(pending[r])
<1>1. out'[r] = Append(out[r], f) /\ UNCHANGED kind
  BY WriteMoves DEF Writers
<1>2. kind[r] # "none" /\ IsSeq(out[r])
  BY DEF EndWrite, WriteInv, Shape, FlowInv, Flow
<1>3. out'[r] # <<>> /\ Last(out[r])' = f
  BY <1>1, <1>2, Appended DEF Last
<1>4. NextFrame(r, f)
  BY WriteFlows
<1> HIDE DEF f
<1>5. AllChunks(out[r]) => out[r] = <<>> \/ Last(out[r]).type \in ChunkTypes
  BY <1>2, LastIsFrame DEF AllChunks
<1>6. ReplyOf(r)' = CASE f.type \in {"content", "reasoning"} -> "begun"
                      [] f.type = "final" -> "complete"
                      [] OTHER -> "ended"
  BY <1>1, <1>2, <1>3 DEF ReplyOf
<1>7. CASE out[r] = <<>>
  <2>1. ReplyOf(r) = "owed"
    BY <1>2, <1>7 DEF ReplyOf
  <2>2. QED
    BY <1>6, <2>1
<1>8. CASE out[r] # <<>> /\ Last(out[r]).type \in ChunkTypes
  <2>1. ReplyOf(r) = "begun"
    BY <1>2, <1>8 DEF ReplyOf, ChunkTypes
  <2>2. f.type \in ChunkTypes \/ f.type = "final"
    BY <1>4, <1>8 DEF NextFrame, ChunkTypes
  <2>3. QED
    BY <1>6, <2>1, <2>2 DEF ChunkTypes
<1>9. CASE out[r] # <<>> /\ Last(out[r]).type = "final"
  <2>1. ReplyOf(r) = "complete"
    BY <1>2, <1>9 DEF ReplyOf
  <2>2. f.type = "error"
    BY <1>4, <1>5, <1>9 DEF NextFrame, ChunkTypes
  <2>3. QED
    BY <1>6, <2>1, <2>2
<1>10. QED
  BY <1>4, <1>5, <1>7, <1>8, <1>9 DEF NextFrame

\* Every step that writes a frame of a request is a step of Reply, and every
\* other one is none, whatever the other requests and the read loop do.
THEOREM RepliesSound == Spec => R!SafeSpec
<1>1. Init => FlowInv
  BY Empty DEF Init, FlowInv, Flow, AllChunks
<1>2. Init => R!Init
  BY DEF Init, R!Init, ReplyOf
<1>3. WriteInv /\ FlowInv /\ [Next]_vars => [R!Next]_<<alive, replies>>
  <2> SUFFICES ASSUME WriteInv, FlowInv, [Next]_vars
               PROVE  R!Next \/ (UNCHANGED alive /\ UNCHANGED replies)
    OBVIOUS
  <2>1. ASSUME \A r \in Requests : ReplyOf(r)' = ReplyOf(r)
        PROVE  UNCHANGED replies
    BY <2>1 DEF replies
  <2>2. ASSUME NEW r \in Requests,
               \A q \in Requests : q # r => ReplyOf(q)' = ReplyOf(q)
        PROVE  replies' = [replies EXCEPT ![r] = ReplyOf(r)']
    BY <2>2 DEF replies
  <2>3. ASSUME UNCHANGED <<kind, out>>
        PROVE  \A r \in Requests : ReplyOf(r)' = ReplyOf(r)
    BY <2>3 DEF ReplyOf, Last
  <2>4. ASSUME NEW r \in Requests, HandlerStep(r)
        PROVE  UNCHANGED alive /\ UNCHANGED replies
    BY <2>1, <2>3, <2>4, HandlerSends
  <2>5. ASSUME NEW r \in Requests, Receive(r)
        PROVE  R!Ask(r)
    <3>1. UNCHANGED <<alive, out>> /\ alive /\ out[r] = <<>> /\ kind[r] = "none"
      BY <2>5 DEF Receive, Reads, Goto, WriteInv
    <3>2. kind'[r] # "none" /\ \A q \in Requests : q # r => kind'[q] = kind[q]
      BY <2>5 DEF Receive, WriteInv, Shape
    <3>3. ReplyOf(r) = "none" /\ ReplyOf(r)' = "owed"
      BY <3>1, <3>2 DEF ReplyOf
    <3>4. \A q \in Requests : q # r => ReplyOf(q)' = ReplyOf(q)
      BY <3>1, <3>2 DEF ReplyOf, Last
    <3>5. replies' = [replies EXCEPT ![r] = "owed"] /\ replies[r] = "none"
      BY <2>2, <3>3, <3>4 DEF replies
    <3>6. QED
      BY <3>1, <3>5 DEF R!Ask, R!Becomes, replies
  <2>6. ASSUME NEW g \in Writers, StartWrite(g)
        PROVE  UNCHANGED alive /\ UNCHANGED replies
    BY <2>1, <2>3, <2>6 DEF StartWrite, requestVars
  <2>7. ASSUME NEW g \in Writers, EndWrite(g)
        PROVE  R!Next \/ (UNCHANGED alive /\ UNCHANGED replies)
    <3>1. UNCHANGED alive /\ UNCHANGED kind
      BY <2>7, WriteMoves
    <3>2. CASE ~(alive /\ g \in Requests)
      BY <2>1, <2>3, <2>7, <3>1, <3>2, WriteMoves
    <3>3. CASE alive /\ g \in Requests
      <4>1. \A q \in Requests : q # g => ReplyOf(q)' = ReplyOf(q)
        BY <2>7, <3>1, <3>3, WriteMoves DEF ReplyOf, Last
      <4>2. replies' = [replies EXCEPT ![g] = ReplyOf(g)'] /\ replies[g] = ReplyOf(g)
        BY <2>2, <3>3, <4>1 DEF replies
      <4>3. CASE ReplyOf(g)' = ReplyOf(g)
        BY <2>1, <3>1, <4>1, <4>3
      <4>4. CASE ReplyOf(g) = "owed" /\ ReplyOf(g)' \in {"begun", "complete", "ended"}
        BY <3>1, <3>3, <4>2, <4>4
        DEF R!Next, R!Begin, R!Complete, R!End, R!Becomes, replies
      <4>5. CASE ReplyOf(g) = "begun" /\ ReplyOf(g)' = "complete"
        BY <3>1, <3>3, <4>2, <4>5 DEF R!Next, R!Complete, R!Becomes, replies
      <4>6. CASE ReplyOf(g) = "complete" /\ ReplyOf(g)' = "ended"
        BY <3>1, <3>3, <4>2, <4>6 DEF R!Next, R!TakeBack, R!Becomes, replies
      <4>7. QED
        BY <2>7, <3>3, <4>3, <4>4, <4>5, <4>6, ReplyMoves
    <3>4. QED
      BY <3>2, <3>3
  <2>8. CASE ReaderStep \/ RouterPings \/ UNCHANGED vars
    <3>1. UNCHANGED <<kind, out, alive>>
      BY <2>8
      DEF ReaderStep, Hello, ReadPing, ReadError, RouterPings, requestVars, vars
    <3>2. QED
      BY <2>1, <2>3, <3>1
  <2>9. CASE Drop
    <3>1. UNCHANGED <<kind, out>> /\ alive /\ ~alive'
      BY <2>9 DEF Drop, requestVars
    <3>2. QED
      BY <2>1, <2>3, <2>9, <3>1 DEF Drop, R!Next, R!Drop, replies
  <2>10. QED
    BY <2>4, <2>5, <2>6, <2>7, <2>8, <2>9 DEF Next, R!Next
<1>4. QED
  BY <1>1, <1>2, <1>3, FlowNext, WriteInit, WriteNext, PTL
  DEF Spec, R!SafeSpec, replies

-----------------------------------------------------------------------------
(* The pieces that frames carry *)

LEMMA Positions ==
    ASSUME NEW s, IsSeq(s)
    PROVE  /\ Len(s) \in Nat /\ DOMAIN s = 1..Len(s)
           /\ \A x : /\ DOMAIN Append(s, x) = 1..Len(s) + 1
                     /\ \A i \in 1..Len(s) : Append(s, x)[i] = s[i]
                     /\ Append(s, x)[Len(s) + 1] = x
           /\ s # <<>> =>
                 /\ Len(s) > 0 /\ Head(s) = s[1] /\ DOMAIN Tail(s) = 1..Len(s) - 1
                 /\ \A i \in 1..Len(s) - 1 : Tail(s)[i] = s[i + 1]
<1>1. PICK S : s \in Seq(S)
  BY DEF IsSeq
<1>2. ASSUME NEW x
      PROVE  /\ DOMAIN Append(s, x) = 1..Len(s) + 1
             /\ \A i \in 1..Len(s) : Append(s, x)[i] = s[i]
             /\ Append(s, x)[Len(s) + 1] = x
  <2>1. s \in Seq(S \cup {x})
    BY <1>1
  <2> QED
    BY <2>1
<1> QED
  BY <1>1, <1>2

LEMMA PiecesAppended ==
    ASSUME NEW s, IsSeq(s), NEW f
    PROVE  /\ PiecesOf(Append(s, f)) =
                 PiecesOf(s) \cup IF f.type \in ChunkTypes THEN {Piece(f)} ELSE {}
           /\ InOrder(s)
              /\ (f.type \in ChunkTypes => \A p \in PiecesOf(s) : Earlier(p, Piece(f)))
              => InOrder(Append(s, f))
<1> DEFINE n == Len(s) + 1
           t == Append(s, f)
<1>1. /\ Len(s) \in Nat /\ DOMAIN s = 1..Len(s) /\ DOMAIN t = 1..n
      /\ \A i \in 1..Len(s) : t[i] = s[i]
      /\ t[n] = f
  BY Positions
<1> HIDE DEF t
<1>2. ChunksOf(t) = ChunksOf(s) \cup IF f.type \in ChunkTypes THEN {n} ELSE {}
  <2>1. ASSUME NEW i \in 1..n
        PROVE  i \in ChunksOf(t) <=>
                  i \in ChunksOf(s) \/ (i = n /\ f.type \in ChunkTypes)
    BY <1>1 DEF ChunksOf
  <2>2. ChunksOf(t) \subseteq 1..n /\ ChunksOf(s) \subseteq 1..n /\ n \in 1..n
    BY <1>1 DEF ChunksOf
  <2> QED
    BY <2>1, <2>2
<1>3. \A i \in ChunksOf(s) : i \in 1..Len(s) /\ t[i] = s[i]
  BY <1>1 DEF ChunksOf
<1>4. PiecesOf(t) = PiecesOf(s) \cup IF f.type \in ChunkTypes THEN {Piece(f)} ELSE {}
  BY <1>1, <1>2, <1>3 DEF PiecesOf
<1>5. ASSUME InOrder(s),
             f.type \in ChunkTypes => \A p \in PiecesOf(s) : Earlier(p, Piece(f)),
             NEW i \in ChunksOf(t), NEW j \in ChunksOf(t), i < j
      PROVE  Earlier(Piece(t[i]), Piece(t[j]))
  <2>1. i \in ChunksOf(s)
    BY <1>1, <1>2, <1>3, <1>5
  <2>2. CASE j \in ChunksOf(s)
    BY <1>3, <1>5, <2>1, <2>2 DEF InOrder
  <2>3. CASE j = n /\ f.type \in ChunkTypes
    <3>1. Piece(s[i]) \in PiecesOf(s)
      BY <2>1 DEF PiecesOf
    <3> QED
      BY <1>1, <1>3, <1>5, <2>1, <2>3, <3>1
  <2> QED
    BY <1>2, <2>2, <2>3
<1>6. InOrder(s)
      /\ (f.type \in ChunkTypes => \A p \in PiecesOf(s) : Earlier(p, Piece(f)))
      => InOrder(t)
  BY <1>5 DEF InOrder
<1> QED
  BY <1>4, <1>6 DEF t

LEMMA PiecesShortened ==
    ASSUME NEW s, IsSeq(s), s # <<>>
    PROVE  /\ PiecesOf(s) = PiecesOf(Tail(s)) \cup
                  IF Head(s).type \in ChunkTypes THEN {Piece(Head(s))} ELSE {}
           /\ InOrder(s) =>
                 /\ InOrder(Tail(s))
                 /\ Head(s).type \in ChunkTypes =>
                       \A p \in PiecesOf(Tail(s)) : Earlier(Piece(Head(s)), p)
<1> DEFINE n == Len(s)
           t == Tail(s)
<1>1. /\ n \in Nat /\ n > 0 /\ DOMAIN s = 1..n /\ DOMAIN t = 1..n - 1
      /\ Head(s) = s[1] /\ \A i \in 1..n - 1 : t[i] = s[i + 1]
  BY Positions
<1> HIDE DEF t, n
<1>2. \A i \in ChunksOf(t) : i + 1 \in ChunksOf(s) /\ t[i] = s[i + 1] /\ i \in Nat
  BY <1>1 DEF ChunksOf
<1>3. \A i \in ChunksOf(s) :
          i = 1 \/ (i - 1 \in ChunksOf(t) /\ t[i - 1] = s[i])
  <2> SUFFICES ASSUME NEW i \in ChunksOf(s), i # 1
               PROVE  i - 1 \in ChunksOf(t) /\ t[i - 1] = s[i]
    OBVIOUS
  <2>1. i \in 1..n /\ i - 1 \in 1..n - 1 /\ i - 1 + 1 = i
    BY <1>1 DEF ChunksOf
  <2>2. t[i - 1] = s[i]
    BY <1>1, <2>1
  <2> QED
    BY <1>1, <2>1, <2>2 DEF ChunksOf
<1>4. 1 \in ChunksOf(s) <=> Head(s).type \in ChunkTypes
  BY <1>1 DEF ChunksOf
<1>5. PiecesOf(s) =
          PiecesOf(t) \cup IF Head(s).type \in ChunkTypes THEN {Piece(Head(s))} ELSE {}
  BY <1>1, <1>2, <1>3, <1>4 DEF PiecesOf
<1>6. ASSUME InOrder(s), NEW i \in ChunksOf(t), NEW j \in ChunksOf(t), i < j
      PROVE  Earlier(Piece(t[i]), Piece(t[j]))
  <2>1. i + 1 \in ChunksOf(s) /\ j + 1 \in ChunksOf(s) /\ i + 1 < j + 1
    BY <1>2, <1>6
  <2> QED
    BY <1>2, <1>6, <2>1 DEF InOrder
<1>7. ASSUME InOrder(s), Head(s).type \in ChunkTypes, NEW p \in PiecesOf(t)
      PROVE  Earlier(Piece(Head(s)), p)
  <2>1. PICK i \in ChunksOf(t) : p = Piece(t[i])
    BY DEF PiecesOf
  <2>2. 1 \in ChunksOf(s) /\ i + 1 \in ChunksOf(s) /\ t[i] = s[i + 1] /\ 1 < i + 1
    <3>1. i \in 1..n - 1
      BY <1>1 DEF ChunksOf
    <3> QED
      BY <1>1, <1>2, <1>4, <1>7, <3>1
  <2> QED
    BY <1>1, <1>7, <2>1, <2>2 DEF InOrder
<1> QED
  BY <1>5, <1>6, <1>7 DEF InOrder, t

LEMMA NoPieces ==
    ASSUME NEW s, \A f \in FramesOf(s) : f.type \notin ChunkTypes
    PROVE  PiecesOf(s) = {} /\ InOrder(s)
<1>1. ChunksOf(s) = {}
  BY DEF ChunksOf, FramesOf
<1> QED
  BY <1>1 DEF PiecesOf, InOrder

\* The frames of a line carry what the line holds, content first.
LEMMA LinePieces ==
    ASSUME NEW l \in Lines, NEW n
    PROVE  /\ PiecesOf(Chunks(l, n)) =
                 {<<n, t>> : t \in {u \in ChunkTypes : Holds(l, u)}}
           /\ InOrder(Chunks(l, n))
<1> DEFINE a == Chunk("content", n)
           b == Chunk("reasoning", n)
           c == <<n, "content">>
           d == <<n, "reasoning">>
<1>1. /\ a.type = "content" /\ b.type = "reasoning"
      /\ Piece(a) = c /\ Piece(b) = d
  <2>1. a.line = n /\ b.line = n
    BY DEF Chunk, Frame
  <2> QED
    BY <2>1, FrameFields DEF Piece
<1>2. l.content \in BOOLEAN /\ l.reasoning \in BOOLEAN
  BY ChatAssumption
<1>3. {<<n, t>> : t \in {u \in ChunkTypes : Holds(l, u)}} =
          (IF l.content THEN {c} ELSE {}) \cup (IF l.reasoning THEN {d} ELSE {})
  BY <1>2 DEF ChunkTypes, Holds
<1>4. Earlier(c, d)
  BY DEF Earlier
<1> HIDE DEF a, b, c, d
<1>5. PiecesOf(<<>>) = {} /\ InOrder(<<>>) /\ IsSeq(<<>>)
  BY Empty, NoPieces
<1>6. ASSUME NEW f, f.type \in ChunkTypes
      PROVE  PiecesOf(<<f>>) = {Piece(f)} /\ InOrder(<<f>>) /\ IsSeq(<<f>>)
  <2>1. DOMAIN <<f>> = {1} /\ <<f>>[1] = f
    OBVIOUS
  <2>2. ChunksOf(<<f>>) = {1}
    BY <1>6, <2>1 DEF ChunksOf
  <2> QED
    BY <2>1, <2>2, One DEF PiecesOf, InOrder
<1>7. PiecesOf(<<a, b>>) = {c, d} /\ InOrder(<<a, b>>)
  <2>1. DOMAIN <<a, b>> = {1, 2} /\ <<a, b>>[1] = a /\ <<a, b>>[2] = b
    OBVIOUS
  <2>2. ChunksOf(<<a, b>>) = {1, 2}
    BY <1>1, <2>1 DEF ChunksOf, ChunkTypes
  <2> QED
    BY <1>1, <1>4, <2>1, <2>2 DEF PiecesOf, InOrder
<1>8. Chunks(l, n) = IF l.content
                       THEN IF l.reasoning THEN <<a, b>> ELSE <<a>>
                       ELSE IF l.reasoning THEN <<b>> ELSE <<>>
  BY ChunksAre DEF a, b
<1> QED
  BY <1>1, <1>2, <1>3, <1>5, <1>6, <1>7, <1>8 DEF ChunkTypes

\* A further line adds its pieces, and none of an earlier line.
LEMMA PiecesGrow ==
    ASSUME NEW lines \in Seq(Lines), NEW l \in Lines
    PROVE  LET n == Len(lines) + 1 IN
           /\ Pieces(Append(lines, l)) =
                 Pieces(lines) \cup {<<n, t>> : t \in {u \in ChunkTypes : Holds(l, u)}}
           /\ \A p \in Pieces(lines) : p[1] \in 1..Len(lines)
<1> DEFINE n == Len(lines) + 1
           more == Append(lines, l)
<1>1. /\ Len(lines) \in Nat /\ DOMAIN lines = 1..Len(lines)
      /\ DOMAIN more = 1..n /\ more[n] = l
      /\ \A i \in 1..Len(lines) : more[i] = lines[i]
  OBVIOUS
<1> HIDE DEF more
<1>2. \A i \in 1..n : i \in 1..Len(lines) \/ i = n
  BY <1>1
<1>3. \A i \in 1..n, t \in ChunkTypes :
          <<i, t>> \in Pieces(more) <=>
             <<i, t>> \in Pieces(lines) \/ (i = n /\ Holds(l, t))
  BY <1>1, <1>2 DEF Pieces
<1>4. Pieces(more) \subseteq (1..n) \X ChunkTypes
      /\ Pieces(lines) \subseteq (1..n) \X ChunkTypes
      /\ \A p \in Pieces(lines) : p[1] \in 1..Len(lines)
  BY <1>1 DEF Pieces
<1>5. {<<n, t>> : t \in {u \in ChunkTypes : Holds(l, u)}} \subseteq (1..n) \X ChunkTypes
  BY <1>1
<1>6. \A i \in 1..n, t \in ChunkTypes :
          <<i, t>> \in {<<n, v>> : v \in {u \in ChunkTypes : Holds(l, u)}}
          <=> i = n /\ Holds(l, t)
  OBVIOUS
<1>7. \A p \in (1..n) \X ChunkTypes :
          p \in Pieces(more) <=>
             \/ p \in Pieces(lines)
             \/ p \in {<<n, v>> : v \in {u \in ChunkTypes : Holds(l, u)}}
  BY <1>3, <1>6
<1> QED
  BY <1>4, <1>5, <1>7 DEF more

-----------------------------------------------------------------------------
(* What the router has of a stream, and what is about to be sent *)

Stream(r) ==
    /\ PiecesOf(out[r]) \cup PiecesOf(pending[r]) = Pieces(seen[r])
    /\ InOrder(out[r]) /\ InOrder(pending[r])
    /\ \A p \in PiecesOf(out[r]), q \in PiecesOf(pending[r]) : Earlier(p, q)
    /\ AllChunks(out[r]) \/ Last(out[r]).type \in Endings

SeenInv ==
    /\ DOMAIN seen = Requests
    /\ \A r \in Requests :
          seen[r] \in Seq(Lines) /\ Len(seen[r]) <= MaxLines[r]

StreamInv == alive => \A r \in Requests : Stream(r)

\* But for its lines, a handler sends endings only, and a final frame has the
\* tool calls of the lines so far.
LEMMA HandlerEnds ==
    ASSUME WriteInv, NEW r \in Requests, HandlerStep(r), ~Line(r)
    PROVE  /\ UNCHANGED streamVars
           /\ \A f \in FramesOf(pending'[r]) :
                 /\ f.type \in Endings
                 /\ f.type = "final" => f.tools = Collected(r)
<1> USE DEF Send, WriteInv, Shape, Writers
<1>0. \A t \in {"error", "benchmark_result"} :
          Frame(t).type \in Endings /\ Frame(t).type # "final"
  BY FrameFields DEF Endings
<1>1. CASE Refused(r)
  BY <1>0, <1>1, One DEF Refused
<1>2. CASE Answered(r)
  <2> DEFINE f == Ending("response", r, <<>>)
  <2>1. pending'[r] = <<f>> /\ UNCHANGED streamVars
    BY <1>2 DEF Answered
  <2>2. f.type = "response"
    BY DEF Ending
  <2> HIDE DEF f
  <2>3. FramesOf(<<f>>) = {f}
    BY One
  <2> QED
    BY <2>1, <2>2, <2>3 DEF Endings
<1>3. CASE Benchmarked(r)
  BY <1>0, <1>3, One DEF Benchmarked
<1>4. CASE Opened(r)
  <2>1. pending'[r] = <<>> /\ UNCHANGED streamVars
    BY <1>4 DEF Opened, Goto
  <2> QED
    BY <2>1, Empty
<1>5. ASSUME NEW f, f = Ending("final", r, Collected(r))
      PROVE  f.type = "final" /\ f.tools = Collected(r)
  BY <1>5 DEF Ending
<1>6. CASE StreamEnds(r)
  <2> DEFINE f == Ending("final", r, Collected(r))
  <2>1. pending'[r] = <<f>> /\ UNCHANGED streamVars
    BY <1>6 DEF StreamEnds
  <2>2. f.type = "final" /\ f.tools = Collected(r)
    BY <1>5
  <2> HIDE DEF f
  <2>3. FramesOf(<<f>>) = {f}
    BY One
  <2> QED
    BY <2>1, <2>2, <2>3 DEF Endings
<1>7. CASE StreamBreaks(r)
  <2> DEFINE f == Ending("final", r, Collected(r))
             e == Frame("error")
  <2>1. pending'[r] = <<f, e>> /\ UNCHANGED streamVars
    BY <1>7 DEF StreamBreaks
  <2>2. f.type = "final" /\ f.tools = Collected(r)
    BY <1>5
  <2>3. e.type \in Endings /\ e.type # "final"
    BY <1>0
  <2> HIDE DEF f, e
  <2>4. FramesOf(<<f, e>>) = {f, e}
    BY Two
  <2> QED
    BY <2>1, <2>2, <2>3, <2>4 DEF Endings
<1> QED
  BY <1>1, <1>2, <1>3, <1>4, <1>6, <1>7 DEF HandlerStep

\* Who changes what belongs to request r: its own handler, and the write of one
\* of its frames.
LEMMA OnlyOwn ==
    ASSUME WriteInv, NEW r \in Requests, [Next]_vars
    PROVE  \/ HandlerStep(r)
           \/ EndWrite(r)
           \/ /\ UNCHANGED <<seen[r], order[r], args[r], pending[r], out[r]>>
              /\ alive' => alive
<1> USE DEF WriteInv, Shape, Writers
<1>1. ASSUME NEW q \in Requests, HandlerStep(q), q # r
      PROVE  /\ UNCHANGED <<seen[r], order[r], args[r], pending[r], out[r]>>
             /\ alive' => alive
  <2>1. UNCHANGED <<alive, out>> /\ pending'[r] = pending[r]
    BY <1>1, HandlerSends
  <2>2. CASE Line(q)
    BY <1>1, <2>1, <2>2 DEF Line
  <2>3. CASE ~Line(q)
    BY <1>1, <2>1, <2>3, HandlerEnds DEF streamVars
  <2> QED
    BY <2>2, <2>3
<1>2. ASSUME NEW q \in Requests, Receive(q)
      PROVE  UNCHANGED <<seen, order, args, pending, out, alive>>
  BY <1>2 DEF Receive, streamVars
<1>3. ASSUME NEW g \in Writers, StartWrite(g)
      PROVE  UNCHANGED <<seen, order, args, pending, out, alive>>
  BY <1>3 DEF StartWrite, streamVars
<1>4. ASSUME NEW g \in Writers, EndWrite(g), g # r
      PROVE  /\ UNCHANGED <<seen[r], order[r], args[r], pending[r], out[r]>>
             /\ alive' => alive
  <2>1. UNCHANGED <<seen, order, args>>
    BY <1>4 DEF EndWrite, Written, streamVars
  <2> QED
    BY <1>4, <2>1, WriteMoves
<1>5. CASE ReaderStep
  BY <1>5, ChatAssumption
  DEF ReaderStep, Hello, ReadPing, ReadError, Send, streamVars
<1>6. CASE RouterPings \/ Drop \/ UNCHANGED vars
  BY <1>6 DEF RouterPings, Drop, streamVars, vars
<1> QED
  BY <1>1, <1>2, <1>3, <1>4, <1>5, <1>6 DEF Next

LEMMA SeenInit == Init => SeenInv
<1>1. <<>> \in Seq(Lines) /\ Len(<<>>) = 0
  OBVIOUS
<1> QED
  BY <1>1, ChatAssumption DEF Init, SeenInv

LEMMA SeenNext == WriteInv /\ SeenInv /\ [Next]_vars => SeenInv'
<1> SUFFICES ASSUME WriteInv, SeenInv, [Next]_vars PROVE SeenInv'
  OBVIOUS
<1>1. DOMAIN seen' = Requests
  <2>1. \A q \in Requests : HandlerStep(q) => DOMAIN seen' = Requests
    BY HandlerEnds DEF Line, SeenInv, streamVars
  <2>2. ASSUME ~\E q \in Requests : HandlerStep(q)
        PROVE  UNCHANGED seen
    BY <2>2
    DEF Next, Receive, StartWrite, EndWrite, Written, ReaderStep, Hello, ReadPing,
        ReadError, RouterPings, Drop, streamVars, vars
  <2> QED
    BY <2>1, <2>2 DEF SeenInv
<1>2. ASSUME NEW r \in Requests
      PROVE  seen'[r] \in Seq(Lines) /\ Len(seen'[r]) <= MaxLines[r]
  <2>1. seen[r] \in Seq(Lines) /\ Len(seen[r]) <= MaxLines[r]
    BY DEF SeenInv
  <2>2. CASE Line(r)
    <3>1. PICK l \in Lines : seen' = [seen EXCEPT ![r] = Append(@, l)]
      BY <2>2 DEF Line
    <3>2. seen'[r] = Append(seen[r], l) /\ Len(seen[r]) + 1 <= MaxLines[r]
      BY <2>2, <3>1 DEF Line, SeenInv
    <3> QED
      BY <2>1, <3>2
  <2>3. CASE HandlerStep(r) /\ ~Line(r)
    BY <2>1, <2>3, HandlerEnds DEF streamVars
  <2>4. CASE EndWrite(r)
    BY <2>1, <2>4 DEF EndWrite, Written, streamVars
  <2> QED
    BY <2>1, <2>2, <2>3, <2>4, OnlyOwn
<1> QED
  BY <1>1, <1>2 DEF SeenInv

LEMMA StreamInit == Init => StreamInv
<1>1. PiecesOf(<<>>) = {} /\ InOrder(<<>>) /\ AllChunks(<<>>)
  BY Empty, NoPieces DEF AllChunks
<1>2. Pieces(<<>>) = {}
  BY DEF Pieces
<1> QED
  BY <1>1, <1>2 DEF Init, StreamInv, Stream, Writers

\* A line is sent after all pieces before it.
LEMMA LineStreams ==
    ASSUME WriteInv, SeenInv, NEW r \in Requests, Stream(r), Line(r)
    PROVE  Stream(r)'
<1> DEFINE n == Len(seen[r]) + 1
<1>1. PICK l \in Lines :
          /\ seen' = [seen EXCEPT ![r] = Append(@, l)]
          /\ pending' = [pending EXCEPT ![r] = Chunks(l, n)]
  BY DEF Line, Send
<1>2. /\ seen'[r] = Append(seen[r], l) /\ pending'[r] = Chunks(l, n)
      /\ out'[r] = out[r] /\ pending[r] = <<>> /\ seen[r] \in Seq(Lines)
  BY <1>1 DEF Line, SeenInv, WriteInv, Shape, Writers
<1> DEFINE new == {<<n, t>> : t \in {u \in ChunkTypes : Holds(l, u)}}
<1>3. PiecesOf(pending[r]) = {}
  BY <1>2, Empty, NoPieces
<1>4. PiecesOf(pending'[r]) = new /\ InOrder(pending'[r])
  BY <1>2, LinePieces
<1>5. /\ Pieces(seen'[r]) = Pieces(seen[r]) \cup new
      /\ \A p \in Pieces(seen[r]) : p[1] \in 1..Len(seen[r])
  BY <1>2, PiecesGrow
<1>6. Len(seen[r]) \in Nat
  BY <1>2
<1>7. \A p \in PiecesOf(out[r]), q \in new : Earlier(p, q)
  <2>1. \A p \in PiecesOf(out[r]) : p[1] \in 1..Len(seen[r])
    BY <1>3, <1>5 DEF Stream
  <2> QED
    BY <1>6, <2>1 DEF Earlier
<1> HIDE DEF new
<1> QED
  BY <1>2, <1>3, <1>4, <1>5, <1>7 DEF Stream, Last, AllChunks

\* A write moves the first pending frame to the end of those on the wire.
LEMMA WriteStreams ==
    ASSUME WriteInv, FlowInv, alive, NEW r \in Requests, Stream(r), EndWrite(r)
    PROVE  Stream(r)'
<1> DEFINE f == Head(pending[r])
           new == IF f.type \in ChunkTypes THEN {Piece(f)} ELSE {}
<1>1. /\ out'[r] = Append(out[r], f) /\ pending'[r] = Tail(pending[r])
      /\ seen' = seen
  BY WriteMoves DEF Writers, EndWrite, Written, streamVars
<1>2. IsSeq(out[r]) /\ IsSeq(pending[r]) /\ pending[r] # <<>>
  BY DEF WriteInv, Shape, Writers, EndWrite
<1>3. NextFrame(r, f)
  BY WriteFlows
<1>4. /\ PiecesOf(pending[r]) = PiecesOf(pending'[r]) \cup new
      /\ InOrder(pending'[r])
      /\ f.type \in ChunkTypes =>
            \A p \in PiecesOf(pending'[r]) : Earlier(Piece(f), p)
  BY <1>1, <1>2, PiecesShortened DEF Stream
<1>5. PiecesOf(out'[r]) = PiecesOf(out[r]) \cup new /\ InOrder(out'[r])
  <2>1. f.type \in ChunkTypes => \A p \in PiecesOf(out[r]) : Earlier(p, Piece(f))
    BY <1>4 DEF Stream
  <2> QED
    BY <1>1, <1>2, <2>1, PiecesAppended DEF Stream
<1>6. AllChunks(out'[r]) \/ Last(out'[r]).type \in Endings
  <2>1. Last(out'[r]) = f /\ FramesOf(out'[r]) = FramesOf(out[r]) \cup {f}
    BY <1>1, <1>2, Appended
  <2> HIDE DEF f
  <2> QED
    BY <1>3, <2>1 DEF NextFrame, AllChunks, Endings
<1>7. \A p \in PiecesOf(out'[r]), q \in PiecesOf(pending'[r]) : Earlier(p, q)
  BY <1>4, <1>5 DEF Stream
<1>8. PiecesOf(out'[r]) \cup PiecesOf(pending'[r]) = Pieces(seen'[r])
  BY <1>1, <1>4, <1>5 DEF Stream
<1>9. (AllChunks(out[r]) \/ Last(out[r]).type \in Endings)'
  BY <1>6 DEF AllChunks, Last
<1> QED
  BY <1>4, <1>5, <1>7, <1>8, <1>9 DEF Stream

LEMMA StreamNext ==
    WriteInv /\ FlowInv /\ SeenInv /\ StreamInv /\ [Next]_vars => StreamInv'
<1> SUFFICES ASSUME WriteInv, FlowInv, SeenInv, StreamInv, [Next]_vars, alive',
                    NEW r \in Requests
             PROVE  Stream(r)'
  BY DEF StreamInv
<1>1. CASE UNCHANGED <<seen[r], order[r], args[r], pending[r], out[r]>>
           /\ (alive' => alive)
  BY <1>1 DEF StreamInv, Stream, Last, AllChunks
<1>2. CASE EndWrite(r)
  <2>1. alive
    BY <1>2, WriteMoves DEF Writers
  <2> QED
    BY <1>2, <2>1, WriteStreams DEF StreamInv
<1>3. CASE HandlerStep(r)
  <2>1. alive /\ UNCHANGED out /\ pending[r] = <<>>
    BY <1>3, HandlerSends
  <2>2. Stream(r)
    BY <2>1 DEF StreamInv
  <2>3. CASE Line(r)
    BY <2>2, <2>3, LineStreams
  <2>4. CASE ~Line(r)
    <3>1. /\ UNCHANGED seen
          /\ \A f \in FramesOf(pending'[r]) : f.type \notin ChunkTypes
      BY <1>3, <2>4, HandlerEnds DEF streamVars, Endings, ChunkTypes
    <3>2. PiecesOf(pending'[r]) = {} /\ InOrder(pending'[r])
      BY <3>1, NoPieces
    <3>3. PiecesOf(pending[r]) = {}
      BY <2>1, Empty, NoPieces
    <3> QED
      BY <2>1, <2>2, <3>1, <3>2, <3>3 DEF Stream, Last, AllChunks
  <2> QED
    BY <2>3, <2>4
<1> QED
  BY <1>1, <1>2, <1>3, OnlyOwn

\* As long as the socket holds, what the router has of a stream is an initial
\* part of its content and reasoning, in the order of the backend, and all of
\* it once an ending is there, for any requests, streams and interleaving.
THEOREM StreamsFaithful == Spec => []StreamFaithful
<1>1. WriteInv /\ FlowInv /\ SeenInv /\ StreamInv => StreamFaithful
  <2> SUFFICES ASSUME WriteInv, FlowInv, SeenInv, StreamInv, alive, NEW r \in Requests
               PROVE
                   LET sent == PiecesOf(out[r]) IN
                   /\ sent \subseteq Pieces(seen[r]) /\ InOrder(out[r])
                   /\ \A p \in Pieces(seen[r]), q \in sent :
                         Earlier(p, q) => p \in sent
                   /\ (\E i \in DOMAIN out[r] : out[r][i].type \in Endings) =>
                         sent = Pieces(seen[r]) /\ Last(out[r]).type \in Endings
    BY DEF StreamFaithful
  <2>1. Stream(r)
    BY DEF StreamInv
  <2>2. ASSUME NEW p \in Pieces(seen[r]), NEW q \in PiecesOf(out[r]), Earlier(p, q)
        PROVE  p \in PiecesOf(out[r])
    <3> SUFFICES ASSUME p \in PiecesOf(pending[r]) PROVE FALSE
      BY <2>1 DEF Stream
    <3>1. Earlier(q, p) /\ q \in Pieces(seen[r])
      BY <2>1 DEF Stream
    <3>2. seen[r] \in Seq(Lines)
      BY DEF SeenInv
    <3>3. p[1] \in Nat /\ q[1] \in Nat
      BY <3>1, <3>2 DEF Pieces
    <3> QED
      BY <2>2, <3>1, <3>3 DEF Earlier
  <2>3. ASSUME NEW i \in DOMAIN out[r], out[r][i].type \in Endings
        PROVE  PiecesOf(pending[r]) = {} /\ Last(out[r]).type \in Endings
    <3>1. ~AllChunks(out[r])
      BY <2>3 DEF AllChunks, FramesOf, ChunkTypes, Endings
    <3>2. out[r] # <<>>
      BY <3>1, Empty DEF AllChunks
    <3>3. Due(r)
      BY <3>1, <3>2 DEF WriteInv, FlowInv, Flow
    <3>4. CASE pending[r] = <<>>
      BY <2>1, <3>1, <3>4, Empty, NoPieces DEF Stream
    <3>5. CASE \E e : pending[r] = <<e>> /\ e.type = "error"
      <4>1. PICK e : pending[r] = <<e>> /\ e.type = "error"
        BY <3>5
      <4>2. FramesOf(<<e>>) = {e}
        BY One
      <4> QED
        BY <2>1, <3>1, <4>1, <4>2, NoPieces DEF Stream, ChunkTypes
    <3> QED
      BY <3>1, <3>2, <3>3, <3>4, <3>5 DEF Due
  <2> QED
    BY <2>1, <2>2, <2>3 DEF Stream
<1>2. Init => FlowInv
  BY Empty DEF Init, FlowInv, Flow, AllChunks
<1> QED
  BY <1>1, <1>2, WriteInit, WriteNext, FlowNext, SeenInit, SeenNext, StreamInit,
     StreamNext, PTL DEF Spec

-----------------------------------------------------------------------------
(* The tool calls *)

Ascending(s) == \A a, b \in DOMAIN s : a < b => Before(s[a], s[b])

\* ord and ar are toolCallOrder and toolCalls after the deltas D of lines.
Assembled(lines, D, ord, ar) ==
    /\ ord \in Seq(Indexes)
    /\ ar \in [Indexes -> Seq(D)]
    /\ Range(ord) = {IndexOf(lines, d) : d \in D}
    /\ \A x \in Indexes :
          /\ Range(ar[x]) = {d \in D : IndexOf(lines, d) = x}
          /\ Ascending(ar[x])
    /\ \A i, j \in DOMAIN ord : i < j => Before(ar[ord[i]][1], ar[ord[j]][1])

LEMMA RangeAppended ==
    ASSUME NEW S, NEW s \in Seq(S), NEW x
    PROVE  /\ Range(Append(s, x)) = Range(s) \cup {x}
           /\ DOMAIN s = 1..Len(s) /\ Len(s) \in Nat
           /\ DOMAIN Append(s, x) = 1..Len(s) + 1
           /\ \A i \in 1..Len(s) : Append(s, x)[i] = s[i]
           /\ Append(s, x)[Len(s) + 1] = x
<1>1. IsSeq(s)
  BY DEF IsSeq
<1> QED
  BY <1>1, Appended, Positions DEF FramesOf, Range

LEMMA AscendingAppended ==
    ASSUME NEW S, NEW s \in Seq(S), NEW x, Ascending(s), \A d \in S : Before(d, x)
    PROVE  Ascending(Append(s, x))
<1> DEFINE t == Append(s, x)
           n == Len(s) + 1
<1>1. /\ DOMAIN s = 1..Len(s) /\ Len(s) \in Nat /\ DOMAIN t = 1..n
      /\ \A i \in 1..Len(s) : t[i] = s[i] /\ s[i] \in S
      /\ t[n] = x
  BY RangeAppended
<1> HIDE DEF t
<1>2. ASSUME NEW a \in 1..n, NEW b \in 1..n, a < b
      PROVE  Before(t[a], t[b])
  <2>1. a \in 1..Len(s)
    BY <1>1, <1>2
  <2>2. CASE b = n
    BY <1>1, <2>1, <2>2
  <2>3. CASE b # n
    <3>1. b \in 1..Len(s)
      BY <1>1, <2>3
    <3> QED
      BY <1>1, <1>2, <2>1, <3>1 DEF Ascending
  <2> QED
    BY <2>2, <2>3
<1> QED
  BY <1>1, <1>2 DEF Ascending, t

\* A delta that comes after all others is put where it belongs.
LEMMA DeltaAssembled ==
    ASSUME NEW lines, NEW D, NEW ord, NEW ar, Assembled(lines, D, ord, ar),
           NEW d, NEW x \in Indexes, IndexOf(lines, d) = x,
           \A e \in D : Before(e, d),
           NEW acc, acc = [order |-> ord, args |-> ar]
    PROVE  Assembled(lines, D \cup {d}, AddDelta(acc, x, d).order,
                     AddDelta(acc, x, d).args)
<1> DEFINE known == \E i \in DOMAIN ord : ord[i] = x
           ord2 == IF known THEN ord ELSE Append(ord, x)
           ar2 == [ar EXCEPT ![x] = Append(@, d)]
           E == D \cup {d}
<1>1. ord \in Seq(Indexes) /\ DOMAIN ord = 1..Len(ord) /\ Len(ord) \in Nat
  BY RangeAppended DEF Assembled
<1>2. AddDelta(acc, x, d).order = ord2 /\ AddDelta(acc, x, d).args = ar2
  <2>1. Contains(ord, x) <=> known
    BY <1>1 DEF Contains
  <2> QED
    BY <2>1 DEF AddDelta
<1>3. /\ ar \in [Indexes -> Seq(D)] /\ ar2 \in [Indexes -> Seq(E)]
      /\ ar2[x] = Append(ar[x], d)
      /\ \A y \in Indexes : y # x => ar2[y] = ar[y]
  <2>1. ar \in [Indexes -> Seq(D)]
    BY DEF Assembled
  <2>2. \A s \in Seq(D) : s \in Seq(E) /\ Append(s, d) \in Seq(E)
    <3>1. \A s \in Seq(D) : s \in Seq(E)
      OBVIOUS
    <3>2. d \in E
      OBVIOUS
    <3> HIDE DEF E
    <3> QED
      BY <3>1, <3>2
  <2> HIDE DEF E
  <2> QED
    BY <2>1, <2>2
<1>4. /\ Range(ord) = {IndexOf(lines, e) : e \in D}
      /\ \A y \in Indexes : /\ Range(ar[y]) = {e \in D : IndexOf(lines, e) = y}
                            /\ Ascending(ar[y])
      /\ \A i, j \in DOMAIN ord : i < j => Before(ar[ord[i]][1], ar[ord[j]][1])
  BY DEF Assembled
<1>5. known <=> \E e \in D : IndexOf(lines, e) = x
  <2>1. known <=> x \in Range(ord)
    BY DEF Range
  <2> QED
    BY <1>4, <2>1
<1>6. Range(ord2) = {IndexOf(lines, e) : e \in E} /\ ord2 \in Seq(Indexes)
  <2>1. {IndexOf(lines, e) : e \in E} = Range(ord) \cup {x}
    BY <1>4
  <2>2. CASE known
    BY <1>1, <2>1, <2>2 DEF Range
  <2>3. CASE ~known
    BY <1>1, <2>1, <2>3, RangeAppended
  <2> QED
    BY <2>2, <2>3
<1>7. ASSUME NEW y \in Indexes
      PROVE  Range(ar2[y]) = {e \in E : IndexOf(lines, e) = y} /\ Ascending(ar2[y])
  <2>1. ar[y] \in Seq(D)
    BY <1>3
  <2>2. CASE y = x
    <3>1. Range(ar2[x]) = Range(ar[x]) \cup {d}
      BY <1>3, <2>1, <2>2, RangeAppended
    <3>2. Ascending(ar2[x])
      BY <1>3, <1>4, <2>1, <2>2, AscendingAppended
    <3> QED
      BY <1>4, <2>2, <3>1, <3>2
  <2>3. CASE y # x
    BY <1>3, <1>4, <2>3
  <2> QED
    BY <2>2, <2>3
\* Those of the calls there are keep their first delta.
<1>8. ASSUME NEW i \in DOMAIN ord
      PROVE  /\ ord[i] \in Indexes /\ ar[ord[i]][1] \in D
             /\ ar2[ord[i]][1] = ar[ord[i]][1]
  <2>1. ord[i] \in Indexes /\ ar[ord[i]] \in Seq(D)
    BY <1>1, <1>3
  <2>2. Range(ar[ord[i]]) # {}
    <3>1. ord[i] \in Range(ord)
      BY DEF Range
    <3> QED
      BY <1>4, <2>1, <3>1
  <2>3. ar[ord[i]] # <<>>
    <3>1. Range(<<>>) = {}
      BY DEF Range
    <3> QED
      BY <2>2, <3>1
  <2>4. Len(ar[ord[i]]) \in Nat \ {0} /\ ar[ord[i]][1] \in D
    BY <2>1, <2>3
  <2>5. Append(ar[ord[i]], d)[1] = ar[ord[i]][1]
    BY <2>1, <2>4, RangeAppended
  <2> QED
    BY <1>3, <2>1, <2>4, <2>5
<1>9. ASSUME NEW i \in DOMAIN ord2, NEW j \in DOMAIN ord2, i < j
      PROVE  Before(ar2[ord2[i]][1], ar2[ord2[j]][1])
  <2>1. CASE known
    BY <1>4, <1>8, <1>9, <2>1
  <2>2. CASE ~known
    <3>1. /\ DOMAIN ord2 = 1..Len(ord) + 1 /\ ord2[Len(ord) + 1] = x
          /\ \A k \in 1..Len(ord) : ord2[k] = ord[k]
      BY <1>1, <2>2, RangeAppended
    <3>2. i \in DOMAIN ord /\ ord2[i] = ord[i]
      BY <1>1, <1>9, <3>1
    <3>3. CASE j = Len(ord) + 1
      <4>1. Range(ar[x]) = {}
        BY <1>4, <1>5, <2>2
      <4>2. ar[x] = <<>>
        <5>1. ar[x] \in Seq(D)
          BY <1>3
        <5>2. Len(ar[x]) \in Nat /\ DOMAIN ar[x] = 1..Len(ar[x])
          BY <5>1
        <5>3. ~(1 \in 1..Len(ar[x]))
          BY <4>1, <5>2 DEF Range
        <5> QED
          BY <5>1, <5>2, <5>3
      <4>3. ar2[x] = Append(<<>>, d)
        BY <1>3, <4>2
      <4>4. ar2[x][1] = d
        BY <4>3
      <4> QED
        BY <1>8, <3>1, <3>2, <3>3, <4>4
    <3>4. CASE j # Len(ord) + 1
      <4>1. j \in DOMAIN ord /\ ord2[j] = ord[j]
        BY <1>1, <1>9, <3>1, <3>4
      <4> QED
        BY <1>4, <1>8, <1>9, <3>2, <4>1
    <3> QED
      BY <3>3, <3>4
  <2> QED
    BY <2>1, <2>2
<1> HIDE DEF ord2, ar2, E
<1>10. Assembled(lines, E, ord2, ar2)
  BY <1>3, <1>6, <1>7, <1>9 DEF Assembled
<1> QED
  BY <1>2, <1>10 DEF E

\* Deltas of a longer stream are those of the shorter one and of the line added,
\* and what index a delta has does not change.
LEMMA DeltasGrow ==
    ASSUME NEW lines \in Seq(Lines), NEW l \in Lines
    PROVE  LET n == Len(lines) + 1
               more == Append(lines, l)
           IN  /\ Len(lines) \in Nat /\ l.tools \in Seq(Nat)
               /\ Deltas(more) = Deltas(lines) \cup {<<n, p>> : p \in 1..Len(l.tools)}
               /\ \A d \in Deltas(lines) :
                     d[1] \in 1..Len(lines) /\ IndexOf(more, d) = IndexOf(lines, d)
               /\ \A p \in 1..Len(l.tools) :
                     /\ IndexOf(more, <<n, p>>) = l.tools[p]
                     /\ l.tools[p] \in Indexes
<1> DEFINE n == Len(lines) + 1
           more == Append(lines, l)
<1>1. /\ Len(lines) \in Nat /\ DOMAIN lines = 1..Len(lines) /\ DOMAIN more = 1..n
      /\ \A i \in 1..Len(lines) : more[i] = lines[i]
      /\ more[n] = l
  BY RangeAppended
<1>2. l.tools \in Seq(Nat) /\ DOMAIN l.tools = 1..Len(l.tools)
  <2>1. l.tools \in Seq(Nat)
    BY ChatAssumption
  <2> QED
    BY <2>1, LenProperties
<1> HIDE DEF more
<1>3. \A x : x \in Deltas(lines) <=>
          \E i \in 1..Len(lines) : \E p \in DOMAIN lines[i].tools : x = <<i, p>>
  BY <1>1 DEF Deltas
<1>4. \A x : x \in Deltas(more) <=>
          \E i \in 1..n : \E p \in DOMAIN more[i].tools : x = <<i, p>>
  BY <1>1 DEF Deltas
<1>5. \A i : i \in 1..n <=> i \in 1..Len(lines) \/ i = n
  BY <1>1
<1>6. \A x : x \in Deltas(more) <=>
          x \in Deltas(lines) \/ \E p \in 1..Len(l.tools) : x = <<n, p>>
  <2> SUFFICES ASSUME NEW x
               PROVE  x \in Deltas(more) <=>
                         x \in Deltas(lines)
                         \/ \E p \in 1..Len(l.tools) : x = <<n, p>>
    OBVIOUS
  <2>1. ASSUME x \in Deltas(more)
        PROVE  x \in Deltas(lines) \/ \E p \in 1..Len(l.tools) : x = <<n, p>>
    <3>1. PICK i \in 1..n : \E p \in DOMAIN more[i].tools : x = <<i, p>>
      BY <1>4, <2>1
    <3>2. CASE i \in 1..Len(lines)
      BY <1>1, <1>3, <3>1, <3>2
    <3>3. CASE i = n
      BY <1>1, <1>2, <3>1, <3>3
    <3> QED
      BY <1>5, <3>2, <3>3
  <2>2. ASSUME x \in Deltas(lines)
        PROVE  x \in Deltas(more)
    BY <1>1, <1>3, <1>4, <1>5, <2>2
  <2>3. ASSUME NEW p \in 1..Len(l.tools), x = <<n, p>>
        PROVE  x \in Deltas(more)
    <3>1. n \in 1..n /\ p \in DOMAIN more[n].tools
      BY <1>1, <1>2
    <3> QED
      BY <1>4, <2>3, <3>1
  <2> QED
    BY <2>1, <2>2, <2>3
<1>7. \A d \in Deltas(lines) :
          d[1] \in 1..Len(lines) /\ IndexOf(more, d) = IndexOf(lines, d)
  BY <1>1, <1>3 DEF IndexOf
<1>8. ASSUME NEW p \in 1..Len(l.tools)
      PROVE  IndexOf(more, <<n, p>>) = l.tools[p] /\ l.tools[p] \in Indexes
  <2>1. l.tools[p] \in Range(l.tools)
    BY <1>2 DEF Range
  <2> QED
    BY <1>1, <2>1 DEF IndexOf, Indexes
<1>9. Deltas(more) = Deltas(lines) \cup {<<n, p>> : p \in 1..Len(l.tools)}
  BY <1>6
<1> QED
  BY <1>1, <1>2, <1>7, <1>8, <1>9 DEF more

\* The deltas of a line, one after another, as a function of how many.
LEMMA Accumulates ==
    ASSUME NEW r, NEW l \in Lines, NEW n
    PROVE  \E acc :
              /\ acc[0] = [order |-> order[r], args |-> args[r]]
              /\ \A p \in 1..Len(l.tools) :
                    acc[p] = AddDelta(acc[p - 1], l.tools[p], <<n, p>>)
              /\ Collect(r, l, n) = acc[Len(l.tools)]
<1> DEFINE m == Len(l.tools)
           start == [order |-> order[r], args |-> args[r]]
           Next1(c, p) == AddDelta(c[p - 1], l.tools[p], <<n, p>>)
           Adds(k, c) == c = [p \in 0..k |-> IF p = 0 THEN start ELSE Next1(c, p)]
           Exists(k) == \E c : Adds(k, c)
           D == {k \in 0..m : ~Exists(k)}
<1>1. m \in Nat
  BY ChatAssumption, LenProperties
<1>2. \A k \in 0..m : Exists(k)
  <2> HIDE DEF Exists
  <2> SUFFICES ASSUME D # {} PROVE FALSE
    OBVIOUS
  <2>1. D \in SUBSET Nat
    BY <1>1
  <2>2. PICK k \in D : \A j \in D : k <= j
    BY <2>1, LeastNumber
  <2>3. CASE k = 0
    <3> DEFINE c == [p \in 0..0 |-> start]
    <3>1. Adds(0, c)
      OBVIOUS
    <3>2. Exists(0)
      BY <3>1 DEF Exists
    <3> QED
      BY <2>2, <2>3, <3>2
  <2>4. CASE k # 0
    <3>1. k \in 1..m /\ k - 1 \in 0..m /\ Exists(k - 1)
      BY <1>1, <2>2, <2>4
    <3>2. PICK c : Adds(k - 1, c)
      BY <3>1 DEF Exists
    <3> DEFINE e == [p \in 0..k |-> IF p = k THEN Next1(c, k) ELSE c[p]]
    <3>3. ASSUME NEW p \in 0..k
          PROVE  e[p] = IF p = 0 THEN start ELSE Next1(e, p)
      <4>1. CASE p = k
        <5>1. k - 1 \in 0..k /\ k - 1 # k /\ k \in 0..k
          BY <3>1
        <5>2. e[k - 1] = c[k - 1] /\ e[k] = Next1(c, k)
          BY <5>1
        <5> HIDE DEF e
        <5> QED
          BY <3>1, <4>1, <5>2
      <4>2. CASE p # k
        <5>1. p \in 0..k - 1 /\ p # k
          BY <3>1, <4>2
        <5>2. c[p] = IF p = 0 THEN start ELSE Next1(c, p)
          BY <3>2, <5>1
        <5>3. e[p] = c[p] /\ (p # 0 => e[p - 1] = c[p - 1])
          <6>1. p # 0 => p - 1 \in 0..k /\ p - 1 # k
            BY <3>1, <5>1
          <6> QED
            BY <5>1, <6>1
        <5> HIDE DEF e
        <5> QED
          BY <5>2, <5>3
      <4> QED
        BY <4>1, <4>2
    <3>4. e = [p \in 0..k |-> e[p]]
      OBVIOUS
    <3> HIDE DEF e, Next1
    <3>5. Adds(k, e)
      BY <3>3, <3>4
    <3>6. Exists(k)
      BY <3>5 DEF Exists
    <3> QED
      BY <2>2, <3>6
  <2> QED
    BY <2>3, <2>4
<1>3. PICK c : Adds(m, c)
  <2>1. m \in 0..m
    BY <1>1
  <2>2. Exists(m)
    <3> HIDE DEF m, Exists
    <3> QED
      BY <1>2, <2>1
  <2> QED
    BY <2>2
<1> DEFINE acc == CHOOSE a : Adds(m, a)
<1>4. Adds(m, acc)
  <2> HIDE DEF Adds
  <2> QED
    BY <1>3
<1>5. Collect(r, l, n) = acc[m]
  BY DEF Collect
<1> HIDE DEF acc
<1>6. acc[0] = start /\ \A p \in 1..m : acc[p] = Next1(acc, p)
  <2>1. 0 \in 0..m /\ \A p \in 1..m : p \in 0..m /\ p # 0
    BY <1>1
  <2> HIDE DEF Next1
  <2> QED
    BY <1>4, <2>1
<1> QED
  BY <1>5, <1>6

LEMMA LineAssembled ==
    ASSUME NEW lines \in Seq(Lines), NEW l \in Lines, NEW r,
           Assembled(lines, Deltas(lines), order[r], args[r])
    PROVE  LET n == Len(lines) + 1
               more == Append(lines, l)
           IN  Assembled(more, Deltas(more), Collect(r, l, n).order,
                         Collect(r, l, n).args)
<1> DEFINE n == Len(lines) + 1
           more == Append(lines, l)
           m == Len(l.tools)
           D(p) == Deltas(lines) \cup {<<n, q>> : q \in 1..p}
<1>1. /\ Len(lines) \in Nat /\ m \in Nat
      /\ Deltas(more) = D(m)
      /\ \A d \in Deltas(lines) :
            d[1] \in 1..Len(lines) /\ IndexOf(more, d) = IndexOf(lines, d)
      /\ \A p \in 1..m :
            IndexOf(more, <<n, p>>) = l.tools[p] /\ l.tools[p] \in Indexes
  BY DeltasGrow, LenProperties
<1>2. PICK acc :
          /\ acc[0] = [order |-> order[r], args |-> args[r]]
          /\ \A p \in 1..m : acc[p] = AddDelta(acc[p - 1], l.tools[p], <<n, p>>)
          /\ Collect(r, l, n) = acc[m]
  <2> HIDE DEF n, m, more
  <2>1. \E acc :
           /\ acc[0] = [order |-> order[r], args |-> args[r]]
           /\ \A p \in 1..Len(l.tools) :
                 acc[p] = AddDelta(acc[p - 1], l.tools[p], <<n, p>>)
           /\ Collect(r, l, n) = acc[Len(l.tools)]
    BY Accumulates
  <2> QED
    BY <2>1 DEF m
<1> HIDE DEF more
<1> DEFINE Good(p) == /\ Assembled(more, D(p), acc[p].order, acc[p].args)
                      /\ acc[p] = [order |-> acc[p].order, args |-> acc[p].args]
           Bad == {p \in 0..m : ~Good(p)}
<1>3. Good(0)
  <2>1. D(0) = Deltas(lines)
    OBVIOUS
  <2>2. Assembled(more, Deltas(lines), order[r], args[r])
    BY <1>1 DEF Assembled
  <2>3. acc[0].order = order[r] /\ acc[0].args = args[r]
    BY <1>2
  <2> QED
    BY <1>2, <2>1, <2>2, <2>3
<1>4. ASSUME NEW p \in 1..m, Good(p - 1)
      PROVE  Good(p)
  <2> DEFINE d == <<n, p>>
             x == l.tools[p]
             a == acc[p - 1]
  <2>1. \A e \in D(p - 1) : Before(e, d)
    <3>1. \A e \in Deltas(lines) : Before(e, d)
      BY <1>1 DEF Before
    <3>2. \A q \in 1..p - 1 : Before(<<n, q>>, d)
      BY <1>1 DEF Before
    <3> QED
      BY <3>1, <3>2
  <2>2. IndexOf(more, d) = x /\ x \in Indexes /\ acc[p] = AddDelta(a, x, d)
    BY <1>1, <1>2
  <2>3. D(p) = D(p - 1) \cup {d}
    <3>1. 1..p = 1..(p - 1) \cup {p}
      BY <1>1
    <3>2. {<<n, q>> : q \in 1..p} = {<<n, q>> : q \in 1..p - 1} \cup {d}
      BY <3>1
    <3> QED
      BY <3>2
  <2>4. /\ Assembled(more, D(p - 1), a.order, a.args)
        /\ a = [order |-> a.order, args |-> a.args]
    BY <1>4
  <2> HIDE DEF D, d, x, a
  <2>5. Assembled(more, D(p - 1) \cup {d}, AddDelta(a, x, d).order,
                  AddDelta(a, x, d).args)
    BY <2>1, <2>2, <2>4, DeltaAssembled
  <2>6. AddDelta(a, x, d) =
            [order |-> AddDelta(a, x, d).order, args |-> AddDelta(a, x, d).args]
    BY DEF AddDelta
  <2> QED
    BY <2>2, <2>3, <2>5, <2>6
<1> HIDE DEF Good
<1>5. Bad = {}
  <2> SUFFICES ASSUME Bad # {} PROVE FALSE
    OBVIOUS
  <2>1. Bad \in SUBSET Nat
    BY <1>1
  <2>2. PICK p \in Bad : \A q \in Bad : p <= q
    BY <2>1, LeastNumber
  <2>3. p \in 1..m /\ p - 1 \in 0..m /\ p - 1 \notin Bad
    <3>1. p # 0
      BY <1>3, <2>2
    <3> QED
      BY <1>1, <2>2, <3>1
  <2>4. Good(p)
    BY <1>4, <2>3
  <2> QED
    BY <2>2, <2>4
<1>6. Good(m)
  BY <1>1, <1>5
<1> QED
  BY <1>1, <1>2, <1>6 DEF Good, more

ToolInv ==
    /\ DOMAIN order = Requests /\ DOMAIN args = Requests
    /\ \A r \in Requests :
          /\ Assembled(seen[r], Deltas(seen[r]), order[r], args[r])
          /\ \A f \in FramesOf(out[r]) \cup FramesOf(pending[r]) :
                f.type = "final" => f.tools = Collected(r)

LEMMA ToolInit == Init => ToolInv
<1> SUFFICES ASSUME Init PROVE ToolInv
  OBVIOUS
<1>1. Deltas(<<>>) = {} /\ Range(<<>>) = {} /\ Ascending(<<>>)
      /\ <<>> \in Seq(Indexes) /\ <<>> \in Seq({}) /\ DOMAIN <<>> = {}
  BY DEF Deltas, Range, Ascending
<1> DEFINE a == [i \in Indexes |-> <<>>]
<1>2. Assembled(<<>>, {}, <<>>, a)
  <2>1. a \in [Indexes -> Seq({})] /\ \A x \in Indexes : a[x] = <<>>
    BY <1>1
  <2> HIDE DEF a
  <2>2. {IndexOf(<<>>, d) : d \in {}} = {}
    OBVIOUS
  <2>3. \A x \in Indexes : {d \in {} : IndexOf(<<>>, d) = x} = {}
    OBVIOUS
  <2> QED
    BY <1>1, <2>1, <2>2, <2>3 DEF Assembled
<1>3. /\ DOMAIN order = Requests /\ DOMAIN args = Requests
      /\ \A r \in Requests :
            /\ seen[r] = <<>> /\ order[r] = <<>> /\ args[r] = a
            /\ FramesOf(out[r]) = {} /\ FramesOf(pending[r]) = {}
  BY Empty DEF Init, Writers
<1> HIDE DEF a
<1> QED
  BY <1>1, <1>2, <1>3 DEF ToolInv

LEMMA ToolNext ==
    WriteInv /\ FlowInv /\ SeenInv /\ ToolInv /\ [Next]_vars => ToolInv'
<1> SUFFICES ASSUME WriteInv, FlowInv, SeenInv, ToolInv, [Next]_vars
             PROVE  ToolInv'
  OBVIOUS
<1>1. DOMAIN order' = Requests /\ DOMAIN args' = Requests
  <2>1. \A q \in Requests :
            HandlerStep(q) => DOMAIN order' = Requests /\ DOMAIN args' = Requests
    BY HandlerEnds DEF Line, ToolInv, streamVars
  <2>2. ASSUME ~\E q \in Requests : HandlerStep(q)
        PROVE  UNCHANGED <<order, args>>
    BY <2>2
    DEF Next, Receive, StartWrite, EndWrite, Written, ReaderStep, Hello, ReadPing,
        ReadError, RouterPings, Drop, streamVars, vars
  <2> QED
    BY <2>1, <2>2 DEF ToolInv
<1>2. ASSUME NEW r \in Requests
      PROVE  /\ Assembled(seen'[r], Deltas(seen'[r]), order'[r], args'[r])
             /\ \A f \in FramesOf(out'[r]) \cup FramesOf(pending'[r]) :
                   f.type = "final" => f.tools = Collected(r)'
  <2>0. /\ Assembled(seen[r], Deltas(seen[r]), order[r], args[r])
        /\ \A f \in FramesOf(out[r]) \cup FramesOf(pending[r]) :
              f.type = "final" => f.tools = Collected(r)
    BY DEF ToolInv
  <2>1. CASE UNCHANGED <<seen[r], order[r], args[r], pending[r], out[r]>>
    BY <2>0, <2>1 DEF Collected
  <2>2. CASE EndWrite(r)
    <3>1. UNCHANGED <<seen, order, args>>
      BY <2>2 DEF EndWrite, Written, streamVars
    <3>2. Collected(r)' = Collected(r)
      BY <3>1 DEF Collected
    <3>3. FramesOf(out'[r]) \cup FramesOf(pending'[r])
              \subseteq FramesOf(out[r]) \cup FramesOf(pending[r])
      <4>1. IsSeq(out[r]) /\ r \in Writers
        BY DEF WriteInv, Shape, Writers
      <4>2. /\ FramesOf(pending'[r]) \subseteq FramesOf(pending[r])
            /\ Head(pending[r]) \in FramesOf(pending[r])
            /\ out'[r] \in {out[r], Append(out[r], Head(pending[r]))}
        BY <2>2, <4>1, WriteMoves
      <4>3. FramesOf(Append(out[r], Head(pending[r])))
                = FramesOf(out[r]) \cup {Head(pending[r])}
        BY <4>1, Appended
      <4> QED
        BY <4>2, <4>3
    <3> QED
      BY <2>0, <3>1, <3>2, <3>3
  <2>3. CASE Line(r)
    <3> DEFINE n == Len(seen[r]) + 1
    <3>1. PICK l \in Lines :
              /\ seen' = [seen EXCEPT ![r] = Append(@, l)]
              /\ order' = [order EXCEPT ![r] = Collect(r, l, n).order]
              /\ args' = [args EXCEPT ![r] = Collect(r, l, n).args]
              /\ pending' = [pending EXCEPT ![r] = Chunks(l, n)]
      BY <2>3 DEF Line, Send
    <3>2. /\ seen'[r] = Append(seen[r], l) /\ seen[r] \in Seq(Lines)
          /\ order'[r] = Collect(r, l, n).order /\ args'[r] = Collect(r, l, n).args
          /\ pending'[r] = Chunks(l, n) /\ out'[r] = out[r]
      BY <2>3, <3>1 DEF Line, SeenInv, ToolInv, WriteInv, Shape, Writers
    <3>3. Assembled(seen'[r], Deltas(seen'[r]), order'[r], args'[r])
      <4> DEFINE lines == seen[r]
      <4>1. /\ lines \in Seq(Lines)
            /\ Assembled(lines, Deltas(lines), order[r], args[r])
        BY <2>0, <3>2
      <4> HIDE DEF lines
      <4>2. LET k == Len(lines) + 1
                more == Append(lines, l)
            IN  Assembled(more, Deltas(more), Collect(r, l, k).order,
                          Collect(r, l, k).args)
        BY <4>1, LineAssembled
      <4> QED
        BY <3>2, <4>2 DEF lines
    <3>4. AllChunks(out[r]) /\ AllChunks(pending'[r])
      BY <2>3, <3>2, ChunksSent DEF Line, FlowInv, Flow
    <3>5. \A f \in FramesOf(out'[r]) \cup FramesOf(pending'[r]) : f.type # "final"
      BY <3>2, <3>4 DEF AllChunks, ChunkTypes
    <3> QED
      BY <3>3, <3>5
  <2>4. CASE HandlerStep(r) /\ ~Line(r)
    <3>1. /\ UNCHANGED <<seen, order, args, out>>
          /\ \A f \in FramesOf(pending'[r]) :
                f.type = "final" => f.tools = Collected(r)
      BY <2>4, HandlerEnds, HandlerSends DEF streamVars
    <3>2. Collected(r)' = Collected(r)
      BY <3>1 DEF Collected
    <3> QED
      BY <2>0, <3>1, <3>2
  <2> QED
    BY <2>1, <2>2, <2>3, <2>4, OnlyOwn
<1> QED
  BY <1>1, <1>2 DEF ToolInv

\* The calls that Collected returns have one index each.
LEMMA OnePerIndex ==
    ASSUME ToolInv, SeenInv, NEW r \in Requests
    PROVE  /\ IsInjective(order[r]) /\ DOMAIN args[r] = Indexes
           /\ \A i \in DOMAIN order[r] :
                 /\ order[r][i] \in Indexes
                 /\ args[r][order[r][i]] \in Seq(Deltas(seen[r]))
                 /\ args[r][order[r][i]] # <<>>
<1> DEFINE ord == order[r]
           ar == args[r]
           D == Deltas(seen[r])
<1>1. /\ ord \in Seq(Indexes) /\ ar \in [Indexes -> Seq(D)]
      /\ Range(ord) = {IndexOf(seen[r], d) : d \in D}
      /\ \A x \in Indexes : Range(ar[x]) = {d \in D : IndexOf(seen[r], d) = x}
      /\ \A i, j \in DOMAIN ord : i < j => Before(ar[ord[i]][1], ar[ord[j]][1])
  BY DEF ToolInv, Assembled
<1>2. DOMAIN ord = 1..Len(ord) /\ Len(ord) \in Nat
  BY <1>1, RangeAppended
<1>3. ASSUME NEW i \in DOMAIN ord
      PROVE  ord[i] \in Indexes /\ ar[ord[i]] \in Seq(D) /\ ar[ord[i]] # <<>>
  <2>1. ord[i] \in Indexes /\ ar[ord[i]] \in Seq(D)
    BY <1>1, <1>2
  <2>2. ord[i] \in Range(ord)
    BY DEF Range
  <2>3. Range(ar[ord[i]]) # {}
    BY <1>1, <2>1, <2>2
  <2>4. Range(<<>>) = {}
    BY DEF Range
  <2> QED
    BY <2>1, <2>3, <2>4
<1>4. ASSUME NEW i \in DOMAIN ord, NEW j \in DOMAIN ord, ord[i] = ord[j], i < j
      PROVE  FALSE
  <2> DEFINE d == ar[ord[i]][1]
  <2>1. d \in D
    BY <1>3
  <2>2. Before(d, d)
    BY <1>1, <1>4
  <2>3. d[1] \in Nat
    <3>1. seen[r] \in Seq(Lines)
      BY DEF SeenInv
    <3>2. DOMAIN seen[r] = 1..Len(seen[r]) /\ Len(seen[r]) \in Nat
      BY <3>1, LenProperties
    <3> HIDE DEF d
    <3>3. \E n \in DOMAIN seen[r] : \E p \in DOMAIN seen[r][n].tools : d = <<n, p>>
      BY <2>1 DEF Deltas
    <3> QED
      BY <3>2, <3>3
  <2>4. d[2] \in Nat
    <3>1. seen[r] \in Seq(Lines)
      BY DEF SeenInv
    <3> HIDE DEF d
    <3>2. PICK n \in DOMAIN seen[r] : \E p \in DOMAIN seen[r][n].tools : d = <<n, p>>
      BY <2>1 DEF Deltas
    <3>3. seen[r][n] \in Lines
      BY <3>1
    <3>4. seen[r][n].tools \in Seq(Nat)
      BY <3>3, ChatAssumption
    <3>5. DOMAIN seen[r][n].tools \subseteq Nat
      BY <3>4
    <3> QED
      BY <3>2, <3>5
  <2> HIDE DEF d
  <2> QED
    BY <2>2, <2>3, <2>4 DEF Before
<1>5. IsInjective(ord)
  <2> SUFFICES ASSUME NEW i \in DOMAIN ord, NEW j \in DOMAIN ord, ord[i] = ord[j],
                      i # j
               PROVE  FALSE
    BY DEF IsInjective
  <2>1. i < j \/ j < i
    BY <1>2
  <2> HIDE DEF ord
  <2> QED
    BY <1>4, <2>1
<1> QED
  BY <1>1, <1>3, <1>5

\* The final frame of a stream holds its tool calls whole, whatever deltas a
\* line holds and however the calls are mixed.
THEOREM CallsWhole == Spec => []ToolCallsWhole
<1>1. SeenInv /\ ToolInv => ToolCallsWhole
  <2> SUFFICES ASSUME SeenInv, ToolInv, NEW r \in Requests, NEW k \in DOMAIN out[r],
                      out[r][k].type = "final"
               PROVE
                   LET calls == out[r][k].tools IN
                   /\ \A d \in Deltas(seen[r]) :
                         \E i \in DOMAIN calls : calls[i].index = IndexOf(seen[r], d)
                   /\ \A i \in DOMAIN calls :
                         LET pieces == calls[i].pieces IN
                         /\ pieces # <<>>
                         /\ Range(pieces) =
                               {d \in Deltas(seen[r]) :
                                   IndexOf(seen[r], d) = calls[i].index}
                         /\ \A a, b \in DOMAIN pieces :
                               a < b => Before(pieces[a], pieces[b])
                   /\ \A i, j \in DOMAIN calls :
                         i < j => Before(calls[i].pieces[1], calls[j].pieces[1])
    BY DEF ToolCallsWhole
  <2> DEFINE calls == out[r][k].tools
             ord == order[r]
             ar == args[r]
             D == Deltas(seen[r])
  <2>1. calls = Collected(r)
    BY DEF ToolInv, FramesOf
  <2>2. /\ DOMAIN calls = DOMAIN ord
        /\ \A i \in DOMAIN ord :
              calls[i].index = ord[i] /\ calls[i].pieces = ar[ord[i]]
    BY <2>1 DEF Collected
  <2>3. /\ Range(ord) = {IndexOf(seen[r], d) : d \in D}
        /\ \A x \in Indexes : /\ Range(ar[x]) = {d \in D : IndexOf(seen[r], d) = x}
                              /\ Ascending(ar[x])
        /\ \A i, j \in DOMAIN ord : i < j => Before(ar[ord[i]][1], ar[ord[j]][1])
    BY DEF ToolInv, Assembled
  <2>4. \A i \in DOMAIN ord : ord[i] \in Indexes /\ ar[ord[i]] # <<>>
    BY OnePerIndex
  <2> HIDE DEF calls, ord, ar, D
  <2>5. ASSUME NEW d \in D
        PROVE  \E i \in DOMAIN calls : calls[i].index = IndexOf(seen[r], d)
    <3>1. IndexOf(seen[r], d) \in Range(ord)
      BY <2>3
    <3>2. PICK i \in DOMAIN ord : ord[i] = IndexOf(seen[r], d)
      BY <3>1 DEF Range
    <3> QED
      BY <2>2, <3>2
  <2>6. ASSUME NEW i \in DOMAIN calls
        PROVE  LET pieces == calls[i].pieces IN
               /\ pieces # <<>>
               /\ Range(pieces) = {d \in D : IndexOf(seen[r], d) = calls[i].index}
               /\ \A a, b \in DOMAIN pieces : a < b => Before(pieces[a], pieces[b])
    BY <2>2, <2>3, <2>4 DEF Ascending
  <2>7. \A i, j \in DOMAIN calls :
            i < j => Before(calls[i].pieces[1], calls[j].pieces[1])
    BY <2>2, <2>3
  <2> QED
    BY <2>5, <2>6, <2>7 DEF calls, D
<1>2. Init => FlowInv
  BY Empty DEF Init, FlowInv, Flow, AllChunks
<1> QED
  BY <1>1, <1>2, WriteInit, WriteNext, FlowNext, SeenInit, SeenNext, ToolInit,
     ToolNext, PTL DEF Spec

-----------------------------------------------------------------------------
(* Types *)

TypeInv ==
    /\ alive \in BOOLEAN
    /\ ping \in {"none", "sent", "read"}
    /\ reader \in {"hello", "read", "gone"}
    /\ \A r \in Requests : max[r] \in MaxTokens[r] \cup {0}
    /\ \A g \in Writers : \A f \in FramesOf(pending[g]) : f.type \in Types

LEMMA TypeNext == WriteInv /\ TypeInv /\ [Next]_vars => TypeInv'
<1> SUFFICES ASSUME WriteInv, TypeInv, [Next]_vars PROVE TypeInv'
  OBVIOUS
<1>1. ASSUME NEW r \in Requests, HandlerStep(r)
      PROVE  TypeInv'
  <2>1. UNCHANGED <<alive, ping, reader, max>>
    BY <1>1, HandlerSends
  <2>2. ASSUME NEW g \in Writers, NEW f \in FramesOf(pending'[g])
        PROVE  f.type \in Types
    <3>1. CASE g # r
      <4>1. pending'[g] = pending[g]
        BY <1>1, <3>1, HandlerSends DEF WriteInv, Shape
      <4> QED
        BY <2>2, <4>1 DEF TypeInv
    <3>2. CASE g = r /\ Line(r)
      <4>1. PICK l \in Lines :
                pending' = [pending EXCEPT ![r] = Chunks(l, Len(seen[r]) + 1)]
        BY <3>2 DEF Line, Send
      <4>2. pending'[r] = Chunks(l, Len(seen[r]) + 1)
        BY <3>2, <4>1 DEF WriteInv, Shape
      <4> QED
        BY <2>2, <3>2, <4>2, ChunksSent DEF AllChunks, ChunkTypes, Types
    <3>3. CASE g = r /\ ~Line(r)
      BY <1>1, <2>2, <3>3, HandlerEnds DEF Types
    <3> QED
      BY <3>1, <3>2, <3>3
  <2> QED
    BY <2>1, <2>2 DEF TypeInv
<1>2. ASSUME NEW r \in Requests, Receive(r)
      PROVE  TypeInv'
  BY <1>2 DEF Receive, TypeInv, WriteInv, Shape
<1>3. ASSUME NEW g \in Writers, StartWrite(g)
      PROVE  TypeInv'
  BY <1>3 DEF StartWrite, requestVars, TypeInv
<1>4. ASSUME NEW g \in Writers, EndWrite(g)
      PROVE  TypeInv'
  <2>1. UNCHANGED <<alive, reader, max>> /\ ping' \in {ping, "none"}
    BY <1>4, WriteMoves DEF EndWrite, Written
  <2>2. \A h \in Writers : FramesOf(pending'[h]) \subseteq FramesOf(pending[h])
    BY <1>4, WriteMoves
  <2> QED
    BY <2>1, <2>2 DEF TypeInv
<1>5. CASE ReaderStep
  <2>1. \A t \in {"hello", "pong"} : FramesOf(<<Frame(t)>>) = {Frame(t)}
                                     /\ Frame(t).type \in Types
    BY One, FrameFields DEF Types
  <2>2. CASE Hello
    BY <2>1, <2>2 DEF Hello, Send, requestVars, TypeInv, WriteInv, Shape
  <2>3. CASE ReadPing
    BY <2>1, <2>3 DEF ReadPing, Send, requestVars, TypeInv, WriteInv, Shape
  <2>4. CASE ReadError
    BY <2>4 DEF ReadError, requestVars, TypeInv
  <2> QED
    BY <1>5, <2>2, <2>3, <2>4 DEF ReaderStep
<1>6. CASE RouterPings \/ Drop
  BY <1>6 DEF RouterPings, Drop, requestVars, TypeInv
<1>7. CASE UNCHANGED vars
  BY <1>7 DEF vars, TypeInv
<1> QED
  BY <1>1, <1>2, <1>3, <1>4, <1>5, <1>6, <1>7 DEF Next

\* Every variable has its type: nobody is in WriteMessage without a frame, the
\* frames are those of the protocol, and toolCallOrder holds no index twice.
THEOREM TypeCorrect == Spec => []TypeOK
<1>1. WriteInv /\ FlowInv /\ SeenInv /\ ToolInv /\ TypeInv => TypeOK
  <2> SUFFICES ASSUME WriteInv, FlowInv, SeenInv, ToolInv, TypeInv PROVE TypeOK
    OBVIOUS
  <2>1. ASSUME NEW r \in Requests
        PROVE  /\ kind[r] \in {"none", "stream", "plain", "benchmark"}
               /\ max[r] \in MaxTokens[r] \cup {0}
               /\ pc[r] \in {"idle", "ask", "open", "done"}
               /\ Len(seen[r]) <= MaxLines[r]
               /\ IsInjective(order[r])
               /\ DOMAIN args[r] = Indexes
    BY OnePerIndex DEF FlowInv, Flow, SeenInv, TypeInv
  <2>2. \A g \in Writers :
            {pending[g][i].type : i \in DOMAIN pending[g]} \subseteq Types
    BY DEF TypeInv, FramesOf
  <2>3. writing \subseteq {g \in Writers : pending[g] # <<>>} /\ caps \in CapSets
    BY DEF WriteInv, Shape
  <2> QED
    BY <2>1, <2>2, <2>3 DEF TypeOK, TypeInv
<1>2. Init => FlowInv /\ TypeInv
  BY Empty DEF Init, FlowInv, Flow, AllChunks, TypeInv
<1> QED
  BY <1>1, <1>2, WriteInit, WriteNext, FlowNext, SeenInit, SeenNext, ToolInit,
     ToolNext, TypeNext, PTL DEF Spec
=============================================================================
