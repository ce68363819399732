----------------------------- MODULE ChatFrames -----------------------------
(***************************************************************************)
(* What the requests of one router connection put on the wire              *)
(* (connection.go, and chat and stream of backend.go).                     *)
(*                                                                         *)
(* The read loop starts one handler per request and answers pings; every   *)
(* handler and the read loop write to the socket under writeMu.  A stream  *)
(* of the backend is a sequence of lines, of which the model keeps whether *)
(* they hold content, reasoning and which tool calls they continue.  What  *)
(* a line adds to content or reasoning goes by the number of the line, and *)
(* a delta of a tool call by <<number of the line, place in the line>>.    *)
(* Usage, finish reason, logprobs and the ids and names of tool calls are  *)
(* left out.                                                               *)
(***************************************************************************)
EXTENDS Integers, SequencesExt

CONSTANTS
    Requests,    \* the requests the router may send
    Reader,      \* the read loop
    Lines,       \* the lines a stream may consist of
    MaxLines,    \* bound: how many lines each request's stream has at most
    CapSets,     \* the Capabilities an agent may be started with
    MaxTokens    \* the max_tokens each request may ask for

ASSUME ChatAssumption ==
    /\ Reader \notin Requests
    /\ \A l \in Lines : /\ l.content \in BOOLEAN /\ l.reasoning \in BOOLEAN
                        /\ l.tools \in Seq(Nat)
    /\ MaxLines \in [Requests -> Nat]
    /\ \A c \in CapSets : c.MaxOutputLength \in Nat /\ c.ContextLength \in Nat
    /\ MaxTokens \in [Requests -> SUBSET Int]

Writers == Requests \cup {Reader}

VARIABLES
    caps,      \* the Capabilities of this agent
    alive,     \* is the socket open?
    ping,      \* the router's last ping: sent, read (by the read loop), none
               \* (answered)
    reader,    \* the read loop: hello, read, gone
    kind,      \* per request: none, stream, plain (not streamed), benchmark
    max,       \* its max_tokens
    pc,        \* its handler: idle, ask (the backend), open (reads its
               \* stream), done (nothing left but to send what is pending)
    seen,      \* the lines of its stream so far
    order,     \* toolCallOrder
    args,      \* toolCalls: per index the pieces of its arguments
    pending,   \* per writer: the frames it is about to send
    writing,   \* who is inside conn.WriteMessage
    out        \* history: per request, its frames on the wire

streamVars == <<seen, order, args>>
requestVars == <<kind, max, pc>>
vars == <<caps, alive, ping, reader, kind, max, pc, seen, order, args, pending,
          writing, out>>

-----------------------------------------------------------------------------
(* max_tokens *)

\* Faulty variant: the operator's cap, where there is one, hides the context.
Ceiling_Operator(c) ==
    IF c.MaxOutputLength > 0 THEN c.MaxOutputLength ELSE c.ContextLength

Ceiling(c) ==
    IF c.ContextLength > 0
          /\ (c.MaxOutputLength <= 0 \/ c.ContextLength < c.MaxOutputLength)
      THEN c.ContextLength
      ELSE c.MaxOutputLength

Clamped(n) == n > 0 /\ Ceiling(caps) > 0 /\ n > Ceiling(caps)

\* clampMaxTokens: what the backend is asked for.
Effective(n) == IF Clamped(n) THEN Ceiling(caps) ELSE n

-----------------------------------------------------------------------------
(* Frames *)

Frame(type) == [type |-> type, line |-> 0, tools |-> <<>>, max |-> 0]
Chunk(type, n) == [Frame(type) EXCEPT !.line = n]

\* A response or final, with effective_max_tokens if that is to be told.
Ending(type, r, tools) ==
    [type |-> type, line |-> 0, tools |-> tools,
     max |-> IF Clamped(max[r]) THEN Effective(max[r]) ELSE 0]

Collected(r) ==
    [i \in DOMAIN order[r] |->
        [index |-> order[r][i], pieces |-> args[r][order[r][i]]]]

Send(g, frames) == pending' = [pending EXCEPT ![g] = frames]
Goto(r, from, to) == pc[r] = from /\ pc' = [pc EXCEPT ![r] = to]

-----------------------------------------------------------------------------
(* The read loop *)

Reads == reader = "read" /\ pending[Reader] = <<>> /\ alive

Hello ==
    /\ reader = "hello"
    /\ reader' = "read"
    /\ Send(Reader, <<Frame("hello")>>)
    /\ UNCHANGED <<caps, alive, ping, requestVars, streamVars, writing,
                   out>>

\* A chat or benchmark frame: a handler of its own.
Receive(r) ==
    /\ Reads
    /\ kind[r] = "none"
    /\ \E k \in {"stream", "plain", "benchmark"}, n \in MaxTokens[r] :
          /\ kind' = [kind EXCEPT ![r] = k]
          /\ max' = [max EXCEPT ![r] = n]
    /\ Goto(r, "idle", "ask")
    /\ UNCHANGED <<caps, alive, ping, reader, streamVars, pending, writing,
                   out>>

\* Faulty variant: the ping handler does not answer.
ReadPing_Silent ==
    /\ Reads
    /\ ping = "sent"
    /\ ping' = "read"
    /\ UNCHANGED <<caps, alive, reader, requestVars, streamVars, pending,
                   writing, out>>

ReadPing ==
    /\ Reads
    /\ ping = "sent"
    /\ ping' = "read"
    /\ Send(Reader, <<Frame("pong")>>)
    /\ UNCHANGED <<caps, alive, reader, requestVars, streamVars, writing,
                   out>>

\* ReadMessage fails: the loop is left, to wait for the handlers.
ReadError ==
    /\ reader = "read"
    /\ pending[Reader] = <<>>
    /\ ~alive
    /\ reader' = "gone"
    /\ UNCHANGED <<caps, alive, ping, requestVars, streamVars, pending, writing,
                   out>>

-----------------------------------------------------------------------------
(* send *)

\* Faulty variant: the pong does not wait for writeMu.
WriteMuFree_NotForPong(g) == writing = {} \/ g = Reader
WriteMuFree(g) == writing = {}

StartWrite(g) ==
    /\ pending[g] # <<>>
    /\ g \notin writing
    /\ WriteMuFree(g)
    /\ writing' = writing \cup {g}
    /\ UNCHANGED <<caps, alive, ping, reader, requestVars, streamVars, pending,
                   out>>

\* WriteMessage has returned: the frame is on the wire if the socket holds.
Written(g) ==
    LET frame == Head(pending[g]) IN
    /\ Send(g, Tail(pending[g]))
    /\ out' = IF alive /\ g \in Requests
                THEN [out EXCEPT ![g] = Append(@, frame)] ELSE out
    /\ ping' = IF alive /\ frame.type = "pong" THEN "none" ELSE ping
    /\ UNCHANGED <<caps, alive, reader, requestVars, streamVars>>

\* Faulty variant: returns without unlocking writeMu.
EndWrite_NoUnlock(g) ==
    /\ g \in writing
    /\ pending[g] # <<>>
    /\ Written(g)
    /\ UNCHANGED writing

\* An error of the write is ignored.
EndWrite(g) ==
    /\ g \in writing
    /\ Written(g)
    /\ writing' = writing \ {g}

-----------------------------------------------------------------------------
(* The handlers *)

\* No answer of the backend, or one that is not 200.  Faulty variant: the
\* handler returns without an error frame.
Refused_Silent(r) ==
    /\ kind[r] \in {"stream", "plain"}
    /\ Goto(r, "ask", "done")
    /\ UNCHANGED <<caps, alive, ping, reader, kind, max, streamVars, pending,
                   writing, out>>

Refused(r) ==
    /\ kind[r] \in {"stream", "plain"}
    /\ Goto(r, "ask", "done")
    /\ Send(r, <<Frame("error")>>)
    /\ UNCHANGED <<caps, alive, ping, reader, kind, max, streamVars, writing,
                   out>>

Answered(r) ==
    /\ kind[r] = "plain"
    /\ Goto(r, "ask", "done")
    /\ Send(r, <<Ending("response", r, <<>>)>>)
    /\ UNCHANGED <<caps, alive, ping, reader, kind, max, streamVars, writing,
                   out>>

\* runBenchmark has returned; its errors are part of its result.
Benchmarked(r) ==
    /\ kind[r] = "benchmark"
    /\ Goto(r, "ask", "done")
    /\ Send(r, <<Frame("benchmark_result")>>)
    /\ UNCHANGED <<caps, alive, ping, reader, kind, max, streamVars, writing,
                   out>>

Opened(r) ==
    /\ kind[r] = "stream"
    /\ Goto(r, "ask", "open")
    /\ UNCHANGED <<caps, alive, ping, reader, kind, max, streamVars, pending,
                   writing, out>>

\* The chunk frames of line l, the n-th: content first.  Faulty variant:
\* reasoning is taken for the rest of a line without content.
Chunks_Either(l, n) ==
    IF l.content THEN <<Chunk("content", n)>>
    ELSE IF l.reasoning THEN <<Chunk("reasoning", n)>> ELSE <<>>

Chunks(l, n) ==
    (IF l.content THEN <<Chunk("content", n)>> ELSE <<>>)
    \o (IF l.reasoning THEN <<Chunk("reasoning", n)>> ELSE <<>>)

\* Delta d: a piece of the arguments of the tool call with the given index.
\* Faulty variant: the tool call starts anew with every delta.
AddDelta_New(acc, index, d) ==
    [order |-> IF Contains(acc.order, index) THEN acc.order
               ELSE Append(acc.order, index),
     args |-> [acc.args EXCEPT ![index] = <<d>>]]

AddDelta(acc, index, d) ==
    [order |-> IF Contains(acc.order, index) THEN acc.order
               ELSE Append(acc.order, index),
     args |-> [acc.args EXCEPT ![index] = Append(@, d)]]

\* toolCallOrder and toolCalls of r after its n-th line.
Collect(r, l, n) ==
    LET acc[p \in 0..Len(l.tools)] ==
            IF p = 0 THEN [order |-> order[r], args |-> args[r]]
            ELSE AddDelta(acc[p - 1], l.tools[p], <<n, p>>)
    IN  acc[Len(l.tools)]

\* A line that is not data or does not parse is like one that holds nothing.
Line(r) ==
    LET n == Len(seen[r]) + 1 IN
    /\ pc[r] = "open"
    /\ pending[r] = <<>>
    /\ n <= MaxLines[r]
    /\ \E l \in Lines :
          /\ seen' = [seen EXCEPT ![r] = Append(@, l)]
          /\ order' = [order EXCEPT ![r] = Collect(r, l, n).order]
          /\ args' = [args EXCEPT ![r] = Collect(r, l, n).args]
          /\ Send(r, Chunks(l, n))
    /\ UNCHANGED <<caps, alive, ping, reader, requestVars, writing, out>>

\* [DONE], or the end of the body.
StreamEnds(r) ==
    /\ pending[r] = <<>>
    /\ Goto(r, "open", "done")
    /\ Send(r, <<Ending("final", r, Collected(r))>>)
    /\ UNCHANGED <<caps, alive, ping, reader, kind, max, streamVars, writing,
                   out>>

\* The scanner stops with an error: onFinal is called and the error returned.
StreamBreaks(r) ==
    /\ pending[r] = <<>>
    /\ Goto(r, "open", "done")
    /\ Send(r, <<Ending("final", r, Collected(r)), Frame("error")>>)
    /\ UNCHANGED <<caps, alive, ping, reader, kind, max, streamVars, writing,
                   out>>

-----------------------------------------------------------------------------
(* The router and the network *)

\* One ping at a time.
RouterPings ==
    /\ alive
    /\ ping = "none"
    /\ ping' = "sent"
    /\ UNCHANGED <<caps, alive, reader, requestVars, streamVars, pending,
                   writing, out>>

Drop ==
    /\ alive
    /\ alive' = FALSE
    /\ UNCHANGED <<caps, ping, reader, requestVars, streamVars, pending,
                   writing, out>>

-----------------------------------------------------------------------------
Indexes == UNION {Range(l.tools) : l \in Lines}

Init ==
    /\ caps \in CapSets
    /\ alive = TRUE
    /\ ping = "none"
    /\ reader = "hello"
    /\ kind = [r \in Requests |-> "none"]
    /\ max = [r \in Requests |-> 0]
    /\ pc = [r \in Requests |-> "idle"]
    /\ seen = [r \in Requests |-> <<>>]
    /\ order = [r \in Requests |-> <<>>]
    /\ args = [r \in Requests |-> [i \in Indexes |-> <<>>]]
    /\ pending = [g \in Writers |-> <<>>]
    /\ writing = {}
    /\ out = [r \in Requests |-> <<>>]

HandlerStep(r) ==
    Refused(r) \/ Answered(r) \/ Benchmarked(r) \/ Opened(r) \/ Line(r)
    \/ StreamEnds(r) \/ StreamBreaks(r)

ReaderStep == Hello \/ ReadPing \/ ReadError

Next ==
    \/ \E r \in Requests : HandlerStep(r) \/ Receive(r)
    \/ \E g \in Writers : StartWrite(g) \/ EndWrite(g)
    \/ ReaderStep \/ RouterPings \/ Drop

Spec == Init /\ [][Next]_vars

(***************************************************************************)
(* The goroutines run, the backend answers, and the router reads what is   *)
(* sent, so that a write returns.  Getting writeMu takes strong fairness,  *)
(* because pongs and other requests take it again and again: sync.Mutex    *)
(* hands itself to a goroutine that has waited for it for a millisecond.   *)
(***************************************************************************)
FairSpec ==
    /\ Spec
    /\ WF_vars(ReaderStep)
    /\ \A r \in Requests : WF_vars(HandlerStep(r))
    /\ \A g \in Writers : SF_vars(StartWrite(g)) /\ WF_vars(EndWrite(g))

-----------------------------------------------------------------------------
Endings == {"response", "final", "error", "benchmark_result"}
Types == {"content", "reasoning", "hello", "pong"} \cup Endings

\* Every variable has its type.
TypeOK ==
    /\ caps \in CapSets
    /\ alive \in BOOLEAN
    /\ ping \in {"none", "sent", "read"}
    /\ reader \in {"hello", "read", "gone"}
    /\ \A r \in Requests :
          /\ kind[r] \in {"none", "stream", "plain", "benchmark"}
          /\ max[r] \in MaxTokens[r] \cup {0}
          /\ pc[r] \in {"idle", "ask", "open", "done"}
          /\ Len(seen[r]) <= MaxLines[r]
          /\ IsInjective(order[r])
          /\ DOMAIN args[r] = Indexes
    /\ writing \subseteq {g \in Writers : pending[g] # <<>>}
    /\ \A g \in Writers :
          {pending[g][i].type : i \in DOMAIN pending[g]} \subseteq Types

\* "gorilla/websocket forbids concurrent writers on one connection".
OneWriter == \A g, h \in writing : g = h

ChunkTypes == {"content", "reasoning"}
Holds(l, type) == IF type = "content" THEN l.content ELSE l.reasoning

\* The pieces of content and of reasoning in a stream, by line and type, and
\* those that frames carry.
Pieces(lines) ==
    {p \in (DOMAIN lines) \X ChunkTypes : Holds(lines[p[1]], p[2])}
Piece(frame) == <<frame.line, frame.type>>
ChunksOf(frames) == {i \in DOMAIN frames : frames[i].type \in ChunkTypes}
PiecesOf(frames) == {Piece(frames[i]) : i \in ChunksOf(frames)}

Earlier(p, q) ==
    \/ p[1] < q[1]
    \/ p[1] = q[1] /\ p[2] = "content" /\ q[2] = "reasoning"

InOrder(frames) ==
    \A i, j \in ChunksOf(frames) :
        i < j => Earlier(Piece(frames[i]), Piece(frames[j]))

\* On a socket that holds, the router gets every piece of content and of
\* reasoning once, in the order of the backend and without a gap, before the
\* frame that ends the request, whatever other requests and pings do in between.
StreamFaithful ==
    alive =>
        \A r \in Requests :
            LET sent == PiecesOf(out[r]) IN
            /\ sent \subseteq Pieces(seen[r]) /\ InOrder(out[r])
            /\ \A p \in Pieces(seen[r]), q \in sent : Earlier(p, q) => p \in sent
            /\ (\E i \in DOMAIN out[r] : out[r][i].type \in Endings) =>
                  /\ sent = Pieces(seen[r])
                  /\ Last(out[r]).type \in Endings

\* The deltas of tool calls in a stream.
Deltas(lines) ==
    UNION {{<<n, p>> : p \in DOMAIN lines[n].tools} : n \in DOMAIN lines}
IndexOf(lines, d) == lines[d[1]].tools[d[2]]
Before(d, e) == d[1] < e[1] \/ (d[1] = e[1] /\ d[2] < e[2])

\* The tool calls of a final frame are those of the whole stream: one per
\* index, in the order in which they first came up, each with all its deltas,
\* and no others, in their order.
ToolCallsWhole ==
    \A r \in Requests : \A k \in DOMAIN out[r] :
        out[r][k].type = "final" =>
            LET calls == out[r][k].tools IN
            /\ \A d \in Deltas(seen[r]) :
                  \E i \in DOMAIN calls : calls[i].index = IndexOf(seen[r], d)
            /\ \A i \in DOMAIN calls :
                  LET pieces == calls[i].pieces IN
                  /\ pieces # <<>>
                  /\ Range(pieces) = {d \in Deltas(seen[r]) :
                                         IndexOf(seen[r], d) = calls[i].index}
                  /\ \A a, b \in DOMAIN pieces : a < b => Before(pieces[a], pieces[b])
            /\ \A i, j \in DOMAIN calls :
                  i < j => Before(calls[i].pieces[1], calls[j].pieces[1])

\* A request that sets max_tokens is never passed on with more than any cap
\* that is set, and is told what was used instead just when that is less.
TokensWithinCaps ==
    \A r \in Requests : max[r] > 0 =>
        /\ \A cap \in {caps.MaxOutputLength, caps.ContextLength} :
              cap > 0 => Effective(max[r]) <= cap
        /\ \A k \in DOMAIN out[r] :
              out[r][k].type \in {"response", "final"} =>
                  out[r][k].max = IF Effective(max[r]) = max[r] THEN 0
                                  ELSE Effective(max[r])

\* How far the reply to a request has come on the wire.
ReplyOf(r) ==
    CASE kind[r] = "none" -> "none"
      [] kind[r] # "none" /\ out[r] = <<>> -> "owed"
      [] OTHER -> LET type == Last(out[r]).type IN
                  CASE type \in {"content", "reasoning"} -> "begun"
                    [] type = "final" -> "complete"
                    [] OTHER -> "ended"

R == INSTANCE Reply WITH reply <- [r \in Requests |-> ReplyOf(r)]

\* The frames of each request form one reply, whatever the order in which the
\* handlers and the read loop get to write: chunks, then one ending, which a
\* stream that broke off may take back, and an ending comes unless the socket
\* drops.
RepliesComplete == R!Spec

\* However busy the handlers keep the socket and writeMu, the read loop comes
\* to read a ping and its pong comes to be written.
PingAnswered == (ping # "none") ~> (~alive \/ ping = "none")

\* What docs/AGENT_PROTOCOL.md says of an error frame: "Send this instead of a
\* response/final frame (not in addition to one)".
ErrorInstead ==
    \A r \in Requests :
        \A i, j \in DOMAIN out[r] :
            out[r][i].type = "error" => out[r][j].type \notin {"response", "final"}
=============================================================================
