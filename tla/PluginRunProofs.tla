--------------------------- MODULE PluginRunProofs ---------------------------
(***************************************************************************)
(* Theorems about a parser run.  What a guest sends reaches the host in    *)
(* order, through buffers that hold any part of it, and may be cut off at  *)
(* any point.  A position in that stream is a pair of the outputs that are *)
(* complete and of what is there of the next one; every message stands     *)
(* between two positions.  The invariant says that the messages under way  *)
(* lead from the position of the host to that of the guest.                *)
(***************************************************************************)
EXTENDS PluginRun, SequenceTheorems, TLAPS

--------------------------------------------------------------------------------
(* The Python bridge. *)

\* The plans parse() may return, and the messages about one of them.
Plans == {p \in Seq(1 .. MaxBatches) : Len(p) <= MaxOutputs}

Payloads == Int \cup (Int \X Int)

Kinds == {"start", "batch", "end", "log", "metrics", "error", "eos"}

Parts == {"head", "body"}

Messages == [kind : Kinds, what : Payloads, part : Parts]

Message(m, plan) ==
    /\ m.part \in {"head", "body"}
    /\ \/ m.kind \in {"start", "end"} /\ m.what \in 1 .. Len(plan)
       \/ m.kind = "batch" /\ \E i \in 1 .. Len(plan) : \E b \in 1 .. plan[i] : m.what = <<i, b>>
       \/ m.kind = "log" /\ m.what \in 0 .. 2
       \/ m.kind \in {"metrics", "error"}
       \/ m.kind = "eos" /\ m.part = "head"

\* After one of these nothing is read any more that counts.
Final(m) == m.kind \in {"error", "eos"} \/ (m.kind = "log" /\ m.what = 2)

Before(m, plan) ==
    CASE m.kind = "start" -> <<m.what - 1, -1>>
      [] m.kind = "batch" -> <<m.what[1] - 1, m.what[2] - 1>>
      [] m.kind = "end" -> <<m.what - 1, plan[m.what]>>
      [] m.kind = "log" /\ m.what = 0 -> <<0, -1>>
      [] OTHER -> <<Len(plan), -1>>

After(m, plan) ==
    CASE Final(m) -> <<-1, -1>>
      [] m.kind = "start" -> <<m.what - 1, 0>>
      [] m.kind = "batch" -> <<m.what[1] - 1, m.what[2]>>
      [] m.kind = "end" -> <<m.what, -1>>
      [] m.kind = "metrics" -> <<Len(plan), -2>>
      [] m.kind = "log" /\ m.what = 0 -> <<0, -1>>
      [] OTHER -> <<Len(plan), -1>>

Link(p, m, plan) == Final(m) \/ Before(m, plan) = p
Opens(m) == m.part = "head" /\ m.kind # "eos"

Follows(x, y, plan) ==
    IF Opens(x) THEN y = [x EXCEPT !.part = "body"]
    ELSE y.part = "head" /\ Link(After(x, plan), y, plan)

\* w leads on from position p.
Chain(w, p, plan) ==
    /\ \A j \in 1 .. Len(w) : Message(w[j], plan)
    /\ w # <<>> => w[1].part = "head" /\ Link(p, w[1], plan)
    /\ \A j \in 1 .. Len(w) - 1 : Follows(w[j], w[j + 1], plan)

Ends(w, p, plan) == IF w = <<>> THEN p ELSE After(w[Len(w)], plan)
Whole(w) == w # <<>> => ~Opens(w[Len(w)])

\* What the host has read.
HostPos(h) ==
    <<Len(h.outputs), IF h.metrics THEN -2 ELSE IF h.current = None THEN -1 ELSE Len(h.current)>>

Reading(h) == h.pc \in {"spawned", "accept", "header", "body"}

HostShape(h) ==
    /\ h = [pc |-> h.pc, frame |-> h.frame, outputs |-> h.outputs, current |-> h.current,
            index |-> h.index, metrics |-> h.metrics, error |-> h.error, result |-> h.result]
    /\ h.metrics \in BOOLEAN

HostGood(h, plan) ==
    /\ h.outputs \in Seq(Seq(Int \X Int)) /\ Len(h.outputs) <= Len(plan)
    /\ \A i \in 1 .. Len(h.outputs) : h.outputs[i] = B!Batches(i, plan[i])
    /\ \/ h.current = None
       \/ /\ h.index = Len(h.outputs) + 1 /\ h.index <= Len(plan) /\ ~h.metrics
          /\ \E n \in 0 .. plan[h.index] : h.current = B!Batches(h.index, n)
    /\ h.pc = "body" => h.frame \in Messages /\ h.frame.kind # "eos"

\* What is under way: the header the host has read, the socket, and what a living
\* guest still has to send.
Got(h) == IF h.pc = "body" THEN <<h.frame>> ELSE <<>>
Rest(g) == IF g.pc # "dead" THEN g.out ELSE <<>>
Pending(h, s, g) == Got(h) \o s \o Rest(g)

Early(g) == g.pc \in {"starting", "plugin", "logging", "writing", "hung"}

GuestShape(g) ==
    /\ g = [pc |-> g.pc, connected |-> g.connected, closed |-> g.closed, out |-> g.out,
            plan |-> g.plan, next |-> g.next, at |-> g.at, exit |-> g.exit, pipe |-> g.pipe,
            written |-> g.written, uv |-> g.uv]
    /\ g.out \in Seq(Messages)

GuestGood(g) ==
    /\ g.plan \in Plans
    /\ Early(g) => g.plan = <<>> /\ g.next = 1 /\ g.at = 0
    /\ g.pc = "publish" =>
          /\ g.next \in 1 .. Len(g.plan) + 1
          /\ IF g.next <= Len(g.plan) THEN g.at \in 0 .. g.plan[g.next] + 1 ELSE g.at = 0

\* The job was cancelled, and what the host killed was uv.
LeftRunning(h, g) == g.uv = "killed" /\ h.error = "cancelled"

\* The position of the guest, as long as it goes on.
GuestAt(g, p) == Early(g) \/ g.pc = "publish" => p = <<g.next - 1, g.at - 1>>

Flow(w, p, g) ==
    /\ Chain(w, p, g.plan)
    /\ g.pc # "dead" => Whole(w) /\ GuestAt(g, Ends(w, p, g.plan))
    /\ Early(g) => \A j \in 1 .. Len(w) : w[j].kind = "log" /\ w[j].what = 0

BridgeInv ==
    /\ HostShape(host) /\ GuestShape(guest) /\ socket \in Seq(Messages)
    /\ GuestGood(guest)
    /\ Reading(host) => /\ HostGood(host, guest.plan)
                        /\ Flow(Pending(host, socket, guest), HostPos(host), guest)
    /\ host.metrics => /\ ~Early(guest)
                       /\ host.current = None
                       /\ host.outputs = B!ParserOutputs
    /\ host.error # "protocol"
    /\ host.result = "ok" => host.metrics
    /\ B!Returned => ~B!Alive \/ LeftRunning(host, guest)

--------------------------------------------------------------------------------
(* The native runtime. *)

NKinds == {"hello", "warning", "error", "begin", "other", "end", "schema", "batch", "eos"}

NMessages == [to : {"stderr", "stdout"}, kind : NKinds, what : Payloads]

\* A position is an output, from 0, and the piece of its stream that comes next; the
\* lines stand at one, the pieces lead from one to the next.
NBefore(m, plan) ==
    CASE m.kind \in {"begin", "other", "schema"} -> <<m.what, 0>>
      [] m.kind = "batch" -> m.what
      [] m.kind = "eos" -> <<m.what, plan[m.what + 1] + 1>>
      [] m.kind = "end" -> <<m.what + 1, 0>>
      [] OTHER -> <<0, 0>>

NAfter(m, plan) ==
    CASE m.kind \in {"begin", "other"} -> <<m.what, 0>>
      [] m.kind = "schema" -> <<m.what, 1>>
      [] m.kind = "batch" -> <<m.what[1], m.what[2] + 1>>
      [] m.kind \in {"eos", "end"} -> <<m.what + 1, 0>>
      [] OTHER -> <<0, 0>>

LineOK(m, plan) ==
    /\ m.to = "stderr"
    /\ \/ m.kind \in {"begin", "other", "end"} /\ m.what \in 0 .. Len(plan) - 1
       \/ m.kind \in {"hello", "warning", "error"}

PieceOK(m, plan) ==
    /\ m.to = "stdout"
    /\ \/ m.kind \in {"schema", "eos"} /\ m.what \in 0 .. Len(plan) - 1
       \/ m.kind = "batch" /\ \E i \in 1 .. Len(plan) : \E b \in 1 .. plan[i] : m.what = <<i - 1, b>>

\* w leads on from position p.
NChain(w, p, plan) ==
    /\ w # <<>> => NBefore(w[1], plan) = p
    /\ \A j \in 1 .. Len(w) - 1 : NBefore(w[j + 1], plan) = NAfter(w[j], plan)

NEnds(w, p, plan) == IF w = <<>> THEN p ELSE NAfter(w[Len(w)], plan)

\* Where run_file is in the stream.
NReading(n) == n.pc \in {"hello", "frame", "schema", "stream", "end"}

NHostPos(n) ==
    CASE n.pc = "stream" -> <<n.expected, Len(n.batches) + 1>>
      [] n.pc = "end" -> <<n.expected + 1, 0>>
      [] OTHER -> <<n.expected, 0>>

\* The pipe leads on from the host at p.
Stream(p, c, d) ==
    /\ \A j \in 1 .. Len(d) : PieceOK(d[j], c.plan)
    /\ NChain(d, p, c.plan)

\* The outputs whose end is written.
EndsWritten(c) ==
    IF c.todo # <<>> /\ c.todo[Len(c.todo)].kind = "end" THEN c.next - 2 ELSE c.next - 1

\* What the child has to write leads on from the pipe, which ends at q, to where it is.
Todo(e, q, c, k) ==
    c.pc # "dead" =>
       IF c.exit = 0
       THEN /\ \A j \in 1 .. Len(c.todo) :
                  /\ LineOK(c.todo[j], c.plan) \/ PieceOK(c.todo[j], c.plan)
                  /\ c.todo[j].kind # "error"
            /\ \A j \in 1 .. Len(c.todo) - 1 : c.todo[j].kind # "end"
            /\ NChain(c.todo, q, c.plan)
            /\ c.pc # "hung" => NEnds(c.todo, q, c.plan) = <<c.next - 1, 0>>
            /\ \A j \in 1 .. Len(k) : k[j].kind = "end" => k[j].what < EndsWritten(c)
            /\ e <= EndsWritten(c)
       ELSE \A j \in 1 .. Len(c.todo) : LineOK(c.todo[j], c.plan) /\ c.todo[j].kind = "error"

\* The lines: no end comes before its stream, or twice, or out of order.
Lines(e, q, c, k) ==
    /\ \A j \in 1 .. Len(k) : LineOK(k[j], c.plan)
    /\ \A j \in 1 .. Len(k) : k[j].kind = "end" => e <= k[j].what /\ k[j].what < q[1]
    /\ \A i, j \in 1 .. Len(k) :
          i < j /\ k[i].kind = "end" /\ k[j].kind = "end" => k[i].what < k[j].what

NFlow(e, p, c, k, d) ==
    /\ Stream(p, c, d)
    /\ Todo(e, NEnds(d, p, c.plan), c, k)
    /\ Lines(e, NEnds(d, p, c.plan), c, k)

\* What run_file has of the output it is at.
Collected(n, c, k) ==
    LET e == n.expected IN
    /\ n.pc \in {"schema", "stream", "end"} => n.output = e /\ e < Len(c.plan)
    /\ n.pc = "schema" => n.batches = <<>>
    /\ n.pc = "stream" => \E i \in 0 .. c.plan[e + 1] : n.batches = B!Batches(e, i)
    /\ n.pc = "end" => \/ n.batches = B!Batches(e, c.plan[e + 1])
                       \/ /\ c.pc = "dead"
                          /\ \A j \in 1 .. Len(k) : k[j].kind = "end" => k[j].what # e

NativeShape(n) ==
    n = [pc |-> n.pc, output |-> n.output, batches |-> n.batches, outputs |-> n.outputs,
         expected |-> n.expected, error |-> n.error, result |-> n.result]

ChildShape(c) ==
    /\ c = [pc |-> c.pc, todo |-> c.todo, plan |-> c.plan, next |-> c.next, exit |-> c.exit]
    /\ c.todo \in Seq(NMessages)
    /\ c.plan \in Plans /\ c.next \in 1 .. Len(c.plan) + 1
    /\ c.pc = "parsing" => c.plan = <<>> /\ c.exit = 0
    /\ c.pc = "hung" => c.todo = <<>>

\* The outputs run_file has are the first ones of the plan.
Kept(n, plan) ==
    /\ n.outputs \in Seq(Seq(Int \X Int)) /\ n.expected = Len(n.outputs)
    /\ Len(n.outputs) <= Len(plan)
    /\ \A i \in 1 .. Len(n.outputs) : n.outputs[i] = B!Batches(i - 1, plan[i])

NativeInv ==
    /\ NativeShape(native) /\ ChildShape(child)
    /\ control \in Seq(NMessages) /\ data \in Seq(NMessages)
    /\ Kept(native, child.plan)
    /\ NReading(native) => /\ NFlow(native.expected, NHostPos(native), child, control, data)
                           /\ Collected(native, child, control)
    /\ N!Returned /\ native.error = "cancelled" => ~N!Alive

--------------------------------------------------------------------------------
\* An outcome is final, and outputs come of a run that is over.
JobInv ==
    /\ job = [pc |-> job.pc, outcome |-> job.outcome]
    /\ job.pc # "done" => job.outcome # "outputs"
    /\ job.outcome = "outputs" => RunReturned /\ Result = "ok"

RunInv == BridgeInv /\ NativeInv /\ JobInv

--------------------------------------------------------------------------------
(* Chains of messages. *)

\* A message that is sent is still under way.
LEMMA SentIsPending ==
    ASSUME NEW S, NEW s \in Seq(S), NEW o \in Seq(S), o # <<>>
    PROVE  Append(s, Head(o)) \o Tail(o) = s \o o
<1>1. Head(o) \in S /\ Tail(o) \in Seq(S)
    OBVIOUS
<1>2. o = <<Head(o)>> \o Tail(o)
    <2>1. <<Head(o)>> \o Tail(o) \in Seq(S)
        BY <1>1
    <2>2. Len(<<Head(o)>> \o Tail(o)) = Len(o)
        BY <1>1
    <2>3. \A i \in 1 .. Len(o) : o[i] = (<<Head(o)>> \o Tail(o))[i]
        BY <1>1
    <2> QED  BY <2>1, <2>2, <2>3, SeqEqual
<1>3. Append(s, Head(o)) = s \o <<Head(o)>>
    BY <1>1, AppendIsConcat
<1> QED  BY <1>1, <1>2, <1>3, ConcatAssociative

\* What is under way may be taken apart anywhere.
LEMMA PendingAssociates ==
    ASSUME NEW a \in Seq(Messages), NEW b \in Seq(Messages), NEW c \in Seq(Messages)
    PROVE  (a \o b) \o c = a \o (b \o c)
BY ConcatAssociative

\* A message that is read first is what was under way first.
LEMMA ReadIsPending ==
    ASSUME NEW S, NEW s \in Seq(S), NEW o \in Seq(S), s # <<>>
    PROVE  <<Head(s)>> \o Tail(s) \o o = s \o o
<1>1. Head(s) \in S /\ Tail(s) \in Seq(S)
    OBVIOUS
<1>2. <<Head(s)>> \o Tail(s) \in Seq(S) /\ Len(<<Head(s)>> \o Tail(s)) = Len(s)
    BY <1>1
<1>3. \A i \in 1 .. Len(s) : s[i] = (<<Head(s)>> \o Tail(s))[i]
    BY <1>1
<1>4. s = <<Head(s)>> \o Tail(s)
    BY <1>2, <1>3, SeqEqual
<1> QED  BY <1>4

\* What follows a chain of whole messages may be another one, from where the first ends.
LEMMA ChainJoin ==
    ASSUME NEW plan, NEW p, NEW w \in Seq(Messages), NEW v \in Seq(Messages),
           Chain(w, p, plan), Whole(w), Chain(v, Ends(w, p, plan), plan)
    PROVE  /\ Chain(w \o v, p, plan)
           /\ Ends(w \o v, p, plan) = Ends(v, Ends(w, p, plan), plan)
           /\ Whole(v) => Whole(w \o v)
<1>1. /\ w \o v \in Seq(Messages) /\ Len(w \o v) = Len(w) + Len(v)
      /\ \A j \in 1 .. Len(w) : (w \o v)[j] = w[j]
      /\ \A j \in 1 .. Len(v) : (w \o v)[Len(w) + j] = v[j]
    OBVIOUS
<1>2. CASE w = <<>>
    <2>1. w \o v = v
        BY <1>2
    <2> QED  BY <2>1, <1>2 DEF Ends
<1>3. CASE v = <<>>
    <2>1. w \o v = w
        BY <1>3
    <2> QED  BY <2>1, <1>3 DEF Ends
<1>4. CASE w # <<>> /\ v # <<>>
    <2>0. Len(w) \in Nat \ {0} /\ Len(v) \in Nat \ {0}
        BY <1>4
    <2>1. \A j \in 1 .. Len(w \o v) : Message((w \o v)[j], plan)
        <3> TAKE j \in 1 .. Len(w \o v)
        <3>1. CASE j <= Len(w)
            BY <3>1, <1>1 DEF Chain
        <3>2. CASE j > Len(w)
            <4>1. j - Len(w) \in 1 .. Len(v) /\ j = Len(w) + (j - Len(w))
                BY <3>2, <1>1, <2>0
            <4> QED  BY <4>1, <1>1 DEF Chain
        <3> QED  BY <3>1, <3>2, <2>0
    <2>2. w \o v # <<>> /\ (w \o v)[1] = w[1]
        BY <1>1, <2>0
    <2>3. \A j \in 1 .. Len(w \o v) - 1 : Follows((w \o v)[j], (w \o v)[j + 1], plan)
        <3> TAKE j \in 1 .. Len(w \o v) - 1
        <3>1. CASE j < Len(w)
            <4>1. j \in 1 .. Len(w) - 1 /\ (w \o v)[j] = w[j] /\ (w \o v)[j + 1] = w[j + 1]
                BY <3>1, <1>1, <2>0
            <4> QED  BY <4>1 DEF Chain
        <3>2. CASE j = Len(w)
            <4>1. (w \o v)[j] = w[Len(w)] /\ (w \o v)[j + 1] = v[1]
                BY <3>2, <1>1, <2>0
            <4>2. ~Opens(w[Len(w)]) /\ v[1].part = "head" /\ Link(After(w[Len(w)], plan), v[1], plan)
                BY <1>4 DEF Whole, Chain, Ends
            <4> QED  BY <4>1, <4>2 DEF Follows
        <3>3. CASE j > Len(w)
            <4>1. j - Len(w) \in 1 .. Len(v) - 1
                BY <3>3, <1>1, <2>0
            <4>2. (w \o v)[j] = v[j - Len(w)] /\ (w \o v)[j + 1] = v[j - Len(w) + 1]
                BY <3>3, <1>1, <2>0, <4>1
            <4> QED  BY <4>1, <4>2 DEF Chain
        <3> QED  BY <3>1, <3>2, <3>3, <2>0
    <2>4. (w \o v)[Len(w \o v)] = v[Len(v)]
        BY <1>1, <2>0
    <2>5. Chain(w \o v, p, plan)
        BY <1>4, <2>1, <2>2, <2>3 DEF Chain
    <2> QED  BY <1>4, <2>2, <2>4, <2>5 DEF Ends, Whole
<1> QED  BY <1>2, <1>3, <1>4

\* A chain that is cut off is a chain.
LEMMA ChainPrefix ==
    ASSUME NEW plan, NEW p, NEW w \in Seq(Messages), NEW v \in Seq(Messages),
           Chain(w \o v, p, plan)
    PROVE  Chain(w, p, plan)
<1>1. /\ Len(w \o v) = Len(w) + Len(v) /\ Len(w) \in Nat /\ Len(v) \in Nat
      /\ \A j \in 1 .. Len(w) : (w \o v)[j] = w[j]
    OBVIOUS
<1>2. \A j \in 1 .. Len(w) : Message(w[j], plan)
    BY <1>1 DEF Chain
<1>3. w # <<>> => w[1].part = "head" /\ Link(p, w[1], plan)
    BY <1>1 DEF Chain
<1>4. \A j \in 1 .. Len(w) - 1 : Follows(w[j], w[j + 1], plan)
    <2> TAKE j \in 1 .. Len(w) - 1
    <2>1. j \in 1 .. Len(w \o v) - 1 /\ (w \o v)[j] = w[j] /\ (w \o v)[j + 1] = w[j + 1]
        BY <1>1
    <2> QED  BY <2>1 DEF Chain
<1> QED  BY <1>2, <1>3, <1>4 DEF Chain

\* What makes a message.
LEMMA MessageType ==
    ASSUME NEW k \in Kinds, NEW x \in Payloads, NEW q \in Parts
    PROVE  [kind |-> k, what |-> x, part |-> q] \in Messages
BY DEF Messages

\* Before and After leave the part of a message alone.
LEMMA PartsAgree ==
    ASSUME NEW plan, NEW m \in Messages
    PROVE  /\ [m EXCEPT !.part = "body"] \in Messages
           /\ [m EXCEPT !.part = "body"].part = "body"
           /\ After([m EXCEPT !.part = "body"], plan) = After(m, plan)
<1> DEFINE b == [m EXCEPT !.part = "body"]
<1>1. m.kind \in Kinds /\ m.what \in Payloads /\ "body" \in Parts
    BY DEF Messages, Parts
<1>2. b = [kind |-> m.kind, what |-> m.what, part |-> "body"]
    BY DEF Messages
<1> HIDE DEF b
<1>3. b.part = "body" /\ b.kind = m.kind /\ b.what = m.what
    BY <1>2
<1>4. b \in Messages
    BY <1>1, <1>2, MessageType, Zenon
<1>5. After(b, plan) = After(m, plan)
    BY <1>3 DEF After, Final
<1> QED  BY <1>3, <1>4, <1>5 DEF b

\* w is f, b, and then v.
StartsWith(w, f, b, v) == w = <<f, b>> \o v

\* w from p and v from q end at the same place.
EndTogether(w, p, v, q, plan) == Ends(w, p, plan) = Ends(v, q, plan)

\* The first message of a chain is a header, its body comes next, and the rest of the
\* chain leads on from there.
LEMMA ChainDrop ==
    ASSUME NEW plan, NEW p, NEW f \in Messages, NEW b \in Messages, NEW v \in Seq(Messages),
           f.kind # "eos", NEW w, StartsWith(w, f, b, v), Chain(w, p, plan)
    PROVE  /\ Message(f, plan) /\ Link(p, f, plan)
           /\ b = [f EXCEPT !.part = "body"]
           /\ Chain(v, After(f, plan), plan)
           /\ EndTogether(w, p, v, After(f, plan), plan)
           /\ Whole(w) => Whole(v)
<1>1. /\ w \in Seq(Messages) /\ Len(w) = Len(v) + 2 /\ Len(v) \in Nat
      /\ w[1] = f /\ w[2] = b
      /\ \A j \in 1 .. Len(v) : w[j + 2] = v[j]
    BY DEF StartsWith
<1>2. w # <<>>
    BY <1>1
<1>3. Chain(w, p, plan)
    OBVIOUS
<1>4. Message(f, plan) /\ f.part = "head" /\ Link(p, f, plan)
    BY <1>1, <1>2, <1>3 DEF Chain
<1>5. b = [f EXCEPT !.part = "body"]
    <2>1. Follows(w[1], w[1 + 1], plan)
        BY <1>1, <1>3 DEF Chain
    <2> QED  BY <2>1, <1>1, <1>4 DEF Follows, Opens
<1>6. After(b, plan) = After(f, plan) /\ ~Opens(b)
    BY <1>5, PartsAgree DEF Opens
<1>7. Chain(v, After(f, plan), plan)
    <2>1. \A j \in 1 .. Len(v) : Message(v[j], plan)
        <3> TAKE j \in 1 .. Len(v)
        <3>1. j + 2 \in 1 .. Len(w) /\ w[j + 2] = v[j]
            BY <1>1
        <3> QED  BY <3>1, <1>3 DEF Chain
    <2>2. ASSUME v # <<>>  PROVE v[1].part = "head" /\ Link(After(f, plan), v[1], plan)
        <3>1. Len(v) >= 1
            BY <2>2, <1>1
        <3>2. 2 \in 1 .. Len(w) - 1 /\ w[2] = b /\ w[2 + 1] = v[1]
            BY <3>1, <1>1
        <3>3. Follows(b, v[1], plan)
            BY <3>2, <1>3 DEF Chain
        <3> QED  BY <3>3, <1>6 DEF Follows
    <2>3. \A j \in 1 .. Len(v) - 1 : Follows(v[j], v[j + 1], plan)
        <3> TAKE j \in 1 .. Len(v) - 1
        <3>1. j + 2 \in 1 .. Len(w) - 1 /\ w[j + 2] = v[j] /\ w[(j + 2) + 1] = v[j + 1]
            BY <1>1
        <3> QED  BY <3>1, <1>3 DEF Chain
    <2> QED  BY <2>1, <2>2, <2>3 DEF Chain
<1>8. Ends(w, p, plan) = Ends(v, After(f, plan), plan)
    <2>1. CASE v = <<>>
        BY <2>1, <1>1, <1>2, <1>6 DEF Ends
    <2>2. CASE v # <<>>
        <3>1. w[Len(w)] = v[Len(v)]
            BY <2>2, <1>1
        <3> QED  BY <3>1, <2>2, <1>2 DEF Ends
    <2> QED  BY <2>1, <2>2
<1>9. Whole(w) => Whole(v)
    <2>1. v # <<>> => w[Len(w)] = v[Len(v)]
        BY <1>1
    <2> QED  BY <2>1, <1>2 DEF Whole
<1> QED  BY <1>4, <1>5, <1>7, <1>8, <1>9 DEF EndTogether

--------------------------------------------------------------------------------
(* What the guest does. *)

\* A frame of the shim is a chain of its own.
LEMMA FrameIsChain ==
    ASSUME NEW plan, NEW p, NEW k \in Kinds, NEW x \in Payloads, k # "eos",
           NEW m, m = [kind |-> k, what |-> x, part |-> "head"],
           Message(m, plan), Link(p, m, plan)
    PROVE  /\ B!Frame(k, x) \in Seq(Messages)
           /\ Chain(B!Frame(k, x), p, plan)
           /\ Whole(B!Frame(k, x))
           /\ Ends(B!Frame(k, x), p, plan) = After(m, plan)
           /\ Len(B!Frame(k, x)) = 2
           /\ \A j \in 1 .. 2 : B!Frame(k, x)[j].kind = k /\ B!Frame(k, x)[j].what = x
<1> DEFINE b == [kind |-> k, what |-> x, part |-> "body"]
<1>1. m \in Messages /\ b \in Messages
    BY MessageType, "head" \in Parts, "body" \in Parts, Zenon DEF Parts
<1>2. b = [m EXCEPT !.part = "body"]
    OBVIOUS
<1>3. Message(b, plan)
    BY DEF Message
<1>4. After(b, plan) = After(m, plan)
    BY <1>1, <1>2, PartsAgree
<1>5. m.part = "head" /\ Opens(m) /\ ~Opens(b)
    BY DEF Opens
<1>6. B!Frame(k, x) = <<m, b>>
    BY DEF B!Frame
<1>7. m.kind = k /\ m.what = x /\ b.kind = k /\ b.what = x
    OBVIOUS
<1> HIDE DEF b
<1>8. /\ <<m, b>> \in Seq(Messages) /\ Len(<<m, b>>) = 2
      /\ <<m, b>>[1] = m /\ <<m, b>>[2] = b /\ <<m, b>> # <<>>
    BY <1>1
<1>9. Follows(m, b, plan)
    BY <1>2, <1>5 DEF Follows
<1>10. Chain(<<m, b>>, p, plan)
    <2>1. \A j \in 1 .. Len(<<m, b>>) : Message(<<m, b>>[j], plan)
        BY <1>8, <1>3
    <2>2. \A j \in 1 .. Len(<<m, b>>) - 1 : Follows(<<m, b>>[j], <<m, b>>[j + 1], plan)
        BY <1>8, <1>9
    <2> QED  BY <2>1, <2>2, <1>5, <1>8 DEF Chain
<1>11. \A j \in 1 .. 2 : <<m, b>>[j].kind = k /\ <<m, b>>[j].what = x
    BY <1>7, <1>8
<1> QED  BY <1>4, <1>5, <1>6, <1>8, <1>10, <1>11 DEF Whole, Ends

\* The end of the stream is one too.
LEMMA EosIsChain ==
    ASSUME NEW plan, NEW p
    PROVE  /\ <<B!EndOfStream>> \in Seq(Messages)
           /\ Chain(<<B!EndOfStream>>, p, plan)
           /\ Whole(<<B!EndOfStream>>)
<1>1. B!EndOfStream \in Messages
    <2>1. "eos" \in Kinds /\ "head" \in Parts /\ 0 \in Payloads
        BY DEF Kinds, Parts, Payloads
    <2> QED  BY <2>1, MessageType, Zenon DEF B!EndOfStream
<1>2. /\ Message(B!EndOfStream, plan) /\ B!EndOfStream.part = "head"
      /\ Link(p, B!EndOfStream, plan) /\ ~Opens(B!EndOfStream)
    BY DEF B!EndOfStream, Message, Link, Final, Opens
<1>3. /\ <<B!EndOfStream>> \in Seq(Messages) /\ Len(<<B!EndOfStream>>) = 1
      /\ <<B!EndOfStream>>[1] = B!EndOfStream
    BY <1>1
<1> QED  BY <1>2, <1>3 DEF Chain, Whole

\* What is under way is a sequence of messages.
LEMMA PendingType ==
    ASSUME NEW h, NEW s \in Seq(Messages), NEW g, g.out \in Seq(Messages),
           h.pc = "body" => h.frame \in Messages
    PROVE  /\ Got(h) \in Seq(Messages) /\ Rest(g) \in Seq(Messages)
           /\ Got(h) \o s \in Seq(Messages)
           /\ Pending(h, s, g) \in Seq(Messages)
           /\ Pending(h, s, g) = (Got(h) \o s) \o Rest(g)
<1>1. Got(h) \in Seq(Messages)
    BY DEF Got
<1>2. Rest(g) \in Seq(Messages)
    BY DEF Rest
<1> QED  BY <1>1, <1>2 DEF Pending

\* A step of the guest alone keeps the invariant if what is under way still fits.
LEMMA GuestKeeps ==
    ASSUME BridgeInv, host' = host, socket' \in Seq(Messages),
           GuestShape(guest'), GuestGood(guest'),
           guest'.plan = guest.plan, Early(guest') => Early(guest),
           ~B!Alive => guest'.pc = "dead",
           guest.uv = "killed" => guest'.uv = "killed",
           Reading(host) => Flow(Pending(host, socket', guest'), HostPos(host), guest')
    PROVE  BridgeInv'
<1>1. HostShape(host') /\ GuestShape(guest') /\ socket' \in Seq(Messages) /\ GuestGood(guest')
    BY DEF BridgeInv
<1>2. Reading(host') => /\ HostGood(host', guest'.plan)
                        /\ Flow(Pending(host', socket', guest'), HostPos(host'), guest')
    BY DEF BridgeInv
<1>3. host'.metrics => /\ ~Early(guest')
                       /\ host'.current = None
                       /\ host'.outputs = B!ParserOutputs'
    BY DEF BridgeInv, B!ParserOutputs
<1>4. host'.error # "protocol" /\ (host'.result = "ok" => host'.metrics)
    BY DEF BridgeInv
<1>5. B!Returned' => ~B!Alive' \/ LeftRunning(host', guest')
    BY DEF BridgeInv, B!Returned, B!Alive, LeftRunning
<1> QED  BY <1>1, <1>2, <1>3, <1>4, <1>5 DEF BridgeInv

\* A guest that is gone sends nothing more: what is under way is cut off.
LEMMA DeadFlow ==
    ASSUME NEW h, NEW s \in Seq(Messages), NEW p, NEW g, NEW d, g.out \in Seq(Messages),
           h.pc = "body" => h.frame \in Messages,
           d.pc = "dead", d.plan = g.plan, Flow(Pending(h, s, g), p, g)
    PROVE  Flow(Pending(h, s, d), p, d)
<1>1. Pending(h, s, d) = Got(h) \o s
    <2>1. Rest(d) = <<>>
        BY DEF Rest
    <2> QED  BY <2>1, PendingType, ConcatEmptySeq DEF Pending
<1>2. Chain((Got(h) \o s) \o Rest(g), p, g.plan)
    BY Zenon DEF Flow, Pending
<1>3. Chain(Got(h) \o s, p, g.plan)
    BY <1>2, PendingType, ChainPrefix
<1> QED  BY <1>1, <1>3 DEF Flow, Early

\* Dying does not disturb the invariant, whatever the guest was at.
LEMMA GuestGone ==
    ASSUME BridgeInv, UNCHANGED <<host, socket>>, GuestShape(guest'),
           guest'.pc = "dead", guest'.plan = guest.plan, guest'.uv = guest.uv
    PROVE  BridgeInv'
<1>1. GuestGood(guest')
    BY DEF BridgeInv, GuestGood, Early
<1>2. Reading(host) => Flow(Pending(host, socket, guest'), HostPos(host), guest')
    <2> HAVE Reading(host)
    <2>1. guest.out \in Seq(Messages) /\ socket \in Seq(Messages)
        BY DEF BridgeInv, GuestShape
    <2>2. host.pc = "body" => host.frame \in Messages
        BY DEF BridgeInv, HostGood
    <2>3. Flow(Pending(host, socket, guest), HostPos(host), guest)
        BY DEF BridgeInv
    <2> QED  BY <2>1, <2>2, <2>3, DeadFlow
<1>3. ~Early(guest')
    BY DEF Early
<1>4. socket' \in Seq(Messages) /\ host' = host /\ socket' = socket
    BY DEF BridgeInv
<1> QED  BY <1>1, <1>2, <1>3, <1>4, GuestKeeps

\* The guest goes on with what it has to send.
LEMMA GuestGoesOn ==
    ASSUME BridgeInv, UNCHANGED <<host, socket>>, GuestShape(guest'),
           guest.pc # "dead", guest'.pc # "dead",
           guest'.out = guest.out, guest'.plan = guest.plan,
           guest'.next = guest.next, guest'.at = guest.at,
           Early(guest') => Early(guest),
           guest'.pc = "publish" => guest.pc = "publish",
           guest.uv = "killed" => guest'.uv = "killed"
    PROVE  BridgeInv'
<1>1. GuestGood(guest')
    BY DEF BridgeInv, GuestGood
<1>2. Pending(host, socket, guest') = Pending(host, socket, guest)
    BY DEF Pending, Rest
<1>3. Reading(host) => Flow(Pending(host, socket, guest'), HostPos(host), guest')
    <2> HAVE Reading(host)
    <2>1. Flow(Pending(host, socket, guest), HostPos(host), guest)
        BY DEF BridgeInv
    <2> QED  BY <2>1, <1>2 DEF Flow, GuestAt
<1>4. socket' \in Seq(Messages) /\ host' = host /\ socket' = socket /\ B!Alive
    BY DEF BridgeInv, B!Alive
<1> QED  BY <1>1, <1>3, <1>4, GuestKeeps

\* Steps of the shim that send nothing.
LEMMA QuietSteps ==
    ASSUME BridgeInv,
           \/ B!connect \/ B!RawWritten \/ B!ParseHangs \/ B!close \/ B!Exit \/ B!GuestDies
           \/ \E p \in {"stdout", "stderr"} : B!RawWrite(p)
    PROVE  BridgeInv'
<1> USE DEF BridgeInv
<1>s. GuestShape(guest)
    OBVIOUS
<1> HIDE DEF BridgeInv
<1>1. CASE B!connect
    <2>1. UNCHANGED <<host, socket>> /\ guest.pc = "starting"
        BY <1>1 DEF B!connect
    <2>2. CASE guest' = [guest EXCEPT !.pc = "plugin", !.connected = TRUE]
        <3>1. /\ GuestShape(guest') /\ guest'.pc = "plugin" /\ guest'.out = guest.out
              /\ guest'.plan = guest.plan /\ guest'.next = guest.next /\ guest'.at = guest.at
              /\ guest'.uv = guest.uv
            BY <2>2, <1>s DEF GuestShape
        <3> QED  BY <2>1, <3>1, GuestGoesOn DEF Early
    <2>3. CASE guest' = [guest EXCEPT !.pc = "dead", !.exit = 1]
        <3>1. GuestShape(guest') /\ guest'.pc = "dead" /\ guest'.plan = guest.plan /\ guest'.uv = guest.uv
            BY <2>3, <1>s DEF GuestShape
        <3> QED  BY <2>1, <3>1, GuestGone
    <2> QED  BY <1>1, <2>2, <2>3 DEF B!connect
<1>2. CASE B!RawWritten
    <2>1. UNCHANGED <<host, socket>> /\ guest.pc = "writing"
        BY <1>2 DEF B!RawWritten
    <2>2. PICK x, y : guest' = [guest EXCEPT !.pc = "plugin", !.pipe = x, !.written = y]
        BY <1>2, <1>s DEF B!RawWritten, GuestShape
    <2>3. /\ GuestShape(guest') /\ guest'.pc = "plugin" /\ guest'.out = guest.out
          /\ guest'.plan = guest.plan /\ guest'.next = guest.next /\ guest'.at = guest.at
          /\ guest'.uv = guest.uv
        BY <2>2, <1>s DEF GuestShape
    <2> QED  BY <2>1, <2>3, GuestGoesOn DEF Early
<1>3. CASE B!ParseHangs
    <2>1. UNCHANGED <<host, socket>> /\ guest.pc = "plugin" /\ guest' = [guest EXCEPT !.pc = "hung"]
        BY <1>3 DEF B!ParseHangs, B!Guest
    <2>2. /\ GuestShape(guest') /\ guest'.pc = "hung" /\ guest'.out = guest.out
          /\ guest'.plan = guest.plan /\ guest'.next = guest.next /\ guest'.at = guest.at
          /\ guest'.uv = guest.uv
        BY <2>1, <1>s DEF GuestShape
    <2> QED  BY <2>1, <2>2, GuestGoesOn DEF Early
<1>4. CASE B!close
    <2>1. /\ UNCHANGED <<host, socket>> /\ guest.pc = "closing"
          /\ guest' = [guest EXCEPT !.pc = "printing", !.closed = TRUE]
        BY <1>4 DEF B!close
    <2>2. /\ GuestShape(guest') /\ guest'.pc = "printing" /\ guest'.out = guest.out
          /\ guest'.plan = guest.plan /\ guest'.next = guest.next /\ guest'.at = guest.at
          /\ guest'.uv = guest.uv
        BY <2>1, <1>s DEF GuestShape
    <2> QED  BY <2>1, <2>2, GuestGoesOn DEF Early
<1>5. CASE B!Exit
    <2>1. UNCHANGED <<host, socket>> /\ guest' = [guest EXCEPT !.pc = "dead"]
        BY <1>5 DEF B!Exit, B!Guest
    <2>2. GuestShape(guest') /\ guest'.pc = "dead" /\ guest'.plan = guest.plan /\ guest'.uv = guest.uv
        BY <2>1, <1>s DEF GuestShape
    <2> QED  BY <2>1, <2>2, GuestGone
<1>6. CASE B!Dies(0) \/ B!Dies(9)
    <2>1. PICK code \in {0, 9} : B!Dies(code)
        BY <1>6
    <2>2. UNCHANGED <<host, socket>> /\ guest' = [guest EXCEPT !.pc = "dead", !.exit = code]
        BY <2>1 DEF B!Dies
    <2>3. GuestShape(guest') /\ guest'.pc = "dead" /\ guest'.plan = guest.plan /\ guest'.uv = guest.uv
        BY <2>2, <1>s DEF GuestShape
    <2> QED  BY <2>2, <2>3, GuestGone
<1>8. CASE B!WrapperDies
    <2>1. /\ UNCHANGED <<host, socket>> /\ guest.pc # "dead"
          /\ guest' = [guest EXCEPT !.uv = "killed"]
        BY <1>8 DEF B!WrapperDies, B!Alive
    <2>2. /\ GuestShape(guest') /\ guest'.pc = guest.pc /\ guest'.out = guest.out
          /\ guest'.plan = guest.plan /\ guest'.next = guest.next /\ guest'.at = guest.at
          /\ guest'.uv = "killed"
        BY <2>1, <1>s DEF GuestShape
    <2> QED  BY <2>1, <2>2, GuestGoesOn DEF Early
<1>7. ASSUME NEW p \in {"stdout", "stderr"}, B!RawWrite(p)  PROVE BridgeInv'
    <2>1. /\ UNCHANGED <<host, socket>> /\ guest.pc = "plugin"
          /\ guest' = [guest EXCEPT !.pc = "writing", !.pipe = p]
        BY <1>7 DEF B!RawWrite
    <2>2. /\ GuestShape(guest') /\ guest'.pc = "writing" /\ guest'.out = guest.out
          /\ guest'.plan = guest.plan /\ guest'.next = guest.next /\ guest'.at = guest.at
          /\ guest'.uv = guest.uv
        BY <2>1, <1>s DEF GuestShape
    <2> QED  BY <2>1, <2>2, GuestGoesOn DEF Early
<1> QED  BY <1>1, <1>2, <1>3, <1>4, <1>5, <1>6, <1>7, <1>8 DEF B!GuestDies

\* A message moves from the guest to the socket.
LEMMA SendAllStep ==
    ASSUME BridgeInv, B!SendAll
    PROVE  BridgeInv'
<1>1. /\ host' = host /\ guest.pc # "dead" /\ guest.out # <<>>
      /\ socket' = Append(socket, Head(guest.out))
    BY DEF B!SendAll, B!Alive
<1>2. GuestShape(guest) /\ socket \in Seq(Messages) /\ GuestGood(guest)
    BY DEF BridgeInv
<1>3. PICK c : /\ guest' = [guest EXCEPT !.out = Tail(guest.out), !.pc = c]
               /\ c = guest.pc \/ (guest.pc = "logging" /\ c = "plugin")
    BY <1>2 DEF B!SendAll, GuestShape
<1>4. /\ guest'.out = Tail(guest.out) /\ guest'.pc = c /\ guest'.plan = guest.plan
      /\ guest'.uv = guest.uv /\ guest'.next = guest.next /\ guest'.at = guest.at
      /\ Tail(guest.out) \in Seq(Messages) /\ Head(guest.out) \in Messages
    BY <1>1, <1>2, <1>3 DEF GuestShape
<1>5. GuestShape(guest')
    BY <1>1, <1>2, <1>3, <1>4 DEF GuestShape
<1>6. GuestGood(guest') /\ (Early(guest') => Early(guest)) /\ guest'.pc # "dead"
    BY <1>1, <1>2, <1>3, <1>4 DEF GuestGood, Early
<1>7. socket' \in Seq(Messages)
    BY <1>1, <1>2, <1>4
<1>8. ASSUME Reading(host)
      PROVE  Flow(Pending(host, socket', guest'), HostPos(host), guest')
    <2>1. Got(host) \in Seq(Messages)
        BY <1>8, <1>2, PendingType DEF BridgeInv, HostGood, GuestShape
    <2>2. Pending(host, socket', guest') = Pending(host, socket, guest)
        <3>1. Rest(guest') = Tail(guest.out) /\ Rest(guest) = guest.out
            BY <1>1, <1>4, <1>6 DEF Rest
        <3>2. guest.out \in Seq(Messages)
            BY <1>2 DEF GuestShape
        <3>3. socket' \o Tail(guest.out) = socket \o guest.out
            BY <1>1, <1>2, <3>2, SentIsPending
        <3>4. (Got(host) \o socket') \o Tail(guest.out) = Got(host) \o (socket' \o Tail(guest.out))
            <4>1. Tail(guest.out) \in Seq(Messages)
                BY <1>4
            <4> QED  BY <4>1, <1>7, <2>1, PendingAssociates, Zenon
        <3>5. (Got(host) \o socket) \o guest.out = Got(host) \o (socket \o guest.out)
            <4>1. socket \in Seq(Messages)
                BY <1>2
            <4> QED  BY <4>1, <2>1, <3>2, PendingAssociates, Zenon
        <3> QED  BY <3>1, <3>3, <3>4, <3>5 DEF Pending
    <2>3. Flow(Pending(host, socket, guest), HostPos(host), guest)
        BY <1>8 DEF BridgeInv
    <2>4. (guest'.pc = "publish" => guest.pc = "publish") /\ guest.pc # "dead"
        BY <1>1, <1>3, <1>4
    <2> QED  BY <2>2, <2>3, <2>4, <1>4, <1>6 DEF Flow, GuestAt
<1> QED  BY <1>1, <1>4, <1>5, <1>6, <1>7, <1>8, GuestKeeps DEF B!Alive

\* What the guest n sends leads on from the guest g.
LeadsOn(g, n) ==
    \A p : GuestAt(g, p) =>
        /\ Chain(n.out, p, g.plan) /\ Whole(n.out)
        /\ GuestAt(n, Ends(n.out, p, g.plan))

\* The guest has something new to send: it follows what is under way.
LEMMA GuestSends ==
    ASSUME BridgeInv, UNCHANGED <<host, socket>>,
           GuestShape(guest'), GuestGood(guest'),
           guest.pc # "dead", guest'.pc # "dead", guest.out = <<>>, guest'.plan = guest.plan,
           guest'.uv = guest.uv,
           Early(guest') => Early(guest),
           Early(guest') => \A j \in 1 .. Len(guest'.out) :
                               guest'.out[j].kind = "log" /\ guest'.out[j].what = 0,
           LeadsOn(guest, guest')
    PROVE  BridgeInv'
<1>1. ASSUME Reading(host)
      PROVE  Flow(Pending(host, socket, guest'), HostPos(host), guest')
    <2> DEFINE w == Pending(host, socket, guest)
               p == HostPos(host)
               o == guest'.out
               q == Ends(w, p, guest.plan)
    <2>1. guest.out \in Seq(Messages) /\ o \in Seq(Messages) /\ socket \in Seq(Messages)
        BY DEF BridgeInv, GuestShape
    <2>2. host.pc = "body" => host.frame \in Messages
        BY <1>1 DEF BridgeInv, HostGood
    <2>3. /\ Got(host) \o socket \in Seq(Messages) /\ w \in Seq(Messages)
          /\ w = Got(host) \o socket
          /\ Pending(host, socket, guest') = w \o o
        <3>1. Rest(guest) = <<>> /\ Rest(guest') = o
            BY DEF Rest
        <3>2. Got(host) \o socket \in Seq(Messages) /\ w \in Seq(Messages)
            BY <2>1, <2>2, PendingType
        <3> QED  BY <3>1, <3>2, ConcatEmptySeq DEF Pending
    <2>4. Flow(w, p, guest)
        BY <1>1 DEF BridgeInv
    <2> HIDE DEF w, p, o
    <2>5. Chain(w, p, guest.plan) /\ Whole(w) /\ GuestAt(guest, q)
        BY <2>4 DEF Flow
    <2>6. Chain(o, q, guest.plan) /\ Whole(o) /\ GuestAt(guest', Ends(o, q, guest.plan))
        BY <2>5 DEF LeadsOn, o
    <2>7. /\ Chain(w \o o, p, guest.plan) /\ Whole(w \o o)
          /\ Ends(w \o o, p, guest.plan) = Ends(o, q, guest.plan)
        <3>1. w \in Seq(Messages) /\ o \in Seq(Messages)
            BY <2>1, <2>3
        <3>2. Chain(w, p, guest.plan) /\ Whole(w)
            BY <2>5
        <3>3. Chain(o, Ends(w, p, guest.plan), guest.plan) /\ Whole(o)
            BY <2>6
        <3> QED  BY <3>1, <3>2, <3>3, ChainJoin, Zenon
    <2>8. ASSUME Early(guest')
          PROVE  \A j \in 1 .. Len(w \o o) : (w \o o)[j].kind = "log" /\ (w \o o)[j].what = 0
        <3>1. \A j \in 1 .. Len(w) : w[j].kind = "log" /\ w[j].what = 0
            BY <2>8, <2>4 DEF Flow
        <3>2. \A j \in 1 .. Len(o) : o[j].kind = "log" /\ o[j].what = 0
            BY <2>8 DEF o
        <3>3. \A j \in 1 .. Len(w \o o) : \/ j \in 1 .. Len(w) /\ (w \o o)[j] = w[j]
                                          \/ j - Len(w) \in 1 .. Len(o) /\ (w \o o)[j] = o[j - Len(w)]
            BY <2>1, <2>3
        <3> QED  BY <3>1, <3>2, <3>3
    <2> QED  BY <2>3, <2>6, <2>7, <2>8 DEF Flow, p
<1>2. host' = host /\ socket' = socket /\ socket' \in Seq(Messages) /\ B!Alive
    BY DEF BridgeInv, B!Alive
<1> QED  BY <1>1, <1>2, GuestKeeps

\* A log of the parser.
LEMMA SendLogStep ==
    ASSUME BridgeInv, B!send_log
    PROVE  BridgeInv'
<1>1. /\ guest.pc = "plugin" /\ guest.out = <<>> /\ UNCHANGED <<host, socket>>
      /\ guest' = [guest EXCEPT !.out = B!Frame("log", 0), !.pc = "logging"]
    BY DEF B!send_log
<1>2. GuestShape(guest) /\ GuestGood(guest)
    BY DEF BridgeInv
<1>3. "log" \in Kinds /\ 0 \in Payloads
    BY DEF Kinds, Payloads
<1>4. /\ guest'.out = B!Frame("log", 0) /\ guest'.pc = "logging" /\ guest'.plan = guest.plan
      /\ guest'.uv = guest.uv /\ guest'.next = guest.next /\ guest'.at = guest.at
      /\ guest.plan = <<>> /\ guest.next = 1 /\ guest.at = 0 /\ Early(guest) /\ Early(guest')
    BY <1>1, <1>2 DEF GuestShape, GuestGood, Early
<1> DEFINE m == [kind |-> "log", what |-> 0, part |-> "head"]
<1>5. /\ Message(m, guest.plan) /\ Link(<<0, -1>>, m, guest.plan)
      /\ After(m, guest.plan) = <<0, -1>>
    BY DEF Message, Link, Before, After, Final
<1>6. /\ guest'.out \in Seq(Messages)
      /\ Chain(guest'.out, <<0, -1>>, guest.plan) /\ Whole(guest'.out)
      /\ Ends(guest'.out, <<0, -1>>, guest.plan) = <<0, -1>>
      /\ \A j \in 1 .. Len(guest'.out) : guest'.out[j].kind = "log" /\ guest'.out[j].what = 0
    BY <1>3, <1>4, <1>5, FrameIsChain
<1>7. GuestShape(guest')
    BY <1>1, <1>2, <1>6 DEF GuestShape
<1>8. GuestGood(guest')
    BY <1>2, <1>4 DEF GuestGood
<1>9. LeadsOn(guest, guest')
    BY <1>4, <1>6 DEF LeadsOn, GuestAt
<1> QED  BY <1>1, <1>4, <1>6, <1>7, <1>8, <1>9, GuestSends

IsHead(m, k, x) == m = [kind |-> k, what |-> x, part |-> "head"]

\* Where a batch stands.
LEMMA BatchStands ==
    ASSUME NEW plan \in Seq(Nat), NEW i \in 1 .. Len(plan), NEW b \in 1 .. plan[i],
           NEW m, NEW x, IsHead(m, "batch", x), x = <<i, b>>
    PROVE  /\ Message(m, plan) /\ ~Final(m)
           /\ Before(m, plan) = <<i - 1, b - 1>> /\ After(m, plan) = <<i - 1, b>>
<1>1. m.kind = "batch" /\ m.what = <<i, b>> /\ m.part = "head"
    BY DEF IsHead
<1>2. m.what[1] = i /\ m.what[2] = b /\ ~Final(m)
    BY <1>1 DEF Final
<1> QED  BY <1>1, <1>2 DEF Message, Before, After

\* Where the start and the end of an output stand.
LEMMA BoundsStand ==
    ASSUME NEW plan \in Seq(Nat), NEW i \in 1 .. Len(plan), NEW k \in {"start", "end"},
           NEW m, IsHead(m, k, i)
    PROVE  /\ Message(m, plan) /\ ~Final(m)
           /\ Before(m, plan) = <<i - 1, IF k = "start" THEN -1 ELSE plan[i]>>
           /\ After(m, plan) = IF k = "start" THEN <<i - 1, 0>> ELSE <<i, -1>>
<1>1. m.kind = k /\ m.what = i /\ m.part = "head" /\ ~Final(m)
    BY DEF Final, IsHead
<1> QED  BY <1>1 DEF Message, Before, After

\* The next frame of the outputs.
LEMMA PublishStep ==
    ASSUME BridgeInv, B!PublishNext
    PROVE  BridgeInv'
<1> DEFINE i == guest.next
           n == guest.plan[guest.next]
           a == guest.at
<1>1. /\ guest.pc = "publish" /\ guest.out = <<>> /\ UNCHANGED <<host, socket>>
      /\ i <= Len(guest.plan)
      /\ guest' = [guest EXCEPT !.out = B!publish(i, n, a),
                                !.next = IF a > n THEN i + 1 ELSE i,
                                !.at = IF a > n THEN 0 ELSE a + 1]
    BY DEF B!PublishNext
<1>2. GuestShape(guest) /\ GuestGood(guest)
    BY DEF BridgeInv
<1>3. /\ guest'.out = B!publish(i, n, a) /\ guest'.pc = "publish" /\ guest'.plan = guest.plan
      /\ guest'.uv = guest.uv
      /\ guest'.next = IF a > n THEN i + 1 ELSE i
      /\ guest'.at = IF a > n THEN 0 ELSE a + 1
    BY <1>1, <1>2 DEF GuestShape
<1>4. /\ guest.plan \in Seq(1 .. MaxBatches) /\ i \in 1 .. Len(guest.plan)
      /\ n \in Nat \ {0} /\ a \in 0 .. n + 1 /\ Len(guest.plan) \in Nat
    <2>1. guest.plan \in Seq(1 .. MaxBatches) /\ Len(guest.plan) \in Nat
        BY <1>2 DEF GuestGood, Plans
    <2>2. i \in 1 .. Len(guest.plan) /\ a \in 0 .. n + 1
        BY <1>1, <1>2, <2>1 DEF GuestGood
    <2>3. n \in 1 .. MaxBatches
        BY <2>1, <2>2, ElementOfSeq
    <2> QED  BY <2>1, <2>2, <2>3, BoundsAreNatural
<1>p. guest.plan \in Seq(Nat)
    BY <1>4, BoundsAreNatural
<1> DEFINE k == IF a = 0 THEN "start" ELSE IF a <= n THEN "batch" ELSE "end"
           x == IF a = 0 \/ a > n THEN i ELSE <<i, a>>
           m == [kind |-> k, what |-> x, part |-> "head"]
           p == <<i - 1, a - 1>>
<1>5. k \in Kinds /\ k # "eos" /\ x \in Payloads
    BY <1>4 DEF Kinds, Payloads
<1>6. guest'.out = B!Frame(k, x)
    BY <1>3, <1>4 DEF B!publish
<1>7. /\ Message(m, guest.plan) /\ Link(p, m, guest.plan)
      /\ After(m, guest.plan) = <<guest'.next - 1, guest'.at - 1>>
    <2>1. CASE a = 0
        <3>1. k = "start" /\ x = i /\ guest'.next = i /\ guest'.at = 1
            BY <2>1, <1>3, <1>4
        <3> HIDE DEF k, x
        <3>2. /\ Message(m, guest.plan) /\ Before(m, guest.plan) = <<i - 1, -1>>
              /\ After(m, guest.plan) = <<i - 1, 0>>
            <4>1. IsHead(m, k, x)
                BY DEF IsHead
            <4> HIDE DEF m
            <4> QED  BY <3>1, <4>1, <1>4, <1>p, BoundsStand
        <3> QED  BY <3>1, <3>2, <2>1 DEF Link
    <2>2. CASE a # 0 /\ a <= n
        <3>1. k = "batch" /\ x = <<i, a>> /\ a \in 1 .. n /\ guest'.next = i /\ guest'.at = a + 1
            BY <2>2, <1>3, <1>4
        <3> HIDE DEF k, x
        <3>2. /\ Message(m, guest.plan) /\ Before(m, guest.plan) = <<i - 1, a - 1>>
              /\ After(m, guest.plan) = <<i - 1, a>>
            <4>1. IsHead(m, k, x)
                BY DEF IsHead
            <4> HIDE DEF m
            <4> QED  BY <3>1, <4>1, <1>4, <1>p, BatchStands, ZenonT(60)
        <3> QED  BY <3>1, <3>2 DEF Link
    <2>3. CASE a > n
        <3>1. k = "end" /\ x = i /\ a = n + 1 /\ guest'.next = i + 1 /\ guest'.at = 0
            BY <2>3, <1>3, <1>4
        <3> HIDE DEF k, x
        <3>2. /\ Message(m, guest.plan) /\ Before(m, guest.plan) = <<i - 1, n>>
              /\ After(m, guest.plan) = <<i, -1>>
            <4>1. IsHead(m, k, x)
                BY DEF IsHead
            <4> HIDE DEF m
            <4>2. IsHead(m, "end", i) /\ "end" \in {"start", "end"}
                BY <3>1, <4>1
            <4>3. /\ Message(m, guest.plan)
                  /\ Before(m, guest.plan) = <<i - 1, IF "end" = "start" THEN -1 ELSE guest.plan[i]>>
                  /\ After(m, guest.plan) = IF "end" = "start" THEN <<i - 1, 0>> ELSE <<i, -1>>
                BY <4>2, <1>4, <1>p, BoundsStand, ZenonT(60)
            <4> QED  BY <4>3
        <3>3. a - 1 = n
            BY <3>1, <1>4
        <3> QED  BY <3>1, <3>2, <3>3, <1>4 DEF Link
    <2> QED  BY <2>1, <2>2, <2>3, <1>4
<1> HIDE DEF k, x
<1>8. /\ guest'.out \in Seq(Messages) /\ Chain(guest'.out, p, guest.plan) /\ Whole(guest'.out)
      /\ Ends(guest'.out, p, guest.plan) = <<guest'.next - 1, guest'.at - 1>>
    BY <1>5, <1>6, <1>7, FrameIsChain
<1>9. GuestShape(guest')
    BY <1>1, <1>2, <1>8 DEF GuestShape
<1>10. GuestGood(guest')
    <2>1. ~Early(guest')
        BY <1>3 DEF Early
    <2>2. \A j \in 1 .. Len(guest.plan) : guest.plan[j] \in Nat \ {0}
        <3>1. \A j \in 1 .. Len(guest.plan) : guest.plan[j] \in 1 .. MaxBatches
            BY <1>4, ElementOfSeq
        <3> QED  BY <3>1, BoundsAreNatural
    <2>3. CASE a > n
        <3>1. guest'.next = i + 1 /\ guest'.at = 0 /\ i + 1 \in 1 .. Len(guest.plan) + 1
            BY <2>3, <1>3, <1>4
        <3>2. i + 1 <= Len(guest.plan) => 0 \in 0 .. guest.plan[i + 1] + 1
            BY <2>2, <1>4
        <3> QED  BY <1>2, <1>3, <2>1, <3>1, <3>2 DEF GuestGood
    <2>4. CASE ~(a > n)
        <3>1. guest'.next = i /\ guest'.at = a + 1 /\ a + 1 \in 0 .. n + 1
            BY <2>4, <1>3, <1>4
        <3> QED  BY <1>2, <1>3, <1>4, <2>1, <3>1 DEF GuestGood
    <2> QED  BY <2>3, <2>4
<1>11. ~Early(guest') /\ LeadsOn(guest, guest')
    BY <1>1, <1>3, <1>8 DEF LeadsOn, GuestAt, Early
<1> QED  BY <1>1, <1>3, <1>8, <1>9, <1>10, <1>11, GuestSends

\* The last thing a guest sends: frames f, perhaps frames e after them, and the end.
LEMMA LastWords ==
    ASSUME NEW plan, NEW p, NEW f \in Seq(Messages), NEW e \in Seq(Messages),
           Chain(f, p, plan), Whole(f), Chain(e, Ends(f, p, plan), plan), Whole(e)
    PROVE  LET o == (f \o e) \o <<B!EndOfStream>>
           IN  o \in Seq(Messages) /\ Chain(o, p, plan) /\ Whole(o)
<1> DEFINE fe == f \o e
           z == <<B!EndOfStream>>
<1>1. Chain(fe, p, plan) /\ Whole(fe)
    BY ChainJoin
<1>2. fe \in Seq(Messages)
    OBVIOUS
<1> HIDE DEF fe
<1>3. z \in Seq(Messages) /\ Chain(z, Ends(fe, p, plan), plan) /\ Whole(z)
    BY EosIsChain
<1> HIDE DEF z
<1>4. Chain(fe \o z, p, plan) /\ Whole(fe \o z)
    BY <1>1, <1>2, <1>3, ChainJoin
<1>5. fe \o z \in Seq(Messages)
    BY <1>2, <1>3
<1> QED  BY <1>4, <1>5 DEF fe, z

\* The parser, or an output of it, fails.
LEMMA RaiseStep ==
    ASSUME BridgeInv, NEW code \in {1, 2}, B!Raise(code)
    PROVE  BridgeInv'
<1> DEFINE f == B!Frame("log", 2)
           e == B!Frame("error", code)
           o == (f \o e) \o <<B!EndOfStream>>
<1>1. /\ guest.pc \in {"plugin", "publish"} /\ guest.out = <<>> /\ UNCHANGED <<host, socket>>
      /\ guest' = [guest EXCEPT !.pc = "closing", !.exit = code, !.out = o]
    BY DEF B!Raise
<1>2. GuestShape(guest) /\ GuestGood(guest)
    BY DEF BridgeInv
<1>3. "log" \in Kinds /\ "error" \in Kinds /\ 2 \in Payloads /\ code \in Payloads
    BY DEF Kinds, Payloads
<1>4. \A p : o \in Seq(Messages) /\ Chain(o, p, guest.plan) /\ Whole(o)
    <2> TAKE p
    <2> DEFINE m == [kind |-> "log", what |-> 2, part |-> "head"]
               n == [kind |-> "error", what |-> code, part |-> "head"]
    <2>1. Message(m, guest.plan) /\ Link(p, m, guest.plan)
        BY DEF Message, Link, Final
    <2>2. Message(n, guest.plan) /\ Link(Ends(f, p, guest.plan), n, guest.plan)
        BY DEF Message, Link, Final
    <2>3. f \in Seq(Messages) /\ Chain(f, p, guest.plan) /\ Whole(f)
        BY <1>3, <2>1, FrameIsChain
    <2>4. e \in Seq(Messages) /\ Chain(e, Ends(f, p, guest.plan), guest.plan) /\ Whole(e)
        BY <1>3, <2>2, FrameIsChain
    <2> HIDE DEF f, e
    <2> QED  BY <2>3, <2>4, LastWords
<1> HIDE DEF o
<1>5. o \in Seq(Messages)
    BY <1>4
<1>6. /\ guest'.out = o /\ guest'.pc = "closing" /\ guest'.plan = guest.plan
      /\ guest'.uv = guest.uv /\ GuestShape(guest')
    BY <1>1, <1>2, <1>5 DEF GuestShape
<1>7. GuestGood(guest') /\ ~Early(guest')
    BY <1>2, <1>6 DEF GuestGood, Early
<1>8. LeadsOn(guest, guest')
    BY <1>4, <1>6, <1>7 DEF LeadsOn, GuestAt
<1>9. guest.pc # "dead"
    BY <1>1
<1> QED  BY <1>1, <1>6, <1>7, <1>8, <1>9, GuestSends

\* Everything is published.
LEMMA ReturnsStep ==
    ASSUME BridgeInv, B!execute_plugin_returns
    PROVE  BridgeInv'
<1> DEFINE f == B!Frame("log", 1)
           end == <<Len(guest.plan), -1>>
<1>1. PICK e \in {<<>>, B!Frame("metrics", 0)} :
            guest' = [guest EXCEPT !.pc = "closing", !.out = (f \o e) \o <<B!EndOfStream>>]
    BY DEF B!execute_plugin_returns
<1> DEFINE o == (f \o e) \o <<B!EndOfStream>>
<1>2. /\ guest.pc = "publish" /\ guest.out = <<>> /\ UNCHANGED <<host, socket>>
      /\ guest.next > Len(guest.plan)
    BY DEF B!execute_plugin_returns
<1>3. GuestShape(guest) /\ GuestGood(guest)
    BY DEF BridgeInv
<1>4. "log" \in Kinds /\ "metrics" \in Kinds /\ 0 \in Payloads /\ 1 \in Payloads
    BY DEF Kinds, Payloads
<1>5. <<guest.next - 1, guest.at - 1>> = end
    <2>1. Len(guest.plan) \in Nat
        BY <1>3 DEF GuestGood, Plans
    <2>2. guest.next \in 1 .. Len(guest.plan) + 1
        BY <1>2, <1>3 DEF GuestGood
    <2>3. guest.next = Len(guest.plan) + 1 /\ ~(guest.next <= Len(guest.plan))
        BY <1>2, <2>1, <2>2
    <2>4. guest.at = 0
        BY <1>2, <1>3, <2>3 DEF GuestGood
    <2> QED  BY <2>1, <2>3, <2>4
<1>6. o \in Seq(Messages) /\ Chain(o, end, guest.plan) /\ Whole(o)
    <2> DEFINE m == [kind |-> "log", what |-> 1, part |-> "head"]
               n == [kind |-> "metrics", what |-> 0, part |-> "head"]
    <2>1. Message(m, guest.plan) /\ Link(end, m, guest.plan) /\ After(m, guest.plan) = end
        BY DEF Message, Link, Final, Before, After
    <2>2. Message(n, guest.plan) /\ Link(end, n, guest.plan)
        BY DEF Message, Link, Final, Before
    <2>3. /\ f \in Seq(Messages) /\ Chain(f, end, guest.plan) /\ Whole(f)
          /\ Ends(f, end, guest.plan) = end
        BY <1>4, <2>1, FrameIsChain
    <2>4. e \in Seq(Messages) /\ Chain(e, end, guest.plan) /\ Whole(e)
        <3>1. CASE e = <<>>
            BY <3>1 DEF Chain, Whole
        <3>2. CASE e = B!Frame("metrics", 0)
            BY <3>2, <1>4, <2>2, FrameIsChain
        <3> QED  BY <3>1, <3>2
    <2> HIDE DEF f, end
    <2> QED  BY <2>3, <2>4, LastWords
<1> HIDE DEF o, end
<1>7. /\ guest'.out = o /\ guest'.pc = "closing" /\ guest'.plan = guest.plan
      /\ guest'.uv = guest.uv /\ GuestShape(guest')
    BY <1>1, <1>3, <1>6 DEF GuestShape, o
<1>8. GuestGood(guest') /\ ~Early(guest')
    BY <1>3, <1>7 DEF GuestGood, Early
<1>9. LeadsOn(guest, guest')
    BY <1>2, <1>5, <1>6, <1>7, <1>8 DEF LeadsOn, GuestAt
<1>10. guest.pc # "dead"
    BY <1>2
<1> QED  BY <1>2, <1>7, <1>8, <1>9, <1>10, GuestSends

\* The logs of a parser stand before everything, whatever its outputs will be.
LEMMA LogsFirst ==
    ASSUME NEW plan, NEW old, NEW p, NEW w \in Seq(Messages), Chain(w, p, old),
           \A j \in 1 .. Len(w) : w[j].kind = "log" /\ w[j].what = 0
    PROVE  Chain(w, p, plan) /\ Ends(w, p, plan) = Ends(w, p, old)
<1>1. \A j \in 1 .. Len(w) : /\ Message(w[j], plan)
                             /\ Before(w[j], plan) = Before(w[j], old)
                             /\ After(w[j], plan) = After(w[j], old)
    <2> TAKE j \in 1 .. Len(w)
    <2>1. w[j].kind = "log" /\ w[j].what = 0 /\ Message(w[j], old)
        BY DEF Chain
    <2> QED  BY <2>1 DEF Message, Before, After
<1>2. Len(w) \in Nat /\ (w # <<>> => 1 \in 1 .. Len(w) /\ Len(w) \in 1 .. Len(w))
    OBVIOUS
<1>3. \A j \in 1 .. Len(w) - 1 : Follows(w[j], w[j + 1], plan)
    <2> TAKE j \in 1 .. Len(w) - 1
    <2>1. j \in 1 .. Len(w) /\ j + 1 \in 1 .. Len(w)
        BY <1>2
    <2>2. Follows(w[j], w[j + 1], old)
        BY DEF Chain
    <2> QED  BY <2>1, <2>2, <1>1 DEF Follows, Link
<1>4. w # <<>> => w[1].part = "head" /\ Link(p, w[1], plan)
    BY <1>1, <1>2 DEF Chain, Link
<1> QED  BY <1>1, <1>2, <1>3, <1>4 DEF Chain, Ends

\* parse() returns.
LEMMA ParseReturnsStep ==
    ASSUME BridgeInv, B!ParseReturns
    PROVE  BridgeInv'
<1>0. PICK k \in 0 .. MaxOutputs : \E plan \in [1 .. k -> 1 .. MaxBatches] :
            guest' = [guest EXCEPT !.pc = "publish", !.plan = plan]
    BY DEF B!ParseReturns
<1>1. PICK plan \in [1 .. k -> 1 .. MaxBatches] :
            guest' = [guest EXCEPT !.pc = "publish", !.plan = plan]
    BY <1>0
<1>2. guest.pc = "plugin" /\ guest.out = <<>> /\ UNCHANGED <<host, socket>>
    BY DEF B!ParseReturns
<1>3. GuestShape(guest) /\ GuestGood(guest) /\ socket \in Seq(Messages)
    BY DEF BridgeInv
<1>4. /\ GuestShape(guest') /\ guest'.pc = "publish" /\ guest'.plan = plan
      /\ guest'.uv = guest.uv /\ guest'.out = guest.out /\ guest'.next = guest.next /\ guest'.at = guest.at
    BY <1>1, <1>3 DEF GuestShape
<1>5. Early(guest) /\ ~Early(guest') /\ guest.plan = <<>> /\ guest.next = 1 /\ guest.at = 0
    BY <1>2, <1>3, <1>4 DEF Early, GuestGood
<1>6. plan \in Plans /\ Len(plan) = k /\ \A j \in 1 .. k : plan[j] \in Nat
    BY <1>1, BoundsAreNatural DEF Plans
<1>7. GuestGood(guest')
    <2>1. 1 <= Len(plan) => 0 \in 0 .. plan[1] + 1
        BY <1>6
    <2> QED  BY <1>4, <1>5, <1>6, <2>1 DEF GuestGood
<1>8. ~host.metrics
    BY <1>5 DEF BridgeInv
<1>9. ASSUME Reading(host)
      PROVE  HostGood(host, plan) /\ Flow(Pending(host, socket, guest'), HostPos(host), guest')
    <2> DEFINE w == Pending(host, socket, guest)
    <2>1. HostGood(host, <<>>) /\ Flow(w, HostPos(host), guest)
        BY <1>5, <1>9 DEF BridgeInv
    <2>2. HostGood(host, plan)
        <3>1. Len(host.outputs) = 0
            BY <2>1 DEF HostGood
        <3>2. host.current = None
            BY <2>1, <3>1 DEF HostGood
        <3> QED  BY <2>1, <3>1, <3>2, <1>6 DEF HostGood
    <2>3. Pending(host, socket, guest') = w
        BY <1>2, <1>4 DEF Pending, Rest
    <2>4. w \in Seq(Messages)
        BY <2>1, <1>3, PendingType DEF HostGood, GuestShape
    <2> HIDE DEF w
    <2>5. /\ Chain(w, HostPos(host), <<>>) /\ Whole(w)
          /\ Ends(w, HostPos(host), <<>>) = <<0, -1>>
          /\ \A j \in 1 .. Len(w) : w[j].kind = "log" /\ w[j].what = 0
        BY <2>1, <1>2, <1>5 DEF Flow, GuestAt
    <2>6. Chain(w, HostPos(host), plan) /\ Ends(w, HostPos(host), plan) = <<0, -1>>
        BY <2>4, <2>5, LogsFirst
    <2> QED  BY <2>2, <2>3, <2>5, <2>6, <1>4, <1>5 DEF Flow, GuestAt
<1>10. host' = host /\ socket' = socket
    BY <1>2
<1>11. B!Alive /\ B!Alive'
    BY <1>2, <1>4 DEF B!Alive
<1>12. Reading(host') => /\ HostGood(host', guest'.plan)
                         /\ Flow(Pending(host', socket', guest'), HostPos(host'), guest')
    BY <1>4, <1>9, <1>10
<1>13. /\ HostShape(host') /\ ~host'.metrics /\ host'.error # "protocol" /\ host'.result # "ok"
       /\ B!Returned' => LeftRunning(host', guest')
    BY <1>4, <1>8, <1>10, <1>11 DEF BridgeInv, B!Returned, LeftRunning
<1> QED  BY <1>3, <1>4, <1>7, <1>10, <1>12, <1>13 DEF BridgeInv

\* Every step of the shim keeps the invariant.
LEMMA GuestStepKeeps ==
    ASSUME BridgeInv, B!GuestStep
    PROVE  BridgeInv'
<1>1. ASSUME NEW code \in {1, 2}, B!Raise(code)  PROVE BridgeInv'
    BY <1>1, RaiseStep
<1>2. CASE B!send_log
    BY <1>2, SendLogStep
<1>3. CASE B!ParseReturns
    BY <1>3, ParseReturnsStep
<1>4. CASE B!SendAll
    BY <1>4, SendAllStep
<1>5. CASE B!PublishNext
    BY <1>5, PublishStep
<1>6. CASE B!execute_plugin_returns
    BY <1>6, ReturnsStep
<1>7. CASE \/ B!connect \/ B!RawWritten \/ B!ParseHangs \/ B!close \/ B!Exit
           \/ \E p \in {"stdout", "stderr"} : B!RawWrite(p)
    BY <1>7, QuietSteps
<1> QED  BY <1>1, <1>2, <1>3, <1>4, <1>5, <1>6, <1>7 DEF B!GuestStep

--------------------------------------------------------------------------------
(* What the host does. *)

\* A guest that is killed, or whose uv is.
Same(g, n) == /\ n.pc = g.pc /\ n.out = g.out /\ n.plan = g.plan
              /\ n.next = g.next /\ n.at = g.at

\* A host that no longer reads has what it has.
LEMMA HostStops ==
    ASSUME BridgeInv, HostShape(host'), ~Reading(host'), host'.metrics = host.metrics,
           host.metrics => host'.current = None /\ host'.outputs = host.outputs,
           host'.error # "protocol", host'.result = "ok" => host.metrics,
           socket' \in Seq(Messages), GuestShape(guest'), guest'.plan = guest.plan,
           Same(guest, guest') \/ guest'.pc = "dead",
           B!Returned' => guest'.pc = "dead" \/ LeftRunning(host', guest')
    PROVE  BridgeInv'
<1>1. GuestGood(guest') /\ (Early(guest') => Early(guest))
    BY DEF BridgeInv, GuestGood, Early, Same
<1>2. host'.metrics => /\ ~Early(guest')
                       /\ host'.current = None
                       /\ host'.outputs = B!ParserOutputs'
    BY <1>1 DEF BridgeInv, B!ParserOutputs
<1>3. B!Returned' => ~B!Alive' \/ LeftRunning(host', guest')
    BY DEF B!Alive
<1> QED  BY <1>1, <1>2, <1>3 DEF BridgeInv

\* The guest, or its uv, is killed and waited for.
LEMMA Cleaned ==
    ASSUME GuestShape(guest)
    PROVE  /\ GuestShape(B!cleanup_process) /\ B!cleanup_process.plan = guest.plan
           /\ \/ B!cleanup_process.pc = "dead"
              \/ Same(guest, B!cleanup_process) /\ B!cleanup_process.uv = "killed"
<1>1. CASE guest.uv = "none"
    <2>1. PICK y : B!cleanup_process = [guest EXCEPT !.pc = "dead", !.exit = y]
        BY <1>1 DEF B!cleanup_process
    <2> QED  BY <2>1 DEF GuestShape
<1>2. CASE guest.uv # "none"
    <2>1. B!cleanup_process = [guest EXCEPT !.uv = "killed"]
        BY <1>2 DEF B!cleanup_process
    <2> QED  BY <2>1 DEF GuestShape, Same
<1> QED  BY <1>1, <1>2

\* The host gives up on the guest.
LEMMA BailSteps ==
    ASSUME BridgeInv,
           NEW why \in {"cancelled", "timeout", "exited", "read", "size", "status"}, B!Bail(why),
           guest' = guest \/ guest' = B!cleanup_process,
           socket' = socket \/ (socket # <<>> /\ socket' = Tail(socket))
    PROVE  BridgeInv'
<1>3. HostShape(host) /\ GuestShape(guest) /\ socket \in Seq(Messages)
    BY DEF BridgeInv
<1>4. /\ HostShape(host') /\ host'.pc = "stderr" /\ host'.error = why
      /\ host'.metrics = host.metrics /\ host'.current = host.current
      /\ host'.outputs = host.outputs /\ host'.result = host.result
    BY <1>3 DEF B!Bail, HostShape
<1>5. ~Reading(host') /\ ~B!Returned'
    BY <1>4 DEF Reading, B!Returned
<1>6. /\ GuestShape(guest') /\ guest'.plan = guest.plan
      /\ Same(guest, guest') \/ guest'.pc = "dead"
    BY <1>3, Cleaned DEF Same
<1>7. host.metrics => host'.current = None /\ host'.outputs = host.outputs
    BY <1>4 DEF BridgeInv
<1>8. host'.error # "protocol" /\ (host'.result = "ok" => host.metrics)
    BY <1>4 DEF BridgeInv
<1>9. socket' \in Seq(Messages)
    BY <1>3
<1> QED  BY <1>4, <1>5, <1>6, <1>7, <1>8, <1>9, HostStops

\* execute_bridge_sync returns: with the guest gone, or with uv killed because the job
\* was cancelled.
LEMMA ReturnSteps ==
    ASSUME BridgeInv, NEW r \in {"ok", "err"},
           NEW why \in {host.error, "metrics", "cancelled", None}, B!Return(r, why),
           r = "ok" => host.metrics, socket' = socket,
           guest' = guest \/ guest' = B!cleanup_process,
           guest.pc # "dead" => why = "cancelled" /\ guest' = B!cleanup_process
    PROVE  BridgeInv'
<1>3. HostShape(host) /\ GuestShape(guest) /\ socket \in Seq(Messages)
    BY DEF BridgeInv
<1>4. /\ HostShape(host') /\ host'.pc = "returned" /\ host'.error = why
      /\ host'.metrics = host.metrics /\ host'.current = host.current
      /\ host'.outputs = host.outputs /\ host'.result = r
    BY <1>3 DEF B!Return, HostShape
<1>5. ~Reading(host')
    BY <1>4 DEF Reading
<1>6. /\ GuestShape(guest') /\ guest'.plan = guest.plan
      /\ Same(guest, guest') \/ guest'.pc = "dead"
      /\ guest'.pc = "dead" \/ LeftRunning(host', guest')
    <2>1. CASE guest' = guest /\ guest.pc = "dead"
        BY <1>3, <2>1 DEF Same
    <2>2. CASE guest' = B!cleanup_process
        <3>1. CASE guest'.pc = "dead"
            BY <1>3, <2>2, <3>1, Cleaned
        <3>2. CASE guest'.pc # "dead"
            <4>1. /\ GuestShape(guest') /\ guest'.plan = guest.plan
                  /\ Same(guest, guest') /\ guest'.uv = "killed"
                BY <1>3, <2>2, <3>2, Cleaned
            <4> QED  BY <1>4, <3>2, <4>1 DEF Same, LeftRunning
        <3> QED  BY <3>1, <3>2
    <2> QED  BY <2>1, <2>2
<1>7. host.metrics => host'.current = None /\ host'.outputs = host.outputs
    BY <1>4 DEF BridgeInv
<1>8. host'.error # "protocol" /\ (host'.result = "ok" => host.metrics)
    BY <1>4, NoneIsNothing DEF BridgeInv
<1> QED  BY <1>3, <1>4, <1>5, <1>6, <1>7, <1>8, HostStops

\* The steps that give up.
LEMMA GivesUp ==
    ASSUME BridgeInv, B!accept_fails \/ B!read_fails \/ B!body_stalls \/ B!refuse_size
    PROVE  BridgeInv'
<1>1. CASE B!accept_fails
    <2>1. PICK why \in {"cancelled", "timeout", "exited"} : B!Bail(why)
        BY <1>1 DEF B!accept_fails
    <2>2. socket' = socket /\ (guest' = guest \/ guest' = B!cleanup_process)
        BY <1>1 DEF B!accept_fails
    <2> QED  BY <2>1, <2>2, BailSteps
<1>2. CASE B!read_fails \/ B!body_stalls
    <2>1. PICK why \in {"cancelled", "timeout", "read"} : B!Bail(why)
        BY <1>2 DEF B!read_fails, B!body_stalls
    <2>2. socket' = socket /\ guest' = guest
        BY <1>2 DEF B!read_fails, B!body_stalls
    <2> QED  BY <2>1, <2>2, BailSteps
<1>3. CASE B!refuse_size
    <2>1. /\ B!Bail("size") /\ guest' = guest
          /\ socket' = socket \/ (socket # <<>> /\ socket' = Tail(socket))
        BY <1>3 DEF B!refuse_size
    <2> QED  BY <2>1, BailSteps
<1> QED  BY <1>1, <1>2, <1>3

\* The steps after the stream is at its end, or the host gave up.
LEMMA Finishes ==
    ASSUME BridgeInv, B!collect_stderr \/ B!wait_for_exit \/ B!wait_cancelled
    PROVE  BridgeInv'
<1>1. CASE B!collect_stderr
    <2>1. /\ B!Return("err", host.error) /\ guest.pc = "dead" /\ socket' = socket
          /\ guest' = B!cleanup_process
        BY <1>1 DEF B!collect_stderr, B!Alive
    <2> QED  BY <2>1, ReturnSteps
<1>2. CASE B!wait_for_exit
    <2>1. guest' = guest /\ socket' = socket
        BY <1>2 DEF B!wait_for_exit
    <2>2. CASE B!Success
        <3>1. guest.pc = "dead"
            BY <1>2, <2>2 DEF B!wait_for_exit, B!Exited, B!Success, B!Alive
        <3>2. B!Return("err", "metrics") \/ (B!Return("ok", None) /\ host.metrics)
            BY <1>2, <2>2 DEF B!wait_for_exit
        <3> QED  BY <2>1, <3>1, <3>2, ReturnSteps
    <2>3. CASE ~B!Success
        <3>1. B!Bail("status")
            BY <1>2, <2>3 DEF B!wait_for_exit
        <3> QED  BY <2>1, <3>1, BailSteps
    <2> QED  BY <2>2, <2>3
<1>3. CASE B!wait_cancelled
    <2>1. /\ B!Return("err", "cancelled") /\ socket' = socket /\ guest' = B!cleanup_process
        BY <1>3 DEF B!wait_cancelled
    <2> QED  BY <2>1, ReturnSteps
<1> QED  BY <1>1, <1>2, <1>3

\* The stream is at its end.
LEMMA StreamEndsStep ==
    ASSUME BridgeInv, host.pc = "header", host' = B!StreamEnds, guest' = guest,
           socket' \in Seq(Messages)
    PROVE  BridgeInv'
<1>1. HostShape(host) /\ GuestShape(guest)
    BY DEF BridgeInv
<1>2. /\ HostShape(host') /\ host'.pc = "wait" /\ host'.error = host.error
      /\ host'.metrics = host.metrics /\ host'.current = None /\ host'.result = host.result
      /\ host.current = None => host'.outputs = host.outputs
    BY <1>1 DEF HostShape, B!StreamEnds
<1>3. ~Reading(host') /\ ~B!Returned'
    BY <1>2 DEF Reading, B!Returned
<1>4. host.metrics => host'.current = None /\ host'.outputs = host.outputs
    BY <1>2 DEF BridgeInv
<1>5. host'.error # "protocol" /\ (host'.result = "ok" => host.metrics)
    BY <1>2 DEF BridgeInv
<1>6. Same(guest, guest')
    BY DEF Same
<1> QED  BY <1>1, <1>2, <1>3, <1>4, <1>5, <1>6, HostStops

\* A host that goes on reading, and leaves the guest alone.
LEMMA HostReads ==
    ASSUME BridgeInv, HostShape(host'), guest' = guest, socket' \in Seq(Messages),
           Reading(host'), HostGood(host', guest.plan),
           Flow(Pending(host', socket', guest), HostPos(host'), guest),
           host'.error = host.error, host'.result = host.result,
           host'.metrics => /\ ~Early(guest) /\ host'.current = None
                            /\ host'.outputs = B!ParserOutputs,
           host.metrics => host'.metrics
    PROVE  BridgeInv'
<1>1. B!ParserOutputs' = B!ParserOutputs
    BY DEF B!ParserOutputs
<1>2. ~B!Returned'
    BY DEF Reading, B!Returned
<1>3. host'.error # "protocol" /\ (host'.result = "ok" => host'.metrics)
    BY DEF BridgeInv
<1> QED  BY <1>1, <1>2, <1>3 DEF BridgeInv

\* The guest is there, or has connected.
LEMMA AcceptStep ==
    ASSUME BridgeInv, NEW pc \in {"accept", "header"}, host.pc \in {"spawned", "accept"},
           host' = [host EXCEPT !.pc = pc], guest' = guest, socket' = socket
    PROVE  BridgeInv'
<1>1. host.pc # "body" /\ pc # "body"
    OBVIOUS
<1>2. HostShape(host) /\ socket \in Seq(Messages)
    BY DEF BridgeInv
<1>3. /\ HostShape(host') /\ host'.pc = pc /\ host'.outputs = host.outputs
      /\ host'.current = host.current /\ host'.index = host.index /\ host'.metrics = host.metrics
      /\ host'.error = host.error /\ host'.result = host.result
    BY <1>1, <1>2 DEF HostShape
<1>4. /\ HostGood(host, guest.plan)
      /\ Flow(Pending(host, socket, guest), HostPos(host), guest)
    BY DEF BridgeInv, Reading
<1>5. HostGood(host', guest.plan)
    BY <1>3, <1>4 DEF HostGood
<1>6. HostPos(host') = HostPos(host) /\ Pending(host', socket', guest) = Pending(host, socket, guest)
    BY <1>1, <1>3 DEF HostPos, Pending, Got
<1>7. Reading(host')
    BY <1>3 DEF Reading
<1>8. host'.metrics => /\ ~Early(guest) /\ host'.current = None
                       /\ host'.outputs = B!ParserOutputs
    BY <1>3 DEF BridgeInv
<1> QED  BY <1>1, <1>2, <1>3, <1>4, <1>5, <1>6, <1>7, <1>8, HostReads

\* A header is read.
LEMMA HeaderStep ==
    ASSUME BridgeInv, B!read_header
    PROVE  BridgeInv'
<1>1. /\ host.pc = "header" /\ socket # <<>> /\ guest' = guest /\ socket' = Tail(socket)
      /\ host' = IF Head(socket).kind = "eos" THEN B!StreamEnds
                 ELSE [host EXCEPT !.pc = "body", !.frame = Head(socket)]
    BY DEF B!read_header
<1>2. HostShape(host) /\ GuestShape(guest) /\ socket \in Seq(Messages)
    BY DEF BridgeInv
<1>3. Head(socket) \in Messages /\ Tail(socket) \in Seq(Messages)
    BY <1>1, <1>2
<1>4. CASE Head(socket).kind = "eos"
    BY <1>1, <1>3, <1>4, StreamEndsStep
<1>5. CASE Head(socket).kind # "eos"
    <2>1. /\ HostShape(host') /\ host'.pc = "body" /\ host'.frame = Head(socket)
          /\ host'.outputs = host.outputs
          /\ host'.current = host.current /\ host'.index = host.index /\ host'.metrics = host.metrics
          /\ host'.error = host.error /\ host'.result = host.result
        BY <1>1, <1>2, <1>5 DEF HostShape
    <2>2. /\ HostGood(host, guest.plan)
          /\ Flow(Pending(host, socket, guest), HostPos(host), guest)
        BY <1>1 DEF BridgeInv, Reading
    <2>3. HostGood(host', guest.plan)
        BY <2>1, <2>2, <1>3, <1>5 DEF HostGood
    <2>4. HostPos(host') = HostPos(host)
        BY <2>1 DEF HostPos
    <2>5. Pending(host', socket', guest) = Pending(host, socket, guest)
        <3>1. Rest(guest) \in Seq(Messages)
            BY <1>2, <2>2, PendingType DEF GuestShape, HostGood
        <3>2. Got(host') = <<Head(socket)>> /\ Got(host) = <<>>
            BY <1>1, <2>1 DEF Got
        <3>3. <<Head(socket)>> \o Tail(socket) \o Rest(guest) = socket \o Rest(guest)
            BY <1>1, <1>2, <3>1, ReadIsPending
        <3>4. <<>> \o socket = socket
            BY <1>2, ConcatEmptySeq
        <3> QED  BY <1>1, <3>2, <3>3, <3>4 DEF Pending
    <2>6. Reading(host')
        BY <2>1 DEF Reading
    <2>7. host'.metrics => /\ ~Early(guest) /\ host'.current = None
                           /\ host'.outputs = B!ParserOutputs
        BY <2>1 DEF BridgeInv
    <2> QED  BY <1>1, <1>3, <2>1, <2>2, <2>3, <2>4, <2>5, <2>6, <2>7, HostReads
<1> QED  BY <1>4, <1>5

\* The number of batches is the length.
LEMMA BatchesType ==
    ASSUME NEW i \in Int, NEW n \in Nat
    PROVE  /\ B!Batches(i, n) \in Seq(Int \X Int) /\ Len(B!Batches(i, n)) = n
           /\ \A j \in 1 .. n : B!Batches(i, n)[j] = <<i, j>>
<1>1. B!Batches(i, n) \in [1 .. n -> Int \X Int]
    BY DEF B!Batches
<1>2. \A j \in 1 .. n : B!Batches(i, n)[j] = <<i, j>>
    BY DEF B!Batches
<1> QED  BY <1>1, <1>2

\* Batches are added one by one.
LEMMA BatchesGrow ==
    ASSUME NEW i \in Int, NEW n \in Nat
    PROVE  /\ Append(B!Batches(i, n), <<i, n + 1>>) = B!Batches(i, n + 1)
           /\ B!Batches(i, 0) = <<>>
<1> DEFINE a == B!Batches(i, n)
           s == Append(a, <<i, n + 1>>)
           t == B!Batches(i, n + 1)
<1>1. /\ a \in Seq(Int \X Int) /\ Len(a) = n
      /\ \A j \in 1 .. n : a[j] = <<i, j>>
    BY BatchesType
<1>2. n + 1 \in Nat
    OBVIOUS
<1>3. /\ t \in Seq(Int \X Int) /\ Len(t) = n + 1
      /\ \A j \in 1 .. n + 1 : t[j] = <<i, j>>
    BY <1>2, BatchesType
<1> HIDE DEF a, t
<1>4. s \in Seq(Int \X Int) /\ Len(s) = n + 1
    BY <1>1
<1>5. \A j \in 1 .. n + 1 : s[j] = <<i, j>>
    BY <1>1
<1> HIDE DEF s
<1>6. \A j \in 1 .. Len(s) : s[j] = t[j]
    BY <1>3, <1>4, <1>5
<1>7. s = t
    BY <1>3, <1>4, <1>6, SeqEqual
<1>8. B!Batches(i, 0) = <<>>
    BY BatchesType
<1> QED  BY <1>7, <1>8 DEF s, t, a

\* All that parse() returned, by its plan.
All(plan) == [i \in DOMAIN plan |-> B!Batches(i, plan[i])]

\* A host that has as many outputs as the plan has them all.
LEMMA AllOutputs ==
    ASSUME NEW plan \in Seq(Nat), NEW o \in Seq(Seq(Int \X Int)), Len(o) = Len(plan),
           \A i \in 1 .. Len(o) : o[i] = B!Batches(i, plan[i])
    PROVE  o = All(plan)
<1>1. DOMAIN plan = 1 .. Len(plan) /\ DOMAIN o = 1 .. Len(plan)
    OBVIOUS
<1>2. All(plan) = [i \in 1 .. Len(plan) |-> o[i]]
    BY <1>1 DEF All
<1>3. o = [i \in 1 .. Len(plan) |-> o[i]]
    BY <1>1
<1> QED  BY <1>2, <1>3

\* A plan is a sequence of positive numbers, and none of its outputs is None.
LEMMA PlanFacts ==
    ASSUME NEW plan \in Plans
    PROVE  /\ plan \in Seq(Nat) /\ Len(plan) \in Nat
           /\ \A i \in 1 .. Len(plan) : plan[i] \in Nat /\ plan[i] > 0
           /\ \A i \in 1 .. Len(plan) : \A n \in 0 .. plan[i] : B!Batches(i, n) # None
<1>1. /\ plan \in Seq(1 .. MaxBatches) /\ Len(plan) \in Nat /\ Len(plan) <= MaxOutputs
      /\ MaxOutputs \in Nat /\ MaxBatches \in Nat
    BY BoundsAreNatural DEF Plans
<1>2. plan \in Seq(Nat)
    BY <1>1
<1>3. \A i \in 1 .. Len(plan) : plan[i] \in 1 .. MaxBatches
    BY <1>1, ElementOfSeq
<1>4. ASSUME NEW i \in 1 .. Len(plan), NEW n \in 0 .. plan[i]
      PROVE  B!Batches(i, n) # None
    <2>1. i \in 1 .. MaxOutputs
        BY <1>1
    <2>2. n \in 0 .. MaxBatches
        BY <1>1, <1>3
    <2> QED  BY <2>1, <2>2, NoneIsNothing
<1> QED  BY <1>1, <1>2, <1>3, <1>4

\* What the position of the host says: no output is open ...
LEMMA NothingOpen ==
    ASSUME NEW plan \in Plans, NEW h, HostGood(h, plan), NEW c, HostPos(h) = <<c, -1>>
    PROVE  h.current = None /\ Len(h.outputs) = c /\ ~h.metrics
<1>1. /\ Len(h.outputs) = c /\ ~h.metrics
      /\ h.current # None => Len(h.current) = -1
    BY DEF HostPos
<1>2. ASSUME h.current # None  PROVE FALSE
    <2>1. PICK n \in 0 .. plan[h.index] : h.current = B!Batches(h.index, n)
        BY <1>2 DEF HostGood
    <2>2. h.index \in 1 .. Len(plan)
        BY <1>2, PlanFacts DEF HostGood
    <2>3. n \in Nat /\ h.index \in Int
        BY <2>1, <2>2, PlanFacts
    <2>4. Len(h.current) \in Nat
        BY <2>1, <2>3, BatchesType
    <2> QED  BY <1>1, <1>2, <2>4
<1> QED  BY <1>1, <1>2

\* ... or output i, with c batches.
LEMMA OutputOpen ==
    ASSUME NEW plan \in Plans, NEW h, HostGood(h, plan), NEW i, NEW c \in Nat,
           HostPos(h) = <<i - 1, c>>, i \in 1 .. Len(plan)
    PROVE  /\ h.current # None /\ Len(h.outputs) = i - 1 /\ ~h.metrics
           /\ h.index = i /\ h.current = B!Batches(i, c)
<1>1. Len(h.outputs) = i - 1 /\ ~h.metrics /\ h.current # None /\ Len(h.current) = c
    BY DEF HostPos
<1>2. h.index = i
    BY <1>1, PlanFacts DEF HostGood
<1>3. PICK n \in 0 .. plan[i] : h.current = B!Batches(i, n)
    BY <1>1, <1>2 DEF HostGood
<1>4. n \in Nat /\ i \in Int
    BY <1>3, PlanFacts
<1>5. n = c
    BY <1>1, <1>3, <1>4, BatchesType
<1> QED  BY <1>1, <1>2, <1>3, <1>5

\* A host m with an open output of c batches.
LEMMA OpensGood ==
    ASSUME NEW plan \in Plans, NEW h, HostGood(h, plan), ~h.metrics,
           NEW i \in 1 .. Len(plan), NEW c \in 0 .. plan[i],
           Len(h.outputs) = i - 1,
           NEW m, m.pc = "header", m.outputs = h.outputs, m.index = i,
           m.metrics = h.metrics, m.current = B!Batches(i, c)
    PROVE  HostGood(m, plan) /\ HostPos(m) = <<i - 1, c>>
<1>1. m.index = Len(m.outputs) + 1 /\ m.index <= Len(plan)
    BY PlanFacts
<1>2. \E n \in 0 .. plan[m.index] : m.current = B!Batches(m.index, n)
    OBVIOUS
<1>3. HostGood(m, plan)
    BY <1>1, <1>2 DEF HostGood
<1>4. m.current # None
    BY PlanFacts
<1>5. Len(m.current) = c
    <2>1. i \in Int /\ c \in Nat
        BY PlanFacts
    <2> QED  BY <2>1, BatchesType
<1> QED  BY <1>3, <1>4, <1>5 DEF HostPos

\* A host m that has closed output i.
LEMMA ClosesGood ==
    ASSUME NEW plan \in Plans, NEW h, HostGood(h, plan), ~h.metrics,
           NEW i \in 1 .. Len(plan), Len(h.outputs) = i - 1,
           NEW m, m.pc = "header", m.outputs = Append(h.outputs, B!Batches(i, plan[i])),
           m.metrics = h.metrics, m.current = None
    PROVE  HostGood(m, plan) /\ HostPos(m) = <<i, -1>>
<1>1. i \in Int /\ plan[i] \in Nat /\ Len(plan) \in Nat
    BY PlanFacts
<1>2. h.outputs \in Seq(Seq(Int \X Int)) /\ B!Batches(i, plan[i]) \in Seq(Int \X Int)
    BY <1>1, BatchesType DEF HostGood
<1>3. /\ m.outputs \in Seq(Seq(Int \X Int)) /\ Len(m.outputs) = i
      /\ \A j \in 1 .. i - 1 : m.outputs[j] = h.outputs[j]
      /\ m.outputs[i] = B!Batches(i, plan[i])
    BY <1>1, <1>2
<1>4. \A j \in 1 .. i : m.outputs[j] = B!Batches(j, plan[j])
    <2> TAKE j \in 1 .. i
    <2>1. CASE j = i
        BY <2>1, <1>3
    <2>2. CASE j # i
        <3>1. j \in 1 .. i - 1 /\ j \in 1 .. Len(h.outputs)
            BY <2>2, <1>1
        <3> QED  BY <3>1, <1>3 DEF HostGood
    <2> QED  BY <2>1, <2>2
<1> QED  BY <1>1, <1>3, <1>4 DEF HostGood, HostPos

\* What reading on leaves alone.
LEMMA NextFields ==
    ASSUME NEW h, HostShape(h), NEW n, n = [h EXCEPT !.pc = "header", !.frame = None]
    PROVE  /\ HostShape(n) /\ n.pc = "header" /\ n.outputs = h.outputs
           /\ n.current = h.current /\ n.index = h.index /\ n.metrics = h.metrics
           /\ n.error = h.error /\ n.result = h.result
BY DEF HostShape

\* A good host h becomes m: m has read the message f.
Took(h, m, f, plan) ==
    /\ HostShape(m) /\ m.result = h.result
    /\ m.pc = "header" /\ m.error = h.error
    /\ HostGood(m, plan)
    /\ m.metrics => m.current = None /\ m.outputs = All(plan)
    /\ h.metrics => m.metrics
    /\ f.kind # "metrics" => m.metrics = h.metrics
    /\ HostPos(m) = After(f, plan) \/ (Final(f) /\ HostPos(m) = HostPos(h))

\* What the host makes of a message that follows what it has read.
LEMMA MessageTaken ==
    ASSUME NEW plan \in Plans, NEW h, HostShape(h), h.pc = "body", HostGood(h, plan),
           NEW f, f = h.frame, NEW b, b = [f EXCEPT !.part = "body"],
           Message(f, plan), Link(HostPos(h), f, plan), f.kind # "error",
           h.metrics => h.current = None /\ h.outputs = All(plan)
    PROVE  Took(h, B!Handled(h, b), f, plan)
<1>0. PICK next : next = [h EXCEPT !.pc = "header", !.frame = None]
    OBVIOUS
<1> DEFINE n == B!Handled(h, b)
<1> SUFFICES Took(h, n, f, plan)
    OBVIOUS
<1>1. /\ f \in Messages /\ f.kind \in Kinds \ {"eos", "error"} /\ b.what = f.what
      /\ h.outputs \in Seq(Seq(Int \X Int))
    BY DEF HostGood, Messages
<1>2. /\ plan \in Seq(Nat) /\ Len(plan) \in Nat
      /\ \A i \in 1 .. Len(plan) : plan[i] \in Nat /\ plan[i] > 0
    BY PlanFacts
<1>3. /\ HostShape(next) /\ next.pc = "header" /\ next.outputs = h.outputs
      /\ next.current = h.current /\ next.index = h.index /\ next.metrics = h.metrics
      /\ next.error = h.error /\ next.result = h.result
    BY <1>0, NextFields
<1>4. HostGood(next, plan) /\ HostPos(next) = HostPos(h)
    BY <1>3 DEF HostGood, HostPos
<1>5. CASE f.kind = "log"
    <2>1. n = next
        BY <1>0, <1>5 DEF B!Handled
    <2>2. Final(f) \/ HostPos(h) = After(f, plan)
        <3>1. f.what \in 0 .. 2
            BY <1>5 DEF Message
        <3>2. Final(f) \/ Before(f, plan) = HostPos(h)
            BY DEF Link
        <3>3. ~Final(f) => After(f, plan) = Before(f, plan)
            BY <1>5, <3>1 DEF Before, After, Final
        <3> QED  BY <3>2, <3>3
    <2> QED  BY <1>3, <1>4, <2>1, <2>2 DEF Took
<1>6. CASE f.kind = "metrics"
    <2>1. n = [next EXCEPT !.metrics = TRUE]
        BY <1>0, <1>6 DEF B!Handled
    <2>2. ~Final(f)
        BY <1>6 DEF Final
    <2>3. HostPos(h) = <<Len(plan), -1>> /\ After(f, plan) = <<Len(plan), -2>>
        BY <1>6, <2>2 DEF Before, After, Link
    <2>4. Len(h.outputs) = Len(plan) /\ h.current = None
        BY <2>3, NothingOpen
    <2>5. /\ HostShape(n) /\ n.pc = "header" /\ n.metrics = TRUE /\ n.outputs = h.outputs
          /\ n.current = h.current /\ n.index = h.index
          /\ n.error = h.error /\ n.result = h.result
        BY <1>3, <2>1 DEF HostShape
    <2> HIDE DEF n
    <2>6. HostGood(n, plan)
        BY <2>4, <2>5 DEF HostGood
    <2>7. h.outputs = All(plan)
        BY <1>1, <1>2, <2>4, AllOutputs DEF HostGood
    <2>8. HostPos(n) = After(f, plan)
        BY <2>3, <2>4, <2>5 DEF HostPos
    <2> QED  BY <1>6, <2>4, <2>5, <2>6, <2>7, <2>8 DEF Took
<1>7. CASE f.kind = "start"
    <2>0. PICK i \in 1 .. Len(plan) : f.what = i
        BY <1>7 DEF Message
    <2>1. ~Final(f)
        BY <1>7 DEF Final
    <2>2. HostPos(h) = <<i - 1, -1>> /\ After(f, plan) = <<i - 1, 0>>
        BY <1>7, <2>0, <2>1 DEF Before, After, Link
    <2>3. Len(h.outputs) = i - 1 /\ h.current = None /\ ~h.metrics
        BY <2>2, NothingOpen
    <2>4. n = [next EXCEPT !.current = <<>>, !.index = i]
        BY <1>0, <1>1, <1>7, <2>0, <2>3 DEF B!Handled
    <2>5. /\ HostShape(n) /\ n.pc = "header" /\ n.metrics = h.metrics /\ n.outputs = h.outputs
          /\ n.current = <<>> /\ n.index = i
          /\ n.error = h.error /\ n.result = h.result
        BY <1>3, <2>4 DEF HostShape
    <2> HIDE DEF n
    <2>6. 0 \in 0 .. plan[i] /\ B!Batches(i, 0) = <<>>
        <3>1. i \in Int /\ 0 \in Nat
            OBVIOUS
        <3> QED  BY <1>2, <3>1, BatchesGrow
    <2>7. HostGood(n, plan) /\ HostPos(n) = <<i - 1, 0>>
        BY <2>3, <2>5, <2>6, OpensGood
    <2> QED  BY <2>2, <2>3, <2>5, <2>7 DEF Took
<1>8. CASE f.kind = "batch"
    <2>0. PICK i \in 1 .. Len(plan) : \E c \in 1 .. plan[i] : f.what = <<i, c>>
        BY <1>8 DEF Message
    <2>1. PICK c \in 1 .. plan[i] : f.what = <<i, c>>
        BY <2>0
    <2>2. ~Final(f) /\ f.what[1] = i /\ f.what[2] = c
        BY <1>8, <2>1 DEF Final
    <2>3. HostPos(h) = <<i - 1, c - 1>> /\ After(f, plan) = <<i - 1, c>>
        BY <1>8, <2>2 DEF Before, After, Link
    <2>4. i \in Int /\ c - 1 \in Nat /\ c = (c - 1) + 1 /\ c \in 0 .. plan[i]
        BY <1>2
    <2>5. /\ Len(h.outputs) = i - 1 /\ h.current # None /\ ~h.metrics
          /\ h.index = i /\ h.current = B!Batches(i, c - 1)
        BY <2>3, <2>4, OutputOpen
    <2>6. n = [next EXCEPT !.current = Append(next.current, f.what)]
        BY <1>0, <1>1, <1>8, <2>5 DEF B!Handled
    <2>7. Append(h.current, f.what) = B!Batches(i, c)
        BY <2>1, <2>4, <2>5, BatchesGrow
    <2>8. /\ HostShape(n) /\ n.pc = "header" /\ n.metrics = h.metrics /\ n.outputs = h.outputs
          /\ n.current = B!Batches(i, c) /\ n.index = i
          /\ n.error = h.error /\ n.result = h.result
        BY <1>3, <2>5, <2>6, <2>7 DEF HostShape
    <2> HIDE DEF n
    <2>9. HostGood(n, plan) /\ HostPos(n) = <<i - 1, c>>
        BY <2>4, <2>5, <2>8, OpensGood
    <2> QED  BY <2>3, <2>5, <2>8, <2>9 DEF Took
<1>9. CASE f.kind = "end"
    <2>0. PICK i \in 1 .. Len(plan) : f.what = i
        BY <1>9 DEF Message
    <2>1. ~Final(f)
        BY <1>9 DEF Final
    <2>2. HostPos(h) = <<i - 1, plan[i]>> /\ After(f, plan) = <<i, -1>>
        BY <1>9, <2>0, <2>1 DEF Before, After, Link
    <2>3. /\ Len(h.outputs) = i - 1 /\ h.current # None /\ ~h.metrics
          /\ h.index = i /\ h.current = B!Batches(i, plan[i])
        BY <1>2, <2>2, OutputOpen
    <2>4. n = B!end_output(h)
        BY <1>1, <1>9, <2>0, <2>3 DEF B!Handled
    <2>5. /\ HostShape(n) /\ n.pc = "header" /\ n.metrics = h.metrics
          /\ n.outputs = Append(h.outputs, B!Batches(i, plan[i])) /\ n.current = None
          /\ n.error = h.error /\ n.result = h.result
        BY <2>3, <2>4 DEF HostShape, B!end_output
    <2> HIDE DEF n
    <2>6. HostGood(n, plan) /\ HostPos(n) = <<i, -1>>
        BY <2>3, <2>5, ClosesGood
    <2> QED  BY <2>2, <2>3, <2>5, <2>6 DEF Took
<1> QED  BY <1>1, <1>5, <1>6, <1>7, <1>8, <1>9 DEF Kinds

\* Only a message after which nothing counts may follow one.
LEMMA AfterFinal ==
    ASSUME NEW plan \in Plans, NEW v \in Seq(Messages), NEW p, Chain(v, <<-1, -1>>, plan)
    PROVE  Chain(v, p, plan)
<1>1. ASSUME v # <<>>  PROVE Final(v[1])
    <2>1. Message(v[1], plan) /\ Link(<<-1, -1>>, v[1], plan)
        <3>1. 1 \in 1 .. Len(v)
            BY <1>1
        <3> QED  BY <1>1, <3>1 DEF Chain
    <2>2. PICK m : m = v[1]
        OBVIOUS
    <2>3. Len(plan) \in Nat
        BY PlanFacts
    <2>4. Before(m, plan) # <<-1, -1>>
        <3>1. CASE m.kind \in {"start", "end"}
            <4>1. m.what \in 1 .. Len(plan)
                BY <3>1, <2>1, <2>2 DEF Message
            <4>2. m.what - 1 # -1
                BY <4>1, <2>3
            <4> QED  BY <3>1, <4>2 DEF Before
        <3>2. CASE m.kind = "batch"
            <4>1. PICK i \in 1 .. Len(plan) : \E b \in 1 .. plan[i] : m.what = <<i, b>>
                BY <3>2, <2>1, <2>2 DEF Message
            <4>2. m.what[1] - 1 # -1
                BY <4>1, <2>3
            <4> QED  BY <3>2, <4>2 DEF Before
        <3>3. CASE m.kind \notin {"start", "end", "batch"}
            BY <3>3, <2>3 DEF Before
        <3> QED  BY <3>1, <3>2, <3>3
    <2> QED  BY <2>1, <2>2, <2>4 DEF Link
<1> QED  BY <1>1 DEF Chain, Link

\* What is left after the first message leads on from where the host then is.
LEMMA FlowDrop ==
    ASSUME NEW plan \in Plans, NEW f \in Messages, NEW b \in Messages, NEW v \in Seq(Messages),
           NEW p, NEW q, NEW g, GuestGood(g), g.plan = plan,
           f.kind # "eos", NEW w, StartsWith(w, f, b, v), Flow(w, p, g),
           q = After(f, plan) \/ Final(f)
    PROVE  Flow(v, q, g)
<1> DEFINE a == After(f, plan)
<1>1. Chain(w, p, plan)
    BY DEF Flow
<1>2. /\ Chain(v, a, plan) /\ Ends(w, p, plan) = Ends(v, a, plan)
      /\ Whole(w) => Whole(v)
    <2>1. Chain(v, a, plan)
        BY <1>1, ChainDrop
    <2>2. EndTogether(w, p, v, a, plan)
        BY <1>1, ChainDrop
    <2>3. Whole(w) => Whole(v)
        BY <1>1, ChainDrop
    <2> QED  BY <2>1, <2>2, <2>3 DEF EndTogether
<1>3. Final(f) => a = <<-1, -1>>
    BY DEF After, Final
<1>4. Chain(v, q, plan)
    BY <1>2, <1>3, AfterFinal
<1>5. ASSUME g.pc # "dead"  PROVE Whole(v) /\ GuestAt(g, Ends(v, q, plan))
    <2>1. Whole(v) /\ GuestAt(g, Ends(v, a, plan))
        BY <1>2, <1>5 DEF Flow
    <2>2. CASE v # <<>> \/ q = a
        BY <2>1, <2>2 DEF Ends
    <2>3. CASE v = <<>> /\ q # a
        <3>1. Ends(v, a, plan) = <<-1, -1>>
            BY <1>3, <2>3 DEF Ends
        <3>2. ASSUME Early(g) \/ g.pc = "publish"  PROVE FALSE
            <4>1. <<g.next - 1, g.at - 1>> = <<-1, -1>>
                BY <2>1, <3>1, <3>2 DEF GuestAt
            <4>2. g.next \in Nat /\ g.next >= 1
                BY <3>2, PlanFacts DEF GuestGood
            <4> QED  BY <4>1, <4>2
        <3> QED  BY <2>1, <3>2 DEF GuestAt
    <2> QED  BY <2>2, <2>3
<1>6. ASSUME Early(g)  PROVE \A j \in 1 .. Len(v) : v[j].kind = "log" /\ v[j].what = 0
    <2> TAKE j \in 1 .. Len(v)
    <2>1. j + 2 \in 1 .. Len(w) /\ w[j + 2] = v[j]
        BY DEF StartsWith
    <2>2. \A k \in 1 .. Len(w) : w[k].kind = "log" /\ w[k].what = 0
        BY <1>6 DEF Flow
    <2> QED  BY <2>1, <2>2
<1> QED  BY <1>4, <1>5, <1>6 DEF Flow

\* A body is read.
LEMMA BodyStep ==
    ASSUME BridgeInv, B!read_body
    PROVE  BridgeInv'
<1> DEFINE f == host.frame
           b == Head(socket)
           v == Tail(socket) \o Rest(guest)
           plan == guest.plan
<1>1. /\ host.pc = "body" /\ socket # <<>> /\ guest' = guest /\ socket' = Tail(socket)
      /\ host' = B!Handled(host, b)
    BY DEF B!read_body
<1>2. /\ HostShape(host) /\ GuestShape(guest) /\ GuestGood(guest) /\ socket \in Seq(Messages)
      /\ plan \in Plans
    BY DEF BridgeInv, GuestGood
<1>3. b \in Messages /\ Tail(socket) \in Seq(Messages)
    BY <1>1, <1>2
<1>4. HostGood(host, plan) /\ Flow(Pending(host, socket, guest), HostPos(host), guest)
    BY <1>1 DEF BridgeInv, Reading
<1>5. f \in Messages /\ f.kind # "eos"
    BY <1>1, <1>4 DEF HostGood
<1>6. Rest(guest) \in Seq(Messages) /\ v \in Seq(Messages)
    <2>1. Rest(guest) \in Seq(Messages)
        BY <1>2, <1>5, PendingType DEF GuestShape
    <2> QED  BY <1>3, <2>1
<1>7. Pending(host, socket, guest) = <<f, b>> \o v
    <2>1. Got(host) = <<f>>
        BY <1>1 DEF Got
    <2>2. <<f>> \o socket = <<f, b>> \o Tail(socket)
        <3>1. /\ <<f>> \o socket \in Seq(Messages) /\ <<f, b>> \o Tail(socket) \in Seq(Messages)
              /\ Len(<<f>> \o socket) = Len(<<f, b>> \o Tail(socket))
            BY <1>1, <1>2, <1>3, <1>5
        <3>2. \A j \in 1 .. Len(<<f>> \o socket) : (<<f>> \o socket)[j] = (<<f, b>> \o Tail(socket))[j]
            BY <1>1, <1>2, <1>3, <1>5
        <3> QED  BY <3>1, <3>2, SeqEqual
    <2>3. (<<f, b>> \o Tail(socket)) \o Rest(guest) = <<f, b>> \o v
        <3>1. <<f, b>> \in Seq(Messages)
            BY <1>3, <1>5
        <3> QED  BY <1>3, <1>6, <3>1, PendingAssociates, Zenon
    <2> QED  BY <2>1, <2>2, <2>3 DEF Pending
<1>s. StartsWith(Pending(host, socket, guest), f, b, v)
    BY <1>7 DEF StartsWith
<1>8. /\ Message(f, plan) /\ Link(HostPos(host), f, plan) /\ b = [f EXCEPT !.part = "body"]
    <2>1. Chain(Pending(host, socket, guest), HostPos(host), plan)
        BY <1>4 DEF Flow
    <2> HIDE DEF v
    <2> QED  BY <1>3, <1>5, <1>6, <1>s, <2>1, ChainDrop
<1>9. host.metrics => host.current = None /\ host.outputs = All(plan)
    BY DEF BridgeInv, All, B!ParserOutputs
<1>10. CASE f.kind = "error"
    <2>1. host' = [host EXCEPT !.pc = "stderr", !.error = "guest"]
        BY <1>1, <1>8, <1>10 DEF B!Handled
    <2>2. /\ HostShape(host') /\ host'.pc = "stderr" /\ host'.error = "guest"
          /\ host'.metrics = host.metrics /\ host'.outputs = host.outputs
          /\ host'.current = host.current /\ host'.result = host.result
        BY <1>2, <2>1 DEF HostShape
    <2>3. ~Reading(host') /\ ~B!Returned'
        BY <2>2 DEF Reading, B!Returned
    <2>4. host'.result = "ok" => host.metrics
        BY <2>2 DEF BridgeInv
    <2>5. Same(guest, guest')
        BY <1>1 DEF Same
    <2> QED  BY <1>1, <1>2, <1>3, <1>9, <2>2, <2>3, <2>4, <2>5, HostStops
<1>11. CASE f.kind # "error"
    <2>1. Took(host, host', f, plan)
        BY <1>1, <1>2, <1>4, <1>8, <1>9, <1>11, MessageTaken
    <2>2. Flow(v, HostPos(host'), guest)
        <3>1. Flow(Pending(host, socket, guest), HostPos(host), guest)
            BY <1>4
        <3>2. HostPos(host') = After(f, plan) \/ Final(f)
            BY <2>1 DEF Took
        <3> HIDE DEF v
        <3> QED  BY <1>2, <1>3, <1>5, <1>6, <1>s, <3>1, <3>2, FlowDrop
    <2>3. Pending(host', socket', guest) = v
        <3>1. Got(host') = <<>>
            BY <2>1 DEF Got, Took
        <3>2. <<>> \o Tail(socket) = Tail(socket)
            BY <1>3, ConcatEmptySeq
        <3> QED  BY <1>1, <3>1, <3>2 DEF Pending
    <2>4. ASSUME host'.metrics
          PROVE  ~Early(guest) /\ host'.current = None /\ host'.outputs = B!ParserOutputs
        <3>1. host'.current = None /\ host'.outputs = B!ParserOutputs
            BY <2>1, <2>4 DEF Took, All, B!ParserOutputs
        <3>2. CASE f.kind = "metrics"
            <4>1. 1 \in 1 .. Len(<<f, b>> \o v) /\ (<<f, b>> \o v)[1] = f
                BY <1>3, <1>5, <1>6
            <4> HIDE DEF v
            <4>2. Early(guest) => f.kind = "log"
                BY <1>4, <1>7, <4>1 DEF Flow
            <4> QED  BY <3>1, <3>2, <4>2
        <3>3. CASE f.kind # "metrics"
            BY <2>1, <2>4, <3>1, <3>3 DEF Took, BridgeInv
        <3> QED  BY <3>2, <3>3
    <2>5. /\ HostShape(host') /\ Reading(host') /\ HostGood(host', guest.plan)
          /\ host'.error = host.error /\ host'.result = host.result
          /\ host.metrics => host'.metrics
        BY <2>1 DEF Took, Reading
    <2>6. socket' \in Seq(Messages) /\ Flow(Pending(host', socket', guest), HostPos(host'), guest)
        BY <1>1, <1>3, <2>2, <2>3
    <2> QED  BY <1>1, <2>4, <2>5, <2>6, HostReads
<1> QED  BY <1>10, <1>11

\* Every step of execute_bridge_sync keeps the invariant.
LEMMA HostStepKeeps ==
    ASSUME BridgeInv, B!HostStep
    PROVE  BridgeInv'
<1>1. CASE B!read_eof
    <2>1. host.pc = "header" /\ host' = B!StreamEnds /\ guest' = guest /\ socket' = socket
        BY <1>1 DEF B!read_eof
    <2>2. socket \in Seq(Messages)
        BY DEF BridgeInv
    <2> QED  BY <2>1, <2>2, StreamEndsStep
<1>2. CASE B!accept
    <2>1. /\ host.pc = "accept" /\ host' = [host EXCEPT !.pc = "header"]
          /\ guest' = guest /\ socket' = socket
        BY <1>2 DEF B!accept
    <2> QED  BY <2>1, AcceptStep
<1>7. CASE B!spawn_guest
    <2>1. CASE token
        <3>1. /\ B!Return("err", "cancelled") /\ socket' = socket /\ guest' = B!cleanup_process
            BY <1>7, <2>1 DEF B!spawn_guest
        <3> QED  BY <3>1, ReturnSteps
    <2>2. CASE ~token
        <3>1. /\ host.pc = "spawned" /\ host' = [host EXCEPT !.pc = "accept"]
              /\ guest' = guest /\ socket' = socket
            BY <1>7, <2>2 DEF B!spawn_guest
        <3> QED  BY <3>1, AcceptStep
    <2> QED  BY <2>1, <2>2
<1>3. CASE B!read_header
    BY <1>3, HeaderStep
<1>4. CASE B!read_body
    BY <1>4, BodyStep
<1>5. CASE B!accept_fails \/ B!read_fails \/ B!body_stalls \/ B!refuse_size
    BY <1>5, GivesUp
<1>6. CASE B!collect_stderr \/ B!wait_for_exit \/ B!wait_cancelled
    BY <1>6, Finishes
<1> QED  BY <1>1, <1>2, <1>3, <1>4, <1>5, <1>6, <1>7 DEF B!HostStep

\* The invariant of the bridge holds at the start.
LEMMA BridgeStarts ==
    ASSUME B!Init
    PROVE  BridgeInv
<1>1. HostShape(host) /\ GuestShape(guest) /\ socket \in Seq(Messages)
    BY DEF B!Init, HostShape, GuestShape
<1>2. GuestGood(guest)
    BY BoundsAreNatural DEF B!Init, GuestGood, Plans, Early
<1>3. HostGood(host, guest.plan)
    BY DEF B!Init, HostGood
<1>4. Pending(host, socket, guest) = <<>> /\ HostPos(host) = <<0, -1>>
    BY DEF B!Init, Pending, Got, Rest, HostPos
<1>5. Flow(<<>>, <<0, -1>>, guest)
    BY DEF B!Init, Flow, Chain, Whole, GuestAt, Ends, Early
<1>6. /\ ~host.metrics /\ host.error # "protocol" /\ host.result # "ok" /\ ~B!Returned
    BY NoneIsNothing DEF B!Init, B!Returned
<1> QED  BY <1>1, <1>2, <1>3, <1>4, <1>5, <1>6 DEF BridgeInv

--------------------------------------------------------------------------------
(* Chains of lines and pieces. *)

\* The rest of a chain leads on from where its first element leads.
LEMMA NChainDrop ==
    ASSUME NEW plan, NEW p, NEW w \in Seq(NMessages), w # <<>>, NChain(w, p, plan)
    PROVE  /\ NBefore(Head(w), plan) = p
           /\ NChain(Tail(w), NAfter(Head(w), plan), plan)
           /\ NEnds(Tail(w), NAfter(Head(w), plan), plan) = NEnds(w, p, plan)
<1> DEFINE t == Tail(w)
<1>1. /\ t \in Seq(NMessages) /\ Len(t) = Len(w) - 1 /\ Len(w) \in Nat \ {0} /\ Head(w) = w[1]
      /\ \A j \in 1 .. Len(t) : t[j] = w[j + 1]
    OBVIOUS
<1>2. t # <<>> => Len(t) \in Nat \ {0}
    BY <1>1
<1> HIDE DEF t
<1>3. \A j \in 1 .. Len(t) - 1 : NBefore(t[j + 1], plan) = NAfter(t[j], plan)
    <2> TAKE j \in 1 .. Len(t) - 1
    <2>1. t[j] = w[j + 1] /\ t[j + 1] = w[(j + 1) + 1] /\ j + 1 \in 1 .. Len(w) - 1
        BY <1>1
    <2> QED  BY <2>1 DEF NChain
<1>4. t # <<>> => NBefore(t[1], plan) = NAfter(w[1], plan)
    <2> HAVE t # <<>>
    <2>1. t[1] = w[1 + 1] /\ 1 \in 1 .. Len(w) - 1
        BY <1>1, <1>2
    <2> QED  BY <2>1 DEF NChain
<1>5. NEnds(t, NAfter(w[1], plan), plan) = NEnds(w, p, plan)
    <2>1. CASE t = <<>>
        <3>1. Len(w) = 1
            BY <1>1, <2>1
        <3> QED  BY <2>1, <3>1 DEF NEnds
    <2>2. CASE t # <<>>
        <3>1. t[Len(t)] = w[Len(w)]
            BY <1>1, <1>2, <2>2
        <3> QED  BY <2>2, <3>1 DEF NEnds
    <2> QED  BY <2>1, <2>2
<1>6. NBefore(w[1], plan) = p
    BY DEF NChain
<1> QED  BY <1>1, <1>3, <1>4, <1>5, <1>6 DEF NChain, t

\* An element that stands where a chain ends makes it longer.
LEMMA NChainAppend ==
    ASSUME NEW plan, NEW p, NEW w \in Seq(NMessages), NEW m \in NMessages, NChain(w, p, plan),
           NBefore(m, plan) = NEnds(w, p, plan)
    PROVE  /\ NChain(Append(w, m), p, plan)
           /\ NEnds(Append(w, m), p, plan) = NAfter(m, plan)
<1> DEFINE t == Append(w, m)
<1>1. /\ t # <<>> /\ Len(t) = Len(w) + 1 /\ Len(w) \in Nat /\ t[Len(t)] = m
      /\ \A j \in 1 .. Len(w) : t[j] = w[j]
    OBVIOUS
<1>0. w # <<>> => Len(w) \in Nat \ {0}
    OBVIOUS
<1> HIDE DEF t
<1>2. NBefore(t[1], plan) = p
    <2>1. CASE w = <<>>
        <3>1. t[1] = m
            BY <1>1, <2>1
        <3> QED  BY <2>1, <3>1 DEF NEnds
    <2>2. CASE w # <<>>
        <3>1. t[1] = w[1]
            BY <1>0, <1>1, <2>2
        <3> QED  BY <2>2, <3>1 DEF NChain
    <2> QED  BY <2>1, <2>2
<1>3. \A j \in 1 .. Len(t) - 1 : NBefore(t[j + 1], plan) = NAfter(t[j], plan)
    <2> TAKE j \in 1 .. Len(t) - 1
    <2>1. CASE j = Len(w)
        <3>1. t[j + 1] = m /\ t[j] = w[Len(w)] /\ w # <<>>
            BY <1>1, <2>1
        <3> QED  BY <3>1 DEF NEnds
    <2>2. CASE j # Len(w)
        <3>1. t[j + 1] = w[j + 1] /\ t[j] = w[j] /\ j \in 1 .. Len(w) - 1
            BY <1>1, <2>2
        <3> QED  BY <3>1 DEF NChain
    <2> QED  BY <2>1, <2>2
<1> QED  BY <1>1, <1>2, <1>3 DEF NChain, NEnds, t

\* A line does not move the stream.
LEMMA LineStands ==
    ASSUME NEW plan, NEW m, LineOK(m, plan)
    PROVE  NBefore(m, plan) = NAfter(m, plan)
BY DEF LineOK, NBefore, NAfter

\* A piece moves it forward.
LEMMA PieceMoves ==
    ASSUME NEW plan \in Plans, NEW m, PieceOK(m, plan)
    PROVE  /\ NBefore(m, plan)[1] \in Int /\ NAfter(m, plan)[1] \in Int
           /\ NBefore(m, plan)[1] <= NAfter(m, plan)[1]
<1>0. Len(plan) \in Nat
    BY PlanFacts
<1>1. CASE m.kind \in {"schema", "eos"}
    <2>1. m.what \in 0 .. Len(plan) - 1
        BY <1>1 DEF PieceOK
    <2> QED  BY <1>0, <1>1, <2>1 DEF NBefore, NAfter
<1>2. CASE m.kind = "batch"
    <2>1. PICK i \in 1 .. Len(plan) : \E b \in 1 .. plan[i] : m.what = <<i - 1, b>>
        BY <1>2 DEF PieceOK
    <2>2. m.what[1] = i - 1 /\ i - 1 \in Int
        BY <2>1, <1>0
    <2>3. NBefore(m, plan) = m.what /\ NAfter(m, plan) = <<m.what[1], m.what[2] + 1>>
        BY <1>2 DEF NBefore, NAfter
    <2> QED  BY <2>2, <2>3
<1> QED  BY <1>1, <1>2 DEF PieceOK

\* Where the end of an output stands.
LEMMA EndStands ==
    ASSUME NEW plan, NEW m, m.kind = "end"
    PROVE  NBefore(m, plan) = <<m.what + 1, 0>> /\ NAfter(m, plan) = <<m.what + 1, 0>>
BY DEF NBefore, NAfter

\* Without its first element, what is to be written still ends with the same one.
LEMMA EndsLater ==
    ASSUME NEW c, NEW d, c.todo \in Seq(NMessages), c.todo # <<>>, c.next \in Int,
           d.todo = Tail(c.todo), d.next = c.next
    PROVE  /\ EndsWritten(c) \in Int /\ EndsWritten(d) \in Int
           /\ EndsWritten(c) <= EndsWritten(d)
           /\ c.todo[1].kind = "end" /\ Len(c.todo) = 1 =>
                 EndsWritten(c) = c.next - 2 /\ EndsWritten(d) = c.next - 1
<1>0. PICK t \in Seq(NMessages) : t = c.todo
    OBVIOUS
<1>1. PICK u \in Seq(NMessages) : u = Tail(t)
    <2>1. t # <<>>
        BY <1>0
    <2>2. Tail(t) \in Seq(NMessages)
        BY <2>1, HeadTailProperties
    <2> QED  BY <2>2
<1>2. /\ Len(t) \in Nat \ {0} /\ Len(u) = Len(t) - 1
      /\ \A j \in 1 .. Len(u) : u[j] = t[j + 1]
    BY <1>0, <1>1
<1>3. u = <<>> <=> Len(u) = 0
    BY EmptySeq
<1>4. Len(u) # 0 => u[Len(u)] = t[Len(t)]
    BY <1>2
<1>5. EndsWritten(c) = IF t[Len(t)].kind = "end" THEN c.next - 2 ELSE c.next - 1
    BY <1>0 DEF EndsWritten
<1>6. EndsWritten(d) = IF Len(u) # 0 /\ t[Len(t)].kind = "end" THEN c.next - 2 ELSE c.next - 1
    BY <1>0, <1>1, <1>3, <1>4 DEF EndsWritten
<1>7. PICK x, y : x = EndsWritten(c) /\ y = EndsWritten(d)
    OBVIOUS
<1>8. x \in Int /\ y \in Int /\ x <= y
    BY <1>5, <1>6, <1>7
<1>9. Len(t) = 1 /\ t[1].kind = "end" => x = c.next - 2 /\ y = c.next - 1
    BY <1>2, <1>5, <1>6, <1>7
<1> QED  BY <1>0, <1>7, <1>8, <1>9

--------------------------------------------------------------------------------
(* What the native parser does. *)

\* A step of the child alone keeps the invariant if what is under way still fits.
LEMMA ChildKeeps ==
    ASSUME NativeInv, native' = native, ChildShape(child'),
           control' \in Seq(NMessages), data' \in Seq(NMessages),
           child'.plan = child.plan, child.pc = "dead" => child'.pc = "dead",
           child.pc = "dead" => control' = control,
           NReading(native) =>
              NFlow(native.expected, NHostPos(native), child', control', data')
    PROVE  NativeInv'
<1>1. Kept(native', child'.plan) /\ NativeShape(native')
    BY DEF NativeInv
<1>2. ASSUME NReading(native)  PROVE Collected(native, child', control')
    BY <1>2 DEF NativeInv, Collected
<1>3. N!Returned' /\ native'.error = "cancelled" => ~N!Alive'
    BY DEF NativeInv, N!Returned, N!Alive
<1> QED  BY <1>1, <1>2, <1>3 DEF NativeInv

\* The child is gone.
LEMMA ChildGone ==
    ASSUME NativeInv, UNCHANGED <<native, control, data>>, ChildShape(child'),
           child'.plan = child.plan, child'.pc = "dead"
    PROVE  NativeInv'
<1>1. ASSUME NReading(native)
      PROVE  NFlow(native.expected, NHostPos(native), child', control, data)
    <2>1. NFlow(native.expected, NHostPos(native), child, control, data)
        BY <1>1 DEF NativeInv
    <2> QED  BY <2>1 DEF NFlow, Stream, Todo, Lines
<1>2. control' \in Seq(NMessages) /\ data' \in Seq(NMessages)
    BY DEF NativeInv
<1> QED  BY <1>1, <1>2, ChildKeeps

\* The steps after which nothing is written.
LEMMA ChildEnds ==
    ASSUME NativeInv, N!BrokenPipe \/ N!ChildExits \/ N!ChildDies
    PROVE  NativeInv'
<1>1. /\ UNCHANGED <<native, control, data>>
      /\ \E x : child' = [child EXCEPT !.pc = "dead", !.exit = x]
    <2>1. CASE N!ChildExits
        <3>1. child' = [child EXCEPT !.pc = "dead", !.exit = child.exit]
            BY <2>1 DEF N!ChildExits, NativeInv, ChildShape
        <3> QED  BY <2>1, <3>1 DEF N!ChildExits
    <2>2. CASE N!BrokenPipe
        BY <2>2 DEF N!BrokenPipe
    <2>3. CASE N!ChildDies
        BY <2>3 DEF N!ChildDies
    <2> QED  BY <2>1, <2>2, <2>3
<1>2. ChildShape(child)
    BY DEF NativeInv
<1>3. ChildShape(child') /\ child'.plan = child.plan /\ child'.pc = "dead"
    BY <1>1, <1>2 DEF ChildShape
<1> QED  BY <1>1, <1>3, ChildGone

\* The parser stops writing, or reports an error instead.
LEMMA ChildStops ==
    ASSUME NativeInv, N!ChildErrs \/ N!ChildHangs
    PROVE  NativeInv'
<1>1. UNCHANGED <<native, control, data>> /\ child.pc # "dead"
    BY DEF N!ChildErrs, N!ChildHangs
<1>2. /\ ChildShape(child) /\ control' \in Seq(NMessages) /\ data' \in Seq(NMessages)
      /\ Len(child.plan) \in Nat
    BY <1>1, PlanFacts DEF NativeInv, ChildShape
<1> DEFINE e == native.expected
           p == NHostPos(native)
<1>3. NReading(native) => NFlow(e, p, child, control, data)
    BY DEF NativeInv
<1>4. CASE N!ChildErrs
    <2> DEFINE m == N!Line("error", 0)
    <2>1. child' = [child EXCEPT !.pc = "writing", !.exit = 1, !.todo = <<m>>]
        BY <1>4 DEF N!ChildErrs
    <2>2. m \in NMessages /\ LineOK(m, child.plan) /\ m.kind = "error"
        <3>1. 0 \in Payloads
            BY DEF Payloads
        <3> QED  BY <3>1 DEF N!Line, NMessages, NKinds, LineOK
    <2> HIDE DEF m
    <2>3. <<m>> \in Seq(NMessages) /\ \A j \in 1 .. Len(<<m>>) : <<m>>[j] = m
        BY <2>2
    <2>4. /\ ChildShape(child') /\ child'.plan = child.plan /\ child'.pc = "writing"
          /\ child'.exit = 1 /\ child'.todo = <<m>>
        BY <1>2, <2>1, <2>3 DEF ChildShape
    <2>5. Todo(e, NEnds(data, p, child.plan), child', control)
        BY <2>2, <2>3, <2>4 DEF Todo
    <2>6. NReading(native) => NFlow(e, p, child', control, data)
        BY <1>3, <2>4, <2>5 DEF NFlow, Stream, Lines
    <2> QED  BY <1>1, <1>2, <2>4, <2>6, ChildKeeps
<1>5. CASE N!ChildHangs
    <2>1. child' = [child EXCEPT !.pc = "hung", !.todo = <<>>]
        BY <1>5 DEF N!ChildHangs
    <2>2. /\ ChildShape(child') /\ child'.plan = child.plan /\ child'.pc = "hung"
          /\ child'.exit = child.exit /\ child'.todo = <<>> /\ child'.next = child.next
        <3>1. PICK z \in Seq(NMessages) : z = <<>>
            BY EmptySeq, Zenon
        <3>2. child' = [child EXCEPT !.pc = "hung", !.todo = z]
            BY <2>1, <3>1
        <3>3. /\ ChildShape(child') /\ child'.plan = child.plan /\ child'.pc = "hung"
              /\ child'.exit = child.exit /\ child'.todo = z /\ child'.next = child.next
            BY <1>2, <3>1, <3>2 DEF ChildShape
        <3> QED  BY <3>1, <3>3
    <2>3. ASSUME NReading(native)  PROVE NFlow(e, p, child', control, data)
        <3> DEFINE q == NEnds(data, p, child.plan)
        <3>1. Todo(e, q, child, control)
            BY <1>3, <2>3 DEF NFlow
        <3> HIDE DEF q
        <3>2. EndsWritten(child) \in Int /\ EndsWritten(child') \in Int /\ EndsWritten(child) <= EndsWritten(child')
            BY <1>2, <2>2 DEF EndsWritten, ChildShape
        <3>3. Kept(native, child.plan) /\ e \in Int
            BY DEF NativeInv, Kept
        <3>4. ASSUME child.exit = 0  PROVE Todo(e, q, child', control)
            <4>1. e <= EndsWritten(child')
                BY <1>1, <3>1, <3>2, <3>3, <3>4 DEF Todo
            <4>2. ASSUME NEW j \in 1 .. Len(control), control[j].kind = "end"
                  PROVE  control[j].what < EndsWritten(child')
                <5>1. control[j].what < EndsWritten(child)
                    BY <1>1, <3>1, <3>4, <4>2 DEF Todo
                <5>2. control[j].what \in 0 .. Len(child.plan) - 1
                    BY <1>3, <2>3, <4>2 DEF NFlow, Lines, LineOK
                <5> QED  BY <1>2, <3>2, <5>1, <5>2
            <4> QED  BY <2>2, <3>4, <4>1, <4>2 DEF Todo, NChain
        <3>5. Todo(e, q, child', control)
            BY <2>2, <3>4 DEF Todo
        <3> QED  BY <1>3, <2>2, <2>3, <3>5 DEF NFlow, Stream, Lines, q
    <2> QED  BY <1>1, <1>2, <2>2, <2>3, ChildKeeps
<1> QED  BY <1>4, <1>5

\* The child d has written the first element of what c has to write.
Shifted(c, d) ==
    /\ d.todo = Tail(c.todo) /\ d.pc = c.pc /\ d.exit = c.exit
    /\ d.plan = c.plan /\ d.next = c.next

\* The lines l are some of k, and possibly m.
Grew(l, k, m) == \A j \in 1 .. Len(l) : (j \in 1 .. Len(k) /\ l[j] = k[j]) \/ l[j] = m

EndsAreInts(k) == \A j \in 1 .. Len(k) : k[j].kind = "end" => k[j].what \in Int

\* What the first element of what is to be written says about the rest.
LEMMA TodoDrop ==
    ASSUME NEW c, ChildShape(c), c.todo # <<>>, c.pc # "dead",
           NEW d, Shifted(c, d),
           NEW e \in Int, NEW q, NEW k, Todo(e, q, c, k), EndsAreInts(k),
           NEW r, c.exit = 0 => r = NAfter(Head(c.todo), c.plan),
           NEW l, EndsAreInts(l), Grew(l, k, Head(c.todo))
    PROVE  Todo(e, r, d, l)
<1>0. /\ d.todo = Tail(c.todo) /\ d.pc = c.pc /\ d.exit = c.exit
      /\ d.plan = c.plan /\ d.next = c.next
    BY DEF Shifted
<1>1. PICK t \in Seq(NMessages) : t = c.todo
    BY DEF ChildShape
<1>2. /\ Len(t) \in Nat \ {0} /\ Tail(t) \in Seq(NMessages) /\ Len(Tail(t)) = Len(t) - 1
      /\ \A j \in 1 .. Len(Tail(t)) : Tail(t)[j] = t[j + 1]
      /\ Head(t) = t[1]
    BY <1>1
<1>3. CASE c.exit # 0
    <2>1. \A j \in 1 .. Len(t) : LineOK(t[j], c.plan) /\ t[j].kind = "error"
        BY <1>1, <1>3 DEF Todo
    <2>2. \A j \in 1 .. Len(Tail(t)) : LineOK(Tail(t)[j], c.plan) /\ Tail(t)[j].kind = "error"
        BY <1>2, <2>1
    <2> QED  BY <1>0, <1>1, <1>3, <2>2 DEF Todo
<1>4. CASE c.exit = 0
    <2>1. /\ \A j \in 1 .. Len(t) : /\ LineOK(t[j], c.plan) \/ PieceOK(t[j], c.plan)
                                    /\ t[j].kind # "error"
          /\ \A j \in 1 .. Len(t) - 1 : t[j].kind # "end"
          /\ NChain(t, q, c.plan)
          /\ c.pc # "hung" => NEnds(t, q, c.plan) = <<c.next - 1, 0>>
          /\ \A j \in 1 .. Len(k) : k[j].kind = "end" => k[j].what < EndsWritten(c)
          /\ e <= EndsWritten(c)
        BY <1>1, <1>4 DEF Todo
    <2>2. c.next \in Int
        BY PlanFacts DEF ChildShape
    <2>3. /\ EndsWritten(c) \in Int /\ EndsWritten(d) \in Int /\ EndsWritten(c) <= EndsWritten(d)
          /\ t[1].kind = "end" /\ Len(t) = 1 =>
                EndsWritten(c) = c.next - 2 /\ EndsWritten(d) = c.next - 1
        BY <1>0, <1>1, <2>2, EndsLater
    <2>4. NChain(Tail(t), r, c.plan) /\ NEnds(Tail(t), r, c.plan) = NEnds(t, q, c.plan)
        <3>1. t # <<>> /\ r = NAfter(Head(t), c.plan)
            BY <1>1, <1>4
        <3> QED  BY <2>1, <3>1, NChainDrop
    <2>5. \A j \in 1 .. Len(Tail(t)) : /\ LineOK(Tail(t)[j], c.plan) \/ PieceOK(Tail(t)[j], c.plan)
                                       /\ Tail(t)[j].kind # "error"
        BY <1>2, <2>1
    <2>6. \A j \in 1 .. Len(Tail(t)) - 1 : Tail(t)[j].kind # "end"
        BY <1>2, <2>1
    <2>7. ASSUME NEW j \in 1 .. Len(l), l[j].kind = "end"  PROVE l[j].what < EndsWritten(d)
        <3>1. CASE j \in 1 .. Len(k) /\ l[j] = k[j]
            <4>1. l[j].what < EndsWritten(c) /\ l[j].what \in Int
                BY <2>1, <2>7, <3>1 DEF EndsAreInts
            <4> QED  BY <2>3, <4>1
        <3>2. CASE l[j] = Head(c.todo)
            <4>1. t[1].kind = "end" /\ l[j] = t[1]
                BY <1>1, <1>2, <2>7, <3>2
            <4>2. Len(t) = 1
                BY <1>2, <2>1, <4>1
            <4>3. l[j].what \in Int
                BY <2>7 DEF EndsAreInts
            <4>4. c.pc # "hung" => l[j].what + 1 = c.next - 1
                <5>1. NEnds(t, q, c.plan) = NAfter(t[1], c.plan)
                    BY <1>1, <4>2 DEF NEnds
                <5>2. NAfter(t[1], c.plan) = <<t[1].what + 1, 0>>
                    BY <4>1, EndStands
                <5> QED  BY <2>1, <4>1, <5>1, <5>2
            <4>5. c.pc # "hung"
                BY DEF ChildShape
            <4> QED  BY <2>2, <2>3, <4>1, <4>2, <4>3, <4>4, <4>5
        <3> QED  BY <3>1, <3>2 DEF Grew
    <2>8. e <= EndsWritten(d)
        BY <2>1, <2>3
    <2>9. c.pc # "hung" => NEnds(Tail(t), r, c.plan) = <<c.next - 1, 0>>
        BY <2>1, <2>4
    <2> QED  BY <1>0, <1>1, <1>4, <2>4, <2>5, <2>6, <2>7, <2>8, <2>9 DEF Todo
<1> QED  BY <1>3, <1>4

\* A line goes to the channel.
LEMMA WriteLineStep ==
    ASSUME NativeInv, N!WriteLine
    PROVE  NativeInv'
<1> DEFINE m == Head(child.todo)
           e == native.expected
           p == NHostPos(native)
           plan == child.plan
           q == NEnds(data, p, plan)
<1>1. /\ child.pc # "dead" /\ child.todo # <<>> /\ m.to = "stderr"
      /\ control' = Append(control, m) /\ UNCHANGED <<native, data>>
      /\ child' = [child EXCEPT !.todo = Tail(child.todo)]
    BY DEF N!WriteLine, N!Alive
<1>2. /\ ChildShape(child) /\ control \in Seq(NMessages) /\ data \in Seq(NMessages)
      /\ Kept(native, plan) /\ plan \in Plans
    BY DEF NativeInv, ChildShape
<1>3. m \in NMessages /\ Tail(child.todo) \in Seq(NMessages)
    BY <1>1, <1>2 DEF ChildShape
<1>4. /\ ChildShape(child') /\ child'.plan = plan /\ child'.pc = child.pc
      /\ child'.exit = child.exit /\ child'.todo = Tail(child.todo) /\ child'.next = child.next
    <2>1. child.pc # "hung"
        BY <1>1, <1>2 DEF ChildShape
    <2> QED  BY <1>1, <1>2, <1>3, <2>1 DEF ChildShape
<1>5. e \in Nat /\ Len(plan) \in Nat
    BY <1>2, PlanFacts DEF Kept
<1>6. /\ control' \in Seq(NMessages) /\ Len(control') = Len(control) + 1 /\ Len(control) \in Nat
      /\ \A j \in 1 .. Len(control) : control'[j] = control[j]
      /\ control'[Len(control) + 1] = m
    BY <1>1, <1>2, <1>3
<1>7. ASSUME NReading(native)  PROVE NFlow(e, p, child', control', data)
    <2>1. Stream(p, child, data) /\ Todo(e, q, child, control) /\ Lines(e, q, child, control)
        BY <1>7 DEF NativeInv, NFlow
    <2>2. LineOK(m, plan)
        <3>1. PICK t \in Seq(NMessages) : t = child.todo
            BY <1>2 DEF ChildShape
        <3>2. 1 \in 1 .. Len(t) /\ m = t[1]
            BY <1>1, <3>1
        <3>3. CASE child.exit = 0
            <4>1. LineOK(m, plan) \/ PieceOK(m, plan)
                BY <1>1, <2>1, <3>1, <3>2, <3>3 DEF Todo
            <4> QED  BY <1>1, <4>1 DEF PieceOK
        <3>4. CASE child.exit # 0
            BY <1>1, <2>1, <3>1, <3>2, <3>4 DEF Todo
        <3> QED  BY <3>3, <3>4
    <2>3. ASSUME child.exit = 0
          PROVE  q = NBefore(m, plan) /\ q = NAfter(m, plan)
        <3>1. NChain(child.todo, q, plan)
            BY <1>1, <2>1, <2>3 DEF Todo
        <3>2. NBefore(m, plan) = q
            <4>1. child.todo \in Seq(NMessages)
                BY <1>2 DEF ChildShape
            <4> QED  BY <1>1, <3>1, <4>1, NChainDrop
        <3> QED  BY <2>2, <3>2, LineStands
    <2>4. m.kind = "end" => /\ child.exit = 0 /\ m.what \in 0 .. Len(plan) - 1
                            /\ m.what < q[1] /\ EndsWritten(child) = m.what
        <3> HAVE m.kind = "end"
        <3>0. PICK t \in Seq(NMessages) : t = child.todo
            BY <1>2 DEF ChildShape
        <3>1. 1 \in 1 .. Len(t) /\ m = t[1] /\ Len(t) \in Nat
            BY <1>1, <3>0
        <3>2. child.exit = 0
            BY <1>1, <2>1, <3>0, <3>1 DEF Todo
        <3>3. m.what \in 0 .. Len(plan) - 1
            BY <2>2 DEF LineOK
        <3>4. q = <<m.what + 1, 0>>
            BY <2>3, <3>2, EndStands
        <3>5. Len(t) = 1
            <4>1. \A j \in 1 .. Len(t) - 1 : t[j].kind # "end"
                BY <1>1, <2>1, <3>0, <3>2 DEF Todo
            <4>2. t[1].kind = "end"
                BY <3>1
            <4> HIDE DEF m
            <4>3. PICK n \in Nat : n = Len(t)
                BY <3>1
            <4>4. n >= 1
                BY <3>1, <4>3
            <4>5. n # 1 => 1 \in 1 .. n - 1
                BY <4>4
            <4> QED  BY <4>1, <4>2, <4>3, <4>5
        <3>6. child.pc # "hung"
            BY <1>1, <1>2 DEF ChildShape
        <3>7. NEnds(t, q, plan) = <<child.next - 1, 0>>
            BY <1>1, <2>1, <3>0, <3>2, <3>6 DEF Todo
        <3>8. NEnds(t, q, plan) = NAfter(m, plan)
            BY <3>0, <3>1, <3>5, <1>1 DEF NEnds
        <3>9. NAfter(m, plan) = <<m.what + 1, 0>>
            BY EndStands
        <3>10. child.next \in Int
            BY <1>2, <1>5 DEF ChildShape
        <3>11. m.what + 1 = child.next - 1
            BY <3>7, <3>8, <3>9
        <3>12. EndsWritten(child) = child.next - 2
            BY <1>1, <3>0, <3>1, <3>5 DEF EndsWritten
        <3>13. m.what < q[1]
            BY <3>3, <3>4, <1>5
        <3>14. PICK x \in Int : x = m.what
            BY <3>3, <1>5
        <3>15. child.next - 2 = x
            BY <3>10, <3>11, <3>14
        <3> HIDE DEF q, m
        <3> QED  BY <3>2, <3>3, <3>12, <3>13, <3>14, <3>15
    <2> HIDE DEF q, m
    <2>5. ASSUME NEW j \in 1 .. Len(control), control[j].kind = "end"
          PROVE  control[j].what \in Int /\ e <= control[j].what /\ control[j].what < q[1]
        BY <1>5, <2>1, <2>5 DEF Lines, LineOK
    <2>6. ASSUME NEW j \in 1 .. Len(control')
          PROVE  /\ control'[j].kind = "end" => control'[j].what \in Int
                 /\ \/ j \in 1 .. Len(control) /\ control'[j] = control[j]
                    \/ control'[j] = m
        <3>1. \/ j \in 1 .. Len(control) /\ control'[j] = control[j]
              \/ control'[j] = m
            BY <1>6
        <3> QED  BY <2>4, <2>5, <3>1, <1>5
    <2>7. Todo(e, q, child', control')
        <3>1. child.exit = 0 => q = NAfter(Head(child.todo), plan)
            BY <2>3 DEF m
        <3>2. e \in Int
            BY <1>5
        <3>3. \A j \in 1 .. Len(control') :
                     /\ control'[j].kind = "end" => control'[j].what \in Int
                     /\ \/ j \in 1 .. Len(control) /\ control'[j] = control[j]
                        \/ control'[j] = Head(child.todo)
            BY <2>6 DEF m
        <3>4. \A j \in 1 .. Len(control) : control[j].kind = "end" => control[j].what \in Int
            BY <2>5
        <3>5. Shifted(child, child')
            BY <1>4 DEF Shifted
        <3>6. EndsAreInts(control) /\ EndsAreInts(control') /\ Grew(control', control, Head(child.todo))
            BY <3>3, <3>4 DEF EndsAreInts, Grew
        <3> QED  BY <1>1, <1>2, <2>1, <3>1, <3>2, <3>5, <3>6, TodoDrop
    <2>8. Lines(e, q, child', control')
        <3>1. \A j \in 1 .. Len(control') : LineOK(control'[j], plan)
            BY <2>1, <2>2, <2>6 DEF Lines
        <3>2. m.kind = "end" => e <= m.what
            BY <1>1, <2>1, <2>4 DEF Todo
        <3>3. \A j \in 1 .. Len(control') :
                 control'[j].kind = "end" => e <= control'[j].what /\ control'[j].what < q[1]
            BY <2>4, <2>5, <2>6, <3>2
        <3>4. ASSUME NEW i \in 1 .. Len(control'), NEW j \in 1 .. Len(control'), i < j,
                     control'[i].kind = "end", control'[j].kind = "end"
              PROVE  control'[i].what < control'[j].what
            <4>1. i \in 1 .. Len(control) /\ control'[i] = control[i]
                BY <1>6, <3>4
            <4>2. CASE j \in 1 .. Len(control)
                <5>1. control'[j] = control[j]
                    BY <1>6, <4>2
                <5> QED  BY <2>1, <3>4, <4>1, <4>2, <5>1 DEF Lines
            <4>3. CASE j \notin 1 .. Len(control)
                <5>1. control'[j] = m
                    BY <1>6, <4>3
                <5>2. control[i].what < EndsWritten(child)
                    BY <1>1, <2>1, <2>4, <3>4, <4>1, <5>1 DEF Todo
                <5> QED  BY <2>4, <3>4, <4>1, <5>1, <5>2
            <4> QED  BY <4>2, <4>3
        <3> QED  BY <1>4, <3>1, <3>3, <3>4 DEF Lines
    <2> QED  BY <1>4, <2>1, <2>7, <2>8 DEF NFlow, Stream, q
<1>8. data' \in Seq(NMessages) /\ native' = native /\ data' = data
    BY <1>1, <1>2
<1> QED  BY <1>1, <1>4, <1>6, <1>7, <1>8, ChildKeeps

\* A piece of the stream goes to the pipe.
LEMMA WritePieceStep ==
    ASSUME NativeInv, N!WritePiece
    PROVE  NativeInv'
<1> DEFINE m == Head(child.todo)
           e == native.expected
           p == NHostPos(native)
           plan == child.plan
           q == NEnds(data, p, plan)
           r == NAfter(m, plan)
<1>1. /\ child.pc # "dead" /\ child.todo # <<>> /\ m.to = "stdout"
      /\ data' = Append(data, m) /\ UNCHANGED <<native, control>>
      /\ child' = [child EXCEPT !.todo = Tail(child.todo)]
    BY DEF N!WritePiece, N!Alive
<1>2. /\ ChildShape(child) /\ control \in Seq(NMessages) /\ data \in Seq(NMessages)
      /\ Kept(native, plan) /\ plan \in Plans
    BY DEF NativeInv, ChildShape
<1>3. m \in NMessages /\ Tail(child.todo) \in Seq(NMessages)
    BY <1>1, <1>2 DEF ChildShape
<1>4. /\ ChildShape(child') /\ child'.plan = plan /\ child'.pc = child.pc
      /\ child'.exit = child.exit /\ child'.todo = Tail(child.todo) /\ child'.next = child.next
    <2>1. child.pc # "hung"
        BY <1>1, <1>2 DEF ChildShape
    <2> QED  BY <1>1, <1>2, <1>3, <2>1 DEF ChildShape
<1>5. e \in Int /\ Len(plan) \in Nat
    BY <1>2, PlanFacts DEF Kept
<1>6. /\ data' \in Seq(NMessages) /\ Len(data') = Len(data) + 1 /\ Len(data) \in Nat
      /\ \A j \in 1 .. Len(data) : data'[j] = data[j]
      /\ data'[Len(data) + 1] = m
    BY <1>1, <1>2, <1>3
<1>7. ASSUME NReading(native)  PROVE NFlow(e, p, child', control, data')
    <2>1. Stream(p, child, data) /\ Todo(e, q, child, control) /\ Lines(e, q, child, control)
        BY <1>7 DEF NativeInv, NFlow
    <2>0. PICK t \in Seq(NMessages) : t = child.todo
        BY <1>2 DEF ChildShape
    <2>2. 1 \in 1 .. Len(t) /\ m = t[1]
        BY <1>1, <2>0
    <2>3. child.exit = 0
        <3> SUFFICES ASSUME child.exit # 0  PROVE FALSE
            OBVIOUS
        <3>1. LineOK(m, plan)
            BY <1>1, <2>0, <2>1, <2>2 DEF Todo
        <3> QED  BY <1>1, <3>1 DEF LineOK
    <2>4. PieceOK(m, plan)
        <3>1. LineOK(m, plan) \/ PieceOK(m, plan)
            BY <1>1, <2>0, <2>1, <2>2, <2>3 DEF Todo
        <3> QED  BY <1>1, <3>1 DEF LineOK
    <2>5. NBefore(m, plan) = q
        <3>1. NChain(child.todo, q, plan)
            BY <1>1, <2>1, <2>3 DEF Todo
        <3>2. child.todo \in Seq(NMessages)
            BY <2>0
        <3> QED  BY <1>1, <3>1, <3>2, NChainDrop
    <2>6. q[1] \in Int /\ r[1] \in Int /\ q[1] <= r[1]
        BY <1>2, <2>4, <2>5, PieceMoves
    <2>7. NChain(data', p, plan) /\ NEnds(data', p, plan) = r
        <3>1. NChain(data, p, plan)
            BY <2>1 DEF Stream
        <3> HIDE DEF m
        <3> QED  BY <1>1, <1>2, <1>3, <2>5, <3>1, NChainAppend
    <2> HIDE DEF q, m, r
    <2>8. Stream(p, child', data')
        <3>1. \A j \in 1 .. Len(data) : PieceOK(data[j], plan)
            BY <2>1 DEF Stream
        <3>2. \A j \in 1 .. Len(data') : PieceOK(data'[j], plan)
            BY <1>6, <2>4, <3>1
        <3> QED  BY <1>4, <2>7, <3>2 DEF Stream
    <2>9. \A j \in 1 .. Len(control) : control[j].kind = "end" => control[j].what \in Int
        BY <1>5, <2>1 DEF Lines, LineOK
    <2>10. Todo(e, r, child', control)
        <3>1. child.exit = 0 => r = NAfter(Head(child.todo), plan)
            BY DEF r, m
        <3>2. Shifted(child, child')
            BY <1>4 DEF Shifted
        <3>3. EndsAreInts(control) /\ Grew(control, control, Head(child.todo))
            BY <2>9 DEF EndsAreInts, Grew
        <3> QED  BY <1>1, <1>2, <1>5, <2>1, <3>1, <3>2, <3>3, TodoDrop
    <2>11. Lines(e, r, child', control)
        <3>1. ASSUME NEW j \in 1 .. Len(control), control[j].kind = "end"
              PROVE  e <= control[j].what /\ control[j].what < r[1]
            <4>1. e <= control[j].what /\ control[j].what < q[1] /\ control[j].what \in Int
                BY <2>1, <2>9, <3>1 DEF Lines
            <4> QED  BY <2>6, <4>1
        <3> QED  BY <1>4, <2>1, <3>1 DEF Lines
    <2> QED  BY <1>4, <2>7, <2>8, <2>10, <2>11 DEF NFlow
<1>8. control' \in Seq(NMessages) /\ native' = native /\ control' = control
    BY <1>1, <1>2
<1> QED  BY <1>1, <1>4, <1>6, <1>7, <1>8, ChildKeeps

\* Until parse() returns nothing but lines about the run itself is on its way.
LEMMA NothingYet ==
    ASSUME NativeInv, child.pc = "parsing"
    PROVE  /\ child.plan = <<>> /\ child.next = 1 /\ child.exit = 0
           /\ native.expected = 0 /\ Len(native.outputs) = 0
           /\ NReading(native) => /\ data = <<>> /\ NHostPos(native) = <<0, 0>>
                                  /\ native.pc \notin {"schema", "stream", "end"}
                                  /\ \A j \in 1 .. Len(control) :
                                        /\ control[j].to = "stderr"
                                        /\ control[j].kind \in {"hello", "warning", "error"}
<1>1. /\ child.plan = <<>> /\ child.next \in 1 .. Len(child.plan) + 1 /\ child.exit = 0
      /\ Kept(native, child.plan)
    BY DEF NativeInv, ChildShape
<1>2. Len(child.plan) = 0 /\ child.next = 1
    BY <1>1
<1>3. Len(native.outputs) = 0 /\ native.expected = 0
    BY <1>1, <1>2 DEF Kept
<1>4. ASSUME NReading(native)
      PROVE  /\ data = <<>> /\ NHostPos(native) = <<0, 0>>
             /\ native.pc \notin {"schema", "stream", "end"}
             /\ \A j \in 1 .. Len(control) :
                   control[j].to = "stderr" /\ control[j].kind \in {"hello", "warning", "error"}
    <2> DEFINE q == NEnds(data, NHostPos(native), child.plan)
    <2>1. /\ Stream(NHostPos(native), child, data) /\ Lines(native.expected, q, child, control)
          /\ Collected(native, child, control)
        BY <1>4 DEF NativeInv, NFlow
    <2> HIDE DEF q
    <2>2. native.pc \notin {"schema", "stream", "end"}
        BY <1>2, <1>3, <2>1 DEF Collected
    <2>3. NHostPos(native) = <<0, 0>>
        BY <1>3, <2>2 DEF NHostPos
    <2>4. data = <<>>
        <3>1. data \in Seq(NMessages)
            BY DEF NativeInv
        <3>2. \A j \in 1 .. Len(data) : PieceOK(data[j], child.plan)
            BY <2>1 DEF Stream
        <3>3. \A j \in 1 .. Len(data) : FALSE
            BY <1>2, <3>2 DEF PieceOK
        <3> QED  BY <3>1, <3>3
    <2>5. \A j \in 1 .. Len(control) :
             control[j].to = "stderr" /\ control[j].kind \in {"hello", "warning", "error"}
        BY <1>2, <2>1 DEF Lines, LineOK
    <2> QED  BY <2>2, <2>3, <2>4, <2>5
<1> QED  BY <1>1, <1>2, <1>3, <1>4

\* The parser has its outputs.
LEMMA ChildParsesStep ==
    ASSUME NativeInv, N!ChildParses
    PROVE  NativeInv'
<1>0. PICK k \in 0 .. MaxOutputs : \E plan \in [1 .. k -> 1 .. MaxBatches] :
            child' = [child EXCEPT !.pc = "writing", !.plan = plan]
    BY DEF N!ChildParses
<1>1. PICK plan \in [1 .. k -> 1 .. MaxBatches] :
            child' = [child EXCEPT !.pc = "writing", !.plan = plan]
    BY <1>0
<1>2. child.pc = "parsing" /\ child.todo = <<>> /\ UNCHANGED <<native, control, data>>
    BY DEF N!ChildParses
<1>3. plan \in Plans /\ Len(plan) = k /\ k \in Nat
    BY <1>1, BoundsAreNatural DEF Plans
<1>4. /\ ChildShape(child) /\ control \in Seq(NMessages) /\ data \in Seq(NMessages)
      /\ Kept(native, child.plan) /\ NativeShape(native)
      /\ NReading(native) => Collected(native, child, control)
    BY DEF NativeInv
<1>5. /\ child.plan = <<>> /\ child.next = 1 /\ child.exit = 0
      /\ native.expected = 0 /\ Len(native.outputs) = 0
      /\ NReading(native) => /\ data = <<>> /\ NHostPos(native) = <<0, 0>>
                             /\ native.pc \notin {"schema", "stream", "end"}
                             /\ \A j \in 1 .. Len(control) :
                                   /\ control[j].to = "stderr"
                                   /\ control[j].kind \in {"hello", "warning", "error"}
    BY <1>2, NothingYet
<1>6. /\ ChildShape(child') /\ child'.pc = "writing" /\ child'.plan = plan
      /\ child'.todo = <<>> /\ child'.next = 1 /\ child'.exit = 0
    <2>1. child = [pc |-> child.pc, todo |-> child.todo, plan |-> child.plan,
                   next |-> child.next, exit |-> child.exit]
        BY <1>4 DEF ChildShape
    <2>2. /\ child' = [pc |-> child'.pc, todo |-> child'.todo, plan |-> child'.plan,
                       next |-> child'.next, exit |-> child'.exit]
          /\ child'.pc = "writing" /\ child'.plan = plan /\ child'.todo = child.todo
          /\ child'.next = child.next /\ child'.exit = child.exit
        BY <1>1, <2>1
    <2>3. child.todo \in Seq(NMessages) /\ 1 \in 1 .. Len(plan) + 1
        BY <1>3, <1>4 DEF ChildShape
    <2> QED  BY <1>2, <1>3, <1>5, <2>2, <2>3 DEF ChildShape
<1>7. Kept(native, plan)
    BY <1>3, <1>4, <1>5 DEF Kept
<1>8. ASSUME NReading(native)
      PROVE  /\ NFlow(native.expected, NHostPos(native), child', control, data)
             /\ Collected(native, child', control)
    <2>1. Stream(<<0, 0>>, child', <<>>)
        BY DEF Stream, NChain
    <2>2. NEnds(<<>>, <<0, 0>>, plan) = <<0, 0>>
        BY DEF NEnds
    <2>3. Todo(0, <<0, 0>>, child', control)
        BY <1>5, <1>6, <1>8 DEF Todo, NChain, NEnds, EndsWritten
    <2>4. Lines(0, <<0, 0>>, child', control)
        BY <1>5, <1>8 DEF Lines, LineOK
    <2>5. Collected(native, child', control)
        BY <1>5, <1>8 DEF Collected
    <2> QED  BY <1>5, <1>6, <1>8, <2>1, <2>2, <2>3, <2>4, <2>5 DEF NFlow
<1>9. ~(N!Returned /\ native.error = "cancelled")
    BY <1>2 DEF NativeInv, N!Alive
<1>10. ~(N!Returned /\ native.error = "cancelled")'
    BY <1>2, <1>9 DEF N!Returned
<1> QED  BY <1>2, <1>4, <1>6, <1>7, <1>8, <1>10 DEF NativeInv

\* A warning before parse() returns.
LEMMA ChildWarnsStep ==
    ASSUME NativeInv, N!ChildWarns
    PROVE  NativeInv'
<1> DEFINE m == N!Line("warning", 0)
<1>1. /\ child.pc = "parsing" /\ child.todo = <<>> /\ UNCHANGED <<native, control, data>>
      /\ child' = [child EXCEPT !.todo = <<m>>]
    BY DEF N!ChildWarns
<1>2. /\ ChildShape(child) /\ control \in Seq(NMessages) /\ data \in Seq(NMessages)
    BY DEF NativeInv
<1>3. m \in NMessages /\ LineOK(m, child.plan) /\ m.kind = "warning"
    <2>1. 0 \in Payloads
        BY DEF Payloads
    <2> QED  BY <2>1 DEF N!Line, NMessages, NKinds, LineOK
<1>4. NBefore(m, child.plan) = <<0, 0>> /\ NAfter(m, child.plan) = <<0, 0>>
    BY <1>3 DEF NBefore, NAfter
<1> HIDE DEF m
<1>5. /\ <<m>> \in Seq(NMessages) /\ Len(<<m>>) = 1 /\ <<m>> # <<>>
      /\ \A j \in 1 .. Len(<<m>>) : <<m>>[j] = m
    BY <1>3
<1>6. /\ child.plan = <<>> /\ child.next = 1 /\ child.exit = 0
      /\ native.expected = 0 /\ Len(native.outputs) = 0
      /\ NReading(native) => /\ data = <<>> /\ NHostPos(native) = <<0, 0>>
                             /\ \A j \in 1 .. Len(control) :
                                   /\ control[j].to = "stderr"
                                   /\ control[j].kind \in {"hello", "warning", "error"}
    BY <1>1, NothingYet
<1>7. /\ ChildShape(child') /\ child'.pc = "parsing" /\ child'.plan = child.plan
      /\ child'.todo = <<m>> /\ child'.next = 1 /\ child'.exit = 0
    BY <1>1, <1>2, <1>5, <1>6 DEF ChildShape
<1>8. ASSUME NReading(native)
      PROVE  NFlow(native.expected, NHostPos(native), child', control, data)
    <2>1. Stream(<<0, 0>>, child', <<>>)
        BY DEF Stream, NChain
    <2>2. NEnds(<<>>, <<0, 0>>, child.plan) = <<0, 0>>
        BY DEF NEnds
    <2>3. Todo(0, <<0, 0>>, child', control)
        <3>1. \A j \in 1 .. Len(child'.todo) : LineOK(child'.todo[j], child.plan) /\ child'.todo[j].kind = "warning"
            BY <1>3, <1>5, <1>7
        <3>2. NChain(<<m>>, <<0, 0>>, child.plan) /\ NEnds(<<m>>, <<0, 0>>, child.plan) = <<0, 0>>
            BY <1>4, <1>5 DEF NChain, NEnds
        <3>3. EndsWritten(child') = 0
            BY <1>3, <1>5, <1>7 DEF EndsWritten
        <3>4. \A j \in 1 .. Len(control) : control[j].kind # "end"
            BY <1>6, <1>8
        <3> QED  BY <1>7, <3>1, <3>2, <3>3, <3>4 DEF Todo
    <2>4. Lines(0, <<0, 0>>, child', control)
        BY <1>6, <1>8 DEF Lines, LineOK
    <2> QED  BY <1>6, <1>7, <1>8, <2>1, <2>2, <2>3, <2>4 DEF NFlow
<1> QED  BY <1>1, <1>2, <1>7, <1>8, ChildKeeps

IsOutput(o, i, n, begin) == o = N!Output(i, n, begin)

\* The lines and pieces of an output, one by one.
Elements(o, i, n, begin) ==
    /\ o \in Seq(NMessages) /\ Len(o) = n + 4
    /\ o[1] = N!Line(begin, i) /\ o[2] = N!Piece("schema", i)
    /\ \A j \in 3 .. n + 2 : o[j] = N!Piece("batch", <<i, j - 2>>)
    /\ o[n + 3] = N!Piece("eos", i) /\ o[n + 4] = N!Line("end", i)

\* They lead from one output to the next.
LeadsOut(o, i, plan) ==
    /\ o \in Seq(NMessages) /\ o # <<>> /\ o[Len(o)].kind = "end"
    /\ \A j \in 1 .. Len(o) : /\ LineOK(o[j], plan) \/ PieceOK(o[j], plan)
                              /\ o[j].kind # "error"
    /\ \A j \in 1 .. Len(o) - 1 : o[j].kind # "end"
    /\ NChain(o, <<i, 0>>, plan)
    /\ NEnds(o, <<i, 0>>, plan) = <<i + 1, 0>>

IsJoin(w, s, t) == w = s \o t

Joins(w, s, t, a, b) ==
    /\ w \in Seq(NMessages) /\ Len(w) = a + b
    /\ \A j \in 1 .. a : w[j] = s[j]
    /\ \A j \in a + 1 .. a + b : w[j] = t[j - a]

\* The elements of two sequences, one after the other.
LEMMA Joined ==
    ASSUME NEW s \in Seq(NMessages), NEW t \in Seq(NMessages), NEW a \in Nat, NEW b \in Nat,
           Len(s) = a, Len(t) = b, NEW w, IsJoin(w, s, t)
    PROVE  Joins(w, s, t, a, b)
<1>1. s \o t \in Seq(NMessages) /\ Len(s \o t) = Len(s) + Len(t)
    BY ConcatProperties
<1>2. \A j \in 1 .. Len(s) + Len(t) : (s \o t)[j] = IF j <= Len(s) THEN s[j] ELSE t[j - Len(s)]
    BY ConcatProperties
<1>3. /\ \A j \in 1 .. a : w[j] = s[j]
      /\ \A j \in a + 1 .. a + b : w[j] = t[j - a]
    BY <1>2 DEF IsJoin
<1> QED  BY <1>1, <1>3 DEF IsJoin, Joins

\* What Output puts together.
LEMMA OutputElements ==
    ASSUME NEW i \in Nat, NEW n \in Nat, NEW begin \in {"begin", "other"},
           NEW o, IsOutput(o, i, n, begin)
    PROVE  Elements(o, i, n, begin)
<1> DEFINE x == <<N!Line(begin, i), N!Piece("schema", i)>>
           y == [b \in 1 .. n |-> N!Piece("batch", <<i, b>>)]
           z == <<N!Piece("eos", i), N!Line("end", i)>>
<1>1. /\ N!Line(begin, i) \in NMessages /\ N!Piece("schema", i) \in NMessages
      /\ N!Piece("eos", i) \in NMessages /\ N!Line("end", i) \in NMessages
    <2>1. i \in Payloads
        BY DEF Payloads
    <2> QED  BY <2>1 DEF N!Line, N!Piece, NMessages, NKinds
<1>2. \A b \in 1 .. n : N!Piece("batch", <<i, b>>) \in NMessages
    <2> TAKE b \in 1 .. n
    <2>1. <<i, b>> \in Payloads
        BY DEF Payloads
    <2> QED  BY <2>1 DEF N!Piece, NMessages, NKinds
<1>3. x \in Seq(NMessages) /\ Len(x) = 2 /\ x[1] = N!Line(begin, i) /\ x[2] = N!Piece("schema", i)
    BY <1>1
<1>4. z \in Seq(NMessages) /\ Len(z) = 2 /\ z[1] = N!Piece("eos", i) /\ z[2] = N!Line("end", i)
    BY <1>1
<1>5. y \in Seq(NMessages) /\ Len(y) = n /\ \A b \in 1 .. n : y[b] = N!Piece("batch", <<i, b>>)
    <2>1. y \in [1 .. n -> NMessages]
        BY <1>2
    <2> QED  BY <2>1
<1>6. o = (x \o y) \o z
    BY DEF N!Output, IsOutput
<1> HIDE DEF x, y, z
<1>7. PICK u : IsJoin(u, x, y)
    BY DEF IsJoin
<1>8. Joins(u, x, y, 2, n)
    BY <1>3, <1>5, <1>7, Joined
<1>9. u \in Seq(NMessages) /\ Len(u) = n + 2 /\ u[1] = x[1] /\ u[2] = x[2]
    BY <1>8 DEF Joins
<1>10. \A j \in 3 .. n + 2 : u[j] = y[j - 2]
    BY <1>8 DEF Joins
<1>11. IsJoin(o, u, z)
    BY <1>6, <1>7, Zenon DEF IsJoin
<1>a. Joins(o, u, z, n + 2, 2)
    <2>1. PICK k \in Nat : k = n + 2
        OBVIOUS
    <2>2. Joins(o, u, z, k, 2)
        BY <1>4, <1>9, <1>11, <2>1, Joined
    <2> QED  BY <2>1, <2>2
<1>b. o \in Seq(NMessages) /\ Len(o) = n + 4
    BY <1>a DEF Joins
<1>12. \A j \in 1 .. n + 2 : o[j] = u[j]
    BY <1>a DEF Joins
<1>13. o[n + 3] = z[1] /\ o[n + 4] = z[2]
    <2>1. /\ n + 3 \in (n + 2) + 1 .. (n + 2) + 2 /\ (n + 3) - (n + 2) = 1
          /\ n + 4 \in (n + 2) + 1 .. (n + 2) + 2 /\ (n + 4) - (n + 2) = 2
        OBVIOUS
    <2>2. o[n + 3] = z[(n + 3) - (n + 2)] /\ o[n + 4] = z[(n + 4) - (n + 2)]
        BY <1>a, <2>1, Zenon DEF Joins
    <2> QED  BY <2>1, <2>2
<1>14. o[1] = x[1] /\ o[2] = x[2]
    BY <1>9, <1>12
<1>15. \A j \in 3 .. n + 2 : o[j] = N!Piece("batch", <<i, j - 2>>)
    <2> TAKE j \in 3 .. n + 2
    <2>1. j \in 1 .. n + 2 /\ j - 2 \in 1 .. n
        OBVIOUS
    <2>2. o[j] = y[j - 2]
        BY <1>10, <1>12, <2>1
    <2> QED  BY <1>5, <2>1, <2>2
<1> QED  BY <1>3, <1>4, <1>b, <1>13, <1>14, <1>15 DEF Elements

\* An output is written in order.
LEMMA OutputIsChain ==
    ASSUME NEW plan \in Plans, NEW i \in Nat, i + 1 \in 1 .. Len(plan),
           NEW begin \in {"begin", "other"}, NEW o, IsOutput(o, i, plan[i + 1], begin)
    PROVE  LeadsOut(o, i, plan)
<1>1. PICK n \in Nat : n = plan[i + 1]
    BY PlanFacts
<1>2. /\ o \in Seq(NMessages) /\ Len(o) = n + 4
      /\ o[1] = N!Line(begin, i) /\ o[2] = N!Piece("schema", i)
      /\ \A j \in 3 .. n + 2 : o[j] = N!Piece("batch", <<i, j - 2>>)
      /\ o[n + 3] = N!Piece("eos", i) /\ o[n + 4] = N!Line("end", i)
    <2>1. Elements(o, i, n, begin)
        BY <1>1, OutputElements
    <2> QED  BY <2>1 DEF Elements
<1>3. i \in 0 .. Len(plan) - 1 /\ Len(plan) \in Nat
    BY PlanFacts
<1> DEFINE Good(j) == (LineOK(o[j], plan) \/ PieceOK(o[j], plan)) /\ o[j].kind # "error"
<1>4. Good(1) /\ o[1].kind # "end" /\ NBefore(o[1], plan) = <<i, 0>> /\ NAfter(o[1], plan) = <<i, 0>>
    BY <1>2, <1>3 DEF N!Line, LineOK, NBefore, NAfter
<1>5. Good(2) /\ o[2].kind # "end" /\ NBefore(o[2], plan) = <<i, 0>> /\ NAfter(o[2], plan) = <<i, 1>>
    BY <1>2, <1>3 DEF N!Piece, PieceOK, NBefore, NAfter
<1>6. ASSUME NEW j \in 3 .. n + 2
      PROVE  /\ Good(j) /\ o[j].kind # "end"
             /\ NBefore(o[j], plan) = <<i, j - 2>> /\ NAfter(o[j], plan) = <<i, j - 1>>
    <2>0. PICK m : m = o[j]
        OBVIOUS
    <2>1. m.to = "stdout" /\ m.kind = "batch" /\ m.what = <<i, j - 2>>
        <3>1. m = N!Piece("batch", <<i, j - 2>>)
            BY <1>2, <2>0
        <3> QED  BY <3>1 DEF N!Piece
    <2>2. j - 2 \in 1 .. plan[i + 1] /\ <<i, j - 2>> = <<(i + 1) - 1, j - 2>>
        BY <1>1
    <2>3. PieceOK(m, plan)
        BY <2>1, <2>2 DEF PieceOK
    <2>4. NBefore(m, plan) = <<i, j - 2>> /\ NAfter(m, plan) = <<i, (j - 2) + 1>>
        BY <2>1 DEF NBefore, NAfter
    <2> QED  BY <2>0, <2>1, <2>3, <2>4
<1>7. /\ Good(n + 3) /\ o[n + 3].kind # "end"
      /\ NBefore(o[n + 3], plan) = <<i, n + 1>> /\ NAfter(o[n + 3], plan) = <<i + 1, 0>>
    BY <1>1, <1>2, <1>3 DEF N!Piece, PieceOK, NBefore, NAfter
<1>8. /\ Good(n + 4) /\ o[n + 4].kind = "end"
      /\ NBefore(o[n + 4], plan) = <<i + 1, 0>> /\ NAfter(o[n + 4], plan) = <<i + 1, 0>>
    BY <1>2, <1>3 DEF N!Line, LineOK, NBefore, NAfter
<1>9. \A j \in 1 .. n + 4 : j = 1 \/ j = 2 \/ j \in 3 .. n + 2 \/ j = n + 3 \/ j = n + 4
    OBVIOUS
<1> HIDE DEF Good
<1>10. \A j \in 1 .. n + 4 : Good(j)
    <2> TAKE j \in 1 .. n + 4
    <2> QED  BY <1>4, <1>5, <1>6, <1>7, <1>8, <1>9
<1>11. \A j \in 1 .. n + 3 : o[j].kind # "end"
    <2> TAKE j \in 1 .. n + 3
    <2>1. j \in 1 .. n + 4 /\ j # n + 4
        OBVIOUS
    <2> QED  BY <1>4, <1>5, <1>6, <1>7, <1>9, <2>1
<1>12. \A j \in 1 .. n + 3 : NBefore(o[j + 1], plan) = NAfter(o[j], plan)
    <2> TAKE j \in 1 .. n + 3
    <2>1. CASE j = 1
        BY <1>4, <1>5, <2>1
    <2>2. CASE j = 2
        <3>1. NBefore(o[3], plan) = <<i, 1>>
            <4>1. CASE n = 0
                BY <1>7, <4>1
            <4>2. CASE n # 0
                <5>1. 3 \in 3 .. n + 2 /\ 3 - 2 = 1
                    BY <4>2
                <5> QED  BY <1>6, <5>1
            <4> QED  BY <4>1, <4>2
        <3> QED  BY <1>5, <2>2, <3>1
    <2>3. CASE j \in 3 .. n + 2
        <3>1. NAfter(o[j], plan) = <<i, j - 1>>
            BY <1>6, <2>3
        <3>2. CASE j = n + 2
            <4>1. j + 1 = n + 3 /\ j - 1 = n + 1
                BY <3>2
            <4> QED  BY <1>7, <3>1, <4>1
        <3>3. CASE j # n + 2
            <4>1. j + 1 \in 3 .. n + 2 /\ (j + 1) - 2 = j - 1
                BY <2>3, <3>3
            <4>2. NBefore(o[j + 1], plan) = <<i, (j + 1) - 2>>
                BY <1>6, <4>1
            <4> QED  BY <3>1, <4>1, <4>2
        <3> QED  BY <3>2, <3>3
    <2>4. CASE j = n + 3
        <3>1. j + 1 = n + 4
            BY <2>4
        <3> QED  BY <1>7, <1>8, <2>4, <3>1
    <2>5. j \in 1 .. n + 4 /\ j # n + 4
        OBVIOUS
    <2> QED  BY <1>9, <2>1, <2>2, <2>3, <2>4, <2>5
<1>13. Len(o) - 1 = n + 3 /\ o # <<>>
    BY <1>2
<1> QED  BY <1>2, <1>4, <1>8, <1>10, <1>11, <1>12, <1>13 DEF Good, NChain, NEnds, LeadsOut

\* The parser turns to its next output.
LEMMA ChildOutputStep ==
    ASSUME NativeInv, N!ChildOutput
    PROVE  NativeInv'
<1>1. PICK begin \in {"begin", "other"} :
         child' = [child EXCEPT !.todo = N!Output(child.next - 1, child.plan[child.next], begin),
                                !.next = child.next + 1]
    BY DEF N!ChildOutput
<1>2. /\ child.pc = "writing" /\ child.todo = <<>> /\ child.exit = 0
      /\ child.next <= Len(child.plan) /\ UNCHANGED <<native, control, data>>
    BY DEF N!ChildOutput
<1>3. /\ ChildShape(child) /\ control \in Seq(NMessages) /\ data \in Seq(NMessages)
      /\ child.plan \in Plans /\ child.next \in 1 .. Len(child.plan) + 1
    BY DEF NativeInv, ChildShape
<1>4. PICK i \in Nat : i = child.next - 1
    BY <1>3, PlanFacts
<1>5. child.next = i + 1 /\ i + 1 \in 1 .. Len(child.plan) /\ Len(child.plan) \in Nat
    BY <1>2, <1>3, <1>4, PlanFacts
<1>6. PICK o : o = N!Output(i, child.plan[i + 1], begin)
    OBVIOUS
<1>s. LeadsOut(o, i, child.plan)
    <2>1. IsOutput(o, i, child.plan[i + 1], begin)
        BY <1>6 DEF IsOutput
    <2> QED  BY <1>3, <1>5, <2>1, OutputIsChain
<1>7. /\ o \in Seq(NMessages) /\ o # <<>> /\ o[Len(o)].kind = "end"
      /\ \A j \in 1 .. Len(o) : /\ LineOK(o[j], child.plan) \/ PieceOK(o[j], child.plan)
                                /\ o[j].kind # "error"
      /\ \A j \in 1 .. Len(o) - 1 : o[j].kind # "end"
      /\ NChain(o, <<i, 0>>, child.plan)
      /\ NEnds(o, <<i, 0>>, child.plan) = <<i + 1, 0>>
    BY <1>s DEF LeadsOut
<1>8. child' = [child EXCEPT !.todo = o, !.next = i + 2]
    <2>1. child.next - 1 = i /\ child.next + 1 = i + 2 /\ child.plan[child.next] = child.plan[i + 1]
        BY <1>4, <1>5
    <2> QED  BY <1>1, <1>6, <2>1, Zenon
<1>9. /\ ChildShape(child') /\ child'.pc = "writing" /\ child'.plan = child.plan
      /\ child'.todo = o /\ child'.next = i + 2 /\ child'.exit = 0
    <2>1. i + 2 \in 1 .. Len(child.plan) + 1
        BY <1>5
    <2> QED  BY <1>2, <1>3, <1>7, <1>8, <2>1 DEF ChildShape
<1>10. EndsWritten(child') = i /\ EndsWritten(child) = i
    BY <1>2, <1>5, <1>7, <1>9 DEF EndsWritten
<1>11. ASSUME NReading(native)
       PROVE  NFlow(native.expected, NHostPos(native), child', control, data)
    <2> DEFINE e == native.expected
               p == NHostPos(native)
               q == NEnds(data, p, child.plan)
    <2>1. Stream(p, child, data) /\ Todo(e, q, child, control) /\ Lines(e, q, child, control)
        BY <1>11 DEF NativeInv, NFlow
    <2>2. q = <<i, 0>>
        <3>1. NEnds(child.todo, q, child.plan) = <<child.next - 1, 0>>
            BY <1>2, <2>1 DEF Todo
        <3> QED  BY <1>2, <1>4, <3>1 DEF NEnds
    <2> HIDE DEF q
    <2>3. Todo(e, q, child', control)
        <3>1. /\ \A j \in 1 .. Len(control) : control[j].kind = "end" => control[j].what < i
              /\ e <= i
            BY <1>2, <1>10, <2>1 DEF Todo
        <3>2. <<i + 1, 0>> = <<(i + 2) - 1, 0>>
            OBVIOUS
        <3> QED  BY <1>7, <1>9, <1>10, <2>2, <3>1, <3>2 DEF Todo
    <2> QED  BY <1>9, <2>1, <2>3 DEF NFlow, Stream, Lines, q
<1> QED  BY <1>2, <1>3, <1>9, <1>11, ChildKeeps

\* Every step of the parser keeps the invariant.
LEMMA ChildStepKeeps ==
    ASSUME NativeInv, N!ChildStep
    PROVE  NativeInv'
BY ChildParsesStep, ChildOutputStep, ChildWarnsStep, ChildStops, WriteLineStep, WritePieceStep,
   ChildEnds DEF N!ChildStep

--------------------------------------------------------------------------------
(* What run_file does. *)

\* run_file stops reading.
LEMMA NHostStops ==
    ASSUME NativeInv, NativeShape(native'), native'.outputs = native.outputs,
           native'.expected = native.expected, ~NReading(native'),
           ChildShape(child'), child'.plan = child.plan,
           control' \in Seq(NMessages), data' \in Seq(NMessages),
           native'.pc = "returned" /\ native'.error = "cancelled" => child'.pc = "dead"
    PROVE  NativeInv'
<1>1. Kept(native', child'.plan)
    BY DEF NativeInv, Kept
<1> QED  BY <1>1 DEF NativeInv, N!Returned, N!Alive

\* What Return sets.
LEMMA NReturned ==
    ASSUME NEW n, NativeShape(n), NEW r, NEW why, NEW m, m = N!Return(n, r, why)
    PROVE  /\ NativeShape(m) /\ m.outputs = n.outputs /\ m.expected = n.expected
           /\ m.pc = "returned" /\ m.error = why /\ m.result = r /\ ~NReading(m)
<1>1. /\ NativeShape(m) /\ m.outputs = n.outputs /\ m.expected = n.expected
      /\ m.pc = "returned" /\ m.error = why /\ m.result = r
    BY DEF N!Return, NativeShape
<1> QED  BY <1>1 DEF NReading

\* run_file reads on.
LEMMA NHostReads ==
    ASSUME NativeInv, NativeShape(native'), UNCHANGED child, Kept(native', child.plan),
           NReading(native'), control' \in Seq(NMessages), data' \in Seq(NMessages),
           NFlow(native'.expected, NHostPos(native'), child, control', data'),
           Collected(native', child, control')
    PROVE  NativeInv'
<1>1. ~N!Returned'
    BY DEF N!Returned, NReading
<1>2. ChildShape(child')
    BY DEF NativeInv
<1> QED  BY <1>1, <1>2 DEF NativeInv

\* A line is read: what is under way otherwise still fits.
LEMMA LineRead ==
    ASSUME NEW e, NEW p, NEW c, NEW k \in Seq(NMessages), k # <<>>, NEW d,
           NFlow(e, p, c, k, d)
    PROVE  /\ Tail(k) \in Seq(NMessages) /\ NFlow(e, p, c, Tail(k), d)
           /\ LineOK(Head(k), c.plan)
           /\ \A j \in 1 .. Len(Tail(k)) : j + 1 \in 1 .. Len(k) /\ Tail(k)[j] = k[j + 1]
           /\ 1 \in 1 .. Len(k) /\ Head(k) = k[1]
<1> DEFINE t == Tail(k)
           q == NEnds(d, p, c.plan)
<1>1. /\ t \in Seq(NMessages) /\ 1 \in 1 .. Len(k) /\ Head(k) = k[1]
      /\ \A j \in 1 .. Len(t) : j \in Nat /\ j + 1 \in 1 .. Len(k) /\ t[j] = k[j + 1]
    OBVIOUS
<1>2. Stream(p, c, d) /\ Todo(e, q, c, k) /\ Lines(e, q, c, k)
    BY DEF NFlow
<1> HIDE DEF t, q
<1>3. Todo(e, q, c, t)
    <2>1. c.pc # "dead" /\ c.exit = 0 =>
             \A j \in 1 .. Len(t) : t[j].kind = "end" => t[j].what < EndsWritten(c)
        BY <1>1, <1>2 DEF Todo
    <2> QED  BY <1>2, <2>1 DEF Todo
<1>4. Lines(e, q, c, t)
    <2>1. \A j \in 1 .. Len(t) : LineOK(t[j], c.plan)
        BY <1>1, <1>2 DEF Lines
    <2>2. \A j \in 1 .. Len(t) : t[j].kind = "end" => e <= t[j].what /\ t[j].what < q[1]
        BY <1>1, <1>2 DEF Lines
    <2>3. ASSUME NEW i \in 1 .. Len(t), NEW j \in 1 .. Len(t), i < j,
                 t[i].kind = "end", t[j].kind = "end"
          PROVE  t[i].what < t[j].what
        <3>1. /\ i + 1 \in 1 .. Len(k) /\ j + 1 \in 1 .. Len(k) /\ i + 1 < j + 1
              /\ t[i] = k[i + 1] /\ t[j] = k[j + 1]
            BY <1>1, <2>3
        <3> QED  BY <1>2, <2>3, <3>1 DEF Lines
    <2> QED  BY <2>1, <2>2, <2>3 DEF Lines
<1>5. LineOK(Head(k), c.plan)
    BY <1>1, <1>2 DEF Lines
<1>6. NFlow(e, p, c, t, d)
    BY <1>2, <1>3, <1>4 DEF NFlow, q
<1> QED  BY <1>1, <1>5, <1>6 DEF t

\* A piece is read.
LEMMA PieceRead ==
    ASSUME NEW e, NEW p, NEW c, NEW k, NEW d \in Seq(NMessages), d # <<>>,
           NFlow(e, p, c, k, d)
    PROVE  /\ Tail(d) \in Seq(NMessages) /\ NFlow(e, NAfter(Head(d), c.plan), c, k, Tail(d))
           /\ NBefore(Head(d), c.plan) = p /\ PieceOK(Head(d), c.plan)
<1> DEFINE t == Tail(d)
           r == NAfter(Head(d), c.plan)
<1>1. /\ t \in Seq(NMessages) /\ 1 \in 1 .. Len(d) /\ Head(d) = d[1]
      /\ \A j \in 1 .. Len(t) : j + 1 \in 1 .. Len(d) /\ t[j] = d[j + 1]
    OBVIOUS
<1>2. Stream(p, c, d)
    BY DEF NFlow
<1>3. /\ NBefore(Head(d), c.plan) = p /\ NChain(t, r, c.plan)
      /\ NEnds(t, r, c.plan) = NEnds(d, p, c.plan)
    <2>1. NChain(d, p, c.plan)
        BY <1>2 DEF Stream
    <2> QED  BY <2>1, NChainDrop
<1> HIDE DEF t, r
<1>4. PieceOK(Head(d), c.plan) /\ \A j \in 1 .. Len(t) : PieceOK(t[j], c.plan)
    BY <1>1, <1>2 DEF Stream
<1>5. NFlow(e, r, c, k, t)
    BY <1>3, <1>4 DEF NFlow, Stream
<1> QED  BY <1>1, <1>3, <1>4, <1>5 DEF t, r

\* The steps after which run_file reads no more.
LEMMA NStopSteps ==
    ASSUME NativeInv, N!hello_fails \/ N!recv_disconnected \/ N!run_cancelled \/ N!try_wait
    PROVE  NativeInv'
<1>1. /\ NativeShape(native) /\ ChildShape(child)
      /\ control \in Seq(NMessages) /\ data \in Seq(NMessages)
    BY DEF NativeInv
<1>2. CASE N!hello_fails
    <2>1. native' = N!Return(native, "err", "hello") /\ UNCHANGED <<child, control, data>>
        BY <1>2 DEF N!hello_fails
    <2>2. /\ NativeShape(native') /\ native'.outputs = native.outputs
          /\ native'.expected = native.expected /\ native'.error = "hello" /\ ~NReading(native')
        BY <1>1, <2>1, NReturned
    <2> QED  BY <1>1, <2>1, <2>2, NHostStops
<1>3. CASE N!recv_disconnected
    <2>1. native' = [native EXCEPT !.pc = "exit"] /\ UNCHANGED <<child, control, data>>
        BY <1>3 DEF N!recv_disconnected
    <2>2. /\ NativeShape(native') /\ native'.outputs = native.outputs
          /\ native'.expected = native.expected /\ native'.pc = "exit"
        BY <1>1, <2>1 DEF NativeShape
    <2>3. ~NReading(native')
        BY <2>2 DEF NReading
    <2> QED  BY <1>1, <2>1, <2>2, <2>3, NHostStops
<1>4. CASE N!run_cancelled
    <2>1. native' = N!Return(native, "err", "cancelled") /\ UNCHANGED <<control, data>>
        BY <1>4 DEF N!run_cancelled
    <2>2. \E x : child' = [child EXCEPT !.pc = "dead", !.exit = x]
        BY <1>4 DEF N!run_cancelled, N!kill
    <2>3. ChildShape(child') /\ child'.plan = child.plan /\ child'.pc = "dead"
        BY <1>1, <2>2 DEF ChildShape
    <2>4. /\ NativeShape(native') /\ native'.outputs = native.outputs
          /\ native'.expected = native.expected /\ ~NReading(native')
        BY <1>1, <2>1, NReturned
    <2> QED  BY <1>1, <2>1, <2>3, <2>4, NHostStops
<1>5. CASE N!try_wait
    <2>1. /\ \/ native' = N!Return(native, "ok", None)
             \/ native' = N!Return(native, "err", "status")
          /\ UNCHANGED <<child, control, data>>
        BY <1>5 DEF N!try_wait
    <2>2. child.pc = "dead"
        BY <1>5 DEF N!try_wait, N!Alive
    <2>3. /\ NativeShape(native') /\ native'.outputs = native.outputs
          /\ native'.expected = native.expected /\ ~NReading(native')
        BY <1>1, <2>1, NReturned
    <2> QED  BY <1>1, <2>1, <2>2, <2>3, NHostStops
<1> QED  BY <1>2, <1>3, <1>4, <1>5

Fails(n, m) ==
    \E why \in {"protocol", "schema", "plugin", "stream", "no_end"} : m = N!Return(n, "err", why)

\* An error ends run_file and leaves the child alone.
LEMMA NFailsStep ==
    ASSUME NativeInv, Fails(native, native'), UNCHANGED child,
           control' \in Seq(NMessages), data' \in Seq(NMessages)
    PROVE  NativeInv'
<1>1. PICK why \in {"protocol", "schema", "plugin", "stream", "no_end"} :
         native' = N!Return(native, "err", why)
    BY DEF Fails
<1>2. NativeShape(native) /\ ChildShape(child)
    BY DEF NativeInv
<1>3. /\ NativeShape(native') /\ native'.outputs = native.outputs
      /\ native'.expected = native.expected /\ native'.error = why /\ ~NReading(native')
    BY <1>1, <1>2, NReturned
<1> QED  BY <1>2, <1>3, NHostStops

\* The hello of the parser.
LEMMA HelloStep ==
    ASSUME NativeInv, N!recv_hello
    PROVE  NativeInv'
<1>1. /\ native.pc = "hello" /\ control # <<>> /\ control' = Tail(control)
      /\ UNCHANGED <<child, data>>
      /\ native' = [native EXCEPT !.pc = "frame"] \/ native' = N!Return(native, "err", "protocol")
    BY DEF N!recv_hello
<1>2. /\ NativeShape(native) /\ control \in Seq(NMessages) /\ data \in Seq(NMessages)
      /\ Kept(native, child.plan)
    BY DEF NativeInv
<1>3. NFlow(native.expected, NHostPos(native), child, control, data)
    BY <1>1 DEF NativeInv, NReading
<1>4. control' \in Seq(NMessages) /\ NFlow(native.expected, NHostPos(native), child, control', data)
    BY <1>1, <1>2, <1>3, LineRead
<1>5. CASE native' = [native EXCEPT !.pc = "frame"]
    <2>1. /\ NativeShape(native') /\ native'.pc = "frame" /\ native'.outputs = native.outputs
          /\ native'.expected = native.expected
        BY <1>2, <1>5 DEF NativeShape
    <2>2. NHostPos(native') = NHostPos(native)
        BY <1>1, <2>1 DEF NHostPos
    <2>3. NReading(native') /\ Collected(native', child, control') /\ Kept(native', child.plan)
        BY <1>2, <2>1 DEF NReading, Collected, Kept
    <2> QED  BY <1>1, <1>2, <1>4, <2>1, <2>2, <2>3, NHostReads
<1>6. CASE native' = N!Return(native, "err", "protocol")
    <2>1. Fails(native, native')
        BY <1>6 DEF Fails
    <2> QED  BY <1>1, <1>2, <1>4, <2>1, NFailsStep
<1> QED  BY <1>1, <1>5, <1>6

\* A frame between two outputs.
LEMMA FrameStep ==
    ASSUME NativeInv, N!recv_frame
    PROVE  NativeInv'
<1> DEFINE f == Head(control)
<1>1. /\ native.pc = "frame" /\ control # <<>> /\ control' = Tail(control)
      /\ UNCHANGED <<child, data>>
    BY DEF N!recv_frame
<1>2. /\ NativeShape(native) /\ control \in Seq(NMessages) /\ data \in Seq(NMessages)
      /\ Kept(native, child.plan) /\ child.plan \in Plans
    BY DEF NativeInv, ChildShape
<1>3. /\ NFlow(native.expected, NHostPos(native), child, control, data)
      /\ Collected(native, child, control)
    BY <1>1 DEF NativeInv, NReading
<1>4. /\ control' \in Seq(NMessages) /\ NFlow(native.expected, NHostPos(native), child, control', data)
      /\ LineOK(f, child.plan)
    BY <1>1, <1>2, <1>3, LineRead
<1>5. \/ native' = native
      \/ Fails(native, native')
      \/ /\ f.kind = "begin" /\ f.what = native.expected
         /\ native' = [native EXCEPT !.pc = "schema", !.output = f.what, !.batches = <<>>]
    <2> HIDE DEF f
    <2>1. native' = CASE f.kind \in {"begin", "other"} -> N!output_begin(native, f)
                       [] f.kind = "warning" -> native
                       [] f.kind = "error" -> N!Return(native, "err", "plugin")
                       [] OTHER -> N!Return(native, "err", "protocol")
        BY DEF N!recv_frame, f
    <2>2. CASE f.kind \in {"begin", "other"}
        <3>1. native' = N!output_begin(native, f)
            BY <2>1, <2>2
        <3> QED  BY <2>2, <3>1 DEF N!output_begin, Fails
    <2>3. CASE f.kind \notin {"begin", "other"}
        BY <2>1, <2>3 DEF Fails
    <2> QED  BY <2>2, <2>3
<1>6. CASE native' = native
    <2>1. NReading(native') /\ Collected(native', child, control')
        BY <1>1, <1>6 DEF NReading, Collected
    <2> QED  BY <1>1, <1>2, <1>4, <1>6, <2>1, NHostReads
<1>7. CASE Fails(native, native')
    BY <1>1, <1>2, <1>4, <1>7, NFailsStep
<1>8. CASE /\ f.kind = "begin" /\ f.what = native.expected
           /\ native' = [native EXCEPT !.pc = "schema", !.output = f.what, !.batches = <<>>]
    <2>1. f.what \in 0 .. Len(child.plan) - 1 /\ Len(child.plan) \in Nat
        BY <1>2, <1>4, <1>8, PlanFacts DEF LineOK
    <2> HIDE DEF f
    <2>2. /\ NativeShape(native') /\ native'.pc = "schema" /\ native'.outputs = native.outputs
          /\ native'.expected = native.expected /\ native'.output = f.what
          /\ native'.batches = <<>>
        BY <1>2, <1>8 DEF NativeShape
    <2>3. NHostPos(native') = NHostPos(native)
        BY <1>1, <2>2 DEF NHostPos
    <2>4. NReading(native') /\ Kept(native', child.plan)
        BY <1>2, <2>2 DEF NReading, Kept
    <2>5. Collected(native', child, control')
        BY <1>8, <2>1, <2>2 DEF Collected
    <2> QED  BY <1>1, <1>2, <1>4, <2>2, <2>3, <2>4, <2>5, NHostReads
<1> QED  BY <1>5, <1>6, <1>7, <1>8

\* The output run_file is at is one of the plan.
LEMMA OutputPlanned ==
    ASSUME NEW plan \in Plans, NEW n, Kept(n, plan), n.expected < Len(plan)
    PROVE  /\ n.expected \in Nat /\ n.expected + 1 \in 1 .. Len(plan)
           /\ plan[n.expected + 1] \in Nat
<1>1. PICK e \in Nat : e = n.expected
    BY DEF Kept
<1>2. Len(plan) \in Nat /\ \A i \in 1 .. Len(plan) : plan[i] \in Nat
    BY PlanFacts
<1>3. e + 1 \in 1 .. Len(plan)
    BY <1>1, <1>2
<1> QED  BY <1>1, <1>2, <1>3

\* The schema of an Arrow stream.
LEMMA SchemaStep ==
    ASSUME NativeInv, N!read_schema
    PROVE  NativeInv'
<1> DEFINE m == Head(data)
           e == native.expected
<1>1. /\ native.pc = "schema" /\ data # <<>> /\ data' = Tail(data) /\ UNCHANGED <<child, control>>
      /\ \/ m.kind = "schema" /\ native' = [native EXCEPT !.pc = "stream"]
         \/ native' = N!Return(native, "err", "stream")
    BY DEF N!read_schema
<1>2. /\ NativeShape(native) /\ control \in Seq(NMessages) /\ data \in Seq(NMessages)
      /\ Kept(native, child.plan) /\ child.plan \in Plans
    BY DEF NativeInv, ChildShape
<1>3. NFlow(e, NHostPos(native), child, control, data) /\ Collected(native, child, control)
    BY <1>1 DEF NativeInv, NReading
<1>4. /\ data' \in Seq(NMessages) /\ NFlow(e, NAfter(m, child.plan), child, control, data')
      /\ NBefore(m, child.plan) = NHostPos(native)
    BY <1>1, <1>2, <1>3, PieceRead
<1>5. CASE native' = N!Return(native, "err", "stream")
    <2>1. Fails(native, native')
        BY <1>5 DEF Fails
    <2> QED  BY <1>1, <1>2, <1>4, <2>1, NFailsStep
<1>6. CASE m.kind = "schema" /\ native' = [native EXCEPT !.pc = "stream"]
    <2> HIDE DEF m
    <2>1. /\ NativeShape(native') /\ native'.pc = "stream" /\ native'.outputs = native.outputs
          /\ native'.expected = e /\ native'.output = native.output
          /\ native'.batches = native.batches
        BY <1>2, <1>6 DEF NativeShape
    <2>2. native.batches = <<>> /\ native.output = e /\ e < Len(child.plan)
        BY <1>1, <1>3 DEF Collected
    <2>3. NHostPos(native) = <<e, 0>> /\ NHostPos(native') = <<e, 1>>
        BY <1>1, <2>1, <2>2 DEF NHostPos
    <2>4. NBefore(m, child.plan) = <<m.what, 0>> /\ NAfter(m, child.plan) = <<m.what, 1>>
        BY <1>6 DEF NBefore, NAfter
    <2>5. NAfter(m, child.plan) = NHostPos(native')
        BY <1>4, <2>3, <2>4
    <2>6. e \in Nat /\ child.plan[e + 1] \in Nat
        BY <1>2, <2>2, OutputPlanned
    <2>7. native'.batches = B!Batches(e, 0) /\ 0 \in 0 .. child.plan[e + 1]
        <3>1. native.expected \in Int /\ 0 \in Nat /\ 0 \in 0 .. child.plan[e + 1]
            BY <2>6
        <3>2. B!Batches(native.expected, 0) = <<>>
            BY <3>1, BatchesGrow, Zenon
        <3> QED  BY <2>1, <2>2, <3>1, <3>2
    <2>8. Collected(native', child, control')
        BY <2>1, <2>2, <2>7 DEF Collected
    <2>9. NReading(native') /\ Kept(native', child.plan)
        BY <1>2, <2>1 DEF NReading, Kept
    <2> QED  BY <1>1, <1>2, <1>4, <2>1, <2>5, <2>8, <2>9, NHostReads
<1> QED  BY <1>1, <1>5, <1>6

\* A record batch, or the end of the stream.
LEMMA BatchStep ==
    ASSUME NativeInv, N!read_batch
    PROVE  NativeInv'
<1> DEFINE m == Head(data)
           e == native.expected
           plan == child.plan
<1>1. /\ native.pc = "stream" /\ data # <<>> /\ data' = Tail(data) /\ UNCHANGED <<child, control>>
      /\ \/ m.kind = "eos" /\ native' = [native EXCEPT !.pc = "end"]
         \/ m.kind # "eos" /\ native' = [native EXCEPT !.batches = Append(native.batches, m.what)]
    BY DEF N!read_batch
<1>2. /\ NativeShape(native) /\ control \in Seq(NMessages) /\ data \in Seq(NMessages)
      /\ Kept(native, plan) /\ plan \in Plans
    BY DEF NativeInv, ChildShape
<1>3. NFlow(e, NHostPos(native), child, control, data) /\ Collected(native, child, control)
    BY <1>1 DEF NativeInv, NReading
<1>4. /\ data' \in Seq(NMessages) /\ NFlow(e, NAfter(m, plan), child, control, data')
      /\ NBefore(m, plan) = NHostPos(native) /\ PieceOK(m, plan)
    BY <1>1, <1>2, <1>3, PieceRead
<1> HIDE DEF m
<1>5. native.output = e /\ e < Len(plan)
    BY <1>1, <1>3 DEF Collected
<1>6. e \in Nat /\ e + 1 \in 1 .. Len(plan) /\ plan[e + 1] \in Nat
    BY <1>2, <1>5, OutputPlanned
<1>7. PICK i \in 0 .. plan[e + 1] : native.batches = B!Batches(e, i)
    BY <1>1, <1>3 DEF Collected
<1>8. i \in Nat /\ e \in Int
    BY <1>6
<1>9. Len(native.batches) = i
    BY <1>7, <1>8, BatchesType
<1>10. NBefore(m, plan) = <<e, i + 1>>
    BY <1>1, <1>4, <1>9 DEF NHostPos
<1>11. CASE m.kind = "eos"
    <2>1. /\ NativeShape(native') /\ native'.pc = "end" /\ native'.outputs = native.outputs
          /\ native'.expected = e /\ native'.output = native.output
          /\ native'.batches = native.batches
        BY <1>1, <1>2, <1>11 DEF NativeShape
    <2>2. /\ NBefore(m, plan) = <<m.what, plan[m.what + 1] + 1>>
          /\ NAfter(m, plan) = <<m.what + 1, 0>>
        BY <1>11 DEF NBefore, NAfter
    <2>3. m.what = e
        BY <1>10, <2>2
    <2>4. plan[e + 1] + 1 = i + 1
        BY <1>10, <2>2, <2>3
    <2>5. i = plan[e + 1]
        BY <1>6, <1>8, <2>4
    <2>6. NHostPos(native') = NAfter(m, plan)
        BY <2>1, <2>2, <2>3 DEF NHostPos
    <2>7. Collected(native', child, control')
        BY <1>5, <1>7, <2>1, <2>5 DEF Collected
    <2>8. NReading(native') /\ Kept(native', plan)
        BY <1>2, <2>1 DEF NReading, Kept
    <2> QED  BY <1>1, <1>2, <1>4, <2>1, <2>6, <2>7, <2>8, NHostReads
<1>12. CASE m.kind # "eos"
    <2>1. m.kind = "batch"
        <3>1. m.kind = "schema" => NBefore(m, plan) = <<m.what, 0>>
            BY DEF NBefore
        <3>2. m.kind # "schema"
            <4> SUFFICES ASSUME m.kind = "schema"  PROVE FALSE
                OBVIOUS
            <4>1. i + 1 = 0
                BY <1>10, <3>1
            <4> QED  BY <1>8, <4>1
        <3> QED  BY <1>4, <1>12, <3>2 DEF PieceOK
    <2>2. NBefore(m, plan) = m.what /\ NAfter(m, plan) = <<m.what[1], m.what[2] + 1>>
        BY <2>1 DEF NBefore, NAfter
    <2>3. m.what = <<e, i + 1>>
        BY <1>10, <2>2
    <2>4. NAfter(m, plan) = <<e, (i + 1) + 1>>
        BY <2>2, <2>3
    <2>5. i + 1 \in 0 .. plan[e + 1]
        <3>1. PICK x \in 1 .. Len(plan) : \E b \in 1 .. plan[x] : m.what = <<x - 1, b>>
            BY <1>4, <2>1 DEF PieceOK
        <3>2. PICK b \in 1 .. plan[x] : m.what = <<x - 1, b>>
            BY <3>1
        <3>3. x - 1 = e /\ b = i + 1
            BY <2>3, <3>2
        <3>4. x = e + 1
            BY <1>6, <3>3
        <3>5. i + 1 \in 1 .. plan[e + 1]
            BY <3>2, <3>3, <3>4
        <3> QED  BY <1>6, <1>8, <3>5
    <2>6. Append(native.batches, m.what) = B!Batches(e, i + 1)
        <3>1. Append(B!Batches(e, i), <<e, i + 1>>) = B!Batches(e, i + 1)
            BY <1>8, BatchesGrow
        <3> QED  BY <1>7, <2>3, <3>1
    <2>7. /\ NativeShape(native') /\ native'.pc = "stream" /\ native'.outputs = native.outputs
          /\ native'.expected = e /\ native'.output = native.output
          /\ native'.batches = B!Batches(e, i + 1)
        <3>1. native' = [native EXCEPT !.batches = Append(native.batches, m.what)]
            BY <1>1, <1>12
        <3>2. PICK w : w = Append(native.batches, m.what)
            OBVIOUS
        <3>3. native' = [native EXCEPT !.batches = w]
            BY <3>1, <3>2
        <3>4. /\ NativeShape(native') /\ native'.pc = "stream" /\ native'.outputs = native.outputs
              /\ native'.expected = e /\ native'.output = native.output /\ native'.batches = w
            BY <1>1, <1>2, <3>3 DEF NativeShape
        <3> QED  BY <2>6, <3>2, <3>4
    <2>8. NHostPos(native') = <<e, (i + 1) + 1>>
        <3>1. i + 1 \in Nat
            BY <1>8
        <3>2. Len(B!Batches(e, i + 1)) = i + 1
            BY <1>8, <3>1, BatchesType
        <3> QED  BY <2>7, <3>2 DEF NHostPos
    <2>9. Collected(native', child, control')
        BY <1>5, <2>5, <2>7 DEF Collected
    <2>10. NReading(native') /\ Kept(native', plan)
        BY <1>2, <2>7 DEF NReading, Kept
    <2> QED  BY <1>1, <1>2, <1>4, <2>4, <2>7, <2>8, <2>9, <2>10, NHostReads
<1> QED  BY <1>11, <1>12

\* The pipe ends before the stream does: the end of that output will not come.
LEMMA TruncatedStep ==
    ASSUME NativeInv, N!read_truncated
    PROVE  NativeInv'
<1> DEFINE e == native.expected
           plan == child.plan
<1>1. /\ native.pc \in {"schema", "stream"} /\ data = <<>> /\ UNCHANGED <<child, control, data>>
      /\ child.pc = "dead"
      /\ \/ native.pc = "stream" /\ native' = [native EXCEPT !.pc = "end"]
         \/ native' = N!Return(native, "err", "stream")
    BY DEF N!read_truncated, N!Alive
<1>2. /\ NativeShape(native) /\ control \in Seq(NMessages) /\ data \in Seq(NMessages)
      /\ Kept(native, plan) /\ plan \in Plans
    BY DEF NativeInv, ChildShape
<1>3. NFlow(e, NHostPos(native), child, control, data) /\ Collected(native, child, control)
    BY <1>1 DEF NativeInv, NReading
<1>4. CASE native' = N!Return(native, "err", "stream")
    <2>1. Fails(native, native')
        BY <1>4 DEF Fails
    <2> QED  BY <1>1, <1>2, <2>1, NFailsStep
<1>5. CASE native.pc = "stream" /\ native' = [native EXCEPT !.pc = "end"]
    <2>1. /\ NativeShape(native') /\ native'.pc = "end" /\ native'.outputs = native.outputs
          /\ native'.expected = e /\ native'.output = native.output
        BY <1>2, <1>5 DEF NativeShape
    <2>2. native.output = e /\ e < Len(plan) /\ e \in Nat /\ Len(plan) \in Nat
        BY <1>2, <1>3, <1>5, PlanFacts DEF Collected, Kept
    <2>3. \A j \in 1 .. Len(control) : control[j].kind # "end"
        <3> SUFFICES ASSUME NEW j \in 1 .. Len(control), control[j].kind = "end"  PROVE FALSE
            OBVIOUS
        <3>1. NEnds(data, NHostPos(native), plan) = NHostPos(native) /\ NHostPos(native)[1] = e
            BY <1>1, <1>5 DEF NEnds, NHostPos
        <3>2. LineOK(control[j], plan) /\ e <= control[j].what /\ control[j].what < e
            BY <1>3, <3>1 DEF NFlow, Lines
        <3>3. control[j].what \in Int
            BY <2>2, <3>2 DEF LineOK
        <3> QED  BY <2>2, <3>2, <3>3
    <2>4. NFlow(e, NHostPos(native'), child, control, data)
        <3>1. Stream(NHostPos(native'), child, data)
            BY <1>1 DEF Stream, NChain
        <3>2. Todo(e, NEnds(data, NHostPos(native'), plan), child, control)
            BY <1>1 DEF Todo
        <3>3. Lines(e, NEnds(data, NHostPos(native'), plan), child, control)
            BY <1>3, <2>3 DEF NFlow, Lines
        <3> QED  BY <3>1, <3>2, <3>3 DEF NFlow
    <2>5. Collected(native', child, control)
        BY <1>1, <2>1, <2>2, <2>3 DEF Collected
    <2>6. NReading(native') /\ Kept(native', plan)
        BY <1>2, <2>1 DEF NReading, Kept
    <2> QED  BY <1>1, <1>2, <2>1, <2>4, <2>5, <2>6, NHostReads
<1> QED  BY <1>1, <1>4, <1>5

Pushed(n, m) ==
    /\ m = [n EXCEPT !.pc = "frame", !.output = None, !.batches = <<>>,
                     !.outputs = Append(n.outputs, n.batches), !.expected = n.expected + 1]

\* The outputs of the plan so far and the next one are the outputs of the plan so far.
LEMMA KeptGrows ==
    ASSUME NEW plan \in Plans, NEW n, Kept(n, plan), n.expected < Len(plan),
           n.batches = B!Batches(n.expected, plan[n.expected + 1]),
           NEW m, m.outputs = Append(n.outputs, n.batches), m.expected = n.expected + 1
    PROVE  Kept(m, plan)
<1>1. PICK o \in Seq(Seq(Int \X Int)) : o = n.outputs
    BY DEF Kept
<1>2. PICK e \in Nat : e = n.expected
    BY DEF Kept
<1>3. /\ Len(o) = e /\ e + 1 \in 1 .. Len(plan) /\ plan[e + 1] \in Nat /\ Len(plan) \in Nat
    BY <1>1, <1>2, OutputPlanned, PlanFacts DEF Kept
<1>4. PICK b \in Seq(Int \X Int) : b = B!Batches(e, plan[e + 1])
    BY <1>2, <1>3, BatchesType
<1>5. m.outputs = Append(o, b) /\ m.expected = e + 1
    BY <1>1, <1>2, <1>4
<1>6. /\ Append(o, b) \in Seq(Seq(Int \X Int)) /\ Len(Append(o, b)) = e + 1
      /\ \A i \in 1 .. e : Append(o, b)[i] = o[i]
      /\ Append(o, b)[e + 1] = b
    BY <1>3
<1>7. PICK u \in Seq(Seq(Int \X Int)) : u = Append(o, b)
    BY <1>6
<1>8. ASSUME NEW i \in 1 .. e + 1  PROVE u[i] = B!Batches(i - 1, plan[i])
    <2>1. CASE i = e + 1
        <3>1. i - 1 = e
            BY <2>1
        <3> QED  BY <1>4, <1>6, <1>7, <2>1, <3>1
    <2>2. CASE i # e + 1
        <3>1. i \in 1 .. e
            BY <2>2
        <3>2. u[i] = o[i]
            BY <1>6, <1>7, <3>1
        <3> QED  BY <1>1, <1>3, <3>1, <3>2 DEF Kept
    <2> QED  BY <2>1, <2>2
<1>9. Len(u) = e + 1 /\ e + 1 <= Len(plan)
    BY <1>3, <1>6, <1>7
<1> QED  BY <1>5, <1>7, <1>8, <1>9 DEF Kept

\* The end of an output.
LEMMA EndStep ==
    ASSUME NativeInv, N!recv_end
    PROVE  NativeInv'
<1> DEFINE f == Head(control)
           e == native.expected
           p == NHostPos(native)
           plan == child.plan
           q == NEnds(data, p, plan)
<1>1. /\ native.pc = "end" /\ UNCHANGED <<child, data>> /\ native' = N!output_end(native)
      /\ control' = IF control = <<>> THEN <<>> ELSE Tail(control)
    BY DEF N!recv_end
<1>2. /\ NativeShape(native) /\ control \in Seq(NMessages) /\ data \in Seq(NMessages)
      /\ Kept(native, plan) /\ plan \in Plans /\ ChildShape(child)
    BY DEF NativeInv, ChildShape
<1>3. NFlow(e, p, child, control, data) /\ Collected(native, child, control)
    BY <1>1 DEF NativeInv, NReading
<1>4. CASE control = <<>>
    <2>1. Fails(native, native') /\ control' = control
        BY <1>1, <1>4 DEF N!output_end, Fails
    <2> QED  BY <1>1, <1>2, <2>1, NFailsStep
<1>5. CASE control # <<>>
    <2>1. control' = Tail(control)
        BY <1>1, <1>5
    <2>2. /\ control' \in Seq(NMessages) /\ NFlow(e, p, child, control', data)
          /\ \A j \in 1 .. Len(control') : j + 1 \in 1 .. Len(control) /\ control'[j] = control[j + 1]
          /\ 1 \in 1 .. Len(control) /\ f = control[1]
        BY <1>2, <1>3, <1>5, <2>1, LineRead
    <2>3. \/ native' = native
          \/ Fails(native, native')
          \/ f.kind = "end" /\ f.what = native.output /\ Pushed(native, native')
        <3>1. native' = CASE f.kind = "warning" -> native
                          [] f.kind = "end" /\ f.what = native.output -> N!push(native)
                          [] f.kind = "error" -> N!Return(native, "err", "plugin")
                          [] OTHER -> N!Return(native, "err", "protocol")
            BY <1>1, <1>5 DEF N!output_end
        <3> HIDE DEF f
        <3>2. CASE f.kind = "end" /\ f.what = native.output
            <4>1. native' = N!push(native)
                BY <3>1, <3>2
            <4> QED  BY <3>2, <4>1 DEF N!push, Pushed
        <3>3. CASE ~(f.kind = "end" /\ f.what = native.output)
            BY <3>1, <3>3 DEF Fails
        <3> QED  BY <3>2, <3>3
    <2>4. CASE native' = native
        <3>1. \/ native.batches = B!Batches(e, plan[e + 1])
              \/ /\ child.pc = "dead"
                 /\ \A j \in 1 .. Len(control') : control'[j].kind = "end" => control'[j].what # e
            BY <1>1, <1>3, <2>2 DEF Collected
        <3>2. Collected(native, child, control')
            BY <1>1, <1>3, <3>1 DEF Collected
        <3>3. NReading(native)
            BY <1>1 DEF NReading
        <3> QED  BY <1>1, <1>2, <2>2, <2>4, <3>2, <3>3, NHostReads
    <2>5. CASE Fails(native, native')
        BY <1>1, <1>2, <2>2, <2>5, NFailsStep
    <2>6. CASE f.kind = "end" /\ f.what = native.output /\ Pushed(native, native')
        <3>1. native.output = e /\ e < Len(plan)
            BY <1>1, <1>3 DEF Collected
        <3>2. native.batches = B!Batches(e, plan[e + 1])
            BY <1>1, <1>3, <2>2, <2>6, <3>1 DEF Collected
        <3>3. /\ NativeShape(native') /\ native'.pc = "frame"
              /\ native'.outputs = Append(native.outputs, native.batches)
              /\ native'.expected = e + 1
            BY <1>2, <2>6 DEF NativeShape, Pushed
        <3>4. Kept(native', plan)
            BY <1>2, <3>1, <3>2, <3>3, KeptGrows
        <3>5. e \in Nat /\ e + 1 \in 1 .. Len(plan) /\ Len(plan) \in Nat
            BY <1>2, <3>1, OutputPlanned, PlanFacts
        <3>6. NHostPos(native') = <<e + 1, 0>> /\ p = <<e + 1, 0>>
            BY <1>1, <3>3 DEF NHostPos
        <3>7. Stream(p, child, data) /\ Todo(e, q, child, control') /\ Lines(e, q, child, control')
            BY <2>2 DEF NFlow
        <3>8. Todo(e, q, child, control) /\ Lines(e, q, child, control)
            BY <1>3 DEF NFlow
        <3> HIDE DEF q, p, f
        <3>9. Todo(e + 1, q, child, control')
            <4>1. ASSUME child.pc # "dead", child.exit = 0  PROVE e + 1 <= EndsWritten(child)
                <5>1. e < EndsWritten(child)
                    BY <2>2, <2>6, <3>1, <3>8, <4>1 DEF Todo
                <5>2. child.next \in Int
                    BY <1>2, <3>5 DEF ChildShape
                <5>3. EndsWritten(child) \in Int
                    BY <5>2 DEF EndsWritten
                <5> QED  BY <3>5, <5>1, <5>3
            <4> QED  BY <3>7, <4>1 DEF Todo
        <3>10. Lines(e + 1, q, child, control')
            <4>1. ASSUME NEW j \in 1 .. Len(control'), control'[j].kind = "end"
                  PROVE  e + 1 <= control'[j].what
                <5>1. /\ j + 1 \in 1 .. Len(control) /\ control'[j] = control[j + 1]
                      /\ 1 \in 1 .. Len(control) /\ 1 < j + 1
                    BY <2>2
                <5>2. control[1].what < control[j + 1].what
                    BY <2>2, <2>6, <3>8, <4>1, <5>1 DEF Lines
                <5>3. control'[j].what \in Int
                    BY <3>5, <3>7, <4>1 DEF Lines, LineOK
                <5>4. e < control'[j].what
                    BY <2>2, <2>6, <3>1, <5>1, <5>2
                <5> QED  BY <3>5, <5>3, <5>4
            <4> QED  BY <3>7, <4>1 DEF Lines
        <3>11. NFlow(e + 1, p, child, control', data)
            BY <3>7, <3>9, <3>10 DEF NFlow, q
        <3>12. NReading(native') /\ Collected(native', child, control')
            BY <3>3 DEF NReading, Collected
        <3> QED  BY <1>1, <1>2, <2>2, <3>3, <3>4, <3>6, <3>11, <3>12, NHostReads
    <2> QED  BY <2>3, <2>4, <2>5, <2>6
<1> QED  BY <1>4, <1>5

\* Every step of run_file keeps the invariant.
LEMMA NHostStepKeeps ==
    ASSUME NativeInv, N!HostStep
    PROVE  NativeInv'
BY HelloStep, NStopSteps, FrameStep, SchemaStep, BatchStep, TruncatedStep, EndStep DEF N!HostStep

\* The invariant of the native runtime holds at the start.
LEMMA NativeStarts ==
    ASSUME N!Init
    PROVE  NativeInv
<1> DEFINE m == [to |-> "stderr", kind |-> "hello", what |-> 0]
<1>1. /\ native = [pc |-> "hello", output |-> None, batches |-> <<>>, outputs |-> <<>>,
                   expected |-> 0, error |-> None, result |-> None]
      /\ child = [pc |-> "parsing", todo |-> <<m>>, plan |-> <<>>, next |-> 1, exit |-> 0]
      /\ control = <<>> /\ data = <<>>
    BY DEF N!Init
<1>2. m \in NMessages /\ LineOK(m, <<>>) /\ m.kind = "hello"
    <2>1. 0 \in Payloads
        BY DEF Payloads
    <2> QED  BY <2>1 DEF NMessages, NKinds, LineOK
<1>3. NBefore(m, <<>>) = <<0, 0>> /\ NAfter(m, <<>>) = <<0, 0>>
    BY <1>2 DEF NBefore, NAfter
<1> HIDE DEF m
<1>4. <<m>> \in Seq(NMessages) /\ Len(<<m>>) = 1 /\ <<m>> # <<>> /\ <<m>>[1] = m
    BY <1>2
<1>5. <<>> \in Plans /\ Len(<<>>) = 0
    BY BoundsAreNatural DEF Plans
<1>6. NativeShape(native) /\ ChildShape(child)
    BY <1>1, <1>4, <1>5 DEF NativeShape, ChildShape
<1>7. Kept(native, child.plan)
    BY <1>1 DEF Kept
<1>8. control \in Seq(NMessages) /\ data \in Seq(NMessages)
    BY <1>1
<1>9. NHostPos(native) = <<0, 0>> /\ NEnds(data, <<0, 0>>, child.plan) = <<0, 0>>
    BY <1>1 DEF NHostPos, NEnds
<1>10. Stream(<<0, 0>>, child, data) /\ Lines(0, <<0, 0>>, child, control)
    BY <1>1 DEF Stream, NChain, Lines
<1>11. Todo(0, <<0, 0>>, child, control)
    <2>1. child.todo = <<m>> /\ child.plan = <<>> /\ child.next = 1 /\ control = <<>>
        BY <1>1
    <2>2. NChain(<<m>>, <<0, 0>>, <<>>) /\ NEnds(<<m>>, <<0, 0>>, <<>>) = <<0, 0>>
        BY <1>3, <1>4 DEF NChain, NEnds
    <2>3. EndsWritten(child) = 0
        BY <1>2, <1>4, <2>1 DEF EndsWritten
    <2> QED  BY <1>1, <1>2, <1>4, <2>1, <2>2, <2>3 DEF Todo
<1>12. NFlow(native.expected, NHostPos(native), child, control, data)
    BY <1>1, <1>9, <1>10, <1>11 DEF NFlow
<1>13. Collected(native, child, control) /\ ~N!Returned
    BY <1>1 DEF Collected, N!Returned
<1> QED  BY <1>6, <1>7, <1>8, <1>12, <1>13 DEF NativeInv

--------------------------------------------------------------------------------
(* The run of a job. *)

\* Each runtime is left alone by what does not concern it.
LEMMA RuntimesStand ==
    ASSUME BridgeInv, NativeInv
    PROVE  /\ UNCHANGED python => BridgeInv'
           /\ UNCHANGED exec => NativeInv'
<1>1. UNCHANGED python => BridgeInv'
    BY DEF python, BridgeInv, Flow, GuestGood, HostGood, B!ParserOutputs, B!Returned, B!Alive,
           LeftRunning
<1>2. UNCHANGED exec => NativeInv'
    BY DEF exec, NativeInv, N!Returned, N!Alive
<1> QED  BY <1>1, <1>2

\* The invariant is inductive.
LEMMA RunStep ==
    ASSUME RunInv, [Next]_vars
    PROVE  RunInv'
<1>0. BridgeInv /\ NativeInv /\ JobInv
    BY DEF RunInv
<1>1. CASE Refused \/ RunFile \/ Cancel \/ UNCHANGED vars
    <2>1. UNCHANGED <<kind, python, exec>>
        BY <1>1 DEF Refused, RunFile, Cancel, vars
    <2>2. BridgeInv' /\ NativeInv'
        BY <1>0, <2>1, RuntimesStand
    <2>3. RunReturned' = RunReturned /\ Result' = Result
        BY <2>1 DEF RunReturned, Result, Python, python, exec, B!Returned, N!Returned
    <2>4. \/ UNCHANGED job
          \/ job' = [job EXCEPT !.pc = "run"] /\ job.pc = "start"
          \/ \E o \in {"cancelled", "permanent", "transient"} : job' = [pc |-> "done", outcome |-> o]
        BY <1>1 DEF Refused, RunFile, Cancel, Done, vars
    <2>5. JobInv'
        BY <1>0, <2>3, <2>4 DEF JobInv
    <2> QED  BY <2>2, <2>5 DEF RunInv
<1>2. CASE InRuntime \/ Killed
    <2>1. job.pc = "run" /\ UNCHANGED job
        BY <1>2 DEF InRuntime, Killed
    <2>2. \/ (B!GuestStep \/ B!HostStep \/ B!GuestDies) /\ UNCHANGED exec
          \/ (N!ChildStep \/ N!HostStep \/ N!ChildDies) /\ UNCHANGED python
        BY <1>2 DEF InRuntime, Killed
    <2>3. CASE (B!GuestStep \/ B!HostStep \/ B!GuestDies) /\ UNCHANGED exec
        <3>1. BridgeInv'
            BY <1>0, <2>3, GuestStepKeeps, HostStepKeeps, QuietSteps
        <3>2. NativeInv'
            BY <1>0, <2>3, RuntimesStand
        <3> QED  BY <1>0, <2>1, <3>1, <3>2 DEF RunInv, JobInv
    <2>4. CASE (N!ChildStep \/ N!HostStep \/ N!ChildDies) /\ UNCHANGED python
        <3>1. NativeInv'
            BY <1>0, <2>4, ChildStepKeeps, NHostStepKeeps, ChildEnds
        <3>2. BridgeInv'
            BY <1>0, <2>4, RuntimesStand
        <3> QED  BY <1>0, <2>1, <3>1, <3>2 DEF RunInv, JobInv
    <2> QED  BY <2>2, <2>3, <2>4
<1>3. CASE AfterRun
    <2>1. UNCHANGED <<kind, python, exec>> /\ RunReturned
        BY <1>3 DEF AfterRun
    <2>2. BridgeInv' /\ NativeInv'
        BY <1>0, <2>1, RuntimesStand
    <2>3. RunReturned' /\ Result' = Result
        BY <2>1 DEF RunReturned, Result, Python, python, exec, B!Returned, N!Returned
    <2>4. job' = [pc |-> "done", outcome |-> IF token THEN "cancelled"
                                             ELSE IF Result = "ok" THEN "outputs" ELSE Classified]
        BY <1>3 DEF AfterRun, Done
    <2>5. Classified # "outputs"
        BY DEF Classified
    <2>6. JobInv'
        BY <2>3, <2>4, <2>5 DEF JobInv
    <2> QED  BY <2>2, <2>6 DEF RunInv
<1> QED  BY <1>1, <1>2, <1>3 DEF Next

\* The invariant holds at the start.
LEMMA RunStarts ==
    ASSUME Init
    PROVE  RunInv
<1>1. B!Init /\ N!Init /\ job = [pc |-> "start", outcome |-> None]
    BY DEF Init
<1>2. JobInv
    BY <1>1, NoneIsNothing DEF JobInv
<1> QED  BY <1>1, <1>2, BridgeStarts, NativeStarts DEF RunInv

\* What is under way between a parser and its host always leads from the position of
\* the one to that of the other.
THEOREM RunInvariant == Spec => []RunInv
<1> QED  BY RunStarts, RunStep, PTL DEF Spec

\* The shim never sends a frame read_arrow_batches refuses as out of order, wherever
\* it is killed, hangs or fails, and however the socket cuts what it sends; what the
\* host does refuse is a message of more than it takes.
THEOREM FramesAgree == Spec => []ProtocolAgrees
<1>1. RunInv => ProtocolAgrees
    BY DEF RunInv, BridgeInv, ProtocolAgrees
<1> QED  BY <1>1, RunInvariant, PTL

\* No Python parser outlives execute_bridge_sync, but for one that uv started in a job
\* that was cancelled, and no native one a run_file that was cancelled.
THEOREM NoGuestRunsOn == Spec => []GuestsAreReaped
<1>1. RunInv => GuestsAreReaped
    BY DEF RunInv, BridgeInv, NativeInv, GuestsAreReaped, RunReturned, Alive, LeftRunning
<1> QED  BY <1>1, RunInvariant, PTL

Planned(t, plan) == t = [i \in DOMAIN plan |-> [b \in 1 .. plan[i] |-> <<i - 1, b>>]]

\* The first outputs of a plan are a prefix of its outputs.
LEMMA KeptIsPrefix ==
    ASSUME NEW plan \in Plans, NEW n, Kept(n, plan), NEW t, Planned(t, plan)
    PROVE  IsPrefix(n.outputs, t)
<1>1. plan \in Seq(Nat) /\ Len(plan) \in Nat /\ \A i \in 1 .. Len(plan) : plan[i] \in Nat
    BY PlanFacts
<1>2. DOMAIN plan = 1 .. Len(plan)
    BY <1>1
<1>3. PICK s \in Seq(Seq(Int \X Int)) : s = n.outputs
    BY DEF Kept
<1>4. Len(s) \in Nat /\ Len(s) <= Len(plan) /\ \A i \in 1 .. Len(s) : s[i] = B!Batches(i - 1, plan[i])
    BY <1>3 DEF Kept
<1>5. \A i \in 1 .. Len(plan) : t[i] = B!Batches(i - 1, plan[i])
    BY <1>2 DEF B!Batches, Planned
<1>6. Len(t) = Len(plan)
    BY <1>1, <1>2 DEF Planned
<1>7. \A i \in 1 .. Len(s) : t[i] = s[i]
    <2> TAKE i \in 1 .. Len(s)
    <2>1. i \in 1 .. Len(plan)
        BY <1>1, <1>4
    <2> QED  BY <1>4, <1>5, <2>1
<1>8. \A i \in 1 .. Len(s) : t[i] \in Seq(Int \X Int) /\ s[i] \in Seq(Int \X Int)
    BY <1>3, <1>7, ElementOfSeq
<1>9. PICK k \in Nat : k = Len(s)
    BY <1>4
<1>10. /\ SubSeq(s, 1, k) \in Seq(Seq(Int \X Int)) /\ Len(SubSeq(s, 1, k)) = k
       /\ \A i \in 1 .. k : SubSeq(s, 1, k)[i] = s[i]
    BY <1>8, <1>9, SubSeqProperties
<1>11. /\ SubSeq(t, 1, k) \in Seq(Seq(Int \X Int)) /\ Len(SubSeq(t, 1, k)) = k
       /\ \A i \in 1 .. k : SubSeq(t, 1, k)[i] = t[i]
    BY <1>8, <1>9, SubSeqProperties
<1>12. SubSeq(s, 1, k) = SubSeq(t, 1, k)
    <2>1. PICK a \in Seq(Seq(Int \X Int)) : a = SubSeq(s, 1, k)
        BY <1>10
    <2>2. PICK b \in Seq(Seq(Int \X Int)) : b = SubSeq(t, 1, k)
        BY <1>11
    <2>3. Len(a) = k /\ Len(b) = k /\ \A i \in 1 .. k : a[i] = b[i]
        BY <1>7, <1>9, <1>10, <1>11, <2>1, <2>2
    <2>4. a = b
        BY <2>3, SeqEqual
    <2> QED  BY <2>1, <2>2, <2>4
<1> QED  BY <1>3, <1>4, <1>6, <1>9, <1>12 DEF IsPrefix

\* A job that goes on to write has whole outputs, in order, and of a Python parser all
\* of them.
THEOREM WholeOutputs == Spec => []OutputsAreWhole
<1>1. ASSUME RunInv  PROVE OutputsAreWhole
    <2> SUFFICES ASSUME job.outcome = "outputs"
                 PROVE  IsPrefix(Outputs, Expected) /\ (Python => Outputs = Expected)
        BY DEF OutputsAreWhole
    <2>1. BridgeInv /\ NativeInv /\ Result = "ok"
        BY <1>1 DEF RunInv, JobInv
    <2>2. CASE Python
        <3>1. host.outputs = B!ParserOutputs
            BY <2>1, <2>2 DEF BridgeInv, Result
        <3>2. Outputs = host.outputs /\ Expected = B!ParserOutputs
            BY <2>2 DEF Outputs, Expected
        <3>3. Len(host.outputs) <= Len(host.outputs)
            <4>1. guest.plan \in Plans
                BY <2>1 DEF BridgeInv, GuestGood
            <4>2. guest.plan \in Seq(Nat) /\ Len(guest.plan) \in Nat
                BY <4>1, PlanFacts
            <4>3. Len(B!ParserOutputs) = Len(guest.plan)
                BY <4>2 DEF B!ParserOutputs
            <4> QED  BY <3>1, <4>2, <4>3
        <3> QED  BY <3>1, <3>2, <3>3 DEF IsPrefix
    <2>3. CASE ~Python
        <3>1. Outputs = native.outputs /\ Expected = N!ParserOutputs
            BY <2>3 DEF Outputs, Expected
        <3>2. Kept(native, child.plan) /\ child.plan \in Plans
            BY <2>1 DEF NativeInv, ChildShape
        <3>3. Planned(N!ParserOutputs, child.plan)
            BY DEF N!ParserOutputs, Planned
        <3>4. IsPrefix(native.outputs, N!ParserOutputs)
            BY <3>2, <3>3, KeptIsPrefix
        <3> QED  BY <2>3, <3>1, <3>4
    <2> QED  BY <2>2, <2>3
<1> QED  BY <1>1, RunInvariant, PTL

=============================================================================
