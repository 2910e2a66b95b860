--------------------------- MODULE NativeRuntime ---------------------------
(***************************************************************************)
(* One run of a native parser: NativeSubprocessRuntime::run_file of the    *)
(* worker (casparian_worker/src/native_runtime.rs) and the process it      *)
(* spawns.  Control frames come over the standard error, a line each; a    *)
(* thread moves them to a channel without bound, so the child never waits  *)
(* there.  The Arrow streams come over the standard output, a pipe that    *)
(* holds only so much, and the host reads it only between output_begin and *)
(* output_end.  The parser is any program that speaks the protocol; it may *)
(* fail, hang, have the wrong schema or be killed at any point.            *)
(***************************************************************************)
EXTENDS Integers, Sequences, SequencesExt

CONSTANTS
    MaxOutputs,     \* bound: outputs of a parser
    MaxBatches,     \* bound: record batches of an output
    PipeRoom,       \* pieces of a stream the pipe holds
    None

VARIABLES
    native,         \* where run_file is and what it has read
    child,          \* what the parser still has to write
    control,        \* the channel of control frames
    data,           \* the pipe of the standard output
    token           \* the cancellation token of the job

vars == <<native, child, control, data, token>>

Alive == child.pc # "dead"

Init ==
    /\ native = [pc |-> "hello", output |-> None, batches |-> <<>>, outputs |-> <<>>,
                 expected |-> 0, error |-> None, result |-> None]
    /\ child = [pc |-> "parsing", todo |-> <<[to |-> "stderr", kind |-> "hello", what |-> 0]>>,
                plan |-> <<>>, next |-> 1, exit |-> 0]
    /\ control = <<>>
    /\ data = <<>>

-----------------------------------------------------------------------------
(* The child *)

Line(kind, what) == [to |-> "stderr", kind |-> kind, what |-> what]

Piece(kind, what) == [to |-> "stdout", kind |-> kind, what |-> what]

\* output_begin, the Arrow stream, output_end: indices count from 0.
Output(i, n, begin) ==
    <<Line(begin, i), Piece("schema", i)>>
        \o [b \in 1 .. n |-> Piece("batch", <<i, b>>)]
        \o <<Piece("eos", i), Line("end", i)>>

\* The parser has its outputs, and writes one after the other; "other" is an output
\* of another schema.
ChildParses ==
    /\ child.pc = "parsing" /\ child.todo = <<>>
    /\ \E k \in 0 .. MaxOutputs : \E plan \in [1 .. k -> 1 .. MaxBatches] :
          child' = [child EXCEPT !.pc = "writing", !.plan = plan]
    /\ UNCHANGED <<native, control, data, token>>

ChildOutput ==
    /\ child.pc = "writing" /\ child.todo = <<>> /\ child.exit = 0
    /\ child.next <= Len(child.plan)
    /\ \E begin \in {"begin", "other"} :
          child' = [child EXCEPT !.todo = Output(child.next - 1, child.plan[child.next], begin),
                                 !.next = @ + 1]
    /\ UNCHANGED <<native, control, data, token>>

\* A warning, or a frame of a type the host does not know.
ChildWarns ==
    /\ child.pc = "parsing" /\ child.todo = <<>>
    /\ Len(control) = 0
    /\ child' = [child EXCEPT !.todo = <<Line("warning", 0)>>]
    /\ UNCHANGED <<native, control, data, token>>

\* An error frame, or a line that is no control frame; then the parser exits.
ChildErrs ==
    /\ child.pc \in {"parsing", "writing"} /\ child.exit = 0
    /\ child' = [child EXCEPT !.pc = "writing", !.exit = 1, !.todo = <<Line("error", 0)>>]
    /\ UNCHANGED <<native, control, data, token>>

ChildHangs ==
    /\ child.pc \in {"parsing", "writing"}
    /\ child' = [child EXCEPT !.pc = "hung", !.todo = <<>>]
    /\ UNCHANGED <<native, control, data, token>>

\* spawn_stderr_reader hands the line on before the child can wait for it.
WriteLine ==
    /\ Alive /\ child.todo # <<>>
    /\ Head(child.todo).to = "stderr"
    /\ control' = Append(control, Head(child.todo))
    /\ child' = [child EXCEPT !.todo = Tail(@)]
    /\ UNCHANGED <<native, data, token>>

WritePiece ==
    /\ Alive /\ child.todo # <<>>
    /\ Head(child.todo).to = "stdout"
    /\ native.pc # "returned"
    /\ Len(data) < PipeRoom
    /\ data' = Append(data, Head(child.todo))
    /\ child' = [child EXCEPT !.todo = Tail(@)]
    /\ UNCHANGED <<native, control, token>>

\* run_file has returned and closed the pipe.
BrokenPipe ==
    /\ Alive /\ child.todo # <<>>
    /\ Head(child.todo).to = "stdout"
    /\ native.pc = "returned"
    /\ child' = [child EXCEPT !.pc = "dead", !.exit = 13]
    /\ UNCHANGED <<native, control, data, token>>

ChildExits ==
    /\ child.pc = "writing" /\ child.todo = <<>>
    /\ child.exit = 0 => child.next > Len(child.plan)
    /\ child' = [child EXCEPT !.pc = "dead"]
    /\ UNCHANGED <<native, control, data, token>>

ChildDies ==
    /\ Alive
    /\ \E code \in {0, 9} : child' = [child EXCEPT !.pc = "dead", !.exit = code]
    /\ UNCHANGED <<native, control, data, token>>

ChildStep ==
    \/ ChildParses \/ ChildOutput \/ ChildWarns \/ ChildErrs \/ ChildHangs
    \/ WriteLine \/ WritePiece \/ BrokenPipe \/ ChildExits

-----------------------------------------------------------------------------
(* The host *)

Return(n, result, why) == [n EXCEPT !.pc = "returned", !.result = result, !.error = why]

\* The channel is empty and will stay so: the reader thread saw the end.
Disconnected == control = <<>> /\ ~Alive

recv_hello ==
    /\ native.pc = "hello"
    /\ control # <<>>
    /\ native' = IF Head(control).kind = "hello" THEN [native EXCEPT !.pc = "frame"]
                 ELSE Return(native, "err", "protocol")
    /\ control' = Tail(control)
    /\ UNCHANGED <<child, data, token>>

\* HELLO_TIMEOUT, or the child is gone: the child is not killed.
hello_fails ==
    /\ native.pc = "hello"
    /\ control = <<>>
    /\ native' = Return(native, "err", "hello")
    /\ UNCHANGED <<child, control, data, token>>

output_begin(n, f) ==
    IF f.what # n.expected THEN Return(n, "err", "protocol")
    ELSE IF f.kind = "other" THEN Return(n, "err", "schema")
    ELSE [n EXCEPT !.pc = "schema", !.output = f.what, !.batches = <<>>]

recv_frame ==
    /\ native.pc = "frame"
    /\ control # <<>>
    /\ LET f == Head(control)
       IN  native' = CASE f.kind \in {"begin", "other"} -> output_begin(native, f)
                       [] f.kind = "warning" -> native
                       [] f.kind = "error" -> Return(native, "err", "plugin")
                       [] OTHER -> Return(native, "err", "protocol")
    /\ control' = Tail(control)
    /\ UNCHANGED <<child, data, token>>

recv_disconnected ==
    /\ native.pc = "frame"
    /\ Disconnected
    /\ native' = [native EXCEPT !.pc = "exit"]
    /\ UNCHANGED <<child, control, data, token>>

kill == [child EXCEPT !.pc = "dead", !.exit = IF Alive THEN 9 ELSE @]

\* The two loops look at the token; the reads below do not.
run_cancelled ==
    /\ native.pc \in {"frame", "exit"}
    /\ token
    /\ native' = Return(native, "err", "cancelled")
    /\ child' = kill
    /\ UNCHANGED <<control, data, token>>

\* read_arrow_stream, a message at a time; it blocks while there is none.
read_schema ==
    /\ native.pc = "schema"
    /\ data # <<>>
    /\ native' = IF Head(data).kind = "schema" THEN [native EXCEPT !.pc = "stream"]
                 ELSE Return(native, "err", "stream")
    /\ data' = Tail(data)
    /\ UNCHANGED <<child, control, token>>

read_batch ==
    /\ native.pc = "stream"
    /\ data # <<>>
    /\ native' = IF Head(data).kind = "eos" THEN [native EXCEPT !.pc = "end"]
                 ELSE [native EXCEPT !.batches = Append(@, Head(data).what)]
    /\ data' = Tail(data)
    /\ UNCHANGED <<child, control, token>>

\* The pipe ended: between two messages the reader takes it for the end of the
\* stream, within one (or before the schema) it is an error.
read_truncated ==
    /\ native.pc \in {"schema", "stream"}
    /\ data = <<>> /\ ~Alive
    /\ \/ native.pc = "stream" /\ native' = [native EXCEPT !.pc = "end"]
       \/ native' = Return(native, "err", "stream")
    /\ UNCHANGED <<child, control, data, token>>

push(n) ==
    [n EXCEPT !.pc = "frame", !.output = None, !.batches = <<>>,
              !.outputs = Append(@, n.batches), !.expected = @ + 1]

output_end(n) ==
    IF control = <<>> THEN Return(n, "err", "no_end")
    ELSE LET f == Head(control)
         IN  CASE f.kind = "warning" -> n
               [] f.kind = "end" /\ f.what = n.output -> push(n)
               [] f.kind = "error" -> Return(n, "err", "plugin")
               [] OTHER -> Return(n, "err", "protocol")

recv_end ==
    /\ native.pc = "end"
    /\ control # <<>> \/ Disconnected
    /\ native' = output_end(native)
    /\ control' = IF control = <<>> THEN <<>> ELSE Tail(control)
    /\ UNCHANGED <<child, data, token>>

try_wait ==
    /\ native.pc = "exit"
    /\ ~Alive
    /\ native' = IF child.exit = 0 THEN Return(native, "ok", None)
                 ELSE Return(native, "err", "status")
    /\ UNCHANGED <<child, control, data, token>>

HostStep ==
    \/ recv_hello \/ hello_fails \/ recv_frame \/ recv_disconnected \/ run_cancelled
    \/ read_schema \/ read_batch \/ read_truncated \/ recv_end \/ try_wait

-----------------------------------------------------------------------------
Returned == native.pc = "returned"

\* The child will not go on; the pipe is emptied while a stream is read.
Stuck == child.pc = "hung"

\* The batches of every output, in order.
ParserOutputs ==
    [i \in DOMAIN child.plan |-> [b \in 1 .. child.plan[i] |-> <<i - 1, b>>]]

TypeOK ==
    /\ native.pc \in {"hello", "frame", "schema", "stream", "end", "exit", "returned"}
    /\ native.expected = Len(native.outputs)
    /\ native.expected <= MaxOutputs
    /\ native.result = "ok" => native.output = None
    /\ child.pc \in {"parsing", "writing", "hung", "dead"}
    /\ Len(data) <= PipeRoom
=============================================================================
