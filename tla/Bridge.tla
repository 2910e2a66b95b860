------------------------------- MODULE Bridge -------------------------------
(***************************************************************************)
(* One run of a Python parser: execute_bridge_sync of the worker (the      *)
(* host, casparian_worker/src/bridge.rs) and the process it spawns (the    *)
(* guest, shim/bridge_shim.py), which talk over a socket.  Every message   *)
(* but the last is a header and a body that are sent by calls of their own *)
(* and read by reads of their own; the socket and the two pipes of the     *)
(* guest's standard streams hold only so much, and a writer that finds     *)
(* them full waits.  The host reads the standard error of the guest only   *)
(* when it is done with the socket, and its standard output never.         *)
(*                                                                         *)
(* A parser may print, fail, hang, or take its process down; the system    *)
(* may kill it.  Timeouts are a step the host may always take when what it *)
(* waits for is not there.  All output of a parser comes from one thread.  *)
(*                                                                         *)
(* Where uv is installed the process the host spawns, waits for and kills  *)
(* is "uv run", and the interpreter is a child of it, which outlives a     *)
(* SIGKILL of its parent.  How large a message is, is settled when the     *)
(* host reads its length: the shim limits the rows of a batch, not its     *)
(* bytes, and an error not at all.                                         *)
(***************************************************************************)
EXTENDS Integers, Sequences, SequencesExt

CONSTANTS
    MaxOutputs,     \* bound: outputs of a parser
    MaxBatches,     \* bound: record batches of an output
    SocketRoom,     \* headers and bodies the socket holds
    PipeRoom,       \* writes a pipe of the guest holds
    None

VARIABLES
    host,           \* where execute_bridge_sync is and what it has read
    guest,          \* where the shim is and what it still has to send
    socket,         \* sent and not yet read
    token           \* the cancellation token of the job

vars == <<host, guest, socket, token>>

Alive == guest.pc # "dead"

\* Nothing more will come: the shim closed its end, or is gone.
Closed == guest.closed \/ ~Alive

Init ==
    /\ host = [pc |-> "spawned", frame |-> None, outputs |-> <<>>, current |-> None,
               index |-> 0, metrics |-> FALSE, error |-> None, result |-> None]
    /\ \E uv \in {"none", "runs"} :
          guest = [pc |-> "starting", connected |-> FALSE, closed |-> FALSE, out |-> <<>>,
                   plan |-> <<>>, next |-> 1, at |-> 0, exit |-> 0, pipe |-> None,
                   written |-> [p \in {"stdout", "stderr"} |-> 0], uv |-> uv]
    /\ socket = <<>>

-----------------------------------------------------------------------------
(* The guest *)

Frame(kind, what) == <<[kind |-> kind, what |-> what, part |-> "head"],
                       [kind |-> kind, what |-> what, part |-> "body"]>>

EndOfStream == [kind |-> "eos", what |-> 0, part |-> "head"]

\* What the batches of an output are, as the host should see them.
Batches(i, n) == [b \in 1 .. n |-> <<i, b>>]

\* Mutant: the end carries the index of the next output.
next_index_at_end(i, n, at) ==
    IF at = 0 THEN Frame("start", i)
    ELSE IF at <= n THEN Frame("batch", <<i, at>>) ELSE Frame("end", i + 1)

\* What publish sends of output i with n batches after at frames of it.
publish(i, n, at) ==
    IF at = 0 THEN Frame("start", i)
    ELSE IF at <= n THEN Frame("batch", <<i, at>>) ELSE Frame("end", i)

\* The shim goes to pc, leaving the host alone.
Guest(pc) == guest' = [guest EXCEPT !.pc = pc] /\ UNCHANGED <<host, socket, token>>

\* main() connects, or finds its configuration wanting and exits.
connect ==
    /\ guest.pc = "starting"
    /\ \/ guest' = [guest EXCEPT !.pc = "plugin", !.connected = TRUE]
       \/ guest' = [guest EXCEPT !.pc = "dead", !.exit = 1]
    /\ UNCHANGED <<host, socket, token>>

\* print() and logging of the parser go through the socket: a log is the parser's
\* (0), the summary of a success (1), or the report of a failure (2) ...
send_log ==
    /\ guest.pc = "plugin" /\ guest.out = <<>>
    /\ guest' = [guest EXCEPT !.out = Frame("log", 0), !.pc = "logging"]
    /\ UNCHANGED <<host, socket, token>>

\* ... and what bypasses sys.stdout and sys.stderr goes to the pipes.
RawWrite(p) ==
    /\ guest.pc = "plugin" /\ guest.out = <<>>
    /\ guest' = [guest EXCEPT !.pc = "writing", !.pipe = p]
    /\ UNCHANGED <<host, socket, token>>

\* collect_stderr empties one of the pipes, while it lasts.
Room(p) == guest.written[p] < PipeRoom \/ (p = "stderr" /\ host.pc = "stderr")

RawWritten ==
    /\ guest.pc = "writing"
    /\ Room(guest.pipe)
    /\ guest' = [guest EXCEPT !.pc = "plugin", !.pipe = None,
                              !.written[guest.pipe] = IF @ < PipeRoom THEN @ + 1 ELSE @]
    /\ UNCHANGED <<host, socket, token>>

\* parse() returns its outputs.
ParseReturns ==
    /\ guest.pc = "plugin" /\ guest.out = <<>>
    /\ \E k \in 0 .. MaxOutputs : \E plan \in [1 .. k -> 1 .. MaxBatches] :
          guest' = [guest EXCEPT !.pc = "publish", !.plan = plan]
    /\ UNCHANGED <<host, socket, token>>

ParseHangs == guest.pc = "plugin" /\ guest.out = <<>> /\ Guest("hung")

\* parse() or the conversion of an output raises: a log, the error, the end.
Raise(code) ==
    /\ guest.pc \in {"plugin", "publish"} /\ guest.out = <<>>
    /\ guest' = [guest EXCEPT !.pc = "closing", !.exit = code,
                              !.out = Frame("log", 2) \o Frame("error", code) \o <<EndOfStream>>]
    /\ UNCHANGED <<host, socket, token>>

\* The rest of a message the host refused for its size is more than the socket holds.
TooLarge == host.error = "size" /\ Head(guest.out).part = "body"

\* One sendall.
SendAll ==
    /\ Alive /\ guest.out # <<>>
    /\ ~TooLarge
    /\ Len(socket) < SocketRoom
    /\ socket' = Append(socket, Head(guest.out))
    /\ guest' = [guest EXCEPT !.out = Tail(@),
                              !.pc = IF @ = "logging" /\ Len(guest.out) = 1 THEN "plugin" ELSE @]
    /\ UNCHANGED <<host, token>>

PublishNext ==
    /\ guest.pc = "publish" /\ guest.out = <<>>
    /\ guest.next <= Len(guest.plan)
    /\ LET n == guest.plan[guest.next]
           ends == guest.at > n
       IN  guest' = [guest EXCEPT !.out = publish(guest.next, n, guest.at),
                                  !.next = IF ends THEN @ + 1 ELSE @,
                                  !.at = IF ends THEN 0 ELSE @ + 1]
    /\ UNCHANGED <<host, socket, token>>

\* Everything is published: metrics (skipped when too large) and close().
execute_plugin_returns ==
    /\ guest.pc = "publish" /\ guest.out = <<>>
    /\ guest.next > Len(guest.plan)
    /\ \E m \in {<<>>, Frame("metrics", 0)} :
          guest' = [guest EXCEPT !.pc = "closing",
                                 !.out = Frame("log", 1) \o m \o <<EndOfStream>>]
    /\ UNCHANGED <<host, socket, token>>

close ==
    /\ guest.pc = "closing" /\ guest.out = <<>>
    /\ guest' = [guest EXCEPT !.pc = "printing", !.closed = TRUE]
    /\ UNCHANGED <<host, socket, token>>

\* print(json.dumps(metrics)) and sys.exit.
Exit ==
    /\ guest.pc = "printing"
    /\ guest.written["stdout"] < PipeRoom
    /\ Guest("dead")

\* The parser calls os._exit(0), or the process is killed by a signal.
Dies(code) ==
    /\ guest.pc \notin {"starting", "dead"}
    /\ guest' = [guest EXCEPT !.pc = "dead", !.exit = code]
    /\ UNCHANGED <<host, socket, token>>

GuestStep ==
    \/ connect \/ send_log \/ RawWritten \/ ParseReturns \/ ParseHangs
    \/ SendAll \/ PublishNext \/ execute_plugin_returns \/ close \/ Exit
    \/ \E p \in {"stdout", "stderr"} : RawWrite(p)
    \/ \E code \in {1, 2} : Raise(code)

-----------------------------------------------------------------------------
(* The host *)

\* kill and wait reach the process the host spawned.
cleanup_process ==
    IF guest.uv = "none" THEN [guest EXCEPT !.pc = "dead", !.exit = IF Alive THEN 9 ELSE @]
    ELSE [guest EXCEPT !.uv = "killed"]

\* try_wait has the status of the spawned process: of uv, once it or the guest is gone.
Exited == ~Alive \/ guest.uv = "killed"

Success == guest.exit = 0 /\ guest.uv # "killed"

\* An error while there may still be a guest: its standard error is read first.
Bail(why) ==
    /\ host' = [host EXCEPT !.pc = "stderr", !.error = why]

Return(result, why) ==
    host' = [host EXCEPT !.pc = "returned", !.result = result, !.error = why]

\* The token is read once before the listener is polled.
spawn_guest ==
    /\ host.pc = "spawned"
    /\ IF token THEN guest' = cleanup_process /\ Return("err", "cancelled")
       ELSE host' = [host EXCEPT !.pc = "accept"] /\ UNCHANGED guest
    /\ UNCHANGED <<socket, token>>

accept ==
    /\ host.pc = "accept"
    /\ guest.connected
    /\ host' = [host EXCEPT !.pc = "header"]
    /\ UNCHANGED <<guest, socket, token>>

accept_fails ==
    /\ host.pc = "accept"
    /\ \/ token /\ guest' = cleanup_process /\ Bail("cancelled")
       \/ ~token /\ Bail("timeout") /\ UNCHANGED guest
       \/ Exited /\ ~guest.connected /\ Bail("exited") /\ UNCHANGED guest
    /\ UNCHANGED <<socket, token>>

\* The output that is open at the end of the stream is closed with a warning.
StreamEnds == [host EXCEPT !.pc = "wait", !.current = None, !.index = 0,
                           !.outputs = IF host.current = None THEN @
                                       ELSE Append(@, host.current)]

read_header ==
    /\ host.pc = "header"
    /\ socket # <<>>
    /\ host' = IF Head(socket).kind = "eos" THEN StreamEnds
               ELSE [host EXCEPT !.pc = "body", !.frame = Head(socket)]
    /\ socket' = Tail(socket)
    /\ UNCHANGED <<guest, token>>

read_eof ==
    /\ host.pc = "header"
    /\ socket = <<>> /\ Closed
    /\ host' = StreamEnds
    /\ UNCHANGED <<guest, socket, token>>

read_fails ==
    /\ host.pc = "header"
    /\ \/ token /\ Bail("cancelled")
       \/ socket = <<>> /\ ~Closed /\ Bail("timeout")
    /\ UNCHANGED <<guest, socket, token>>

end_output(h) ==
    [h EXCEPT !.pc = "header", !.frame = None, !.outputs = Append(@, h.current),
              !.current = None, !.index = 0]

\* What a whole message does; a body that does not belong to its header, an
\* output that is already open or is not, and a wrong index are refused.
Handled(h, body) ==
    LET next == [h EXCEPT !.pc = "header", !.frame = None]
        bad == [h EXCEPT !.pc = "stderr", !.error = "protocol"]
        kind == h.frame.kind
    IN  IF [h.frame EXCEPT !.part = "body"] # body THEN bad
        ELSE IF kind = "log" THEN next
        ELSE IF kind = "metrics" THEN [next EXCEPT !.metrics = TRUE]
        ELSE IF kind = "error" THEN [h EXCEPT !.pc = "stderr", !.error = "guest"]
        ELSE IF kind = "start"
        THEN IF h.current # None THEN bad
             ELSE [next EXCEPT !.current = <<>>, !.index = body.what]
        ELSE IF kind = "end"
        THEN IF h.current = None \/ h.index # body.what THEN bad ELSE end_output(h)
        ELSE IF h.current = None THEN [next EXCEPT !.outputs = Append(@, <<body.what>>)]
        ELSE [next EXCEPT !.current = Append(@, body.what)]

read_body ==
    /\ host.pc = "body"
    /\ socket # <<>>
    /\ host' = Handled(host, Head(socket))
    /\ socket' = Tail(socket)
    /\ UNCHANGED <<guest, token>>

\* A batch of more than MAX_BATCH_SIZE is refused by its header, an error of more than
\* MAX_ERROR_MESSAGE_SIZE by the length before it.  Nothing of the batch is in the
\* socket yet but a part of the body; an error may have been sent or not.
refuse_size ==
    /\ \/ host.pc = "header" /\ Len(socket) = 1 /\ Head(socket).kind = "batch"
       \/ host.pc = "body" /\ host.frame.kind = "error"
    /\ Bail("size")
    /\ socket' = IF socket = <<>> THEN socket ELSE Tail(socket)
    /\ UNCHANGED <<guest, token>>

\* read_exact gives up after the interval of the cancellation poll.
body_stalls ==
    /\ host.pc = "body"
    /\ socket = <<>>
    /\ Bail("read")
    /\ UNCHANGED <<guest, socket, token>>

\* read_to_string returns when nobody has the other end of the pipe open.
collect_stderr ==
    /\ host.pc = "stderr"
    /\ ~Alive
    /\ guest' = cleanup_process
    /\ Return("err", host.error)
    /\ UNCHANGED <<socket, token>>

\* Mutant: only a success ends the wait.
wait_for_success ==
    /\ host.pc = "wait"
    /\ Exited /\ Success
    /\ IF ~host.metrics THEN Return("err", "metrics") ELSE Return("ok", None)
    /\ UNCHANGED <<guest, socket, token>>

\* Mutant: a run without metrics passes.
wait_without_metrics ==
    /\ host.pc = "wait"
    /\ Exited
    /\ IF ~Success THEN Bail("status") ELSE Return("ok", None)
    /\ UNCHANGED <<guest, socket, token>>

\* The standard error is read once more; after a success nobody holds it open.
wait_for_exit ==
    /\ host.pc = "wait"
    /\ Exited
    /\ IF ~Success THEN Bail("status")
       ELSE IF ~host.metrics THEN Return("err", "metrics")
       ELSE Return("ok", None)
    /\ UNCHANGED <<guest, socket, token>>

\* Mutant: the guest is left running.
cancel_wait_only ==
    /\ host.pc = "wait"
    /\ token
    /\ Return("err", "cancelled")
    /\ UNCHANGED <<guest, socket, token>>

wait_cancelled ==
    /\ host.pc = "wait"
    /\ token
    /\ guest' = cleanup_process
    /\ Return("err", "cancelled")
    /\ UNCHANGED <<socket, token>>

HostStep ==
    \/ spawn_guest \/ accept \/ accept_fails
    \/ read_header \/ read_eof \/ read_fails \/ read_body \/ refuse_size \/ body_stalls
    \/ collect_stderr \/ wait_for_exit \/ wait_cancelled

-----------------------------------------------------------------------------
\* The system kills uv.
WrapperDies ==
    /\ guest.uv = "runs" /\ Alive
    /\ guest' = [guest EXCEPT !.uv = "killed"]
    /\ UNCHANGED <<host, socket, token>>

GuestDies == Dies(0) \/ Dies(9) \/ WrapperDies

Next == GuestStep \/ GuestDies \/ HostStep

Returned == host.pc = "returned"

\* The guest cannot go on unless it is killed: the parser hangs, writes to a
\* pipe nobody empties, or to a socket the host no longer reads: one that is full, or
\* that the rest of a message too large does not fit.
Stuck ==
    \/ guest.pc = "hung"
    \/ guest.pc = "writing" /\ ~Room(guest.pipe)
    \/ guest.pc = "printing" /\ guest.written["stdout"] = PipeRoom
    \/ Alive /\ guest.out # <<>> /\ host.pc = "stderr" /\ (Len(socket) = SocketRoom \/ TooLarge)

\* The batches of every output the parser returned, in order.
ParserOutputs == [i \in DOMAIN guest.plan |-> Batches(i, guest.plan[i])]

TypeOK ==
    /\ host.pc \in {"spawned", "accept", "header", "body", "stderr", "wait", "returned"}
    /\ host.current = None <=> host.index = 0
    /\ Len(host.outputs) <= MaxOutputs
    /\ host.result = "ok" => host.current = None
    /\ guest.pc \in {"starting", "plugin", "logging", "writing", "publish", "hung",
                     "closing", "printing", "dead"}
    /\ guest.uv \in {"none", "runs", "killed"}
    /\ Len(socket) <= SocketRoom
    /\ token \in BOOLEAN
=============================================================================
