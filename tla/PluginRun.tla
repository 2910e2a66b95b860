----------------------------- MODULE PluginRun -----------------------------
(***************************************************************************)
(* A job's parser run: execute_job_inner of the worker picks the runtime   *)
(* the plugin asks for, runs it, and turns what comes back into the        *)
(* outcome of the job.  The Python bridge and the native runtime are       *)
(* modules of their own; they share the job's cancellation token, which    *)
(* may be set at any time.                                                 *)
(***************************************************************************)
EXTENDS Integers, Sequences, SequencesExt

CONSTANTS
    MaxOutputs,
    MaxBatches,
    SocketRoom,
    PipeRoom,
    None

ASSUME BoundsAreNatural ==
    /\ MaxOutputs \in Nat /\ MaxBatches \in Nat
    /\ SocketRoom \in Nat \ {0} /\ PipeRoom \in Nat \ {0}

VARIABLES
    kind,                               \* the runtime kind of the plugin
    job,                                \* where execute_job_inner is, and its outcome
    token,
    host, guest, socket,                \* the Python bridge
    native, child, control, data        \* the native runtime

B == INSTANCE Bridge
N == INSTANCE NativeRuntime

\* None is neither a result nor an open output.
ASSUME NoneIsNothing ==
    /\ None \notin {"ok", "outputs", "protocol", "cancelled"}
    /\ \A i \in 1 .. MaxOutputs, n \in 0 .. MaxBatches : None # B!Batches(i, n)

python == <<host, guest, socket>>
exec == <<native, child, control, data>>
vars == <<kind, job, token, python, exec>>

Python == kind = "python"

Init ==
    /\ kind \in {"python", "native"}
    /\ job = [pc |-> "start", outcome |-> None]
    /\ token = FALSE
    /\ B!Init
    /\ N!Init

Done(outcome) == job' = [pc |-> "done", outcome |-> outcome]

-----------------------------------------------------------------------------
(* An unsigned plugin is refused; an environment that is not installed, or a *)
(* process that cannot be spawned, is an error of run_file.                  *)
Refused ==
    /\ job.pc = "start"
    /\ IF token THEN Done("cancelled") ELSE \E o \in {"permanent", "transient"} : Done(o)
    /\ UNCHANGED <<kind, token, python, exec>>

RunFile ==
    /\ job.pc = "start" /\ ~token
    /\ job' = [job EXCEPT !.pc = "run"]
    /\ UNCHANGED <<kind, token, python, exec>>

InRuntime ==
    /\ job.pc = "run"
    /\ \/ Python /\ (B!GuestStep \/ B!HostStep) /\ UNCHANGED exec
       \/ ~Python /\ (N!ChildStep \/ N!HostStep) /\ UNCHANGED python
    /\ UNCHANGED <<kind, job>>

Killed ==
    /\ job.pc = "run"
    /\ \/ Python /\ B!GuestDies /\ UNCHANGED exec
       \/ ~Python /\ N!ChildDies /\ UNCHANGED python
    /\ UNCHANGED <<kind, job>>

\* The message that is classified is the outermost one of the error: for the
\* bridge that is always "Bridge execution failed", which says neither "schema"
\* nor an exit status.
Classified ==
    IF ~Python /\ native.error = "schema" THEN "permanent" ELSE "transient"

RunReturned == IF Python THEN B!Returned ELSE N!Returned

Result == IF Python THEN host.result ELSE native.result

\* The token is looked at again, whatever came back.
AfterRun ==
    /\ job.pc = "run" /\ RunReturned
    /\ Done(IF token THEN "cancelled" ELSE IF Result = "ok" THEN "outputs" ELSE Classified)
    /\ UNCHANGED <<kind, token, python, exec>>

\* The worker is told to abort the job.
Cancel ==
    /\ ~token /\ job.pc # "done"
    /\ token' = TRUE
    /\ UNCHANGED <<kind, job, python, exec>>

Next == Refused \/ RunFile \/ InRuntime \/ Killed \/ AfterRun \/ Cancel

Spec == Init /\ [][Next]_vars

-----------------------------------------------------------------------------
(* A parser that neither hangs nor waits for somebody else comes to its end; *)
(* the loops of the host go round.  Nobody has to cancel the job or kill a   *)
(* process.                                                                  *)
InPython(A) == job.pc = "run" /\ Python /\ A /\ UNCHANGED <<kind, job, exec>>
InNative(A) == job.pc = "run" /\ ~Python /\ A /\ UNCHANGED <<kind, job, python>>

Fairness ==
    /\ WF_vars(Refused \/ RunFile)
    /\ WF_vars(AfterRun)
    /\ WF_vars(InPython(B!HostStep))
    /\ WF_vars(InPython(B!SendAll))
    /\ WF_vars(InPython(B!connect \/ B!RawWritten \/ B!PublishNext
                        \/ B!execute_plugin_returns \/ B!close \/ B!Exit))
    /\ SF_vars(InPython(B!ParseReturns))
    /\ WF_vars(InNative(N!HostStep))
    /\ WF_vars(InNative(N!ChildOutput \/ N!WriteLine \/ N!WritePiece \/ N!ChildExits))
    /\ SF_vars(InNative(N!ChildParses))

FairSpec == Spec /\ Fairness

-----------------------------------------------------------------------------
\* Types, of the job and of the runtime modules it is composed of.
TypeOK ==
    /\ kind \in {"python", "native"}
    /\ job.pc \in {"start", "run", "done"}
    /\ job.outcome \in {None, "cancelled", "permanent", "transient", "outputs"}
    /\ B!TypeOK
    /\ N!TypeOK

Outputs == IF Python THEN host.outputs ELSE native.outputs

Alive == IF Python THEN B!Alive ELSE N!Alive

Expected == IF Python THEN B!ParserOutputs ELSE N!ParserOutputs

\* A job that goes on to write its outputs has, of a Python parser, all the
\* batches of all the outputs it returned, in order, and of a native one whole
\* outputs only, in order (its protocol has no last frame, so one that leaves
\* early with status 0 passes): neither a truncated Arrow stream, nor an output
\* the bridge closed by itself at the end of the socket, nor a guest that is
\* killed on the way passes for a run.
OutputsAreWhole ==
    job.outcome = "outputs" =>
        /\ IsPrefix(Outputs, Expected)
        /\ Python => Outputs = Expected

\* The shim frames its outputs the way read_arrow_batches takes them apart: no
\* run of it, however it is cut off, is refused for the order of its messages, for
\* a body that is not its header's or for an index.  The host refuses only what is
\* too large.
ProtocolAgrees == host.error # "protocol"

\* When run_file is back no Python parser runs on, whatever went wrong, unless uv
\* started it and the job was cancelled; and no native one that ended because the
\* job was cancelled: its process cannot write beside the next job's.  Under uv the
\* subprocess an abort kills (ARCHITECTURE.md:93) is the wrapper.
GuestsAreReaped ==
    RunReturned =>
        \/ ~Alive
        \/ IF Python THEN guest.uv = "killed" /\ host.error = "cancelled"
           ELSE native.error # "cancelled"

Stuck == IF Python THEN B!Stuck ELSE N!Stuck

\* Every job gets an outcome, unless its parser hangs, or waits for ever for a
\* pipe or a socket that nobody reads.
RunEnds == <>[](job.pc = "done" \/ Stuck)
=============================================================================
