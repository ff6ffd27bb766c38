---------------------------- MODULE AgentRuntime ----------------------------
(***************************************************************************)
(* One agent call per thread: a child process gets a request on its input, *)
(* writes a response to a temporary file and exits, while the parent waits *)
(* for the exit or the deadline and a monitor thread kills a child whose   *)
(* output grows beyond the limit.  A response is captured, with the        *)
(* request it answers, before its caller sees it; a resumed run answers    *)
(* the call from the capture without a child.                              *)
(*                                                                         *)
(* The child is external: it may hang, write too much, die or answer       *)
(* something else than was asked.  The two output files are one here, as   *)
(* each has the same limit.  That the monitor is joined before the sizes   *)
(* are read takes one of its intervals and is part of the step that judges *)
(* the call.                                                               *)
(***************************************************************************)
EXTENDS Naturals, Sequences

CONSTANTS
    Thread,             \* threads that call agents
    Answers(_, _)       \* what an agent may answer to a call and its request

VARIABLES
    call,       \* the call each thread makes
    captures    \* the transcripts: the request and the response of a call id

callVars == <<call, captures>>

Stages == {"off", "running", "aborting", "capture", "answered", "failed"}

\* Of a call that is replayed, nothing started; killed or not exited with 0
Children == {"none", "up", "ok", "failed"}

\* What the child has written: not (yet) a response to this request, a response,
\* or more than the limit
Outputs == {"part", "whole", "over"}

NoCall == [stage |-> "off", id |-> <<>>, request |-> <<>>, child |-> "none", output |-> "part",
           answer |-> <<>>]

Becomes(t, c) == call' = [call EXCEPT ![t] = c]

Goes(t, stage) == Becomes(t, [call[t] EXCEPT !.stage = stage])

\* Killing a child that has exited changes nothing
Killed(child) == IF child = "up" THEN "failed" ELSE child

-----------------------------------------------------------------------------
\* The start of a call

\* Variant: a capture answers whatever is asked under its id
ReplayAny(t, id, request) ==
    /\ Becomes(t, [NoCall EXCEPT !.stage = "answered", !.id = id, !.request = request,
                                 !.answer = captures[id].response])
    /\ UNCHANGED captures

\* replay_response: only for the exact recorded request
Replay(t, id, request) ==
    /\ Becomes(t, [NoCall EXCEPT !.id = id, !.request = request,
                     !.stage = IF captures[id].request = request THEN "answered" ELSE "failed",
                     !.answer = IF captures[id].request = request THEN captures[id].response ELSE <<>>])
    /\ UNCHANGED captures

\* The process is started, or cannot be
Spawn(t, id, request) ==
    /\ \E s \in {[stage |-> "running", child |-> "up"], [stage |-> "failed", child |-> "none"]} :
          Becomes(t, [NoCall EXCEPT !.stage = s.stage, !.child = s.child,
                                    !.id = id, !.request = request])
    /\ UNCHANGED captures

\* AgentRuntime.invoke
Invoke(t, resume, id, request) ==
    /\ call[t].stage = "off"
    /\ IF resume /\ id \in DOMAIN captures THEN Replay(t, id, request) ELSE Spawn(t, id, request)

-----------------------------------------------------------------------------
\* The child

Writes(t) ==
    /\ call[t].child = "up"
    /\ \/ /\ call[t].output = "part"
          /\ \E r \in Answers(call[t].id, call[t].request) :
                Becomes(t, [call[t] EXCEPT !.output = "whole", !.answer = r])
       \/ call[t].output # "over" /\ Becomes(t, [call[t] EXCEPT !.output = "over", !.answer = <<>>])
    /\ UNCHANGED captures

Exits(t) ==
    /\ call[t].child = "up"
    /\ \E code \in {"ok", "failed"} : Becomes(t, [call[t] EXCEPT !.child = code])
    /\ UNCHANGED captures

-----------------------------------------------------------------------------
\* The monitor and the parent

\* _monitor_output_sizes
KillOversized(t) ==
    /\ call[t].stage = "running" /\ call[t].output = "over" /\ call[t].child = "up"
    /\ Becomes(t, [call[t] EXCEPT !.child = Killed(@)])
    /\ UNCHANGED captures

\* Variant: the child is not killed at the deadline
TimesOutOnly(t) ==
    /\ call[t].stage = "running"
    /\ Goes(t, "aborting")
    /\ UNCHANGED captures

\* communicate meets the deadline, also of a child that has just exited, or fails
\* with an OSError: _finish_aborted_process kills the child and waits for it
TimesOut(t) ==
    /\ call[t].stage = "running"
    /\ Becomes(t, [call[t] EXCEPT !.stage = "aborting", !.child = Killed(@)])
    /\ UNCHANGED captures

Aborted(t) ==
    /\ call[t].stage = "aborting" /\ call[t].child # "up"
    /\ Goes(t, "failed")
    /\ UNCHANGED captures

\* The child has exited before the deadline: its sizes, exit status and output decide
Ends(t) ==
    /\ call[t].stage = "running" /\ call[t].child # "up"
    /\ Goes(t, IF call[t].child = "ok" /\ call[t].output = "whole" THEN "capture" ELSE "failed")
    /\ UNCHANGED captures

Transcript(t) == [request |-> call[t].request, response |-> call[t].answer]

\* The transcripts with that of the call
Transcribed(t) ==
    [id \in DOMAIN captures \cup {call[t].id} |->
        IF id = call[t].id THEN Transcript(t) ELSE captures[id]]

\* write_transcript
Capture(t) ==
    /\ call[t].stage = "capture"
    /\ captures' = Transcribed(t)
    /\ Goes(t, "answered")

\* It fails before the file is replaced, or when the directory is synced
CaptureFails(t) ==
    /\ call[t].stage = "capture"
    /\ captures' \in {captures, Transcribed(t)}
    /\ Goes(t, "failed")

Child(t) == Writes(t) \/ Exits(t)

\* What the parent of a call does without its child
Parent(t) == TimesOut(t) \/ Aborted(t) \/ Ends(t) \/ Capture(t) \/ CaptureFails(t)

=============================================================================
