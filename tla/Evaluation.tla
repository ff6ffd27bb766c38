----------------------------- MODULE Evaluation -----------------------------
(***************************************************************************)
(* falsiq-eval on one task: reviewers in parallel, selector, principal and *)
(* scorer for falsiq; asker, principal and scorer for the baseline; and,   *)
(* in a conformance run, a builder and a judge for each condition.  Every  *)
(* call goes through AgentRuntime.  A run ends with its reports or with    *)
(* the first call that fails or is answered by what must be refused; a     *)
(* later run may resume from the captures.                                 *)
(*                                                                         *)
(* An answer is <<"ok", value>>, <<"bad">> (its caller refuses it: schema, *)
(* class, unknown requirement or option, a mapping that is not complete)   *)
(* or <<"leak", value>> (it tells a hidden requirement).  Metrics and      *)
(* rendering are functions of what is reported and are left out.           *)
(***************************************************************************)
EXTENDS AgentRuntime, Selection

CONSTANTS
    Main,           \* the thread that makes all calls but the reviewers'
    Rounds,         \* the annoyance budget of the task
    Modes,          \* elicitation and conformance runs
    LabelOrders,    \* orders of the conditions, by label of the candidate
    JudgeOrders,    \* orders of the conditions, in which they are judged
    MaxRuns,        \* bound on the number of runs
    Resumed,        \* which of them are started with --resume
    MaxRemoved,     \* bound on the captures that the operator removes
    Pool            \* candidates to compare the two selection policies on

\* The conditions that a task is run in
Conditions == {"vague", "baseline", "falsiq"}

\* _seeded_order: a shuffle of the conditions
Orders == {order \in [1 .. 3 -> Conditions] : IsInjective(order)}

ASSUME EvaluationAssumption ==
    /\ Thread = Class \cup {Main} /\ Main \notin Class /\ IsFiniteSet(Class)
    /\ LabelOrders \subseteq Orders /\ JudgeOrders \subseteq Orders
    /\ Modes \subseteq {"elicitation", "conformance"}
    /\ Rounds \in Nat \ {0}
    /\ MaxRuns \in Nat /\ MaxRemoved \in Nat

VARIABLES
    phase,      \* what the run does next
    run,        \* what it knows
    used,       \* history: the calls the run made and the answers it went by
    reports,    \* the kinds of answers that each report file was computed from
    bounds      \* how many runs were started and captures removed

vars == <<callVars, phase, run, used, reports, bounds>>

Phases == {"idle", "review", "select", "rule", "score", "ask", "answer", "score2", "build", "test",
           "judge", "report"}

Files == <<"json", "csv", "markdown">>

NoRun == [resume |-> FALSE, round |-> 1, seen |-> {}, offered |-> {},
          chosen |-> <<>>, rulings |-> <<>>, questions |-> <<>>, exchanges |-> <<>>,
          labels |-> <<>>, judging |-> <<>>, builds |-> <<>>, scores |-> <<>>, written |-> 0]

-----------------------------------------------------------------------------
\* The calls of a phase

\* What the builder of a condition is told: the prompt alone, or a handoff
Instructions(condition) ==
    CASE condition = "vague" -> <<"prompt", <<>>>>
      [] condition = "baseline" -> <<"transcript", run.exchanges>>
      [] condition = "falsiq" -> <<"brief", run.rulings>>

Threads == CASE phase = "review" -> Class
             [] phase \in {"idle", "test", "report"} -> {}
             [] OTHER -> {Main}

\* Variant: the judge works through the labels, its scores go by condition
InLabelOrder == Len(run.scores) + 1

\* The label of the candidate to be judged: the one of the condition whose turn it is
Judged == CHOOSE l \in DOMAIN run.labels : run.labels[l] = run.judging[Len(run.scores) + 1]

\* _request_id, for one task
Id(t) ==
    CASE phase = "review" -> <<"reviewer", t, run.round>>
      [] phase = "select" -> <<"selector", run.round>>
      [] phase = "rule" -> <<"principal", run.round, Len(run.rulings) + 1>>
      [] phase = "score" -> <<"scorer", "falsiq">>
      [] phase = "ask" -> <<"naive_baseline", run.round>>
      [] phase = "answer" -> <<"baseline_principal", run.round, Len(run.exchanges) + 1>>
      [] phase = "score2" -> <<"scorer", "baseline">>
      [] phase = "build" -> <<"builder", Len(run.builds) + 1>>
      [] phase = "judge" -> <<"judge", Judged>>

\* The payload of the call
Request ==
    CASE phase \in {"review", "score"} -> run.rulings
      [] phase = "select" -> run.offered
      [] phase = "rule" -> <<Head(run.chosen), Len(run.rulings)>>
      [] phase \in {"ask", "score2"} -> run.exchanges
      [] phase = "answer" -> <<Head(run.questions), Len(run.exchanges)>>
      [] phase = "build" -> Instructions(run.labels[Len(run.builds) + 1])
      [] phase = "judge" -> run.builds[Judged]

Calls(t) ==
    /\ t \in Threads
    /\ Invoke(t, run.resume, Id(t), Request)
    /\ UNCHANGED <<phase, run, used, reports, bounds>>

Serves(t) ==
    /\ Child(t) \/ KillOversized(t)
    /\ UNCHANGED <<phase, run, used, reports, bounds>>

Waits(t) ==
    /\ Parent(t)
    /\ UNCHANGED <<phase, run, used, reports, bounds>>

-----------------------------------------------------------------------------
\* What a run does with the answers

Answer == call[Main].answer[2]

\* What outlives the calls of a phase is a child that nobody waited for
CallsOver ==
    call' = [t \in Thread |-> [NoCall EXCEPT !.child = IF call[t].child = "up" THEN "up" ELSE "none"]]

\* The run goes on to a phase and then knows r, or is over
To(next, r) ==
    /\ phase' = next
    /\ run' = IF next = "idle" THEN NoRun ELSE r
    /\ used' = IF next = "idle" THEN {}
               ELSE used \cup {<<call[t].id, call[t].request, call[t].answer>> : t \in Threads}
    /\ CallsOver

\* Variant: the first call that fails ends the phase
AnyFailed ==
    \/ \E t \in Threads : call[t].stage = "failed"
    \/ \A t \in Threads : call[t].stage \in {"answered", "failed"}

\* The executor is left when every reviewer's call has ended
AllEnded == \A t \in Threads : call[t].stage \in {"answered", "failed"}

\* Variant: nobody looks for leaks
RefusesBad(t) == call[t].stage # "answered" \/ call[t].answer = <<"bad">>

\* validate_role_response, and the checks that follow each kind of answer
Refuses(t) == call[t].stage # "answered" \/ call[t].answer[1] # "ok"

\* Reviewers repeat a review id or a content, or the selector does not follow the policy
Mismatch ==
    \/ phase = "review" /\ UNION {call[t].answer[2] : t \in Class} \cap run.seen # {}
    \/ phase = "select" /\ (Repeats(run.offered) \/ Answer # SelectReviews(run.offered))

Accepted == ~((\E t \in Threads : Refuses(t)) \/ Mismatch)

\* An EvaluationError ends the run before any report
Fail ==
    /\ Threads # {} /\ AllEnded /\ ~Accepted
    /\ To("idle", run)

\* Without interactions there is nothing to score
EndRounds(r) ==
    IF r.rulings = <<>> THEN To("ask", [r EXCEPT !.round = 1]) ELSE To("score", r)

Reviewed ==
    /\ phase = "review"
    /\ LET offered == UNION {call[t].answer[2] : t \in Class}
           r == [run EXCEPT !.offered = offered, !.seen = @ \cup offered]
       IN  IF offered = {} THEN EndRounds(r) ELSE To("select", r)

Selected ==
    /\ phase = "select"
    /\ To("rule", [run EXCEPT !.chosen = Answer, !.offered = {}])

\* The rulings moved the intent
Moved(rulings) == \E i \in DOMAIN rulings : rulings[i].verdict \in {"amend", "forbidden"}

\* Variant: the budget counts the rounds that follow
MoreRoundsOffByOne(r) == r.round <= Rounds /\ (r.round > 1 \/ Moved(r.rulings))

\* After the first round, only when it moved the intent
MoreRounds(r) == r.round < Rounds /\ (r.round > 1 \/ Moved(r.rulings))

Ruled ==
    /\ phase = "rule"
    /\ LET ruling == [review |-> Head(run.chosen), round |-> run.round, verdict |-> Answer]
           r == [run EXCEPT !.rulings = Append(@, ruling), !.chosen = Tail(@)]
       IN  IF r.chosen # <<>> THEN To("rule", r)
           ELSE IF MoreRounds(r)
                THEN To("review", [r EXCEPT !.round = @ + 1])
                ELSE EndRounds(r)

Scored ==
    /\ phase = "score"
    /\ To("ask", [run EXCEPT !.round = 1])

\* run_evaluation reports, run_conformance_evaluation goes on
EndScores(r) ==
    \/ "elicitation" \in Modes /\ To("report", r)
    \/ /\ "conformance" \in Modes
       /\ \E labels \in LabelOrders, judging \in JudgeOrders :
             To("build", [r EXCEPT !.labels = labels, !.judging = judging])

EndQuestions(r) == IF r.exchanges = <<>> THEN EndScores(r) ELSE To("score2", r)

\* The next question of the round, unless it was asked before; or the next round
NextQuestion(r) ==
    IF r.questions # <<>>
    THEN To(IF Contains(r.exchanges, Head(r.questions)) THEN "idle" ELSE "answer", r)
    ELSE IF r.round < Rounds THEN To("ask", [r EXCEPT !.round = @ + 1]) ELSE EndQuestions(r)

Asked ==
    /\ phase = "ask"
    /\ NextQuestion([run EXCEPT !.questions = Answer])

Answered ==
    /\ phase = "answer"
    /\ NextQuestion([run EXCEPT !.exchanges = Append(@, Head(run.questions)), !.questions = Tail(@)])

Scored2 ==
    /\ phase = "score2"
    /\ EndScores(run)

\* A workspace is made anew from the fixture and then holds what its builder returned
Built ==
    /\ phase = "build"
    /\ LET r == [run EXCEPT !.builds = Append(@, Answer)]
       IN  To(IF Len(r.builds) = Len(r.labels) THEN "test" ELSE "build", r)

\* _run_hidden_tests: a function of the workspaces, or a result that is refused
Test ==
    /\ phase = "test"
    /\ \E next \in {"judge", "idle"} : To(next, run)

JudgedOne ==
    /\ phase = "judge"
    /\ LET r == [run EXCEPT !.scores =
                    Append(@, [condition |-> run.judging[Len(@) + 1], score |-> Answer])]
       IN  To(IF Len(r.scores) = Len(r.judging) THEN "report" ELSE "judge", r)

Collect ==
    /\ Threads # {} /\ AllEnded /\ Accepted
    /\ \/ Reviewed \/ Selected \/ Ruled \/ Scored \/ Asked \/ Answered \/ Scored2
       \/ Built \/ JudgedOne

\* write_reports: one file after the other
WriteReport ==
    /\ phase = "report"
    /\ reports' = [reports EXCEPT ![Files[run.written + 1]] = {u[3][1] : u \in used}]
    /\ To(IF run.written + 1 = Len(Files) THEN "idle" ELSE "report",
          [run EXCEPT !.written = @ + 1])

WriteFails ==
    /\ phase = "report"
    /\ To("idle", run)
    /\ UNCHANGED reports

-----------------------------------------------------------------------------
\* Runs

Begin ==
    /\ phase = "idle" /\ bounds.runs < MaxRuns
    /\ run' = [NoRun EXCEPT !.resume = bounds.runs + 1 \in Resumed]
    /\ phase' = "review"
    /\ call' = [t \in Thread |-> NoCall]
    /\ bounds' = [bounds EXCEPT !.runs = @ + 1]
    /\ UNCHANGED <<captures, used, reports>>

\* Killed or interrupted; its children are left to themselves
Stop ==
    /\ phase # "idle"
    /\ phase' = "idle" /\ run' = NoRun /\ used' = {}
    /\ call' = [t \in Thread |-> NoCall]
    /\ UNCHANGED <<captures, reports, bounds>>

\* The operator removes a capture, say one that every resumed run refuses
RemoveCapture ==
    /\ phase = "idle" /\ bounds.removed < MaxRemoved
    /\ \E id \in DOMAIN captures :
          captures' = [i \in DOMAIN captures \ {id} |-> captures[i]]
    /\ bounds' = [bounds EXCEPT !.removed = @ + 1]
    /\ UNCHANGED <<call, phase, run, used, reports>>

Init ==
    /\ call = [t \in Thread |-> NoCall]
    /\ captures = <<>>
    /\ phase = "idle" /\ run = NoRun /\ used = {}
    /\ reports = [f \in {Files[i] : i \in DOMAIN Files} |-> {}]
    /\ bounds = [runs |-> 0, removed |-> 0]

Harness ==
    \/ (Fail \/ Collect \/ Test) /\ UNCHANGED <<captures, reports, bounds>>
    \/ (WriteReport \/ WriteFails) /\ UNCHANGED <<captures, bounds>>

Next ==
    \/ Begin \/ Stop \/ RemoveCapture \/ Harness
    \/ \E t \in Thread : Calls(t) \/ Serves(t) \/ Waits(t)

Spec == Init /\ [][Next]_vars

\* Some thread of the harness goes on, a deadline being one of the steps; the
\* children and the operator need not
FairSpec == Spec /\ WF_vars(Harness \/ \E t \in Thread : Calls(t) \/ Waits(t))

-----------------------------------------------------------------------------
\* Properties

\* The types of the control state; payloads and answers differ from role to role.
TypeOK ==
    /\ \A t \in Thread : /\ call[t].stage \in Stages
                         /\ call[t].child \in Children
                         /\ call[t].output \in Outputs
                         /\ call[t].stage = "running" => call[t].child # "none"
    /\ phase \in Phases
    /\ run.round \in 1 .. Rounds
    /\ Len(run.rulings) <= MaxSelected * Rounds
    /\ run.written \in 0 .. Len(Files)
    /\ bounds \in [runs : 0 .. MaxRuns, removed : 0 .. MaxRemoved]

\* "Use --resume to reuse an exact captured request/response transcript": what a
\* run went by up to any point is documented, call by call, by the transcripts
\* it leaves, so that a resumed run repeats it.  A transcript of another request
\* is never taken for an answer, and no call of a run overwrites an earlier one's.
RunDocumented ==
    \A u \in used :
        u[1] \in DOMAIN captures /\ captures[u[1]] = [request |-> u[2], response |-> u[3]]

\* A run that goes on to its next phase, reports or fails by itself has waited for
\* every child: also for those of the reviewers that ran beside the one that
\* failed, those killed for their output and those that met the deadline.
NoOrphan == \A t \in Thread \ Threads : call[t].child # "up"

\* What a report is computed from has passed every check, whether it was
\* answered in this run or captured by an earlier one that refused it.
RefusedNeverReported ==
    \A f \in DOMAIN reports : reports[f] \subseteq {"ok"}

\* Labels and judging are shuffled for blindness; each condition still gets the
\* score of what was built from its own instructions.
ScoresAttributed ==
    \A i \in DOMAIN run.scores : run.scores[i].score = Instructions(run.scores[i].condition)

\* The harness checks its selector with a selection policy of its own, which scores
\* and composes as the product does: from the same candidates both select as many,
\* with the same total.  Ties are broken by digests of two schemas; where these order
\* the candidates alike, both select the same in the same order.
SelectionAgrees ==
    bounds.runs = 0 => \A S \in SUBSET Pool :
        LET product == SelectRecords(S)
            harness == SelectReviews(S)
            score == ProductOrder(S).score
        IN  /\ Len(harness) = Len(product)
            /\ Total(score, ToSet(harness)) = Total(score, ToSet(product))
            /\ (\A c, d \in S : c.digest <= d.digest <=> c.content <= d.content)
                  => harness = product

\* What a reviewer may leave: no batch, or one of any role
ReviewerFiles ==
    {Garbage} \cup {Batch(j, s) : j \in Class, s \in UNION {[1 .. n -> Pool] : n \in 0 .. 2}}

\* "Rejected output becomes that role's canonical empty batch [...] instead of
\* aborting the entire round": whatever the files are, the prepared batches
\* assemble, unless a file lists a candidate twice, which nothing looks for before
\* the assembly does.
PreparedAssembles ==
    bounds.runs = 0 => \A raw \in [Class -> ReviewerFiles] :
        (\A k \in Class : raw[k] = Garbage \/ IsInjective(raw[k].candidates))
            => Assembles({Prepare(k, raw[k]) : k \in Class})

\* A run ends, even if its agents never do.
EvaluationEnds == phase # "idle" ~> phase = "idle"

=============================================================================
