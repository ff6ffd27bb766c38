---------------------------- MODULE EvaluationProofs ----------------------------
(***************************************************************************)
(* Theorems about Evaluation, for every set of reviewers, every number of  *)
(* rounds and runs, and whatever the agents answer.                        *)
(***************************************************************************)
EXTENDS Evaluation, FiniteSetTheorems, FunctionTheorems, TLAPS

-----------------------------------------------------------------------------
\* Children

\* A child is up only while its parent waits for it.
Attended ==
    \A t \in Thread : call[t].child = "up" => call[t].stage \in {"running", "aborting"}

\* The fields of a call.
Field == {"stage", "id", "request", "child", "output", "answer"}

\* Every thread has one.
OneEach == DOMAIN call = Thread /\ \A t \in Thread : DOMAIN call[t] = Field

ChildInv == OneEach /\ Attended /\ NoOrphan

\* At the end of a phase no child is up: each call of the phase has ended, and no
\* other thread has one.
LEMMA PhaseEnds ==
    ASSUME ChildInv, CallsOver, Threads = {} \/ AllEnded
    PROVE  ChildInv'
<1>1. \A t \in Thread : call[t].child # "up"
  BY DEF ChildInv, NoOrphan, Attended, AllEnded
<1>2. call' = [t \in Thread |-> [NoCall EXCEPT !.child = "none"]]
  BY <1>1 DEF CallsOver
<1>3. \A t \in Thread : call'[t].child = "none"
  BY <1>2 DEF NoCall
<1>4. OneEach'
  BY <1>2 DEF OneEach, NoCall, Field
<1>5. QED
  BY <1>3, <1>4 DEF ChildInv, Attended, NoOrphan

\* A step of one thread within a phase.
LEMMA CallStep ==
    ASSUME ChildInv, NEW t \in Thread, NEW c, DOMAIN c = Field, Becomes(t, c), phase' = phase,
           c.child = "up" => c.stage \in {"running", "aborting"} /\ (t \in Threads \/ call[t].child = "up")
    PROVE  ChildInv'
<1>1. call' = [call EXCEPT ![t] = c] /\ DOMAIN call = Thread
  BY DEF ChildInv, OneEach, Becomes
<1>2. DOMAIN call' = Thread /\ call'[t] = c /\ \A q \in Thread \ {t} : call'[q] = call[q]
  BY <1>1
<1>5. OneEach'
  BY <1>2 DEF ChildInv, OneEach
<1>3. Threads' = Threads
  BY DEF Threads
<1>4. QED
  BY <1>2, <1>3, <1>5 DEF ChildInv, Attended, NoOrphan

\* Calls, children, the monitor and the parent.
LEMMA ThreadStep ==
    ASSUME ChildInv, NEW t \in Thread, Calls(t) \/ Serves(t) \/ Waits(t)
    PROVE  ChildInv'
<1>1. phase' = phase
  BY DEF Calls, Serves, Waits
<1>2. CASE Calls(t)
  <2>1. PICK id, request, resume : t \in Threads /\ Invoke(t, resume, id, request)
    BY <1>2 DEF Calls
  <2>2. CASE Replay(t, id, request)
    <3>1. PICK stage, answer : Becomes(t, [NoCall EXCEPT !.id = id, !.request = request,
                                             !.stage = stage, !.answer = answer])
      BY <2>2 DEF Replay
    <3> DEFINE c == [NoCall EXCEPT !.id = id, !.request = request, !.stage = stage, !.answer = answer]
    <3>2. DOMAIN c = Field /\ c.child = "none"
      BY DEF NoCall, Field
    <3> HIDE DEF c
    <3>3. Becomes(t, c)
      BY <3>1 DEF c
    <3>4. QED
      BY <1>1, <3>2, <3>3, CallStep
  <2>3. CASE Spawn(t, id, request)
    <3>1. PICK s \in {[stage |-> "running", child |-> "up"], [stage |-> "failed", child |-> "none"]} :
            Becomes(t, [NoCall EXCEPT !.stage = s.stage, !.child = s.child, !.id = id, !.request = request])
      BY <2>3 DEF Spawn
    <3> DEFINE c == [NoCall EXCEPT !.stage = s.stage, !.child = s.child, !.id = id, !.request = request]
    <3>2. DOMAIN c = Field /\ c.stage = s.stage /\ c.child = s.child
      BY DEF NoCall, Field
    <3>3. c.child = "up" => c.stage = "running"
      BY <3>1, <3>2
    <3> HIDE DEF c
    <3>4. Becomes(t, c)
      BY <3>1 DEF c
    <3>5. QED
      BY <1>1, <2>1, <3>2, <3>3, <3>4, CallStep
  <2>4. QED
    BY <2>1, <2>2, <2>3 DEF Invoke
<1>3. CASE Serves(t) \/ Waits(t)
  <2>1. DOMAIN call[t] = Field /\ (call[t].child = "up" => call[t].stage \in {"running", "aborting"})
    BY DEF ChildInv, OneEach, Attended
  <2> DEFINE k == call[t]
             Kept(c) == /\ Becomes(t, c) /\ DOMAIN c = Field
                        /\ c.child = "up" => k.child = "up" /\ c.stage \in {"running", "aborting"}
  <2>2. ASSUME NEW output, NEW answer, k.child = "up", Becomes(t, [k EXCEPT !.output = output, !.answer = answer])
        PROVE  \E c : Kept(c)
    <3> DEFINE c == [k EXCEPT !.output = output, !.answer = answer]
    <3>1. DOMAIN c = Field /\ c.child = k.child /\ c.stage = k.stage
      BY <2>1 DEF Field
    <3>2. Kept(c)
      BY <2>1, <2>2, <3>1
    <3>3. QED
      BY <3>2
  <2>3. ASSUME NEW stage, NEW child, Becomes(t, [k EXCEPT !.stage = stage, !.child = child]),
               child = "up" => k.child = "up" /\ stage \in {"running", "aborting"}
        PROVE  \E c : Kept(c)
    <3> DEFINE c == [k EXCEPT !.stage = stage, !.child = child]
    <3>1. DOMAIN c = Field /\ c.child = child /\ c.stage = stage
      BY <2>1 DEF Field
    <3>2. Kept(c)
      BY <2>3, <3>1
    <3>3. QED
      BY <3>2
  <2>4. ASSUME NEW stage, Goes(t, stage), k.child = "up" => stage \in {"running", "aborting"}
        PROVE  \E c : Kept(c)
    <3> DEFINE c == [k EXCEPT !.stage = stage]
    <3>1. DOMAIN c = Field /\ c.child = k.child /\ c.stage = stage
      BY <2>1 DEF Field
    <3>2. Kept(c)
      BY <2>4, <3>1 DEF Goes
    <3>3. QED
      BY <3>2
  <2>5. ASSUME NEW child, Becomes(t, [k EXCEPT !.child = child]), child = "up" => k.child = "up"
        PROVE  \E c : Kept(c)
    <3> DEFINE c == [k EXCEPT !.child = child]
    <3>1. DOMAIN c = Field /\ c.child = child /\ c.stage = k.stage
      BY <2>1 DEF Field
    <3>2. Kept(c)
      BY <2>1, <2>5, <3>1
    <3>3. QED
      BY <3>2
  <2>6. \E c : Kept(c)
    <3>1. CASE Writes(t)
      BY <2>2, <3>1 DEF Writes
    <3>2. CASE Exits(t)
      BY <2>5, <3>2 DEF Exits
    <3>3. CASE KillOversized(t)
      BY <2>5, <3>3 DEF KillOversized, Killed
    <3>4. CASE TimesOut(t)
      BY <2>3, <3>4 DEF TimesOut, Killed
    <3>5. CASE Aborted(t)
      BY <2>4, <3>5 DEF Aborted
    <3>6. CASE Ends(t)
      BY <2>4, <3>6 DEF Ends
    <3>7. CASE Capture(t)
      BY <2>1, <2>4, <3>7 DEF Capture
    <3>8. CASE CaptureFails(t)
      BY <2>1, <2>4, <3>8 DEF CaptureFails
    <3>9. QED
      BY <1>3, <3>1, <3>2, <3>3, <3>4, <3>5, <3>6, <3>7, <3>8 DEF Serves, Waits, Child, Parent
  <2>7. PICK c : Kept(c)
    BY <2>6
  <2>8. QED
    BY <1>1, <2>7, CallStep
<1>4. QED
  BY <1>2, <1>3

\* A step of the harness ends a phase whose calls have ended.
LEMMA HarnessEnds ==
    ASSUME Harness
    PROVE  CallsOver /\ (Threads = {} \/ AllEnded)
<1>1. CASE Fail
  BY <1>1 DEF Fail, To
<1>2. CASE Collect
  <2>1. AllEnded
    BY <1>2 DEF Collect
  <2>2. CallsOver
    BY <1>2 DEF Collect, Reviewed, Selected, Ruled, Scored, Asked, Answered, Scored2, Built,
                JudgedOne, EndRounds, NextQuestion, EndQuestions, EndScores, To
  <2>3. QED
    BY <2>1, <2>2
<1>3. CASE Test \/ WriteReport \/ WriteFails
  BY <1>3 DEF Test, WriteReport, WriteFails, To, Threads
<1>4. QED
  BY <1>1, <1>2, <1>3 DEF Harness

\* Every step preserves that.
LEMMA ChildInductive == ChildInv /\ [Next]_vars => ChildInv'
<1> SUFFICES ASSUME ChildInv, [Next]_vars PROVE ChildInv'
  OBVIOUS
<1>1. CASE UNCHANGED vars
  <2>1. call' = call /\ phase' = phase
    BY <1>1 DEF vars, callVars
  <2>2. QED
    BY <2>1 DEF ChildInv, OneEach, Attended, NoOrphan, Threads
<1>2. CASE Harness
  BY <1>2, HarnessEnds, PhaseEnds
<1>3. CASE Begin \/ Stop
  <2>1. call' = [t \in Thread |-> NoCall]
    BY <1>3 DEF Begin, Stop
  <2>2. \A t \in Thread : call'[t] = NoCall
    BY <2>1
  <2>3. QED
    BY <2>1, <2>2 DEF ChildInv, OneEach, Attended, NoOrphan, NoCall, Field
<1>4. CASE RemoveCapture
  <2>1. call' = call /\ phase' = phase
    BY <1>4 DEF RemoveCapture
  <2>2. QED
    BY <2>1 DEF ChildInv, OneEach, Attended, NoOrphan, Threads
<1>5. ASSUME NEW t \in Thread, Calls(t) \/ Serves(t) \/ Waits(t) PROVE ChildInv'
  BY <1>5, ThreadStep
<1>6. QED
  BY <1>1, <1>2, <1>3, <1>4, <1>5 DEF Next

-----------------------------------------------------------------------------
\* Answers

\* The run has gone by answers that passed every check, and so have the reports.
AnswerInv == (\A u \in used : u[3][1] = "ok") /\ RefusedNeverReported

\* A phase that ends adds what it went by.
LEMMA UsedStep ==
    ASSUME AnswerInv, NEW next, NEW r, To(next, r), Threads = {} \/ Accepted
    PROVE  \A u \in used' : u[3][1] = "ok"
<1>1. used' = {} \/ used' = used \cup {<<call[t].id, call[t].request, call[t].answer>> : t \in Threads}
  BY DEF To
<1>2. \A t \in Threads : call[t].answer[1] = "ok"
  BY DEF Accepted, Refuses
<1>3. QED
  BY <1>1, <1>2 DEF AnswerInv

\* Every step preserves that.
LEMMA AnswerInductive == AnswerInv /\ [Next]_vars => AnswerInv'
<1> SUFFICES ASSUME AnswerInv, [Next]_vars PROVE AnswerInv'
  OBVIOUS
<1>1. ASSUME reports' = reports, \A u \in used' : u[3][1] = "ok" PROVE AnswerInv'
  BY <1>1 DEF AnswerInv, RefusedNeverReported
<1>2. \A u \in used : u[3][1] = "ok"
  BY DEF AnswerInv
<1>3. CASE Harness
  <2>1. CASE Fail
    <3>1. used' = {}
      BY <2>1 DEF Fail, To
    <3>2. reports' = reports
      BY <1>3, <2>1 DEF Harness, Fail, WriteReport, WriteFails, To, Threads
    <3>3. QED
      BY <1>1, <3>1, <3>2
  <2>2. CASE Collect
    <3>1. Accepted /\ \E next, r : To(next, r)
      BY <2>2 DEF Collect, Reviewed, Selected, Ruled, Scored, Asked, Answered, Scored2, Built,
                  JudgedOne, EndRounds, NextQuestion, EndQuestions, EndScores
    <3>2. reports' = reports
      BY <1>3, <2>2 DEF Harness, Collect, WriteReport, WriteFails, Threads
    <3>3. QED
      BY <1>1, <3>1, <3>2, UsedStep
  <2>3. CASE Test
    <3>1. Threads = {} /\ \E next : To(next, run)
      BY <2>3 DEF Test, Threads
    <3>2. reports' = reports
      BY <1>3, <2>3 DEF Harness, Test, WriteReport, WriteFails
    <3>3. QED
      BY <1>1, <3>1, <3>2, UsedStep
  <2>4. CASE WriteFails
    <3>1. used' = {} /\ reports' = reports
      BY <2>4 DEF WriteFails, To
    <3>2. QED
      BY <1>1, <3>1
  <2>5. CASE WriteReport
    <3> DEFINE from == {u[3][1] : u \in used}
    <3>1. from \subseteq {"ok"}
      BY <1>2
    <3>2. PICK f : reports' = [reports EXCEPT ![f] = from]
      BY <2>5 DEF WriteReport
    <3> HIDE DEF from
    <3>3. RefusedNeverReported'
      BY <3>1, <3>2 DEF AnswerInv, RefusedNeverReported
    <3>4. Threads = {} /\ \E next, r : To(next, r)
      BY <2>5 DEF WriteReport, Threads
    <3>5. \A u \in used' : u[3][1] = "ok"
      BY <3>4, UsedStep
    <3>6. QED
      BY <3>3, <3>5 DEF AnswerInv
  <2>6. QED
    BY <1>3, <2>1, <2>2, <2>3, <2>4, <2>5 DEF Harness
<1>4. CASE Begin \/ Stop \/ RemoveCapture
  <2>1. (used' = used \/ used' = {}) /\ reports' = reports
    BY <1>4 DEF Begin, Stop, RemoveCapture
  <2>2. QED
    BY <1>1, <1>2, <2>1
<1>5. CASE (\E t \in Thread : Calls(t) \/ Serves(t) \/ Waits(t)) \/ UNCHANGED vars
  <2>1. used' = used /\ reports' = reports
    BY <1>5 DEF Calls, Serves, Waits, vars
  <2>2. QED
    BY <1>1, <1>2, <2>1
<1>6. QED
  BY <1>3, <1>4, <1>5 DEF Next

-----------------------------------------------------------------------------
\* Theorems

\* A run that goes on or ends by itself leaves no child behind: neither of the
\* reviewers beside one that failed, nor one that is killed for its output or its time.
THEOREM NoChildLeft == Spec => []NoOrphan
<1>1. Init => ChildInv
  BY DEF Init, ChildInv, OneEach, Attended, NoOrphan, NoCall, Field
<1>2. ChildInv => NoOrphan
  BY DEF ChildInv
<1>3. QED
  BY <1>1, <1>2, ChildInductive, PTL DEF Spec

\* No report is computed from an answer that a check refuses, in whichever run it
\* was given.
THEOREM ReportsAreChecked == Spec => []RefusedNeverReported
<1>1. Init => AnswerInv
  BY DEF Init, AnswerInv, RefusedNeverReported
<1>2. AnswerInv => RefusedNeverReported
  BY DEF AnswerInv
<1>3. QED
  BY <1>1, <1>2, AnswerInductive, PTL DEF Spec

-----------------------------------------------------------------------------
\* What the run knows

RunField == {"resume", "round", "seen", "offered", "chosen", "rulings", "questions", "exchanges",
             "labels", "judging", "builds", "scores", "written"}

IsSeq(s) == \E S : s \in Seq(S)

Loop == {"review", "select", "rule"}

Late == {"build", "test", "judge", "report"}

\* What a run in the phase ph knows
Fits(ph, r) ==
    /\ ph \in Phases
    /\ DOMAIN r = RunField
    /\ r.round \in 1 .. Rounds
    /\ IsSeq(r.rulings) /\ IsSeq(r.exchanges) /\ IsSeq(r.builds) /\ IsSeq(r.scores)
    /\ ph \notin Late => r.builds = <<>>
    /\ ph \notin {"judge", "report"} => r.scores = <<>>
    /\ ph # "report" => r.written = 0
    /\ r.written \in 0 .. 2
    /\ ph \in {"build", "test", "judge"} => r.labels \in Orders /\ r.judging \in Orders
    /\ ph = "build" => Len(r.builds) < 3
    /\ ph \in {"test", "judge"} => Len(r.builds) = 3
    /\ ph = "judge" => Len(r.scores) < 3

\* An id that a run in the phase ph has used, and does not use again
PastAt(ph, r, id) ==
    \/ /\ id[1] = "reviewer" /\ id[3] \in Nat
       /\ ph = "review" => id[3] < r.round
       /\ ph \in {"select", "rule"} => id[3] <= r.round
    \/ /\ id[1] = "selector" /\ id[2] \in Nat
       /\ ph \in {"review", "select"} => id[2] < r.round
       /\ ph = "rule" => id[2] <= r.round
    \/ /\ id[1] = "principal" /\ id[3] \in Nat
       /\ ph \in Loop => id[3] <= Len(r.rulings)
    \/ /\ id[1] = "scorer" /\ id[2] = "falsiq" /\ ph \notin Loop \cup {"score"}
    \/ /\ id[1] = "naive_baseline" /\ id[2] \in Nat /\ ph \notin Loop \cup {"score"}
       /\ ph = "ask" => id[2] < r.round
       /\ ph = "answer" => id[2] <= r.round
    \/ /\ id[1] = "baseline_principal" /\ id[3] \in Nat /\ ph \notin Loop \cup {"score"}
       /\ ph \in {"ask", "answer"} => id[3] <= Len(r.exchanges)
    \/ /\ id[1] = "scorer" /\ id[2] = "baseline" /\ ph \in Late
    \/ /\ id[1] = "builder" /\ id[2] \in Nat /\ ph \in Late
       /\ ph = "build" => id[2] <= Len(r.builds)
    \/ /\ id[1] = "judge" /\ ph \in {"judge", "report"}
       /\ ph = "judge" => \E k \in 1 .. Len(r.scores) : r.labels[id[2]] = r.judging[k]

\* A sequence that grows
LEMMA Grows ==
    ASSUME NEW s, IsSeq(s), NEW e
    PROVE  /\ IsSeq(Append(s, e)) /\ Len(s) \in Nat /\ Len(Append(s, e)) = Len(s) + 1
           /\ Append(s, e)[Len(s) + 1] = e
           /\ \A i \in 1 .. Len(s) : Append(s, e)[i] = s[i]
<1>1. PICK S : s \in Seq(S)
  BY DEF IsSeq
<1>2. s \in Seq(S \cup {e}) /\ e \in S \cup {e}
  BY <1>1
<1>3. Append(s, e) \in Seq(S \cup {e})
  BY <1>2
<1> QED
  BY <1>2, <1>3 DEF IsSeq

\* Each condition has a label
LEMMA Labelled ==
    ASSUME NEW o \in Orders, NEW c \in Conditions
    PROVE  \E l \in DOMAIN o : o[l] = c
<1>1. /\ DOMAIN o = {1, 2, 3} /\ o[1] \in Conditions /\ o[2] \in Conditions /\ o[3] \in Conditions
      /\ o[1] # o[2] /\ o[1] # o[3] /\ o[2] # o[3]
  <2>1. DOMAIN o = 1 .. 3 /\ (\A i \in 1 .. 3 : o[i] \in Conditions) /\ IsInjective(o)
    BY DEF Orders
  <2>2. 1 .. 3 = {1, 2, 3}
    OBVIOUS
  <2> QED
    BY <2>1, <2>2 DEF IsInjective
<1> QED
  BY <1>1 DEF Conditions

\* The candidate to be judged is of the condition whose turn it is
LEMMA JudgedIs ==
    ASSUME phase = "judge", Fits(phase, run)
    PROVE  /\ Judged \in 1 .. 3 /\ run.labels[Judged] = run.judging[Len(run.scores) + 1]
           /\ Len(run.scores) \in 0 .. 2
           /\ \A k \in 1 .. Len(run.scores) : run.judging[k] # run.labels[Judged]
<1>1. run.labels \in Orders /\ run.judging \in Orders /\ Len(run.scores) < 3
  BY DEF Fits
<1>2. Len(run.scores) \in Nat
  BY Grows DEF Fits
<1>3. run.judging[Len(run.scores) + 1] \in Conditions /\ DOMAIN run.labels = 1 .. 3
  BY <1>1, <1>2 DEF Orders
<1>4. Judged \in 1 .. 3 /\ run.labels[Judged] = run.judging[Len(run.scores) + 1]
  BY <1>1, <1>3, Labelled DEF Judged
<1>5. \A k \in 1 .. Len(run.scores) : run.judging[k] # run.judging[Len(run.scores) + 1]
  BY <1>1, <1>2 DEF Orders, IsInjective
<1>6. Len(run.scores) \in 0 .. 2
  <2>1. \A n \in Nat : n < 3 => n \in 0 .. 2
    OBVIOUS
  <2> QED
    BY <1>1, <1>2, <2>1
<1>7. \A k \in 1 .. Len(run.scores) : run.judging[k] # run.labels[Judged]
  BY <1>4, <1>5
<1> QED
  BY <1>4, <1>6, <1>7

\* The calls of a phase have ids that the run has not used
LEMMA NotPast ==
    ASSUME Fits(phase, run), NEW t \in Threads
    PROVE  ~PastAt(phase, run, Id(t))
<1>1. run.round \in Nat /\ Len(run.rulings) \in Nat /\ Len(run.exchanges) \in Nat /\ Len(run.builds) \in Nat
  BY Grows, EvaluationAssumption DEF Fits
<1>2. phase \in Phases /\ phase \notin {"idle", "test", "report"}
  BY DEF Fits, Threads
<1>3. CASE phase = "review"
  BY <1>1, <1>3 DEF Id, PastAt
<1>4. CASE phase = "select"
  BY <1>1, <1>4 DEF Id, PastAt
<1>5. CASE phase = "rule"
  BY <1>1, <1>5 DEF Id, PastAt, Loop
<1>6. CASE phase = "score"
  BY <1>1, <1>6 DEF Id, PastAt, Late
<1>7. CASE phase = "ask"
  BY <1>1, <1>7 DEF Id, PastAt
<1>8. CASE phase = "answer"
  BY <1>1, <1>8 DEF Id, PastAt
<1>9. CASE phase = "score2"
  BY <1>1, <1>9 DEF Id, PastAt, Late
<1>10. CASE phase = "build"
  BY <1>1, <1>10 DEF Id, PastAt
<1>11. CASE phase = "judge"
  BY <1>1, <1>11, JudgedIs DEF Id, PastAt
<1> QED
  BY <1>2, <1>3, <1>4, <1>5, <1>6, <1>7, <1>8, <1>9, <1>10, <1>11 DEF Phases

-----------------------------------------------------------------------------
\* What a run does with the answers

\* The run may go on to the phase next, knowing r: what it has used stays used, the
\* calls of the phase it leaves too, and what builders were told stays as it was
Good(next, r) ==
    /\ Fits(next, r)
    /\ \A id : PastAt(phase, run, id) \/ (\E t \in Threads : id = Id(t)) => PastAt(next, r, id)
    /\ phase \in Late => /\ r.rulings = run.rulings /\ r.exchanges = run.exchanges
                         /\ r.labels = run.labels /\ r.judging = run.judging
    /\ r.builds = IF phase = "build" THEN Append(run.builds, Answer) ELSE run.builds
    /\ r.scores = IF phase = "judge"
                  THEN Append(run.scores, [condition |-> run.judging[Len(run.scores) + 1], score |-> Answer])
                  ELSE run.scores

\* The id of a call
LEMMA IdOf ==
    ASSUME NEW t
    PROVE  /\ phase = "review" => Id(t) = <<"reviewer", t, run.round>>
           /\ phase = "select" => Id(t) = <<"selector", run.round>>
           /\ phase = "rule" => Id(t) = <<"principal", run.round, Len(run.rulings) + 1>>
           /\ phase = "score" => Id(t) = <<"scorer", "falsiq">>
           /\ phase = "ask" => Id(t) = <<"naive_baseline", run.round>>
           /\ phase = "answer" => Id(t) = <<"baseline_principal", run.round, Len(run.exchanges) + 1>>
           /\ phase = "score2" => Id(t) = <<"scorer", "baseline">>
           /\ phase = "build" => Id(t) = <<"builder", Len(run.builds) + 1>>
           /\ phase = "judge" => Id(t) = <<"judge", Judged>>
BY DEF Id

\* The phases with no calls
LEMMA Quiet ==
    ASSUME phase \in {"idle", "test", "report"}
    PROVE  Threads = {}
BY DEF Threads

\* What every phase knows
LEMMA FitsAlways ==
    ASSUME NEW ph, NEW r, Fits(ph, r)
    PROVE  /\ DOMAIN r = RunField /\ r.round \in 1 .. Rounds /\ 1 \in 1 .. Rounds /\ Rounds \in Nat
           /\ r.round \in Nat
           /\ IsSeq(r.rulings) /\ IsSeq(r.exchanges) /\ IsSeq(r.builds) /\ IsSeq(r.scores)
           /\ Len(r.rulings) \in Nat /\ Len(r.exchanges) \in Nat /\ Len(r.builds) \in Nat
           /\ Len(r.scores) \in Nat
BY Grows, EvaluationAssumption DEF Fits

\* EndRounds
LEMMA AfterRounds ==
    ASSUME Fits(phase, run), phase \in Loop, NEW r, Fits(phase, r), r.builds = run.builds,
           r.scores = run.scores, EndRounds(r)
    PROVE  \E next, s : To(next, s) /\ Good(next, s)
<1>1. phase \notin Late /\ phase \notin {"build", "judge"}
  BY DEF Loop, Late
<1>2. \A id : PastAt(phase, run, id) \/ (\E t \in Threads : id = Id(t)) =>
         \/ id[1] = "reviewer" /\ id[3] \in Nat
         \/ id[1] = "selector" /\ id[2] \in Nat
         \/ id[1] = "principal" /\ id[3] \in Nat
  <2>1. \A t : \/ Id(t)[1] = "reviewer" /\ Id(t)[3] \in Nat
               \/ Id(t)[1] = "selector" /\ Id(t)[2] \in Nat
               \/ Id(t)[1] = "principal" /\ Id(t)[3] \in Nat
    BY IdOf, FitsAlways DEF Loop
  <2> QED
    BY <1>1, <2>1 DEF PastAt, Loop, Late
<1>3. CASE r.rulings = <<>>
  <2> DEFINE s == [r EXCEPT !.round = 1]
  <2>1. To("ask", s)
    BY <1>3 DEF EndRounds
  <2>2. /\ DOMAIN s = RunField /\ s.round = 1 /\ s.rulings = r.rulings /\ s.exchanges = r.exchanges
        /\ s.builds = r.builds /\ s.scores = r.scores /\ s.written = r.written
    BY FitsAlways DEF RunField
  <2>3. r.builds = <<>> /\ r.scores = <<>> /\ r.written = 0
    BY <1>1 DEF Fits, Loop, Late
  <2> HIDE DEF s
  <2>4. Fits("ask", s)
    BY <2>2, <2>3, FitsAlways DEF Fits, Phases, Late
  <2>5. \A id : PastAt(phase, run, id) \/ (\E t \in Threads : id = Id(t)) => PastAt("ask", s, id)
    BY <1>2 DEF PastAt, Loop
  <2>6. Good("ask", s)
    BY <1>1, <2>2, <2>4, <2>5 DEF Good
  <2> QED
    BY <2>1, <2>6
<1>4. CASE r.rulings # <<>>
  <2>1. To("score", r)
    BY <1>4 DEF EndRounds
  <2>2. Fits("score", r)
    BY <1>1 DEF Fits, Phases, Late, Loop
  <2>3. \A id : PastAt(phase, run, id) \/ (\E t \in Threads : id = Id(t)) => PastAt("score", r, id)
    BY <1>2 DEF PastAt, Loop
  <2>4. Good("score", r)
    BY <1>1, <2>2, <2>3 DEF Good
  <2> QED
    BY <2>1, <2>4
<1> QED
  BY <1>3, <1>4

\* Reviewers and selector
LEMMA ReviewMoves ==
    ASSUME Fits(phase, run), Reviewed \/ Selected
    PROVE  \E next, r : To(next, r) /\ Good(next, r)
<1>1. CASE Reviewed
  <2> DEFINE offered == UNION {call[t].answer[2] : t \in Class}
             r == [run EXCEPT !.offered = offered, !.seen = @ \cup offered]
  <2>1. phase = "review" /\ (IF offered = {} THEN EndRounds(r) ELSE To("select", r))
    BY <1>1 DEF Reviewed
  <2>2. /\ DOMAIN r = RunField /\ r.round = run.round /\ r.rulings = run.rulings
        /\ r.exchanges = run.exchanges /\ r.builds = run.builds /\ r.scores = run.scores
        /\ r.written = run.written
    BY FitsAlways DEF RunField
  <2> HIDE DEF r
  <2>3. Fits("review", r) /\ Fits("select", r)
    BY <2>1, <2>2 DEF Fits, Phases, Late
  <2>4. CASE EndRounds(r)
    BY <2>1, <2>2, <2>3, <2>4, AfterRounds DEF Loop
  <2>5. CASE To("select", r)
    <3>1. \A id : PastAt(phase, run, id) \/ (\E t \in Threads : id = Id(t)) => PastAt("select", r, id)
      <4>1. \A id : PastAt(phase, run, id) => PastAt("select", r, id)
        BY <2>1, <2>2, FitsAlways DEF PastAt, Loop, Late
      <4>2. \A t \in Threads : PastAt("select", r, Id(t))
        BY <2>1, <2>2, IdOf, FitsAlways DEF PastAt
      <4> QED
        BY <4>1, <4>2
    <3>2. Good("select", r)
      BY <2>1, <2>2, <2>3, <3>1 DEF Good, Late
    <3> QED
      BY <2>5, <3>2
  <2> QED
    BY <2>1, <2>4, <2>5
<1>2. CASE Selected
  <2> DEFINE r == [run EXCEPT !.chosen = Answer, !.offered = {}]
  <2>1. phase = "select" /\ To("rule", r)
    BY <1>2 DEF Selected
  <2>2. /\ DOMAIN r = RunField /\ r.round = run.round /\ r.rulings = run.rulings
        /\ r.exchanges = run.exchanges /\ r.builds = run.builds /\ r.scores = run.scores
        /\ r.written = run.written
    BY FitsAlways DEF RunField
  <2> HIDE DEF r
  <2>3. Fits("rule", r)
    BY <2>1, <2>2 DEF Fits, Phases, Late
  <2>4. \A id : PastAt(phase, run, id) => PastAt("rule", r, id)
    BY <2>1, <2>2, FitsAlways DEF PastAt, Loop, Late
  <2>5. \A t \in Threads : PastAt("rule", r, Id(t))
    BY <2>1, <2>2, IdOf, FitsAlways DEF PastAt
  <2>6. Good("rule", r)
    BY <2>1, <2>2, <2>3, <2>4, <2>5 DEF Good, Late
  <2> QED
    BY <2>1, <2>6
<1> QED
  BY <1>1, <1>2

\* Principal
LEMMA RuleMoves ==
    ASSUME Fits(phase, run), Ruled
    PROVE  \E next, r : To(next, r) /\ Good(next, r)
<1> DEFINE ruling == [review |-> Head(run.chosen), round |-> run.round, verdict |-> Answer]
           r == [run EXCEPT !.rulings = Append(@, ruling), !.chosen = Tail(@)]
<1>1. phase = "rule" /\ \/ To("rule", r)
                        \/ MoreRounds(r) /\ To("review", [r EXCEPT !.round = @ + 1])
                        \/ EndRounds(r)
  BY DEF Ruled
<1>2. /\ DOMAIN r = RunField /\ r.round = run.round /\ r.rulings = Append(run.rulings, ruling)
      /\ r.exchanges = run.exchanges /\ r.builds = run.builds /\ r.scores = run.scores
      /\ r.written = run.written
  BY FitsAlways DEF RunField
<1> HIDE DEF r
<1>3. IsSeq(r.rulings) /\ Len(r.rulings) = Len(run.rulings) + 1
  BY <1>2, FitsAlways, Grows
<1>4. Fits("rule", r)
  BY <1>1, <1>2, <1>3 DEF Fits, Phases, Late
<1>5. CASE To("rule", r)
  <2>1. \A id : PastAt(phase, run, id) => PastAt("rule", r, id)
    BY <1>1, <1>2, <1>3, FitsAlways DEF PastAt, Loop, Late
  <2>2. \A t \in Threads : PastAt("rule", r, Id(t))
    BY <1>1, <1>2, <1>3, IdOf, FitsAlways DEF PastAt
  <2>3. Good("rule", r)
    BY <1>1, <1>2, <1>4, <2>1, <2>2 DEF Good, Late
  <2> QED
    BY <1>5, <2>3
<1>6. CASE MoreRounds(r) /\ To("review", [r EXCEPT !.round = @ + 1])
  <2> DEFINE s == [r EXCEPT !.round = @ + 1]
  <2>1. /\ DOMAIN s = RunField /\ s.round = r.round + 1 /\ s.rulings = r.rulings
        /\ s.exchanges = r.exchanges /\ s.builds = r.builds /\ s.scores = r.scores
        /\ s.written = r.written
    BY <1>2 DEF RunField
  <2>2. r.round < Rounds
    BY <1>6 DEF MoreRounds
  <2>3. To("review", s)
    BY <1>6
  <2> HIDE DEF s
  <2>4. s.round \in 1 .. Rounds
    BY <1>4, <2>1, <2>2, FitsAlways
  <2>5. Fits("review", s)
    BY <1>4, <2>1, <2>4 DEF Fits, Phases, Late
  <2>6. \A id : PastAt(phase, run, id) => PastAt("review", s, id)
    BY <1>1, <1>2, <1>3, <2>1, FitsAlways DEF PastAt, Loop, Late
  <2>7. \A t \in Threads : PastAt("review", s, Id(t))
    BY <1>1, <1>2, <1>3, <2>1, IdOf, FitsAlways DEF PastAt
  <2>8. Good("review", s)
    BY <1>1, <1>2, <2>1, <2>5, <2>6, <2>7 DEF Good, Late
  <2> QED
    BY <2>3, <2>8
<1>7. CASE EndRounds(r)
  BY <1>1, <1>2, <1>4, <1>7, AfterRounds DEF Loop
<1> QED
  BY <1>1, <1>5, <1>6, <1>7

\* The ids of an elicitation
Elicited(id) ==
    \/ id[1] = "reviewer" /\ id[3] \in Nat
    \/ id[1] = "selector" /\ id[2] \in Nat
    \/ id[1] = "principal" /\ id[3] \in Nat
    \/ id[1] = "scorer" /\ id[2] \in {"falsiq", "baseline"}
    \/ id[1] = "naive_baseline" /\ id[2] \in Nat
    \/ id[1] = "baseline_principal" /\ id[3] \in Nat

\* EndScores
LEMMA AfterScores ==
    ASSUME Fits(phase, run), phase \in {"ask", "answer", "score2"}, NEW r, Fits(phase, r),
           r.builds = run.builds, r.scores = run.scores, EndScores(r)
    PROVE  \E next, s : To(next, s) /\ Good(next, s)
<1>1. phase \notin Late /\ phase \notin {"build", "judge", "report"}
  BY DEF Late
<1>2. \A id : PastAt(phase, run, id) \/ (\E t \in Threads : id = Id(t)) => Elicited(id)
  <2>1. \A t : Elicited(Id(t))
    BY IdOf, FitsAlways DEF Elicited
  <2> QED
    BY <1>1, <2>1 DEF PastAt, Elicited
<1>3. r.builds = <<>> /\ r.scores = <<>> /\ r.written = 0
  BY <1>1 DEF Fits
<1>4. ASSUME NEW next \in {"report", "build"}, NEW s, NEW id, Elicited(id)
      PROVE  PastAt(next, s, id)
  BY <1>4 DEF Elicited, PastAt, Loop, Late
<1>5. CASE To("report", r)
  <2>1. Fits("report", r)
    BY <1>3, FitsAlways DEF Fits, Phases, Late
  <2>2. Good("report", r)
    BY <1>1, <1>2, <1>4, <2>1 DEF Good
  <2> QED
    BY <1>5, <2>2
<1>6. ASSUME NEW labels \in LabelOrders, NEW judging \in JudgeOrders,
             To("build", [r EXCEPT !.labels = labels, !.judging = judging])
      PROVE  \E next, s : To(next, s) /\ Good(next, s)
  <2> DEFINE s == [r EXCEPT !.labels = labels, !.judging = judging]
  <2>1. /\ DOMAIN s = RunField /\ s.round = r.round /\ s.rulings = r.rulings
        /\ s.exchanges = r.exchanges /\ s.builds = r.builds /\ s.scores = r.scores
        /\ s.written = r.written /\ s.labels = labels /\ s.judging = judging
    BY FitsAlways DEF RunField
  <2>2. labels \in Orders /\ judging \in Orders
    BY EvaluationAssumption
  <2> HIDE DEF s
  <2>3. Fits("build", s)
    <3>1. s.builds = <<>> /\ Len(s.builds) = 0 /\ s.scores = <<>> /\ s.written = 0
      BY <1>3, <2>1
    <3> QED
      BY <2>1, <2>2, <3>1, FitsAlways DEF Fits, Phases, Late
  <2>4. Good("build", s)
    BY <1>1, <1>2, <1>4, <2>1, <2>3 DEF Good
  <2> QED
    BY <1>6, <2>4 DEF s
<1> QED
  BY <1>5, <1>6 DEF EndScores

\* NextQuestion
LEMMA AfterQuestion ==
    ASSUME Fits(phase, run), phase \in {"ask", "answer"}, NEW r, Fits(phase, r), r.round = run.round,
           r.builds = run.builds, r.scores = run.scores,
           Len(r.exchanges) = IF phase = "ask" THEN Len(run.exchanges) ELSE Len(run.exchanges) + 1,
           NextQuestion(r)
    PROVE  \E next, s : To(next, s) /\ (next = "idle" \/ Good(next, s))
<1>1. phase \notin Late /\ phase \notin {"build", "judge", "report"}
  BY DEF Late
<1>2. ASSUME NEW next \in {"ask", "answer", "score2"}, NEW s, Fits(next, s), s.builds = run.builds,
             s.scores = run.scores, s.exchanges = r.exchanges,
             IF next = "ask" THEN s.round = run.round + 1 ELSE s.round = run.round
      PROVE  Good(next, s)
  <2>1. \A id : PastAt(phase, run, id) => PastAt(next, s, id)
    BY <1>1, <1>2, FitsAlways DEF PastAt, Loop, Late
  <2>2. \A t \in Threads : PastAt(next, s, Id(t))
    BY <1>1, <1>2, IdOf, FitsAlways DEF PastAt, Loop, Late
  <2> QED
    BY <1>1, <1>2, <2>1, <2>2 DEF Good
<1>3. CASE To("idle", r)
  BY <1>3
<1>4. CASE To("answer", r)
  <2>1. Fits("answer", r)
    BY DEF Fits, Phases, Late
  <2> QED
    BY <1>2, <1>4, <2>1
<1>5. CASE r.round < Rounds /\ To("ask", [r EXCEPT !.round = @ + 1])
  <2> DEFINE s == [r EXCEPT !.round = @ + 1]
  <2>1. /\ DOMAIN s = RunField /\ s.round = r.round + 1 /\ s.rulings = r.rulings
        /\ s.exchanges = r.exchanges /\ s.builds = r.builds /\ s.scores = r.scores
        /\ s.written = r.written
    BY FitsAlways DEF RunField
  <2>2. To("ask", s)
    BY <1>5
  <2> HIDE DEF s
  <2>3. s.round \in 1 .. Rounds
    BY <1>5, <2>1, FitsAlways
  <2>4. Fits("ask", s)
    BY <2>1, <2>3 DEF Fits, Phases, Late
  <2> QED
    BY <1>2, <2>1, <2>2, <2>4
<1>6. CASE To("score2", r)
  <2>1. Fits("score2", r)
    BY DEF Fits, Phases, Late
  <2> QED
    BY <1>2, <1>6, <2>1
<1>7. CASE EndScores(r)
  BY <1>7, AfterScores
<1> QED
  BY <1>3, <1>4, <1>5, <1>6, <1>7 DEF NextQuestion, EndQuestions

\* Scorers, asker and the principal of the baseline
LEMMA AskMoves ==
    ASSUME Fits(phase, run), Scored \/ Asked \/ Answered \/ Scored2
    PROVE  \E next, r : To(next, r) /\ (next = "idle" \/ Good(next, r))
<1>1. CASE Scored
  <2> DEFINE r == [run EXCEPT !.round = 1]
  <2>1. phase = "score" /\ To("ask", r)
    BY <1>1 DEF Scored
  <2>2. /\ DOMAIN r = RunField /\ r.round = 1 /\ r.rulings = run.rulings
        /\ r.exchanges = run.exchanges /\ r.builds = run.builds /\ r.scores = run.scores
        /\ r.written = run.written
    BY FitsAlways DEF RunField
  <2> HIDE DEF r
  <2>3. Fits("ask", r)
    BY <2>1, <2>2, FitsAlways DEF Fits, Phases, Late
  <2>4. \A id : PastAt(phase, run, id) => PastAt("ask", r, id)
    BY <2>1 DEF PastAt, Loop, Late
  <2>5. \A t \in Threads : PastAt("ask", r, Id(t))
    BY <2>1, IdOf DEF PastAt, Loop
  <2>6. Good("ask", r)
    BY <2>1, <2>2, <2>3, <2>4, <2>5 DEF Good, Late
  <2> QED
    BY <2>1, <2>6
<1>2. CASE Asked
  <2> DEFINE r == [run EXCEPT !.questions = Answer]
  <2>1. phase = "ask" /\ NextQuestion(r)
    BY <1>2 DEF Asked
  <2>2. /\ DOMAIN r = RunField /\ r.round = run.round /\ r.rulings = run.rulings
        /\ r.exchanges = run.exchanges /\ r.builds = run.builds /\ r.scores = run.scores
        /\ r.written = run.written
    BY FitsAlways DEF RunField
  <2> HIDE DEF r
  <2>3. Fits("ask", r)
    BY <2>1, <2>2 DEF Fits, Late
  <2> QED
    BY <2>1, <2>2, <2>3, AfterQuestion
<1>3. CASE Answered
  <2> DEFINE q == Head(run.questions)
             r == [run EXCEPT !.exchanges = Append(@, q), !.questions = Tail(@)]
  <2>1. phase = "answer" /\ NextQuestion(r)
    BY <1>3 DEF Answered
  <2>2. /\ DOMAIN r = RunField /\ r.round = run.round /\ r.rulings = run.rulings
        /\ r.exchanges = Append(run.exchanges, q) /\ r.builds = run.builds /\ r.scores = run.scores
        /\ r.written = run.written
    BY FitsAlways DEF RunField
  <2> HIDE DEF r, q
  <2>3. IsSeq(r.exchanges) /\ Len(r.exchanges) = Len(run.exchanges) + 1
    BY <2>2, FitsAlways, Grows
  <2>4. Fits("answer", r)
    BY <2>1, <2>2, <2>3 DEF Fits, Late
  <2> QED
    BY <2>1, <2>2, <2>3, <2>4, AfterQuestion
<1>4. CASE Scored2
  BY <1>4, AfterScores DEF Scored2
<1> QED
  BY <1>1, <1>2, <1>3, <1>4

\* Builders, tests and judges
LEMMA BuildMoves ==
    ASSUME Fits(phase, run), Built \/ Test \/ JudgedOne
    PROVE  \E next, r : To(next, r) /\ (next = "idle" \/ Good(next, r))
<1>1. CASE Built
  <2> DEFINE r == [run EXCEPT !.builds = Append(@, Answer)]
             next == IF Len(r.builds) = Len(r.labels) THEN "test" ELSE "build"
  <2>1. phase = "build" /\ To(next, r)
    BY <1>1 DEF Built
  <2>2. /\ DOMAIN r = RunField /\ r.round = run.round /\ r.rulings = run.rulings
        /\ r.exchanges = run.exchanges /\ r.builds = Append(run.builds, Answer)
        /\ r.scores = run.scores /\ r.written = run.written
        /\ r.labels = run.labels /\ r.judging = run.judging
    BY FitsAlways DEF RunField
  <2> HIDE DEF r
  <2>3. IsSeq(r.builds) /\ Len(r.builds) = Len(run.builds) + 1 /\ Len(run.builds) \in Nat
    BY <2>2, FitsAlways, Grows
  <2>4. Len(r.labels) = 3 /\ Len(run.builds) < 3
    <3>1. run.labels \in Orders /\ Len(run.builds) < 3
      BY <2>1 DEF Fits
    <3>2. run.labels \in [1 .. 3 -> Conditions]
      BY <3>1 DEF Orders
    <3>3. Len(run.labels) = 3
      BY <3>2
    <3> QED
      BY <2>2, <3>1, <3>3
  <2>5. next = "build" => Len(r.builds) < 3
    BY <2>3, <2>4
  <2>6. next = "test" => Len(r.builds) = 3
    BY <2>3, <2>4
  <2>7. next \in {"test", "build"}
    OBVIOUS
  <2> HIDE DEF next
  <2>8. Fits(next, r)
    BY <2>1, <2>2, <2>3, <2>5, <2>6, <2>7 DEF Fits, Phases, Late
  <2>9. \A id : PastAt(phase, run, id) => PastAt(next, r, id)
    BY <2>1, <2>3, <2>7 DEF PastAt, Loop, Late
  <2>10. \A t \in Threads : PastAt(next, r, Id(t))
    BY <2>1, <2>3, <2>7, IdOf DEF PastAt, Late
  <2>11. Good(next, r)
    BY <2>1, <2>2, <2>8, <2>9, <2>10 DEF Good
  <2> QED
    BY <2>1, <2>11
<1>2. CASE Test
  <2>1. phase = "test" /\ \E next \in {"judge", "idle"} : To(next, run)
    BY <1>2 DEF Test
  <2>2. CASE To("judge", run)
    <3>1. run.scores = <<>>
      BY <2>1 DEF Fits
    <3>2. Fits("judge", run)
      BY <2>1, <3>1 DEF Fits, Phases, Late
    <3>3. \A id : PastAt(phase, run, id) => PastAt("judge", run, id)
      BY <2>1 DEF PastAt, Loop, Late
    <3>4. Good("judge", run)
      BY <2>1, <3>2, <3>3, Quiet DEF Good
    <3> QED
      BY <2>2, <3>4
  <2> QED
    BY <2>1, <2>2
<1>3. CASE JudgedOne
  <2> DEFINE e == [condition |-> run.judging[Len(run.scores) + 1], score |-> Answer]
             r == [run EXCEPT !.scores = Append(@, [condition |-> run.judging[Len(@) + 1], score |-> Answer])]
             next == IF Len(r.scores) = Len(r.judging) THEN "report" ELSE "judge"
  <2>1. phase = "judge" /\ To(next, r)
    BY <1>3 DEF JudgedOne
  <2>2. /\ DOMAIN r = RunField /\ r.round = run.round /\ r.rulings = run.rulings
        /\ r.exchanges = run.exchanges /\ r.builds = run.builds
        /\ r.scores = Append(run.scores, e) /\ r.written = run.written
        /\ r.labels = run.labels /\ r.judging = run.judging
    BY FitsAlways DEF RunField
  <2> HIDE DEF r
  <2>3. IsSeq(r.scores) /\ Len(r.scores) = Len(run.scores) + 1 /\ Len(run.scores) \in Nat
    BY <2>2, FitsAlways, Grows
  <2>4. Len(r.judging) = 3 /\ Len(run.scores) < 3
    <3>1. run.judging \in Orders /\ Len(run.scores) < 3
      BY <2>1 DEF Fits
    <3>2. run.judging \in [1 .. 3 -> Conditions]
      BY <3>1 DEF Orders
    <3>3. Len(run.judging) = 3
      BY <3>2
    <3> QED
      BY <2>2, <3>1, <3>3
  <2>5. next = "judge" => Len(r.scores) < 3
    BY <2>3, <2>4
  <2>6. next \in {"judge", "report"}
    OBVIOUS
  <2> HIDE DEF next
  <2>7. Fits(next, r)
    BY <2>1, <2>2, <2>3, <2>5, <2>6 DEF Fits, Phases, Late
  <2>8. \A id : PastAt(phase, run, id) => PastAt(next, r, id)
    BY <2>1, <2>2, <2>3, <2>6 DEF PastAt, Loop, Late
  <2>9. \A t \in Threads : PastAt(next, r, Id(t))
    <3>1. Len(run.scores) + 1 \in 1 .. Len(r.scores)
          /\ r.labels[Judged] = r.judging[Len(run.scores) + 1]
      BY <2>1, <2>2, <2>3, JudgedIs
    <3> QED
      BY <2>1, <2>6, <3>1, IdOf DEF PastAt
  <2>10. Good(next, r)
    <3>1. r.scores = Append(run.scores, e)
      BY <2>2
    <3> HIDE DEF e
    <3> QED
      BY <2>1, <2>2, <2>7, <2>8, <2>9, <3>1 DEF Good, e
  <2> QED
    BY <2>1, <2>10
<1> QED
  BY <1>1, <1>2, <1>3

\* Reports, and a run that fails
LEMMA ReportMoves ==
    ASSUME Fits(phase, run), WriteReport \/ WriteFails \/ Fail
    PROVE  \E next, r : To(next, r) /\ (next = "idle" \/ Good(next, r))
<1>1. CASE WriteReport
  <2> DEFINE r == [run EXCEPT !.written = @ + 1]
             next == IF run.written + 1 = Len(Files) THEN "idle" ELSE "report"
  <2>1. phase = "report" /\ To(next, r)
    BY <1>1 DEF WriteReport
  <2>2. /\ DOMAIN r = RunField /\ r.round = run.round /\ r.rulings = run.rulings
        /\ r.exchanges = run.exchanges /\ r.builds = run.builds
        /\ r.scores = run.scores /\ r.written = run.written + 1
        /\ r.labels = run.labels /\ r.judging = run.judging
    BY FitsAlways DEF RunField
  <2> HIDE DEF r
  <2>3. CASE next = "report"
    <3>1. Len(Files) = 3 /\ run.written \in 0 .. 2
      BY DEF Files, Fits
    <3>2. r.written \in 0 .. 2
      BY <2>2, <2>3, <3>1
    <3>3. Fits("report", r)
      BY <2>1, <2>2, <3>2 DEF Fits, Phases, Late
    <3>4. \A id : PastAt(phase, run, id) => PastAt("report", r, id)
      BY <2>1 DEF PastAt, Loop, Late
    <3>5. Good("report", r)
      BY <2>1, <2>2, <3>3, <3>4, Quiet DEF Good
    <3> QED
      BY <2>1, <2>3, <3>5
  <2> QED
    BY <2>1, <2>3
<1>2. CASE WriteFails \/ Fail
  BY <1>2 DEF WriteFails, Fail
<1> QED
  BY <1>1, <1>2

\* Every step of the harness
LEMMA HarnessMoves ==
    ASSUME Fits(phase, run), Harness
    PROVE  \E next, r : To(next, r) /\ (next = "idle" \/ (Good(next, r) /\ (Threads = {} \/ Accepted)))
<1>1. CASE Fail \/ WriteFails
  BY <1>1 DEF Fail, WriteFails
<1>2. CASE Collect
  <2>1. Accepted
    BY <1>2 DEF Collect
  <2>2. \E next, r : To(next, r) /\ (next = "idle" \/ Good(next, r))
    BY <1>2, ReviewMoves, RuleMoves, AskMoves, BuildMoves DEF Collect
  <2> QED
    BY <2>1, <2>2
<1>3. CASE Test \/ WriteReport
  <2>1. Threads = {}
    BY <1>3, Quiet DEF Test, WriteReport
  <2> QED
    BY <1>3, <2>1, BuildMoves, ReportMoves
<1> QED
  BY <1>1, <1>2, <1>3 DEF Harness

-----------------------------------------------------------------------------
\* Calls and transcripts

\* The types of a call
CallFits(k) ==
    /\ k.stage \in Stages /\ k.child \in Children /\ k.output \in Outputs
    /\ k.stage = "running" => k.child # "none"

Recorded(id, request, response) ==
    id \in DOMAIN captures /\ captures[id] = [request |-> request, response |-> response]

\* What a thread's call is for, and what it has to show for it
CallAt(t, k) ==
    /\ CallFits(k)
    /\ k.stage # "off" => t \in Threads /\ k.id = Id(t) /\ k.request = Request
    /\ k.output = "whole" => k.answer \in Answers(k.id, k.request)
    /\ k.stage = "capture" => k.output = "whole"
    /\ k.stage = "answered" => Recorded(k.id, k.request, k.answer)

\* Transcripts hold what agents may answer
TranscriptsFit ==
    \A id \in DOMAIN captures :
        /\ Recorded(id, captures[id].request, captures[id].response)
        /\ captures[id].response \in Answers(id, captures[id].request)

DocInv ==
    /\ ChildInv
    /\ Fits(phase, run)
    /\ \A t \in Thread : CallAt(t, call[t])
    /\ TranscriptsFit
    /\ phase = "idle" => used = {}
    /\ \A u \in used : PastAt(phase, run, u[1])
    /\ RunDocumented

\* What a step makes of the call k of thread t: it begins,
Begins(t, k, c) ==
    /\ k.stage = "off" /\ t \in Threads /\ c.id = Id(t) /\ c.request = Request /\ c.output = "part"
    /\ c.stage \in {"running", "failed", "answered"} /\ captures' = captures
    /\ c.stage = "answered" =>
          c.id \in DOMAIN captures /\ captures[c.id].request = c.request /\ c.answer = captures[c.id].response

\* or goes on
GoesOn(t, k, c) ==
    /\ k.stage # "off" /\ c.stage # "off" /\ c.id = k.id /\ c.request = k.request
    /\ c.output = "whole" => c.answer \in Answers(c.id, c.request)
    /\ c.stage = "capture" => c.output = "whole"
    /\ c.stage = "answered" => k.stage = "capture" /\ c.answer = k.answer /\ captures' = Transcribed(t)
    /\ captures' = captures \/ (k.stage = "capture" /\ captures' = Transcribed(t))

\* A step of a thread changes its call and the transcripts like that
LEMMA CallMoves ==
    ASSUME ChildInv, NEW t \in Thread, CallAt(t, call[t]), Calls(t) \/ Serves(t) \/ Waits(t)
    PROVE  \E c : /\ Becomes(t, c) /\ CallFits(c)
                  /\ Begins(t, call[t], c) \/ GoesOn(t, call[t], c)
<1> DEFINE k == call[t]
           Done(c) == Becomes(t, c) /\ CallFits(c) /\ (Begins(t, k, c) \/ GoesOn(t, k, c))
<1> SUFFICES \E c : Done(c)
  OBVIOUS
<1>1. /\ DOMAIN k = Field /\ CallFits(k)
      /\ k.child = "up" => k.stage \in {"running", "aborting"}
      /\ k.output = "whole" => k.answer \in Answers(k.id, k.request)
      /\ k.stage = "capture" => k.output = "whole"
  BY DEF ChildInv, OneEach, Attended, CallAt
<1>2. CASE Calls(t)
  <2> DEFINE id == Id(t)
             request == Request
  <2>1. t \in Threads /\ k.stage = "off" /\ captures' = captures
        /\ ((Replay(t, id, request) /\ id \in DOMAIN captures) \/ Spawn(t, id, request))
    BY <1>2 DEF Calls, Invoke, Replay, Spawn
  <2> HIDE DEF id, request
  <2>2. CASE Replay(t, id, request) /\ id \in DOMAIN captures
    <3> DEFINE stage == IF captures[id].request = request THEN "answered" ELSE "failed"
               answer == IF captures[id].request = request THEN captures[id].response ELSE <<>>
               c == [NoCall EXCEPT !.id = id, !.request = request, !.stage = stage, !.answer = answer]
    <3>1. Becomes(t, c)
      BY <2>2 DEF Replay
    <3>2. /\ c.id = id /\ c.request = request /\ c.stage = stage /\ c.answer = answer
          /\ c.child = "none" /\ c.output = "part"
      BY DEF NoCall
    <3> HIDE DEF c
    <3>3. CallFits(c)
      BY <3>2 DEF CallFits, Stages, Children, Outputs
    <3>4. Begins(t, k, c)
      BY <2>1, <2>2, <3>2 DEF Begins, id, request
    <3> QED
      BY <3>1, <3>3, <3>4
  <2>3. CASE Spawn(t, id, request)
    <3>1. PICK s \in {[stage |-> "running", child |-> "up"], [stage |-> "failed", child |-> "none"]} :
            Becomes(t, [NoCall EXCEPT !.stage = s.stage, !.child = s.child, !.id = id, !.request = request])
      BY <2>3 DEF Spawn
    <3> DEFINE c == [NoCall EXCEPT !.stage = s.stage, !.child = s.child, !.id = id, !.request = request]
    <3>2. c.id = id /\ c.request = request /\ c.stage = s.stage /\ c.child = s.child /\ c.output = "part"
      BY DEF NoCall
    <3>3. Becomes(t, c)
      BY <3>1
    <3> HIDE DEF c
    <3>4. CallFits(c)
      BY <3>1, <3>2 DEF CallFits, Stages, Children, Outputs
    <3>5. Begins(t, k, c)
      BY <2>1, <3>1, <3>2 DEF Begins, id, request
    <3> QED
      BY <3>3, <3>4, <3>5
  <2> QED
    BY <2>1, <2>2, <2>3
<1>3. CASE Serves(t) \/ Waits(t)
  <2>1. ASSUME NEW output \in {"whole", "over"}, NEW answer, k.child = "up", captures' = captures,
               Becomes(t, [k EXCEPT !.output = output, !.answer = answer]),
               output = "whole" => answer \in Answers(k.id, k.request)
        PROVE  \E c : Done(c)
    <3> DEFINE c == [k EXCEPT !.output = output, !.answer = answer]
    <3>1. /\ c.id = k.id /\ c.request = k.request /\ c.stage = k.stage /\ c.child = k.child
          /\ c.output = output /\ c.answer = answer
      BY <1>1 DEF Field
    <3>2. Becomes(t, c)
      BY <2>1
    <3> HIDE DEF c
    <3>3. CallFits(c)
      BY <1>1, <3>1 DEF CallFits, Outputs
    <3>4. GoesOn(t, k, c)
      BY <1>1, <2>1, <3>1 DEF GoesOn
    <3> QED
      BY <3>2, <3>3, <3>4
  <2>2. ASSUME NEW stage \in Stages \ {"off"}, NEW child \in Children,
               Becomes(t, [k EXCEPT !.stage = stage, !.child = child]), k.stage # "off",
               stage = "running" => child # "none", stage = "capture" => k.output = "whole",
               stage = "answered" => k.stage = "capture" /\ captures' = Transcribed(t),
               captures' = captures \/ (k.stage = "capture" /\ captures' = Transcribed(t))
        PROVE  \E c : Done(c)
    <3> DEFINE c == [k EXCEPT !.stage = stage, !.child = child]
    <3>1. /\ c.id = k.id /\ c.request = k.request /\ c.stage = stage /\ c.child = child
          /\ c.output = k.output /\ c.answer = k.answer
      BY <1>1 DEF Field
    <3>2. Becomes(t, c)
      BY <2>2
    <3> HIDE DEF c
    <3>3. CallFits(c)
      BY <1>1, <2>2, <3>1 DEF CallFits
    <3>4. GoesOn(t, k, c)
      BY <1>1, <2>2, <3>1 DEF GoesOn
    <3> QED
      BY <3>2, <3>3, <3>4
  <2>3. ASSUME NEW child \in Children \ {"none"}, Becomes(t, [k EXCEPT !.child = child]),
               k.child = "up", captures' = captures
        PROVE  \E c : Done(c)
    <3>1. [k EXCEPT !.child = child] = [k EXCEPT !.stage = k.stage, !.child = child]
      BY <1>1 DEF Field
    <3>2. k.stage \in Stages \ {"off"} /\ k.stage # "capture" /\ k.stage # "answered"
      BY <1>1, <2>3 DEF Stages
    <3> QED
      BY <2>2, <2>3, <3>1, <3>2
  <2>4. ASSUME NEW stage \in Stages \ {"off", "running"}, Goes(t, stage), k.stage # "off",
               stage = "capture" => k.output = "whole",
               stage = "answered" => k.stage = "capture" /\ captures' = Transcribed(t),
               captures' = captures \/ (k.stage = "capture" /\ captures' = Transcribed(t))
        PROVE  \E c : Done(c)
    <3>1. [k EXCEPT !.stage = stage] = [k EXCEPT !.stage = stage, !.child = k.child]
      BY <1>1 DEF Field
    <3>2. k.child \in Children
      BY <1>1 DEF CallFits
    <3> QED
      BY <2>2, <2>4, <3>1, <3>2 DEF Goes
  <2>5. CASE Writes(t)
    BY <2>1, <2>5 DEF Writes
  <2>6. CASE Exits(t)
    BY <2>3, <2>6 DEF Exits, Children
  <2>7. CASE KillOversized(t)
    BY <2>3, <2>7 DEF KillOversized, Killed, Children
  <2>8. CASE TimesOut(t)
    <3> DEFINE child == Killed(k.child)
               stage == "aborting"
    <3>1. child \in Children
      BY <1>1 DEF Killed, Children, CallFits
    <3>2. Becomes(t, [k EXCEPT !.stage = stage, !.child = child]) /\ k.stage # "off" /\ captures' = captures
      BY <2>8 DEF TimesOut
    <3>3. stage \in Stages \ {"off"} /\ stage \notin {"running", "capture", "answered"}
      BY DEF Stages
    <3> HIDE DEF child, stage, k
    <3> QED
      BY <2>2, <3>1, <3>2, <3>3
  <2>9. CASE Aborted(t)
    BY <2>4, <2>9 DEF Aborted, Stages
  <2>10. CASE Ends(t)
    BY <2>4, <2>10 DEF Ends, Stages
  <2>11. CASE Capture(t)
    BY <2>4, <2>11 DEF Capture, Stages
  <2>12. CASE CaptureFails(t)
    BY <2>4, <2>12 DEF CaptureFails, Stages
  <2> QED
    BY <1>3, <2>5, <2>6, <2>7, <2>8, <2>9, <2>10, <2>11, <2>12 DEF Serves, Waits, Child, Parent
<1> QED
  BY <1>2, <1>3

\* The calls of two threads have different ids
LEMMA OwnId ==
    ASSUME NEW t \in Threads, NEW q \in Threads, t # q
    PROVE  Id(t) # Id(q)
<1>1. phase = "review"
  BY DEF Threads
<1>2. Id(t)[2] = t /\ Id(q)[2] = q
  BY <1>1, IdOf
<1> QED
  BY <1>2

\* Such a step keeps all that was recorded, and records the call at its end
LEMMA DocThread ==
    ASSUME DocInv, NEW t \in Thread, Calls(t) \/ Serves(t) \/ Waits(t)
    PROVE  DocInv'
<1>1. phase' = phase /\ run' = run /\ used' = used
  BY DEF Calls, Serves, Waits
<1>2. PICK c : /\ Becomes(t, c) /\ CallFits(c)
               /\ Begins(t, call[t], c) \/ GoesOn(t, call[t], c)
  BY CallMoves DEF DocInv
<1>3. DOMAIN call = Thread /\ call'[t] = c /\ \A q \in Thread \ {t} : call'[q] = call[q]
  BY <1>2 DEF DocInv, ChildInv, OneEach, Becomes
<1>4. Threads' = Threads /\ Request' = Request /\ \A q : Id(q)' = Id(q)
  BY <1>1 DEF Threads, Request, Id, Instructions, Judged
<1>0. PICK k : k = call[t]
  OBVIOUS
<1>5. CallAt(t, k) /\ TranscriptsFit /\ Fits(phase, run)
  BY <1>0 DEF DocInv
<1>6. captures' = captures \/ (k.stage = "capture" /\ captures' = Transcribed(t) /\ c.id = k.id
                               /\ c.request = k.request)
  BY <1>0, <1>2 DEF Begins, GoesOn
<1>7. k.stage = "capture" => /\ t \in Threads /\ k.id = Id(t) /\ k.answer \in Answers(k.id, k.request)
                             /\ Transcript(t) = [request |-> k.request, response |-> k.answer]
  BY <1>0, <1>5 DEF CallAt, Transcript
<1>8. ASSUME NEW id, NEW request, NEW response, Recorded(id, request, response),
             k.stage = "capture" => id # k.id
      PROVE  Recorded(id, request, response)'
  BY <1>0, <1>6, <1>8 DEF Recorded, Transcribed
<1>9. captures' = Transcribed(t) /\ k.stage = "capture" => Recorded(k.id, k.request, k.answer)'
  BY <1>0, <1>7 DEF Recorded, Transcribed
<1>10. CallAt(t, c)'
  <2>1. c.stage # "off" => t \in Threads /\ c.id = Id(t) /\ c.request = Request
    BY <1>0, <1>2, <1>5 DEF Begins, GoesOn, CallAt
  <2>2. c.output = "whole" => c.answer \in Answers(c.id, c.request)
    BY <1>2 DEF Begins, GoesOn
  <2>3. c.stage = "capture" => c.output = "whole"
    BY <1>2 DEF Begins, GoesOn
  <2>4. c.stage = "answered" => Recorded(c.id, c.request, c.answer)'
    <3>1. CASE c.stage = "answered" /\ Begins(t, k, c)
      <4>1. Recorded(c.id, c.request, c.answer)
        BY <1>5, <3>1 DEF Begins, TranscriptsFit, Recorded
      <4>2. k.stage # "capture"
        BY <3>1 DEF Begins
      <4> QED
        BY <1>8, <4>1, <4>2
    <3>2. CASE c.stage = "answered" /\ GoesOn(t, k, c)
      BY <1>9, <3>2 DEF GoesOn
    <3> QED
      BY <1>0, <1>2, <3>1, <3>2
  <2> QED
    BY <1>2, <1>4, <2>1, <2>2, <2>3, <2>4 DEF CallAt, CallFits
<1>11. ASSUME NEW q \in Thread \ {t} PROVE CallAt(q, call[q])'
  <2>1. CallAt(q, call[q]) /\ call'[q] = call[q]
    BY <1>3 DEF DocInv
  <2>2. PICK kq : kq = call[q]
    OBVIOUS
  <2>3. kq.stage = "answered" => Recorded(kq.id, kq.request, kq.answer)'
    <3>1. kq.stage = "answered" => Recorded(kq.id, kq.request, kq.answer) /\ q \in Threads /\ kq.id = Id(q)
      BY <2>1, <2>2 DEF CallAt
    <3>2. kq.stage = "answered" /\ k.stage = "capture" => kq.id # k.id
      BY <1>7, <3>1, OwnId
    <3> QED
      BY <1>8, <3>1, <3>2
  <2> QED
    BY <1>4, <2>1, <2>2, <2>3 DEF CallAt, CallFits
<1>12. TranscriptsFit'
  <2>1. CASE captures' = captures
    BY <1>5, <2>1 DEF TranscriptsFit, Recorded
  <2>2. CASE k.stage = "capture" /\ captures' = Transcribed(t)
    <3>1. DOMAIN captures' = DOMAIN captures \cup {k.id}
      BY <1>0, <2>2 DEF Transcribed
    <3>2. captures'[k.id] = [request |-> k.request, response |-> k.answer]
      BY <1>0, <1>7, <2>2 DEF Transcribed
    <3>3. \A id \in DOMAIN captures \ {k.id} : captures'[id] = captures[id]
      BY <1>0, <2>2 DEF Transcribed
    <3>4. ASSUME NEW id \in DOMAIN captures'
          PROVE  /\ captures'[id] = [request |-> captures'[id].request, response |-> captures'[id].response]
                 /\ captures'[id].response \in Answers(id, captures'[id].request)
      <4>1. CASE id = k.id
        BY <1>7, <2>2, <3>2, <4>1
      <4>2. CASE id # k.id
        BY <1>5, <3>1, <3>3, <4>2 DEF TranscriptsFit, Recorded
      <4> QED
        BY <4>1, <4>2
    <3> QED
      BY <3>4 DEF TranscriptsFit, Recorded
  <2> QED
    BY <1>6, <2>1, <2>2
<1>13. ASSUME NEW u \in used PROVE Recorded(u[1], u[2], u[3])'
  <2>1. Recorded(u[1], u[2], u[3]) /\ PastAt(phase, run, u[1])
    BY DEF DocInv, RunDocumented, Recorded
  <2>2. k.stage = "capture" => u[1] # k.id
    BY <1>5, <1>7, <2>1, NotPast
  <2> QED
    BY <1>8, <2>1, <2>2
<1>14. RunDocumented'
  BY <1>1, <1>13 DEF RunDocumented, Recorded
<1>15. ChildInv'
  BY ThreadStep DEF DocInv
<1>16. \A q \in Thread : CallAt(q, call[q])'
  BY <1>3, <1>10, <1>11
<1> QED
  BY <1>1, <1>12, <1>14, <1>15, <1>16 DEF DocInv

\* A phase that ends adds what is recorded
LEMMA DocHarness ==
    ASSUME DocInv, Harness
    PROVE  DocInv'
<1>1. PICK next, r : To(next, r) /\ (next = "idle" \/ (Good(next, r) /\ (Threads = {} \/ Accepted)))
  BY HarnessMoves DEF DocInv
<1>2. captures' = captures
  BY DEF Harness
<1>3. ChildInv' /\ CallsOver
  BY HarnessEnds, PhaseEnds DEF DocInv
<1>4. ASSUME NEW t \in Thread PROVE CallAt(t, call[t])'
  <2>1. call'[t] = [NoCall EXCEPT !.child = IF call[t].child = "up" THEN "up" ELSE "none"]
    BY <1>3 DEF CallsOver
  <2>2. call'[t].stage = "off" /\ call'[t].output = "part" /\ call'[t].child \in {"up", "none"}
    BY <2>1 DEF NoCall
  <2> QED
    BY <2>2 DEF CallAt, CallFits, Stages, Children, Outputs
<1>5. TranscriptsFit'
  BY <1>2 DEF DocInv, TranscriptsFit, Recorded
<1>6. CASE next = "idle"
  <2>1. phase' = "idle" /\ run' = NoRun /\ used' = {}
    BY <1>1, <1>6 DEF To
  <2>2. Fits("idle", NoRun)
    <3>1. IsSeq(<<>>) /\ 1 \in 1 .. Rounds
      BY EvaluationAssumption DEF IsSeq
    <3> QED
      BY <3>1 DEF Fits, NoRun, RunField, Phases, Late
  <2> QED
    BY <1>3, <1>4, <1>5, <2>1, <2>2 DEF DocInv, RunDocumented
<1>7. CASE next # "idle"
  <2> DEFINE new == {<<call[t].id, call[t].request, call[t].answer>> : t \in Threads}
  <2>1. Good(next, r) /\ (Threads = {} \/ Accepted)
    BY <1>1, <1>7
  <2>2. phase' = next /\ run' = r /\ used' = used \cup new
    BY <1>1, <1>7 DEF To
  <2>3. ASSUME NEW t \in Threads
        PROVE  Recorded(call[t].id, call[t].request, call[t].answer) /\ call[t].id = Id(t)
    <3>1. t \in Thread
      BY EvaluationAssumption DEF Threads
    <3>2. call[t].stage = "answered"
      BY <2>1 DEF Accepted, Refuses
    <3> QED
      BY <3>1, <3>2 DEF DocInv, CallAt
  <2>4. \A u \in used' : PastAt(next, r, u[1])
    BY <2>1, <2>2, <2>3 DEF Good, DocInv
  <2>5. \A u \in used' : Recorded(u[1], u[2], u[3])
    <3>1. \A u \in used : Recorded(u[1], u[2], u[3])
      BY DEF DocInv, RunDocumented, Recorded
    <3>2. ASSUME NEW u \in new PROVE Recorded(u[1], u[2], u[3])
      <4>1. PICK t \in Threads : u = <<call[t].id, call[t].request, call[t].answer>>
        OBVIOUS
      <4> QED
        BY <2>3, <4>1
    <3> QED
      BY <2>2, <3>1, <3>2
  <2>6. RunDocumented'
    BY <1>2, <2>5 DEF RunDocumented, Recorded
  <2> HIDE DEF new
  <2> QED
    BY <1>3, <1>4, <1>5, <1>7, <2>1, <2>2, <2>4, <2>6 DEF DocInv, Good
<1> QED
  BY <1>6, <1>7

\* Every step preserves that
LEMMA DocInductive == DocInv /\ [Next]_vars => DocInv'
<1> SUFFICES ASSUME DocInv, [Next]_vars PROVE DocInv'
  OBVIOUS
<1>1. ChildInv'
  BY ChildInductive DEF DocInv
<1>2. CASE UNCHANGED vars
  BY <1>1, <1>2 DEF vars, callVars, DocInv, CallAt, TranscriptsFit, Recorded, RunDocumented, Threads,
                    Id, Request, Instructions, Judged
<1>3. CASE Harness
  BY <1>3, DocHarness
<1>4. ASSUME NEW t \in Thread, Calls(t) \/ Serves(t) \/ Waits(t) PROVE DocInv'
  BY <1>4, DocThread
<1>5. CASE Begin \/ Stop
  <2>1. call' = [t \in Thread |-> NoCall] /\ captures' = captures
    BY <1>5 DEF Begin, Stop
  <2>2. \A t \in Thread : CallAt(t, call[t])'
    <3>1. \A t \in Thread : call'[t] = NoCall
      BY <2>1
    <3>2. NoCall.stage = "off" /\ NoCall.output = "part" /\ NoCall.child = "none"
      BY DEF NoCall
    <3> QED
      BY <3>1, <3>2 DEF CallAt, CallFits, Stages, Children, Outputs
  <2>3. used' = {}
    BY <1>5 DEF Begin, Stop, DocInv
  <2>4. IsSeq(<<>>) /\ 1 \in 1 .. Rounds
    BY EvaluationAssumption DEF IsSeq
  <2>5. Fits("idle", NoRun) /\ \A resume : Fits("review", [NoRun EXCEPT !.resume = resume])
    BY <2>4 DEF Fits, NoRun, RunField, Phases, Late
  <2>6. Fits(phase', run')
    BY <1>5, <2>5 DEF Begin, Stop
  <2>7. TranscriptsFit'
    BY <2>1 DEF DocInv, TranscriptsFit, Recorded
  <2> QED
    BY <1>1, <2>2, <2>3, <2>6, <2>7 DEF DocInv, RunDocumented
<1>6. CASE RemoveCapture
  <2>1. phase = "idle" /\ phase' = phase /\ run' = run /\ used' = used /\ call' = call
    BY <1>6 DEF RemoveCapture
  <2>2. PICK x : captures' = [i \in DOMAIN captures \ {x} |-> captures[i]]
    BY <1>6 DEF RemoveCapture
  <2>3. TranscriptsFit'
    BY <2>2 DEF DocInv, TranscriptsFit, Recorded
  <2>4. Threads = {}
    BY <2>1, Quiet
  <2>5. \A t \in Thread : CallAt(t, call[t])'
    <3>1. \A t \in Thread : CallAt(t, call[t]) /\ call[t].stage = "off"
      BY <2>4 DEF DocInv, CallAt
    <3> QED
      BY <2>1, <3>1 DEF CallAt, CallFits
  <2> QED
    BY <1>1, <2>1, <2>3, <2>5 DEF DocInv, RunDocumented
<1> QED
  BY <1>2, <1>3, <1>4, <1>5, <1>6 DEF Next

LEMMA DocStarts == Init => DocInv
<1> SUFFICES ASSUME Init PROVE DocInv
  OBVIOUS
<1>1. \A t \in Thread : call[t] = NoCall
  BY DEF Init
<1>2. \A t \in Thread : CallAt(t, call[t])
  <2>1. NoCall.stage = "off" /\ NoCall.output = "part" /\ NoCall.child = "none"
    BY DEF NoCall
  <2> QED
    BY <1>1, <2>1 DEF CallAt, CallFits, Stages, Children, Outputs
<1>3. IsSeq(<<>>) /\ 1 \in 1 .. Rounds
  BY EvaluationAssumption DEF IsSeq
<1>4. Fits(phase, run)
  BY <1>3 DEF Init, Fits, NoRun, RunField, Phases, Late
<1>5. ChildInv
  BY DEF Init, ChildInv, OneEach, Attended, NoOrphan, NoCall, Field
<1>6. TranscriptsFit /\ used = {}
  BY DEF Init, TranscriptsFit
<1> QED
  BY <1>2, <1>4, <1>5, <1>6 DEF DocInv, RunDocumented

\* "Use --resume to reuse an exact captured request/response transcript": all that a
\* run has gone by is in the transcripts it leaves, call by call; no call has the id
\* of an earlier one, and a transcript of another request is never an answer.
THEOREM RunsAreDocumented == Spec => []RunDocumented
<1>1. DocInv => RunDocumented
  BY DEF DocInv
<1> QED
  BY <1>1, DocStarts, DocInductive, PTL DEF Spec

-----------------------------------------------------------------------------
\* Numbers and finite orders

\* The order of the natural numbers, as a relation
LessThan == {ss \in Nat \X Nat : ss[1] < ss[2]}

\* A set of natural numbers has a least element
LEMMA LeastNumber ==
    ASSUME NEW S, S \subseteq Nat, S # {}
    PROVE  \E m \in S : \A n \in S : m <= n
<1>1. IsWellFoundedOn(LessThan, Nat)
  BY NatLessThanWellFounded DEF OpToRel, LessThan
<1>2. PICK m \in S : \A n \in S : <<n, m>> \notin LessThan
  BY <1>1, WFMin
<1>3. \A n \in S : ~(n < m)
  BY <1>2 DEF LessThan
<1> QED
  BY <1>3

\* R compares any two elements of X, and consistently
Compares(R, X) ==
    /\ \A x, y \in X : <<x, y>> \in R \/ <<y, x>> \in R
    /\ \A x, y, z \in X : <<x, y>> \in R /\ <<y, z>> \in R => <<x, z>> \in R

\* A finite set that is ordered has a greatest element
LEMMA Greatest ==
    ASSUME NEW X, IsFiniteSet(X), X # {}, NEW R, Compares(R, X)
    PROVE  \E m \in X : \A x \in X : <<x, m>> \in R
<1> DEFINE Below(m) == {x \in X : <<x, m>> \in R}
           Above == {d \in Nat : \E m \in X : Cardinality(Below(m)) + d = Cardinality(X)}
<1>0. Cardinality(X) \in Nat
  BY FS_CardinalityType
<1>1. ASSUME NEW m
      PROVE  /\ IsFiniteSet(Below(m)) /\ Cardinality(Below(m)) \in Nat
             /\ Cardinality(Below(m)) <= Cardinality(X) /\ Cardinality(X) \in Nat
  <2>1. Below(m) \in SUBSET X
    OBVIOUS
  <2> HIDE DEF Below
  <2>2. IsFiniteSet(Below(m)) /\ Cardinality(Below(m)) <= Cardinality(X)
    BY <2>1, FS_Subset
  <2> QED
    BY <2>2, FS_CardinalityType
<1>2. Above # {}
  <2>1. PICK m : m \in X
    OBVIOUS
  <2>2. PICK n : n = Cardinality(Below(m)) /\ n \in Nat /\ n <= Cardinality(X)
    BY <1>1
  <2>3. Cardinality(X) - n \in Nat /\ n + (Cardinality(X) - n) = Cardinality(X)
    BY <1>0, <2>2
  <2>4. Cardinality(X) - n \in Above
    BY <2>1, <2>2, <2>3
  <2> QED
    BY <2>4
<1>3. PICK d \in Above : \A e \in Above : d <= e
  BY <1>2, LeastNumber
<1>4. PICK m \in X : d \in Nat /\ Cardinality(Below(m)) + d = Cardinality(X)
  BY <1>3
<1>5. ASSUME NEW x \in X, <<x, m>> \notin R PROVE FALSE
  <2>1. <<m, x>> \in R /\ <<x, x>> \in R
    BY <1>5 DEF Compares
  <2>2. Below(m) \subseteq Below(x)
    BY <2>1 DEF Compares
  <2>3. x \in Below(x) /\ x \notin Below(m)
    BY <1>5, <2>1
  <2>4. Cardinality(Below(m)) < Cardinality(Below(x))
    <3> HIDE DEF Below
    <3>1. IsFiniteSet(Below(x)) /\ Below(m) \in SUBSET Below(x) /\ Below(m) # Below(x)
      BY <1>1, <2>2, <2>3
    <3>2. /\ Cardinality(Below(m)) <= Cardinality(Below(x))
          /\ Cardinality(Below(x)) = Cardinality(Below(m)) => Below(x) = Below(m)
      BY <3>1, FS_Subset
    <3>3. Cardinality(Below(m)) \in Nat /\ Cardinality(Below(x)) \in Nat
      BY <1>1
    <3> QED
      BY <3>1, <3>2, <3>3
  <2>5. Cardinality(X) - Cardinality(Below(x)) \in Above
    <3>1. PICK n : n = Cardinality(Below(x)) /\ n \in Nat /\ n <= Cardinality(X)
      BY <1>1
    <3>2. Cardinality(X) - n \in Nat /\ n + (Cardinality(X) - n) = Cardinality(X)
      BY <1>0, <3>1
    <3> QED
      BY <3>1, <3>2
  <2>6. d <= Cardinality(X) - Cardinality(Below(x))
    BY <1>3, <2>5
  <2>7. Cardinality(Below(m)) \in Nat /\ Cardinality(Below(x)) \in Nat
    BY <1>1
  <2> HIDE DEF Below, Above
  <2> QED
    BY <1>0, <1>4, <2>4, <2>6, <2>7
<1> QED
  BY <1>5

-----------------------------------------------------------------------------
\* Scores

Picked(t) == CHOOSE c \in t : TRUE

\* What g says of a set, in terms of what it says of a smaller one
SumStep(p, g, t) == IF t = {} THEN 0 ELSE p.score[Picked(t)] + g[t \ {Picked(t)}]

Sums(p, g, S) == g = [t \in SUBSET S |-> SumStep(p, g, t)]

\* A smaller set
LEMMA LessOne ==
    ASSUME NEW S, IsFiniteSet(S), NEW t \in SUBSET S, t # {}
    PROVE  /\ Picked(t) \in t /\ Picked(t) \in S /\ t \ {Picked(t)} \in SUBSET S
           /\ Cardinality(t) \in Nat \ {0} /\ Cardinality(t \ {Picked(t)}) = Cardinality(t) - 1
<1>1. Picked(t) \in t
  BY DEF Picked
<1>2. IsFiniteSet(t)
  BY FS_Subset
<1>3. Cardinality(t) # 0 /\ Cardinality(t) \in Nat
  BY <1>2, FS_EmptySet, FS_CardinalityType
<1>4. Cardinality(t \ {Picked(t)}) = Cardinality(t) - 1
  BY <1>1, <1>2, FS_RemoveElement
<1> QED
  BY <1>1, <1>3, <1>4

\* The recursive function of the sum exists
LEMMA SumExists ==
    ASSUME NEW p, NEW S, IsFiniteSet(S)
    PROVE  \E g : Sums(p, g, S)
<1> DEFINE UpTo(g, n) == /\ g = [t \in SUBSET S |-> g[t]]
                         /\ \A t \in SUBSET S : Cardinality(t) <= n => g[t] = SumStep(p, g, t)
           Bad == {n \in Nat : ~ \E g : UpTo(g, n)}
<1>1. Bad = {}
  <2> SUFFICES ASSUME Bad # {} PROVE FALSE
    OBVIOUS
  <2>1. PICK n \in Bad : \A k \in Bad : n <= k
    BY LeastNumber
  <2>2. CASE n = 0
    <3> DEFINE g == [t \in SUBSET S |-> 0]
    <3>1. \A t \in SUBSET S : Cardinality(t) <= 0 => g[t] = SumStep(p, g, t)
      <4>1. ASSUME NEW t \in SUBSET S, t # {} PROVE ~(Cardinality(t) <= 0)
        <5>1. Cardinality(t) \in Nat \ {0}
          BY <4>1, LessOne
        <5> QED
          BY <5>1
      <4> QED
        BY <4>1 DEF SumStep
    <3>2. g = [t \in SUBSET S |-> g[t]]
      OBVIOUS
    <3> HIDE DEF g
    <3>3. UpTo(g, 0)
      BY <3>1, <3>2
    <3> QED
      BY <2>2, <3>3
  <2>3. CASE n # 0
    <3>0. n \in Nat
      OBVIOUS
    <3>1. n - 1 \in Nat /\ n - 1 \notin Bad /\ n \in Nat
      <4> HIDE DEF Bad
      <4> QED
        BY <2>1, <2>3, <3>0
    <3>2. PICK g : UpTo(g, n - 1)
      BY <3>1
    <3> DEFINE h == [t \in SUBSET S |-> IF Cardinality(t) <= n - 1 THEN g[t] ELSE SumStep(p, g, t)]
    <3>3. ASSUME NEW t \in SUBSET S, Cardinality(t) <= n PROVE h[t] = SumStep(p, h, t)
      <4>1. h[t] = SumStep(p, g, t)
        BY <3>2
      <4>2. CASE t = {}
        BY <4>1, <4>2 DEF SumStep
      <4>3. CASE t # {}
        <5>1. t \ {Picked(t)} \in SUBSET S /\ Cardinality(t \ {Picked(t)}) <= n - 1
          BY <3>1, <3>3, <4>3, LessOne
        <5>2. h[t \ {Picked(t)}] = g[t \ {Picked(t)}]
          BY <5>1
        <5> HIDE DEF h
        <5> QED
          BY <4>1, <4>3, <5>2 DEF SumStep
      <4> QED
        BY <4>2, <4>3
    <3>4. h = [t \in SUBSET S |-> h[t]]
      OBVIOUS
    <3> HIDE DEF h
    <3>5. UpTo(h, n)
      BY <3>3, <3>4
    <3> QED
      BY <3>5
  <2> QED
    BY <2>2, <2>3
<1>2. Cardinality(S) \in Nat /\ \A t \in SUBSET S : Cardinality(t) <= Cardinality(S)
  BY FS_CardinalityType, FS_Subset
<1>3. PICK g : UpTo(g, Cardinality(S))
  BY <1>1, <1>2
<1>4. \A t \in SUBSET S : g[t] = SumStep(p, g, t)
  BY <1>2, <1>3
<1>5. g = [t \in SUBSET S |-> SumStep(p, g, t)]
  BY <1>3, <1>4
<1> QED
  BY <1>5 DEF Sums

\* The total score of candidates is a number
LEMMA TotalIsNumber ==
    ASSUME NEW p, NEW S, IsFiniteSet(S), \A c \in S : p.score[c] \in Nat
    PROVE  Total(p.score, S) \in Nat
<1> DEFINE g == CHOOSE h : Sums(p, h, S)
           Bad == {n \in Nat : \E t \in SUBSET S : Cardinality(t) = n /\ g[t] \notin Nat}
<1>1. Total(p.score, S) = g[S]
  BY DEF Total, MapThenSumSet, MapThenFoldSet, Sums, SumStep, Picked
<1>2. Sums(p, g, S)
  <2>1. \E h : Sums(p, h, S)
    BY SumExists
  <2> QED
    BY <2>1
<1> HIDE DEF g
<1>3. Bad = {}
  <2> SUFFICES ASSUME Bad # {} PROVE FALSE
    OBVIOUS
  <2>1. PICK n \in Bad : \A k \in Bad : n <= k
    BY LeastNumber
  <2>2. PICK t \in SUBSET S : Cardinality(t) = n /\ g[t] \notin Nat
    BY <2>1
  <2>3. g[t] = SumStep(p, g, t)
    BY <1>2 DEF Sums
  <2>4. t # {}
    BY <2>2, <2>3 DEF SumStep
  <2>5. /\ Picked(t) \in S /\ t \ {Picked(t)} \in SUBSET S /\ n - 1 \in Nat
        /\ Cardinality(t \ {Picked(t)}) = n - 1
    BY <2>2, <2>4, LessOne
  <2>6. n - 1 \notin Bad
    BY <2>1, <2>5
  <2>7. g[t \ {Picked(t)}] \in Nat
    BY <2>5, <2>6
  <2>8. p.score[Picked(t)] \in Nat
    BY <2>5
  <2>9. g[t] = p.score[Picked(t)] + g[t \ {Picked(t)}]
    BY <2>3, <2>4 DEF SumStep
  <2> QED
    BY <2>2, <2>7, <2>8, <2>9
<1>4. Cardinality(S) \in Nat
  BY FS_CardinalityType
<1> QED
  BY <1>1, <1>3, <1>4

-----------------------------------------------------------------------------
\* What is selected

\* A policy that scores candidates and tells them apart by their digests
Ordered(p, S) ==
    /\ IsFiniteSet(S)
    /\ \A c \in S : p.score[c] \in Nat /\ p.digest[c] \in Nat
    /\ \A c, d \in S : p.digest[c] = p.digest[d] => c = d

\* The candidates that only one of two sets has
Between(S, T) == (S \cup T) \ (S \cap T)

\* One of them has the least digest
LEMMA FirstBetween ==
    ASSUME NEW p, NEW U, Ordered(p, U), NEW S \in SUBSET U, NEW T \in SUBSET U, S # T
    PROVE  \E c \in Between(S, T) : \A d \in Between(S, T) : p.digest[c] <= p.digest[d]
<1> DEFINE X == Between(S, T)
           R == {cc \in X \X X : p.digest[cc[2]] <= p.digest[cc[1]]}
<1>1. X \in SUBSET U /\ X # {} /\ IsFiniteSet(X) /\ \A c \in X : p.digest[c] \in Nat
  <2>1. X \in SUBSET U /\ X # {}
    BY DEF Between
  <2> QED
    BY <2>1, FS_Subset DEF Ordered
<1> HIDE DEF X
<1>2. \A c, d \in X : <<c, d>> \in R <=> p.digest[d] <= p.digest[c]
  OBVIOUS
<1> HIDE DEF R
<1>3. Compares(R, X)
  BY <1>1, <1>2 DEF Compares
<1>4. PICK m \in X : \A x \in X : <<x, m>> \in R
  BY <1>1, <1>3, Greatest
<1>5. \A d \in X : p.digest[m] <= p.digest[d]
  BY <1>2, <1>4
<1> QED
  BY <1>4, <1>5 DEF X

\* Of two sets of candidates one precedes the other
LEMMA OnePrecedes ==
    ASSUME NEW p, NEW U, Ordered(p, U), NEW S \in SUBSET U, NEW T \in SUBSET U, S # T
    PROVE  Precedes(p, S, T) \/ Precedes(p, T, S)
<1>1. PICK c \in Between(S, T) : \A d \in Between(S, T) : p.digest[c] <= p.digest[d]
  BY FirstBetween
<1>2. Between(S, T) = Between(T, S)
  BY DEF Between
<1>3. c \in S \ T \/ c \in T \ S
  BY DEF Between
<1> QED
  BY <1>1, <1>2, <1>3 DEF Precedes, Between

\* and precedence is transitive
LEMMA PrecedesOn ==
    ASSUME NEW p, NEW U, Ordered(p, U), NEW S \in SUBSET U, NEW T \in SUBSET U, NEW V \in SUBSET U,
           Precedes(p, S, T), Precedes(p, T, V)
    PROVE  Precedes(p, S, V)
<1>1. PICK a \in S \ T : \A d \in Between(S, T) : p.digest[a] <= p.digest[d]
  BY DEF Precedes, Between
<1>2. PICK b \in T \ V : \A d \in Between(T, V) : p.digest[b] <= p.digest[d]
  BY DEF Precedes, Between
<1>3. \A d : d \in Between(S, V) => d \in U /\ (d \in Between(S, T) \/ d \in Between(T, V))
  BY DEF Between
<1>4. a \in U /\ b \in U /\ a # b
  OBVIOUS
<1>5. p.digest[a] \in Nat /\ p.digest[b] \in Nat /\ p.digest[a] # p.digest[b] /\ \A d \in U : p.digest[d] \in Nat
  BY <1>4 DEF Ordered
<1>6. CASE p.digest[a] < p.digest[b]
  <2>1. a \notin Between(T, V)
    BY <1>2, <1>5, <1>6
  <2>2. a \in S \ V
    BY <2>1 DEF Between
  <2>3. \A d \in Between(S, V) : p.digest[a] <= p.digest[d]
    BY <1>1, <1>2, <1>3, <1>5, <1>6
  <2> QED
    BY <2>2, <2>3 DEF Precedes, Between
<1>7. CASE p.digest[b] < p.digest[a]
  <2>1. b \notin Between(S, T)
    BY <1>1, <1>5, <1>7
  <2>2. b \in S \ V
    BY <2>1 DEF Between
  <2>3. \A d \in Between(S, V) : p.digest[b] <= p.digest[d]
    BY <1>1, <1>2, <1>3, <1>5, <1>7
  <2> QED
    BY <2>2, <2>3 DEF Precedes, Between
<1> QED
  BY <1>5, <1>6, <1>7

\* Sets of candidates of which one precedes all others
LEMMA LeastIs ==
    ASSUME NEW p, NEW U, Ordered(p, U), NEW sets, sets \subseteq SUBSET U, IsFiniteSet(sets), sets # {}
    PROVE  Least(p, sets) \in sets /\ \A T \in sets \ {Least(p, sets)} : Precedes(p, Least(p, sets), T)
<1> DEFINE R == {ss \in sets \X sets : ss[1] = ss[2] \/ Precedes(p, ss[2], ss[1])}
<1>1. \A S, T \in sets : <<S, T>> \in R <=> S = T \/ Precedes(p, T, S)
  OBVIOUS
<1> HIDE DEF R
<1>2. \A S, T \in sets : <<S, T>> \in R \/ <<T, S>> \in R
  BY <1>1, OnePrecedes
<1>3. ASSUME NEW S \in sets, NEW T \in sets, NEW V \in sets, <<S, T>> \in R, <<T, V>> \in R
      PROVE  <<S, V>> \in R
  <2>1. S \in SUBSET U /\ T \in SUBSET U /\ V \in SUBSET U
    OBVIOUS
  <2>2. (S = T \/ Precedes(p, T, S)) /\ (T = V \/ Precedes(p, V, T))
    BY <1>1, <1>3
  <2>3. S = V \/ Precedes(p, V, S)
    BY <2>1, <2>2, PrecedesOn
  <2> QED
    BY <1>1, <2>3
<1>4. Compares(R, sets)
  BY <1>2, <1>3 DEF Compares
<1>5. PICK m \in sets : \A T \in sets : <<T, m>> \in R
  BY <1>4, Greatest
<1>6. \A T \in sets \ {m} : Precedes(p, m, T)
  BY <1>1, <1>5
<1> QED
  BY <1>6 DEF Least

\* Sets of candidates with the best total
LEMMA BestIs ==
    ASSUME NEW p, NEW U, Ordered(p, U), NEW sets, sets \subseteq SUBSET U, IsFiniteSet(sets), sets # {}
    PROVE  Best(p, sets) # {} /\ Best(p, sets) \subseteq sets /\ IsFiniteSet(Best(p, sets))
<1> DEFINE R == {ss \in sets \X sets : Total(p.score, ss[1]) <= Total(p.score, ss[2])}
<1>1. \A S, T \in sets : <<S, T>> \in R <=> Total(p.score, S) <= Total(p.score, T)
  OBVIOUS
<1> HIDE DEF R
<1>2. ASSUME NEW S \in sets PROVE Total(p.score, S) \in Nat
  <2>1. S \in SUBSET U
    OBVIOUS
  <2>2. IsFiniteSet(S) /\ \A c \in S : p.score[c] \in Nat
    BY <2>1, FS_Subset DEF Ordered
  <2> QED
    BY <2>2, TotalIsNumber
<1>3. Compares(R, sets)
  BY <1>1, <1>2 DEF Compares
<1>4. PICK m \in sets : \A T \in sets : <<T, m>> \in R
  BY <1>3, Greatest
<1>5. m \in Best(p, sets)
  BY <1>1, <1>4 DEF Best
<1>6. Best(p, sets) \in SUBSET sets
  BY DEF Best
<1> QED
  BY <1>5, <1>6, FS_Subset

\* The rank of a candidate is a strict order
LEMMA RankOrders ==
    ASSUME NEW p, NEW U, Ordered(p, U)
    PROVE  /\ \A c \in U : ~RanksBefore(p, c, c)
           /\ \A c, d \in U : c # d => RanksBefore(p, c, d) \/ RanksBefore(p, d, c)
           /\ \A b, c, d \in U : RanksBefore(p, b, c) /\ RanksBefore(p, c, d) => RanksBefore(p, b, d)
<1>1. \A c \in U : p.score[c] \in Nat /\ p.digest[c] \in Nat
  BY DEF Ordered
<1>2. \A c, d \in U : p.digest[c] = p.digest[d] => c = d
  BY DEF Ordered
<1> QED
  BY <1>1, <1>2 DEF RanksBefore

\* Ranked is the sequence of the candidates in that order
LEMMA RankedIs ==
    ASSUME NEW p, NEW T, Ordered(p, T)
    PROVE  /\ Cardinality(T) \in Nat
           /\ Ranked(p, T) \in Bijection(1 .. Cardinality(T), T)
           /\ \A i, j \in 1 .. Cardinality(T) : i < j => RanksBefore(p, Ranked(p, T)[i], Ranked(p, T)[j])
           /\ \A i \in 1 .. Cardinality(T) :
                Cardinality({d \in T : RanksBefore(p, d, Ranked(p, T)[i])}) = i - 1
           /\ \A c, d \in T :
                Cardinality({b \in T : RanksBefore(p, b, c)}) = Cardinality({b \in T : RanksBefore(p, b, d)})
                    => c = d
<1> DEFINE n == Cardinality(T)
           Before(c) == {d \in T : RanksBefore(p, d, c)}
           f == [c \in T |-> Cardinality(Before(c)) + 1]
<1>1. IsFiniteSet(T) /\ n \in Nat
  BY FS_CardinalityType DEF Ordered
<1>2. ASSUME NEW c \in T
      PROVE  IsFiniteSet(Before(c)) /\ Cardinality(Before(c)) \in 0 .. n - 1
  <2>1. Before(c) \in SUBSET (T \ {c}) /\ Before(c) \in SUBSET T
    BY RankOrders
  <2> HIDE DEF Before
  <2>2. IsFiniteSet(T \ {c}) /\ Cardinality(T \ {c}) = n - 1
    BY <1>1, FS_RemoveElement
  <2>3. IsFiniteSet(Before(c)) /\ Cardinality(Before(c)) <= n - 1
    BY <2>1, <2>2, FS_Subset
  <2>4. Cardinality(Before(c)) \in Nat
    BY <2>3, FS_CardinalityType
  <2> QED
    BY <1>1, <2>3, <2>4
<1>3. ASSUME NEW c \in T, NEW d \in T, RanksBefore(p, c, d)
      PROVE  Cardinality(Before(c)) < Cardinality(Before(d))
  <2>1. Before(c) \in SUBSET Before(d) /\ c \in Before(d) /\ c \notin Before(c)
    BY <1>3, RankOrders
  <2> HIDE DEF Before
  <2>2. IsFiniteSet(Before(d)) /\ Cardinality(Before(c)) \in Nat /\ Cardinality(Before(d)) \in Nat
    BY <1>2
  <2>3. /\ Cardinality(Before(c)) <= Cardinality(Before(d))
        /\ Cardinality(Before(d)) = Cardinality(Before(c)) => Before(d) = Before(c)
    BY <2>1, <2>2, FS_Subset
  <2> QED
    BY <2>1, <2>2, <2>3
<1> HIDE DEF n, Before
<1>4. \A c \in T : f[c] \in 1 .. n /\ f[c] = Cardinality(Before(c)) + 1 /\ Cardinality(Before(c)) \in Nat
  BY <1>1, <1>2
<1>5. ASSUME NEW c \in T, NEW d \in T, c # d PROVE f[c] # f[d]
  <2>1. Cardinality(Before(c)) # Cardinality(Before(d))
    BY <1>3, <1>4, <1>5, RankOrders
  <2> QED
    BY <1>4, <2>1
<1>6. f \in Injection(T, 1 .. n)
  <2>1. f \in [T -> 1 .. n]
    BY <1>4
  <2> QED
    BY <1>5, <2>1 DEF Injection, IsInjective
<1> HIDE DEF f
<1>7. \A i \in 1 .. n : \E c \in T : f[c] = i
  <2>1. IsFiniteSet(1 .. n) /\ Cardinality(1 .. n) = n
    BY <1>1, FS_Interval
  <2>2. f \in Surjection(T, 1 .. n)
    BY <1>6, <2>1, FS_Injection DEF n
  <2> QED
    BY <2>2 DEF Surjection
<1>8. ASSUME NEW i \in 1 .. n PROVE Ranked(p, T)[i] \in T /\ Cardinality(Before(Ranked(p, T)[i])) = i - 1
  <2>1. PICK c \in T : f[c] = i
    BY <1>7
  <2>2. Cardinality(Before(c)) = i - 1
    BY <1>4, <2>1
  <2>3. Ranked(p, T)[i] = CHOOSE d \in T : Cardinality(Before(d)) = i - 1
    BY DEF Ranked, Before, n
  <2> QED
    BY <2>2, <2>3
<1>9. Ranked(p, T) \in [1 .. n -> T]
  <2> DEFINE Placed(i) == CHOOSE c \in T : Cardinality({d \in T : RanksBefore(p, d, c)}) = i - 1
  <2>1. Ranked(p, T) = [i \in 1 .. n |-> Placed(i)]
    BY Zenon DEF Ranked, n
  <2> HIDE DEF Placed
  <2>2. ASSUME NEW i \in 1 .. n PROVE Placed(i) \in T
    BY <1>8, <2>1
  <2> QED
    BY <2>1, <2>2
<1>10. \A i, j \in 1 .. n : Ranked(p, T)[i] = Ranked(p, T)[j] => i = j
  <2>1. \A i \in 1 .. n : i \in Int
    BY <1>1
  <2> QED
    BY <1>8, <2>1
<1>11. ASSUME NEW c \in T PROVE \E i \in 1 .. n : Ranked(p, T)[i] = c
  <2>1. f[c] \in 1 .. n /\ Cardinality(Before(c)) = f[c] - 1
    BY <1>4
  <2>2. Ranked(p, T)[f[c]] \in T /\ Cardinality(Before(Ranked(p, T)[f[c]])) = f[c] - 1
    BY <1>8, <2>1
  <2>3. f[Ranked(p, T)[f[c]]] = f[c]
    BY <1>4, <2>1, <2>2
  <2> QED
    BY <1>5, <2>1, <2>2, <2>3
<1>12. ASSUME NEW i \in 1 .. n, NEW j \in 1 .. n, i < j
       PROVE  RanksBefore(p, Ranked(p, T)[i], Ranked(p, T)[j])
  <2> DEFINE a == Ranked(p, T)[i]
             b == Ranked(p, T)[j]
  <2>1. a \in T /\ b \in T /\ Cardinality(Before(a)) = i - 1 /\ Cardinality(Before(b)) = j - 1
    BY <1>8
  <2> HIDE DEF a, b
  <2>2. a # b /\ ~RanksBefore(p, b, a)
    BY <1>1, <1>3, <1>12, <2>1
  <2>3. RanksBefore(p, a, b)
    BY <2>1, <2>2, RankOrders
  <2> QED
    BY <2>3 DEF a, b
<1>13. Ranked(p, T) \in Bijection(1 .. n, T)
  BY <1>9, <1>10, <1>11, Fun_IsBij
<1>14. \A c, d \in T : Cardinality(Before(c)) = Cardinality(Before(d)) => c = d
  BY <1>4, <1>5
<1>15. \A i \in 1 .. n : Cardinality(Before(Ranked(p, T)[i])) = i - 1
  BY <1>8
<1> QED
  BY <1>1, <1>12, <1>13, <1>14, <1>15 DEF n, Before


\* The sets of n candidates that may be selected together
ValidSets(S, n) == {T \in kSubset(n, S) : CompositionIsValid(T)}

\* Both policies allow the same sets of up to three
LEMMA SameRules ==
    ASSUME NEW T, Cardinality(T) \in 1 .. MaxSelected
    PROVE  Allows(T) <=> CompositionIsValid(T)
<1>1. Cardinality(T) \in 1 .. 3
  BY DEF MaxSelected
<1>2. (Cardinality(T) <= 1 \/ ManyClasses(T)) <=> (Cardinality(T) > 1 => ManyClasses(T))
  BY <1>1
<1> QED
  BY <1>1, <1>2 DEF Allows, CompositionIsValid, MaxSelected

\* and a candidate alone
LEMMA OneIsValid ==
    ASSUME NEW S, NEW c \in S
    PROVE  {c} \in ValidSets(S, 1)
<1>1. Cardinality({c}) = 1
  BY FS_Singleton
<1>2. \A k : OfClass({c}, k) = {} \/ OfClass({c}, k) = {c}
  BY DEF OfClass
<1>3. \A k : Cardinality(OfClass({c}, k)) = 0 \/ Cardinality(OfClass({c}, k)) = 1
  BY <1>1, <1>2, FS_EmptySet
<1>4. CompositionIsValid({c})
  BY <1>1, <1>3 DEF CompositionIsValid, MaxSelected
<1> QED
  BY <1>1, <1>4 DEF ValidSets, kSubset

\* The size that the product stops at
Size(S) == CHOOSE n \in 1 .. MaxSelected :
               ValidSets(S, n) # {} /\ \A m \in n + 1 .. MaxSelected : ValidSets(S, m) = {}

LEMMA SizeIs ==
    ASSUME NEW S, S # {}
    PROVE  /\ Size(S) \in 1 .. MaxSelected /\ ValidSets(S, Size(S)) # {}
           /\ \A m \in Size(S) + 1 .. MaxSelected : ValidSets(S, m) = {}
<1> DEFINE Fitting(n) == ValidSets(S, n) # {} /\ \A m \in n + 1 .. MaxSelected : ValidSets(S, m) = {}
<1>1. ValidSets(S, 1) # {}
  BY OneIsValid
<1>2. 1 .. MaxSelected = {1, 2, 3} /\ 2 .. MaxSelected = {2, 3} /\ 3 .. MaxSelected = {3}
      /\ 4 .. MaxSelected = {}
  BY DEF MaxSelected
<1>3. Fitting(1) \/ Fitting(2) \/ Fitting(3)
  BY <1>1, <1>2
<1>4. \E n \in 1 .. MaxSelected : Fitting(n)
  BY <1>2, <1>3
<1> QED
  BY <1>4 DEF Size

\* What policy p selects among the valid sets of the largest size
Chosen(p, S) == Least(p, Best(p, ValidSets(S, Size(S))))

\* It is valid and of the largest size, has the best score of this size, and of the
\* remaining ties the lesser digests
LEMMA ChosenIs ==
    ASSUME NEW p, NEW S, Ordered(p, S), S # {}
    PROVE  /\ Chosen(p, S) \in SUBSET S
           /\ Chosen(p, S) \in Best(p, ValidSets(S, Size(S)))
           /\ Cardinality(Chosen(p, S)) \in 1 .. MaxSelected /\ CompositionIsValid(Chosen(p, S))
           /\ \A U \in SUBSET S : CompositionIsValid(U) => Cardinality(U) <= Cardinality(Chosen(p, S))
           /\ \A U \in (SUBSET S) \ {Chosen(p, S)} :
                CompositionIsValid(U) /\ Cardinality(U) = Cardinality(Chosen(p, S)) =>
                    \/ Total(p.score, U) < Total(p.score, Chosen(p, S))
                    \/ Total(p.score, U) = Total(p.score, Chosen(p, S)) /\ Precedes(p, Chosen(p, S), U)
<1> DEFINE n == Size(S)
           valid == ValidSets(S, n)
           T == Chosen(p, S)
<1>1. T = Least(p, Best(p, valid))
  BY DEF Chosen
<1>2. /\ n \in 1 .. MaxSelected /\ valid # {}
      /\ \A m \in n + 1 .. MaxSelected : ValidSets(S, m) = {}
  BY SizeIs
<1> HIDE DEF n
<1>3. valid \subseteq SUBSET S /\ IsFiniteSet(valid)
  <2>1. valid \in SUBSET (SUBSET S)
    BY DEF ValidSets, kSubset
  <2>2. IsFiniteSet(SUBSET S)
    BY FS_SUBSET DEF Ordered
  <2> HIDE DEF valid
  <2> QED
    BY <2>1, <2>2, FS_Subset
<1>4. \A U : U \in valid <=> U \in SUBSET S /\ Cardinality(U) = n /\ CompositionIsValid(U)
  BY DEF ValidSets, kSubset
<1> HIDE DEF valid
<1>5. Best(p, valid) # {} /\ Best(p, valid) \subseteq valid /\ IsFiniteSet(Best(p, valid))
  BY <1>2, <1>3, BestIs
<1>6. T \in Best(p, valid) /\ \A U \in Best(p, valid) \ {T} : Precedes(p, T, U)
  BY <1>1, <1>3, <1>5, LeastIs
<1> HIDE DEF T
<1>7. T \in SUBSET S /\ Cardinality(T) = n /\ CompositionIsValid(T)
  BY <1>4, <1>5, <1>6
<1>8. n \in 1 .. 3
  BY <1>2 DEF MaxSelected
<1>9. ASSUME NEW U \in SUBSET S, CompositionIsValid(U) PROVE Cardinality(U) <= n
  <2>1. Cardinality(U) \in Nat
    BY FS_Subset, FS_CardinalityType DEF Ordered
  <2>2. Cardinality(U) <= MaxSelected
    BY <1>9 DEF CompositionIsValid
  <2>3. U \in ValidSets(S, Cardinality(U))
    BY <1>9 DEF ValidSets, kSubset
  <2>4. Cardinality(U) \notin n + 1 .. MaxSelected
    BY <1>2, <2>3
  <2> QED
    BY <1>8, <2>1, <2>2, <2>4 DEF MaxSelected
<1>10. ASSUME NEW U \in (SUBSET S) \ {T}, CompositionIsValid(U), Cardinality(U) = n
       PROVE  \/ Total(p.score, U) < Total(p.score, T)
              \/ Total(p.score, U) = Total(p.score, T) /\ Precedes(p, T, U)
  <2>1. U \in valid /\ Total(p.score, U) <= Total(p.score, T)
    BY <1>4, <1>6, <1>10 DEF Best
  <2>2. Total(p.score, U) \in Nat /\ Total(p.score, T) \in Nat
    <3>1. ASSUME NEW V \in SUBSET S PROVE Total(p.score, V) \in Nat
      <4>1. IsFiniteSet(V) /\ \A c \in V : p.score[c] \in Nat
        BY FS_Subset DEF Ordered
      <4> QED
        BY <4>1, TotalIsNumber
    <3> QED
      BY <1>7, <3>1
  <2>3. CASE Total(p.score, U) < Total(p.score, T)
    BY <2>3
  <2>4. CASE Total(p.score, U) = Total(p.score, T)
    <3>1. U \in Best(p, valid)
      BY <1>6, <2>1, <2>4 DEF Best
    <3>2. U # T
      BY <1>10
    <3> QED
      BY <1>6, <2>4, <3>1, <3>2
  <2> QED
    BY <2>1, <2>2, <2>3, <2>4
<1>11. Cardinality(T) \in 1 .. MaxSelected
  BY <1>2, <1>7
<1>12. T \in Best(p, ValidSets(S, Size(S)))
  BY <1>6 DEF n, valid
<1>13. \A U \in SUBSET S : CompositionIsValid(U) => Cardinality(U) <= Cardinality(T)
  BY <1>7, <1>9
<1>14. \A U \in (SUBSET S) \ {T} :
          CompositionIsValid(U) /\ Cardinality(U) = Cardinality(T) =>
              \/ Total(p.score, U) < Total(p.score, T)
              \/ Total(p.score, U) = Total(p.score, T) /\ Precedes(p, T, U)
  BY <1>7, <1>10
<1> QED
  BY <1>7, <1>11, <1>12, <1>13, <1>14 DEF T

\* The product tries three, two and one
LEMMA RecordsAre ==
    ASSUME NEW S
    PROVE  SelectRecords(S) =
             IF S = {} THEN <<>> ELSE Ranked(ProductOrder(S), Chosen(ProductOrder(S), S))
<1> DEFINE p == ProductOrder(S)
<1>1. SelectRecords(S) = IF S = {} THEN <<>> ELSE Ranked(p, Least(p, Best(p, ValidSets(S, Size(S)))))
  BY DEF SelectRecords, Size, ValidSets
<1> QED
  BY <1>1 DEF Chosen

\* The harness takes the largest of all sets that it allows, which are the same
LEMMA ReviewsAre ==
    ASSUME NEW S
    PROVE  SelectReviews(S) =
             IF S = {} THEN <<>> ELSE Ranked(HarnessOrder(S), Chosen(HarnessOrder(S), S))
<1> DEFINE feasible == {T \in UNION {kSubset(n, S) : n \in 1 .. MaxSelected} : Allows(T)}
           largest == {T \in feasible : \A U \in feasible : Cardinality(U) <= Cardinality(T)}
           size == Size(S)
           h == HarnessOrder(S)
<1>1. SelectReviews(S) = IF feasible = {} THEN <<>> ELSE Ranked(h, Least(h, Best(h, largest)))
  BY DEF SelectReviews
<1>2. Chosen(h, S) = Least(h, Best(h, ValidSets(S, size)))
  BY DEF Chosen
<1>3. \A T : T \in feasible <=> \E n \in 1 .. MaxSelected : T \in ValidSets(S, n)
  <2>1. \A T, n : T \in kSubset(n, S) => Cardinality(T) = n
    BY DEF kSubset
  <2>2. ASSUME NEW T, NEW n \in 1 .. MaxSelected
        PROVE  T \in ValidSets(S, n) <=> T \in kSubset(n, S) /\ Allows(T)
    BY <2>1, SameRules DEF ValidSets
  <2> QED
    BY <2>2
<1>4. \A n, T : T \in ValidSets(S, n) => T \subseteq S /\ Cardinality(T) = n
  BY DEF ValidSets, kSubset
<1> HIDE DEF feasible, h
<1>5. CASE S = {}
  <2>1. feasible = {}
    <3>1. ASSUME NEW T \in feasible PROVE FALSE
      <4>1. PICK n \in 1 .. MaxSelected : T \in ValidSets(S, n)
        BY <1>3, <3>1
      <4>2. T = {} /\ Cardinality(T) = n
        BY <1>4, <1>5, <4>1
      <4> QED
        BY <4>2, FS_EmptySet
    <3> QED
      BY <3>1
  <2> QED
    BY <1>1, <1>5, <2>1 DEF h
<1>6. CASE S # {}
  <2>3. /\ size \in 1 .. MaxSelected /\ ValidSets(S, size) # {}
        /\ \A m \in size + 1 .. MaxSelected : ValidSets(S, m) = {}
    BY <1>6, SizeIs
  <2> HIDE DEF size
  <2>4. size \in Nat /\ MaxSelected \in Nat
    BY <2>3 DEF MaxSelected
  <2>5. \A T \in feasible : Cardinality(T) \in 1 .. size
    <3>1. ASSUME NEW T \in feasible, NEW n \in 1 .. MaxSelected, T \in ValidSets(S, n)
          PROVE  Cardinality(T) \in 1 .. size
      <4>1. n \notin size + 1 .. MaxSelected
        BY <2>3, <3>1
      <4> QED
        BY <1>4, <2>4, <3>1, <4>1
    <3> QED
      BY <1>3, <3>1
  <2>6. PICK U \in ValidSets(S, size) : U \in feasible /\ Cardinality(U) = size
    BY <1>3, <1>4, <2>3
  <2>7. largest = ValidSets(S, size)
    <3>1. ASSUME NEW T \in largest PROVE T \in ValidSets(S, size)
      <4>1. T \in feasible /\ size <= Cardinality(T)
        BY <2>6, <3>1
      <4>2. Cardinality(T) = size
        BY <2>4, <2>5, <4>1
      <4> QED
        BY <1>3, <1>4, <4>1, <4>2
    <3>2. ASSUME NEW T \in ValidSets(S, size) PROVE T \in largest
      BY <1>3, <1>4, <2>3, <2>5, <3>2
    <3> QED
      BY <3>1, <3>2
  <2> QED
    BY <1>1, <1>2, <1>6, <2>6, <2>7 DEF h
<1> QED
  BY <1>5, <1>6

\* A policy takes each of the chosen once
LEMMA RankedSet ==
    ASSUME NEW p, NEW T, Ordered(p, T)
    PROVE  /\ IsSeq(Ranked(p, T)) /\ Len(Ranked(p, T)) = Cardinality(T)
           /\ ToSet(Ranked(p, T)) = T
<1>1. Cardinality(T) \in Nat /\ Ranked(p, T) \in [1 .. Cardinality(T) -> T]
  BY RankedIs DEF Bijection, Injection
<1>2. Ranked(p, T) \in Seq(T) /\ Len(Ranked(p, T)) = Cardinality(T)
  BY <1>1
<1>3. \A c \in T : \E i \in 1 .. Cardinality(T) : Ranked(p, T)[i] = c
  BY RankedIs DEF Bijection, Surjection
<1>4. ToSet(Ranked(p, T)) = T
  BY <1>1, <1>3 DEF ToSet
<1> QED
  BY <1>2, <1>4 DEF IsSeq

\* Fewer candidates are ordered as well
LEMMA OrderedPart ==
    ASSUME NEW p, NEW S, Ordered(p, S), NEW T \in SUBSET S
    PROVE  Ordered(p, T)
BY FS_Subset DEF Ordered

-----------------------------------------------------------------------------
\* The two policies

\* What the schemas of candidates and reviews say of them
Counted(c) == c.settles \in Nat /\ c.silent \in Nat /\ c.cost \in {"trivial", "cheap", "expensive"}

Reviews(S) == IsFiniteSet(S) /\ \A c \in S : Counted(c) /\ c.content \in Nat

\* and that their contents are not repeated
Candidates(S) ==
    /\ Reviews(S) /\ ~Repeats(S)
    /\ \A c \in S : c.digest \in Nat
    /\ \A c, d \in S : c.digest = d.digest => c = d

\* Both score alike
LEMMA SameScore ==
    ASSUME NEW c, Counted(c)
    PROVE  ReviewScore(c) = CandidateScore(c) /\ CandidateScore(c) \in Nat
<1> DEFINE n == c.settles + c.silent
<1>1. n \in Nat
  BY DEF Counted
<1>2. (n * 9) \div 1 = n * 9 /\ (n * 9) \div 3 = n * 3 /\ (n * 9) \div 9 = n * 1
  <2> HIDE DEF n
  <2> QED
    BY <1>1
<1> HIDE DEF n
<1>3. ReviewScore(c) = IF c.cost = "trivial" THEN n * 9 ELSE IF c.cost = "cheap" THEN n * 3 ELSE n * 1
  BY <1>2 DEF ReviewScore, Counted, n
<1>4. CandidateScore(c) = IF c.cost = "trivial" THEN n * 9 ELSE IF c.cost = "cheap" THEN n * 3 ELSE n * 1
  BY DEF CandidateScore, n
<1> QED
  BY <1>1, <1>3, <1>4

\* What is checked before the harness selects is what its policy needs
LEMMA ReviewsOrdered ==
    ASSUME NEW S, Reviews(S), ~Repeats(S)
    PROVE  Ordered(HarnessOrder(S), S)
BY SameScore DEF Ordered, HarnessOrder, Reviews, Repeats

\* and so for the product
LEMMA CandidatesOrdered ==
    ASSUME NEW S, Candidates(S)
    PROVE  Ordered(ProductOrder(S), S) /\ ProductOrder(S).score = HarnessOrder(S).score
<1>1. \A c \in S : CandidateScore(c) \in Nat /\ ReviewScore(c) = CandidateScore(c)
  BY SameScore DEF Candidates, Reviews
<1>2. Ordered(ProductOrder(S), S)
  BY <1>1 DEF Ordered, ProductOrder, Candidates, Reviews
<1>3. ProductOrder(S).score = HarnessOrder(S).score
  BY <1>1 DEF ProductOrder, HarnessOrder
<1> QED
  BY <1>2, <1>3

\* "Choose the largest valid top-three set, maximizing exact total score": of any
\* candidates told apart by their digests the product selects a valid set of one to
\* three, than which no valid set is larger, and none of the same size has a higher
\* score, or the same score and lesser digests.  It is what a round is assembled of, in
\* the order of _ranked.
THEOREM SelectionIsBest ==
    ASSUME NEW S, Candidates(S), S # {}
    PROVE  LET p == ProductOrder(S)
           IN  \E T \in SUBSET S :
                 /\ Cardinality(T) \in 1 .. MaxSelected /\ CompositionIsValid(T)
                 /\ \A U \in SUBSET S : CompositionIsValid(U) => Cardinality(U) <= Cardinality(T)
                 /\ \A U \in (SUBSET S) \ {T} :
                       CompositionIsValid(U) /\ Cardinality(U) = Cardinality(T) =>
                           \/ Total(p.score, U) < Total(p.score, T)
                           \/ Total(p.score, U) = Total(p.score, T) /\ Precedes(p, T, U)
                 /\ SelectRecords(S) = Ranked(p, T)
<1> DEFINE p == ProductOrder(S)
<1>1. Ordered(p, S)
  BY CandidatesOrdered
<1>2. SelectRecords(S) = Ranked(p, Chosen(p, S))
  BY RecordsAre
<1> HIDE DEF p
<1>3. /\ Chosen(p, S) \in SUBSET S
      /\ Cardinality(Chosen(p, S)) \in 1 .. MaxSelected /\ CompositionIsValid(Chosen(p, S))
      /\ \A U \in SUBSET S : CompositionIsValid(U) => Cardinality(U) <= Cardinality(Chosen(p, S))
      /\ \A U \in (SUBSET S) \ {Chosen(p, S)} :
           CompositionIsValid(U) /\ Cardinality(U) = Cardinality(Chosen(p, S)) =>
               \/ Total(p.score, U) < Total(p.score, Chosen(p, S))
               \/ Total(p.score, U) = Total(p.score, Chosen(p, S)) /\ Precedes(p, Chosen(p, S), U)
  BY <1>1, ChosenIs
<1> QED
  BY <1>2, <1>3 DEF p

\* Functions with the same values
LEMMA SameFunction ==
    ASSUME NEW D, NEW f, NEW g, NEW X, f \in [D -> X], g \in [D -> X], \A x \in D : f[x] = g[x]
    PROVE  f = g
OBVIOUS

\* Digests that order the candidates alike break ties alike
LEMMA SameOrder ==
    ASSUME NEW S, S # {}, NEW p, NEW h, Ordered(p, S), Ordered(h, S), p.score = h.score,
           \A c, d \in S : p.digest[c] <= p.digest[d] <=> h.digest[c] <= h.digest[d]
    PROVE  Ranked(h, Chosen(h, S)) = Ranked(p, Chosen(p, S))
<1> DEFINE sets == Best(p, ValidSets(S, Size(S)))
           A == Chosen(p, S)
           B == Chosen(h, S)
<1>1. Best(h, ValidSets(S, Size(S))) = sets
  BY DEF Best
<1>2. A \in SUBSET S /\ A \in sets /\ B \in SUBSET S /\ B \in sets
  BY <1>1, ChosenIs
<1>3. \A T \in SUBSET S, U \in SUBSET S : Precedes(p, T, U) <=> Precedes(h, T, U)
  BY DEF Precedes
<1>4. A = B
  <2>1. Cardinality(A) = Cardinality(B) /\ CompositionIsValid(A) /\ CompositionIsValid(B)
    BY <1>2 DEF Best, ValidSets, kSubset
  <2>2. Total(p.score, A) \in Nat /\ Total(p.score, B) \in Nat
    <3>1. IsFiniteSet(A) /\ IsFiniteSet(B) /\ \A c \in S : p.score[c] \in Nat
      BY <1>2, FS_Subset DEF Ordered
    <3> QED
      BY <1>2, <3>1, TotalIsNumber
  <2> SUFFICES ASSUME A # B PROVE FALSE
    OBVIOUS
  <2>3. Precedes(p, A, B) \/ Total(p.score, B) < Total(p.score, A)
    BY <1>2, <2>1, ChosenIs
  <2>4. Precedes(h, B, A) \/ Total(p.score, A) < Total(p.score, B)
    BY <1>2, <2>1, ChosenIs
  <2>5. Total(p.score, A) <= Total(p.score, B) /\ Total(p.score, B) <= Total(p.score, A)
    BY <1>2 DEF Best
  <2> HIDE DEF A, B, sets
  <2>6. Precedes(p, A, B) /\ Precedes(p, B, A)
    BY <1>2, <1>3, <2>2, <2>3, <2>4, <2>5
  <2>7. Precedes(p, A, A)
    BY <1>2, <2>6, PrecedesOn
  <2> QED
    BY <2>7 DEF Precedes
<1> HIDE DEF A, B, sets
<1>5. Ordered(p, A) /\ Ordered(h, A)
  BY <1>2, OrderedPart
<1>6. \A c, d \in A : RanksBefore(p, c, d) <=> RanksBefore(h, c, d)
  <2>1. \A c, d \in A : p.digest[c] < p.digest[d] <=> h.digest[c] < h.digest[d]
    <3>1. \A c \in A : c \in S /\ p.digest[c] \in Nat /\ h.digest[c] \in Nat
      BY <1>2 DEF Ordered
    <3> QED
      BY <3>1
  <2> QED
    BY <2>1 DEF RanksBefore
<1>7. \A c \in A : {d \in A : RanksBefore(p, d, c)} = {d \in A : RanksBefore(h, d, c)}
  BY <1>6
<1>8. /\ Ranked(p, A) \in [1 .. Cardinality(A) -> A]
      /\ \A i \in 1 .. Cardinality(A) :
           Cardinality({d \in A : RanksBefore(p, d, Ranked(p, A)[i])}) = i - 1
      /\ \A c, d \in A :
           Cardinality({b \in A : RanksBefore(p, b, c)}) = Cardinality({b \in A : RanksBefore(p, b, d)})
               => c = d
  <2>1. Ranked(p, A) \in Bijection(1 .. Cardinality(A), A)
    BY <1>5, RankedIs
  <2> QED
    BY <1>5, <2>1, RankedIs DEF Bijection, Injection
<1>9. /\ Ranked(h, A) \in [1 .. Cardinality(A) -> A]
      /\ \A i \in 1 .. Cardinality(A) :
           Cardinality({d \in A : RanksBefore(h, d, Ranked(h, A)[i])}) = i - 1
  <2>1. Ranked(h, A) \in Bijection(1 .. Cardinality(A), A)
    BY <1>5, RankedIs
  <2> QED
    BY <1>5, <2>1, RankedIs DEF Bijection, Injection
<1>10. ASSUME NEW i \in 1 .. Cardinality(A) PROVE Ranked(p, A)[i] = Ranked(h, A)[i]
  <2>1. Ranked(p, A)[i] \in A /\ Ranked(h, A)[i] \in A
    BY <1>8, <1>9
  <2>2. Cardinality({d \in A : RanksBefore(p, d, Ranked(h, A)[i])}) = i - 1
    BY <1>7, <1>9, <2>1
  <2>3. Cardinality({d \in A : RanksBefore(p, d, Ranked(p, A)[i])}) = i - 1
    BY <1>8
  <2>4. Cardinality({d \in A : RanksBefore(p, d, Ranked(p, A)[i])})
          = Cardinality({d \in A : RanksBefore(p, d, Ranked(h, A)[i])})
    BY <2>2, <2>3
  <2> QED
    BY <1>8, <2>1, <2>4
<1>11. Ranked(p, A) = Ranked(h, A)
  <2> DEFINE f == Ranked(p, A)
             g == Ranked(h, A)
             D == 1 .. Cardinality(A)
  <2>1. f \in [D -> A] /\ g \in [D -> A] /\ \A i \in D : f[i] = g[i]
    BY <1>8, <1>9, <1>10
  <2> HIDE DEF f, g, D
  <2>2. f = g
    BY <2>1, SameFunction
  <2> QED
    BY <2>2 DEF f, g
<1> QED
  BY <1>4, <1>11 DEF A, B

\* From the same candidates both policies select as many, with the same total, and the
\* same where their digests order alike
LEMMA PoliciesAgree ==
    ASSUME NEW S, Candidates(S)
    PROVE  /\ Len(SelectReviews(S)) = Len(SelectRecords(S))
           /\ Total(ProductOrder(S).score, ToSet(SelectReviews(S)))
                = Total(ProductOrder(S).score, ToSet(SelectRecords(S)))
           /\ (\A c, d \in S : c.digest <= d.digest <=> c.content <= d.content)
                => SelectReviews(S) = SelectRecords(S)
<1>1. CASE S = {}
  BY <1>1, RecordsAre, ReviewsAre
<1>2. CASE S # {}
  <2> DEFINE p == ProductOrder(S)
             h == HarnessOrder(S)
             A == Chosen(p, S)
             B == Chosen(h, S)
  <2>1. SelectRecords(S) = Ranked(p, A) /\ SelectReviews(S) = Ranked(h, B)
    BY <1>2, RecordsAre, ReviewsAre
  <2>2. Ordered(p, S) /\ Ordered(h, S) /\ p.score = h.score
    BY CandidatesOrdered, ReviewsOrdered DEF Candidates
  <2>3. (\A c, d \in S : c.digest <= d.digest <=> c.content <= d.content)
          => \A c, d \in S : p.digest[c] <= p.digest[d] <=> h.digest[c] <= h.digest[d]
    BY DEF ProductOrder, HarnessOrder
  <2> HIDE DEF p, h
  <2>4. Best(h, ValidSets(S, Size(S))) = Best(p, ValidSets(S, Size(S)))
    BY <2>2 DEF Best
  <2>5. /\ A \in SUBSET S /\ A \in Best(p, ValidSets(S, Size(S)))
        /\ B \in SUBSET S /\ B \in Best(p, ValidSets(S, Size(S)))
    BY <1>2, <2>2, <2>4, ChosenIs
  <2>6. Cardinality(A) = Cardinality(B)
    BY <2>5 DEF Best, ValidSets, kSubset
  <2>7. Ordered(p, A) /\ Ordered(h, B)
    BY <2>2, <2>5, OrderedPart
  <2>8. Total(p.score, A) = Total(p.score, B)
    <3>1. IsFiniteSet(A) /\ IsFiniteSet(B) /\ \A c \in S : p.score[c] \in Nat
      BY <2>2, <2>5, FS_Subset DEF Ordered
    <3>2. Total(p.score, A) \in Nat /\ Total(p.score, B) \in Nat
      BY <2>5, <3>1, TotalIsNumber
    <3>3. Total(p.score, A) <= Total(p.score, B) /\ Total(p.score, B) <= Total(p.score, A)
      BY <2>5 DEF Best
    <3> QED
      BY <3>2, <3>3
  <2>9. /\ Len(Ranked(p, A)) = Cardinality(A) /\ ToSet(Ranked(p, A)) = A
        /\ Len(Ranked(h, B)) = Cardinality(B) /\ ToSet(Ranked(h, B)) = B
    BY <2>7, RankedSet
  <2>10. (\A c, d \in S : c.digest <= d.digest <=> c.content <= d.content)
           => Ranked(h, B) = Ranked(p, A)
    BY <1>2, <2>2, <2>3, SameOrder
  <2> QED
    BY <2>1, <2>6, <2>8, <2>9, <2>10 DEF p
<1> QED
  BY <1>1, <1>2

\* The selector's answer is checked with a policy of the harness' own, which selects
\* from any candidates as many as the product assembles into a round, with the same
\* total, and the same ones in the same order where the digests order alike.
THEOREM SelectionsAgree == Candidates(Pool) => (Spec => []SelectionAgrees)
<1> SUFFICES ASSUME Candidates(Pool) PROVE Spec => []SelectionAgrees
  OBVIOUS
<1>1. SelectionAgrees
  <2>1. ASSUME NEW S \in SUBSET Pool PROVE Candidates(S)
    BY FS_Subset DEF Candidates, Reviews, Repeats
  <2> QED
    BY <2>1, PoliciesAgree DEF SelectionAgrees
<1> QED
  BY <1>1, PTL

-----------------------------------------------------------------------------
\* Files of reviewers

\* What is prepared from the file of a reviewer is a batch of that reviewer
LEMMA PreparedIs ==
    ASSUME NEW k \in Class, NEW raw \in ReviewerFiles, raw = Garbage \/ IsInjective(raw.candidates)
    PROVE  Prepare(k, raw).reviewer = k /\ IsInjective(Prepare(k, raw).candidates)
<1>1. CASE Prepare(k, raw) = Batch(k, <<>>)
  BY <1>1 DEF Batch, IsInjective
<1>2. CASE Prepare(k, raw) # Batch(k, <<>>)
  BY <1>2 DEF Prepare
<1> QED
  BY <1>1, <1>2

\* "Rejected output becomes that role's canonical empty batch [...] instead of
\* aborting the entire round": whatever the reviewers' files are, garbage or another
\* role's batches, the prepared ones assemble, unless a file lists a candidate twice.
THEOREM PreparedAlwaysAssemble == Spec => []PreparedAssembles
<1>1. ASSUME NEW raw \in [Class -> ReviewerFiles],
             \A k \in Class : raw[k] = Garbage \/ IsInjective(raw[k].candidates)
      PROVE  Assembles({Prepare(k, raw[k]) : k \in Class})
  <2> DEFINE batches == {Prepare(k, raw[k]) : k \in Class}
             f == [k \in Class |-> Prepare(k, raw[k])]
  <2>1. \A k \in Class : f[k].reviewer = k /\ IsInjective(f[k].candidates) /\ f[k] = Prepare(k, raw[k])
    BY <1>1, PreparedIs
  <2>2. f \in Bijection(Class, batches)
    <3>1. f \in [Class -> batches]
      OBVIOUS
    <3>2. \A j, k \in Class : f[j] = f[k] => j = k
      BY <2>1
    <3>3. \A b \in batches : \E k \in Class : f[k] = b
      OBVIOUS
    <3> QED
      BY <3>1, <3>2, <3>3, Fun_IsBij
  <2>3. Cardinality(batches) = Cardinality(Class)
    BY <2>2, FS_Bijection, EvaluationAssumption DEF ExistsBijection
  <2>4. \A b \in batches : b.reviewer \in Class /\ IsInjective(b.candidates)
    BY <2>1
  <2>5. {b.reviewer : b \in batches} = Class
    BY <2>1, <2>4
  <2> QED
    BY <2>3, <2>4, <2>5 DEF Assembles
<1>2. PreparedAssembles
  BY <1>1 DEF PreparedAssembles
<1> QED
  BY <1>2, PTL

-----------------------------------------------------------------------------
\* Whose scores they are

\* b may be what a builder made of the instructions of the condition c
BuiltFrom(b, c) ==
    \E id : \E a \in Answers(id, Instructions(c)) : id[1] = "builder" /\ a[1] = "ok" /\ a[2] = b

\* s may be a judge's score of that
ScoredFrom(s, c) ==
    \E id, b : BuiltFrom(b, c) /\ \E a \in Answers(id, b) : id[1] = "judge" /\ a[1] = "ok" /\ a[2] = s

\* Builds go by label, scores by condition
Attributed ==
    /\ \A i \in 1 .. Len(run.builds) : BuiltFrom(run.builds[i], run.labels[i])
    /\ \A i \in 1 .. Len(run.scores) : ScoredFrom(run.scores[i].score, run.scores[i].condition)

AttrInv == DocInv /\ Attributed

\* What an accepted phase goes by are answers to its requests
LEMMA AcceptedIs ==
    ASSUME DocInv, Accepted, NEW t \in Threads
    PROVE  \E a \in Answers(Id(t), Request) : a[1] = "ok" /\ a[2] = call[t].answer[2]
<1>1. t \in Thread
  BY EvaluationAssumption DEF Threads
<1>2. call[t].stage = "answered" /\ call[t].answer[1] = "ok"
  BY DEF Accepted, Refuses
<1>3. Recorded(Id(t), Request, call[t].answer) /\ TranscriptsFit
  BY <1>1, <1>2 DEF DocInv, CallAt
<1>4. call[t].answer \in Answers(Id(t), Request)
  <2>1. PICK k : k = captures[Id(t)]
    OBVIOUS
  <2>2. k.request = Request /\ k.response = call[t].answer /\ Id(t) \in DOMAIN captures
    BY <1>3, <2>1 DEF Recorded
  <2> QED
    BY <1>3, <2>1, <2>2 DEF TranscriptsFit
<1> QED
  BY <1>2, <1>4

\* A step that leaves what builders are told, what they built and its scores alone
LEMMA SameAttributed ==
    ASSUME Attributed, run' = run
    PROVE  Attributed'
<1>1. \A c : Instructions(c)' = Instructions(c)
  BY DEF Instructions
<1>2. \A b, c : BuiltFrom(b, c)' <=> BuiltFrom(b, c)
  BY <1>1 DEF BuiltFrom
<1>3. \A s, c : ScoredFrom(s, c)' <=> ScoredFrom(s, c)
  BY <1>2 DEF ScoredFrom
<1> QED
  BY <1>2, <1>3 DEF Attributed

\* Steps of the harness
LEMMA AttrHarness ==
    ASSUME AttrInv, Harness
    PROVE  Attributed'
<1>1. PICK next, r : To(next, r) /\ (next = "idle" \/ (Good(next, r) /\ (Threads = {} \/ Accepted)))
  BY HarnessMoves DEF AttrInv, DocInv
<1>2. CASE next = "idle"
  <2>1. run'.builds = <<>> /\ run'.scores = <<>>
    BY <1>1, <1>2 DEF To, NoRun
  <2> QED
    BY <2>1 DEF Attributed
<1>3. CASE next # "idle"
  <2>1. Good(next, r) /\ (Threads = {} \/ Accepted) /\ run' = r
    BY <1>1, <1>3 DEF To
  <2>2. Fits(phase, run) /\ IsSeq(run.builds) /\ IsSeq(run.scores)
    BY FitsAlways DEF AttrInv, DocInv
  <2>3. CASE phase \notin Late
    <3>1. run'.builds = <<>> /\ run'.scores = <<>>
      BY <2>1, <2>2, <2>3 DEF Good, Fits, Late
    <3> QED
      BY <3>1 DEF Attributed
  <2>4. CASE phase \in Late
    <3>1. /\ run'.rulings = run.rulings /\ run'.exchanges = run.exchanges
          /\ run'.labels = run.labels /\ run'.judging = run.judging
      BY <2>1, <2>4 DEF Good
    <3>2. \A c : Instructions(c)' = Instructions(c)
      BY <3>1 DEF Instructions
    <3>3. \A b, c : BuiltFrom(b, c)' <=> BuiltFrom(b, c)
      BY <3>2 DEF BuiltFrom
    <3>4. \A s, c : ScoredFrom(s, c)' <=> ScoredFrom(s, c)
      BY <3>3 DEF ScoredFrom
    <3>5. \A i \in 1 .. Len(run'.builds) : BuiltFrom(run'.builds[i], run.labels[i])
      <4>1. CASE phase # "build"
        <5>1. run'.builds = run.builds
          BY <2>1, <4>1 DEF Good
        <5> QED
          BY <5>1 DEF AttrInv, Attributed
      <4>2. CASE phase = "build"
        <5>1. Main \in Threads
          BY <4>2 DEF Threads
        <5>2. PICK a \in Answers(Id(Main), Request) : a[1] = "ok" /\ a[2] = Answer
          BY <2>1, <5>1, AcceptedIs DEF AttrInv, Answer
        <5>3. Id(Main)[1] = "builder"
          BY <4>2, IdOf
        <5>4. Request = Instructions(run.labels[Len(run.builds) + 1])
          BY <4>2 DEF Request
        <5>5. BuiltFrom(Answer, run.labels[Len(run.builds) + 1])
          BY <5>2, <5>3, <5>4 DEF BuiltFrom
        <5>6. run'.builds = Append(run.builds, Answer)
          BY <2>1, <4>2 DEF Good
        <5>7. /\ Len(run.builds) \in Nat /\ Len(run'.builds) = Len(run.builds) + 1
              /\ run'.builds[Len(run.builds) + 1] = Answer
              /\ \A i \in 1 .. Len(run.builds) : run'.builds[i] = run.builds[i]
          BY <2>2, <5>6, Grows
        <5> QED
          BY <5>5, <5>7 DEF AttrInv, Attributed
      <4> QED
        BY <4>1, <4>2
    <3>6. \A i \in 1 .. Len(run'.scores) : ScoredFrom(run'.scores[i].score, run'.scores[i].condition)
      <4>1. CASE phase # "judge"
        <5>1. run'.scores = run.scores
          BY <2>1, <4>1 DEF Good
        <5> QED
          BY <5>1 DEF AttrInv, Attributed
      <4>2. CASE phase = "judge"
        <5> DEFINE c == run.judging[Len(run.scores) + 1]
                   e == [condition |-> c, score |-> Answer]
        <5>1. Main \in Threads
          BY <4>2 DEF Threads
        <5>2. PICK a \in Answers(Id(Main), Request) : a[1] = "ok" /\ a[2] = Answer
          BY <2>1, <5>1, AcceptedIs DEF AttrInv, Answer
        <5>3. Id(Main)[1] = "judge" /\ Request = run.builds[Judged]
          BY <4>2, IdOf DEF Request
        <5>4. Judged \in 1 .. Len(run.builds) /\ run.labels[Judged] = c
          BY <2>2, <4>2, JudgedIs DEF Fits
        <5>5. BuiltFrom(run.builds[Judged], c)
          BY <5>4 DEF AttrInv, Attributed
        <5>6. ScoredFrom(Answer, c)
          BY <5>2, <5>3, <5>5 DEF ScoredFrom
        <5>7. run'.scores = Append(run.scores, e)
          BY <2>1, <4>2 DEF Good
        <5>8. e.score = Answer /\ e.condition = c
          OBVIOUS
        <5> HIDE DEF e, c
        <5>9. /\ Len(run.scores) \in Nat /\ Len(run'.scores) = Len(run.scores) + 1
              /\ run'.scores[Len(run.scores) + 1] = e
              /\ \A i \in 1 .. Len(run.scores) : run'.scores[i] = run.scores[i]
          BY <2>2, <5>7, Grows
        <5> QED
          BY <5>6, <5>8, <5>9 DEF AttrInv, Attributed
      <4> QED
        BY <4>1, <4>2
    <3> QED
      BY <3>1, <3>3, <3>4, <3>5, <3>6 DEF Attributed
  <2> QED
    BY <2>3, <2>4
<1> QED
  BY <1>2, <1>3

\* Every step
LEMMA AttrInductive == AttrInv /\ [Next]_vars => AttrInv'
<1> SUFFICES ASSUME AttrInv, [Next]_vars PROVE AttrInv'
  OBVIOUS
<1>1. DocInv'
  BY DocInductive DEF AttrInv
<1>2. CASE Harness
  BY <1>1, <1>2, AttrHarness DEF AttrInv
<1>3. CASE Begin \/ Stop
  <2>1. run'.builds = <<>> /\ run'.scores = <<>>
    BY <1>3 DEF Begin, Stop, NoRun
  <2> QED
    BY <1>1, <2>1 DEF AttrInv, Attributed
<1>4. CASE UNCHANGED vars \/ RemoveCapture \/ \E t \in Thread : Calls(t) \/ Serves(t) \/ Waits(t)
  <2>1. run' = run
    BY <1>4 DEF vars, RemoveCapture, Calls, Serves, Waits
  <2> QED
    BY <1>1, <2>1, SameAttributed DEF AttrInv
<1> QED
  BY <1>2, <1>3, <1>4 DEF Next

\* Labels and judging are shuffled for blindness: whatever the orders are, the score of a
\* condition is one that a judge gave to what a builder made of that condition's own
\* instructions.
THEOREM ScoresFollowBuilds ==
    Spec => [](\A i \in 1 .. Len(run.scores) : ScoredFrom(run.scores[i].score, run.scores[i].condition))
<1>1. Init => Attributed
  BY DEF Init, NoRun, Attributed
<1>2. Init => AttrInv
  BY <1>1, DocStarts DEF AttrInv
<1>3. AttrInv => \A i \in 1 .. Len(run.scores) : ScoredFrom(run.scores[i].score, run.scores[i].condition)
  BY DEF AttrInv, Attributed
<1> QED
  BY <1>2, <1>3, AttrInductive, PTL DEF Spec

\* The same, where builds and scores are told apart by what they were made from.
THEOREM ScoresAreAttributed ==
    ASSUME \A id, request : id[1] \in {"builder", "judge"} =>
              \A a \in Answers(id, request) : a[1] = "ok" => a[2] = request
    PROVE  Spec => []ScoresAttributed
<1>1. AttrInv => ScoresAttributed
  <2> SUFFICES ASSUME AttrInv PROVE ScoresAttributed
    OBVIOUS
  <2>1. DOMAIN run.scores = 1 .. Len(run.scores)
    BY FitsAlways DEF AttrInv, DocInv, IsSeq
  <2>2. \A b, c : BuiltFrom(b, c) => b = Instructions(c)
    BY DEF BuiltFrom
  <2>3. \A s, c : ScoredFrom(s, c) => s = Instructions(c)
    BY <2>2 DEF ScoredFrom
  <2> QED
    BY <2>1, <2>3 DEF AttrInv, Attributed, ScoresAttributed
<1>2. Init => AttrInv
  BY DocStarts DEF Init, NoRun, Attributed, AttrInv
<1> QED
  BY <1>1, <1>2, AttrInductive, PTL DEF Spec

-----------------------------------------------------------------------------
\* Types

\* A round has at most three attacks, each ruled once
Budget(ph, r) ==
    /\ Len(r.rulings) <= 3 * Rounds
    /\ ph \in {"review", "select"} => Len(r.rulings) <= 3 * (r.round - 1)
    /\ ph = "select" => r.offered # {} /\ Reviews(r.offered)
    /\ ph = "rule" => /\ IsSeq(r.chosen) /\ Len(r.chosen) \in 1 .. 3
                      /\ Len(r.rulings) + Len(r.chosen) <= 3 * r.round

BoundsFit == bounds \in [runs : 0 .. MaxRuns, removed : 0 .. MaxRemoved]

TypeInv == DocInv /\ Budget(phase, run) /\ BoundsFit

\* Reviewers offer reviews
ReviewersOffer ==
    \A id, request : id[1] = "reviewer" =>
        \A a \in Answers(id, request) : a[1] = "ok" => Reviews(a[2])

\* What the reviewers of a round have offered
LEMMA OfferedAre ==
    ASSUME ReviewersOffer, DocInv, Accepted, phase = "review"
    PROVE  Reviews(UNION {call[t].answer[2] : t \in Class})
<1>2. Threads = Class
  BY DEF Threads
<1>3. ASSUME NEW t \in Class PROVE Reviews(call[t].answer[2])
  <2>1. PICK a \in Answers(Id(t), Request) : a[1] = "ok" /\ a[2] = call[t].answer[2]
    BY <1>2, AcceptedIs
  <2>2. Id(t)[1] = "reviewer"
    BY IdOf
  <2> QED
    BY <2>1, <2>2 DEF ReviewersOffer
<1> DEFINE f == [t \in Class |-> call[t].answer[2]]
           sets == {call[t].answer[2] : t \in Class}
<1>4. IsFiniteSet(sets)
  <2>1. f \in Surjection(Class, sets)
    <3>1. f \in [Class -> sets] /\ \A x \in sets : \E t \in Class : f[t] = x
      OBVIOUS
    <3> QED
      BY <3>1 DEF Surjection
  <2> QED
    BY <2>1, FS_Surjection, EvaluationAssumption
<1>5. \A x \in sets : Reviews(x)
  BY <1>3
<1> HIDE DEF sets
<1>6. IsFiniteSet(UNION sets)
  BY <1>4, <1>5, FS_UNION DEF Reviews
<1>7. Reviews(UNION sets)
  BY <1>5, <1>6 DEF Reviews
<1> QED
  BY <1>7 DEF sets

\* What the policy selects from them, unless they repeat themselves
LEMMA SelectedFew ==
    ASSUME NEW S, Reviews(S), ~Repeats(S), S # {}
    PROVE  IsSeq(SelectReviews(S)) /\ Len(SelectReviews(S)) \in 1 .. 3
<1> DEFINE h == HarnessOrder(S)
<1>1. Ordered(h, S)
  BY ReviewsOrdered
<1>2. SelectReviews(S) = Ranked(h, Chosen(h, S))
  BY ReviewsAre
<1> HIDE DEF h
<1>3. Chosen(h, S) \in SUBSET S /\ Cardinality(Chosen(h, S)) \in 1 .. MaxSelected
  BY <1>1, ChosenIs
<1>4. Ordered(h, Chosen(h, S))
  BY <1>1, <1>3, OrderedPart
<1> QED
  BY <1>2, <1>3, <1>4, RankedSet DEF MaxSelected

\* A round's attacks fit in, and their rulings as they come
LEMMA RoundFits ==
    ASSUME NEW l \in Nat, NEW n \in Nat, NEW m \in 1 .. 3, l <= 3 * (n - 1)
    PROVE  l + m <= 3 * n
OBVIOUS

LEMMA RulingFits ==
    ASSUME NEW l \in Nat, NEW n \in Nat, NEW k \in Nat, n <= k, NEW m \in 1 .. 3, l + m <= 3 * n
    PROVE  /\ (l + 1) + (m - 1) <= 3 * n /\ l + 1 <= 3 * n /\ l + 1 <= 3 * k
           /\ l + 1 <= 3 * ((n + 1) - 1)
OBVIOUS

LEMMA TailShorter ==
    ASSUME NEW s, IsSeq(s), s # <<>>
    PROVE  /\ IsSeq(Tail(s)) /\ Len(Tail(s)) = Len(s) - 1
           /\ Tail(s) # <<>> => Len(Tail(s)) # 0
<1>1. PICK S : s \in Seq(S)
  BY DEF IsSeq
<1>2. Tail(s) \in Seq(S) /\ Len(Tail(s)) = Len(s) - 1
  BY <1>1
<1>3. \A u \in Seq(S) : u # <<>> => Len(u) # 0
  OBVIOUS
<1> QED
  BY <1>2, <1>3 DEF IsSeq

\* The end of the rounds
LEMMA BudgetEnds ==
    ASSUME NEW r, Len(r.rulings) <= 3 * Rounds, DOMAIN r = RunField, EndRounds(r)
    PROVE  Budget(phase', run')
<1>1. phase' \notin Loop /\ run'.rulings = r.rulings
  BY DEF EndRounds, To, RunField, Loop
<1> QED
  BY <1>1 DEF Budget, Loop

LEMMA BudgetHarness ==
    ASSUME ReviewersOffer, DocInv, Budget(phase, run), Harness
    PROVE  Budget(phase', run')
<1> DEFINE Goal == Budget(phase', run')
<1>1. /\ DOMAIN run = RunField /\ run.round \in 1 .. Rounds /\ Rounds \in Nat \ {0}
      /\ IsSeq(run.rulings) /\ Len(run.rulings) \in Nat
  BY FitsAlways, EvaluationAssumption DEF DocInv
<1>2. ASSUME phase' \notin Loop, run'.rulings \in {run.rulings, <<>>}
      PROVE  Goal
  <2>1. Len(<<>>) <= 3 * Rounds
    BY <1>1
  <2> QED
    BY <1>2, <2>1 DEF Budget, Loop, NoRun
<1>3. ASSUME NEW next, NEW r, To(next, r), next \notin Loop, r.rulings = run.rulings
      PROVE  Goal
  <2>1. phase' \notin Loop /\ run' \in {r, NoRun}
    BY <1>3 DEF To
  <2> QED
    BY <1>2, <1>3, <2>1 DEF NoRun
<1>4. CASE Fail \/ WriteFails \/ Test \/ WriteReport
  <2>1. CASE Fail \/ WriteFails \/ Test
    <3>1. \E next \in {"idle", "judge"} : To(next, run)
      BY <2>1 DEF Fail, WriteFails, Test
    <3> QED
      BY <1>3, <3>1 DEF Loop
  <2>2. CASE WriteReport
    <3> DEFINE r == [run EXCEPT !.written = @ + 1]
    <3>1. r.rulings = run.rulings
      BY <1>1 DEF RunField
    <3>2. \E next \in {"idle", "report"} : To(next, r)
      BY <2>2 DEF WriteReport
    <3> QED
      BY <1>3, <3>1, <3>2 DEF Loop
  <2> QED
    BY <1>4, <2>1, <2>2
<1>5. CASE Accepted /\ Reviewed
  <2> DEFINE offered == UNION {call[t].answer[2] : t \in Class}
             r == [run EXCEPT !.offered = offered, !.seen = @ \cup offered]
  <2>1. phase = "review" /\ (IF offered = {} THEN EndRounds(r) ELSE To("select", r))
    BY <1>5 DEF Reviewed
  <2>2. DOMAIN r = RunField /\ r.round = run.round /\ r.rulings = run.rulings /\ r.offered = offered
    BY <1>1 DEF RunField
  <2>3. Reviews(offered)
    BY <1>5, <2>1, OfferedAre
  <2> HIDE DEF r, offered
  <2>4. Len(run.rulings) <= 3 * Rounds /\ Len(run.rulings) <= 3 * (run.round - 1)
    BY <2>1 DEF Budget
  <2>5. CASE EndRounds(r)
    BY <2>2, <2>4, <2>5, BudgetEnds
  <2>6. CASE offered # {} /\ To("select", r)
    BY <2>2, <2>3, <2>4, <2>6 DEF To, Budget
  <2> QED
    BY <2>1, <2>5, <2>6
<1>6. CASE Accepted /\ Selected
  <2> DEFINE r == [run EXCEPT !.chosen = Answer, !.offered = {}]
  <2>1. /\ phase = "select" /\ To("rule", r)
        /\ ~Repeats(run.offered) /\ Answer = SelectReviews(run.offered)
    BY <1>6 DEF Selected, Accepted, Mismatch
  <2>2. r.round = run.round /\ r.rulings = run.rulings /\ r.chosen = Answer
    BY <1>1 DEF RunField
  <2> HIDE DEF r
  <2>3. IsSeq(Answer) /\ Len(Answer) \in 1 .. 3
    BY <2>1, SelectedFew DEF Budget
  <2>4. Len(run.rulings) <= 3 * Rounds /\ Len(run.rulings) <= 3 * (run.round - 1)
    BY <2>1 DEF Budget
  <2>5. Len(run.rulings) + Len(Answer) <= 3 * run.round
    <3>1. run.round \in Nat
      BY <1>1
    <3> QED
      BY <1>1, <2>3, <2>4, <3>1, RoundFits
  <2> QED
    BY <2>1, <2>2, <2>3, <2>4, <2>5 DEF To, Budget
<1>7. CASE Ruled
  <2> DEFINE ruling == [review |-> Head(run.chosen), round |-> run.round, verdict |-> Answer]
             r == [run EXCEPT !.rulings = Append(@, ruling), !.chosen = Tail(@)]
  <2>1. /\ phase = "rule"
        /\ \/ r.chosen # <<>> /\ To("rule", r)
           \/ r.chosen = <<>> /\ MoreRounds(r) /\ To("review", [r EXCEPT !.round = @ + 1])
           \/ EndRounds(r)
    BY <1>7 DEF Ruled
  <2>2. /\ DOMAIN r = RunField /\ r.round = run.round /\ r.rulings = Append(run.rulings, ruling)
        /\ r.chosen = Tail(run.chosen)
    BY <1>1 DEF RunField
  <2> HIDE DEF r
  <2>3. Len(r.rulings) = Len(run.rulings) + 1
    BY <1>1, <2>2, Grows
  <2>4. /\ IsSeq(run.chosen) /\ Len(run.chosen) \in 1 .. 3
        /\ Len(run.rulings) + Len(run.chosen) <= 3 * run.round
    BY <2>1 DEF Budget
  <2>5. IsSeq(r.chosen) /\ Len(r.chosen) = Len(run.chosen) - 1 /\ (r.chosen # <<>> => Len(r.chosen) # 0)
    <3>1. run.chosen # <<>>
      BY <2>4
    <3> QED
      BY <2>2, <2>4, <3>1, TailShorter
  <2>6. Len(r.rulings) + Len(r.chosen) <= 3 * r.round /\ Len(r.rulings) <= 3 * Rounds
        /\ Len(r.rulings) <= 3 * ((r.round + 1) - 1)
    <3>1. run.round \in Nat /\ run.round <= Rounds
      BY <1>1
    <3>2. /\ (Len(run.rulings) + 1) + (Len(run.chosen) - 1) <= 3 * run.round
          /\ Len(run.rulings) + 1 <= 3 * Rounds
          /\ Len(run.rulings) + 1 <= 3 * ((run.round + 1) - 1)
      BY <1>1, <2>4, <3>1, RulingFits
    <3> QED
      BY <2>2, <2>3, <2>5, <3>2
  <2>7. CASE r.chosen # <<>> /\ To("rule", r)
    <3>1. Len(r.chosen) \in 1 .. 3
      BY <2>4, <2>5, <2>7
    <3> QED
      BY <2>5, <2>6, <2>7, <3>1 DEF To, Budget
  <2>8. CASE To("review", [r EXCEPT !.round = @ + 1])
    <3> DEFINE s == [r EXCEPT !.round = @ + 1]
    <3>1. s.round = r.round + 1 /\ s.rulings = r.rulings
      BY <2>2 DEF RunField
    <3>2. phase' = "review" /\ run' = s
      BY <2>8 DEF To
    <3> HIDE DEF s
    <3>3. Len(s.rulings) <= 3 * (s.round - 1)
      BY <2>6, <3>1
    <3> QED
      BY <2>6, <3>1, <3>2, <3>3 DEF Budget
  <2>9. CASE EndRounds(r)
    BY <2>2, <2>6, <2>9, BudgetEnds
  <2> QED
    BY <2>1, <2>7, <2>8, <2>9
<1>8. CASE Scored \/ Asked \/ Answered \/ Scored2
  <2>1. ASSUME NEW r, DOMAIN r = RunField, r.rulings = run.rulings, NextQuestion(r) \/ EndScores(r)
        PROVE  Goal
    <3>1. \E next, s : To(next, s) /\ next \notin Loop /\ s.rulings = r.rulings
      <4>1. CASE To("idle", r) \/ To("answer", r) \/ To("score2", r)
        BY <4>1 DEF Loop
      <4>2. CASE To("ask", [r EXCEPT !.round = @ + 1])
        <5> DEFINE q == [r EXCEPT !.round = @ + 1]
        <5>1. To("ask", q) /\ q.rulings = r.rulings
          BY <2>1, <4>2 DEF RunField
        <5> HIDE DEF q
        <5> QED
          BY <5>1 DEF Loop
      <4>3. CASE EndScores(r)
        <5>1. CASE To("report", r)
          BY <5>1 DEF Loop
        <5>2. ASSUME NEW labels, NEW judging, To("build", [r EXCEPT !.labels = labels, !.judging = judging])
              PROVE  \E next, s : To(next, s) /\ next \notin Loop /\ s.rulings = r.rulings
          <6> DEFINE q == [r EXCEPT !.labels = labels, !.judging = judging]
          <6>1. To("build", q) /\ q.rulings = r.rulings
            BY <2>1, <5>2 DEF RunField
          <6> HIDE DEF q
          <6> QED
            BY <6>1 DEF Loop
        <5> QED
          BY <4>3, <5>1, <5>2 DEF EndScores
      <4> QED
        BY <2>1, <4>1, <4>2, <4>3 DEF NextQuestion, EndQuestions
    <3>2. PICK next, s : To(next, s) /\ next \notin Loop /\ s.rulings = r.rulings
      BY <3>1
    <3> QED
      BY <1>3, <2>1, <3>2
  <2>2. CASE Scored
    <3>1. phase' \notin Loop /\ run' = [run EXCEPT !.round = 1]
      BY <2>2 DEF Scored, To, Loop
    <3>2. run'.rulings = run.rulings
      BY <1>1, <3>1 DEF RunField
    <3> QED
      BY <1>2, <3>1, <3>2
  <2>3. CASE Asked
    <3> DEFINE r == [run EXCEPT !.questions = Answer]
    <3>1. NextQuestion(r) /\ DOMAIN r = RunField /\ r.rulings = run.rulings
      BY <1>1, <2>3 DEF Asked, RunField
    <3> QED
      BY <2>1, <3>1
  <2>4. CASE Answered
    <3> DEFINE r == [run EXCEPT !.exchanges = Append(@, Head(run.questions)), !.questions = Tail(@)]
    <3>1. NextQuestion(r) /\ DOMAIN r = RunField /\ r.rulings = run.rulings
      BY <1>1, <2>4 DEF Answered, RunField
    <3> QED
      BY <2>1, <3>1
  <2>5. CASE Scored2
    BY <1>1, <2>1, <2>5 DEF Scored2
  <2> QED
    BY <1>8, <2>2, <2>3, <2>4, <2>5
<1>9. CASE Built \/ JudgedOne
  <2>1. \E next, r : To(next, r) /\ next \notin Loop /\ r.rulings = run.rulings
    <3>1. CASE Built
      <4> DEFINE r == [run EXCEPT !.builds = Append(@, Answer)]
      <4>1. r.rulings = run.rulings
        BY <1>1 DEF RunField
      <4>2. \E next \in {"test", "build"} : To(next, r)
        BY <3>1 DEF Built
      <4> QED
        BY <4>1, <4>2 DEF Loop
    <3>2. CASE JudgedOne
      <4> DEFINE r == [run EXCEPT !.scores =
                          Append(@, [condition |-> run.judging[Len(@) + 1], score |-> Answer])]
      <4>1. r.rulings = run.rulings
        BY <1>1 DEF RunField
      <4>2. \E next \in {"report", "judge"} : To(next, r)
        BY <3>2 DEF JudgedOne
      <4> QED
        BY <4>1, <4>2 DEF Loop
    <3> QED
      BY <1>9, <3>1, <3>2
  <2> QED
    BY <1>3, <2>1
<1> QED
  BY <1>4, <1>5, <1>6, <1>7, <1>8, <1>9 DEF Harness, Collect

\* Every step keeps the types and the budget
LEMMA TypeInductive == ReviewersOffer /\ TypeInv /\ [Next]_vars => TypeInv'
<1> SUFFICES ASSUME ReviewersOffer, TypeInv, [Next]_vars PROVE TypeInv'
  OBVIOUS
<1>1. DocInv'
  BY DocInductive DEF TypeInv
<1>2. CASE Harness
  <2>1. bounds' = bounds
    BY <1>2 DEF Harness
  <2> QED
    BY <1>1, <1>2, <2>1, BudgetHarness DEF TypeInv, BoundsFit
<1>3. CASE Begin \/ Stop
  <2>1. run'.rulings = <<>> /\ run'.round = 1 /\ phase' \in {"idle", "review"}
    BY <1>3 DEF Begin, Stop, NoRun
  <2>2. Budget(phase', run')
    <3>1. Len(<<>>) <= 3 * Rounds /\ Len(<<>>) <= 3 * (1 - 1)
      BY EvaluationAssumption
    <3> QED
      BY <2>1, <3>1 DEF Budget
  <2>3. BoundsFit'
    <3>1. \/ bounds' = bounds
          \/ bounds.runs < MaxRuns /\ bounds' = [bounds EXCEPT !.runs = @ + 1]
      BY <1>3 DEF Begin, Stop
    <3> QED
      BY <3>1, EvaluationAssumption DEF TypeInv, BoundsFit
  <2> QED
    BY <1>1, <2>2, <2>3 DEF TypeInv
<1>4. CASE RemoveCapture
  <2>1. phase' = phase /\ run' = run /\ bounds.removed < MaxRemoved /\ bounds' = [bounds EXCEPT !.removed = @ + 1]
    BY <1>4 DEF RemoveCapture
  <2>2. BoundsFit'
    BY <2>1, EvaluationAssumption DEF TypeInv, BoundsFit
  <2> QED
    BY <1>1, <2>1, <2>2 DEF TypeInv
<1>5. CASE UNCHANGED vars \/ \E t \in Thread : Calls(t) \/ Serves(t) \/ Waits(t)
  <2>1. phase' = phase /\ run' = run /\ bounds' = bounds
    BY <1>5 DEF vars, Calls, Serves, Waits
  <2> QED
    BY <1>1, <2>1 DEF TypeInv, BoundsFit
<1> QED
  BY <1>2, <1>3, <1>4, <1>5 DEF Next

\* The types of a run, and the budget of a task: three rulings a round and the given
\* number of rounds, whatever reviewers offer and however often runs are resumed.
THEOREM TypeCorrect == ReviewersOffer => (Spec => []TypeOK)
<1> SUFFICES ASSUME ReviewersOffer PROVE Spec => []TypeOK
  OBVIOUS
<1>1. Init => TypeInv
  <2> SUFFICES ASSUME Init PROVE TypeInv
    OBVIOUS
  <2>1. Budget(phase, run)
    <3>1. Len(<<>>) <= 3 * Rounds
      BY EvaluationAssumption
    <3> QED
      BY <3>1 DEF Init, NoRun, Budget
  <2>2. BoundsFit
    BY EvaluationAssumption DEF Init, BoundsFit
  <2> QED
    BY <2>1, <2>2, DocStarts DEF TypeInv
<1>2. TypeInv => TypeOK
  <2> SUFFICES ASSUME TypeInv PROVE TypeOK
    OBVIOUS
  <2>1. \A t \in Thread : CallFits(call[t])
    BY DEF TypeInv, DocInv, CallAt
  <2>2. phase \in Phases /\ run.round \in 1 .. Rounds /\ run.written \in 0 .. 2 /\ Len(run.rulings) <= 3 * Rounds
    BY DEF TypeInv, DocInv, Fits, Budget
  <2>3. run.written \in 0 .. Len(Files)
    BY <2>2 DEF Files
  <2> QED
    BY <2>1, <2>2, <2>3 DEF TypeOK, CallFits, MaxSelected, TypeInv, BoundsFit
<1>3. TypeInv /\ [Next]_vars => TypeInv'
  BY TypeInductive
<1> QED
  BY <1>1, <1>2, <1>3, PTL DEF Spec

=============================================================================
