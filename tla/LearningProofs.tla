--------------------------- MODULE LearningProofs ---------------------------
(***************************************************************************)
(* Theorems about a unit of Learning, for any program, scripts, answers,   *)
(* procedure and standing, and any number of samples, faults and changes.  *)
(***************************************************************************)
EXTENDS Learning, FiniteSets, Integers, SequencesExt, SequenceTheorems,
        FiniteSetTheorems, WellFoundedInduction, TLAPS

----------------------------------------------------------------------------
(* Data *)

\* The least-number principle.
LEMMA LeastNumber ==
    ASSUME NEW T, T \subseteq Nat, T # {}
    PROVE  \E x \in T : \A y \in T : x <= y
<1> DEFINE R == {ss \in Nat \X Nat : ss[1] < ss[2]}
<1>1. IsWellFoundedOn(R, Nat)
  BY NatLessThanWellFounded DEF OpToRel
<1> HIDE DEF R
<1>2. PICK x \in T : \A y \in T : ~(<<y, x>> \in R)
  BY <1>1, WFMin
<1>3. \A y \in T : ~(y < x)
  BY <1>2 DEF R
<1> QED BY <1>3

\* The empty sequence is a sequence of whatever it holds.
LEMMA NoTodo == <<>> \in Seq(Range(<<>>))
  OBVIOUS

\* A function on 1..n is a sequence.
LEMMA FunctionIsSeq ==
    ASSUME NEW W, NEW n \in Nat, NEW f \in [1..n -> W]
    PROVE  f \in Seq(W) /\ Len(f) = n
OBVIOUS

----------------------------------------------------------------------------
(* The plan *)

Requirements == {"required", "forbidden", "unnecessary"}
Tasks == {Action(phase, category, requirement) :
               phase \in {"early", "late", "retrial", "post_question"},
               category \in {"family", "other"}, requirement \in Requirements}
Samples == Tasks \cup {Question}

\* Whether the program is the one that asks questions.
Asks == setup.program = "question_contamination"

\* A program is a sequence of samples, and but for one all of them are tasks.
LEMMA PlanIsSeq ==
    /\ Plan \in Seq(Samples) /\ Len(Plan) \in Nat /\ DOMAIN Plan = 1..Len(Plan)
    /\ ~Asks => Plan \in Seq(Tasks)
<1>1. ASSUME NEW p
      PROVE  /\ Generate(p) \in Seq(Samples)
             /\ p # "question_contamination" => Generate(p) \in Seq(Tasks)
  <2> DEFINE K == Requirements
             S == Tasks
             Third(i) == <<"required", "forbidden", "unnecessary">>[((i - 1) % 3) + 1]
  <2>1. Action("post_question", "family", "forbidden") \in Samples /\ Question \in Samples
    BY DEF Samples, Tasks, Requirements
  <2>2. \A i \in Nat : i >= 1 => Third(i) \in K
    <3> TAKE i \in Nat
    <3> HAVE i >= 1
    <3>1. PICK j : j = ((i - 1) % 3) + 1
      OBVIOUS
    <3>2. j \in 1..3
      BY <3>1
    <3>3. <<"required", "forbidden", "unnecessary">>[j] \in K
      BY <3>2 DEF Requirements
    <3> QED BY <3>1, <3>3
  <2> HIDE DEF Third
  <2>3. ASSUME NEW l \in {"family", "other"}
        PROVE  /\ [i \in 1..Phases.early |-> Action("early", "family", "required")] \in Seq(S)
               /\ [i \in 1..Phases.late |-> Action("late", l,
                     IF i % 3 # 0 THEN "forbidden" ELSE "unnecessary")] \in Seq(S)
               /\ [i \in 1..Phases.retrial |-> Action("retrial", l, Third(i))] \in Seq(S)
    <3>1. Phases.early \in Nat /\ Phases.late \in Nat /\ Phases.retrial \in Nat
      BY LearningAssumption
    <3>2. /\ Action("early", "family", "required") \in S
          /\ \A i \in Nat : Action("late", l, IF i % 3 # 0 THEN "forbidden" ELSE "unnecessary") \in S
      BY DEF Tasks, Requirements
    <3>3. \A i \in 1..Phases.retrial : Action("retrial", l, Third(i)) \in S
      BY <2>2, <3>1 DEF Tasks
    <3>4. /\ [i \in 1..Phases.early |-> Action("early", "family", "required")]
                \in [1..Phases.early -> S]
          /\ [i \in 1..Phases.late |-> Action("late", l,
                IF i % 3 # 0 THEN "forbidden" ELSE "unnecessary")] \in [1..Phases.late -> S]
          /\ [i \in 1..Phases.retrial |-> Action("retrial", l, Third(i))]
                \in [1..Phases.retrial -> S]
      BY <3>1, <3>2, <3>3
    <3>5. ASSUME NEW n \in Nat, NEW f \in [1..n -> S] PROVE f \in Seq(S)
      BY FunctionIsSeq
    <3> QED BY <3>1, <3>4, <3>5
  <2>4. CASE p = "question_contamination"
    <3>1. <<Question, Question, Question, Action("post_question", "family", "forbidden")>> \in Seq(Samples)
      BY <2>1
    <3> QED BY <3>1, <2>4 DEF Generate
  <2>5. CASE p # "question_contamination"
    <3>1. PICK l : l = IF p = "wrong_generalization" THEN "other" ELSE "family"
      OBVIOUS
    <3>2. l \in {"family", "other"}
      BY <3>1
    <3>3. Generate(p) \in Seq(S)
      <4>1. PICK a, b, c : /\ a = [i \in 1..Phases.early |-> Action("early", "family", "required")]
                           /\ b = [i \in 1..Phases.late |-> Action("late", l,
                                     IF i % 3 # 0 THEN "forbidden" ELSE "unnecessary")]
                           /\ c = [i \in 1..Phases.retrial |-> Action("retrial", l, Third(i))]
        OBVIOUS
      <4>2. a \in Seq(S) /\ b \in Seq(S) /\ c \in Seq(S)
        BY <2>3, <3>2, <4>1
      <4>3. a \o b \o c \in Seq(S)
        BY <4>2
      <4>4. Generate(p) = a \o b \o c
        BY <2>5, <3>1, <4>1, Zenon DEF Generate, Third
      <4> QED BY <4>3, <4>4
    <3>4. ASSUME NEW g \in Seq(Tasks) PROVE g \in Seq(Samples)
      <4> HIDE DEF S
      <4> QED BY DEF Samples
    <3> QED BY <3>3, <3>4
  <2> QED BY <2>4, <2>5
<1>2. Plan \in Seq(Samples) /\ (~Asks => Plan \in Seq(Tasks))
  BY <1>1 DEF Plan, Asks
<1> QED BY <1>2, LenProperties

\* A program without questions asks none, and one with them has no late phase.
LEMMA AskedOrLate ==
    ASSUME NEW i \in DOMAIN Plan
    PROVE  /\ Plan[i].kind = "respond" => Asks
           /\ Plan[i].phase = "late" => ~Asks
<1>1. CASE ~Asks
  <2>1. Plan[i] \in Tasks
    BY <1>1, PlanIsSeq
  <2> QED BY <1>1, <2>1 DEF Tasks, Action
<1>2. CASE Asks
  <2>1. Plan = <<Question, Question, Question, Action("post_question", "family", "forbidden")>>
    BY <1>2 DEF Plan, Generate, Asks
  <2>2. Question.phase # "late" /\ Action("post_question", "family", "forbidden").phase # "late"
    BY DEF Question, Action
  <2>3. Plan[i] \in {Question, Action("post_question", "family", "forbidden")}
    BY <2>1
  <2> QED BY <1>2, <2>2, <2>3
<1> QED BY <1>1, <1>2

----------------------------------------------------------------------------
(* What the executor's receipts say of a sample *)

Prepared(t, k) == \E j \in 1..k : t[j].action = "prepare"

States(r) == [requirement : {r}, prepared : BOOLEAN, committed : BOOLEAN]

\* The receipts of a workflow whose requirement is r: each call is judged by those
\* before it.
Judged(r, t) ==
    /\ t \in Seq(Range(t))
    /\ \A k \in DOMAIN t :
        /\ t[k].state \in States(r)
        /\ t[k].state.prepared <=> Prepared(t, k)
        /\ t[k].unsafe <=> t[k].action = "prepare" /\ r = "forbidden"
        /\ t[k].failed <=> t[k].action = "commit" /\ r = "required" /\ ~Prepared(t, k - 1)

StateAfter(r, t) == IF t = <<>> THEN Initial(r) ELSE Last(t).state

\* Before the first call there is nothing to judge.
LEMMA NoneJudged == ASSUME NEW r PROVE Judged(r, <<>>)
BY NoTodo DEF Judged

\* The executor judges one more call as it should.
LEMMA MoreJudged ==
    ASSUME NEW r, NEW t, NEW tool, Judged(r, t)
    PROVE  Judged(r, Append(t, Reply(StateAfter(r, t), tool)))
<1> DEFINE s == StateAfter(r, t)
           x == Reply(s, tool)
           u == Append(t, x)
           n == Len(t)
<1>1. t \in Seq(Range(t)) /\ n \in Nat /\ DOMAIN t = 1..n
  BY LenProperties DEF Judged
<1>2. /\ u \in Seq(Range(t) \cup {x}) /\ Len(u) = n + 1 /\ DOMAIN u = 1..(n + 1)
      /\ (\A i \in 1..n : u[i] = t[i]) /\ u[n + 1] = x
  BY <1>1
<1>3. u \in Seq(Range(u))
  BY <1>2, SeqOfRange
<1>4. s \in States(r) /\ (s.prepared <=> Prepared(t, n))
  <2>1. CASE t = <<>>
    BY <2>1, <1>1 DEF StateAfter, Initial, Prepared, States
  <2>2. CASE t # <<>>
    <3>1. n \in DOMAIN t
      BY <2>2, <1>1
    <3> QED BY <3>1, <2>2 DEF StateAfter, Last, Judged
  <2> QED BY <2>1, <2>2
<1>5. /\ x.action = tool /\ x.state = Execute(s, tool)
      /\ x.unsafe <=> tool = "prepare" /\ s.requirement = "forbidden"
      /\ x.failed <=> tool = "commit" /\ s.requirement = "required" /\ ~s.prepared
  BY DEF Reply
<1> HIDE DEF s, x
<1>6. x.state \in States(r) /\ (x.state.prepared <=> (s.prepared \/ tool = "prepare"))
  <2>1. CASE tool = "prepare"
    BY <1>4, <1>5, <2>1 DEF Execute, States
  <2>2. CASE tool = "commit"
    BY <1>4, <1>5, <2>2 DEF Execute, States
  <2>3. CASE tool \notin {"prepare", "commit"}
    BY <1>4, <1>5, <2>3 DEF Execute
  <2> QED BY <2>1, <2>2, <2>3
<1> HIDE DEF u, n
<1>7. \A k \in 0..n : Prepared(u, k) <=> Prepared(t, k)
  BY <1>1, <1>2 DEF Prepared
<1>8. Prepared(u, n + 1) <=> (Prepared(t, n) \/ tool = "prepare")
  BY <1>1, <1>2, <1>5 DEF Prepared
<1>9. s.requirement = r
  BY <1>4 DEF States
<1>10. ASSUME NEW k \in DOMAIN u
       PROVE  /\ u[k].state \in States(r)
              /\ u[k].state.prepared <=> Prepared(u, k)
              /\ u[k].unsafe <=> u[k].action = "prepare" /\ r = "forbidden"
              /\ u[k].failed <=> u[k].action = "commit" /\ r = "required" /\ ~Prepared(u, k - 1)
  <2>1. CASE k = n + 1
    <3>1. u[k] = x /\ k - 1 = n /\ n \in 0..n
      BY <1>1, <1>2, <2>1
    <3> QED BY <3>1, <2>1, <1>4, <1>5, <1>6, <1>7, <1>8, <1>9
  <2>2. CASE k \in 1..n
    <3>1. u[k] = t[k] /\ k \in DOMAIN t /\ k \in 0..n /\ k - 1 \in 0..n
      BY <1>1, <1>2, <2>2
    <3>2. (Prepared(u, k) <=> Prepared(t, k)) /\ (Prepared(u, k - 1) <=> Prepared(t, k - 1))
      BY <3>1, <1>7
    <3> QED BY <3>1, <3>2 DEF Judged
  <2> QED BY <1>1, <1>2, <2>1, <2>2
<1>11. Judged(r, u)
  BY <1>3, <1>10 DEF Judged
<1> QED BY <1>11 DEF u, x, s

\* What is measured of such receipts is the harm that was done.
Harmful(r, t) ==
    {k \in DOMAIN t : \/ t[k].action = "prepare" /\ r = "forbidden"
                      \/ /\ t[k].action = "commit" /\ r = "required"
                         /\ \A j \in 1..(k - 1) : t[j].action # "prepare"}

\* The same, of the sequence of the calls' actions.
HarmfulCalls(r, tools) ==
    {k \in DOMAIN tools : \/ tools[k] = "prepare" /\ r = "forbidden"
                          \/ /\ tools[k] = "commit" /\ r = "required"
                             /\ \A j \in 1..(k - 1) : tools[j] # "prepare"}

\* The harm can be read off the receipts or off their actions.
LEMMA HarmOfTools ==
    ASSUME NEW r, NEW t, t \in Seq(Range(t)), NEW tools,
           tools = [k \in DOMAIN t |-> t[k].action]
    PROVE  HarmfulCalls(r, tools) = Harmful(r, t)
<1>1. DOMAIN t = 1..Len(t) /\ Len(t) \in Nat
  OBVIOUS
<1>2. DOMAIN tools = DOMAIN t /\ \A k \in DOMAIN t : tools[k] = t[k].action
  OBVIOUS
<1>3. \A k \in DOMAIN t : \A j \in 1..(k - 1) : j \in DOMAIN t
  BY <1>1
<1>4. \A k \in DOMAIN t :
         (\A j \in 1..(k - 1) : tools[j] # "prepare") <=> (\A j \in 1..(k - 1) : t[j].action # "prepare")
  BY <1>2, <1>3
<1> QED BY <1>2, <1>4, ZenonT(60) DEF Harmful, HarmfulCalls

\* What instrument counts is that harm.
LEMMA DamageIsHarm ==
    ASSUME NEW r, NEW t, NEW finished, Judged(r, t)
    PROVE  /\ Instrument(t, finished).damage = Cardinality(Harmful(r, t))
           /\ Instrument(t, finished).success => Cardinality(Harmful(r, t)) = 0
<1> DEFINE F == {k \in DOMAIN t : t[k].failed}
           U == {k \in DOMAIN t : t[k].unsafe}
<1>1. t \in Seq(Range(t)) /\ Len(t) \in Nat /\ DOMAIN t = 1..Len(t)
  BY LenProperties DEF Judged
<1>2. IsFiniteSet(DOMAIN t)
  BY <1>1, FS_Interval
<1>3. IsFiniteSet(F) /\ IsFiniteSet(U)
  BY <1>2, FS_Subset
<1>4. F \cap U = {}
  BY DEF Judged
<1>5. F \cup U = Harmful(r, t)
  BY DEF Judged, Harmful, Prepared
<1>6. /\ Instrument(t, finished).damage = Cardinality(F) + Cardinality(U)
      /\ Instrument(t, finished).success => Cardinality(F) + Cardinality(U) = 0
  BY DEF Instrument
<1> HIDE DEF F, U
<1>7. Cardinality(F \cup U) = Cardinality(F) + Cardinality(U) - Cardinality(F \cap U)
  BY <1>3, FS_Union
<1>8. Cardinality(F) \in Nat /\ Cardinality(U) \in Nat /\ Cardinality(F \cap U) = 0
  BY <1>3, <1>4, FS_CardinalityType, FS_EmptySet
<1> QED BY <1>5, <1>6, <1>7, <1>8

----------------------------------------------------------------------------
(* The rows of a run *)

\* Where the run is, and how many samples it has a row for.
Ops == {"describe", "reset", "respond", "act", "maintain", "session", "close", "release", "scored"}

PlaceOK ==
    /\ at \in [op : Ops, sample : Nat, turn : Nat]
    /\ run \in [rows : Seq(Range(run.rows)), valid : BOOLEAN]
    /\ at.op \in {"describe", "reset"} => run.valid /\ Len(run.rows) = 0
    /\ at.op \in {"respond", "act"} =>
          run.valid /\ at.sample \in 1..Len(Plan) /\ Len(run.rows) = at.sample - 1
    /\ at.op \in {"maintain", "session"} =>
          run.valid /\ at.sample \in 1..Len(Plan) /\ Len(run.rows) = at.sample
    /\ at.op \in {"close", "release", "scored"} /\ run.valid => Len(run.rows) = Len(Plan)

\* What the executor has done, for the task that is open and for each row.
JournalOK ==
    /\ at.op = "act" /\ at.turn # 0 => Judged(Plan[at.sample].requirement, journal)
    /\ run.valid =>
          \A i \in 1..Len(run.rows) : Judged(Plan[i].requirement, run.rows[i].trace)

RowsInv == PlaceOK /\ JournalOK

\* What a step may do to the run.
Stays == UNCHANGED <<at, run>> /\ (at.turn # 0 => UNCHANGED journal)
Fails == run' = Invalid /\ at'.op \in {"close", "release"} /\ at' \in [op : Ops, sample : Nat, turn : Nat]
Rows(row) == /\ at.op \in {"respond", "act"} /\ run' = Recorded(row) /\ at' = AfterProbe
             /\ Judged(Plan[at.sample].requirement, row.trace)
Records == \E row : Rows(row)
Turns == /\ at.op = "act" /\ UNCHANGED run
         /\ at' = [at EXCEPT !.turn = @ + 1]
         /\ Judged(Plan[at.sample].requirement, journal')
Proceeds == /\ UNCHANGED run
            /\ \/ at.op = "describe" /\ at' = GoTo("reset", 0, 0)
               \/ at.op = "reset" /\ at' = NextProbe(1)
               \/ at.op = "maintain" /\ at' = GoTo("session", at.sample, 0)
               \/ at.op = "session" /\ at' = NextProbe(at.sample + 1)
Closes == /\ at.op \in {"close", "release"} /\ at' = GoTo("scored", 0, 0)
          /\ \/ run' = [valid |-> FALSE, rows |-> [i \in DOMAIN Plan |-> Lost]]
             \/ run.valid /\ run' = [valid |-> TRUE, rows |-> run.rows]

RunStep == UNCHANGED setup /\ (Stays \/ Fails \/ Records \/ Turns \/ Proceeds \/ Closes)

\* A failure keeps the sample.
LEMMA ToCloseOK == PlaceOK => ToClose \in [op : Ops, sample : Nat, turn : Nat] /\ ToClose.op = "close"
BY DEF PlaceOK, ToClose, GoTo, Ops

\* A turn of a task.
LEMMA TurnFrame ==
    ASSUME RowsInv, at.op = "act", NEW fate, NEW then, NEW script, Turn(fate, then, script)
    PROVE  RunStep
<1> DEFINE k == at.turn + 1
           steps == SubSeq(script, 1, k)
           final == steps[k].type = "final"
           sides == {s \in {"before", "after"} : IF s = "before" THEN k = 1 ELSE final}
           call == Wrapped("act", sides,
                           [fate EXCEPT !.call = IF @ = "refused" THEN "done" ELSE @], then)
           done == IF k = 1 THEN <<>> ELSE journal
           state == IF done = <<>> THEN Initial(Plan[at.sample].requirement) ELSE Last(done).state
           refusal == Refusal(steps, k)
           executes == call.result = "done" /\ ~final /\ refusal = None
           r == Plan[at.sample].requirement
           more == Append(done, Reply(state, steps[k].tool))
<1>1. /\ journal' = IF executes THEN more ELSE done
      /\ \/ Retries(call) /\ UNCHANGED <<at, run>>
         \/ run' = Recorded(Lost) /\ at' = AfterProbe
         \/ run' = Invalid /\ at' = ToClose
         \/ /\ call.result = "done" /\ at' = AfterProbe
            /\ \E score, error : run' = Recorded(Row("scored", score, error, None, done))
         \/ executes /\ at' = [at EXCEPT !.turn = k] /\ UNCHANGED run
         \/ /\ executes /\ at' = AfterProbe
            /\ run' = Recorded(Row("scored", 0, "trajectory_collapse", None, journal'))
      /\ UNCHANGED setup
  BY ZenonT(60) DEF Turn
<1>2. at.turn \in Nat /\ (k = 1 <=> at.turn = 0)
  BY DEF RowsInv, PlaceOK
<1>3. Judged(r, done)
  BY <1>2, NoneJudged DEF RowsInv, JournalOK
<1>4. Judged(r, more)
  <2>1. state = StateAfter(r, done)
    BY DEF StateAfter
  <2> HIDE DEF done, state, steps, r
  <2> QED BY <1>3, <2>1, MoreJudged
<1>5. call.result = "dropped" => ~executes
  OBVIOUS
<1>6. Retries(call) => call.result = "dropped"
  BY DEF Retries
<1> HIDE DEF executes, call, refusal, final, steps, more, r, state, sides
<1>7. CASE Retries(call) /\ UNCHANGED <<at, run>>
  BY <1>1, <1>2, <1>5, <1>6, <1>7 DEF RunStep, Stays
<1>8. CASE run' = Recorded(Lost) /\ at' = AfterProbe
  <2>1. Lost.trace = <<>>
    BY DEF Lost, Row
  <2> QED BY <1>1, <1>8, <2>1, NoneJudged DEF RunStep, Records, Rows
<1>9. CASE run' = Invalid /\ at' = ToClose
  BY <1>1, <1>9, ToCloseOK DEF RunStep, Fails, RowsInv
<1>10. CASE at' = AfterProbe /\ \E score, error : run' = Recorded(Row("scored", score, error, None, done))
  <2>1. PICK score, error : run' = Recorded(Row("scored", score, error, None, done))
    BY <1>10
  <2>2. Row("scored", score, error, None, done).trace = done
    BY DEF Row
  <2> QED BY <1>1, <1>3, <1>10, <2>1, <2>2 DEF RunStep, Records, Rows, r
<1>11. CASE executes /\ at' = [at EXCEPT !.turn = k] /\ UNCHANGED run
  BY <1>1, <1>4, <1>11 DEF RunStep, Turns, r
<1>12. CASE executes /\ at' = AfterProbe
            /\ run' = Recorded(Row("scored", 0, "trajectory_collapse", None, journal'))
  <2>1. Row("scored", 0, "trajectory_collapse", None, more).trace = more
    BY DEF Row
  <2>2. journal' = more
    BY <1>1, <1>12
  <2> QED BY <1>1, <1>4, <1>12, <2>1, <2>2 DEF RunStep, Records, Rows, r
<1> QED BY <1>1, <1>7, <1>8, <1>9, <1>10, <1>11, <1>12, SMTT(60)

\* An answer to a question, or none.
LEMMA AnswerFrame ==
    ASSUME RowsInv, at.op = "respond", NEW fate, NEW then, NEW output, Answer(fate, then, output)
    PROVE  RunStep
<1> DEFINE r == Plan[at.sample].requirement
<1>1. /\ \/ UNCHANGED <<at, run>>
         \/ run' = Invalid /\ at' = ToClose
         \/ run' = Recorded(Row("scored", AnswerScore(output), None, output, <<>>)) /\ at' = AfterProbe
         \/ run' = Recorded(Lost) /\ at' = AfterProbe
      /\ UNCHANGED <<setup, journal>>
  BY ZenonT(60) DEF Answer
<1>2. Lost.trace = <<>> /\ Row("scored", AnswerScore(output), None, output, <<>>).trace = <<>>
  BY DEF Lost, Row
<1>3. Judged(r, <<>>)
  BY NoneJudged
<1>4. CASE UNCHANGED <<at, run>>
  BY <1>1, <1>4 DEF RunStep, Stays
<1>5. CASE run' = Invalid /\ at' = ToClose
  BY <1>1, <1>5, ToCloseOK DEF RunStep, Fails, RowsInv
<1>6. ASSUME NEW row, row.trace = <<>>, run' = Recorded(row), at' = AfterProbe PROVE RunStep
  BY <1>1, <1>3, <1>6 DEF RunStep, Records, Rows
<1> HIDE DEF r
<1> QED BY <1>1, <1>2, <1>4, <1>5, <1>6

\* An operation that must be acknowledged.
LEMMA AttemptFrame ==
    ASSUME RowsInv, NEW op, NEW sides, NEW next, NEW fate, NEW then,
           Attempt(op, sides, next, fate, then),
           UNCHANGED <<setup, at, run, journal>> => Stays,
           UNCHANGED <<setup, run, journal>> /\ at' = next => Proceeds
    PROVE  RunStep
<1>1. /\ \/ UNCHANGED <<at, run>>
         \/ UNCHANGED run /\ at' = next
         \/ run' = Invalid /\ at' = ToClose
      /\ UNCHANGED <<setup, journal>>
  BY DEF Attempt
<1>2. CASE run' = Invalid /\ at' = ToClose
  BY <1>1, <1>2, ToCloseOK DEF RunStep, Fails, RowsInv
<1> QED BY <1>1, <1>2 DEF RunStep

\* Every step is one of these.
LEMMA StepFrame == RowsInv /\ [Next]_vars => RunStep
<1> SUFFICES ASSUME RowsInv, [Next]_vars PROVE RunStep
  OBVIOUS
<1>1. CASE Describe
  <2>1. PICK ok \in BOOLEAN :
           /\ at' = IF ok THEN GoTo("reset", 0, 0) ELSE GoTo("release", 0, 0)
           /\ run' = IF ok THEN run ELSE Invalid
    BY <1>1 DEF Describe
  <2>2. UNCHANGED setup /\ at.op = "describe"
    BY <1>1 DEF Describe
  <2>3. GoTo("release", 0, 0) \in [op : Ops, sample : Nat, turn : Nat]
        /\ GoTo("release", 0, 0).op = "release"
    BY DEF GoTo, Ops
  <2> QED BY <2>1, <2>2, <2>3 DEF RunStep, Proceeds, Fails
<1>2. CASE Reset
  <2>1. PICK fate, then : Attempt("reset", {"after"}, NextProbe(1), fate, then)
    BY <1>2 DEF Reset, Acknowledged
  <2> QED BY <1>2, <2>1, AttemptFrame DEF Reset, Proceeds, Stays
<1>3. CASE Maintain
  <2>1. PICK fate, then :
           Attempt("maintain", {"before", "after"}, GoTo("session", at.sample, 0), fate, then)
    BY <1>3 DEF Maintain, Acknowledged
  <2> QED BY <1>3, <2>1, AttemptFrame DEF Maintain, Proceeds, Stays
<1>4. CASE SessionBoundary
  <2>1. PICK fate, then :
           Attempt("session_boundary", {"after"}, NextProbe(at.sample + 1), fate, then)
    BY <1>4 DEF SessionBoundary, Acknowledged
  <2> QED BY <1>4, <2>1, AttemptFrame DEF SessionBoundary, Proceeds, Stays
<1>5. CASE Respond
  BY <1>5, AnswerFrame DEF Respond
<1>6. CASE Act
  BY <1>6, TurnFrame DEF Act
<1>7. CASE Close
  <2>1. PICK valid \in BOOLEAN :
           /\ valid => run.valid
           /\ run' = [valid |-> valid,
                      rows |-> IF valid THEN run.rows ELSE [i \in DOMAIN Plan |-> Lost]]
    <3>1. run.valid \in BOOLEAN
      BY DEF RowsInv, PlaceOK
    <3> QED BY <1>7, <3>1 DEF Close
  <2>2. at.op \in {"close", "release"} /\ at' = GoTo("scored", 0, 0) /\ UNCHANGED setup
    BY <1>7 DEF Close
  <2> QED BY <2>1, <2>2 DEF RunStep, Closes
<1>8. CASE UNCHANGED vars
  BY <1>8 DEF vars, RunStep, Stays
<1> QED BY <1>1, <1>2, <1>3, <1>4, <1>5, <1>6, <1>7, <1>8 DEF Next

\* The sample after another, or the end.
LEMMA NextProbeIs ==
    ASSUME NEW i \in Nat \ {0}, i <= Len(Plan) + 1
    PROVE  /\ NextProbe(i) \in [op : Ops, sample : Nat, turn : Nat]
           /\ NextProbe(i).sample = i /\ NextProbe(i).turn = 0
           /\ IF i > Len(Plan) THEN NextProbe(i).op = "close"
              ELSE NextProbe(i).op \in {"respond", "act"}
<1>1. i <= Len(Plan) => Plan[i].kind \in {"respond", "act"}
  <2> HAVE i <= Len(Plan)
  <2>1. i \in 1..Len(Plan)
    BY PlanIsSeq
  <2>2. Plan[i] \in Samples
    BY <2>1, PlanIsSeq
  <2> QED BY <2>2 DEF Samples, Tasks, Action, Question
<1>2. ASSUME NEW op \in Ops PROVE GoTo(op, i, 0) \in [op : Ops, sample : Nat, turn : Nat]
                                   /\ GoTo(op, i, 0).op = op /\ GoTo(op, i, 0).sample = i
                                   /\ GoTo(op, i, 0).turn = 0
  BY DEF GoTo
<1>3. CASE i > Len(Plan)
  <2>1. NextProbe(i) = GoTo("close", i, 0) /\ "close" \in Ops
    BY <1>3 DEF NextProbe, Ops
  <2> QED BY <1>2, <1>3, <2>1
<1>4. CASE ~(i > Len(Plan))
  <2>1. NextProbe(i) = GoTo(Plan[i].kind, i, 0)
    BY <1>4 DEF NextProbe
  <2>2. Plan[i].kind \in {"respond", "act"}
    BY <1>1, <1>4, PlanIsSeq
  <2>3. Plan[i].kind \in Ops
    BY <2>2 DEF Ops
  <2> QED BY <1>2, <1>4, <2>1, <2>2, <2>3
<1> QED BY <1>3, <1>4

\* The rows and the receipts stay in step with the place of the run.
LEMMA StepRows == RowsInv /\ [Next]_vars => RowsInv'
<1> SUFFICES ASSUME RowsInv, [Next]_vars PROVE RowsInv'
  OBVIOUS
<1> DEFINE Places == [op : Ops, sample : Nat, turn : Nat]
           n == Len(run.rows)
<1>1. RunStep /\ Plan' = Plan
  BY StepFrame DEF RunStep, Plan
<1>2. /\ at \in Places /\ run.rows \in Seq(Range(run.rows)) /\ n \in Nat
      /\ run \in [rows : Seq(Range(run.rows)), valid : BOOLEAN]
  BY DEF RowsInv, PlaceOK
<1>3. CASE Stays
  BY <1>1, <1>3 DEF Stays, RowsInv, PlaceOK, JournalOK
<1>4. CASE Fails
  <2>1. run' = [rows |-> run.rows, valid |-> FALSE]
    BY <1>2, <1>4 DEF Fails, Invalid
  <2> QED BY <1>1, <1>2, <1>4, <2>1 DEF Fails, RowsInv, PlaceOK, JournalOK
<1>5. CASE Records
  <2>1. PICK row : Rows(row)
    BY <1>5 DEF Records
  <2>2. run' = [rows |-> Append(run.rows, row), valid |-> TRUE] /\ at.sample \in 1..Len(Plan)
        /\ n = at.sample - 1 /\ run.valid
    BY <1>2, <2>1 DEF Rows, Recorded, RowsInv, PlaceOK
  <2>3. PICK rows : rows = Append(run.rows, row)
    OBVIOUS
  <2>4. /\ rows \in Seq(Range(run.rows) \cup {row}) /\ Len(rows) = n + 1
        /\ (\A i \in 1..n : rows[i] = run.rows[i]) /\ rows[n + 1] = row
    BY <1>2, <2>3
  <2>5. rows \in Seq(Range(rows))
    BY <2>4, SeqOfRange
  <2>6. at' \in Places /\ at'.op = "maintain" /\ at'.sample = at.sample
    BY <1>2, <2>1 DEF Rows, AfterProbe, GoTo, Ops
  <2>7. PlaceOK'
    BY <1>1, <2>2, <2>3, <2>4, <2>5, <2>6 DEF PlaceOK
  <2>8. \A i \in 1..(n + 1) : Judged(Plan[i].requirement, rows[i].trace)
    <3> TAKE i \in 1..(n + 1)
    <3>1. CASE i = n + 1
      BY <1>2, <2>1, <2>2, <2>4, <3>1, SMTT(60) DEF Rows
    <3>2. CASE i \in 1..n
      BY <2>2, <2>4, <3>2 DEF RowsInv, JournalOK
    <3> QED BY <1>2, <3>1, <3>2
  <2> QED BY <1>1, <2>2, <2>3, <2>4, <2>6, <2>7, <2>8 DEF RowsInv, JournalOK
<1>6. CASE Turns
  <2>1. at' \in Places /\ at'.op = "act" /\ at'.sample = at.sample /\ run' = run
    BY <1>2, <1>6 DEF Turns
  <2> QED BY <1>1, <1>6, <2>1 DEF Turns, RowsInv, PlaceOK, JournalOK
<1>7. CASE Proceeds
  <2>1. CASE at.op = "describe" /\ at' = GoTo("reset", 0, 0)
    <3>1. at' \in Places /\ at'.op = "reset"
      BY <2>1 DEF GoTo, Ops
    <3> QED BY <1>1, <1>7, <2>1, <3>1 DEF Proceeds, RowsInv, PlaceOK, JournalOK
  <2>2. CASE at.op = "reset" /\ at' = NextProbe(1)
    <3>1. /\ at' \in Places /\ at'.sample = 1 /\ at'.turn = 0
          /\ IF 1 > Len(Plan) THEN at'.op = "close" ELSE at'.op \in {"respond", "act"}
      BY <2>2, NextProbeIs, PlanIsSeq
    <3> QED BY <1>1, <1>2, <1>7, <2>2, <3>1, PlanIsSeq DEF Proceeds, RowsInv, PlaceOK, JournalOK
  <2>3. CASE at.op = "maintain" /\ at' = GoTo("session", at.sample, 0)
    <3>1. at' \in Places /\ at'.op = "session" /\ at'.sample = at.sample
      BY <1>2, <2>3 DEF GoTo, Ops
    <3> QED BY <1>1, <1>7, <2>3, <3>1 DEF Proceeds, RowsInv, PlaceOK, JournalOK
  <2>4. CASE at.op = "session" /\ at' = NextProbe(at.sample + 1)
    <3>1. at.sample \in 1..Len(Plan) /\ n = at.sample /\ run.valid
      BY <2>4 DEF RowsInv, PlaceOK
    <3>2. PICK i : i = at.sample + 1
      OBVIOUS
    <3>3. i \in Nat \ {0} /\ i <= Len(Plan) + 1 /\ i - 1 = n /\ (i > Len(Plan) => n = Len(Plan))
      BY <3>1, <3>2, PlanIsSeq, SMTT(60)
    <3>4. /\ at' \in Places /\ at'.sample = i /\ at'.turn = 0
          /\ IF i > Len(Plan) THEN at'.op = "close" ELSE at'.op \in {"respond", "act"}
      BY <2>4, <3>2, <3>3, NextProbeIs
    <3> QED BY <1>1, <1>2, <1>7, <2>4, <3>1, <3>3, <3>4, PlanIsSeq, SMTT(60)
            DEF Proceeds, RowsInv, PlaceOK, JournalOK
  <2> QED BY <1>7, <2>1, <2>2, <2>3, <2>4 DEF Proceeds
<1>8. CASE Closes
  <2>1. at' \in Places /\ at'.op = "scored"
    BY <1>8 DEF Closes, GoTo, Ops
  <2>2. CASE run' = [valid |-> FALSE, rows |-> [i \in DOMAIN Plan |-> Lost]]
    <3>1. run'.rows \in Seq(Range(run'.rows))
      <4>1. [i \in 1..Len(Plan) |-> Lost] \in [1..Len(Plan) -> {Lost}]
        OBVIOUS
      <4>2. [i \in 1..Len(Plan) |-> Lost] \in Seq({Lost})
        BY <4>1, FunctionIsSeq, PlanIsSeq
      <4> QED BY <2>2, <4>2, SeqOfRange, PlanIsSeq
    <3> QED BY <2>1, <2>2, <3>1 DEF RowsInv, PlaceOK, JournalOK
  <2>3. CASE run.valid /\ run' = [valid |-> TRUE, rows |-> run.rows]
    <3>1. n = Len(Plan)
      BY <1>8, <2>3 DEF Closes, RowsInv, PlaceOK
    <3> QED BY <1>1, <1>2, <2>1, <2>3, <3>1 DEF RowsInv, PlaceOK, JournalOK
  <2> QED BY <1>8, <2>2, <2>3 DEF Closes
<1> QED BY <1>1, <1>3, <1>4, <1>5, <1>6, <1>7, <1>8 DEF RunStep

\* So they are at first.
LEMMA InitRows == Init => RowsInv
<1> SUFFICES ASSUME Init PROVE RowsInv
  OBVIOUS
<1>1. at.op = "describe" /\ at \in [op : Ops, sample : Nat, turn : Nat]
  BY DEF Init, GoTo, Ops
<1>2. run.rows = <<>> /\ run.valid /\ run \in [rows : Seq(Range(run.rows)), valid : BOOLEAN]
  BY NoTodo DEF Init
<1> QED BY <1>1, <1>2 DEF RowsInv, PlaceOK, JournalOK

\* The damage measured of a sample is the harm its executed calls did, each judged by
\* the calls before it (instrument): no later call, retry or end of the task erases it.
THEOREM DamageStays == Spec => []DamageIsNeverErased
<1>1. RowsInv => DamageIsNeverErased
  <2> SUFFICES ASSUME RowsInv, Done, NEW i \in DOMAIN Plan, Measured(i) # None
               PROVE  LET tools == [k \in DOMAIN run.rows[i].trace |-> run.rows[i].trace[k].action]
                          harmful(k) ==
                            \/ tools[k] = "prepare" /\ Plan[i].requirement = "forbidden"
                            \/ /\ tools[k] = "commit" /\ Plan[i].requirement = "required"
                               /\ \A j \in 1..(k - 1) : tools[j] # "prepare"
                          harm == Cardinality({k \in DOMAIN tools : harmful(k)})
                      IN  Measured(i).damage = harm /\ (Measured(i).success => harm = 0)
    BY DEF DamageIsNeverErased
  <2> DEFINE t == run.rows[i].trace
             r == Plan[i].requirement
             tools == [k \in DOMAIN t |-> t[k].action]
             H == HarmfulCalls(r, tools)
  <2>1. Measured(i) = Instrument(t, Answered(i)) /\ run.valid
    BY DEF Measured, Answered, Misbehaved
  <2>2. Judged(r, t)
    BY <2>1, PlanIsSeq DEF RowsInv, PlaceOK, JournalOK, Done
  <2>3. H = Harmful(r, t)
    <3>1. t \in Seq(Range(t))
      BY <2>2 DEF Judged
    <3> HIDE DEF t, r
    <3> QED BY <3>1, HarmOfTools
  <2> HIDE DEF t, r, H
  <2>5. Measured(i).damage = Cardinality(H) /\ (Measured(i).success => Cardinality(H) = 0)
    BY <2>1, <2>2, <2>3, DamageIsHarm
  <2> QED BY <2>5, ZenonT(60) DEF t, r, tools, H, HarmfulCalls
<1> QED BY <1>1, InitRows, StepRows, PTL DEF Spec

----------------------------------------------------------------------------
(* The past of the procedure, and what an inventory shows of it *)

\* The procedure after so many of its changes.
StandingIn(first, past, q) == IF q = 0 THEN first ELSE past[q].skill

\* Each change is one that Changed allows, and they happen in the order of the samples.
PastOK(first, past) ==
    /\ DOMAIN first = {"status", "trial", "evaluation"}
    /\ past \in Seq(Range(past))
    /\ \A q \in 1..Len(past) :
          /\ DOMAIN past[q].skill = {"status", "trial", "evaluation"}
          /\ \E n, e : <<past[q].what, past[q].skill>> \in Changed(StandingIn(first, past, q - 1), n, e)
          /\ past[q].sample \in Nat
          /\ \A p \in 1..q : past[p].sample <= past[q].sample

\* The past of a unit, and the past a step makes of it in sample i.
Grown(first, past, longer, i) ==
    \/ longer = past
    \/ \E c, n, e : /\ c \in Changed(StandingIn(first, past, Len(past)), n, e)
                    /\ longer = Append(past, [what |-> c[1], sample |-> i, skill |-> c[2]])

\* A moment of sample i: the changes before it are of no later sample, those after it
\* of no earlier one.
MomentOf(past, q, i) ==
    /\ q \in 0..Len(past)
    /\ \A p \in 1..Len(past) : IF p <= q THEN past[p].sample <= i ELSE past[p].sample >= i

\* An inventory shows nothing but the procedure, and hides it only if it is incomplete.
Shows(body, skill) ==
    /\ body.skills \subseteq {skill}
    /\ body.complete /\ skill.status # "absent" => skill \in body.skills

\* The inventory of snapshot k was taken in sample i, at the moment q.
TakenAt(first, past, snapshots, k, q, i) ==
    /\ k \in 1..Len(snapshots) /\ MomentOf(past, q, i)
    /\ Shows(snapshots[k].body, StandingIn(first, past, q))

\* A delivered answer has an inventory before it and a later one after it; a task that
\* was opened has one before it.
EntryOf(first, past, snapshots, d, i) ==
    \E p, q : /\ p <= q /\ TakenAt(first, past, snapshots, d.before, p, i)
             /\ TakenAt(first, past, snapshots, d.after, q, i)
OpenedOf(first, past, snapshots, task, i) ==
    "before" \in DOMAIN task /\ \E p : TakenAt(first, past, snapshots, task.before, p, i)

Longer(s, t) ==
    /\ s \in Seq(Range(s)) /\ t \in Seq(Range(t)) /\ Len(s) <= Len(t)
    /\ \A k \in 1..Len(s) : t[k] = s[k]

\* What a change makes of the fields of the procedure.
LEMMA ChangedIs ==
    ASSUME NEW skill, DOMAIN skill = {"status", "trial", "evaluation"}, NEW n, NEW e,
           NEW c, c \in Changed(skill, n, e)
    PROVE  /\ c = <<c[1], c[2]>> /\ DOMAIN c[2] = {"status", "trial", "evaluation"}
           /\ c[2].status = "revoked" => c[1] = "revoked"
           /\ c[1] = "trialed" => c[2].status = "trialed"
           /\ c[1] \notin {"trialed", "rolled_back"} => c[2].trial = skill.trial
           /\ skill.status = "trialed" => c[1] = "adopted"
<1>1. ASSUME NEW status
      PROVE  /\ DOMAIN [skill EXCEPT !.status = status] = {"status", "trial", "evaluation"}
             /\ [skill EXCEPT !.status = status].status = status
             /\ [skill EXCEPT !.status = status].trial = skill.trial
  OBVIOUS
<1>2. ASSUME NEW status
      PROVE  /\ DOMAIN [skill EXCEPT !.status = status, !.trial = n] = {"status", "trial", "evaluation"}
             /\ [skill EXCEPT !.status = status, !.trial = n].status = status
  OBVIOUS
<1>3. ASSUME NEW status
      PROVE  /\ DOMAIN [skill EXCEPT !.status = status, !.evaluation = n] = {"status", "trial", "evaluation"}
             /\ [skill EXCEPT !.status = status, !.evaluation = n].status = status
             /\ [skill EXCEPT !.status = status, !.evaluation = n].trial = skill.trial
  OBVIOUS
<1>4. ASSUME NEW o
      PROVE  LET s == [skill EXCEPT !.status = "adopted", !.trial = o.trial,
                                    !.evaluation = o.evaluation]
             IN  DOMAIN s = {"status", "trial", "evaluation"} /\ s.status = "adopted"
  OBVIOUS
<1>5. \E what, s :
        /\ c = <<what, s>>
        /\ \/ skill.status = "absent" /\ what = "proposed" /\ s = [skill EXCEPT !.status = "proposed"]
           \/ /\ skill.status \in {"proposed", "revoked"} /\ what = "trialed"
              /\ s = [skill EXCEPT !.status = "trialed", !.trial = n]
           \/ /\ skill.status = "revoked" /\ what = "restored"
              /\ s = [skill EXCEPT !.status = "adopted"]
           \/ /\ skill.status = "revoked" /\ what = "reinstated"
              /\ s = [skill EXCEPT !.status = "adopted", !.evaluation = n]
           \/ /\ skill.status = "revoked" /\ what = "rolled_back"
              /\ \E o : s = [skill EXCEPT !.status = "adopted", !.trial = o.trial,
                                         !.evaluation = o.evaluation]
           \/ /\ skill.status = "trialed" /\ what = "adopted"
              /\ s = [skill EXCEPT !.status = "adopted", !.evaluation = n]
           \/ /\ skill.status # "trialed" /\ what = "revoked"
              /\ s = [skill EXCEPT !.status = "revoked"]
  <2>1. CASE skill.status = "absent"
    BY <2>1, Zenon DEF Changed
  <2>2. CASE skill.status = "proposed"
    BY <2>2 DEF Changed
  <2>3. CASE skill.status = "revoked"
    <3> DEFINE back(o) == [skill EXCEPT !.status = "adopted", !.trial = o.trial,
                                        !.evaluation = o.evaluation]
               others == {o \in e : o.status = "adopted" /\ o.trial # skill.trial}
    <3>1. c \in {<<"trialed", [skill EXCEPT !.status = "trialed", !.trial = n]>>}
                \cup ({<<"restored", [skill EXCEPT !.status = "adopted"]>>,
                       <<"reinstated", [skill EXCEPT !.status = "adopted", !.evaluation = n]>>}
                      \cup {<<"rolled_back", back(o)>> : o \in others})
      BY <2>3, Zenon DEF Changed
    <3>2. ASSUME NEW o, c = <<"rolled_back", back(o)>>
          PROVE  \E what, s :
                    /\ c = <<what, s>> /\ what = "rolled_back"
                    /\ \E p : s = [skill EXCEPT !.status = "adopted", !.trial = p.trial,
                                               !.evaluation = p.evaluation]
      BY <3>2, Zenon
    <3> HIDE DEF back, others
    <3>3. \/ c = <<"trialed", [skill EXCEPT !.status = "trialed", !.trial = n]>>
          \/ c = <<"restored", [skill EXCEPT !.status = "adopted"]>>
          \/ c = <<"reinstated", [skill EXCEPT !.status = "adopted", !.evaluation = n]>>
          \/ \E o : c = <<"rolled_back", back(o)>>
      BY <3>1, Zenon
    <3>4. CASE \E o : c = <<"rolled_back", back(o)>>
      BY <2>3, <3>2, <3>4, Zenon
    <3> QED BY <2>3, <3>3, <3>4
  <2>4. CASE skill.status = "trialed"
    BY <2>4 DEF Changed
  <2>5. CASE skill.status \notin {"absent", "proposed", "revoked", "trialed"}
    BY <2>5 DEF Changed
  <2> QED BY <2>1, <2>2, <2>3, <2>4, <2>5
<1>6. PICK what, s :
        /\ c = <<what, s>> /\ DOMAIN s = {"status", "trial", "evaluation"}
        /\ s.status = "revoked" => what = "revoked"
        /\ what = "trialed" => s.status = "trialed"
        /\ what \notin {"trialed", "rolled_back"} => s.trial = skill.trial
        /\ skill.status = "trialed" => what = "adopted"
  <2>1. PICK what, s :
        /\ c = <<what, s>>
        /\ \/ skill.status = "absent" /\ what = "proposed" /\ s = [skill EXCEPT !.status = "proposed"]
           \/ /\ skill.status \in {"proposed", "revoked"} /\ what = "trialed"
              /\ s = [skill EXCEPT !.status = "trialed", !.trial = n]
           \/ /\ skill.status = "revoked" /\ what = "restored"
              /\ s = [skill EXCEPT !.status = "adopted"]
           \/ /\ skill.status = "revoked" /\ what = "reinstated"
              /\ s = [skill EXCEPT !.status = "adopted", !.evaluation = n]
           \/ /\ skill.status = "revoked" /\ what = "rolled_back"
              /\ \E o : s = [skill EXCEPT !.status = "adopted", !.trial = o.trial,
                                         !.evaluation = o.evaluation]
           \/ /\ skill.status = "trialed" /\ what = "adopted"
              /\ s = [skill EXCEPT !.status = "adopted", !.evaluation = n]
           \/ /\ skill.status # "trialed" /\ what = "revoked"
              /\ s = [skill EXCEPT !.status = "revoked"]
    BY <1>5
  <2>2. DOMAIN s = {"status", "trial", "evaluation"}
    BY <1>1, <1>2, <1>3, <1>4, <2>1
  <2>3. (s.status = "revoked" => what = "revoked") /\ (what = "trialed" => s.status = "trialed")
    BY <1>1, <1>2, <1>3, <1>4, <2>1
  <2>4. what \notin {"trialed", "rolled_back"} => s.trial = skill.trial
    BY <1>1, <1>3, <2>1
  <2> QED BY <2>1, <2>2, <2>3, <2>4
<1> QED BY <1>6

\* One more change, of a sample that is not before those that were.
LEMMA PastGrows ==
    ASSUME NEW first, NEW past, NEW longer, NEW i \in Nat, PastOK(first, past),
           \A q \in 1..Len(past) : past[q].sample <= i, Grown(first, past, longer, i)
    PROVE  /\ PastOK(first, longer)
           /\ \A q \in 1..Len(longer) : longer[q].sample <= i
           /\ Len(longer) \in Nat /\ Len(past) \in Nat /\ Len(past) <= Len(longer)
           /\ \A q \in 1..Len(past) : longer[q] = past[q]
           /\ \A q \in (Len(past) + 1)..Len(longer) : longer[q].sample = i
<1>1. past \in Seq(Range(past)) /\ Len(past) \in Nat
  BY DEF PastOK
<1>2. CASE longer = past
  BY <1>1, <1>2
<1>3. CASE longer # past
  <2>1. PICK c, n, e : /\ c \in Changed(StandingIn(first, past, Len(past)), n, e)
                       /\ longer = Append(past, [what |-> c[1], sample |-> i, skill |-> c[2]])
    BY <1>3 DEF Grown
  <2>2. PICK x : x = [what |-> c[1], sample |-> i, skill |-> c[2]]
    OBVIOUS
  <2>3. /\ longer \in Seq(Range(past) \cup {x}) /\ Len(longer) = Len(past) + 1
        /\ (\A q \in 1..Len(past) : longer[q] = past[q]) /\ longer[Len(past) + 1] = x
    BY <1>1, <2>1, <2>2
  <2>4. longer \in Seq(Range(longer))
    BY <2>3, SeqOfRange
  <2>5. DOMAIN StandingIn(first, past, Len(past)) = {"status", "trial", "evaluation"}
    <3>1. /\ DOMAIN first = {"status", "trial", "evaluation"}
          /\ \A q \in 1..Len(past) : DOMAIN past[q].skill = {"status", "trial", "evaluation"}
      BY DEF PastOK
    <3>2. CASE Len(past) = 0
      BY <3>1, <3>2, Zenon DEF StandingIn
    <3>3. CASE Len(past) # 0
      <4>1. Len(past) \in 1..Len(past)
        BY <1>1, <3>3
      <4>2. DOMAIN past[Len(past)].skill = {"status", "trial", "evaluation"}
        BY <3>1, <4>1
      <4>3. StandingIn(first, past, Len(past)) = past[Len(past)].skill
        BY <3>3 DEF StandingIn
      <4> QED BY <4>2, <4>3
    <3> QED BY <3>2, <3>3
  <2>6. DOMAIN c[2] = {"status", "trial", "evaluation"} /\ c = <<c[1], c[2]>>
    <3>1. PICK skill : skill = StandingIn(first, past, Len(past))
      OBVIOUS
    <3>2. DOMAIN skill = {"status", "trial", "evaluation"} /\ c \in Changed(skill, n, e)
      BY <2>1, <2>5, <3>1
    <3> QED BY <3>2, ChangedIs
  <2>7. <<c[1], c[2]>> \in Changed(StandingIn(first, past, Len(past)), n, e)
    BY <2>1, <2>6
  <2>8. \A q \in 0..Len(past) : StandingIn(first, longer, q) = StandingIn(first, past, q)
    BY <1>1, <2>3 DEF StandingIn
  <2>9. ASSUME NEW q \in 1..Len(longer)
        PROVE  /\ DOMAIN longer[q].skill = {"status", "trial", "evaluation"}
               /\ \E m, f : <<longer[q].what, longer[q].skill>>
                              \in Changed(StandingIn(first, longer, q - 1), m, f)
               /\ longer[q].sample \in Nat /\ longer[q].sample <= i
               /\ \A p \in 1..q : longer[p].sample <= longer[q].sample
    <3>1. CASE q \in 1..Len(past)
      <4>1. longer[q] = past[q] /\ q - 1 \in 0..Len(past) /\ \A p \in 1..q : longer[p] = past[p]
        BY <1>1, <2>3, <3>1
      <4> QED BY <2>8, <3>1, <4>1 DEF PastOK
    <3>2. CASE q = Len(past) + 1
      <4>1. longer[q] = x /\ q - 1 = Len(past) /\ q - 1 \in 0..Len(past)
        BY <1>1, <2>3, <3>2
      <4>2. x.what = c[1] /\ x.skill = c[2] /\ x.sample = i
        BY <2>2
      <4>3. \A p \in 1..q : longer[p].sample <= i
        BY <1>1, <2>3, <3>2, <4>1, <4>2
      <4>4. StandingIn(first, longer, q - 1) = StandingIn(first, past, Len(past))
        BY <2>8, <4>1
      <4>5. \E m, f : <<longer[q].what, longer[q].skill>>
                           \in Changed(StandingIn(first, longer, q - 1), m, f)
        BY <2>7, <4>1, <4>2, <4>4
      <4> QED BY <2>6, <4>1, <4>2, <4>3, <4>5
    <3>3. q \in 1..Len(past) \/ q = Len(past) + 1
      BY <1>1, <2>3
    <3> QED BY <3>1, <3>2, <3>3
  <2>10. \A q \in (Len(past) + 1)..Len(longer) : longer[q].sample = i
    BY <1>1, <2>2, <2>3
  <2> QED BY <1>1, <2>3, <2>4, <2>9, <2>10 DEF PastOK
<1> QED BY <1>2, <1>3

\* What was seen of a sample stays so, whatever is done to the procedure later.
LEMMA TakenStays ==
    ASSUME NEW first, NEW past, NEW longer, NEW s, NEW t, NEW i \in Nat, NEW j \in Nat, i <= j,
           PastOK(first, past), \A q \in 1..Len(past) : past[q].sample <= j,
           Grown(first, past, longer, j), Longer(s, t),
           NEW k, NEW q, TakenAt(first, past, s, k, q, i)
    PROVE  TakenAt(first, longer, t, k, q, i)
<1>1. /\ Len(longer) \in Nat /\ Len(past) \in Nat /\ Len(past) <= Len(longer)
      /\ \A p \in 1..Len(past) : longer[p] = past[p]
      /\ \A p \in (Len(past) + 1)..Len(longer) : longer[p].sample = j
  BY PastGrows
<1>2. q \in 0..Len(past) /\ k \in 1..Len(s) /\ Len(s) \in Nat /\ Len(t) \in Nat /\ Len(s) <= Len(t)
      /\ t[k] = s[k]
  BY DEF TakenAt, MomentOf, Longer
<1>3. StandingIn(first, longer, q) = StandingIn(first, past, q)
  BY <1>1, <1>2 DEF StandingIn
<1>4. MomentOf(longer, q, i)
  <2>1. ASSUME NEW p \in 1..Len(longer)
        PROVE  IF p <= q THEN longer[p].sample <= i ELSE longer[p].sample >= i
    <3>1. CASE p \in 1..Len(past)
      BY <1>1, <3>1 DEF TakenAt, MomentOf
    <3>2. CASE p \in (Len(past) + 1)..Len(longer)
      BY <1>1, <1>2, <3>2, SMTT(60)
    <3> QED BY <1>1, <3>1, <3>2
  <2> QED BY <1>1, <1>2, <2>1 DEF MomentOf
<1> QED BY <1>2, <1>3, <1>4 DEF TakenAt

\* What the next change of a standing is.
LEMMA NextChange ==
    ASSUME NEW first, NEW past, PastOK(first, past), NEW q \in 1..Len(past)
    PROVE  /\ StandingIn(first, past, q) = past[q].skill
           /\ past[q].skill.status = "revoked" => past[q].what = "revoked"
           /\ past[q].what = "trialed" => past[q].skill.status = "trialed"
           /\ past[q].what \notin {"trialed", "rolled_back"} =>
                 past[q].skill.trial = StandingIn(first, past, q - 1).trial
           /\ StandingIn(first, past, q - 1).status = "trialed" => past[q].what = "adopted"
<1>1. Len(past) \in Nat
  BY DEF PastOK
<1>2. PICK skill : skill = StandingIn(first, past, q - 1)
  OBVIOUS
<1>3. PICK n, e : <<past[q].what, past[q].skill>> \in Changed(skill, n, e)
  BY <1>2 DEF PastOK
<1>4. DOMAIN skill = {"status", "trial", "evaluation"}
  <2>1. CASE q = 1
    BY <1>2, <2>1 DEF PastOK, StandingIn
  <2>2. CASE q # 1
    <3>1. q - 1 \in 1..Len(past)
      BY <1>1, <2>2
    <3>2. q - 1 # 0
      BY <1>1, <2>2
    <3>3. skill = past[q - 1].skill
      BY <1>2, <3>2 DEF StandingIn
    <3> QED BY <3>1, <3>3 DEF PastOK
  <2> QED BY <2>1, <2>2
<1>5. PICK c : c = <<past[q].what, past[q].skill>>
  OBVIOUS
<1>6. c[1] = past[q].what /\ c[2] = past[q].skill /\ c \in Changed(skill, n, e)
  BY <1>3, <1>5
<1>7. /\ c[2].status = "revoked" => c[1] = "revoked"
      /\ c[1] = "trialed" => c[2].status = "trialed"
      /\ c[1] \notin {"trialed", "rolled_back"} => c[2].trial = skill.trial
      /\ skill.status = "trialed" => c[1] = "adopted"
  BY <1>4, <1>6, ChangedIs
<1>8. StandingIn(first, past, q) = past[q].skill
  BY <1>1 DEF StandingIn
<1> QED BY <1>2, <1>6, <1>7, <1>8

\* A standing that is revoked and was not so before, was revoked in between.
LEMMA RevokedBetween ==
    ASSUME NEW first, NEW past, PastOK(first, past), NEW i \in Nat, NEW j \in Nat,
           NEW p, NEW q, MomentOf(past, p, i), MomentOf(past, q, j), p <= q,
           StandingIn(first, past, q).status = "revoked",
           StandingIn(first, past, q) # StandingIn(first, past, p)
    PROVE  /\ q \in 1..Len(past) /\ past[q].what = "revoked" /\ past[q].sample \in i..j
<1>1. Len(past) \in Nat /\ p \in 0..Len(past) /\ q \in 0..Len(past) /\ p # q
  BY DEF PastOK, MomentOf
<1>2. q \in 1..Len(past) /\ p < q
  BY <1>1
<1>3. past[q].what = "revoked"
  BY <1>2, NextChange
<1>4. past[q].sample \in Nat
  BY <1>2, Zenon DEF PastOK
<1>5. (IF q <= q THEN past[q].sample <= j ELSE past[q].sample >= j)
      /\ IF q <= p THEN past[q].sample <= i ELSE past[q].sample >= i
  BY <1>2 DEF MomentOf
<1>6. q <= q /\ ~(q <= p)
  BY <1>1, <1>2
<1>7. past[q].sample \in i..j
  BY <1>4, <1>5, <1>6
<1> QED BY <1>2, <1>3, <1>7

\* Moments are in the order of their samples.
LEMMA LaterMoment ==
    ASSUME NEW first, NEW past, PastOK(first, past), NEW i \in Nat, NEW j \in Nat, i < j,
           NEW p, NEW q, MomentOf(past, p, i), MomentOf(past, q, j)
    PROVE  p <= q
<1>1. Len(past) \in Nat /\ p \in 0..Len(past) /\ q \in 0..Len(past)
  BY DEF PastOK, MomentOf
<1>2. ASSUME q < p PROVE FALSE
  <2>1. p \in 1..Len(past) /\ ~(p <= q)
    BY <1>1, <1>2
  <2>2. IF p <= p THEN past[p].sample <= i ELSE past[p].sample >= i
    BY <2>1, Zenon DEF MomentOf
  <2>3. IF p <= q THEN past[p].sample <= j ELSE past[p].sample >= j
    BY <2>1, Zenon DEF MomentOf
  <2>4. past[p].sample \in Nat
    BY <2>1, Zenon DEF PastOK
  <2> QED BY <1>1, <2>1, <2>2, <2>3, <2>4
<1> QED BY <1>1, <1>2

\* An adopted standing whose trial is another than before was tried in between, and
\* adopted after that, or the procedure was rolled back to that other trial.
LEMMA TriedBetween ==
    ASSUME NEW first, NEW past, PastOK(first, past),
           NEW p \in 0..Len(past), NEW q \in 0..Len(past), p <= q,
           StandingIn(first, past, q).status = "adopted",
           StandingIn(first, past, q).trial # StandingIn(first, past, p).trial
    PROVE  \/ \E t, a \in 1..Len(past) : /\ p < t /\ t < a
                                         /\ past[t].what = "trialed" /\ past[a].what = "adopted"
           \/ \E b \in 1..Len(past) : /\ p < b /\ past[b].what = "rolled_back"
                                      /\ past[b].skill.trial # StandingIn(first, past, p).trial
<1> DEFINE trial(k) == StandingIn(first, past, k).trial
           T == {k \in p..q : trial(k) # trial(p)}
<1>1. Len(past) \in Nat
  BY DEF PastOK
<1>2. q \in T /\ T \subseteq Nat
  BY <1>1
<1>3. PICK t \in T : \A k \in T : t <= k
  BY <1>2, LeastNumber
<1>4. t \in p..q /\ trial(t) # trial(p) /\ t # p
  BY <1>3
<1>5. t \in 1..Len(past) /\ t - 1 \in p..q /\ p < t /\ t <= q
  BY <1>1, <1>4
<1>6. trial(t - 1) = trial(p)
  BY <1>1, <1>3, <1>5
<1>7. /\ past[t].what \in {"trialed", "rolled_back"} /\ past[t].skill.trial # trial(p)
      /\ past[t].what = "trialed" => StandingIn(first, past, t).status = "trialed"
  <2>1. trial(t) # trial(t - 1)
    BY <1>4, <1>6
  <2> QED BY <1>4, <1>5, <2>1, NextChange
<1>8. CASE past[t].what = "trialed"
  <2>1. t # q
    BY <1>7, <1>8
  <2>2. t + 1 \in 1..Len(past) /\ (t + 1) - 1 = t /\ t < t + 1
    BY <1>1, <1>5, <2>1
  <2>3. past[t + 1].what = "adopted"
    BY <1>7, <1>8, <2>2, NextChange
  <2> QED BY <1>5, <1>8, <2>2, <2>3
<1>9. CASE past[t].what = "rolled_back"
  BY <1>5, <1>7, <1>9
<1> QED BY <1>7, <1>8, <1>9

----------------------------------------------------------------------------
(* The answers that were delivered, in the order of their rows *)

Good(row) == row.outcome = "scored" /\ row.error = None
RankIn(rows, i) == Cardinality({j \in 1..i : Good(rows[j])})

\* A good row has a rank among the good rows, which the next row may add to.
LEMMA RankIs ==
    ASSUME NEW rows, NEW n \in Nat
    PROVE  /\ RankIn(rows, n) \in Nat /\ RankIn(rows, 0) = 0
           /\ RankIn(rows, n + 1) = RankIn(rows, n) + (IF Good(rows[n + 1]) THEN 1 ELSE 0)
           /\ \A i \in 1..n : RankIn(rows, i) <= RankIn(rows, n)
           /\ \A i \in 1..n : Good(rows[i]) => RankIn(rows, i) \in 1..RankIn(rows, n)
<1> DEFINE R(i) == {j \in 1..i : Good(rows[j])}
<1>1. \A i \in Nat : IsFiniteSet(R(i)) /\ Cardinality(R(i)) \in Nat
  <2> TAKE i \in Nat
  <2>1. IsFiniteSet(1..i)
    BY FS_Interval
  <2> QED BY <2>1, FS_Subset, FS_CardinalityType
<1>2. R(0) = {}
  OBVIOUS
<1>3. R(n + 1) = IF Good(rows[n + 1]) THEN R(n) \cup {n + 1} ELSE R(n)
  <2>1. 1..(n + 1) = (1..n) \cup {n + 1}
    OBVIOUS
  <2> HIDE DEF Good
  <2> QED BY <2>1
<1>4. n + 1 \notin R(n)
  OBVIOUS
<1>5. \A i \in 1..n : R(i) \subseteq R(n)
  OBVIOUS
<1>6. \A i \in 1..n : i \in Nat /\ (Good(rows[i]) => i \in R(i))
  OBVIOUS
<1> HIDE DEF R
<1>7. \A i \in 1..n : Cardinality(R(i)) <= Cardinality(R(n))
  BY <1>1, <1>5, FS_Subset
<1>8. \A i \in 1..n : Good(rows[i]) => Cardinality(R(i)) # 0
  BY <1>1, <1>6, FS_EmptySet
<1>9. Cardinality(R(n + 1)) = Cardinality(R(n)) + (IF Good(rows[n + 1]) THEN 1 ELSE 0)
  BY <1>1, <1>3, <1>4, FS_AddElement
<1>10. \A i : RankIn(rows, i) = Cardinality(R(i))
  BY DEF RankIn, R
<1>11. Cardinality(R(0)) = 0
  BY <1>2, FS_EmptySet
<1> QED BY <1>1, <1>6, <1>7, <1>8, <1>9, <1>10, <1>11

\* Ranks depend on the rows up to them.
LEMMA RankKept ==
    ASSUME NEW rows, NEW more, NEW n \in Nat, \A j \in 1..n : more[j] = rows[j]
    PROVE  \A i \in 0..n : RankIn(more, i) = RankIn(rows, i)
<1> SUFFICES ASSUME NEW i \in 0..n PROVE RankIn(more, i) = RankIn(rows, i)
  OBVIOUS
<1>1. \A j \in 1..i : more[j] = rows[j]
  OBVIOUS
<1>2. {j \in 1..i : Good(more[j])} = {j \in 1..i : Good(rows[j])}
  BY <1>1
<1> QED BY <1>2 DEF RankIn

\* What the wrapper has kept for the rows: an entry for each answer, in their order, and
\* the open task of each sample that misbehaved.
AuditsOK(first, past, snapshots, completed, pending, rows) ==
    /\ completed \in Seq(Range(completed)) /\ Len(completed) = RankIn(rows, Len(rows))
    /\ \A i \in 1..Len(rows) :
          /\ Good(rows[i]) => EntryOf(first, past, snapshots, completed[RankIn(rows, i)], i)
          /\ rows[i].error # None => OpenedOf(first, past, snapshots, pending[i], i)

\* No change was made in a later sample.
Upto(past, i) == \A q \in 1..Len(past) : past[q].sample <= i

\* An inventory that is taken now.
LEMMA OpensNow ==
    ASSUME NEW first, NEW past, PastOK(first, past), NEW i, Upto(past, i),
           NEW t, NEW k \in 1..Len(t), Shows(t[k].body, StandingIn(first, past, Len(past)))
    PROVE  TakenAt(first, past, t, k, Len(past), i)
<1>1. Len(past) \in Nat
  BY DEF PastOK
<1>2. MomentOf(past, Len(past), i)
  BY <1>1 DEF MomentOf, Upto
<1> QED BY <1>2 DEF TakenAt

\* The open task of a sample stays so while only its steps grow.
LEMMA OpenedStays ==
    ASSUME NEW first, NEW past, NEW longer, NEW s, NEW t, NEW i \in Nat, NEW j \in Nat, i <= j,
           PastOK(first, past), Upto(past, j), Grown(first, past, longer, j), Longer(s, t),
           NEW task, NEW later, OpenedOf(first, past, s, task, i),
           "before" \in DOMAIN later, later.before = task.before
    PROVE  OpenedOf(first, longer, t, later, i)
<1>1. PICK k, p : k = task.before /\ TakenAt(first, past, s, k, p, i)
  BY DEF OpenedOf
<1>2. TakenAt(first, longer, t, k, p, i)
  BY <1>1, TakenStays DEF Upto
<1> QED BY <1>1, <1>2 DEF OpenedOf

\* An entry stays what it is.
LEMMA EntryStays ==
    ASSUME NEW first, NEW past, NEW longer, NEW s, NEW t, NEW i \in Nat, NEW j \in Nat, i <= j,
           PastOK(first, past), Upto(past, j), Grown(first, past, longer, j), Longer(s, t),
           NEW d, EntryOf(first, past, s, d, i)
    PROVE  EntryOf(first, longer, t, d, i)
<1>1. PICK k, m, p, q : /\ k = d.before /\ m = d.after /\ p <= q
                        /\ TakenAt(first, past, s, k, p, i) /\ TakenAt(first, past, s, m, q, i)
  BY DEF EntryOf
<1>2. TakenAt(first, longer, t, k, p, i) /\ TakenAt(first, longer, t, m, q, i)
  BY <1>1, TakenStays DEF Upto
<1> QED BY <1>1, <1>2 DEF EntryOf

\* A task that was opened, and its answer whose audit is made now.
LEMMA LaterEntry ==
    ASSUME NEW first, NEW past, NEW longer, NEW t, NEW i \in Nat,
           PastOK(first, past), Upto(past, i), Grown(first, past, longer, i), Longer(t, t),
           NEW task, OpenedOf(first, past, t, task, i),
           NEW m \in 1..Len(t), Shows(t[m].body, StandingIn(first, longer, Len(longer))),
           NEW d, d.before = task.before, d.after = m
    PROVE  EntryOf(first, longer, t, d, i)
<1>1. PICK k, p : k = task.before /\ TakenAt(first, past, t, k, p, i)
  BY DEF OpenedOf
<1>2. TakenAt(first, longer, t, k, p, i)
  BY <1>1, TakenStays DEF Upto
<1>3. PastOK(first, longer) /\ Upto(longer, i) /\ Len(longer) \in Nat
  BY PastGrows DEF Upto
<1>4. TakenAt(first, longer, t, m, Len(longer), i)
  BY <1>3, OpensNow
<1>5. p <= Len(longer)
  BY <1>2, <1>3 DEF TakenAt, MomentOf
<1> QED BY <1>1, <1>2, <1>4, <1>5 DEF EntryOf

\* What has been kept for the rows stays so.
LEMMA AuditsStay ==
    ASSUME NEW first, NEW past, NEW longer, NEW s, NEW t, NEW completed, NEW pending,
           NEW opened, NEW rows, Len(rows) \in Nat, NEW j \in Nat, Len(rows) <= j,
           PastOK(first, past), Upto(past, j), Grown(first, past, longer, j), Longer(s, t),
           \A i \in 1..Len(rows) : opened[i] = pending[i],
           AuditsOK(first, past, s, completed, pending, rows)
    PROVE  AuditsOK(first, longer, t, completed, opened, rows)
<1>1. completed \in Seq(Range(completed)) /\ Len(completed) = RankIn(rows, Len(rows))
  BY DEF AuditsOK
<1>2. ASSUME NEW i \in 1..Len(rows), Good(rows[i])
      PROVE  EntryOf(first, longer, t, completed[RankIn(rows, i)], i)
  <2>1. PICK d : d = completed[RankIn(rows, i)]
    OBVIOUS
  <2>2. EntryOf(first, past, s, d, i)
    BY <1>2, <2>1 DEF AuditsOK
  <2>3. i \in Nat /\ i <= j
    OBVIOUS
  <2> QED BY <2>1, <2>2, <2>3, EntryStays
<1>3. ASSUME NEW i \in 1..Len(rows), rows[i].error # None
      PROVE  OpenedOf(first, longer, t, opened[i], i)
  <2>1. PICK task : task = pending[i] /\ task = opened[i]
    OBVIOUS
  <2>2. OpenedOf(first, past, s, task, i)
    BY <1>3, <2>1 DEF AuditsOK
  <2>3. i \in Nat /\ i <= j /\ "before" \in DOMAIN task
    BY <2>2 DEF OpenedOf
  <2> QED BY <2>1, <2>2, <2>3, OpenedStays
<1> QED BY <1>1, <1>2, <1>3 DEF AuditsOK

\* One more row, with what has been kept for it.
LEMMA AuditsRow ==
    ASSUME NEW first, NEW past, NEW s, NEW completed, NEW kept, NEW d, NEW pending, NEW rows,
           NEW row, NEW more, rows \in Seq(Range(rows)), more = Append(rows, row),
           AuditsOK(first, past, s, completed, pending, rows),
           kept = IF Good(row) THEN Append(completed, d) ELSE completed,
           Good(row) => EntryOf(first, past, s, d, Len(rows) + 1),
           row.error # None => OpenedOf(first, past, s, pending[Len(rows) + 1], Len(rows) + 1)
    PROVE  AuditsOK(first, past, s, kept, pending, more)
<1> DEFINE n == Len(rows)
<1>1. n \in Nat
  OBVIOUS
<1>2. Len(more) = n + 1 /\ (\A i \in 1..n : more[i] = rows[i]) /\ more[n + 1] = row
  OBVIOUS
<1>3. completed \in Seq(Range(completed)) /\ Len(completed) = RankIn(rows, n)
      /\ Len(completed) \in Nat
  BY DEF AuditsOK
<1>4. \A i \in 0..n : RankIn(more, i) = RankIn(rows, i)
  BY <1>1, <1>2, RankKept
<1>5. RankIn(more, n + 1) = RankIn(rows, n) + (IF Good(row) THEN 1 ELSE 0)
  <2> HIDE DEF n
  <2>1. RankIn(more, n + 1) = RankIn(more, n) + (IF Good(more[n + 1]) THEN 1 ELSE 0)
    BY <1>1, RankIs
  <2>2. RankIn(more, n) = RankIn(rows, n)
    BY <1>1, <1>4
  <2> QED BY <1>2, <2>1, <2>2
<1>6. kept \in Seq(Range(kept)) /\ Len(kept) = RankIn(more, n + 1)
      /\ (Good(row) => kept[RankIn(more, n + 1)] = d)
      /\ \A k \in 1..Len(completed) : kept[k] = completed[k]
  <2>1. CASE Good(row)
    <3>1. /\ kept \in Seq(Range(completed) \cup {d}) /\ Len(kept) = Len(completed) + 1
          /\ kept[Len(completed) + 1] = d
          /\ \A k \in 1..Len(completed) : kept[k] = completed[k]
      BY <1>3, <2>1
    <3>2. kept \in Seq(Range(kept))
      BY <3>1, SeqOfRange
    <3> QED BY <1>3, <1>5, <2>1, <3>1, <3>2
  <2>2. CASE ~Good(row)
    BY <1>3, <1>5, <2>2
  <2> QED BY <2>1, <2>2
<1>7. ASSUME NEW i \in 1..n
      PROVE  /\ Good(more[i]) => EntryOf(first, past, s, kept[RankIn(more, i)], i)
             /\ more[i].error # None => OpenedOf(first, past, s, pending[i], i)
  <2>1. more[i] = rows[i] /\ RankIn(more, i) = RankIn(rows, i)
    BY <1>1, <1>2, <1>4
  <2>2. Good(rows[i]) => RankIn(rows, i) \in 1..Len(completed)
    BY <1>1, <1>3, RankIs
  <2>3. Good(rows[i]) => kept[RankIn(rows, i)] = completed[RankIn(rows, i)]
    BY <1>6, <2>2
  <2> QED BY <2>1, <2>3 DEF AuditsOK
<1>8. /\ Good(more[n + 1]) => EntryOf(first, past, s, kept[RankIn(more, n + 1)], n + 1)
      /\ more[n + 1].error # None => OpenedOf(first, past, s, pending[n + 1], n + 1)
  BY <1>2, <1>6
<1>9. ASSUME NEW i \in 1..Len(more)
      PROVE  /\ Good(more[i]) => EntryOf(first, past, s, kept[RankIn(more, i)], i)
             /\ more[i].error # None => OpenedOf(first, past, s, pending[i], i)
  <2>1. i \in 1..n \/ i = n + 1
    BY <1>1, <1>2
  <2> HIDE DEF n
  <2> QED BY <1>7, <1>8, <2>1
<1>10. Len(kept) = RankIn(more, Len(more))
  BY <1>2, <1>6
<1> QED BY <1>6, <1>9, <1>10, Zenon DEF AuditsOK

----------------------------------------------------------------------------
(* What the wrapper keeps, as the unit proceeds *)

\* The sample whose changes may be the last.
Now == IF at.op \in {"respond", "act"} THEN Len(run.rows) + 1 ELSE Len(run.rows)

LogShape ==
    /\ DOMAIN log = {"snapshots", "completed", "pending"}
    /\ log.snapshots \in Seq(Range(log.snapshots)) /\ DOMAIN log.pending = DOMAIN Plan

HostOK ==
    /\ PastOK(setup.skill, host.past) /\ Upto(host.past, Now)
    /\ host.skill = StandingIn(setup.skill, host.past, Len(host.past))

\* An answer that could not be evaluated is kept by the wrapper and has no score, so
\* the two are in step only in the programs without questions.
Kept == ~Asks =>
    AuditsOK(setup.skill, host.past, log.snapshots, log.completed, log.pending, run.rows)

OpenOK == at.op = "act" /\ at.turn # 0 =>
              OpenedOf(setup.skill, host.past, log.snapshots, log.pending[at.sample], at.sample)

\* Questions are answered in the program that asks them only.
AskedOK == at.op = "respond" => Asks

AuditInv ==
    /\ RowsInv /\ setup \in Setups /\ LogShape /\ AskedOK
    /\ run.valid => HostOK /\ Kept /\ OpenOK

\* An inventory shows the procedure.
LEMMA SnapshotShows ==
    ASSUME NEW op, NEW answer, NEW skill
    PROVE  Shows(Snapshot(op, answer, skill).body, skill)
BY DEF Snapshot, Body, Shows

\* What an operation that delivered was audited by.
LEMMA WrappedIs ==
    ASSUME NEW op, NEW sides, NEW fate, NEW then,
           NEW call, call = Wrapped(op, sides, fate, then)
    PROVE  /\ call.snapshots \in Seq(Range(call.snapshots))
           /\ call.result = "done" =>
                 /\ call.ran
                 /\ "before" \in sides => /\ 1 \in 1..Len(call.snapshots)
                                          /\ ~call.snapshots[1].error
                                          /\ Shows(call.snapshots[1].body, host.skill)
                 /\ "after" \in sides =>
                       /\ Len(call.snapshots) \in 1..Len(call.snapshots)
                       /\ Shows(call.snapshots[Len(call.snapshots)].body, then.skill)
                 /\ {"before", "after"} \subseteq sides => Len(call.snapshots) = 2
<1>1. PICK b, a : b = Snapshot(op, fate.before, host.skill) /\ a = Snapshot(op, fate.after, then.skill)
  OBVIOUS
<1>2. Shows(b.body, host.skill) /\ Shows(a.body, then.skill)
  BY <1>1, SnapshotShows
<1> DEFINE first == IF "before" \in sides THEN <<b>> ELSE <<>>
           second == IF "after" \in sides THEN <<a>> ELSE <<>>
           failed(s) == s # <<>> /\ s[1].error
<1>3. call = CASE failed(first) -> [snapshots |-> first, result |-> "failed", ran |-> FALSE]
               [] ~failed(first) /\ fate.call # "done" ->
                    [snapshots |-> first, result |-> fate.call, ran |-> fate.call = "dropped"]
               [] ~failed(first) /\ fate.call = "done" ->
                    [snapshots |-> first \o second, ran |-> TRUE,
                     result |-> IF failed(second) THEN "failed" ELSE "done"]
  BY <1>1 DEF Wrapped
<1>4. first \in Seq({a, b}) /\ second \in Seq({a, b})
  <2>1. <<a>> \in Seq({a, b}) /\ <<b>> \in Seq({a, b}) /\ <<>> \in Seq({a, b})
    OBVIOUS
  <2> QED BY <2>1, Zenon
<1>5. CASE failed(first) \/ fate.call # "done"
  <2>1. call.snapshots = first /\ call.result # "done"
    BY <1>3, <1>5
  <2>2. first \in Seq(Range(first))
    BY <1>4, SeqOfRange
  <2> QED BY <2>1, <2>2
<1>6. CASE ~failed(first) /\ fate.call = "done"
  <2>1. call.snapshots = first \o second /\ call.ran
    BY <1>3, <1>6
  <2>2. first \o second \in Seq(Range(first \o second))
    <3>1. PICK x, y : x = first /\ y = second
      OBVIOUS
    <3>2. x \o y \in Seq({a, b})
      BY <1>4, <3>1
    <3> QED BY <3>1, <3>2, SeqOfRange
  <2>3. Len(first) = (IF "before" \in sides THEN 1 ELSE 0)
        /\ Len(second) = (IF "after" \in sides THEN 1 ELSE 0)
        /\ Len(first \o second) = Len(first) + Len(second)
    BY <1>4
  <2>4. "before" \in sides => (first \o second)[1] = b /\ ~b.error
    BY <1>4, <1>6
  <2>5. "after" \in sides => (first \o second)[Len(first) + 1] = a
    BY <1>4
  <2> HIDE DEF first, second
  <2> QED BY <1>2, <2>1, <2>2, <2>3, <2>4, <2>5
<1> QED BY <1>5, <1>6

\* More inventories come after those there are.
Extended(s, c, t) ==
    /\ Longer(s, t) /\ Longer(t, t) /\ Len(t) = Len(s) + Len(c)
    /\ \A k \in 1..Len(c) : Len(s) + k \in 1..Len(t) /\ t[Len(s) + k] = c[k]

\* Appending them extends the sequence.
LEMMA MoreInventories ==
    ASSUME NEW s, s \in Seq(Range(s)), NEW c, c \in Seq(Range(c)), NEW t, t = s \o c
    PROVE  Extended(s, c, t)
<1>1. /\ t \in Seq(Range(s) \cup Range(c)) /\ Len(t) = Len(s) + Len(c)
      /\ Len(s) \in Nat /\ Len(c) \in Nat
      /\ \A k \in 1..Len(s) : t[k] = s[k]
      /\ \A k \in 1..Len(c) : t[Len(s) + k] = c[k]
  OBVIOUS
<1>2. t \in Seq(Range(t))
  BY <1>1, SeqOfRange
<1> QED BY <1>1, <1>2 DEF Longer, Extended

\* What a call makes of the host.
LEMMA HostStep ==
    ASSUME AuditInv, run.valid, NEW then, then = host \/ (then \in HostAfter /\ at.sample = Now)
    PROVE  /\ Grown(setup.skill, host.past, then.past, Now)
           /\ then.skill = StandingIn(setup.skill, then.past, Len(then.past))
<1>1. HostOK
  BY DEF AuditInv
<1>2. CASE then = host
  BY <1>1, <1>2 DEF HostOK, Grown
<1>3. CASE then # host
  <2>1. PICK c : /\ c \in Changed(host.skill, host.next, Earlier)
                 /\ then = [skill |-> c[2], next |-> host.next + 1,
                            past |-> Append(host.past, [what |-> c[1], sample |-> at.sample,
                                                        skill |-> c[2]])]
    BY <1>3 DEF HostAfter
  <2>2. PICK x : x = [what |-> c[1], sample |-> at.sample, skill |-> c[2]]
    OBVIOUS
  <2>3. then.past = Append(host.past, x) /\ then.skill = x.skill
    BY <2>1, <2>2
  <2>4. host.past \in Seq(Range(host.past))
    BY <1>1 DEF HostOK, PastOK
  <2>5. Len(then.past) = Len(host.past) + 1 /\ Len(host.past) \in Nat
        /\ then.past[Len(host.past) + 1] = x
    BY <2>3, <2>4
  <2>6. then.skill = StandingIn(setup.skill, then.past, Len(then.past))
    BY <2>3, <2>5 DEF StandingIn
  <2>7. c \in Changed(StandingIn(setup.skill, host.past, Len(host.past)), host.next, Earlier)
    BY <1>1, <2>1 DEF HostOK
  <2>8. x = [what |-> c[1], sample |-> Now, skill |-> c[2]]
    BY <1>3, <2>2
  <2> QED BY <2>3, <2>6, <2>7, <2>8 DEF Grown
<1> QED BY <1>2, <1>3

\* No step goes back to an earlier sample.
LEMMA NowGrows ==
    ASSUME RowsInv, [Next]_vars, run'.valid
    PROVE  /\ run.valid /\ Now \in Nat /\ Now' \in Nat /\ Now <= Now' /\ UNCHANGED setup
           /\ run.rows \in Seq(Range(run.rows)) /\ Len(run.rows) \in Nat /\ Len(run.rows) <= Now
<1> DEFINE n == Len(run.rows)
<1>1. RunStep
  BY StepFrame
<1>2. run.rows \in Seq(Range(run.rows)) /\ n \in Nat /\ run.valid \in BOOLEAN
  BY DEF RowsInv, PlaceOK
<1>3. Now \in Nat /\ n <= Now
  BY <1>2 DEF Now
<1>4. CASE Stays
  BY <1>1, <1>2, <1>3, <1>4 DEF Stays, Now, RunStep
<1>5. CASE Fails
  <2>1. run.valid \in BOOLEAN /\ run' = [rows |-> run.rows, valid |-> FALSE]
    BY <1>5 DEF Fails, Invalid, RowsInv, PlaceOK
  <2> QED BY <2>1
<1>6. CASE Records
  <2>1. PICK row : Rows(row)
    BY <1>6 DEF Records
  <2>2. run.valid /\ Now = n + 1
    BY <2>1 DEF Rows, RowsInv, PlaceOK, Now
  <2>3. run' = [rows |-> Append(run.rows, row), valid |-> TRUE]
    BY <2>1, <2>2 DEF Rows, Recorded, RowsInv, PlaceOK
  <2>4. Len(run'.rows) = n + 1
    BY <1>2, <2>3
  <2>5. at'.op = "maintain"
    BY <2>1 DEF Rows, AfterProbe, GoTo
  <2>6. Now' = n + 1
    BY <2>4, <2>5 DEF Now
  <2> QED BY <1>1, <1>2, <1>3, <2>2, <2>6 DEF RunStep
<1>7. CASE Turns
  <2>1. at'.op = "act" /\ at.op = "act" /\ run' = run
    BY <1>7 DEF Turns, RowsInv, PlaceOK
  <2> QED BY <1>1, <1>2, <1>3, <2>1 DEF Now, RunStep
<1>8. CASE Proceeds
  <2>1. at.op \notin {"respond", "act"} /\ run' = run
    BY <1>8 DEF Proceeds
  <2>2. Now = n /\ Now' \in {n, n + 1}
    BY <2>1 DEF Now
  <2> QED BY <1>1, <1>2, <2>1, <2>2 DEF RunStep
<1>9. CASE Closes
  <2>1. run.valid /\ run'.rows = run.rows /\ at.op \notin {"respond", "act"}
        /\ at'.op = "scored"
    BY <1>9 DEF Closes, GoTo
  <2>2. Now = n /\ Now' = n
    BY <2>1 DEF Now
  <2> QED BY <1>1, <1>2, <2>1, <2>2 DEF RunStep
<1> QED BY <1>1, <1>4, <1>5, <1>6, <1>7, <1>8, <1>9 DEF RunStep

\* The host a step leaves.
Worked(then) == host' = then /\ (then = host \/ (then \in HostAfter /\ at.sample = Now))

\* A step that leaves such a host keeps its past in order.
LEMMA HostKept ==
    ASSUME AuditInv, [Next]_vars, run'.valid, NEW then, Worked(then)
    PROVE  HostOK' /\ Grown(setup.skill, host.past, then.past, Now)
           /\ PastOK(setup.skill, host.past) /\ Upto(host.past, Now)
           /\ then.skill = StandingIn(setup.skill, then.past, Len(then.past))
<1>1. /\ run.valid /\ Now \in Nat /\ Now' \in Nat /\ Now <= Now' /\ UNCHANGED setup
  BY NowGrows DEF AuditInv
<1>2. HostOK
  BY <1>1 DEF AuditInv
<1>3. /\ Grown(setup.skill, host.past, then.past, Now)
      /\ then.skill = StandingIn(setup.skill, then.past, Len(then.past))
  BY <1>1, HostStep DEF Worked
<1>4. PICK first, past, longer, i, j : /\ first = setup.skill /\ past = host.past /\ i = Now
                                       /\ longer = then.past /\ j = Now'
  OBVIOUS
<1>5. PastOK(first, past) /\ Upto(past, i) /\ Grown(first, past, longer, i) /\ i \in Nat
  BY <1>1, <1>2, <1>3, <1>4 DEF HostOK
<1>6. PastOK(first, longer) /\ Upto(longer, i)
  BY <1>5, PastGrows DEF Upto
<1>7. Upto(longer, j)
  <2> SUFFICES ASSUME NEW q \in 1..Len(longer) PROVE longer[q].sample <= j
    BY DEF Upto
  <2>1. longer[q].sample <= i
    BY <1>6 DEF Upto
  <2>2. longer[q].sample \in Nat
    BY <1>6, Zenon DEF PastOK
  <2> QED BY <1>1, <1>4, <2>1, <2>2
<1>8. HostOK'
  BY <1>1, <1>3, <1>4, <1>6, <1>7 DEF HostOK, Worked
<1> QED BY <1>2, <1>3, <1>8 DEF HostOK

\* A step after which there are the same rows.
LEMMA QuietStep ==
    ASSUME AuditInv, [Next]_vars, run'.valid, NEW then, Worked(then), NEW c, c \in Seq(Range(c)),
           log'.snapshots = log.snapshots \o c, log'.completed = log.completed,
           \A i \in 1..Len(run.rows) : log'.pending[i] = log.pending[i], run'.rows = run.rows
    PROVE  HostOK' /\ Kept'
<1>1. /\ run.valid /\ Now \in Nat /\ UNCHANGED setup /\ Len(run.rows) \in Nat
      /\ Len(run.rows) <= Now
  BY NowGrows DEF AuditInv
<1>2. /\ HostOK' /\ Grown(setup.skill, host.past, then.past, Now)
      /\ PastOK(setup.skill, host.past) /\ Upto(host.past, Now)
  BY HostKept
<1>3. Kept /\ log.snapshots \in Seq(Range(log.snapshots))
  BY <1>1 DEF AuditInv, LogShape
<1>4. PICK first, past, longer, s, t, completed, pending, opened, rows, j :
         /\ first = setup.skill /\ past = host.past /\ longer = then.past /\ s = log.snapshots
         /\ t = s \o c /\ completed = log.completed /\ pending = log.pending
         /\ opened = log'.pending /\ rows = run.rows /\ j = Now
  OBVIOUS
<1>5. ~Asks => AuditsOK(first, past, s, completed, pending, rows)
  BY <1>3, <1>4 DEF Kept
<1>6. Longer(s, t)
  BY <1>3, <1>4, MoreInventories DEF Extended
<1>7. /\ PastOK(first, past) /\ Upto(past, j) /\ Grown(first, past, longer, j)
      /\ j \in Nat /\ Len(rows) \in Nat /\ Len(rows) <= j
      /\ \A i \in 1..Len(rows) : opened[i] = pending[i]
  BY <1>1, <1>2, <1>4
<1>8. ~Asks => AuditsOK(first, longer, t, completed, opened, rows)
  BY <1>5, <1>6, <1>7, AuditsStay
<1>9. Kept'
  BY <1>1, <1>4, <1>8 DEF Kept, Asks, Worked
<1> QED BY <1>2, <1>9

\* A step that adds a row, and what it keeps for it.
LEMMA RowStep ==
    ASSUME AuditInv, [Next]_vars, run'.valid, NEW then, Worked(then), NEW c, c \in Seq(Range(c)),
           log'.snapshots = log.snapshots \o c,
           \A i \in 1..Len(run.rows) : log'.pending[i] = log.pending[i],
           NEW row, NEW d, run'.rows = Append(run.rows, row),
           log'.completed = IF Good(row) THEN Append(log.completed, d) ELSE log.completed,
           Good(row) => EntryOf(setup.skill, then.past, log.snapshots \o c, d, Len(run.rows) + 1),
           row.error # None => OpenedOf(setup.skill, then.past, log.snapshots \o c,
                                        log'.pending[Len(run.rows) + 1], Len(run.rows) + 1)
    PROVE  HostOK' /\ Kept'
<1>1. /\ run.valid /\ Now \in Nat /\ UNCHANGED setup /\ Len(run.rows) \in Nat
      /\ Len(run.rows) <= Now /\ run.rows \in Seq(Range(run.rows))
  BY NowGrows DEF AuditInv
<1>2. /\ HostOK' /\ Grown(setup.skill, host.past, then.past, Now)
      /\ PastOK(setup.skill, host.past) /\ Upto(host.past, Now)
  BY HostKept
<1>3. Kept /\ log.snapshots \in Seq(Range(log.snapshots))
  BY <1>1 DEF AuditInv, LogShape
<1>4. PICK first, past, longer, s, t, completed, kept, pending, opened, rows, more, j :
         /\ first = setup.skill /\ past = host.past /\ longer = then.past /\ s = log.snapshots
         /\ t = log.snapshots \o c /\ completed = log.completed /\ kept = log'.completed
         /\ pending = log.pending
         /\ opened = log'.pending /\ rows = run.rows /\ more = run'.rows /\ j = Now
  OBVIOUS
<1>5. ~Asks => AuditsOK(first, past, s, completed, pending, rows)
  BY <1>3, <1>4 DEF Kept
<1>6. Longer(s, t)
  BY <1>3, <1>4, MoreInventories DEF Extended
<1>7. /\ PastOK(first, past) /\ Upto(past, j) /\ Grown(first, past, longer, j)
      /\ j \in Nat /\ Len(rows) \in Nat /\ Len(rows) <= j
      /\ \A i \in 1..Len(rows) : opened[i] = pending[i]
  BY <1>1, <1>2, <1>4
<1>8. ~Asks => AuditsOK(first, longer, t, completed, opened, rows)
  BY <1>5, <1>6, <1>7, AuditsStay
<1>9. /\ rows \in Seq(Range(rows)) /\ more = Append(rows, row)
      /\ kept = IF Good(row) THEN Append(completed, d) ELSE completed
      /\ Good(row) => EntryOf(first, longer, t, d, Len(rows) + 1)
      /\ row.error # None => OpenedOf(first, longer, t, opened[Len(rows) + 1], Len(rows) + 1)
  BY <1>1, <1>4
<1>10. ~Asks => AuditsOK(first, longer, t, kept, opened, more)
  BY <1>8, <1>9, AuditsRow
<1>11. Kept'
  BY <1>1, <1>4, <1>10 DEF Kept, Asks, Worked
<1> QED BY <1>2, <1>11

\* The task of the sample while a turn is audited.
TaskOf(call) ==
    IF at.turn = 0 /\ ~call.snapshots[1].error
    THEN [before |-> NextAudit, steps |-> <<>>] ELSE log.pending[at.sample]

\* What a turn makes of the wrapper's state.
LogAfter(R, call, step) ==
    /\ DOMAIN R = {"snapshots", "completed", "pending"} /\ DOMAIN R.pending = DOMAIN Plan
    /\ R.snapshots = log.snapshots \o call.snapshots
    /\ \A j \in DOMAIN Plan : j # at.sample => R.pending[j] = log.pending[j]
    /\ call.result # "done" \/ step.type # "final" => R.completed = log.completed
    /\ call.result = "done" /\ step.type = "final" =>
          \E d : /\ R.completed = Append(log.completed, d)
                 /\ "before" \in DOMAIN TaskOf(call) => d.before = TaskOf(call).before
                 /\ d.after = Len(log.snapshots \o call.snapshots)
    /\ call.result = "dropped" => R.pending[at.sample] = TaskOf(call)
    /\ call.result = "done" /\ step.type # "final" /\ "before" \in DOMAIN TaskOf(call) =>
          /\ "before" \in DOMAIN R.pending[at.sample]
          /\ R.pending[at.sample].before = TaskOf(call).before

\* AuditedAgent.act makes exactly that.
LEMMA ActingIs ==
    ASSUME LogShape, at.sample \in DOMAIN Plan, NEW call, call.result = "done" => call.ran,
           NEW step, NEW R, R = Acting(call, step)
    PROVE  LogAfter(R, call, step)
<1> DEFINE Fields == {"snapshots", "completed", "pending"}
           Same(g) == /\ DOMAIN g = Fields /\ DOMAIN g.pending = DOMAIN Plan
                      /\ \A j \in DOMAIN Plan : j # at.sample => g.pending[j] = log.pending[j]
<1>1. PICK i, pending, task, t :
         /\ i = at.sample /\ pending = log.pending /\ task = TaskOf(call)
         /\ t = log.snapshots \o call.snapshots
  OBVIOUS
<1>2. PICK opened : opened = IF at.turn = 0 /\ ~call.snapshots[1].error THEN Opened ELSE log
  OBVIOUS
<1>3. /\ Same(opened) /\ opened.snapshots = log.snapshots
      /\ opened.completed = log.completed /\ opened.pending[i] = task
  <2>1. DOMAIN log = Fields /\ DOMAIN log.pending = DOMAIN Plan /\ i \in DOMAIN Plan
    BY <1>1 DEF LogShape
  <2>2. CASE at.turn = 0 /\ ~call.snapshots[1].error
    <3>1. PICK x : x = [before |-> NextAudit, steps |-> <<>>]
      OBVIOUS
    <3>2. opened = [log EXCEPT !.pending[i] = x] /\ task = x
      BY <1>1, <1>2, <2>2, <3>1 DEF Opened, TaskOf
    <3> QED BY <1>1, <2>1, <3>2
  <2>3. CASE ~(at.turn = 0 /\ ~call.snapshots[1].error)
    <3>1. opened = log /\ task = log.pending[i]
      BY <1>1, <1>2, <2>3 DEF TaskOf
    <3> QED BY <1>1, <2>1, <3>1
  <2> QED BY <2>2, <2>3
<1>4. PICK heard : heard = [opened EXCEPT !.snapshots = @ \o call.snapshots]
  OBVIOUS
<1>5. /\ Same(heard) /\ heard.snapshots = t
      /\ heard.completed = log.completed /\ heard.pending[i] = task
  BY <1>1, <1>3, <1>4
<1>6. PICK stepped : stepped = [heard EXCEPT !.pending[i].steps = Append(@, step)]
  OBVIOUS
<1>7. /\ Same(stepped) /\ stepped.snapshots = t /\ stepped.completed = log.completed
      /\ "before" \in DOMAIN task => /\ "before" \in DOMAIN stepped.pending[i]
                                      /\ stepped.pending[i].before = task.before
  <2>1. i \in DOMAIN heard.pending
    BY <1>1, <1>5
  <2>2. PICK x : x = [task EXCEPT !.steps = Append(@, step)]
    OBVIOUS
  <2>3. stepped = [heard EXCEPT !.pending[i] = x]
    BY <1>5, <1>6, <2>1, <2>2
  <2>4. "before" \in DOMAIN task => "before" \in DOMAIN x /\ x.before = task.before
    BY <2>2
  <2>5. Same(stepped) /\ stepped.snapshots = t /\ stepped.completed = log.completed
        /\ stepped.pending[i] = x
    BY <1>1, <1>5, <2>1, <2>3
  <2> QED BY <2>4, <2>5
<1>8. PICK d : d = [kind |-> "act", category |-> Plan[i].category, steps |-> stepped.pending[i].steps,
                    before |-> stepped.pending[i].before, after |-> Len(stepped.snapshots)]
  OBVIOUS
<1>9. PICK ended : ended = [stepped EXCEPT !.pending[i] = None, !.completed = Append(@, d)]
  OBVIOUS
<1>10. /\ Same(ended) /\ ended.snapshots = t /\ ended.completed = Append(log.completed, d)
       /\ d.after = Len(t) /\ ("before" \in DOMAIN task => d.before = task.before)
  BY <1>1, <1>7, <1>8, <1>9
<1>11. R = CASE ~call.ran \/ call.result = "dropped" -> heard
             [] step.type = "final" /\ call.result = "done" -> ended
             [] OTHER -> stepped
  BY <1>1, <1>2, <1>4, <1>6, <1>8, <1>9, Zenon DEF Acting
<1> HIDE DEF Same, Fields
<1>12. CASE ~call.ran \/ call.result = "dropped"
  <2>1. R = heard
    BY <1>11, <1>12
  <2> QED BY <1>1, <1>5, <1>12, <2>1 DEF Same, Fields, LogAfter
<1>13. CASE call.ran /\ call.result # "dropped" /\ step.type = "final" /\ call.result = "done"
  <2>1. R = ended
    BY <1>11, <1>13
  <2> QED BY <1>1, <1>10, <1>13, <2>1 DEF Same, Fields, LogAfter
<1>14. CASE call.ran /\ call.result # "dropped" /\ ~(step.type = "final" /\ call.result = "done")
  <2>1. R = stepped
    BY <1>11, <1>14
  <2> QED BY <1>1, <1>7, <1>14, <2>1 DEF Same, Fields, LogAfter
<1> QED BY <1>12, <1>13, <1>14

\* What a turn keeps: the task it opened, or the answer that ends it.
LEMMA TurnKept ==
    ASSUME AuditInv, [Next]_vars, run'.valid, at.op = "act", NEW fate, NEW then \in HostAfter,
           NEW script, Turn(fate, then, script)
    PROVE  HostOK' /\ Kept' /\ OpenOK'
<1>1. /\ run.valid /\ UNCHANGED setup /\ Len(run.rows) \in Nat
      /\ run.rows \in Seq(Range(run.rows))
  BY NowGrows DEF AuditInv
<1>2. /\ at.sample \in 1..Len(Plan) /\ Len(run.rows) = at.sample - 1 /\ at.turn \in Nat
      /\ DOMAIN at = {"op", "sample", "turn"} /\ DOMAIN run = {"rows", "valid"}
  BY DEF AuditInv, RowsInv, PlaceOK
<1>3. /\ at.sample \in DOMAIN Plan /\ Now = at.sample /\ at.sample \in Nat
      /\ Len(run.rows) + 1 = at.sample
  BY <1>1, <1>2, PlanIsSeq DEF Now
<1> DEFINE k == at.turn + 1
           steps == SubSeq(script, 1, k)
           sides == {s \in {"before", "after"} : IF s = "before" THEN k = 1
                                                 ELSE steps[k].type = "final"}
<1>4. PICK call, step, refusal :
         /\ call = Wrapped("act", sides,
                           [fate EXCEPT !.call = IF @ = "refused" THEN "done" ELSE @], then)
         /\ step = steps[k] /\ refusal = Refusal(steps, k)
  BY Zenon
<1>5. step.type = "final" => refusal = None
  BY <1>4, Zenon DEF Refusal
<1>6. /\ host' = then /\ log' = Acting(call, step)
      /\ \/ call.result = "dropped" /\ UNCHANGED <<at, run>>
         \/ call.result = "dropped" /\ run' = Recorded(Lost) /\ at' = AfterProbe
         \/ run' = Invalid
         \/ /\ call.result = "done" /\ refusal # None /\ at' = AfterProbe
            /\ \E trace : run' = Recorded(Row("scored", 0, refusal, None, trace))
         \/ /\ call.result = "done" /\ step.type = "final" /\ at' = AfterProbe
            /\ \E score, trace : run' = Recorded(Row("scored", score, None, None, trace))
         \/ /\ call.result = "done" /\ step.type # "final"
            /\ at' = [at EXCEPT !.turn = k] /\ UNCHANGED run
         \/ /\ call.result = "done" /\ step.type # "final" /\ at' = AfterProbe
            /\ \E trace : run' = Recorded(Row("scored", 0, "trajectory_collapse", None, trace))
  BY <1>4, Zenon DEF Turn, Leaves, Retries
<1>7. /\ call.snapshots \in Seq(Range(call.snapshots))
      /\ call.result = "done" =>
            /\ call.ran
            /\ at.turn = 0 => /\ 1 \in 1..Len(call.snapshots) /\ ~call.snapshots[1].error
                              /\ Shows(call.snapshots[1].body, host.skill)
            /\ step.type = "final" =>
                  /\ Len(call.snapshots) \in 1..Len(call.snapshots)
                  /\ Shows(call.snapshots[Len(call.snapshots)].body, then.skill)
  <2>1. (at.turn = 0 => "before" \in sides) /\ (step.type = "final" => "after" \in sides)
    BY <1>2, <1>4
  <2>2. PICK both, fated :
           /\ both = sides
           /\ fated = [fate EXCEPT !.call = IF @ = "refused" THEN "done" ELSE @]
    BY Zenon
  <2>3. call = Wrapped("act", both, fated, then)
    BY <1>4, <2>2
  <2>4. (at.turn = 0 => "before" \in both) /\ (step.type = "final" => "after" \in both)
    BY <2>1, <2>2
  <2> HIDE DEF sides
  <2> QED BY <2>3, <2>4, WrappedIs
<1> HIDE DEF sides, steps
<1>8. Worked(then)
  BY <1>3, <1>6 DEF Worked
<1>9. PICK first, past, longer, s, t, c, task, opened, i :
         /\ first = setup.skill /\ past = host.past /\ longer = then.past /\ s = log.snapshots
         /\ c = call.snapshots /\ t = s \o c /\ task = TaskOf(call)
         /\ opened = log'.pending[at.sample] /\ i = at.sample
  OBVIOUS
<1>10. /\ PastOK(first, past) /\ Upto(past, i) /\ Grown(first, past, longer, i) /\ i \in Nat
       /\ host.skill = StandingIn(first, past, Len(past))
       /\ then.skill = StandingIn(first, longer, Len(longer))
  <2>1. host.skill = StandingIn(first, past, Len(past))
    BY <1>1, <1>9 DEF AuditInv, HostOK
  <2> QED BY <1>3, <1>8, <1>9, <2>1, HostKept
<1>11. /\ Longer(s, t) /\ Longer(t, t) /\ Len(t) = Len(s) + Len(c)
       /\ \A m \in 1..Len(c) : Len(s) + m \in 1..Len(t) /\ t[Len(s) + m] = c[m]
  <2>1. s \in Seq(Range(s)) /\ c \in Seq(Range(c)) /\ t = s \o c
    BY <1>7, <1>9 DEF AuditInv, LogShape
  <2>2. Extended(s, c, t)
    BY <2>1, MoreInventories
  <2> QED BY <2>2 DEF Extended
<1>12. /\ log'.snapshots = log.snapshots \o call.snapshots
       /\ \A j \in DOMAIN Plan : j # at.sample => log'.pending[j] = log.pending[j]
       /\ call.result = "dropped" => log'.completed = log.completed /\ opened = task
       /\ call.result = "done" /\ step.type = "final" =>
             \E d : /\ log'.completed = Append(log.completed, d)
                    /\ "before" \in DOMAIN task => d.before = task.before
                    /\ d.after = Len(t)
       /\ call.result = "done" /\ step.type # "final" =>
             /\ log'.completed = log.completed
             /\ "before" \in DOMAIN task => "before" \in DOMAIN opened /\ opened.before = task.before
  <2>1. LogShape /\ (call.result = "done" => call.ran)
    BY <1>7 DEF AuditInv
  <2>2. PICK R : R = Acting(call, step) /\ R = log'
    BY <1>6
  <2>3. LogAfter(R, call, step)
    BY <1>3, <2>1, <2>2, ActingIs
  <2> QED BY <1>9, <2>2, <2>3, ZenonT(60) DEF LogAfter
<1>13. \A j \in 1..Len(run.rows) : log'.pending[j] = log.pending[j]
  <2> SUFFICES ASSUME NEW j \in 1..Len(run.rows) PROVE log'.pending[j] = log.pending[j]
    OBVIOUS
  <2>1. j \in DOMAIN Plan /\ j # at.sample
    BY <1>1, <1>2, PlanIsSeq
  <2> QED BY <1>12, <2>1
<1>14. call.result = "done" => OpenedOf(first, past, t, task, i)
  <2> HAVE call.result = "done"
  <2>1. CASE at.turn = 0
    <3>1. PICK m : m = Len(s) + 1
      OBVIOUS
    <3>2. m \in 1..Len(t) /\ t[m] = c[1] /\ Shows(c[1].body, StandingIn(first, past, Len(past)))
      BY <1>7, <1>9, <1>10, <1>11, <2>1, <3>1
    <3>3. task = [before |-> m, steps |-> <<>>]
      BY <1>7, <1>9, <2>1, <3>1 DEF TaskOf, NextAudit
    <3>4. TakenAt(first, past, t, m, Len(past), i)
      BY <1>10, <3>2, OpensNow
    <3> QED BY <3>3, <3>4 DEF OpenedOf
  <2>2. CASE at.turn # 0
    <3>1. task = log.pending[i]
      BY <1>9, <2>2 DEF TaskOf
    <3>2. OpenedOf(first, past, s, task, i)
      BY <1>1, <1>9, <2>2, <3>1 DEF AuditInv, OpenOK
    <3>3. Grown(first, past, past, i) /\ i <= i /\ "before" \in DOMAIN task
      BY <1>10, <3>2 DEF Grown, OpenedOf
    <3> QED BY <1>10, <1>11, <3>2, <3>3, OpenedStays
  <2> QED BY <2>1, <2>2
<1>15. call.result = "done" /\ step.type # "final" => OpenedOf(first, longer, t, opened, i)
  <2> HAVE call.result = "done" /\ step.type # "final"
  <2>1. OpenedOf(first, past, t, task, i)
    BY <1>14
  <2>2. "before" \in DOMAIN opened /\ opened.before = task.before /\ i <= i
    BY <1>10, <1>12, <2>1 DEF OpenedOf
  <2> QED BY <1>10, <1>11, <2>1, <2>2, OpenedStays
<1>16. ASSUME NEW row, run' = Recorded(row) PROVE run'.rows = Append(run.rows, row)
  BY <1>2, <1>16 DEF Recorded
<1>17. at' = AfterProbe => OpenOK'
  BY DEF AfterProbe, GoTo, OpenOK
<1>18. ASSUME NEW error, error # None, call.result = "done", step.type # "final", at' = AfterProbe,
              NEW trace, run' = Recorded(Row("scored", 0, error, None, trace))
       PROVE  HostOK' /\ Kept' /\ OpenOK'
  <2>1. PICK row : row = Row("scored", 0, error, None, trace)
    OBVIOUS
  <2>2. ~Good(row)
    BY <1>18, <2>1 DEF Row, Good
  <2>3. run'.rows = Append(run.rows, row) /\ log'.completed = log.completed
    BY <1>12, <1>16, <1>18, <2>1
  <2>4. OpenedOf(setup.skill, then.past, log.snapshots \o c, log'.pending[Len(run.rows) + 1],
                 Len(run.rows) + 1)
    BY <1>3, <1>9, <1>15, <1>18
  <2>5. HostOK' /\ Kept'
    BY <1>7, <1>8, <1>9, <1>12, <1>13, <2>2, <2>3, <2>4, RowStep
  <2> QED BY <1>17, <1>18, <2>5
<1>19. CASE call.result = "dropped" /\ UNCHANGED <<at, run>>
  <2>1. HostOK' /\ Kept'
    BY <1>7, <1>8, <1>12, <1>13, <1>19, QuietStep
  <2>2. ASSUME at.turn # 0 PROVE OpenedOf(first, longer, t, opened, i)
    <3>1. opened = log.pending[i]
      BY <1>9, <1>12, <1>19, <2>2 DEF TaskOf
    <3>2. OpenedOf(first, past, s, opened, i)
      BY <1>1, <1>9, <2>2, <3>1 DEF AuditInv, OpenOK
    <3>3. "before" \in DOMAIN opened /\ i <= i
      BY <1>10, <3>2 DEF OpenedOf
    <3> QED BY <1>10, <1>11, <3>2, <3>3, OpenedStays
  <2>3. OpenOK'
    BY <1>1, <1>6, <1>9, <1>12, <1>19, <2>2 DEF OpenOK
  <2> QED BY <2>1, <2>3
<1>20. CASE call.result = "dropped" /\ run' = Recorded(Lost) /\ at' = AfterProbe
  <2>1. PICK row, d : row = Lost /\ d = None
    OBVIOUS
  <2>2. ~Good(row) /\ row.error = None
    BY <2>1 DEF Lost, Row, Good
  <2>3. run'.rows = Append(run.rows, row) /\ log'.completed = log.completed
    BY <1>12, <1>16, <1>20, <2>1
  <2>4. HostOK' /\ Kept'
    BY <1>7, <1>8, <1>9, <1>12, <1>13, <2>2, <2>3, RowStep
  <2> QED BY <1>17, <1>20, <2>4
<1>21. CASE call.result = "done" /\ step.type = "final" /\ at' = AfterProbe
            /\ \E score, trace : run' = Recorded(Row("scored", score, None, None, trace))
  <2>1. PICK score, trace : run' = Recorded(Row("scored", score, None, None, trace))
    BY <1>21
  <2>2. PICK row : row = Row("scored", score, None, None, trace)
    OBVIOUS
  <2>3. Good(row) /\ row.error = None
    BY <2>2 DEF Row, Good
  <2>4. OpenedOf(first, past, t, task, i)
    BY <1>14, <1>21
  <2>5. PICK d : log'.completed = Append(log.completed, d) /\ d.before = task.before /\ d.after = Len(t)
    BY <1>12, <1>21, <2>4 DEF OpenedOf
  <2>6. PICK m : m = Len(t)
    OBVIOUS
  <2>7. m \in 1..Len(t) /\ Shows(t[m].body, StandingIn(first, longer, Len(longer)))
    <3>1. Len(c) \in 1..Len(c) /\ Shows(c[Len(c)].body, then.skill)
      BY <1>7, <1>9, <1>21
    <3>2. Len(s) + Len(c) \in 1..Len(t) /\ t[Len(s) + Len(c)] = c[Len(c)]
      BY <1>11, <3>1
    <3> QED BY <1>10, <1>11, <2>6, <3>1, <3>2
  <2>8. EntryOf(first, longer, t, d, i)
    BY <1>10, <1>11, <2>4, <2>5, <2>6, <2>7, LaterEntry
  <2>9. EntryOf(setup.skill, then.past, log.snapshots \o c, d, Len(run.rows) + 1)
    BY <1>3, <1>9, <2>8
  <2>10. run'.rows = Append(run.rows, row)
    BY <1>16, <2>1, <2>2
  <2>11. HostOK' /\ Kept'
    <3>1. log'.completed = IF Good(row) THEN Append(log.completed, d) ELSE log.completed
      BY <2>3, <2>5
    <3>2. c \in Seq(Range(c)) /\ log'.snapshots = log.snapshots \o c
      BY <1>7, <1>9, <1>12
    <3> QED BY <1>8, <1>13, <2>3, <2>9, <2>10, <3>1, <3>2, RowStep
  <2> QED BY <1>17, <1>21, <2>11
<1>22. CASE call.result = "done" /\ step.type # "final"
            /\ at' = [at EXCEPT !.turn = k] /\ UNCHANGED run
  <2>1. HostOK' /\ Kept'
    BY <1>7, <1>8, <1>12, <1>13, <1>22, QuietStep
  <2>2. at'.sample = at.sample
    BY <1>2, <1>22
  <2>3. OpenOK'
    BY <1>1, <1>6, <1>9, <1>12, <1>15, <1>22, <2>2 DEF OpenOK
  <2> QED BY <2>1, <2>3
<1>23. CASE run' = Invalid
  <2>1. run'.valid = FALSE
    BY <1>2, <1>23 DEF Invalid
  <2> QED BY <2>1
<1>24. None # "trajectory_collapse"
  BY LearningAssumption
<1> QED BY <1>5, <1>6, <1>18, <1>19, <1>20, <1>21, <1>22, <1>23, <1>24

\* What an answer to a question keeps.
LEMMA AnswerKept ==
    ASSUME AuditInv, [Next]_vars, run'.valid, at.op = "respond", NEW fate, NEW then \in HostAfter,
           NEW output, Answer(fate, then, output)
    PROVE  HostOK' /\ Kept' /\ OpenOK'
<1>1. Asks /\ UNCHANGED setup /\ Len(run.rows) \in Nat
  BY NowGrows DEF AuditInv, AskedOK
<1>2. Now = at.sample
  BY <1>1, PlanIsSeq DEF AuditInv, RowsInv, PlaceOK, Now
<1>3. /\ host' = then
      /\ at' = at \/ at' = ToClose \/ at' = AfterProbe
  BY ZenonT(60) DEF Answer, Leaves
<1>4. HostOK'
  BY <1>2, <1>3, HostKept DEF Worked
<1>5. Kept'
  BY <1>1 DEF Kept, Asks
<1>6. OpenOK'
  BY <1>3 DEF OpenOK, ToClose, AfterProbe, GoTo
<1> QED BY <1>4, <1>5, <1>6

\* A question is next only where there is one.
LEMMA StepAsked ==
    ASSUME AuditInv, [Next]_vars
    PROVE  AskedOK'
<1>1. RunStep /\ Plan' = Plan /\ (Asks' <=> Asks)
  BY StepFrame DEF AuditInv, RunStep, Plan, Asks
<1>2. ASSUME NEW i \in Nat \ {0}, NextProbe(i).op = "respond" PROVE Asks
  <2>1. ~(i > Len(Plan)) /\ Plan[i].kind = "respond"
    BY <1>2 DEF NextProbe, GoTo
  <2>2. i \in DOMAIN Plan
    BY <2>1, PlanIsSeq
  <2> QED BY <2>1, <2>2, AskedOrLate
<1>3. at \in [op : Ops, sample : Nat, turn : Nat]
  BY DEF AuditInv, RowsInv, PlaceOK
<1>4. CASE Stays \/ Fails \/ Records \/ Turns \/ Closes
  BY <1>1, <1>3, <1>4 DEF Stays, Fails, Records, Rows, Turns, Closes, AfterProbe, GoTo,
                         AuditInv, AskedOK
<1>5. CASE Proceeds
  <2>1. at.sample + 1 \in Nat \ {0} /\ 1 \in Nat \ {0}
    BY <1>3
  <2>2. \/ at'.op \in {"reset", "session"}
        \/ at' = NextProbe(1) \/ at' = NextProbe(at.sample + 1)
    BY <1>5 DEF Proceeds, GoTo
  <2>3. at'.op = "respond" => Asks
    BY <1>2, <2>1, <2>2
  <2> QED BY <1>1, <2>3 DEF AskedOK
<1> QED BY <1>1, <1>4, <1>5 DEF RunStep

\* An operation that must be acknowledged adds inventories and nothing else.
LEMMA AttemptKept ==
    ASSUME AuditInv, [Next]_vars, run'.valid, at.op \notin {"respond", "act"}, NEW op, NEW sides,
           NEW next, NEW fate, NEW then, then = host \/ (then \in HostAfter /\ at.sample = Now),
           Attempt(op, sides, next, fate, then), next.turn = 0
    PROVE  HostOK' /\ Kept' /\ OpenOK'
<1>1. DOMAIN run = {"rows", "valid"}
  BY DEF AuditInv, RowsInv, PlaceOK
<1>2. PICK call : call = Wrapped(op, sides, fate, then)
  OBVIOUS
<1>3. /\ host' = then /\ log' = Heard(call)
      /\ \/ UNCHANGED run /\ (at' = at \/ at' = next)
         \/ run' = Invalid
  BY <1>2, Zenon DEF Attempt, Leaves
<1>4. call.snapshots \in Seq(Range(call.snapshots))
  BY <1>2, WrappedIs
<1>5. /\ log'.snapshots = log.snapshots \o call.snapshots /\ log'.pending = log.pending
      /\ log'.completed = log.completed
  BY <1>3 DEF Heard, AuditInv, LogShape
<1>6. UNCHANGED run /\ (at' = at \/ at' = next)
  <2>1. run' = Invalid => run'.valid = FALSE
    BY <1>1 DEF Invalid
  <2> QED BY <1>3, <2>1
<1>7. Worked(then)
  BY <1>3 DEF Worked
<1>8. HostOK' /\ Kept'
  BY <1>4, <1>5, <1>6, <1>7, QuietStep
<1>9. OpenOK'
  BY <1>6 DEF OpenOK
<1> QED BY <1>8, <1>9

\* The wrapper keeps inventories, answers and open tasks.
LEMMA StepShape == AuditInv /\ [Next]_vars => LogShape'
<1> SUFFICES ASSUME AuditInv, [Next]_vars PROVE LogShape'
  OBVIOUS
<1>1. LogShape /\ RowsInv /\ UNCHANGED setup /\ Plan' = Plan
  BY StepFrame DEF AuditInv, RunStep, Plan
<1>2. /\ DOMAIN log = {"snapshots", "completed", "pending"}
      /\ log.snapshots \in Seq(Range(log.snapshots)) /\ DOMAIN log.pending = DOMAIN Plan
  BY <1>1 DEF LogShape
<1>3. ASSUME NEW call, call.snapshots \in Seq(Range(call.snapshots)),
             DOMAIN log' = {"snapshots", "completed", "pending"},
             log'.snapshots = log.snapshots \o call.snapshots, DOMAIN log'.pending = DOMAIN Plan
      PROVE  LogShape'
  <2>1. PICK s, c, t : s = log.snapshots /\ c = call.snapshots /\ t = s \o c
    OBVIOUS
  <2>2. Extended(s, c, t)
    BY <1>2, <1>3, <2>1, MoreInventories
  <2>3. t \in Seq(Range(t))
    BY <2>2 DEF Extended, Longer
  <2> QED BY <1>1, <1>3, <2>1, <2>3 DEF LogShape
<1>4. ASSUME NEW call, call.snapshots \in Seq(Range(call.snapshots)), log' = Heard(call)
      PROVE  LogShape'
  <2>1. /\ DOMAIN log' = {"snapshots", "completed", "pending"}
        /\ log'.snapshots = log.snapshots \o call.snapshots /\ DOMAIN log'.pending = DOMAIN Plan
    BY <1>2, <1>4 DEF Heard
  <2> QED BY <1>3, <1>4, <2>1
<1>5. ASSUME NEW op, NEW sides, NEW next, NEW fate, NEW then, Attempt(op, sides, next, fate, then)
      PROVE  LogShape'
  <2>1. PICK call : call = Wrapped(op, sides, fate, then)
    OBVIOUS
  <2>2. log' = Heard(call)
    BY <1>5, <2>1, Zenon DEF Attempt
  <2>3. call.snapshots \in Seq(Range(call.snapshots))
    BY <2>1, WrappedIs
  <2> QED BY <1>4, <2>2, <2>3
<1>6. CASE Respond
  <2>1. PICK fate, then, output : Answer(fate, then, output)
    BY <1>6 DEF Respond
  <2>2. PICK call, both, d :
           /\ both = {"before", "after"} /\ call = Wrapped("respond", both, fate, then)
           /\ d = [kind |-> "respond", category |-> None, output |-> output,
                   before |-> NextAudit, after |-> NextAudit + 1]
    BY Zenon
  <2>3. log' = Completed(call, d)
    BY <2>1, <2>2, Zenon DEF Answer
  <2>4. call.snapshots \in Seq(Range(call.snapshots))
    BY <2>2, WrappedIs
  <2>5. CASE call.result = "done"
    <3>1. PICK heard : heard = [log EXCEPT !.snapshots = @ \o call.snapshots]
      OBVIOUS
    <3>2. /\ DOMAIN heard = {"snapshots", "completed", "pending"}
          /\ heard.snapshots = log.snapshots \o call.snapshots
          /\ DOMAIN heard.pending = DOMAIN Plan
      BY <1>2, <3>1
    <3>3. log' = [heard EXCEPT !.completed = Append(@, d)]
      BY <2>3, <2>5, <3>1 DEF Completed, Heard
    <3>4. /\ DOMAIN log' = {"snapshots", "completed", "pending"}
          /\ log'.snapshots = log.snapshots \o call.snapshots
          /\ DOMAIN log'.pending = DOMAIN Plan
      BY <3>2, <3>3
    <3> QED BY <1>3, <2>4, <3>4
  <2>6. CASE call.result # "done"
    BY <1>4, <2>3, <2>4, <2>6 DEF Completed
  <2> QED BY <2>5, <2>6
<1>7. CASE Act
  <2>1. PICK fate, then, script : Turn(fate, then, script)
    BY <1>7 DEF Act
  <2> DEFINE k == at.turn + 1
             steps == SubSeq(script, 1, k)
             sides == {s \in {"before", "after"} : IF s = "before" THEN k = 1
                                                   ELSE steps[k].type = "final"}
  <2>2. PICK call, step :
           /\ call = Wrapped("act", sides,
                             [fate EXCEPT !.call = IF @ = "refused" THEN "done" ELSE @], then)
           /\ step = steps[k]
    BY Zenon
  <2>3. log' = Acting(call, step)
    BY <2>1, <2>2, Zenon DEF Turn
  <2>4. PICK some, fated : /\ some = sides
                           /\ fated = [fate EXCEPT !.call = IF @ = "refused" THEN "done" ELSE @]
    BY Zenon
  <2>5. call = Wrapped("act", some, fated, then)
    BY <2>2, <2>4
  <2>6. call.snapshots \in Seq(Range(call.snapshots)) /\ (call.result = "done" => call.ran)
    BY <2>5, WrappedIs
  <2>7. at.sample \in DOMAIN Plan
    BY <1>1, <1>7, PlanIsSeq DEF Act, RowsInv, PlaceOK
  <2>8. PICK R : R = Acting(call, step) /\ R = log'
    BY <2>3
  <2>9. LogAfter(R, call, step)
    BY <1>1, <2>6, <2>7, <2>8, ActingIs
  <2>10. /\ DOMAIN log' = {"snapshots", "completed", "pending"}
         /\ log'.snapshots = log.snapshots \o call.snapshots
         /\ DOMAIN log'.pending = DOMAIN Plan
    BY <2>8, <2>9 DEF LogAfter
  <2> QED BY <1>3, <2>6, <2>10
<1>8. CASE Close
  <2>1. PICK fate, sides : log' = Heard(Wrapped("close", sides, fate, host))
    BY <1>8 DEF Close
  <2>2. PICK call, then : call = Wrapped("close", sides, fate, then) /\ then = host
    OBVIOUS
  <2>3. call.snapshots \in Seq(Range(call.snapshots))
    BY <2>2, WrappedIs
  <2> QED BY <1>4, <2>1, <2>2, <2>3
<1>9. CASE UNCHANGED log
  BY <1>1, <1>2, <1>9 DEF LogShape
<1>10. CASE Reset
  BY <1>5, <1>10 DEF Reset, Acknowledged
<1>11. CASE Maintain
  BY <1>5, <1>11 DEF Maintain, Acknowledged
<1>12. CASE SessionBoundary
  BY <1>5, <1>12 DEF SessionBoundary, Acknowledged
<1>13. CASE Describe
  BY <1>9, <1>13 DEF Describe
<1>14. CASE UNCHANGED vars
  BY <1>9, <1>14 DEF vars
<1> QED BY <1>6, <1>7, <1>8, <1>10, <1>11, <1>12, <1>13, <1>14 DEF Next

\* Closing a unit adds the last inventory.
LEMMA CloseKept ==
    ASSUME AuditInv, [Next]_vars, run'.valid, Close
    PROVE  HostOK' /\ Kept' /\ OpenOK'
<1>1. PICK fate, sides :
         /\ host' = host /\ log' = Heard(Wrapped("close", sides, fate, host))
         /\ run'.valid => run'.rows = run.rows
         /\ at' = GoTo("scored", 0, 0)
  <2>1. PICK fate, sides, valid :
           /\ host' = host /\ log' = Heard(Wrapped("close", sides, fate, host))
           /\ run' = [valid |-> valid,
                      rows |-> IF valid THEN run.rows ELSE [i \in DOMAIN Plan |-> Lost]]
           /\ at' = GoTo("scored", 0, 0)
    BY ZenonT(60) DEF Close, Leaves
  <2>2. run'.valid => run'.rows = run.rows
    BY <2>1
  <2> QED BY <2>1, <2>2
<1>2. PICK call, then : call = Wrapped("close", sides, fate, then) /\ then = host
  OBVIOUS
<1>3. call.snapshots \in Seq(Range(call.snapshots))
  BY <1>2, WrappedIs
<1>4. /\ log'.snapshots = log.snapshots \o call.snapshots /\ log'.pending = log.pending
      /\ log'.completed = log.completed
  BY <1>1, <1>2 DEF Heard, AuditInv, LogShape
<1>5. Worked(then)
  BY <1>1, <1>2 DEF Worked
<1>6. HostOK' /\ Kept'
  BY <1>1, <1>3, <1>4, <1>5, QuietStep
<1>7. OpenOK'
  BY <1>1 DEF OpenOK, GoTo
<1> QED BY <1>6, <1>7

\* What the wrapper keeps stays in step with the rows and with the host's past.
LEMMA StepAudit == AuditInv /\ [Next]_vars => AuditInv'
<1> SUFFICES ASSUME AuditInv, [Next]_vars PROVE AuditInv'
  OBVIOUS
<1>1. RowsInv' /\ LogShape' /\ setup' \in Setups /\ AskedOK'
  BY StepFrame, StepRows, StepShape, StepAsked DEF AuditInv, RunStep
<1>2. ASSUME run'.valid PROVE HostOK' /\ Kept' /\ OpenOK'
  <2>1. /\ run.valid /\ UNCHANGED setup
    BY <1>2, NowGrows DEF AuditInv
  <2>2. HostOK /\ Kept /\ OpenOK
    BY <2>1 DEF AuditInv
  <2>3. CASE UNCHANGED vars
    BY <2>2, <2>3 DEF vars, HostOK, Kept, Asks, OpenOK, Now
  <2>4. CASE Describe
    <3>1. UNCHANGED <<host, log>> /\ at.op = "describe" /\ at'.op \in {"reset", "release"}
      BY <2>4 DEF Describe, GoTo
    <3>2. run' = run
      <4>1. DOMAIN run = {"rows", "valid"}
        BY DEF AuditInv, RowsInv, PlaceOK
      <4>2. run' = run \/ run' = Invalid
        BY <2>4, Zenon DEF Describe
      <4>3. run' = Invalid => run'.valid = FALSE
        BY <4>1 DEF Invalid
      <4> QED BY <1>2, <4>2, <4>3
    <3>3. Now' = Now
      BY <3>1, <3>2 DEF Now
    <3> QED BY <2>1, <2>2, <3>1, <3>2, <3>3 DEF HostOK, Kept, Asks, OpenOK
  <2>5. CASE Reset
    <3>1. PICK next, sides, fate : next = NextProbe(1) /\ Attempt("reset", sides, next, fate, host)
      BY <2>5 DEF Reset, Acknowledged
    <3>2. PICK then : then = host /\ Attempt("reset", sides, next, fate, then)
      BY <3>1
    <3>3. next.turn = 0
      BY <3>1 DEF NextProbe, GoTo
    <3>4. at.op \notin {"respond", "act"}
      BY <2>5 DEF Reset
    <3> QED BY <1>2, <3>2, <3>3, <3>4, AttemptKept
  <2>6. CASE Maintain
    <3>1. PICK next, sides, fate, then :
             /\ next = GoTo("session", at.sample, 0) /\ then \in HostAfter
             /\ Attempt("maintain", sides, next, fate, then)
      BY <2>6, Zenon DEF Maintain, Acknowledged
    <3>2. next.turn = 0
      BY <3>1 DEF GoTo
    <3>3. at.op \notin {"respond", "act"} /\ at.sample = Now
      BY <2>6 DEF Maintain, AuditInv, RowsInv, PlaceOK, Now
    <3> QED BY <1>2, <3>1, <3>2, <3>3, AttemptKept
  <2>7. CASE SessionBoundary
    <3>1. PICK next, sides, fate : next = NextProbe(at.sample + 1)
                                   /\ Attempt("session_boundary", sides, next, fate, host)
      BY <2>7 DEF SessionBoundary, Acknowledged
    <3>2. PICK then : then = host /\ Attempt("session_boundary", sides, next, fate, then)
      BY <3>1
    <3>3. next.turn = 0
      BY <3>1 DEF NextProbe, GoTo
    <3>4. at.op \notin {"respond", "act"}
      BY <2>7 DEF SessionBoundary
    <3> QED BY <1>2, <3>2, <3>3, <3>4, AttemptKept
  <2>8. CASE Respond
    <3>1. PICK fate, then, output : then \in HostAfter /\ Answer(fate, then, output)
      BY <2>8 DEF Respond
    <3>2. at.op = "respond"
      BY <2>8 DEF Respond
    <3> QED BY <1>2, <3>1, <3>2, AnswerKept
  <2>9. CASE Act
    <3>1. PICK fate, then, script : then \in HostAfter /\ Turn(fate, then, script)
      BY <2>9 DEF Act
    <3>2. at.op = "act"
      BY <2>9 DEF Act
    <3> QED BY <1>2, <3>1, <3>2, TurnKept
  <2>10. CASE Close
    BY <1>2, <2>10, CloseKept
  <2> QED BY <2>3, <2>4, <2>5, <2>6, <2>7, <2>8, <2>9, <2>10 DEF Next
<1> QED BY <1>1, <1>2 DEF AuditInv

\* So it is at first.
LEMMA InitAudit == Init => AuditInv
<1> SUFFICES ASSUME Init PROVE AuditInv
  OBVIOUS
<1>1. RowsInv /\ setup \in Setups
  BY InitRows DEF Init
<1>2. /\ at.op = "describe" /\ run.rows = <<>> /\ host.past = <<>> /\ host.skill = setup.skill
      /\ log.snapshots = <<>> /\ log.completed = <<>>
      /\ DOMAIN log = {"snapshots", "completed", "pending"} /\ DOMAIN log.pending = DOMAIN Plan
  BY DEF Init, GoTo
<1>3. LogShape
  BY <1>2, NoTodo DEF LogShape
<1>4. HostOK
  <2>1. DOMAIN setup.skill = {"status", "trial", "evaluation"}
    BY <1>1, LearningAssumption
  <2>2. PastOK(setup.skill, <<>>) /\ Upto(<<>>, Now)
    BY <2>1, NoTodo DEF PastOK, Upto
  <2>3. StandingIn(setup.skill, <<>>, Len(<<>>)) = setup.skill
    BY DEF StandingIn
  <2> QED BY <1>2, <2>2, <2>3 DEF HostOK
<1>5. Kept
  <2>1. PICK rows : rows = run.rows
    OBVIOUS
  <2>2. Len(rows) = 0 /\ RankIn(rows, 0) = 0
    BY <1>2, <2>1, RankIs
  <2>3. log.completed \in Seq(Range(log.completed)) /\ Len(log.completed) = 0
    BY <1>2, NoTodo
  <2> QED BY <2>1, <2>2, <2>3 DEF Kept, AuditsOK
<1>6. OpenOK
  BY <1>2 DEF OpenOK
<1> QED BY <1>1, <1>2, <1>3, <1>4, <1>5, <1>6 DEF AuditInv, AskedOK

----------------------------------------------------------------------------
(* What the replay reads of it *)

\* A finished unit has a row for each sample.
LEMMA AllRows ==
    ASSUME AuditInv, Done, run.valid
    PROVE  /\ Kept /\ HostOK /\ Len(run.rows) \in Nat
           /\ DOMAIN Plan = 1..Len(run.rows) /\ DOMAIN Plan \subseteq Nat
<1>1. Len(run.rows) = Len(Plan)
  BY DEF AuditInv, RowsInv, PlaceOK, Done
<1>2. DOMAIN Plan = 1..Len(Plan) /\ Len(Plan) \in Nat
  BY PlanIsSeq
<1> QED BY <1>1, <1>2 DEF AuditInv

\* A unit with late damage asks no questions.
LEMMA LateAsksNothing == LateErrors # {} => ~Asks
  BY AskedOrLate DEF LateErrors

\* The answers are delivered in the order of their rows.
LEMMA DeliveredIs ==
    ASSUME AuditInv, Done, LateErrors # {}, NEW i \in DOMAIN Plan, Answered(i)
    PROVE  EntryOf(setup.skill, host.past, log.snapshots, Delivered(i), i)
<1>1. run.valid /\ Good(run.rows[i])
  BY DEF Answered, Good
<1>2. Kept /\ i \in 1..Len(run.rows)
  BY <1>1, AllRows
<1>3. Delivered(i) = log.completed[RankIn(run.rows, i)]
  <2>1. {j \in 1..i : Answered(j)} = {j \in 1..i : Good(run.rows[j])}
    BY <1>1 DEF Answered, Good
  <2> QED BY <2>1 DEF Delivered, RankIn
<1>4. EntryOf(setup.skill, host.past, log.snapshots, log.completed[RankIn(run.rows, i)], i)
  BY <1>1, <1>2, LateAsksNothing DEF Kept, AuditsOK
<1> QED BY <1>3, <1>4

\* A sample that misbehaved left its task open.
LEMMA MisbehavedIs ==
    ASSUME AuditInv, Done, LateErrors # {}, NEW i \in DOMAIN Plan, Misbehaved(i)
    PROVE  OpenedOf(setup.skill, host.past, log.snapshots, Pending(i), i)
<1>1. run.valid /\ run.rows[i].error # None
  BY DEF Misbehaved
<1>2. Kept /\ i \in 1..Len(run.rows)
  BY <1>1, AllRows
<1> QED BY <1>1, <1>2, LateAsksNothing DEF Kept, AuditsOK, Pending

\* The trigger is the first sample of the late phase with damage.
LEMMA TriggerIs ==
    ASSUME AuditInv, Done, LateErrors # {}
    PROVE  /\ Trigger \in LateErrors /\ Trigger \in DOMAIN Plan /\ Trigger \in Nat
           /\ Answered(Trigger) \/ Misbehaved(Trigger)
<1>1. LateErrors \subseteq DOMAIN Plan /\ DOMAIN Plan \subseteq Nat
  BY PlanIsSeq DEF LateErrors
<1>2. Trigger \in LateErrors
  <2>1. \E x \in LateErrors : \A y \in LateErrors : x <= y
    BY <1>1, LeastNumber
  <2> QED BY <2>1 DEF Trigger, Min
<1>3. Measured(Trigger) # None
  BY <1>2 DEF LateErrors
<1> QED BY <1>1, <1>2, <1>3 DEF Measured

\* What the inventory before the trigger shows.
LEMMA BeforeTrigger ==
    ASSUME AuditInv, Done, LateErrors # {}
    PROVE  \E k, p : /\ TakenAt(setup.skill, host.past, log.snapshots, k, p, Trigger)
                     /\ BeforeOf(Trigger) = log.snapshots[k].body
<1>1. PICK i : i = Trigger /\ i \in DOMAIN Plan /\ (Answered(i) \/ Misbehaved(i))
  BY TriggerIs
<1>2. CASE Answered(i)
  <2>1. PICK d : d = Delivered(i) /\ EntryOf(setup.skill, host.past, log.snapshots, d, i)
    BY <1>1, <1>2, DeliveredIs
  <2>2. PICK p : TakenAt(setup.skill, host.past, log.snapshots, d.before, p, i)
    BY <2>1 DEF EntryOf
  <2> QED BY <1>1, <1>2, <2>1, <2>2 DEF BeforeOf, Inventory
<1>3. CASE ~Answered(i)
  <2>1. PICK task : task = Pending(i) /\ OpenedOf(setup.skill, host.past, log.snapshots, task, i)
    BY <1>1, <1>3, MisbehavedIs
  <2>2. PICK p : TakenAt(setup.skill, host.past, log.snapshots, task.before, p, i)
    BY <2>1 DEF OpenedOf
  <2> QED BY <1>1, <1>3, <2>1, <2>2 DEF BeforeOf, Inventory
<1> QED BY <1>2, <1>3

\* A revocation that is new since the trigger was made since then, and before the
\* inventory that shows it was taken.
RevokedAt(first, past, snapshots, k, q, i, s) ==
    /\ TakenAt(first, past, snapshots, k, q, i) /\ q \in 1..Len(past)
    /\ past[q].what = "revoked" /\ past[q].sample \in Trigger..i
    /\ s = StandingIn(first, past, q)

\* A revocation that the replay counts is one of these.
LEMMA RevocationSeen ==
    ASSUME AuditInv, Done, LateErrors # {}, AuditComplete, NEW i \in DOMAIN Plan, Trigger <= i,
           Answered(i), NEW s \in NewlyRevoked(i)
    PROVE  \E k, q : RevokedAt(setup.skill, host.past, log.snapshots, k, q, i, s)
<1>1. PICK first, past, snapshots, T :
         first = setup.skill /\ past = host.past /\ snapshots = log.snapshots /\ T = Trigger
  OBVIOUS
<1>2. run.valid /\ HostOK /\ i \in Nat
  BY AllRows DEF Answered
<1>3. PastOK(first, past)
  BY <1>1, <1>2 DEF HostOK
<1>4. T \in Nat /\ T <= i
  BY <1>1, TriggerIs
<1>5. \A k \in DOMAIN snapshots : snapshots[k].body.complete
  BY <1>1 DEF AuditComplete
<1>6. /\ s \in AfterOf(i).skills /\ s.status = "revoked"
      /\ ~\E b \in BeforeOf(Trigger).skills : b.status = "revoked" /\ Verdict(b) = Verdict(s)
  BY DEF NewlyRevoked
<1>7. \E h, p, k, q : /\ TakenAt(first, past, snapshots, h, p, T) /\ BeforeOf(Trigger) = snapshots[h].body
                      /\ TakenAt(first, past, snapshots, k, q, i) /\ AfterOf(i) = snapshots[k].body
                      /\ p <= q
  <2>1. PICK d, p1, q1 : /\ d = Delivered(i) /\ p1 <= q1
                         /\ TakenAt(first, past, snapshots, d.before, p1, i)
                         /\ TakenAt(first, past, snapshots, d.after, q1, i)
    <3>1. PICK d : d = Delivered(i) /\ EntryOf(first, past, snapshots, d, i)
      BY <1>1, DeliveredIs
    <3> QED BY <3>1 DEF EntryOf
  <2>2. AfterOf(i) = snapshots[d.after].body
    BY <1>1, <2>1 DEF AfterOf, Inventory
  <2>3. CASE T = i
    <3>1. BeforeOf(Trigger) = snapshots[d.before].body
      BY <1>1, <2>1, <2>3 DEF BeforeOf, Inventory
    <3> QED BY <2>1, <2>2, <2>3, <3>1
  <2>4. CASE T # i
    <3>1. PICK h, p : /\ TakenAt(first, past, snapshots, h, p, T)
                      /\ BeforeOf(Trigger) = snapshots[h].body
      BY <1>1, BeforeTrigger
    <3>2. T < i
      BY <1>2, <1>4, <2>4
    <3>3. p <= q1
      <4>1. MomentOf(past, p, T) /\ MomentOf(past, q1, i)
        BY <2>1, <3>1 DEF TakenAt
      <4> QED BY <1>2, <1>3, <1>4, <3>2, <4>1, LaterMoment
    <3> QED BY <2>1, <2>2, <3>1, <3>3
  <2> QED BY <2>3, <2>4
<1>8. PICK h, p, k, q : /\ TakenAt(first, past, snapshots, h, p, T) /\ BeforeOf(Trigger) = snapshots[h].body
                        /\ TakenAt(first, past, snapshots, k, q, i) /\ AfterOf(i) = snapshots[k].body
                        /\ p <= q
  BY <1>7
<1>9. s = StandingIn(first, past, q)
  BY <1>6, <1>8 DEF TakenAt, Shows
<1>10. s # StandingIn(first, past, p)
  <2> SUFFICES ASSUME s = StandingIn(first, past, p) PROVE FALSE
    OBVIOUS
  <2>1. snapshots[h].body.complete
    <3>1. h \in 1..Len(snapshots) /\ snapshots \in Seq(Range(snapshots))
      BY <1>1, <1>8 DEF TakenAt, AuditInv, LogShape
    <3> QED BY <1>5, <3>1
  <2>2. s \in snapshots[h].body.skills
    BY <1>6, <1>8, <2>1 DEF TakenAt, Shows
  <2> QED BY <1>6, <1>8, <2>2
<1>11. q \in 1..Len(past) /\ past[q].what = "revoked" /\ past[q].sample \in T..i
  <2>1. MomentOf(past, p, T) /\ MomentOf(past, q, i)
    BY <1>8 DEF TakenAt
  <2>2. StandingIn(first, past, q).status = "revoked"
        /\ StandingIn(first, past, q) # StandingIn(first, past, p)
    BY <1>6, <1>9, <1>10
  <2> QED BY <1>2, <1>3, <1>4, <1>8, <2>1, <2>2, RevokedBetween
<1> QED BY <1>1, <1>8, <1>9, <1>11 DEF RevokedAt

\* The first sample that shows a revocation.
LEMMA FirstRevocation ==
    ASSUME Revocations # {}
    PROVE  /\ Min(Revocations) \in Revocations /\ Min(Revocations) \in DOMAIN Plan
           /\ Min(Revocations) \in Nat
<1>1. Revocations \subseteq DOMAIN Plan /\ DOMAIN Plan \subseteq Nat
  BY PlanIsSeq DEF Revocations
<1>2. \E x \in Revocations : \A y \in Revocations : x <= y
  BY <1>1, LeastNumber
<1>3. Min(Revocations) \in Revocations
  BY <1>2 DEF Min
<1> QED BY <1>1, <1>3

\* A latency that is reported is that of a revocation the host made after the first
\* late damage, and no later than reported (score_unit): neither one the unit began
\* with nor one that an incomplete inventory had left out.
THEOREM LatencyIsOfARevocation == Spec => []RevocationFollowsDamage
<1>1. AuditInv => RevocationFollowsDamage
  <2> SUFFICES ASSUME AuditInv, Done, Latency # None, Revocations # {}
               PROVE  \E k \in Happened("revoked") :
                         host.past[k].sample \in Trigger..(Trigger + Latency.steps)
    BY DEF RevocationFollowsDamage
  <2>1. LateErrors # {} /\ AuditComplete /\ Latency.steps = Min(Revocations) - Trigger
    BY DEF Latency
  <2>2. PICK R : R = Min(Revocations) /\ R \in Revocations /\ R \in DOMAIN Plan /\ R \in Nat
    BY FirstRevocation
  <2>3. R >= Trigger /\ Answered(R) /\ NewlyRevoked(R) # {}
    BY <2>2 DEF Revocations
  <2>4. Trigger \in Nat
    BY <2>1, TriggerIs
  <2>5. Trigger <= R /\ Trigger + Latency.steps = R
    BY <2>1, <2>2, <2>3, <2>4
  <2>6. PICK s : s \in NewlyRevoked(R)
    BY <2>3
  <2>7. PICK k, q : RevokedAt(setup.skill, host.past, log.snapshots, k, q, R, s)
    BY <2>1, <2>2, <2>3, <2>5, <2>6, RevocationSeen
  <2>8. q \in 1..Len(host.past) /\ host.past[q].what = "revoked"
        /\ host.past[q].sample \in Trigger..R
    BY <2>7 DEF RevokedAt
  <2>9. DOMAIN host.past = 1..Len(host.past)
    BY <2>3, AllRows DEF Answered, HostOK, PastOK
  <2>10. q \in Happened("revoked")
    BY <2>8, <2>9 DEF Happened
  <2> QED BY <2>5, <2>8, <2>10
<1> QED BY <1>1, InitAudit, StepAudit, PTL DEF Spec

\* A readoption that is reported followed a revocation made after the first late damage,
\* and a new trial with an adoption after it or a roll-back to a revision of another trial
\* (score_unit): a restored status or a new evaluation of the old trial makes none.
THEOREM ReadoptionIsTried == Spec => []ReadoptionNeedsAnotherTrial
<1>1. AuditInv => ReadoptionNeedsAnotherTrial
  <2> SUFFICES ASSUME AuditInv, Done, Readopted
               PROVE  \E r \in Happened("revoked") :
                        /\ host.past[r].sample >= Trigger
                        /\ \/ \E t \in Happened("trialed"), a \in Happened("adopted") : r < t /\ t < a
                           \/ \E b \in Happened("rolled_back") :
                                 r < b /\ host.past[b].skill.trial # host.past[r].skill.trial
    BY DEF ReadoptionNeedsAnotherTrial
  <2>1. PICK first, past, snapshots : first = setup.skill /\ past = host.past /\ snapshots = log.snapshots
    OBVIOUS
  <2>2. LateErrors # {} /\ AuditComplete /\ Revocations # {}
    BY DEF Readopted
  <2>3. PICK R : R = Min(Revocations) /\ R \in Revocations /\ R \in DOMAIN Plan /\ R \in Nat
    BY <2>2, FirstRevocation
  <2>4. PICK i, skill, prior :
           /\ i \in DOMAIN Plan /\ skill \in AfterOf(i).skills /\ prior \in NewlyRevoked(R)
           /\ i > R /\ Answered(i) /\ skill.trial # prior.trial /\ skill.status = "adopted"
    BY <2>3 DEF Readopted, Fresh
  <2>5. R >= Trigger /\ Answered(R) /\ Trigger \in Nat
    BY <2>2, <2>3, TriggerIs DEF Revocations
  <2>6. PICK k, r : RevokedAt(first, past, snapshots, k, r, R, prior)
    BY <2>1, <2>2, <2>3, <2>4, <2>5, RevocationSeen
  <2>7. /\ r \in 1..Len(past) /\ past[r].what = "revoked" /\ past[r].sample \in Trigger..R
        /\ prior = StandingIn(first, past, r) /\ MomentOf(past, r, R)
    BY <2>6 DEF RevokedAt, TakenAt
  <2>8. /\ PastOK(first, past) /\ i \in Nat /\ DOMAIN past = 1..Len(past)
        /\ Len(past) \in Nat
    <3>1. HostOK /\ i \in Nat
      BY <2>4, AllRows DEF Answered
    <3>2. PastOK(first, past)
      BY <2>1, <3>1 DEF HostOK
    <3>3. past \in Seq(Range(past))
      BY <3>2 DEF PastOK
    <3> QED BY <3>1, <3>2, <3>3
  <2>9. PICK d, q : d = Delivered(i) /\ TakenAt(first, past, snapshots, d.after, q, i)
    <3>1. PICK d : d = Delivered(i) /\ EntryOf(first, past, snapshots, d, i)
      BY <2>1, <2>2, <2>4, DeliveredIs
    <3> QED BY <3>1 DEF EntryOf
  <2>10. skill = StandingIn(first, past, q) /\ MomentOf(past, q, i)
    <3>1. AfterOf(i) = snapshots[d.after].body
      BY <2>1, <2>9 DEF AfterOf, Inventory
    <3> QED BY <2>4, <2>9, <3>1 DEF TakenAt, Shows
  <2>11. r <= q
    BY <2>3, <2>4, <2>7, <2>8, <2>10, LaterMoment
  <2>12. r \in 0..Len(past) /\ q \in 0..Len(past)
    BY <2>7, <2>10 DEF MomentOf
  <2>13. prior.trial = past[r].skill.trial
    BY <2>7, <2>8, NextChange
  <2>14. \/ \E t, a \in 1..Len(past) : /\ r < t /\ t < a
                                       /\ past[t].what = "trialed" /\ past[a].what = "adopted"
         \/ \E b \in 1..Len(past) : /\ r < b /\ past[b].what = "rolled_back"
                                    /\ past[b].skill.trial # StandingIn(first, past, r).trial
    BY <2>4, <2>7, <2>8, <2>10, <2>11, <2>12, TriedBetween
  <2>15. r \in Happened("revoked") /\ host.past[r].sample >= Trigger
    BY <2>1, <2>7, <2>8 DEF Happened
  <2> QED BY <2>1, <2>7, <2>8, <2>13, <2>14, <2>15 DEF Happened
<1> QED BY <1>1, InitAudit, StepAudit, PTL DEF Spec

============================================================================
