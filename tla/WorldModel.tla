------------------------------ MODULE WorldModel ----------------------------
(***************************************************************************)
(* The bitemporal record from which every Oracle is computed               *)
(* (worldmodel.py).  A record H is a set of assertions; each has an id, a  *)
(* position seq, who says (source) what (value) about which subject and    *)
(* attribute, a kind, whether it bears truth, what it supersedes, from     *)
(* when and until when it holds, and what it was derived from.             *)
(***************************************************************************)
EXTENDS Absent, Integers, Sequences, FiniteSets, FiniteSetsExt

AssertingKinds == {"state", "update", "correction", "contradiction", "observation"}
MentionKinds == {"question", "hypothetical"}
Kinds == AssertingKinds \cup MentionKinds \cup {"retraction"}

Asserts(a) == a.kind \in AssertingKinds
About(a, s, attr) == a.subject = s /\ a.attribute = attr
From(a) == IF a.from = None THEN a.seq ELSE a.from
Authority(attr) == "authority." \o attr
ById(H, id) == CHOOSE a \in H : a.id = id
Ids(H) == {a.id : a \in H}

Latest(rows) == CHOOSE a \in rows : \A b \in rows : b.seq <= a.seq
Earliest(rows) == CHOOSE a \in rows : \A b \in rows : a.seq <= b.seq

\* WorldModel.add: what the record accepts.
MayAdd(H, a) ==
    /\ a.kind \in Kinds /\ a.id \notin Ids(H)
    /\ a.supersedes # None =>
        \E b \in H : b.id = a.supersedes /\ b.seq < a.seq /\ About(b, a.subject, a.attribute)
    /\ a.to # None => From(a) < a.to
    /\ \A id \in a.derived : \E b \in H : b.id = id /\ b.seq < a.seq

\* Mutant: every statement of that source about it takes the value.
WithValueThroughout(H, id, v) ==
    {IF About(a, ById(H, id).subject, ById(H, id).attribute) /\ a.value # None
     THEN [a EXCEPT !.value = v] ELSE a : a \in H}

\* with_value: the counterfactual twin.
WithValue(H, id, v) == {IF a.id = id THEN [a EXCEPT !.value = v] ELSE a : a \in H}

----------------------------------------------------------------------------
(* What is still on the record *)

Rows(H, X) == {a \in H : a.id \notin X}

\* Mutant: a correction of a withdrawn statement stays on the record.
WithdrawnAlone(rows) ==
    {a.supersedes : a \in {b \in rows : b.kind = "retraction"}} \ {None}

\* _withdrawn: what the retractions take away, with what corrects it, what it corrects,
\* and what was derived from it.
Withdrawn(rows) ==
    LET spread(gone) ==
            gone \cup {a.supersedes : a \in {b \in rows : b.kind = "correction" /\ b.id \in gone}}
                 \cup {a.id : a \in {b \in rows : \/ b.kind = "correction" /\ b.supersedes \in gone
                                                  \/ b.derived \cap gone # {}}}
        after[n \in Nat] ==
            IF n = 0 THEN {a.supersedes : a \in {b \in rows : b.kind = "retraction"}} \ {None}
            ELSE spread(after[n - 1]) \ {None}
    IN  after[Cardinality(rows)]

Standing(rows, gone) == {a \in rows : a.id \notin gone /\ a.kind # "retraction"}
Live(H, X) == Standing(Rows(H, X), Withdrawn(Rows(H, X)))

RetractedAmong(rows, gone, s, attr) ==
    {a.value : a \in {b \in rows : b.id \in gone /\ About(b, s, attr)}} \ {None}
RetractedValues(H, s, attr, X) ==
    RetractedAmong(Rows(H, X), Withdrawn(Rows(H, X)), s, attr)

----------------------------------------------------------------------------
(* Truth *)

\* live_target: the oldest statement that is still on the record along the chain of
\* what a correction corrects.
Target(H, live, c) ==
    LET back[id \in Ids(H) \cup {None}] ==
            IF id \notin Ids(H) THEN None
            ELSE LET a == ById(H, id)
                     older == IF a.kind = "correction" THEN back[a.supersedes] ELSE None
                 IN  IF older # None THEN older ELSE IF a \in live THEN id ELSE None
    IN  back[c.supersedes]

Targets(H, live) ==
    [c \in {a \in live : a.kind = "correction"} |-> Target(H, live, c)]

\* truth_series: corrections rewrite the statement they correct; one whose statement
\* is withheld stands on its own.
TruthsOf(s, attr, live, target) ==
    LET of(a) == {c \in DOMAIN target : target[c] = a.id}
        value(a) == IF of(a) = {} THEN a.value ELSE Latest(of(a)).value
        rewrites(a) == a.kind = "correction" /\ target[a] # None
    IN  {[at |-> From(a), seq |-> a.seq, value |-> value(a), id |-> a.id] :
            a \in {b \in live : About(b, s, attr) /\ b.truth /\ ~rewrites(b)}}
TruthSeries(H, s, attr, X) ==
    LET live == Live(H, X) IN TruthsOf(s, attr, live, Targets(H, live))

InOrder(r, q) == r.at < q.at \/ (r.at = q.at /\ r.seq <= q.seq)
LastRow(rows) == CHOOSE r \in rows : \A q \in rows : InOrder(q, r)
Nothing == [value |-> None, id |-> None]

LastOf(rows) ==
    IF rows = {} THEN Nothing ELSE [value |-> LastRow(rows).value, id |-> LastRow(rows).id]
TruthAt(H, s, attr, time, X) ==
    LastOf({r \in TruthSeries(H, s, attr, X) :
               r.at <= time /\ (ById(H, r.id).to = None \/ time < ById(H, r.id).to)})

\* Withholding evidence does not move the present.
Now(H) == Max({a.seq : a \in H} \cup {0})
Current(H, s, attr, X) == TruthAt(H, s, attr, Now(H), X)

----------------------------------------------------------------------------
(* Evidence *)

Stated(H, s, attr, X) == {a \in Live(H, X) : About(a, s, attr) /\ Asserts(a)}
Known(H, s, attr, X) == Stated(H, s, attr, X) # {}
SaidBy(H, source, s, attr, X) ==
    LET rows == {a \in Stated(H, s, attr, X) : a.source = source}
    IN  IF rows = {} THEN None ELSE Latest(rows).value
SaidByOwner(H, owner, s, attr, X) ==
    IF owner = None THEN None ELSE SaidBy(H, owner, s, attr, X)
FirstStated(H, s, attr, X) ==
    IF Known(H, s, attr, X) THEN Earliest(Stated(H, s, attr, X)).value ELSE None
ValuesSeen(H, s, attr) == {a.value : a \in {b \in Live(H, {}) : About(b, s, attr)}}

\* status: contested while sources disagree and no truth was stated since.  rows are the
\* statements, truths the times at which a truth was stated, current is what is true.
StatusOf(rows, truths, current) ==
    LET latest == {a \in rows : \A b \in rows : b.source = a.source => b.seq <= a.seq}
        disagree == {a.seq : a \in {b \in latest : b.value # current}}
    IN  CASE rows = {} -> "unknown"
          [] rows # {} /\ Cardinality({a.value : a \in latest}) = 1 -> "resolved"
          [] OTHER -> IF truths # {} /\ (disagree = {} \/ Max(truths) > Max(disagree))
                      THEN "resolved" ELSE "contested"
Status(H, s, attr, X) ==
    StatusOf(Stated(H, s, attr, X),
             {a.seq : a \in {b \in Live(H, X) : About(b, s, attr) /\ b.truth}},
             Current(H, s, attr, X).value)

\* hop: along the current truth, from subject to value to value.
Hop(H, s, attrs, X) ==
    LET at[n \in 0..Len(attrs)] ==
            IF n = 0 \/ (n > 0 /\ at[n - 1] = None) THEN (IF n = 0 THEN s ELSE None)
            ELSE Current(H, at[n - 1], attrs[n], X).value
    IN  at[Len(attrs)]

----------------------------------------------------------------------------
(* Queries *)

Value(v) == [kind |-> "value", value |-> v, status |-> None]
Unknown == [kind |-> "unknown", value |-> None, status |-> None]
ValueOr(v) == IF v = None THEN Unknown ELSE Value(v)
KnownAs(v) ==
    IF v # None THEN Value(v) ELSE [kind |-> "status", value |-> None, status |-> "known"]
Disputed(r, status) ==
    IF r # Unknown /\ status = "contested" THEN [r EXCEPT !.status = "contested"] ELSE r

\* Mutant: the observer is told what was recorded later.
NothingHidden(H, recorded) == {}

\* What was recorded later is hidden from a bitemporal query.
HiddenFrom(H, recorded) == {a.id : a \in {b \in H : b.seq > recorded}}

\* evaluate.
Evaluate(H, q, X) ==
    LET s == q.subject attr == q.attribute
    IN  CASE q.op = "current" ->
               Disputed(ValueOr(Current(H, s, attr, X).value), Status(H, s, attr, X))
          [] q.op = "bitemporal" ->
               ValueOr(TruthAt(H, s, attr, q.valid, X \cup HiddenFrom(H, q.recorded)).value)
          [] q.op = "authority" ->
               ValueOr(SaidByOwner(H, Current(H, s, Authority(attr), X).value, s, attr, X))
          [] q.op = "as_of" -> ValueOr(TruthAt(H, s, attr, ById(H, q.before).seq - 1, X).value)
          [] q.op = "said_by" -> ValueOr(SaidBy(H, q.source, s, attr, X))
          [] q.op = "first_stated" -> ValueOr(FirstStated(H, s, attr, X))
          [] q.op = "known" ->
               IF Known(H, s, attr, X) THEN KnownAs(Current(H, s, attr, X).value) ELSE Unknown
          [] q.op = "status" ->
               [kind |-> "status", value |-> None, status |-> Status(H, s, attr, X)]
          [] q.op = "hop" -> ValueOr(Hop(H, s, attr, X))

\* candidates: what could bear on the answer.
Candidates(H, q) ==
    CASE q.op = "authority" ->
           {a.id : a \in {b \in H : b.subject = q.subject
                                    /\ b.attribute \in {q.attribute, Authority(q.attribute)}}}
      [] q.op = "hop" -> {a.id : a \in {b \in H : \E n \in DOMAIN q.attribute : b.attribute = q.attribute[n]}}
      [] OTHER -> {a.id : a \in {b \in H : About(b, q.subject, q.attribute)}}

\* support_set(...).minimal: every statement that is needed by itself; or, when the
\* answer survives each single loss, all that carry it; or all there is.
Needed(H, q, base) == {id \in Candidates(H, q) : Evaluate(H, q, {id}) # base}
Carriers(H, q, base) ==
    {a.id : a \in {b \in H : /\ b.id \in Candidates(H, q) /\ Asserts(b)
                            /\ base.kind = "value" => b.value = base.value}}
SupportOf(H, q, base, needed) ==
    CASE needed # {} -> needed
      [] needed = {} /\ base.kind = "unknown" -> {}
      [] OTHER -> IF Evaluate(H, q, Carriers(H, q, base)) # base THEN Carriers(H, q, base)
                  ELSE IF Evaluate(H, q, Candidates(H, q)) # base THEN Candidates(H, q) ELSE {}
Support(H, q) ==
    LET base == Evaluate(H, q, {}) IN SupportOf(H, q, base, Needed(H, q, base))

\* leak_free: the answer cannot be derived without the withheld statements.
LeakFree(H, q, X) == Evaluate(H, q, X) # Evaluate(H, q, {})

=============================================================================
