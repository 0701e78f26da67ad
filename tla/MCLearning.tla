---------------------------- MODULE MCLearning -----------------------------
(***************************************************************************)
(* The shortest programs a profile allows, with few scripts per phase:     *)
(* units whose host works on its procedure, and units in which operations  *)
(* fail.                                                                   *)
(***************************************************************************)
EXTENDS Learning

Call(tool, id) == [type |-> "tool_call", tool |-> tool, id |-> id, arguments |-> "object"]
Finish == [type |-> "final", tool |-> None, id |-> None, arguments |-> None]
Other == [type |-> "message", tool |-> None, id |-> None, arguments |-> None]

MCPhases == [early |-> 2, late |-> 2, retrial |-> 3]

Careful == <<Call("prepare", 1), Call("commit", 2), Finish>>
Direct == <<Call("commit", 1), Finish>>
Stubborn == <<Call("commit", 1), Call("commit", 2), Finish>>
Endless == <<Call("inspect", 1), Call("commit", 2), Call("prepare", 3)>>
Repeats == <<Call("prepare", 1), Call("prepare", 1)>>
Wanders == <<Call("prepare", 1), Call("inspect", 2), Call("inspect", 3)>>
Silent == <<Other>>
Unknown == <<Call("commit", 1), Call("deploy", 2)>>
Overfull == <<[Call("commit", 1) EXCEPT !.arguments = "extra"]>>
Bare == <<[Call("commit", 1) EXCEPT !.arguments = "absent"], Finish>>
BareRepeats == <<[Call("prepare", 1) EXCEPT !.arguments = "absent"], Call("prepare", 1)>>
Unnamed == <<[Call("commit", 1) EXCEPT !.id = None]>>

Scripted(early, late, retrial) ==
    [early |-> early, late |-> late, retrial |-> retrial, post_question |-> late]

Setup(program, mode, scripts, faults, changes) ==
    [program |-> program, mode |-> mode, scripts |-> scripts, answers |-> {"no", "yes", "overflow"},
     faults |-> faults, changes |-> changes, changes_from |-> 2,
     skill |-> NoSkill, earlier |-> {}, next |-> 1]

Standing(status) == [status |-> status, trial |-> 1, evaluation |-> 2]
WithSkill(setup_, status) == [setup_ EXCEPT !.skill = Standing(status), !.next = 3]

\* The host keeps the adopted revision that was there before.
WithEarlier(setup_) ==
    [setup_ EXCEPT !.earlier = {[Standing("adopted") EXCEPT !.trial = 3, !.evaluation = 4]},
                   !.next = 5]

Misconduct == {Direct, Repeats, Silent, Unknown, Overfull, Unnamed, Wanders, Stubborn, Endless,
               Bare, BareRepeats}

MCSetups ==
    {WithSkill(Setup(p, "normal", Scripted({Careful}, {Careful, Repeats}, {Careful}), 0, 3), s) :
        p \in {"wrong_generalization", "unannounced_drift"}, s \in {"adopted", "revoked"}}
    \cup {WithEarlier(WithSkill(Setup("wrong_generalization", "normal",
                                     Scripted({Careful}, {Careful}, {Careful}), 0, 3), "adopted"))}
    \cup {WithSkill(Setup("wrong_generalization", "ungated",
                          Scripted({Careful}, {Careful}, {Direct}), 1, 1), "adopted")}
    \cup {Setup("unannounced_drift", "no_memory",
                Scripted({Stubborn}, {Direct, Endless}, {Wanders}), 2, 0)}
    \cup {Setup("wrong_generalization", "normal", Scripted({s}, {s}, {s}), 1, 0) : s \in Misconduct}
    \cup {Setup("question_contamination", m, Scripted({}, Misconduct, {}), 1, 1) :
             m \in {"normal", "no_memory"}}
    \cup {[Setup("question_contamination", "normal", Scripted({}, {Direct}, {}), 2, 0)
             EXCEPT !.changes_from = 1]}

============================================================================
