------------------------------ MODULE Simulator -----------------------------
(***************************************************************************)
(* The simulators a lived task runs against (world.py): the workflow that  *)
(* records the first recipe it is given, and the deployment.  A result is  *)
(* what the Agent is told; required is the corrective feedback.            *)
(***************************************************************************)
EXTENDS Absent, Integers, Sequences

Workflow(family, series, recipe) ==
    [family |-> family, series |-> series, recipe |-> recipe,
     attempts |-> 0, first |-> None, completed |-> FALSE]

Deployment == [actual |-> "target", selected |-> "target", applied |-> TRUE, running |-> FALSE,
               error |-> None]

Idle == [workflow |-> Workflow(None, None, <<>>), deployment |-> Deployment]

Result(ok, error) == [ok |-> ok, error |-> error, family |-> None, series |-> None, required |-> None]

\* mib.workflow.v1 submit.
Submit(world, recipe) ==
    LET s == world.workflow correct == recipe = s.recipe
    IN  [world |-> [world EXCEPT !.workflow =
                       [s EXCEPT !.first = IF s.attempts = 0 THEN recipe ELSE @,
                                 !.attempts = @ + 1, !.completed = correct]],
         result |-> [Result(correct, IF correct THEN None ELSE "recipe_mismatch") EXCEPT
                        !.family = s.family, !.series = s.series,
                        !.required = IF correct THEN None ELSE s.recipe]]

\* _exec_deployment run_migration: only on the selected target.
Migrate(world) ==
    LET s == world.deployment right == s.selected = s.actual
    IN  [world |-> [world EXCEPT !.deployment =
                       [s EXCEPT !.applied = right, !.error = IF right THEN None ELSE "wrong_target"]],
         result |-> Result(right, IF right THEN None ELSE "wrong_target")]

\* _exec_deployment restart_service: only after the migration.
Restart(world) ==
    LET s == world.deployment
    IN  [world |-> [world EXCEPT !.deployment =
                       [s EXCEPT !.running = s.applied, !.error = IF s.applied THEN None ELSE "missing_column"]],
         result |-> Result(s.applied, IF s.applied THEN None ELSE "missing_column")]

\* execute_tool.
Execute(world, call) ==
    CASE call.tool = "submit" -> Submit(world, call.recipe)
      [] call.tool = "migrate" -> Migrate(world)
      [] call.tool = "restart" -> Restart(world)

=============================================================================
