---------------------------- MODULE FrozenInput ----------------------------
(* How a run freezes its input while scenarios and safeguards are edited:   *)
(* the composition of ScenarioReview and SafeguardLifecycle with the reads  *)
(* that CoverageRun takes as one step.  The node is read in between; it has *)
(* no part in the score and is left out.                                    *)
EXTENDS Naturals

CONSTANTS
  Editors,         \* requests of the scenario service
  Maintainers,     \* requests of the safeguard service
  ScenarioIds, SafeguardIds, Users, Fields, Values, Intervals,
  Target,          \* target_scenario_id of each safeguard
  MaxVersion,      \* bound: no change is begun on a scenario of this version
  MaxTime,         \* bound: the last day the clock reaches
  Null

VARIABLES
  scenarios, editing, scenarioAudits,          \* of ScenarioReview
  safeguards, maintaining, safeguardAudits, now, \* of SafeguardLifecycle
  run,             \* the run that freezes its input
  moments          \* what the tables have held since its first read

Review == INSTANCE ScenarioReview
  WITH Requests <- Editors, Engineers <- Users, Reviewers <- Users,
       Interruptible <- {}, rows <- scenarios, request <- editing,
       audits <- scenarioAudits

Lifecycle == INSTANCE SafeguardLifecycle
  WITH Requests <- Maintainers, rows <- safeguards, request <- maintaining,
       audits <- safeguardAudits

reviewVars == <<scenarios, editing, scenarioAudits>>

lifecycleVars == <<safeguards, maintaining, safeguardAudits, now>>

vars == <<reviewVars, lifecycleVars, run, moments>>

Idle == [pc |-> "idle", id |-> Null, scenario |-> Null, safeguards |-> Null]

Init ==
  /\ Review!Init
  /\ Lifecycle!Init
  /\ run = Idle
  /\ moments = {}
----------------------------------------------------------------------------
\* The safeguards of a scenario, all read by one statement.
ListByScenario(s) ==
  [g \in {g \in SafeguardIds : Target[g] = s /\ safeguards[g] # Null} |-> safeguards[g]]

\* What a run that read everything at once would find.
Moment(s) == [scenario |-> scenarios[s], safeguards |-> ListByScenario(s)]

ReadScenario ==
  /\ run.pc = "idle"
  /\ \E s \in ScenarioIds :
       /\ scenarios[s] # Null
       /\ run' = [Idle EXCEPT !.pc = "list", !.id = s, !.scenario = scenarios[s]]
       /\ moments' = {Moment(s)}
  /\ UNCHANGED <<reviewVars, lifecycleVars>>

ReadSafeguards ==
  /\ run.pc = "list"
  /\ run' = [run EXCEPT !.pc = "frozen", !.safeguards = ListByScenario(run.id)]
  /\ UNCHANGED <<reviewVars, lifecycleVars, moments>>

\* The evaluator works on the frozen input alone, and the run ends.
Leave ==
  /\ run.pc = "frozen"
  /\ run' = Idle
  /\ moments' = {}
  /\ UNCHANGED <<reviewVars, lifecycleVars>>

Record ==
  moments' = IF run.pc = "idle" THEN moments ELSE moments \cup {Moment(run.id)'}

EditScenario ==
  /\ Review!Next
  /\ UNCHANGED <<lifecycleVars, run>>
  /\ Record

\* A safeguard is created for a scenario that exists.
ChangeSafeguard ==
  /\ Lifecycle!Next
  /\ \A g \in SafeguardIds :
       safeguards[g] = Null /\ safeguards'[g] # Null => scenarios[Target[g]] # Null
  /\ UNCHANGED <<reviewVars, run>>
  /\ Record

Next == ReadScenario \/ ReadSafeguards \/ Leave \/ EditScenario \/ ChangeSafeguard

Spec == Init /\ [][Next]_vars
----------------------------------------------------------------------------
(* Properties.                                                              *)

\* The input of an evaluation is a scenario with its safeguards as they stood
\* together at some moment of the run.
InputOfOneMoment ==
  run.pc = "frozen" =>
    [scenario |-> run.scenario, safeguards |-> run.safeguards] \in moments
============================================================================
