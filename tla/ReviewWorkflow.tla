--------------------------- MODULE ReviewWorkflow ---------------------------
(* What the deviation scenario service promises: scenarios that change in   *)
(* single indivisible steps, each allowed by the scenario as it is at that  *)
(* moment, and nothing of requests, reads or versions sent by clients.      *)
EXTENDS Naturals

CONSTANTS ScenarioIds, Engineers, Reviewers, Content, Null

VARIABLE scenarios

WorkflowInit == scenarios = [s \in ScenarioIds |-> Null]

\* The scenario s is there and in one of these states.
In(s, states) == scenarios[s] # Null /\ scenarios[s].state \in states

Draft(s) ==
  /\ scenarios[s] = Null
  /\ \E u \in Engineers, c \in Content :
       scenarios' = [scenarios EXCEPT ![s] =
         [content |-> c, state |-> "draft", version |-> 1,
          createdBy |-> u, reviewedBy |-> Null]]

Edit(s) ==
  /\ In(s, {"draft", "rework"})
  /\ \E c \in Content :
       scenarios' = [scenarios EXCEPT ![s].content = c, ![s].version = @ + 1]

Submit(s) ==
  /\ In(s, {"draft", "rework"})
  /\ scenarios' = [scenarios EXCEPT ![s].state = "analyzed", ![s].version = @ + 1]

\* The next step of the review, by someone other than the author.
Review(s, from, to) ==
  /\ In(s, {from})
  /\ \E u \in Reviewers \ {scenarios[s].createdBy} :
       scenarios' = [scenarios EXCEPT ![s].state = to, ![s].version = @ + 1,
                                      ![s].reviewedBy = u]

Rework(s) ==
  /\ In(s, {"analyzed", "verified"})
  /\ scenarios' = [scenarios EXCEPT ![s].state = "rework", ![s].version = @ + 1]

WorkflowNext == \E s \in ScenarioIds :
  \/ Draft(s) \/ Edit(s) \/ Submit(s) \/ Rework(s)
  \/ Review(s, "analyzed", "verified") \/ Review(s, "verified", "accepted")

WorkflowSpec == WorkflowInit /\ [][WorkflowNext]_scenarios
============================================================================
