------------------------- MODULE FrozenInputProofs -------------------------
(* Theorems about FrozenInput: what does hold of the input a run freezes,   *)
(* for any number of editors, maintainers, scenarios and safeguards.        *)
EXTENDS FrozenInput, TLAPS

\* What has been proved of the scenario service, as it occurs here.
Proven == INSTANCE ScenarioReviewProofs
  WITH Requests <- Editors, Engineers <- Users, Reviewers <- Users,
       Interruptible <- {}, rows <- scenarios, request <- editing,
       audits <- scenarioAudits

\* The assumptions of the scenario service about its constants, as they read
\* here; those about roles and interruptions hold by the substitution.
Constants == Proven!VersionAssumption /\ Proven!NullAssumption

FrozenPair == [scenario |-> run.scenario, safeguards |-> run.safeguards]

\* A run that, at its end, would find the scenario with the version it froze,
\* has frozen an input the tables held at one moment.
OneMomentIfUnchanged ==
  run.pc = "frozen" /\ scenarios[run.id].version = run.scenario.version
    => FrozenPair \in moments

\* Each half of the frozen input was in the tables at some moment of the run.
HalvesOfMoments ==
  run.pc = "frozen" =>
    /\ \E m \in moments : m.scenario = run.scenario
    /\ \E m \in moments : m.safeguards = run.safeguards

\* What the run knows: the scenario it holds is a version of the row, and the
\* present moment is on record.
RunOK ==
  /\ run = [pc |-> run.pc, id |-> run.id, scenario |-> run.scenario,
            safeguards |-> run.safeguards]
  /\ run.pc \in {"idle", "list", "frozen"}
  /\ run.pc # "idle" =>
       /\ run.id \in ScenarioIds /\ scenarios[run.id] # Null
       /\ Proven!IsVersionOf(run.scenario, run.id)
       /\ Moment(run.id) \in moments
       /\ \E m \in moments : m.scenario = run.scenario
  /\ run.pc = "frozen" =>
       /\ \E m \in moments : m.safeguards = run.safeguards
       /\ run.scenario.version = scenarios[run.id].version => FrozenPair \in moments

Inv == Proven!TypeInv /\ RunOK
----------------------------------------------------------------------------
\* The two instances of the scenario service name the same actions.
LEMMA SameSteps == Review!Next => Proven!Next
BY Zenon DEF Review!Next, Proven!Next,
  Review!BeginCreate, Proven!BeginCreate, Review!BeginTransition, Proven!BeginTransition,
  Review!OpenForm, Proven!OpenForm, Review!LoadList, Proven!LoadList,
  Review!SaveForm, Proven!SaveForm, Review!CancelForm, Proven!CancelForm,
  Review!NodeRefuses, Proven!NodeRefuses, Review!InsertScenario, Proven!InsertScenario,
  Review!ReadForUpdate, Proven!ReadForUpdate,
  Review!UpdateWithVersion, Proven!UpdateWithVersion,
  Review!ReadForTransition, Proven!ReadForTransition, Review!Transition, Proven!Transition,
  Review!RecordAudit, Proven!RecordAudit, Review!Interrupt, Proven!Interrupt,
  Review!Idle, Proven!Idle, Review!Finish, Proven!Finish,
  Review!BackToForm, Proven!BackToForm, Review!NewRow, Proven!NewRow,
  Review!Editable, Proven!Editable, Review!Transitions, Proven!Transitions,
  Review!CanTransition, Proven!CanTransition, Review!IsReview, Proven!IsReview,
  Review!MayRequest, Proven!MayRequest,
  Review!ReviewerSeparated, Proven!ReviewerSeparated,
  Review!Overlay, Proven!Overlay, Review!Matches, Proven!Matches,
  Review!Updated, Proven!Updated, Review!Moved, Proven!Moved,
  Review!AuditOf, Proven!AuditOf, Review!Content, Proven!Content,
  Review!States, Proven!States, Review!Edits, Proven!Edits

\* The assumptions of the scenario service hold under Constants.
LEMMA Assumed ==
  ASSUME Constants
  PROVE  /\ Proven!RoleAssumption /\ Proven!VersionAssumption
         /\ Proven!NullAssumption /\ Proven!InterruptibleAssumption
BY DEF Constants, Proven!RoleAssumption, Proven!InterruptibleAssumption

\* A step of the scenario service keeps its invariant and advances its table.
LEMMA ReviewStep ==
  ASSUME Constants, Proven!TypeInv, Review!Next \/ UNCHANGED reviewVars
  PROVE  Proven!TypeInv' /\ Proven!Advances
<1>1. [Proven!Next]_(Proven!vars)
  BY SameSteps DEF reviewVars, Proven!vars
<1>. QED BY <1>1, Assumed, Proven!TypeInvNext, Proven!AdvancesNext

\* Before the first request there is no run and no row.
LEMMA InvInit == Constants /\ Init => Inv
<1>. SUFFICES ASSUME Constants, Init PROVE Inv
  OBVIOUS
<1>1. Proven!Init
  BY DEF Init, Review!Init, Proven!Init, Review!Idle, Proven!Idle
<1>2. Proven!TypeInv
  BY <1>1, Assumed, Proven!TypeInvInit
<1>3. RunOK
  BY DEF Init, Idle, RunOK
<1>. QED BY <1>2, <1>3 DEF Inv

\* The first read finds a row, and the moment is put on record.
LEMMA InvReadScenario ==
  ASSUME Constants, Inv, ReadScenario
  PROVE  RunOK'
<1>1. PICK s \in ScenarioIds :
        /\ scenarios[s] # Null
        /\ run' = [Idle EXCEPT !.pc = "list", !.id = s, !.scenario = scenarios[s]]
        /\ moments' = {Moment(s)}
  BY DEF ReadScenario
<1>2. UNCHANGED <<scenarios, safeguards>>
  BY DEF ReadScenario, reviewVars, lifecycleVars
<1>3. run' = [pc |-> "list", id |-> s, scenario |-> scenarios[s], safeguards |-> Null]
  BY <1>1 DEF Idle
<1>4. Moment(s)' = Moment(s) /\ Moment(s).scenario = scenarios[s]
  BY <1>2 DEF Moment, ListByScenario
<1>5. scenarios[s] \in Proven!Row /\ scenarios[s].version \in Nat
  <2>1. scenarios[s] \in Proven!Row
    BY <1>1 DEF Inv, Proven!TypeInv, Proven!TypeOK
  <2>. QED BY <2>1 DEF Constants, Proven!VersionAssumption, Proven!Row
<1>6. Proven!IsVersionOf(scenarios[s], s)
  BY <1>5 DEF Proven!IsVersionOf
<1>7. Proven!IsVersionOf(run.scenario, run.id)'
  BY <1>2, <1>3, <1>6 DEF Proven!IsVersionOf
<1>8. Moment(run.id)' \in moments' /\ \E m \in moments' : m.scenario = run'.scenario
  <2>1. Moment(run.id)' = Moment(s)
    BY <1>2, <1>3 DEF Moment, ListByScenario
  <2>. QED BY <1>1, <1>3, <1>4, <2>1
<1>. QED BY <1>1, <1>2, <1>3, <1>7, <1>8 DEF RunOK

\* The second read: if the scenario still has the version that was read, it is
\* the row that was read, and the pair is the present moment.
LEMMA InvReadSafeguards ==
  ASSUME Constants, Inv, ReadSafeguards
  PROVE  RunOK'
<1>. DEFINE gs == ListByScenario(run.id)
<1>1. /\ run.pc = "list" /\ RunOK
      /\ UNCHANGED <<scenarios, safeguards, moments>>
      /\ run' = [run EXCEPT !.pc = "frozen", !.safeguards = gs]
  BY DEF ReadSafeguards, reviewVars, lifecycleVars, Inv
<1>. HIDE DEF gs
<1>2. run' = [pc |-> "frozen", id |-> run.id, scenario |-> run.scenario, safeguards |-> gs]
  BY <1>1 DEF RunOK
<1>3. /\ run.id \in ScenarioIds /\ scenarios[run.id] # Null
      /\ Proven!IsVersionOf(run.scenario, run.id)
      /\ Moment(run.id) \in moments
      /\ \E m \in moments : m.scenario = run.scenario
  BY <1>1 DEF RunOK
<1>4. Moment(run.id) = [scenario |-> scenarios[run.id], safeguards |-> gs]
  BY DEF Moment, gs
<1>5. Proven!IsVersionOf(run.scenario, run.id)' /\ Moment(run.id)' \in moments'
  BY <1>1, <1>2, <1>3 DEF Proven!IsVersionOf, Moment, ListByScenario
<1>6. \E m \in moments' : m.safeguards = run'.safeguards
  BY <1>1, <1>2, <1>3, <1>4
<1>7. ASSUME run.scenario.version = scenarios[run.id].version
      PROVE  FrozenPair' \in moments'
  <2>1. run.scenario = scenarios[run.id]
    BY <1>3, <1>7 DEF Proven!IsVersionOf
  <2>2. FrozenPair' = [scenario |-> scenarios[run.id], safeguards |-> gs]
    BY <1>2, <2>1 DEF FrozenPair
  <2>. QED BY <1>1, <1>3, <1>4, <2>2
<1>. QED BY <1>1, <1>2, <1>3, <1>5, <1>6, <1>7 DEF RunOK

\* While the run waits the tables advance: a copy whose version is current has
\* always been current, so what was on record stays enough.
LEMMA InvOthers ==
  ASSUME Constants, Inv, EditScenario \/ ChangeSafeguard
  PROVE  RunOK'
<1>1. /\ RunOK /\ UNCHANGED run /\ Record
      /\ Proven!TypeInv /\ Proven!TypeInv' /\ Proven!Advances
  BY ReviewStep DEF Inv, EditScenario, ChangeSafeguard
<1>2. CASE run.pc = "idle"
  BY <1>1, <1>2 DEF RunOK
<1>3. CASE run.pc # "idle"
  <2>. DEFINE s == run.id
              copy == run.scenario
  <2>1. /\ s \in ScenarioIds /\ scenarios[s] # Null /\ Proven!IsVersionOf(copy, s)
        /\ run'.pc = run.pc /\ run'.id = s /\ run'.scenario = copy
        /\ run'.safeguards = run.safeguards
    BY <1>1, <1>3 DEF RunOK
  <2>2. moments' = moments \cup {Moment(run.id)'}
    BY <1>1, <1>3 DEF Record
  <2>3. /\ scenarios'[s] # Null
        /\ scenarios'[s] = scenarios[s] \/ scenarios'[s].version > scenarios[s].version
    BY <1>1, <2>1 DEF Proven!Advances
  <2>4. /\ copy.version \in Nat /\ scenarios[s].version \in Nat
        /\ scenarios'[s].version \in Nat /\ copy \in Proven!Row
    <3>1. /\ copy \in Proven!Row /\ scenarios[s] \in Proven!Row
          /\ scenarios'[s] \in Proven!Row
      BY <1>1, <2>1, <2>3 DEF Proven!IsVersionOf, Proven!TypeInv, Proven!TypeOK
    <3>. QED BY <3>1 DEF Constants, Proven!VersionAssumption, Proven!Row
  <2>. HIDE DEF s, copy
  <2>5. /\ copy.version <= scenarios'[s].version
        /\ copy.version = scenarios'[s].version =>
             copy = scenarios'[s] /\ copy.version = scenarios[s].version
    BY <2>1, <2>3, <2>4 DEF Proven!IsVersionOf
  <2>6. Proven!IsVersionOf(run.scenario, run.id)'
    BY <2>1, <2>4, <2>5 DEF Proven!IsVersionOf
  <2>7. FrozenPair' = FrozenPair
    BY <1>1 DEF FrozenPair
  <2>8. run.pc = "frozen" /\ copy.version = scenarios'[s].version =>
          FrozenPair' \in moments'
    BY <1>1, <2>2, <2>5, <2>7 DEF RunOK, s, copy
  <2>9. /\ \E m \in moments' : m.scenario = copy
        /\ run.pc = "frozen" => \E m \in moments' : m.safeguards = run.safeguards
    BY <1>1, <1>3, <2>2 DEF RunOK, copy
  <2>. QED BY <1>1, <2>1, <2>2, <2>3, <2>6, <2>8, <2>9 DEF RunOK
<1>. QED BY <1>2, <1>3

\* The run, the two services and what they share keep the invariant.
LEMMA InvNext == Constants /\ Inv /\ [Next]_vars => Inv'
<1>. SUFFICES ASSUME Constants, Inv, [Next]_vars PROVE Inv'
  OBVIOUS
<1>1. Proven!TypeInv'
  <2>1. Review!Next \/ UNCHANGED reviewVars
    BY DEF Next, ReadScenario, ReadSafeguards, Leave, EditScenario, ChangeSafeguard, vars
  <2>. QED BY <2>1, ReviewStep DEF Inv
<1>2. CASE Leave
  BY <1>1, <1>2 DEF Leave, RunOK, Idle, Inv
<1>3. CASE UNCHANGED vars
  <2>1. UNCHANGED <<scenarios, safeguards, run, moments>>
    BY <1>3 DEF vars, reviewVars, lifecycleVars
  <2>. QED BY <1>1, <2>1 DEF Inv, RunOK, FrozenPair, Moment, ListByScenario,
              Proven!IsVersionOf
<1>. QED BY <1>1, <1>2, <1>3, InvReadScenario, InvReadSafeguards, InvOthers
     DEF Inv, Next

\* The remedy for what FrozenInputMoment shows: a run that compared versions
\* once more after its last read would never freeze a mixed input.  The
\* version of the scenario is enough, although safeguards have none.
THEOREM UnchangedVersionSuffices ==
  ASSUME Constants
  PROVE  Spec => []OneMomentIfUnchanged
<1>1. Inv => OneMomentIfUnchanged
  BY DEF Inv, RunOK, OneMomentIfUnchanged
<1>. QED BY <1>1, InvInit, InvNext, PTL DEF Spec

\* Without that check the input is mixed of moments, but never of anything
\* else: the scenario and the list of safeguards each were in the tables.
THEOREM HalvesAreReal ==
  ASSUME Constants
  PROVE  Spec => []HalvesOfMoments
<1>1. Inv => HalvesOfMoments
  BY DEF Inv, RunOK, HalvesOfMoments
<1>. QED BY <1>1, InvInit, InvNext, PTL DEF Spec
============================================================================
