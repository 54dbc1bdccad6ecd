-------------------------- MODULE AgentRunnerProofs --------------------------
(***************************************************************************)
(* The budget and the audit trail of the agent, proved for any number of   *)
(* requests, tools and allowed attempts.                                   *)
(***************************************************************************)
EXTENDS AgentRunner, TLAPS

USE AgentAssumption

\* What Append does to a sequence.
LEMMA AppendFacts ==
    ASSUME NEW S, NEW s \in Seq(S), NEW e \in S
    PROVE  /\ Append(s, e) \in Seq(S)
           /\ Len(Append(s, e)) = Len(s) + 1
           /\ \A k \in 1 .. Len(s) : Append(s, e)[k] = s[k]
           /\ Append(s, e)[Len(s) + 1] = e
OBVIOUS

\* The initial state satisfies the invariant.
LEMMA InitInv == Init => AgentInv
BY DEF Init, AgentInv, TypeOK, Budget, WithinBudget, TrailTellsSteps, TrailEnd, TellsSteps, EndsAs,
       Statuses, NoTool, Finish, Conclude

\* Every step keeps the types.
LEMMA TypeStep == TypeOK /\ Budget /\ [Next]_vars => TypeOK'
<1> SUFFICES ASSUME TypeOK, Budget, [Next]_vars PROVE TypeOK'
    OBVIOUS
<1> USE DEF TypeOK
<1>1. ASSUME NEW r \in Runs, Begin(r) PROVE TypeOK'
  <2>1. Started \in AuditEvent
      BY DEF Started, Event, AuditEvent
  <2>2. audit' \in [Runs -> Seq(AuditEvent)]
      BY <1>1, <2>1, AppendFacts DEF Begin, Audit
  <2> QED BY <1>1, <2>2 DEF Begin, Goto
<1>2. ASSUME NEW r \in Runs, NEW action \in Names \union {Finish}, Decide(r, action)
      PROVE TypeOK'
    BY <1>2 DEF Decide, AskModel, Goto
<1>3. ASSUME NEW r \in Runs, Summarise(r) PROVE TypeOK'
    BY <1>3 DEF Summarise, AskModel, Goto
<1>9. ASSUME NEW r \in Runs, ModelFails(r) PROVE TypeOK'
    BY <1>9 DEF ModelFails, AskModel, Goto
<1>4. ASSUME NEW r \in Runs, Answer(r) PROVE TypeOK'
  <2>1. Finished(Reason(decision[r]), Len(steps[r])) \in AuditEvent
      BY DEF Finished, Reason, Reasons, Event, AuditEvent
  <2>2. audit' \in [Runs -> Seq(AuditEvent)]
      BY <1>4, <2>1, AppendFacts DEF Answer, Audit
  <2> QED BY <1>4, <2>2 DEF Answer, Goto
<1>12. ASSUME NEW r \in Runs, Reply(r) PROVE TypeOK'
    BY <1>12 DEF Reply, Reason, Reasons, Respond, Goto
<1>10. ASSUME NEW r \in Runs, Fail(r) PROVE TypeOK'
  <2>1. Failed(Len(steps[r])) \in AuditEvent
      BY DEF Failed, Event, AuditEvent
  <2>2. audit' \in [Runs -> Seq(AuditEvent)]
      BY <1>10, <2>1, AppendFacts DEF Fail, Audit
  <2> QED BY <1>10, <2>2 DEF Fail, Goto
<1>13. ASSUME NEW r \in Runs, Refuse(r) PROVE TypeOK'
    BY <1>13 DEF Refuse, Respond, Goto
<1>5. ASSUME NEW r \in Runs, CallTool(r) PROVE TypeOK'
  <2>1. Called(decision[r]) \in AuditEvent
      BY <1>5 DEF CallTool, Called, Event, AuditEvent
  <2>2. audit' \in [Runs -> Seq(AuditEvent)]
      BY <1>5, <2>1, AppendFacts DEF CallTool, Audit
  <2> QED BY <1>5, <2>2 DEF CallTool, Goto
<1>6. ASSUME NEW r \in Runs, NEW status \in Statuses, Observe(r, status) PROVE TypeOK'
  <2> DEFINE step == [tool |-> decision[r], status |-> status]
  <2>1. step \in Step
      BY <1>6 DEF Observe, Step
  <2> HIDE DEF step
  <2>2. steps' = [steps EXCEPT ![r] = Append(@, step)]
      BY <1>6 DEF Observe, step
  <2>3. steps' \in [Runs -> Seq(Step)]
      BY <2>1, <2>2, AppendFacts
  <2> QED BY <1>6, <2>3 DEF Observe, Goto
<1>14. ASSUME NEW r \in Runs, AuditStep(r) PROVE TypeOK'
  <2>1. steps[r][Len(steps[r])] \in Step
      BY <1>14 DEF AuditStep, Budget
  <2>2. Observed(steps[r][Len(steps[r])]) \in AuditEvent
      BY <2>1 DEF Observed, Step, Event, AuditEvent
  <2>3. audit' \in [Runs -> Seq(AuditEvent)]
      BY <1>14, <2>2, AppendFacts DEF AuditStep, Audit
  <2> QED BY <1>14, <2>3 DEF AuditStep, AfterStep, Goto
<1>7. ASSUME NEW r \in Runs, ToolRaises(r) PROVE TypeOK'
    BY <1>7 DEF ToolRaises, Respond, Goto
<1>11. ASSUME NEW r \in Runs, Interrupted(r) PROVE TypeOK'
    BY <1>11 DEF Interrupted, Respond, Goto
<1>8. CASE UNCHANGED vars
    BY <1>8 DEF vars
<1> QED BY <1>1, <1>2, <1>3, <1>4, <1>5, <1>6, <1>7, <1>8,
          <1>9, <1>10, <1>11, <1>12, <1>13, <1>14 DEF Next, Advance

\* Every step keeps the attempts and the calls of the model within bounds.
LEMMA BudgetStep ==
    TypeOK /\ Budget /\ WithinBudget /\ [Next]_vars => Budget' /\ WithinBudget'
<1> SUFFICES ASSUME TypeOK, Budget, WithinBudget, [Next]_vars
             PROVE  Budget' /\ WithinBudget'
    OBVIOUS
<1> USE DEF TypeOK, Budget, WithinBudget
<1>1. ASSUME NEW r \in Runs, Begin(r) PROVE Budget' /\ WithinBudget'
    BY <1>1 DEF Begin, Goto
<1>2. ASSUME NEW r \in Runs, NEW action \in Names \union {Finish}, Decide(r, action)
      PROVE Budget' /\ WithinBudget'
  <2>0. Finish # Conclude
      BY DEF Conclude, Finish
  <2>1. action # Conclude
      BY <2>0, AgentAssumption
  <2>2. /\ pc[r] = "decide" /\ pc'[r] = "decided" /\ decision'[r] = action
        /\ asked'[r] = asked[r] + 1 /\ steps' = steps /\ response' = response
        /\ \A q \in Runs : q # r => /\ pc'[q] = pc[q] /\ decision'[q] = decision[q]
                                  /\ asked'[q] = asked[q]
      BY <1>2 DEF Decide, AskModel, Goto
  <2>3. Len(steps[r]) < MaxToolCalls /\ asked[r] = Len(steps[r]) /\ Len(steps[r]) \in Nat
      BY <2>2
  <2>4. Budget'
      BY <2>1, <2>2, <2>3
  <2>5. ASSUME NEW q \in Runs
        PROVE  /\ Len(steps'[q]) =< MaxToolCalls
               /\ asked'[q] =< Len(steps'[q]) + 1
               /\ response'[q] = "limit" => Len(steps'[q]) = MaxToolCalls
    <3>1. CASE q = r
        BY <2>2, <2>3, <3>1
    <3>2. CASE q # r
        BY <2>2, <3>2
    <3> QED BY <3>1, <3>2
  <2> QED BY <2>4, <2>5
<1>3. ASSUME NEW r \in Runs, Summarise(r) PROVE Budget' /\ WithinBudget'
    BY <1>3 DEF Summarise, AskModel, Goto
<1>9. ASSUME NEW r \in Runs, ModelFails(r) PROVE Budget' /\ WithinBudget'
    BY <1>9 DEF ModelFails, AskModel, Goto
<1>4. ASSUME NEW r \in Runs, Answer(r) PROVE Budget' /\ WithinBudget'
    BY <1>4 DEF Answer, Goto
<1>12. ASSUME NEW r \in Runs, Reply(r) PROVE Budget' /\ WithinBudget'
    BY <1>12 DEF Reply, Reason, Respond, Goto
<1>10. ASSUME NEW r \in Runs, Fail(r) PROVE Budget' /\ WithinBudget'
    BY <1>10 DEF Fail, Goto
<1>13. ASSUME NEW r \in Runs, Refuse(r) PROVE Budget' /\ WithinBudget'
    BY <1>13 DEF Refuse, Respond, Goto
<1>5. ASSUME NEW r \in Runs, CallTool(r) PROVE Budget' /\ WithinBudget'
    BY <1>5 DEF CallTool, Goto, Conclude
<1>6. ASSUME NEW r \in Runs, NEW status \in Statuses, Observe(r, status)
      PROVE Budget' /\ WithinBudget'
  <2> DEFINE step == [tool |-> decision[r], status |-> status]
  <2>1. step \in Step
      BY <1>6 DEF Observe, Step
  <2> HIDE DEF step
  <2>2. steps' = [steps EXCEPT ![r] = Append(@, step)]
      BY <1>6 DEF Observe, step
  <2>3. /\ Len(steps'[r]) = Len(steps[r]) + 1
        /\ \A q \in Runs : q # r => steps'[q] = steps[q]
      BY <2>1, <2>2, AppendFacts
  <2> QED BY <1>6, <2>3 DEF Observe, Goto
<1>14. ASSUME NEW r \in Runs, AuditStep(r) PROVE Budget' /\ WithinBudget'
    BY <1>14 DEF AuditStep, AfterStep, Goto
<1>7. ASSUME NEW r \in Runs, ToolRaises(r) PROVE Budget' /\ WithinBudget'
    BY <1>7 DEF ToolRaises, Respond, Goto
<1>11. ASSUME NEW r \in Runs, Interrupted(r) PROVE Budget' /\ WithinBudget'
    BY <1>11 DEF Interrupted, Respond, Goto
<1>8. CASE UNCHANGED vars
    BY <1>8 DEF vars
<1> QED BY <1>1, <1>2, <1>3, <1>4, <1>5, <1>6, <1>7, <1>8,
          <1>9, <1>10, <1>11, <1>12, <1>13, <1>14 DEF Next, Advance

\* An event more after the outcome of the last step, and the trail tells the
\* same steps.
LEMMA TellsAppend ==
    ASSUME NEW trail \in Seq(AuditEvent), NEW done \in Seq(Step), NEW e \in AuditEvent,
           TellsSteps(trail, done),
           Len(trail) > 2 * Len(done) \/ e = Observed(done[Len(done)])
    PROVE  TellsSteps(Append(trail, e), done)
<1> DEFINE longer == Append(trail, e)
<1>1. /\ Len(longer) = Len(trail) + 1
      /\ longer[Len(trail) + 1] = e
      /\ \A k \in 1 .. Len(trail) : longer[k] = trail[k]
    BY AppendFacts
<1> HIDE DEF longer
<1>2. /\ Len(done) \in Nat /\ Len(trail) \in Nat
      /\ Len(trail) >= 1 /\ Len(trail) >= 2 * Len(done)
    BY DEF TellsSteps
<1>3. ASSUME NEW k \in 1 .. Len(done)
      PROVE  /\ longer[2 * k] = Called(done[k].tool)
             /\ 2 * k + 1 =< Len(trail) + 1 => longer[2 * k + 1] = Observed(done[k])
  <2>1. 2 * k \in 1 .. Len(trail)
      BY <1>2
  <2>2. longer[2 * k] = Called(done[k].tool)
      BY <1>1, <2>1 DEF TellsSteps
  <2>3. CASE 2 * k + 1 =< Len(trail)
    <3>1. 2 * k + 1 \in 1 .. Len(trail)
        BY <1>2, <2>3
    <3> QED BY <1>1, <2>2, <2>3, <3>1 DEF TellsSteps
  <2>4. CASE 2 * k + 1 = Len(trail) + 1
    <3>1. k = Len(done) /\ ~ (Len(trail) > 2 * Len(done))
        BY <1>2, <2>4
    <3> QED BY <1>1, <2>2, <2>4, <3>1
  <2> QED BY <1>2, <2>2, <2>3, <2>4
<1>4. 1 \in 1 .. Len(trail)
    BY <1>2
<1>5. longer[1] = Started
    BY <1>1, <1>4 DEF TellsSteps
<1>6. Len(longer) >= 1 /\ Len(longer) >= 2 * Len(done)
    BY <1>1, <1>2
<1>7. ASSUME NEW k \in 1 .. Len(done)
      PROVE  /\ longer[2 * k] = Called(done[k].tool)
             /\ 2 * k + 1 =< Len(longer) => longer[2 * k + 1] = Observed(done[k])
    BY <1>1, <1>3, <1>7
<1>8. TellsSteps(longer, done)
    BY <1>5, <1>6, <1>7 DEF TellsSteps
<1> QED BY <1>8 DEF longer

\* A step of the call at the end of the trail, its outcome not yet written.
LEMMA TellsNextStep ==
    ASSUME NEW trail \in Seq(AuditEvent), NEW done \in Seq(Step), NEW step \in Step,
           TellsSteps(trail, done),
           Len(trail) = 2 * Len(done) + 2,
           trail[Len(trail)] = Called(step.tool)
    PROVE  TellsSteps(trail, Append(done, step))
<1> DEFINE more == Append(done, step)
<1>1. /\ Len(more) = Len(done) + 1
      /\ more[Len(done) + 1] = step
      /\ \A k \in 1 .. Len(done) : more[k] = done[k]
    BY AppendFacts
<1>2. Len(done) \in Nat
    OBVIOUS
<1> HIDE DEF more
<1>3. ASSUME NEW k \in 1 .. Len(more)
      PROVE  /\ trail[2 * k] = Called(more[k].tool)
             /\ 2 * k + 1 =< Len(trail) => trail[2 * k + 1] = Observed(more[k])
  <2>1. CASE k \in 1 .. Len(done)
      BY <1>1, <2>1 DEF TellsSteps
  <2>2. CASE k = Len(done) + 1
    <3>1. 2 * k = Len(trail) /\ ~ (2 * k + 1 =< Len(trail))
        BY <1>2, <2>2
    <3> QED BY <1>1, <2>2, <3>1
  <2> QED BY <1>1, <1>2, <2>1, <2>2
<1>4. TellsSteps(trail, more)
    BY <1>1, <1>2, <1>3 DEF TellsSteps
<1> QED BY <1>4 DEF more

\* What appending an event to the trail of r does to all trails.
LEMMA AuditFacts ==
    ASSUME TypeOK, NEW r \in Runs, NEW e \in AuditEvent, Audit(r, e)
    PROVE  /\ audit'[r] = Append(audit[r], e)
           /\ Len(audit'[r]) = Len(audit[r]) + 1
           /\ audit'[r][Len(audit'[r])] = e
           /\ \A q \in Runs : q # r => audit'[q] = audit[q]
<1>1. audit \in [Runs -> Seq(AuditEvent)]
    BY DEF TypeOK
<1>2. audit'[r] = Append(audit[r], e) /\ \A q \in Runs : q # r => audit'[q] = audit[q]
    BY <1>1 DEF Audit
<1> QED BY <1>1, <1>2, AppendFacts

\* The events the actions write are audit events.
LEMMA EventTypes ==
    /\ Started \in AuditEvent
    /\ \A tool \in Names : Called(tool) \in AuditEvent
    /\ \A step \in Step : Observed(step) \in AuditEvent
    /\ \A n \in Nat : Failed(n) \in AuditEvent
    /\ \A n \in Nat : \A action : Finished(Reason(action), n) \in AuditEvent
BY DEF Started, Called, Observed, Finished, Failed, Reason, Reasons, Event, AuditEvent, Step

Trail == TrailTellsSteps /\ TrailEnd

\* What EndsAs says of the length of a trail and of its last event.
LEMMA EndParts ==
    ASSUME NEW trail \in Seq(AuditEvent), NEW done \in Seq(Step), NEW label, NEW action,
           NEW answer, EndsAs(trail, done, label, action, answer)
    PROVE  /\ label = "execute" => trail[Len(trail)] = Called(action)
           /\ label # "observed" /\ answer # "lost" => Len(trail) > 2 * Len(done)
<1>1. Len(trail) \in Nat /\ Len(done) \in Nat
    OBVIOUS
<1> QED BY <1>1 DEF EndsAs

\* The trails of the next state are truthful if they tell the steps and end so.
LEMMA TrailNext ==
    ASSUME TypeOK', Budget',
           \A r \in Runs : pc'[r] = "idle" => audit'[r] = <<>>,
           \A r \in Runs : pc'[r] # "idle" =>
               /\ TellsSteps(audit'[r], steps'[r])
               /\ EndsAs(audit'[r], steps'[r], pc'[r], decision'[r], response'[r])
    PROVE  Trail'
<1>1. ASSUME NEW r \in Runs, pc'[r] # "idle"
      PROVE  /\ pc'[r] = "execute" => audit'[r][Len(audit'[r])] = Called(decision'[r])
             /\ pc'[r] # "observed" /\ response'[r] # "lost" =>
                    Len(audit'[r]) > 2 * Len(steps'[r])
  <2>1. audit'[r] \in Seq(AuditEvent) /\ steps'[r] \in Seq(Step)
      BY DEF TypeOK
  <2> QED BY <1>1, <2>1, EndParts
<1> QED BY <1>1 DEF Trail, TrailTellsSteps, TrailEnd, Budget

\* A step of r that leaves every trail and the steps as they are.
LEMMA SameTrail ==
    ASSUME TypeOK, TypeOK', Budget', Trail, NEW r \in Runs,
           pc[r] # "idle", pc'[r] # "idle", audit' = audit, steps' = steps,
           \A q \in Runs : q # r => /\ pc'[q] = pc[q] /\ response'[q] = response[q]
                                   /\ decision'[q] = decision[q],
           EndsAs(audit[r], steps[r], pc'[r], decision'[r], response'[r])
    PROVE  Trail'
<1>1. \A q \in Runs : pc'[q] = "idle" => audit'[q] = <<>>
    BY DEF Trail, TrailTellsSteps
<1>2. ASSUME NEW q \in Runs, pc'[q] # "idle"
      PROVE  /\ TellsSteps(audit'[q], steps'[q])
             /\ EndsAs(audit'[q], steps'[q], pc'[q], decision'[q], response'[q])
    BY <1>2 DEF Trail, TrailTellsSteps, TrailEnd
<1> QED BY <1>1, <1>2, TrailNext

\* A step of r that writes an event to its trail and keeps the steps.
LEMMA LongerTrail ==
    ASSUME TypeOK, TypeOK', Budget', Trail, NEW r \in Runs, NEW e \in AuditEvent,
           Audit(r, e), pc[r] # "idle", pc'[r] # "idle", steps' = steps,
           Len(audit[r]) > 2 * Len(steps[r]) \/ e = Observed(steps[r][Len(steps[r])]),
           \A q \in Runs : q # r => /\ pc'[q] = pc[q] /\ response'[q] = response[q]
                                   /\ decision'[q] = decision[q],
           EndsAs(audit'[r], steps[r], pc'[r], decision'[r], response'[r])
    PROVE  Trail'
<1>1. /\ audit'[r] = Append(audit[r], e)
      /\ \A q \in Runs : q # r => audit'[q] = audit[q]
    BY AuditFacts
<1>2. \A q \in Runs : pc'[q] = "idle" => audit'[q] = <<>>
    BY <1>1 DEF Trail, TrailTellsSteps
<1>3. /\ audit[r] \in Seq(AuditEvent) /\ steps[r] \in Seq(Step)
      /\ TellsSteps(audit[r], steps[r])
    BY DEF TypeOK, Trail, TrailTellsSteps
<1>4. TellsSteps(audit'[r], steps[r])
    BY <1>1, <1>3, TellsAppend
<1>5. ASSUME NEW q \in Runs, pc'[q] # "idle"
      PROVE  /\ TellsSteps(audit'[q], steps'[q])
             /\ EndsAs(audit'[q], steps'[q], pc'[q], decision'[q], response'[q])
    BY <1>1, <1>4, <1>5 DEF Trail, TrailTellsSteps, TrailEnd
<1> QED BY <1>2, <1>5, TrailNext

\* Every step keeps the trails truthful.
LEMMA TrailStep ==
    TypeOK /\ TypeOK' /\ Budget /\ Budget' /\ Trail /\ [Next]_vars => Trail'
<1> SUFFICES ASSUME TypeOK, TypeOK', Budget, Budget', Trail, [Next]_vars PROVE Trail'
    OBVIOUS
<1>0. ASSUME NEW r \in Runs
      PROVE  /\ audit[r] \in Seq(AuditEvent) /\ steps[r] \in Seq(Step)
             /\ Len(audit[r]) \in Nat /\ Len(steps[r]) \in Nat
    BY DEF TypeOK
<1>00. ASSUME NEW r \in Runs, pc[r] # "idle"
       PROVE  /\ TellsSteps(audit[r], steps[r])
              /\ EndsAs(audit[r], steps[r], pc[r], decision[r], response[r])
    BY <1>00 DEF Trail, TrailTellsSteps, TrailEnd
<1>1. ASSUME NEW r \in Runs, Begin(r) PROVE Trail'
  <2>1. Started \in AuditEvent
      BY EventTypes
  <2>2. /\ audit'[r] = Append(<<>>, Started) /\ steps' = steps /\ steps[r] = <<>>
        /\ \A q \in Runs : q # r => audit'[q] = audit[q]
      BY <1>1, <2>1, AuditFacts DEF Begin, Trail, TrailTellsSteps
  <2>3. Len(audit'[r]) = 1 /\ audit'[r][1] = Started /\ Len(steps'[r]) = 0
      BY <2>1, <2>2
  <2>4. /\ \A q \in Runs : q # r => pc'[q] = pc[q]
        /\ pc'[r] = "decide" /\ response[r] = "none" /\ decision' = decision
        /\ response' = response
      BY <1>1 DEF Begin, Goto, TypeOK, Budget
  <2>5. TellsSteps(audit'[r], steps'[r])
      BY <2>3 DEF TellsSteps
  <2>6. EndsAs(audit'[r], steps'[r], pc'[r], decision'[r], response'[r])
      BY <2>3, <2>4 DEF EndsAs, Reasons
  <2>7. \A q \in Runs : pc'[q] = "idle" => audit'[q] = <<>>
      BY <2>2, <2>4, <2>5 DEF Trail, TrailTellsSteps
  <2>8. ASSUME NEW q \in Runs, pc'[q] # "idle"
       PROVE  /\ TellsSteps(audit'[q], steps'[q])
              /\ EndsAs(audit'[q], steps'[q], pc'[q], decision'[q], response'[q])
      BY <2>2, <2>4, <2>5, <2>6, <2>8 DEF Trail, TrailTellsSteps, TrailEnd
  <2> QED BY <2>7, <2>8, TrailNext
<1>2. ASSUME NEW r \in Runs,
             (\E action \in Names \union {Finish} : Decide(r, action))
             \/ Summarise(r) \/ ModelFails(r)
      PROVE  Trail'
  <2>1. /\ pc[r] \in {"decide", "conclude"} /\ pc'[r] \in {"decided", "failing"}
        /\ response[r] = "none" /\ response' = response
        /\ audit' = audit /\ steps' = steps
        /\ \A q \in Runs : q # r => pc'[q] = pc[q] /\ decision'[q] = decision[q]
      BY <1>2 DEF Decide, Summarise, ModelFails, Goto, TypeOK, Budget
  <2>2. EndsAs(audit[r], steps[r], pc'[r], decision'[r], response'[r])
      BY <1>0, <1>00, <2>1 DEF EndsAs, Reasons
  <2> QED BY <2>1, <2>2, SameTrail
<1>3. ASSUME NEW r \in Runs, Answer(r) PROVE Trail'
  <2> DEFINE e == Finished(Reason(decision[r]), Len(steps[r]))
  <2>1. e \in AuditEvent /\ Audit(r, e)
      BY <1>0, <1>3, EventTypes DEF Answer
  <2>2. Len(audit'[r]) = Len(audit[r]) + 1 /\ audit'[r][Len(audit'[r])] = e
      BY <2>1, AuditFacts
  <2>3. /\ pc[r] = "decided" /\ pc'[r] = "answering" /\ steps' = steps
        /\ response'[r] = "none" /\ decision'[r] = decision[r]
        /\ \A q \in Runs : q # r => /\ pc'[q] = pc[q] /\ response'[q] = response[q]
                                  /\ decision'[q] = decision[q]
      BY <1>3 DEF Answer, Goto, TypeOK, Budget
  <2>4. EndsAs(audit[r], steps[r], "decided", decision[r], response[r])
      BY <1>00, <2>3
  <2>5. Len(audit[r]) = 2 * Len(steps[r]) + 1
      BY <1>0, <2>4 DEF EndsAs
  <2>6. EndsAs(audit'[r], steps[r], pc'[r], decision'[r], response'[r])
      BY <1>0, <2>2, <2>3, <2>5 DEF EndsAs, Reasons
  <2>7. TellsSteps(audit[r], steps[r]) /\ Len(audit[r]) > 2 * Len(steps[r])
      BY <1>0, <1>00, <2>3, <2>5
  <2> QED BY <2>1, <2>3, <2>6, <2>7, LongerTrail
<1>4. ASSUME NEW r \in Runs, Fail(r) PROVE Trail'
  <2> DEFINE e == Failed(Len(steps[r]))
  <2>1. e \in AuditEvent /\ Audit(r, e)
      BY <1>0, <1>4, EventTypes DEF Fail
  <2>2. Len(audit'[r]) = Len(audit[r]) + 1 /\ audit'[r][Len(audit'[r])] = e
      BY <2>1, AuditFacts
  <2>3. /\ pc[r] = "failing" /\ pc'[r] = "refusing" /\ steps' = steps
        /\ response'[r] = "none" /\ decision'[r] = decision[r]
        /\ \A q \in Runs : q # r => /\ pc'[q] = pc[q] /\ response'[q] = response[q]
                                  /\ decision'[q] = decision[q]
      BY <1>4 DEF Fail, Goto, TypeOK, Budget
  <2>4. EndsAs(audit[r], steps[r], "failing", decision[r], response[r])
      BY <1>00, <2>3
  <2>5. Len(audit[r]) = 2 * Len(steps[r]) + 1
      BY <1>0, <2>4 DEF EndsAs
  <2>6. EndsAs(audit'[r], steps[r], pc'[r], decision'[r], response'[r])
      BY <1>0, <2>2, <2>3, <2>5 DEF EndsAs, Reasons
  <2>7. TellsSteps(audit[r], steps[r]) /\ Len(audit[r]) > 2 * Len(steps[r])
      BY <1>0, <1>00, <2>3, <2>5
  <2> QED BY <2>1, <2>3, <2>6, <2>7, LongerTrail
<1>5. ASSUME NEW r \in Runs, CallTool(r) PROVE Trail'
  <2> DEFINE e == Called(decision[r])
  <2>1. e \in AuditEvent /\ Audit(r, e)
      BY <1>0, <1>5, EventTypes DEF CallTool
  <2>2. Len(audit'[r]) = Len(audit[r]) + 1 /\ audit'[r][Len(audit'[r])] = e
      BY <2>1, AuditFacts
  <2>3. /\ pc[r] = "decided" /\ pc'[r] = "execute" /\ steps' = steps
        /\ response'[r] = "none" /\ decision'[r] = decision[r]
        /\ \A q \in Runs : q # r => /\ pc'[q] = pc[q] /\ response'[q] = response[q]
                                  /\ decision'[q] = decision[q]
      BY <1>5 DEF CallTool, Goto, TypeOK, Budget
  <2>4. EndsAs(audit[r], steps[r], "decided", decision[r], response[r])
      BY <1>00, <2>3
  <2>5. Len(audit[r]) = 2 * Len(steps[r]) + 1
      BY <1>0, <2>4 DEF EndsAs
  <2>6. EndsAs(audit'[r], steps[r], pc'[r], decision'[r], response'[r])
      BY <1>0, <2>2, <2>3, <2>5 DEF EndsAs, Reasons
  <2>7. TellsSteps(audit[r], steps[r]) /\ Len(audit[r]) > 2 * Len(steps[r])
      BY <1>0, <1>00, <2>3, <2>5
  <2> QED BY <2>1, <2>3, <2>6, <2>7, LongerTrail
<1>6. ASSUME NEW r \in Runs, Reply(r) PROVE Trail'
  <2>1. /\ pc[r] = "answering" /\ pc'[r] = "done"
        /\ response'[r] = Reason(decision[r]) /\ response'[r] \in Reasons
        /\ audit' = audit /\ steps' = steps /\ decision' = decision
        /\ \A q \in Runs : q # r => pc'[q] = pc[q] /\ response'[q] = response[q]
      BY <1>6 DEF Reply, Respond, Goto, Reason, Reasons, TypeOK
  <2>2. EndsAs(audit[r], steps[r], pc'[r], decision'[r], response'[r])
      BY <1>0, <1>00, <2>1 DEF EndsAs, Reasons
  <2> QED BY <2>1, <2>2, SameTrail
<1>7. ASSUME NEW r \in Runs, Refuse(r) PROVE Trail'
  <2>1. /\ pc[r] = "refusing" /\ pc'[r] = "done" /\ response'[r] = "unavailable"
        /\ audit' = audit /\ steps' = steps /\ decision' = decision
        /\ \A q \in Runs : q # r => pc'[q] = pc[q] /\ response'[q] = response[q]
      BY <1>7 DEF Refuse, Respond, Goto, TypeOK
  <2>2. EndsAs(audit[r], steps[r], pc'[r], decision'[r], response'[r])
      BY <1>0, <1>00, <2>1 DEF EndsAs, Reasons
  <2> QED BY <2>1, <2>2, SameTrail
<1>8. ASSUME NEW r \in Runs, NEW status \in Statuses, Observe(r, status) PROVE Trail'
  <2> DEFINE step == [tool |-> decision[r], status |-> status]
  <2>1. step \in Step /\ step.tool = decision[r]
      BY <1>8 DEF Observe, TypeOK, Step
  <2>2. steps' = [steps EXCEPT ![r] = Append(@, step)]
      BY <1>8 DEF Observe
  <2> HIDE DEF step
  <2>3. /\ steps'[r] = Append(steps[r], step)
        /\ \A q \in Runs : q # r => steps'[q] = steps[q]
      BY <2>2 DEF TypeOK
  <2>4. Len(steps'[r]) = Len(steps[r]) + 1
      BY <1>0, <2>1, <2>3, AppendFacts
  <2>5. /\ pc[r] = "execute" /\ pc'[r] = "observed" /\ audit' = audit
        /\ response[r] = "none" /\ response' = response /\ decision' = decision
        /\ \A q \in Runs : q # r => pc'[q] = pc[q]
      BY <1>8 DEF Observe, Goto, TypeOK, Budget
  <2>6. Len(audit[r]) = 2 * Len(steps[r]) + 2 /\ audit[r][Len(audit[r])] = Called(decision[r])
      BY <1>0, <1>00, <2>5 DEF EndsAs
  <2>7. TellsSteps(audit'[r], steps'[r])
      BY <1>0, <1>00, <2>1, <2>3, <2>5, <2>6, TellsNextStep
  <2>8. EndsAs(audit'[r], steps'[r], pc'[r], decision'[r], response'[r])
      BY <1>0, <2>4, <2>5, <2>6 DEF EndsAs, Reasons
  <2>9. \A q \in Runs : pc'[q] = "idle" => audit'[q] = <<>>
      BY <2>3, <2>5, <2>7 DEF Trail, TrailTellsSteps
  <2>10. ASSUME NEW q \in Runs, pc'[q] # "idle"
       PROVE  /\ TellsSteps(audit'[q], steps'[q])
              /\ EndsAs(audit'[q], steps'[q], pc'[q], decision'[q], response'[q])
      BY <2>3, <2>5, <2>7, <2>8, <2>10 DEF Trail, TrailTellsSteps, TrailEnd
  <2> QED BY <2>9, <2>10, TrailNext
<1>9. ASSUME NEW r \in Runs, AuditStep(r) PROVE Trail'
  <2> DEFINE e == Observed(steps[r][Len(steps[r])])
  <2>1. e \in AuditEvent /\ Audit(r, e)
      BY <1>0, <1>9, EventTypes DEF AuditStep, Budget
  <2>2. Len(audit'[r]) = Len(audit[r]) + 1
      BY <2>1, AuditFacts
  <2>3. /\ pc[r] = "observed" /\ pc'[r] \in {"decide", "conclude"} /\ steps' = steps
        /\ response'[r] = "none" /\ decision'[r] = decision[r]
        /\ \A q \in Runs : q # r => /\ pc'[q] = pc[q] /\ response'[q] = response[q]
                                  /\ decision'[q] = decision[q]
      BY <1>9 DEF AuditStep, AfterStep, Goto, TypeOK, Budget
  <2>4. Len(audit[r]) = 2 * Len(steps[r])
      BY <1>0, <1>00, <2>3 DEF EndsAs
  <2>5. EndsAs(audit'[r], steps[r], pc'[r], decision'[r], response'[r])
      BY <1>0, <2>2, <2>3, <2>4 DEF EndsAs, Reasons
  <2> QED BY <2>1, <2>3, <2>5, LongerTrail
<1>10. ASSUME NEW r \in Runs, ToolRaises(r) \/ Interrupted(r) PROVE Trail'
  <2>1. /\ pc[r] \notin {"idle", "done"} /\ pc'[r] = "done"
        /\ response[r] = "none" /\ response'[r] \in {"error", "lost"}
        /\ response'[r] = "error" => pc[r] = "execute"
        /\ audit' = audit /\ steps' = steps /\ decision' = decision
        /\ \A q \in Runs : q # r => pc'[q] = pc[q] /\ response'[q] = response[q]
      BY <1>10 DEF ToolRaises, Interrupted, Respond, Goto, TypeOK, Budget
  <2>2. pc[r] \in {"decide", "decided", "execute", "observed", "conclude",
                   "answering", "failing", "refusing"}
      BY <2>1 DEF TypeOK
  <2>3. EndsAs(audit[r], steps[r], pc'[r], decision'[r], response'[r])
      BY <1>0, <1>00, <2>1, <2>2 DEF EndsAs, Reasons
  <2> QED BY <2>1, <2>3, SameTrail
<1>11. CASE UNCHANGED vars
    BY <1>11 DEF vars, Trail, TrailTellsSteps, TrailEnd
<1> QED BY <1>1, <1>2, <1>3, <1>4, <1>5, <1>6, <1>7, <1>8, <1>9, <1>10, <1>11
        DEF Next, Advance

\* The inductive invariant holds in every behaviour.
LEMMA InvHolds == Spec => []AgentInv
<1>1. AgentInv /\ [Next]_vars => AgentInv'
    BY TypeStep, BudgetStep, TrailStep DEF AgentInv, Trail
<1> QED BY InitInv, <1>1, PTL DEF Spec

\* Type correctness of the agent.
THEOREM AgentTypeCorrect == Spec => []TypeOK
BY InvHolds, PTL DEF AgentInv

\* No request exceeds its tool attempts or calls of the model (run_agent's loop).
THEOREM AgentWithinBudget == Spec => []WithinBudget
BY InvHolds, PTL DEF AgentInv

\* The audit trail of every request tells its tool attempts as they were.
THEOREM AgentTrailTellsSteps == Spec => []TrailTellsSteps
BY InvHolds, PTL DEF AgentInv

\* No answer without its audit event; and a run whose end is in the trail has
\* that answer, is about to give it, or was lost before it could.
THEOREM AgentAnswerIsAudited == Spec => []AnswerIsAudited
<1>1. AgentInv => AnswerIsAudited
  <2> SUFFICES ASSUME AgentInv, NEW r \in Runs, pc[r] # "idle"
               PROVE  LET last == audit[r][Len(audit[r])]
                          n == Len(steps[r])
                      IN  /\ response[r] \in Reasons => last = Finished(response[r], n)
                          /\ response[r] = "unavailable" => last = Failed(n)
                          /\ last.kind = "finished" =>
                                /\ last = Finished(Reason(decision[r]), n)
                                /\ pc[r] = "answering" \/ response[r] \in {last.status, "lost"}
                          /\ last.kind = "failed" =>
                                pc[r] = "refusing" \/ response[r] \in {"unavailable", "lost"}
      BY DEF AnswerIsAudited
  <2> DEFINE n == Len(steps[r])
             m == Len(audit[r])
             last == audit[r][m]
  <2>1. /\ TellsSteps(audit[r], steps[r])
        /\ EndsAs(audit[r], steps[r], pc[r], decision[r], response[r])
        /\ n \in Nat /\ m \in Nat
        /\ response[r] \in Reasons \union {"none", "unavailable", "error", "lost"}
        /\ pc[r] # "done" <=> response[r] = "none"
        /\ pc[r] \in {"decide", "decided", "execute", "observed", "conclude",
                      "answering", "failing", "refusing", "done"}
      BY DEF AgentInv, TypeOK, Budget, TrailTellsSteps, TrailEnd
  <2>2. m \in {2 * n, 2 * n + 1, 2 * n + 2} /\ m >= 1
      BY <2>1 DEF EndsAs, TellsSteps
  <2>3. CASE m \in {2 * n, 2 * n + 1}
    <3>1. ~ (response[r] \in Reasons) /\ response[r] # "unavailable"
        BY <2>1, <2>3 DEF EndsAs
    <3>2. last.kind \in {"started", "tool_called", "tool_succeeded", "tool_failed"}
      <4>1. CASE n = 0
          BY <2>1, <2>2, <2>3, <4>1 DEF TellsSteps, Started, Event
      <4>2. CASE n # 0
        <5> HIDE DEF n, m
        <5>1. n \in 1 .. n
            BY <2>1, <4>2
        <5>2. CASE m = 2 * n
          <6>1. last = Called(steps[r][n].tool)
              BY <2>1, <5>1, <5>2 DEF TellsSteps, n, m
          <6> QED BY <6>1 DEF Called, Event
        <5>3. CASE m = 2 * n + 1
          <6>1. 2 * n + 1 =< m => audit[r][2 * n + 1] = Observed(steps[r][n])
              BY <2>1, <5>1 DEF TellsSteps, n, m
          <6>2. last = Observed(steps[r][n])
              BY <2>1, <5>3, <6>1
          <6> QED BY <6>2 DEF Observed, Event
        <5> QED BY <2>3, <5>2, <5>3
      <4> QED BY <4>1, <4>2
    <3> QED BY <3>1, <3>2
  <2>4. CASE m = 2 * n + 2
    <3> DEFINE finished == Finished(Reason(decision[r]), n)
               failed == Failed(n)
               called == Called(decision[r])
    <3>1. /\ finished.kind = "finished" /\ finished.status = Reason(decision[r])
          /\ failed.kind = "failed" /\ called.kind = "tool_called"
        BY DEF Finished, Failed, Called, Event
    <3>2. /\ pc[r] \in {"execute", "answering", "refusing", "done"}
          /\ pc[r] = "execute" \/ response[r] = "error" => last = called
          /\ pc[r] = "answering" \/ response[r] \in Reasons => last = finished
          /\ response[r] \in Reasons => response[r] = Reason(decision[r])
          /\ pc[r] = "refusing" \/ response[r] = "unavailable" => last = failed
          /\ response[r] = "lost" => last \in {called, finished, failed}
        BY <2>1, <2>4 DEF EndsAs
    <3> HIDE DEF finished, failed, called, last
    <3>3. /\ last.kind = "finished" => last = finished
          /\ last.kind = "finished" => pc[r] = "answering" \/ response[r] \in {last.status, "lost"}
          /\ last.kind = "failed" => pc[r] = "refusing" \/ response[r] \in {"unavailable", "lost"}
        BY <2>1, <3>1, <3>2
    <3> QED BY <3>2, <3>3 DEF finished, failed, last
  <2> QED BY <2>2, <2>3, <2>4
<1> QED BY InvHolds, <1>1, PTL
=============================================================================
