---------------------------- MODULE AgentRunner ----------------------------
(***************************************************************************)
(* The financial investigation agent: run_agent as several API requests    *)
(* run it at once, each with a trace of its own.  A run asks the model for *)
(* a decision, carries it out and gives the observation back, at most      *)
(* MaxToolCalls times, and must then conclude.  Every stage is written to  *)
(* the audit log under the run's trace_id and committed at once, so the    *)
(* trail is what remains of a run that is cut short.                       *)
(*                                                                         *)
(* The model's output is not trusted: an action is any short string, of    *)
(* which only Tools are registered.                                        *)
(***************************************************************************)
EXTENDS Naturals, Sequences

CONSTANTS
    Runs,          \* requests to POST /api/agent/query, by trace_id
    Tools,         \* TOOL_NAMES
    Unknown,       \* other names the model may give as its action
    MaxToolCalls,  \* MAX_TOOL_CALLS (3 in the code)
    MaxFaults      \* bound: database errors and lost processes

Finish == "finish"
Conclude == "conclude"
Names == Tools \union Unknown

ASSUME AgentAssumption ==
    /\ Finish \notin Names /\ Conclude \notin Names
    /\ Tools \intersect Unknown = {}
    /\ MaxToolCalls \in Nat \ {0}
    /\ MaxFaults \in Nat

VARIABLES
    pc,        \* where each run is
    decision,  \* the model's last decision: a tool name, finish or conclude
    steps,     \* the tool attempts of the run and their status
    audit,     \* the committed audit events of the trace
    asked,     \* how many times the run called the model
    response,  \* what the request was answered
    faults     \* how much of MaxFaults is used

vars == <<pc, decision, steps, audit, asked, response, faults>>

Statuses == {"success", "validation_error", "tool_error"}
Reasons == {"finished", "limit"}
Step == [tool : Names, status : Statuses]
NoTool == "none"

\* An audit event; the tool and the status are in the payload of the tool
\* events, the reason and the number of steps in that of the last one.
AuditEvent == [kind : {"started", "tool_called", "tool_succeeded", "tool_failed",
                       "finished", "failed"},
               tool : Names \union {NoTool}, status : Statuses \union Reasons \union {NoTool},
               steps : Nat]
Event(kind, tool, status, n) == [kind |-> kind, tool |-> tool, status |-> status, steps |-> n]
Started == Event("started", NoTool, NoTool, 0)
Called(tool) == Event("tool_called", tool, NoTool, 0)
Observed(step) ==
    Event(IF step.status = "success" THEN "tool_succeeded" ELSE "tool_failed",
          step.tool, step.status, 0)
Finished(reason, n) == Event("finished", NoTool, reason, n)
Failed(n) == Event("failed", NoTool, NoTool, n)

Init ==
    /\ pc = [r \in Runs |-> "idle"]
    /\ decision = [r \in Runs |-> NoTool]
    /\ steps = [r \in Runs |-> <<>>]
    /\ audit = [r \in Runs |-> <<>>]
    /\ asked = [r \in Runs |-> 0]
    /\ response = [r \in Runs |-> "none"]
    /\ faults = 0

Goto(r, label) == pc' = [pc EXCEPT ![r] = label]
Audit(r, event) == audit' = [audit EXCEPT ![r] = Append(@, event)]
Respond(r, answer) == Goto(r, "done") /\ response' = [response EXCEPT ![r] = answer]

-----------------------------------------------------------------------------
\* The request is taken and agent.started is committed.
Begin(r) ==
    /\ pc[r] = "idle"
    /\ Audit(r, Started)
    /\ Goto(r, "decide")
    /\ UNCHANGED <<decision, steps, asked, response, faults>>

AskModel(r) == asked' = [asked EXCEPT ![r] = @ + 1]

\* decide_agent_action answers with a valid AgentDecision.
Decide(r, action) ==
    /\ pc[r] = "decide"
    /\ AskModel(r)
    /\ decision' = [decision EXCEPT ![r] = action]
    /\ Goto(r, "decided")
    /\ UNCHANGED <<steps, audit, response, faults>>

\* finish_agent_answer answers with an AgentFinal, once the attempts are used up.
Summarise(r) ==
    /\ pc[r] = "conclude"
    /\ AskModel(r)
    /\ decision' = [decision EXCEPT ![r] = Conclude]
    /\ Goto(r, "decided")
    /\ UNCHANGED <<steps, audit, response, faults>>

\* Either call of the model fails, or its output is not valid: LLMError.
ModelFails(r) ==
    /\ pc[r] \in {"decide", "conclude"}
    /\ AskModel(r)
    /\ Goto(r, "failing")
    /\ UNCHANGED <<decision, steps, audit, response, faults>>

\* stopped_reason: the model chose to finish, or the attempts were used up.
Reason(action) == IF action = Finish THEN "finished" ELSE "limit"

\* Mutant of Answer: the answer is returned before the audit event is written.
AnswerUnaudited(r) ==
    /\ pc[r] = "decided"
    /\ decision[r] \in {Finish, Conclude}
    /\ Respond(r, Reason(decision[r]))
    /\ UNCHANGED <<decision, steps, audit, asked, faults>>

\* finish, or the forced conclusion: agent.finished is committed.
Answer(r) ==
    /\ pc[r] = "decided"
    /\ decision[r] \in {Finish, Conclude}
    /\ Audit(r, Finished(Reason(decision[r]), Len(steps[r])))
    /\ Goto(r, "answering")
    /\ UNCHANGED <<decision, steps, asked, response, faults>>

\* Only then the answer goes to the user.
Reply(r) ==
    /\ pc[r] = "answering"
    /\ Respond(r, Reason(decision[r]))
    /\ UNCHANGED <<decision, steps, audit, asked, faults>>

\* Mutant of Fail: a failed call of the model is tried again, uncounted.
RetryModel(r) ==
    /\ pc[r] = "failing"
    /\ asked' = [asked EXCEPT ![r] = @ - 1]
    /\ Goto(r, IF Len(steps[r]) < MaxToolCalls THEN "decide" ELSE "conclude")
    /\ UNCHANGED <<decision, steps, audit, response, faults>>

\* The handler of LLMError: agent.failed is committed.
Fail(r) ==
    /\ pc[r] = "failing"
    /\ Audit(r, Failed(Len(steps[r])))
    /\ Goto(r, "refusing")
    /\ UNCHANGED <<decision, steps, asked, response, faults>>

\* Then AgentError becomes the 503.
Refuse(r) ==
    /\ pc[r] = "refusing"
    /\ Respond(r, "unavailable")
    /\ UNCHANGED <<decision, steps, audit, asked, faults>>

\* Mutant of CallTool: finish is not told from a tool.
CallAnything(r) ==
    /\ pc[r] = "decided"
    /\ Audit(r, Called(decision[r]))
    /\ Goto(r, "execute")
    /\ UNCHANGED <<decision, steps, asked, response, faults>>

\* Any other action is taken for a tool: agent.tool_called.
CallTool(r) ==
    /\ pc[r] = "decided"
    /\ decision[r] \in Names
    /\ Audit(r, Called(decision[r]))
    /\ Goto(r, "execute")
    /\ UNCHANGED <<decision, steps, asked, response, faults>>

-----------------------------------------------------------------------------
\* How execute_tool can end as an observation: a registered tool succeeds, is
\* refused its arguments, or meets Firefly's failure; any other name is an
\* AgentToolError.
StatusOf(tool) == IF tool \in Tools THEN Statuses ELSE {"tool_error"}

\* The attempt ends and becomes a step, whatever its status.
Observe(r, status) ==
    /\ pc[r] = "execute"
    /\ status \in StatusOf(decision[r])
    /\ steps' = [steps EXCEPT ![r] = Append(@, [tool |-> decision[r], status |-> status])]
    /\ Goto(r, "observed")
    /\ UNCHANGED <<decision, audit, asked, response, faults>>

\* The loop ends after the last allowed attempt.
AfterStep(n) == IF n < MaxToolCalls THEN "decide" ELSE "conclude"

\* Mutant of AuditStep: the loop runs once more.
OneMoreAttempt(r) ==
    /\ pc[r] = "observed"
    /\ Audit(r, Observed(steps[r][Len(steps[r])]))
    /\ Goto(r, AfterStep(Len(steps[r]) - 1))
    /\ UNCHANGED <<decision, steps, asked, response, faults>>

\* Mutant of AuditStep: the failure of a tool is not audited.
FailureUnaudited(r) ==
    LET step == steps[r][Len(steps[r])] IN
    /\ pc[r] = "observed"
    /\ IF step.status = "success" THEN Audit(r, Observed(step)) ELSE UNCHANGED audit
    /\ Goto(r, AfterStep(Len(steps[r])))
    /\ UNCHANGED <<decision, steps, asked, response, faults>>

\* The outcome of the step is committed; the loop goes on with it, or ends.
AuditStep(r) ==
    /\ pc[r] = "observed"
    /\ Audit(r, Observed(steps[r][Len(steps[r])]))
    /\ Goto(r, AfterStep(Len(steps[r])))
    /\ UNCHANGED <<decision, steps, asked, response, faults>>

\* A registered tool raises what run_agent does not catch: a 2xx answer that is
\* no JSON, a date before the calendar (as_of - 119 days).  The request is a 500.
ToolRaises(r) ==
    /\ pc[r] = "execute"
    /\ decision[r] \in Tools
    /\ Respond(r, "error")
    /\ UNCHANGED <<decision, steps, audit, asked, faults>>

\* The database refuses a commit or its answer is lost, or the API process is:
\* what is committed stays, and the user gets no answer, or a 500.
Interrupted(r) ==
    /\ pc[r] \notin {"idle", "done"}
    /\ faults < MaxFaults
    /\ faults' = faults + 1
    /\ Respond(r, "lost")
    /\ UNCHANGED <<decision, steps, audit, asked>>

-----------------------------------------------------------------------------
Advance(r) ==
    \/ \E action \in Names \union {Finish} : Decide(r, action)
    \/ Summarise(r) \/ ModelFails(r)
    \/ Answer(r) \/ Reply(r) \/ Fail(r) \/ Refuse(r)
    \/ CallTool(r)
    \/ \E status \in Statuses : Observe(r, status)
    \/ AuditStep(r) \/ ToolRaises(r)

Next == \E r \in Runs : Begin(r) \/ Advance(r) \/ Interrupted(r)

Spec == Init /\ [][Next]_vars

\* A request that is being served keeps running: the model and Firefly are
\* called with timeouts.
FairSpec == Spec /\ \A r \in Runs : WF_vars(Advance(r))

-----------------------------------------------------------------------------
(* Properties. *)

\* Every variable has its type.
TypeOK ==
    /\ pc \in [Runs -> {"idle", "decide", "decided", "execute", "observed", "conclude",
                        "answering", "failing", "refusing", "done"}]
    /\ decision \in [Runs -> Names \union {Finish, Conclude, NoTool}]
    /\ \A r \in Runs : pc[r] = "execute" => decision[r] \in Names
    /\ steps \in [Runs -> Seq(Step)]
    /\ audit \in [Runs -> Seq(AuditEvent)]
    /\ asked \in [Runs -> Nat]
    /\ response \in [Runs -> Reasons \union {"none", "unavailable", "error", "lost"}]
    /\ faults \in 0 .. MaxFaults

\* Whatever the model answers, a request makes at most MaxToolCalls tool
\* attempts and one more call of the model than attempts, invalid and failed
\* attempts included; it concludes only when the attempts are used up.
WithinBudget ==
    \A r \in Runs :
        /\ Len(steps[r]) =< MaxToolCalls
        /\ asked[r] =< Len(steps[r]) + 1
        /\ response[r] = "limit" => Len(steps[r]) = MaxToolCalls

\* After agent.started each attempt has one agent.tool_called and then its
\* outcome, for its tool and with its status, in order; the outcome of the
\* last one may be missing.
TellsSteps(trail, done) ==
    /\ Len(trail) >= 1 /\ Len(trail) >= 2 * Len(done)
    /\ trail[1] = Started
    /\ \A k \in 1 .. Len(done) :
          /\ trail[2 * k] = Called(done[k].tool)
          /\ 2 * k + 1 =< Len(trail) => trail[2 * k + 1] = Observed(done[k])

\* The trail tells the run as it was.  A tool is executed only after its call
\* is committed, and a step is given to the model, or to the user, only after
\* its outcome is: cut anywhere, the trail lacks at most the outcome of the
\* last step, and that only in a run that was lost before the commit.
TrailTellsSteps ==
    \A r \in Runs :
        IF pc[r] = "idle" THEN audit[r] = <<>> /\ steps[r] = <<>>
        ELSE /\ TellsSteps(audit[r], steps[r])
             /\ pc[r] = "execute" => audit[r][Len(audit[r])] = Called(decision[r])
             /\ pc[r] # "observed" /\ response[r] # "lost" =>
                    Len(audit[r]) > 2 * Len(steps[r])

\* A request is answered, or refused with 503, only after its trail has the
\* matching last event, with the reason and the number of its steps.  The
\* other way round, a trail that tells an end belongs to a request that has
\* that answer, is about to get it, or was lost on the way to it: a run never
\* goes on, and is never answered otherwise, after its end is in the trail.
AnswerIsAudited ==
    \A r \in Runs : pc[r] # "idle" =>
        LET last == audit[r][Len(audit[r])]
            n == Len(steps[r])
        IN  /\ response[r] \in Reasons => last = Finished(response[r], n)
            /\ response[r] = "unavailable" => last = Failed(n)
            /\ last.kind = "finished" =>
                  /\ last = Finished(Reason(decision[r]), n)
                  /\ pc[r] = "answering" \/ response[r] \in {last.status, "lost"}
            /\ last.kind = "failed" =>
                  pc[r] = "refusing" \/ response[r] \in {"unavailable", "lost"}

\* What a trail has beyond the completed attempts: nothing while the outcome of
\* the last one is being written, then that outcome (or agent.started), and
\* then the next call or the event that ends the run.
EndsAs(trail, done, label, action, answer) ==
    LET beyond == Len(trail) - 2 * Len(done)
        last == trail[Len(trail)]
        finished == Finished(Reason(action), Len(done))
        failed == Failed(Len(done))
    IN  /\ beyond \in 0 .. 2
        /\ beyond = 0 => label = "observed" \/ answer = "lost"
        /\ label = "observed" => beyond = 0
        /\ label \in {"decide", "decided", "conclude", "failing"} => beyond = 1
        /\ label = "execute" \/ answer = "error" => beyond = 2 /\ last = Called(action)
        /\ label = "answering" \/ answer \in Reasons => beyond = 2 /\ last = finished
        /\ answer \in Reasons => answer = Reason(action)
        /\ label = "refusing" \/ answer = "unavailable" => beyond = 2 /\ last = failed
        /\ answer = "lost" /\ beyond = 2 => last \in {Called(action), finished, failed}

TrailEnd ==
    \A r \in Runs : pc[r] # "idle" =>
        EndsAs(audit[r], steps[r], pc[r], decision[r], response[r])

\* Where a run is in the loop decides how many attempts and calls it has made.
Budget ==
    \A r \in Runs :
        /\ pc[r] # "done" <=> response[r] = "none"
        /\ pc[r] \in {"decide", "execute"} => Len(steps[r]) < MaxToolCalls
        /\ pc[r] = "conclude" => Len(steps[r]) = MaxToolCalls
        /\ pc[r] \in {"decided", "answering"} =>
              decision[r] = Conclude <=> Len(steps[r]) = MaxToolCalls
        /\ pc[r] = "answering" => decision[r] \in {Finish, Conclude}
        /\ pc[r] = "observed" => Len(steps[r]) >= 1
        /\ pc[r] \in {"decide", "observed", "conclude"} => asked[r] = Len(steps[r])
        /\ pc[r] \in {"decided", "execute", "answering", "failing", "refusing"} =>
              asked[r] = Len(steps[r]) + 1
        /\ pc[r] = "idle" => asked[r] = 0 /\ steps[r] = <<>>

\* The inductive invariant.
AgentInv == TypeOK /\ Budget /\ WithinBudget /\ TrailTellsSteps /\ TrailEnd

\* Every request that was started is answered, although the model may never
\* choose to finish and may give invalid decisions for ever.
EveryQueryEnds == \A r \in Runs : pc[r] # "idle" ~> pc[r] = "done"
=============================================================================
