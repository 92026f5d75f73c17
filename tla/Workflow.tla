------------------------------ MODULE Workflow ------------------------------
(***************************************************************************)
(* One LangGraph thread of app/graph/workflow.py: the nodes it runs, the   *)
(* checkpoint saved after each, the pause before the evaluator, and the    *)
(* approve and reject endpoints of app/api/applications.py, which several  *)
(* clients may call at once.  Each endpoint first reads the checkpoint and *)
(* then acts on the thread, with nothing held in between.  The MCP tools   *)
(* of app/mcp/tool_handlers.py go through the same stages by themselves.   *)
(*                                                                         *)
(* LangGraph itself is external.  What is modelled of it: ainvoke(None)    *)
(* continues from the latest checkpoint and does not stop again at the     *)
(* pause it resumes from; a node that raises leaves the checkpoint and its *)
(* next node as they were; aupdate_state writes values on top of the       *)
(* checkpoint it read and leaves the next node alone; the checkpoint saved *)
(* last is the thread's state.                                             *)
(***************************************************************************)
EXTENDS Naturals, FiniteSets

CONSTANTS
    Clients,   \* concurrent approve and reject requests
    MaxCalls   \* bound: approve and reject requests that pass their check

ASSUME MaxCallsAssumption == MaxCalls \in Nat

Nodes == {"preprocess", "profile", "matcher", "generator", "evaluator"}
End == "end"

\* "unset" is a key the state does not have yet.
Decisions == {"unset", "apply", "maybe", "skip"}

\* The values of a checkpoint the control flow or a property depends on, and
\* the node that runs next.  letter: the state holds a cover letter.
Checkpoints ==
    [next : Nodes \cup {End}, quarantined : BOOLEAN, decision : Decisions,
     letter : BOOLEAN,
     step : Nodes \cup {"queued", "generator_skipped", "evaluator_skipped", "rejected"}]

Tools == {"analyze_jd", "score_fit", "generate_cover_letter"}

\* The ways to run the stages: the graph of POST /api/applications up to the
\* gate, the score-only graph with interrupt_after=["matcher"], and an MCP tool.
Modes == {"full", "score"} \cup Tools

VARIABLES
    mode,        \* which of them this is
    cp,          \* the latest checkpoint, or what a tool holds in its variables
    first,       \* the first ainvoke: running, returned to its caller, or lost
    pc,          \* where each client's request is
    op,          \* what it asks for
    mem,         \* the checkpoint a request works on
    calls,       \* history: requests that passed their check
    approvals,   \* history: approve requests that passed their check
    evaluations, \* history: runs of the evaluator that were saved
    confirmed,   \* history: some approve has answered "approved"
    asked,       \* history: the nodes that have sent a prompt to a model
    cancelledAt  \* history: evaluations when a reject completed alone, or none

vars == <<mode, cp, first, pc, op, mem, calls, approvals, evaluations,
          confirmed, asked, cancelledAt>>

NotCancelled == MaxCalls + 1

Fresh == [next |-> "preprocess", quarantined |-> FALSE, decision |-> "unset",
          letter |-> FALSE, step |-> "queued"]

TypeOK ==
    /\ mode \in Modes
    /\ cp \in Checkpoints
    /\ first \in {"running", "returned", "lost"}
    /\ pc \in [Clients -> {"idle", "checked", "evaluating", "rejecting"}]
    /\ op \in [Clients -> {"none", "approve", "reject"}]
    /\ mem \in [Clients -> Checkpoints]
    /\ calls \in 0..MaxCalls
    /\ approvals \in 0..MaxCalls
    /\ evaluations \in 0..MaxCalls
    /\ confirmed \in BOOLEAN
    /\ asked \subseteq Nodes
    /\ cancelledAt \in 0..NotCancelled

Init ==
    /\ mode \in Modes
    /\ cp = Fresh
    /\ first = "running"
    /\ pc = [c \in Clients |-> "idle"]
    /\ op = [c \in Clients |-> "none"]
    /\ mem = [c \in Clients |-> Fresh]
    /\ calls = 0
    /\ approvals = 0
    /\ evaluations = 0
    /\ confirmed = FALSE
    /\ asked = {}
    /\ cancelledAt = NotCancelled

requests == <<pc, op, mem, calls, approvals, evaluations, confirmed, cancelledAt>>

-----------------------------------------------------------------------------
(* The nodes: what each may make of the checkpoint it runs on *)

\* Mutants: the router answers with a node the graph does not have; a flagged
\* description is only recorded.
AfterPreprocessUnmapped(quarantined) == IF quarantined THEN "halt" ELSE "profile"
AfterPreprocessUnchecked(quarantined) == "profile"

AfterPreprocess(quarantined) == IF quarantined THEN End ELSE "profile"

\* Mutant: "maybe" is drafted too.
AfterMatcherLenient(decision) ==
    IF decision \in {"apply", "maybe"} THEN "generator" ELSE End

AfterMatcher(decision) == IF decision = "apply" THEN "generator" ELSE End

\* The injection scan may flag the description; the node then returns before
\* its model call.
Preprocess(s) ==
    {[s EXCEPT !.quarantined = q, !.step = "preprocess",
               !.next = AfterPreprocess(q)] : q \in BOOLEAN}

Profile(s) == {[s EXCEPT !.step = "profile", !.next = "matcher"]}

\* The decision is the model's, or the band of its score when it gives none.
Matcher(s) ==
    {[s EXCEPT !.decision = d, !.step = "matcher", !.next = AfterMatcher(d)]
        : d \in Decisions \ {"unset"}}

\* The node checks the decision by itself, whoever has routed to it.
GeneratorSkips(s) == s.decision # "apply"

\* The answer may lack the cover_letter key.
Generator(s) ==
    IF GeneratorSkips(s)
    THEN {[s EXCEPT !.step = "generator_skipped", !.next = "evaluator"]}
    ELSE {[s EXCEPT !.letter = b, !.step = "generator", !.next = "evaluator"]
             : b \in BOOLEAN}

EvaluatorSkips(s) == s.decision # "apply" \/ ~s.letter

Evaluator(s) ==
    {[s EXCEPT !.step = IF EvaluatorSkips(s) THEN "evaluator_skipped" ELSE "evaluator",
               !.next = End]}

\* What node n may leave behind when it runs on s.
Runs(n, s) ==
    CASE n = "preprocess" -> Preprocess(s)
      [] n = "profile"    -> Profile(s)
      [] n = "matcher"    -> Matcher(s)
      [] n = "generator"  -> Generator(s)
      [] n = "evaluator"  -> Evaluator(s)

\* Node n, having made t of s, has sent a prompt to a model.
Prompts(n, s, t) ==
    CASE n = "preprocess" -> ~t.quarantined
      [] n = "generator"  -> ~GeneratorSkips(s)
      [] n = "evaluator"  -> ~EvaluatorSkips(s)
      [] OTHER            -> TRUE

-----------------------------------------------------------------------------
(* The first ainvoke *)

\* Mutant: the gate is not wired.
PausedUngated == mode = "score" /\ cp.step = "matcher"

\* Mutant: the score-only graph is built without interrupt_after.
PausedAtGateOnly == cp.next = "evaluator"

\* interrupt_before=["evaluator"] always, interrupt_after=["matcher"] when the
\* caller asked for the score only.
Paused ==
    \/ cp.next = "evaluator"
    \/ mode = "score" /\ cp.step = "matcher"

RunNode ==
    /\ mode \notin Tools
    /\ first = "running"
    /\ cp.next # End
    /\ ~Paused
    /\ \E t \in Runs(cp.next, cp) :
          /\ cp' = t
          /\ asked' = IF Prompts(cp.next, cp, t) THEN asked \cup {cp.next} ELSE asked
          /\ evaluations' = IF cp.next = "evaluator" THEN evaluations + 1
                            ELSE evaluations
    /\ UNCHANGED <<mode, first, pc, op, mem, calls, approvals, confirmed, cancelledAt>>

\* ainvoke, or the tool, returns at a pause or at the end.  Only POST /api/applications tells
\* the thread's id to a client.
Return ==
    /\ first = "running"
    /\ cp.next = End \/ Paused
    /\ first' = "returned"
    /\ UNCHANGED <<mode, cp, asked, requests>>

\* A node raises (both providers failed, or the answer is not JSON) or the
\* process stops: the caller never learns the id, the checkpoint stays.
Lose ==
    /\ first = "running"
    /\ first' = "lost"
    /\ UNCHANGED <<mode, cp, asked, requests>>

-----------------------------------------------------------------------------
(* The MCP tools: each begins with the one before it and has no gate *)

\* A flagged description ends every tool.
AnalyzeJd(tool, s) ==
    {[s EXCEPT !.quarantined = q, !.step = "preprocess",
               !.next = IF q \/ tool = "analyze_jd" THEN End ELSE "matcher"]
        : q \in BOOLEAN}

\* Mutant: generate_cover_letter does not look at the decision.
ScoreFitUndecided(tool, s) ==
    {[s EXCEPT !.decision = d, !.step = "matcher",
               !.next = IF tool = "generate_cover_letter" THEN "generator" ELSE End]
        : d \in Decisions \ {"unset"}}

\* No profile node: the candidate's summary is read from the profile.
ScoreFit(tool, s) ==
    {[s EXCEPT !.decision = d, !.step = "matcher",
               !.next = IF tool = "generate_cover_letter" /\ d = "apply"
                        THEN "generator" ELSE End]
        : d \in Decisions \ {"unset"}}

\* The decision alone lets a draft be written, whatever the fit.
GenerateCoverLetter(s) ==
    {[s EXCEPT !.letter = b, !.step = "generator", !.next = End] : b \in BOOLEAN}

\* What the stage that is next may leave behind.
ToolRuns(tool, s) ==
    CASE s.next = "preprocess" -> AnalyzeJd(tool, s)
      [] s.next = "matcher"    -> ScoreFit(tool, s)
      [] s.next = "generator"  -> GenerateCoverLetter(s)

\* The stage that is next, having made t of s, has sent a prompt to a model.
ToolPrompts(s, t) == s.next = "preprocess" => ~t.quarantined

RunTool ==
    /\ mode \in Tools
    /\ first = "running"
    /\ cp.next # End
    /\ \E t \in ToolRuns(mode, cp) :
          /\ cp' = t
          /\ asked' = IF ToolPrompts(cp, t) THEN asked \cup {cp.next} ELSE asked
    /\ UNCHANGED <<mode, first, requests>>

-----------------------------------------------------------------------------
(* POST /api/applications/{id}/approve and /reject *)

Known == first = "returned" /\ mode = "full"

Leave(c) ==
    /\ pc' = [pc EXCEPT ![c] = "idle"]
    /\ op' = [op EXCEPT ![c] = "none"]
    /\ mem' = [mem EXCEPT ![c] = Fresh]

\* Mutant: the endpoints do not look whether the thread is paused.
MayDecideUnchecked == TRUE

\* A thread with no next node is not at the gate: 409.
MayDecide == cp.next # End

Check(c, o) ==
    /\ Known
    /\ pc[c] = "idle"
    /\ calls < MaxCalls
    /\ MayDecide
    /\ pc' = [pc EXCEPT ![c] = "checked"]
    /\ op' = [op EXCEPT ![c] = o]
    /\ calls' = calls + 1
    /\ approvals' = IF o = "approve" THEN approvals + 1 ELSE approvals
    /\ UNCHANGED <<mode, cp, first, mem, evaluations, confirmed, asked, cancelledAt>>

\* ainvoke(None) loads the latest checkpoint, which another request may have
\* moved since the check; a thread that has ended by then runs nothing.
Resume(c) ==
    /\ pc[c] = "checked"
    /\ op[c] = "approve"
    /\ IF cp.next = End
       THEN /\ Leave(c)
            /\ confirmed' = TRUE
       ELSE /\ pc' = [pc EXCEPT ![c] = "evaluating"]
            /\ mem' = [mem EXCEPT ![c] = cp]
            /\ UNCHANGED <<op, confirmed>>
    /\ UNCHANGED <<mode, cp, first, calls, approvals, evaluations, asked, cancelledAt>>

\* The evaluator has finished on the checkpoint this request resumed from, and
\* what it makes of it becomes the latest one.
Evaluated(c) ==
    /\ pc[c] = "evaluating"
    /\ \E t \in Runs(mem[c].next, mem[c]) :
          /\ cp' = t
          /\ asked' = IF Prompts(mem[c].next, mem[c], t)
                      THEN asked \cup {mem[c].next} ELSE asked
    /\ evaluations' = evaluations + 1
    /\ confirmed' = TRUE
    /\ Leave(c)
    /\ UNCHANGED <<mode, first, calls, approvals, cancelledAt>>

\* aupdate_state reads the latest checkpoint ...
LoadForReject(c) ==
    /\ pc[c] = "checked"
    /\ op[c] = "reject"
    /\ pc' = [pc EXCEPT ![c] = "rejecting"]
    /\ mem' = [mem EXCEPT ![c] = cp]
    /\ UNCHANGED <<mode, cp, first, op, calls, approvals, evaluations,
                   confirmed, asked, cancelledAt>>

\* Mutant: reject starts from a fresh state instead of the one it read.
RejectedAfresh(s) == [Fresh EXCEPT !.step = "rejected"]

Rejected(s) == [s EXCEPT !.step = "rejected"]

\* ... and saves it with current_step = "rejected".
SaveReject(c) ==
    /\ pc[c] = "rejecting"
    /\ cp' = Rejected(mem[c])
    /\ cancelledAt' = IF \A d \in Clients : op[d] # "approve"
                      THEN evaluations ELSE cancelledAt
    /\ Leave(c)
    /\ UNCHANGED <<mode, first, calls, approvals, evaluations, confirmed, asked>>

\* The request fails: the evaluator raises, or the database does.
FailRequest(c) ==
    /\ pc[c] # "idle"
    /\ Leave(c)
    /\ UNCHANGED <<mode, cp, first, calls, approvals, evaluations, confirmed,
                   asked, cancelledAt>>

\* The process stops: every request in flight is lost.
Crash ==
    /\ \E c \in Clients : pc[c] # "idle"
    /\ pc' = [c \in Clients |-> "idle"]
    /\ op' = [c \in Clients |-> "none"]
    /\ mem' = [c \in Clients |-> Fresh]
    /\ UNCHANGED <<mode, cp, first, calls, approvals, evaluations, confirmed,
                   asked, cancelledAt>>

Next ==
    \/ RunNode \/ RunTool \/ Return \/ Lose \/ Crash
    \/ \E c \in Clients :
          \/ \E o \in {"approve", "reject"} : Check(c, o)
          \/ Resume(c) \/ Evaluated(c)
          \/ LoadForReject(c) \/ SaveReject(c)
          \/ FailRequest(c)

Spec == Init /\ [][Next]_vars

-----------------------------------------------------------------------------
(* Properties *)

\* The evaluator runs only behind the gate: never more often than requests to
\* approve came through, so never without one, whatever is retried, rejected or
\* crashes; and approve, which runs whatever node is next, finds a thread that is
\* at the gate or has ended (workflow.py:32-34, applications.py:58-68, 80).
HumanGate ==
    /\ evaluations <= approvals
    /\ Known => cp.next \in {"evaluator", End}

\* A client that is told "approved" is told so of a thread the evaluator has
\* finished at least once, also when two approvals or an approval and a reject
\* overtake each other between check and resume (applications.py:64-68).
ApprovedAnswerIsTrue == confirmed => evaluations > 0

\* Nothing of a description the injection scan flagged reaches a model.  No draft
\* exists for a job that was not decided "apply", neither in the graph or a
\* checkpoint a reject has rebuilt nor by way of a tool, which repeats the graph's
\* rules in code of its own; what is only to score never pays for one; and what
\* waits at the gate for a human was decided "apply", not merely left without a
\* draft by the generator (workflow.py:16-22, 36-38, preprocess.py:31-33,
\* generator.py:19-20, tool_handlers.py:44-51, 82-92, 137-150).
DraftsOnlyForApply ==
    /\ cp.quarantined => asked = {}
    /\ cp.letter \/ "generator" \in asked =>
          cp.decision = "apply" /\ mode \in {"full", "generate_cover_letter"}
    /\ cp.next = "evaluator" => cp.decision = "apply"

\* applications.py:73 says that reject cancels the workflow at the gate.  It
\* leaves the evaluator as the thread's next node, so a later approve passes
\* the check and runs it.
RejectCancels == cancelledAt # NotCancelled => evaluations = cancelledAt

-----------------------------------------------------------------------------
(* The refinement of ApprovalGate *)

\* A rejected thread, and one a late reject has put back before the evaluator, is
\* where its evaluations have brought it.
GateStage ==
    IF ~Known THEN "screening"
    ELSE IF evaluations > 0 THEN "evaluated"
    ELSE IF cp.next = End THEN "closed" ELSE "waiting"

\* The approve requests between their check and their end.
Approving == {c \in Clients : op[c] = "approve"}

Gate == INSTANCE ApprovalGate WITH
            stage <- GateStage, permits <- Cardinality(Approving),
            runs <- evaluations, told <- confirmed

\* The nodes, the checkpoints and the requests that overtake each other come to what
\* ApprovalGate promises: a thread that ended before the gate stays ended, each
\* evaluation is paid for by an approve request of its own, which no other can use
\* again, and "approved" is answered of an evaluated thread only
\* (workflow.py:32-34, applications.py:58-80).
ImplementsGate == Gate!Spec
=============================================================================
