-------------------------- MODULE Workflow_proofs ---------------------------
(***************************************************************************)
(* Theorems about Workflow: for any number of clients and of requests, the *)
(* evaluator never runs more often than approvals came through, a client   *)
(* told "approved" is told the truth, nothing is drafted for a job that    *)
(* was not decided "apply", and the thread implements ApprovalGate.        *)
(***************************************************************************)
EXTENDS Workflow, FiniteSetTheorems, TLAPS

-----------------------------------------------------------------------------
(* The requests *)

\* A request goes with its operation and has passed its check on a thread that is
\* at the gate or, by now, has ended.
RequestInv ==
    \A c \in Clients :
        /\ pc[c] = "idle" <=> op[c] = "none"
        /\ pc[c] = "evaluating" => op[c] = "approve" /\ mem[c].next = "evaluator"
        /\ pc[c] = "rejecting" => op[c] = "reject" /\ mem[c].next \in {"evaluator", End}
        /\ pc[c] # "idle" => Known

\* What the first run may still do: an MCP tool has stages of its own, and the
\* score-only graph stops behind the matcher.
RunInv ==
    /\ Known => cp.next \in {"evaluator", End}
    /\ mode \in Tools => cp.next \in {"preprocess", "matcher", "generator", End}
    /\ mode = "score" =>
          /\ cp.next \in {"preprocess", "profile", "matcher", "generator", End}
          /\ cp.next = "generator" => cp.step = "matcher"

\* Every approval that came through is used up by an evaluation, or by a request
\* that failed, or still waits with its request.
GateInv ==
    /\ IsFiniteSet(Approving)
    /\ evaluations + Cardinality(Approving) <= approvals
    /\ approvals <= calls

IInv == TypeOK /\ RequestInv /\ RunInv /\ GateInv

\* Every node makes a checkpoint of a checkpoint.
LEMMA RunsType ==
    ASSUME NEW s \in Checkpoints, s.next \in Nodes, NEW t \in Runs(s.next, s)
    PROVE  t \in Checkpoints
<1> USE DEF Runs, Checkpoints, Decisions, Nodes, End
<1>1. CASE s.next = "preprocess"
  <2>1. PICK q \in BOOLEAN :
           t = [s EXCEPT !.quarantined = q, !.step = "preprocess",
                         !.next = AfterPreprocess(q)]
    BY <1>1 DEF Preprocess
  <2>2. AfterPreprocess(q) \in {"profile", End}
    BY DEF AfterPreprocess
  <2> QED
    BY <2>1, <2>2
<1>2. CASE s.next = "profile"
  BY <1>2 DEF Profile
<1>3. CASE s.next = "matcher"
  <2>1. PICK d \in Decisions \ {"unset"} :
           t = [s EXCEPT !.decision = d, !.step = "matcher", !.next = AfterMatcher(d)]
    BY <1>3 DEF Matcher
  <2>2. AfterMatcher(d) \in {"generator", End}
    BY DEF AfterMatcher
  <2> QED
    BY <2>1, <2>2
<1>4. CASE s.next = "generator"
  <2>1. CASE GeneratorSkips(s)
    <3>1. t = [s EXCEPT !.step = "generator_skipped", !.next = "evaluator"]
      BY <1>4, <2>1 DEF Generator
    <3> QED
      BY <3>1
  <2>2. CASE ~GeneratorSkips(s)
    <3>1. PICK b \in BOOLEAN :
             t = [s EXCEPT !.letter = b, !.step = "generator", !.next = "evaluator"]
      BY <1>4, <2>2 DEF Generator
    <3> QED
      BY <3>1
  <2> QED
    BY <2>1, <2>2
<1>5. CASE s.next = "evaluator"
  BY <1>5 DEF Evaluator
<1> QED
  BY <1>1, <1>2, <1>3, <1>4, <1>5

LEMMA ToolRunsType ==
    ASSUME NEW tool \in Tools, NEW s \in Checkpoints,
           s.next \in {"preprocess", "matcher", "generator"}, NEW t \in ToolRuns(tool, s)
    PROVE  /\ t \in Checkpoints
           /\ t.next \in {"preprocess", "matcher", "generator", End}
<1> USE DEF ToolRuns, Checkpoints, Decisions, Nodes, End
<1>1. CASE s.next = "preprocess"
  <2>1. PICK q \in BOOLEAN :
           t = [s EXCEPT !.quarantined = q, !.step = "preprocess",
                         !.next = IF q \/ tool = "analyze_jd" THEN End ELSE "matcher"]
    BY <1>1 DEF AnalyzeJd
  <2> QED
    BY <2>1
<1>2. CASE s.next = "matcher"
  <2>1. PICK d \in Decisions \ {"unset"} :
           t = [s EXCEPT !.decision = d, !.step = "matcher",
                         !.next = IF tool = "generate_cover_letter" /\ d = "apply"
                                  THEN "generator" ELSE End]
    BY <1>2 DEF ScoreFit
  <2> QED
    BY <2>1
<1>3. CASE s.next = "generator"
  <2>1. PICK b \in BOOLEAN :
           t = [s EXCEPT !.letter = b, !.step = "generator", !.next = End]
    BY <1>3 DEF GenerateCoverLetter
  <2> QED
    BY <2>1
<1> QED
  BY <1>1, <1>2, <1>3

LEMMA FreshType == Fresh \in Checkpoints
BY DEF Fresh, Checkpoints, Nodes, Decisions

\* A request that leaves is not approving any more.
LEMMA LeaveCounts ==
    ASSUME TypeOK, GateInv, NEW c \in Clients, Leave(c)
    PROVE  /\ Approving' = Approving \ {c}
           /\ IsFiniteSet(Approving')
           /\ Cardinality(Approving') =
                 Cardinality(Approving) - (IF op[c] = "approve" THEN 1 ELSE 0)
<1>1. Approving' = Approving \ {c}
  BY DEF Approving, Leave, TypeOK
<1>2. c \in Approving <=> op[c] = "approve"
  BY DEF Approving
<1>3. IsFiniteSet(Approving) /\ Cardinality(Approving) \in Nat
  BY FS_CardinalityType DEF GateInv
<1>4. /\ IsFiniteSet(Approving \ {c})
      /\ Cardinality(Approving \ {c}) =
            IF c \in Approving THEN Cardinality(Approving) - 1 ELSE Cardinality(Approving)
  BY <1>3, FS_RemoveElement
<1> QED
  BY <1>1, <1>2, <1>3, <1>4

LEMMA InitInv == Init => IInv
<1> SUFFICES ASSUME Init PROVE IInv
  OBVIOUS
<1>1. Approving = {}
  BY DEF Init, Approving
<1>2. IsFiniteSet(Approving) /\ Cardinality(Approving) = 0
  BY <1>1, FS_EmptySet
<1>3. TypeOK
  <2>1. 0 \in 0..MaxCalls /\ NotCancelled \in 0..NotCancelled
    BY MaxCallsAssumption DEF NotCancelled
  <2> QED
    BY <2>1, FreshType DEF Init, TypeOK
<1>4. RequestInv
  BY DEF Init, RequestInv
<1>5. RunInv
  BY DEF Init, RunInv, Fresh, Known
<1>6. GateInv
  BY <1>2 DEF Init, GateInv
<1> QED
  BY <1>3, <1>4, <1>5, <1>6 DEF IInv

-----------------------------------------------------------------------------
(* The first run *)

LEMMA FirstRunStep ==
    ASSUME IInv, RunNode \/ RunTool \/ Return \/ Lose
    PROVE  IInv'
<1> USE DEF IInv, requests
<1>1. \A c \in Clients : first = "running" => pc[c] = "idle"
  BY DEF RequestInv, Known
<1>2. first = "running"
  BY DEF RunNode, RunTool, Return, Lose
<1>3. pc' = pc /\ op' = op /\ mem' = mem /\ calls' = calls /\ approvals' = approvals
      /\ cancelledAt' = cancelledAt /\ confirmed' = confirmed /\ mode' = mode
  BY DEF RunNode, RunTool, Return, Lose
<1>4. Approving' = Approving
  BY <1>3 DEF Approving
<1>5. RequestInv'
  BY <1>1, <1>2, <1>3 DEF RequestInv
<1>6. CASE RunNode
  <2>1. cp \in Checkpoints /\ cp.next \in Nodes /\ cp.next # "evaluator"
    BY <1>6 DEF RunNode, Paused, TypeOK, Checkpoints, Nodes
  <2>2. PICK t \in Runs(cp.next, cp) :
           /\ cp' = t
           /\ asked' = IF Prompts(cp.next, cp, t) THEN asked \cup {cp.next} ELSE asked
    BY <1>6 DEF RunNode
  <2>3. cp' \in Checkpoints
    BY <2>1, <2>2, RunsType
  <2>4. evaluations' = evaluations /\ first' = first
    BY <1>6, <2>1 DEF RunNode
  <2>5. TypeOK'
    BY <1>3, <2>1, <2>2, <2>3, <2>4 DEF TypeOK
  <2>6. ASSUME mode = "score"
        PROVE  /\ cp'.next \in {"preprocess", "profile", "matcher", "generator", End}
               /\ cp'.next = "generator" => cp'.step = "matcher"
    <3>1. cp.next \in {"preprocess", "profile", "matcher"}
      BY <1>6, <2>1, <2>6 DEF RunInv, RunNode, Paused, Nodes
    <3> QED
      BY <2>1, <2>2, <3>1 DEF Runs, Preprocess, Profile, Matcher, AfterPreprocess,
                              AfterMatcher, Checkpoints, Decisions, End
  <2>7. RunInv'
    BY <1>2, <1>3, <1>6, <2>4, <2>6 DEF RunInv, RunNode, Known, Tools
  <2>8. GateInv'
    BY <1>3, <1>4, <2>4 DEF GateInv
  <2> QED
    BY <1>5, <2>5, <2>7, <2>8
<1>7. CASE RunTool
  <2>1. /\ cp \in Checkpoints /\ mode \in Tools
        /\ cp.next \in {"preprocess", "matcher", "generator"}
    BY <1>7 DEF RunTool, TypeOK, RunInv
  <2>2. PICK t \in ToolRuns(mode, cp) :
           /\ cp' = t
           /\ asked' = IF ToolPrompts(cp, t) THEN asked \cup {cp.next} ELSE asked
    BY <1>7 DEF RunTool
  <2>3. cp' \in Checkpoints /\ cp'.next \in {"preprocess", "matcher", "generator", End}
    BY <2>1, <2>2, ToolRunsType
  <2>4. evaluations' = evaluations /\ first' = first
    BY <1>7 DEF RunTool
  <2>5. TypeOK'
    BY <1>3, <2>1, <2>2, <2>3, <2>4 DEF TypeOK, Nodes
  <2>6. RunInv'
    BY <1>3, <2>1, <2>3, <2>4 DEF RunInv, Known, Tools
  <2> QED
    BY <1>3, <1>4, <1>5, <2>4, <2>5, <2>6 DEF GateInv
<1>8. CASE Return \/ Lose
  <2>1. /\ cp' = cp /\ evaluations' = evaluations /\ asked' = asked
        /\ first' \in {"returned", "lost"}
    BY <1>8 DEF Return, Lose
  <2>2. TypeOK'
    BY <1>3, <2>1 DEF TypeOK
  <2>3. ASSUME Known' PROVE cp'.next \in {"evaluator", End}
    BY <1>3, <1>8, <2>1, <2>3 DEF Known, Return, Lose, Paused
  <2>4. RunInv'
    BY <1>3, <2>1, <2>3 DEF RunInv
  <2> QED
    BY <1>3, <1>4, <1>5, <2>1, <2>2, <2>4 DEF GateInv
<1> QED
  BY <1>6, <1>7, <1>8

-----------------------------------------------------------------------------
(* The endpoints *)

LEMMA CheckStep ==
    ASSUME IInv, NEW c \in Clients, NEW o \in {"approve", "reject"}, Check(c, o)
    PROVE  IInv'
<1> USE DEF IInv
<1>1. op[c] = "none" /\ op' = [op EXCEPT ![c] = o] /\ op \in [Clients -> {"none", "approve", "reject"}]
  BY DEF Check, RequestInv, TypeOK
<1>2. TypeOK'
  BY MaxCallsAssumption DEF Check, TypeOK, GateInv
<1>3. RequestInv'
  BY DEF Check, RequestInv, Known, TypeOK
<1>4. RunInv'
  BY DEF Check, RunInv, Known
<1>5. IsFiniteSet(Approving) /\ Cardinality(Approving) \in Nat
  BY FS_CardinalityType DEF GateInv
<1>6. CASE o = "approve"
  <2>1. Approving' = Approving \cup {c} /\ c \notin Approving
    BY <1>1, <1>6 DEF Approving
  <2>2. IsFiniteSet(Approving') /\ Cardinality(Approving') = Cardinality(Approving) + 1
    BY <1>5, <2>1, FS_AddElement
  <2> QED
    BY <1>2, <1>3, <1>4, <1>5, <1>6, <2>2 DEF Check, GateInv, TypeOK
<1>7. CASE o = "reject"
  <2>1. Approving' = Approving
    BY <1>1, <1>7 DEF Approving
  <2> QED
    BY <1>2, <1>3, <1>4, <1>5, <1>7, <2>1 DEF Check, GateInv, TypeOK
<1> QED
  BY <1>6, <1>7

\* What a request does after its check: it leaves, or it keeps its operation.
LEMMA RequestStep ==
    ASSUME IInv, NEW c \in Clients,
           Resume(c) \/ Evaluated(c) \/ LoadForReject(c) \/ SaveReject(c) \/ FailRequest(c)
    PROVE  IInv'
<1> USE DEF IInv
<1>1. pc[c] # "idle" /\ Known /\ cp.next \in {"evaluator", End}
      /\ mode' = mode /\ first' = first /\ calls' = calls /\ approvals' = approvals
  BY DEF Resume, Evaluated, LoadForReject, SaveReject, FailRequest, RequestInv, RunInv
<1>2. Known' /\ Known
  BY <1>1 DEF Known
<1>3. IsFiniteSet(Approving) /\ Cardinality(Approving) \in Nat
  BY FS_CardinalityType DEF GateInv
<1>4. evaluations \in Nat /\ approvals \in Nat /\ calls \in Nat
  BY MaxCallsAssumption DEF TypeOK
<1>5. CASE (Resume(c) /\ cp.next # End) \/ LoadForReject(c)
  <2>1. op' = op /\ cp' = cp /\ evaluations' = evaluations
    BY <1>5 DEF Resume, LoadForReject
  <2>2. Approving' = Approving
    BY <2>1 DEF Approving
  <2>3. TypeOK'
    BY <1>5 DEF Resume, LoadForReject, TypeOK
  <2>4. RequestInv'
    BY <1>1, <1>2, <1>5, <2>1 DEF Resume, LoadForReject, RequestInv, TypeOK
  <2> QED
    BY <1>1, <2>1, <2>2, <2>3, <2>4 DEF RunInv, GateInv, Known, Tools
<1>6. CASE Leave(c) /\ evaluations' = evaluations
  <2>1. cp' \in Checkpoints /\ cp'.next \in {"evaluator", End}
    BY <1>1, <1>6 DEF Resume, Evaluated, LoadForReject, SaveReject, FailRequest, Leave,
                      TypeOK, RequestInv, Rejected, Checkpoints, Nodes
  <2>2. /\ pc' \in [Clients -> {"idle", "checked", "evaluating", "rejecting"}]
        /\ op' \in [Clients -> {"none", "approve", "reject"}]
        /\ mem' \in [Clients -> Checkpoints]
    BY <1>6, FreshType DEF Leave, TypeOK
  <2>6. evaluations \in 0..NotCancelled
    BY <1>4, MaxCallsAssumption DEF TypeOK, NotCancelled
  <2>7. /\ confirmed' \in BOOLEAN /\ asked' \subseteq Nodes
        /\ cancelledAt' \in 0..NotCancelled
    <3>1. ~Evaluated(c)
      BY <1>4, <1>6 DEF Evaluated
    <3> QED
      BY <2>6, <3>1 DEF Resume, LoadForReject, SaveReject, FailRequest, TypeOK
  <2>8. TypeOK'
    BY <1>1, <1>6, <2>1, <2>2, <2>7 DEF TypeOK
  <2>3. RequestInv'
    BY <1>2, <1>6 DEF Leave, RequestInv, TypeOK
  <2>4. RunInv'
    BY <1>1, <2>1 DEF RunInv, Known, Tools
  <2>5. GateInv'
    BY <1>1, <1>3, <1>4, <1>6, LeaveCounts DEF GateInv
  <2> QED
    BY <2>3, <2>4, <2>5, <2>8
<1>7. CASE Evaluated(c)
  <2>1. op[c] = "approve" /\ mem[c].next = "evaluator" /\ mem[c] \in Checkpoints
    BY <1>7 DEF Evaluated, RequestInv, TypeOK
  <2>2. PICK t \in Runs(mem[c].next, mem[c]) :
           /\ cp' = t
           /\ asked' = IF Prompts(mem[c].next, mem[c], t)
                       THEN asked \cup {mem[c].next} ELSE asked
    BY <1>7 DEF Evaluated
  <2>3. cp' \in Checkpoints /\ cp'.next = End
    BY <2>1, <2>2 DEF Runs, Evaluator, Checkpoints, Nodes, End
  <2>4. evaluations' = evaluations + 1 /\ Leave(c)
    BY <1>7 DEF Evaluated
  <2>5. GateInv'
    BY <1>1, <1>3, <1>4, <2>1, <2>4, LeaveCounts DEF GateInv
  <2>6. evaluations' \in 0..MaxCalls
    <3>1. Cardinality(Approving') \in Nat
      BY <2>5, FS_CardinalityType DEF GateInv
    <3> QED
      BY <1>1, <1>4, <2>4, <2>5, <3>1, MaxCallsAssumption DEF GateInv, TypeOK
  <2>7. TypeOK'
    BY <1>7, <2>1, <2>2, <2>3, <2>6, FreshType DEF Evaluated, Leave, TypeOK, Nodes
  <2>8. RequestInv'
    BY <1>2, <2>4 DEF Leave, RequestInv, TypeOK
  <2>9. RunInv'
    BY <1>1, <2>3 DEF RunInv, Known, Tools
  <2> QED
    BY <2>5, <2>7, <2>8, <2>9
<1>8. \/ Resume(c) /\ cp.next # End
      \/ LoadForReject(c)
      \/ Leave(c) /\ evaluations' = evaluations
      \/ Evaluated(c)
  BY DEF Resume, SaveReject, FailRequest
<1> QED
  BY <1>5, <1>6, <1>7, <1>8

LEMMA CrashStep ==
    ASSUME IInv, Crash
    PROVE  IInv'
<1> USE DEF IInv
<1>1. Approving' = {}
  BY DEF Crash, Approving
<1>2. IsFiniteSet(Approving') /\ Cardinality(Approving') = 0 /\ Cardinality(Approving) \in Nat
  BY <1>1, FS_EmptySet, FS_CardinalityType DEF GateInv
<1>3. TypeOK'
  BY FreshType DEF Crash, TypeOK
<1>4. RequestInv'
  BY DEF Crash, RequestInv
<1>5. RunInv'
  BY DEF Crash, RunInv, Known
<1> QED
  BY <1>2, <1>3, <1>4, <1>5, MaxCallsAssumption DEF Crash, GateInv, TypeOK

LEMMA InvStep == IInv /\ [Next]_vars => IInv'
<1> SUFFICES ASSUME IInv, [Next]_vars PROVE IInv'
  OBVIOUS
<1>1. CASE UNCHANGED vars
  BY <1>1 DEF IInv, vars, TypeOK, RequestInv, RunInv, GateInv, Known, Approving
<1>2. CASE RunNode \/ RunTool \/ Return \/ Lose
  BY <1>2, FirstRunStep
<1>3. CASE Crash
  BY <1>3, CrashStep
<1>4. CASE \E c \in Clients : \E o \in {"approve", "reject"} : Check(c, o)
  BY <1>4, CheckStep
<1>5. CASE \E c \in Clients :
              Resume(c) \/ Evaluated(c) \/ LoadForReject(c) \/ SaveReject(c) \/ FailRequest(c)
  BY <1>5, RequestStep
<1> QED
  BY <1>1, <1>2, <1>3, <1>4, <1>5 DEF Next

LEMMA InvCorrect == Spec => []IInv
BY InitInv, InvStep, PTL DEF Spec

\* Every state of every behaviour is typed.
THEOREM TypeCorrect == Spec => []TypeOK
<1>1. IInv => TypeOK
  BY DEF IInv
<1> QED
  BY <1>1, InvCorrect, PTL

\* The evaluator runs only behind the gate, however many requests to approve and
\* reject overlap, fail or crash (workflow.py:32-34, applications.py:58-68).
THEOREM GateHolds == Spec => []HumanGate
<1>1. IInv => HumanGate
  <2> SUFFICES ASSUME IInv PROVE HumanGate
    OBVIOUS
  <2>1. Cardinality(Approving) \in Nat
    BY FS_CardinalityType DEF IInv, GateInv
  <2> QED
    BY <2>1, MaxCallsAssumption DEF IInv, GateInv, RunInv, HumanGate, TypeOK
<1> QED
  BY <1>1, InvCorrect, PTL

-----------------------------------------------------------------------------
(* The answers *)

\* A thread that ended under a request was evaluated: the request found it at the
\* gate.  So was one whose end a reject has read and is about to save again.
AnswerInv ==
    /\ ApprovedAnswerIsTrue
    /\ \A c \in Clients :
          /\ pc[c] # "idle" /\ cp.next = End => evaluations > 0
          /\ pc[c] = "rejecting" /\ mem[c].next = End => evaluations > 0

LEMMA AnswerStep ==
    ASSUME IInv, AnswerInv, [Next]_vars
    PROVE  AnswerInv'
<1> USE DEF IInv, AnswerInv, ApprovedAnswerIsTrue
<1>1. CASE UNCHANGED vars
  BY <1>1 DEF vars
<1>2. CASE RunNode \/ RunTool \/ Return \/ Lose
  <2>1. \A c \in Clients : pc'[c] = "idle"
    BY <1>2 DEF RunNode, RunTool, Return, Lose, requests, RequestInv, Known
  <2>2. confirmed' = confirmed /\ (evaluations' = evaluations \/ evaluations' = evaluations + 1)
    BY <1>2 DEF RunNode, RunTool, Return, Lose, requests
  <2> QED
    BY <2>1, <2>2 DEF TypeOK
<1>3. CASE Crash
  BY <1>3 DEF Crash
<1>4. ASSUME NEW c \in Clients, NEW o \in {"approve", "reject"}, Check(c, o)
      PROVE  AnswerInv'
  BY <1>4 DEF Check, MayDecide, TypeOK
<1>5. ASSUME NEW c \in Clients, Resume(c) PROVE AnswerInv'
  BY <1>5 DEF Resume, Leave, TypeOK
<1>6. ASSUME NEW c \in Clients, Evaluated(c) PROVE AnswerInv'
  <2>1. evaluations' > 0
    BY <1>6 DEF Evaluated, TypeOK
  <2> QED
    BY <2>1
<1>7. ASSUME NEW c \in Clients, LoadForReject(c) PROVE AnswerInv'
  BY <1>7 DEF LoadForReject, TypeOK
<1>8. ASSUME NEW c \in Clients, SaveReject(c) PROVE AnswerInv'
  <2>1. cp'.next = mem[c].next
    BY <1>8 DEF SaveReject, Rejected, TypeOK, Checkpoints
  <2> QED
    BY <1>8, <2>1 DEF SaveReject, Leave, TypeOK
<1>9. ASSUME NEW c \in Clients, FailRequest(c) PROVE AnswerInv'
  BY <1>9 DEF FailRequest, Leave, TypeOK
<1> QED
  BY <1>1, <1>2, <1>3, <1>4, <1>5, <1>6, <1>7, <1>8, <1>9 DEF Next

\* A client told "approved" is told so of a thread that has been evaluated
\* (applications.py:64-68).
THEOREM AnswersTrue == Spec => []ApprovedAnswerIsTrue
<1>1. Init => AnswerInv
  BY DEF Init, AnswerInv, ApprovedAnswerIsTrue
<1>2. AnswerInv => ApprovedAnswerIsTrue
  BY DEF AnswerInv
<1> QED
  BY <1>1, <1>2, AnswerStep, InvCorrect, PTL DEF Spec

-----------------------------------------------------------------------------
(* The refinement of ApprovalGate *)

\* Only a thread whose id a client was given has been evaluated.
KnownInv == evaluations > 0 => Known

MapInv == IInv /\ AnswerInv /\ KnownInv

LEMMA KnownStep ==
    ASSUME IInv, KnownInv, [Next]_vars
    PROVE  KnownInv'
<1> USE DEF IInv, KnownInv
<1>1. CASE RunNode
  <2>1. cp.next # "evaluator"
    BY <1>1 DEF RunNode, Paused
  <2> QED
    BY <1>1, <2>1 DEF RunNode, Known
<1>2. CASE RunTool \/ Return \/ Lose \/ Crash
  BY <1>2 DEF RunTool, Return, Lose, Crash, requests, Known
<1>3. ASSUME NEW c \in Clients, \E o \in {"approve", "reject"} : Check(c, o)
      PROVE  KnownInv'
  BY <1>3 DEF Check, Known
<1>4. ASSUME NEW c \in Clients,
             Resume(c) \/ Evaluated(c) \/ LoadForReject(c) \/ SaveReject(c) \/ FailRequest(c)
      PROVE  KnownInv'
  <2>1. Known /\ mode' = mode /\ first' = first
    BY <1>4 DEF Resume, Evaluated, LoadForReject, SaveReject, FailRequest, RequestInv
  <2> QED
    BY <2>1 DEF Known
<1>5. CASE UNCHANGED vars
  BY <1>5 DEF vars, Known
<1> QED
  BY <1>1, <1>2, <1>3, <1>4, <1>5 DEF Next

\* No permit is out before the thread is known.
LEMMA NoPermits ==
    ASSUME IInv, ~Known
    PROVE  Approving = {} /\ Cardinality(Approving) = 0
<1>1. Approving = {}
  BY DEF IInv, RequestInv, Approving
<1> QED
  BY <1>1, FS_EmptySet

\* A thread with a request in flight is before the evaluator or past it.
LEMMA InFlightOpen ==
    ASSUME MapInv, NEW c \in Clients, pc[c] # "idle"
    PROVE  GateStage \in {"waiting", "evaluated"} /\ (cp.next = End => GateStage = "evaluated")
BY DEF MapInv, IInv, RequestInv, RunInv, AnswerInv, GateStage

GateVars == <<GateStage, Cardinality(Approving), evaluations, confirmed>>

\* The first run screens the thread, unseen until its caller has the answer.
LEMMA FirstRunMaps ==
    ASSUME MapInv, RunNode \/ RunTool \/ Return \/ Lose
    PROVE  [Gate!Next]_GateVars
<1> USE DEF MapInv
<1>1. /\ ~Known /\ evaluations = 0 /\ op' = op /\ confirmed' = confirmed
      /\ evaluations' = evaluations
  <2>1. ~Known /\ op' = op /\ confirmed' = confirmed
    BY DEF RunNode, RunTool, Return, Lose, requests, Known
  <2>2. evaluations = 0
    BY <2>1 DEF KnownInv, IInv, TypeOK
  <2>3. evaluations' = evaluations
    BY DEF RunNode, RunTool, Return, Lose, requests, Paused
  <2> QED
    BY <2>1, <2>2, <2>3
<1>2. Cardinality(Approving)' = Cardinality(Approving)
  BY <1>1 DEF Approving
<1>3. GateStage = "screening" /\ GateStage' \in {"screening", "waiting", "closed"}
  BY <1>1 DEF GateStage
<1>4. CASE GateStage' = "screening"
  BY <1>1, <1>2, <1>3, <1>4 DEF GateVars
<1>5. CASE GateStage' \in {"waiting", "closed"}
  BY <1>1, <1>2, <1>3, <1>5 DEF Gate!Next, Gate!Screen
<1> QED
  BY <1>3, <1>4, <1>5

\* An approve that passes its check is a permit, a reject is none.
LEMMA CheckMaps ==
    ASSUME MapInv, NEW c \in Clients, NEW o \in {"approve", "reject"}, Check(c, o)
    PROVE  [Gate!Next]_GateVars
<1> USE DEF MapInv
<1>1. /\ Known /\ cp.next # End /\ op[c] = "none" /\ op' = [op EXCEPT ![c] = o]
      /\ op \in [Clients -> {"none", "approve", "reject"}]
      /\ UNCHANGED <<mode, first, cp, evaluations, confirmed>>
  BY DEF Check, MayDecide, IInv, RequestInv, TypeOK
<1>2. GateStage \in {"waiting", "evaluated"} /\ GateStage' = GateStage
  BY <1>1 DEF GateStage, Known
<1>3. CASE o = "approve"
  <2>1. Approving' = Approving \cup {c} /\ c \notin Approving
    BY <1>1, <1>3 DEF Approving
  <2>2. Cardinality(Approving') = Cardinality(Approving) + 1
    BY <2>1, FS_AddElement DEF IInv, GateInv
  <2> QED
    BY <1>1, <1>2, <2>2 DEF Gate!Next, Gate!Permit, Gate!Open
<1>4. CASE o = "reject"
  <2>1. Approving' = Approving
    BY <1>1, <1>4 DEF Approving
  <2> QED
    BY <1>1, <1>2, <2>1 DEF GateVars
<1> QED
  BY <1>3, <1>4

\* A request that acts or leaves uses up its own permit, if it has one.
LEMMA RequestMaps ==
    ASSUME MapInv, MapInv', NEW c \in Clients,
           Resume(c) \/ Evaluated(c) \/ LoadForReject(c) \/ SaveReject(c) \/ FailRequest(c)
    PROVE  [Gate!Next]_GateVars
<1> USE DEF MapInv
<1> DEFINE n == Cardinality(Approving)
<1>1. /\ pc[c] # "idle" /\ Known /\ Known'
      /\ cp.next \in {"evaluator", End}
  BY DEF Resume, Evaluated, LoadForReject, SaveReject, FailRequest, IInv, RequestInv,
         RunInv, Known
<1>2. GateStage \in {"waiting", "evaluated"} /\ (cp.next = End => GateStage = "evaluated")
  BY <1>1, InFlightOpen
<1>3. n \in Nat
  BY FS_CardinalityType DEF IInv, GateInv
<1>4. ASSUME Leave(c)
      PROVE  n' = n - (IF op[c] = "approve" THEN 1 ELSE 0) /\ n' \in Nat
  <2>1. n' \in Nat
    BY FS_CardinalityType DEF IInv, GateInv
  <2> QED
    BY <1>4, <2>1, LeaveCounts DEF IInv
<1>5. CASE Resume(c) /\ cp.next = End
  <2>1. /\ Leave(c) /\ op[c] = "approve" /\ confirmed' = TRUE
        /\ UNCHANGED <<mode, cp, first, evaluations>>
    BY <1>5 DEF Resume
  <2>2. GateStage = "evaluated" /\ GateStage' = GateStage
    BY <1>2, <1>5, <2>1 DEF GateStage, Known
  <2>3. n > 0 /\ n' = n - 1
    BY <1>3, <1>4, <2>1
  <2> QED
    BY <2>1, <2>2, <2>3 DEF Gate!Next, Gate!Confirm
<1>6. CASE (Resume(c) /\ cp.next # End) \/ LoadForReject(c)
  <2>1. UNCHANGED <<mode, cp, first, evaluations, confirmed, op>>
    BY <1>6 DEF Resume, LoadForReject
  <2>2. GateStage' = GateStage
    BY <2>1 DEF GateStage, Known
  <2>3. Approving' = Approving
    BY <2>1 DEF Approving
  <2> QED
    BY <2>1, <2>2, <2>3 DEF GateVars
<1>7. CASE Evaluated(c)
  <2>1. /\ Leave(c) /\ op[c] = "approve" /\ confirmed' = TRUE
        /\ evaluations' = evaluations + 1 /\ evaluations \in Nat
    BY <1>7, MaxCallsAssumption DEF Evaluated, IInv, RequestInv, TypeOK
  <2>2. GateStage' = "evaluated"
    BY <1>1, <2>1 DEF GateStage
  <2>3. n > 0 /\ n' = n - 1
    BY <1>3, <1>4, <2>1
  <2> QED
    BY <1>2, <2>1, <2>2, <2>3 DEF Gate!Next, Gate!Evaluate, Gate!Open
<1>8. CASE SaveReject(c)
  <2>1. /\ Leave(c) /\ op[c] = "reject" /\ cp' = Rejected(mem[c])
        /\ UNCHANGED <<evaluations, confirmed>>
    BY <1>8 DEF SaveReject, IInv, RequestInv
  <2>2. cp'.next = mem[c].next /\ mem[c].next \in {"evaluator", End}
    BY <1>8, <2>1 DEF SaveReject, Rejected, IInv, RequestInv, TypeOK, Checkpoints
  <2>3. mem[c].next = End => evaluations > 0
    BY <1>8 DEF SaveReject, AnswerInv
  <2>4. GateStage' = GateStage
    BY <1>1, <1>2, <2>1, <2>2, <2>3 DEF GateStage, End
  <2>5. n' = n
    BY <1>3, <1>4, <2>1
  <2> QED
    BY <2>1, <2>4, <2>5 DEF GateVars
<1>9. CASE FailRequest(c)
  <2>1. Leave(c) /\ UNCHANGED <<mode, cp, first, evaluations, confirmed>>
    BY <1>9 DEF FailRequest
  <2>2. GateStage' = GateStage
    BY <2>1 DEF GateStage, Known
  <2>3. n' \in 0..n
    BY <1>3, <1>4, <2>1
  <2> QED
    BY <2>1, <2>2, <2>3 DEF Gate!Next, Gate!Lapse
<1> QED
  BY <1>5, <1>6, <1>7, <1>8, <1>9

LEMMA CrashMaps ==
    ASSUME MapInv, Crash
    PROVE  [Gate!Next]_GateVars
<1>1. UNCHANGED <<mode, cp, first, evaluations, confirmed>> /\ Approving' = {}
  BY DEF Crash, Approving
<1>2. GateStage' = GateStage
  BY <1>1 DEF GateStage, Known
<1>3. Cardinality(Approving') = 0 /\ Cardinality(Approving) \in Nat
  BY <1>1, FS_EmptySet, FS_CardinalityType DEF MapInv, IInv, GateInv
<1>4. Cardinality(Approving)' \in 0..Cardinality(Approving)
  BY <1>3
<1> QED
  BY <1>1, <1>2, <1>4 DEF Gate!Next, Gate!Lapse

LEMMA GateMaps ==
    ASSUME MapInv, MapInv', [Next]_vars
    PROVE  [Gate!Next]_GateVars
<1>1. CASE UNCHANGED vars
  BY <1>1 DEF vars, GateVars, GateStage, Known, Approving
<1>2. CASE RunNode \/ RunTool \/ Return \/ Lose
  BY <1>2, FirstRunMaps
<1>3. CASE Crash
  BY <1>3, CrashMaps
<1>4. CASE \E c \in Clients : \E o \in {"approve", "reject"} : Check(c, o)
  BY <1>4, CheckMaps
<1>5. CASE \E c \in Clients :
              Resume(c) \/ Evaluated(c) \/ LoadForReject(c) \/ SaveReject(c) \/ FailRequest(c)
  BY <1>5, RequestMaps
<1> QED
  BY <1>1, <1>2, <1>3, <1>4, <1>5 DEF Next

\* The thread and its requests implement ApprovalGate (ImplementsGate), whatever
\* overtakes what (workflow.py:32-34, applications.py:58-80).
THEOREM GateRefined == Spec => ImplementsGate
<1>1. Init => AnswerInv /\ KnownInv
  BY DEF Init, AnswerInv, ApprovedAnswerIsTrue, KnownInv
<1>2. IInv /\ AnswerInv /\ KnownInv /\ [Next]_vars => AnswerInv' /\ KnownInv'
  BY AnswerStep, KnownStep
<1>3. Init => Gate!Init
  <2> SUFFICES ASSUME Init PROVE Gate!Init
    OBVIOUS
  <2>1. IInv /\ ~Known
    BY InitInv DEF Init, Known
  <2>2. Cardinality(Approving) = 0
    BY <2>1, NoPermits
  <2> QED
    BY <2>1, <2>2 DEF Init, Gate!Init, GateStage
<1>4. IInv /\ AnswerInv /\ KnownInv /\ IInv' /\ AnswerInv' /\ KnownInv' /\ [Next]_vars
          => [Gate!Next]_GateVars
  BY GateMaps DEF MapInv
<1> QED
  BY <1>1, <1>2, <1>3, <1>4, InvCorrect, PTL
     DEF Spec, ImplementsGate, Gate!Spec, Gate!vars, GateVars

-----------------------------------------------------------------------------
(* The drafts *)

\* What the model's work on a thread has come to is settled when the first run
\* returns, and every request works on that: only before may it grow, stage by
\* stage.
DraftInv ==
    /\ DraftsOnlyForApply
    /\ cp.quarantined => cp.next = End
    /\ first = "running" /\ cp.next = "preprocess" => asked = {}
    /\ cp.next \in {"preprocess", "profile", "matcher"} =>
          ~cp.letter /\ "generator" \notin asked
    /\ cp.next = "generator" => cp.decision = "apply" /\ mode \notin {"analyze_jd", "score_fit"}
    /\ \A c \in Clients :
          /\ pc[c] # "idle" => ~cp.quarantined
          /\ pc[c] \in {"evaluating", "rejecting"} =>
                /\ mem[c].quarantined = cp.quarantined
                /\ mem[c].decision = cp.decision
                /\ mem[c].letter = cp.letter
                /\ mem[c].next = "evaluator" => mem[c].decision = "apply"

\* The node that runs next in the first run of the graph.
LEMMA NodeDrafts ==
    ASSUME IInv, DraftInv, RunNode
    PROVE  DraftInv'
<1> USE DEF IInv
<1>1. /\ cp \in Checkpoints /\ cp.next \in Nodes /\ cp.next # "evaluator"
      /\ mode \in {"full", "score"} /\ first = "running" /\ asked \subseteq Nodes
  BY DEF RunNode, Paused, TypeOK, Checkpoints, Nodes, Modes
<1>2. PICK t \in Runs(cp.next, cp) :
         /\ cp' = t
         /\ asked' = IF Prompts(cp.next, cp, t) THEN asked \cup {cp.next} ELSE asked
  BY DEF RunNode
<1>3. mode' = mode /\ first' = first /\ \A c \in Clients : pc'[c] = "idle"
  BY <1>1 DEF RunNode, RequestInv, Known
<1>4. CASE cp.next = "preprocess"
  <2>1. PICK q \in BOOLEAN :
           cp' = [cp EXCEPT !.quarantined = q, !.step = "preprocess",
                            !.next = AfterPreprocess(q)]
    BY <1>2, <1>4 DEF Runs, Preprocess
  <2>2. /\ cp'.quarantined = q /\ cp'.letter = cp.letter
        /\ cp'.next = IF q THEN End ELSE "profile"
    BY <1>1, <2>1 DEF AfterPreprocess, Checkpoints
  <2>3. asked' = IF q THEN {} ELSE {"preprocess"}
    BY <1>1, <1>2, <1>4, <2>2 DEF Prompts, DraftInv
  <2> QED
    BY <1>1, <1>3, <1>4, <2>2, <2>3 DEF DraftInv, DraftsOnlyForApply, End
<1>5. CASE cp.next = "profile"
  <2>1. cp' = [cp EXCEPT !.step = "profile", !.next = "matcher"]
    BY <1>2, <1>5 DEF Runs, Profile
  <2>2. /\ cp'.quarantined = cp.quarantined /\ cp'.letter = cp.letter
        /\ cp'.next = "matcher" /\ asked' \subseteq asked \cup {"profile"}
    BY <1>1, <1>2, <1>5, <2>1 DEF Checkpoints
  <2> QED
    BY <1>1, <1>3, <1>5, <2>2 DEF DraftInv, DraftsOnlyForApply, End
<1>6. CASE cp.next = "matcher"
  <2>1. PICK d \in Decisions \ {"unset"} :
           cp' = [cp EXCEPT !.decision = d, !.step = "matcher", !.next = AfterMatcher(d)]
    BY <1>2, <1>6 DEF Runs, Matcher
  <2>2. /\ cp'.quarantined = cp.quarantined /\ cp'.letter = cp.letter /\ cp'.decision = d
        /\ cp'.next = IF d = "apply" THEN "generator" ELSE End
        /\ asked' \subseteq asked \cup {"matcher"}
    BY <1>1, <1>2, <1>6, <2>1 DEF AfterMatcher, Checkpoints
  <2> QED
    BY <1>1, <1>3, <1>6, <2>2 DEF DraftInv, DraftsOnlyForApply, End
<1>7. CASE cp.next = "generator"
  <2>1. PICK b \in BOOLEAN :
           cp' = [cp EXCEPT !.letter = b, !.step = "generator", !.next = "evaluator"]
    BY <1>2, <1>7 DEF Runs, Generator, GeneratorSkips, DraftInv
  <2>2. /\ cp'.quarantined = cp.quarantined /\ cp'.decision = cp.decision
        /\ cp'.next = "evaluator"
    BY <1>1, <2>1 DEF Checkpoints
  <2>3. mode = "full"
    BY <1>1, <1>7 DEF RunNode, Paused, RunInv
  <2> QED
    BY <1>1, <1>3, <1>7, <2>2, <2>3 DEF DraftInv, DraftsOnlyForApply, End
<1> QED
  BY <1>1, <1>4, <1>5, <1>6, <1>7 DEF Nodes

\* The stage that runs next of an MCP tool.
LEMMA ToolDrafts ==
    ASSUME IInv, DraftInv, RunTool
    PROVE  DraftInv'
<1> USE DEF IInv
<1>1. /\ cp \in Checkpoints /\ cp.next \in {"preprocess", "matcher", "generator"}
      /\ mode \in Tools /\ first = "running" /\ asked \subseteq Nodes
  BY DEF RunTool, RunInv, TypeOK
<1>2. PICK t \in ToolRuns(mode, cp) :
         /\ cp' = t
         /\ asked' = IF ToolPrompts(cp, t) THEN asked \cup {cp.next} ELSE asked
  BY DEF RunTool
<1>3. mode' = mode /\ first' = first /\ \A c \in Clients : pc'[c] = "idle"
  BY <1>1 DEF RunTool, requests, RequestInv, Known
<1>4. CASE cp.next = "preprocess"
  <2>1. PICK q \in BOOLEAN :
           cp' = [cp EXCEPT !.quarantined = q, !.step = "preprocess",
                            !.next = IF q \/ mode = "analyze_jd" THEN End ELSE "matcher"]
    BY <1>2, <1>4 DEF ToolRuns, AnalyzeJd
  <2>2. /\ cp'.quarantined = q /\ cp'.letter = cp.letter
        /\ cp'.next \in {"matcher", End} /\ (q => cp'.next = End)
    BY <1>1, <2>1 DEF Checkpoints
  <2>3. asked' = IF q THEN {} ELSE {"preprocess"}
    BY <1>1, <1>2, <1>4, <2>2 DEF ToolPrompts, DraftInv
  <2> QED
    BY <1>1, <1>3, <1>4, <2>2, <2>3 DEF DraftInv, DraftsOnlyForApply, End
<1>5. CASE cp.next = "matcher"
  <2>1. PICK d \in Decisions \ {"unset"} :
           cp' = [cp EXCEPT !.decision = d, !.step = "matcher",
                            !.next = IF mode = "generate_cover_letter" /\ d = "apply"
                                     THEN "generator" ELSE End]
    BY <1>2, <1>5 DEF ToolRuns, ScoreFit
  <2>2. /\ cp'.quarantined = cp.quarantined /\ cp'.letter = cp.letter /\ cp'.decision = d
        /\ cp'.next = IF mode = "generate_cover_letter" /\ d = "apply"
                      THEN "generator" ELSE End
        /\ asked' \subseteq asked \cup {"matcher"}
    BY <1>1, <1>2, <1>5, <2>1 DEF Checkpoints
  <2> QED
    BY <1>1, <1>3, <1>5, <2>2 DEF DraftInv, DraftsOnlyForApply, End
<1>6. CASE cp.next = "generator"
  <2>1. PICK b \in BOOLEAN :
           cp' = [cp EXCEPT !.letter = b, !.step = "generator", !.next = End]
    BY <1>2, <1>6 DEF ToolRuns, GenerateCoverLetter
  <2>2. /\ cp'.quarantined = cp.quarantined /\ cp'.decision = cp.decision
        /\ cp'.next = End
    BY <1>1, <2>1 DEF Checkpoints
  <2> QED
    BY <1>1, <1>3, <1>6, <2>2 DEF DraftInv, DraftsOnlyForApply, End, Tools
<1> QED
  BY <1>1, <1>4, <1>5, <1>6

\* A request writes what it read, but for the step and the end.
LEMMA RequestDrafts ==
    ASSUME IInv, DraftInv, NEW c \in Clients, Evaluated(c) \/ SaveReject(c)
    PROVE  DraftInv'
<1> USE DEF IInv
<1>1. /\ pc[c] \in {"evaluating", "rejecting"} /\ Known /\ mem[c] \in Checkpoints
      /\ cp.next \in {"evaluator", End}
      /\ mode' = mode /\ first' = first /\ Leave(c)
  BY DEF Evaluated, SaveReject, RequestInv, RunInv, TypeOK
<1>2. /\ cp'.quarantined = mem[c].quarantined /\ cp'.decision = mem[c].decision
      /\ cp'.letter = mem[c].letter /\ cp'.next \in {"evaluator", End}
      /\ asked' \subseteq asked \cup {"evaluator"}
      /\ cp'.next = "evaluator" => mem[c].next = "evaluator"
  <2>1. CASE Evaluated(c)
    <3>1. mem[c].next = "evaluator"
      BY <2>1 DEF Evaluated, RequestInv
    <3>2. /\ cp' = [mem[c] EXCEPT
                      !.step = IF EvaluatorSkips(mem[c]) THEN "evaluator_skipped" ELSE "evaluator",
                      !.next = End]
          /\ asked' \subseteq asked \cup {"evaluator"}
      BY <2>1, <3>1 DEF Evaluated, Runs, Evaluator
    <3> QED
      BY <1>1, <3>1, <3>2 DEF Checkpoints
  <2>2. CASE SaveReject(c)
    BY <1>1, <2>2 DEF SaveReject, Rejected, RequestInv, Checkpoints
  <2> QED
    BY <2>1, <2>2
<1>3. /\ cp'.quarantined = cp.quarantined /\ cp'.decision = cp.decision
      /\ cp'.letter = cp.letter /\ ~cp.quarantined
  BY <1>1, <1>2 DEF DraftInv
<1>4. cp'.next = "evaluator" => cp'.decision = "apply"
  BY <1>1, <1>2 DEF DraftInv
<1>5. \A d \in Clients : d # c => pc'[d] = pc[d] /\ mem'[d] = mem[d]
  BY <1>1 DEF Leave, TypeOK
<1>6. pc'[c] = "idle"
  BY <1>1 DEF Leave, TypeOK
<1> QED
  BY <1>1, <1>2, <1>3, <1>4, <1>5, <1>6 DEF DraftInv, DraftsOnlyForApply, Known, End

LEMMA DraftStep ==
    ASSUME IInv, DraftInv, [Next]_vars
    PROVE  DraftInv'
<1> USE DEF IInv
<1>1. CASE UNCHANGED vars
  BY <1>1 DEF vars, DraftInv, DraftsOnlyForApply
<1>2. CASE RunNode
  BY <1>2, NodeDrafts
<1>3. CASE RunTool
  BY <1>3, ToolDrafts
<1>4. CASE Return \/ Lose
  BY <1>4 DEF Return, Lose, requests, DraftInv, DraftsOnlyForApply
<1>5. CASE Crash
  BY <1>5 DEF Crash, DraftInv, DraftsOnlyForApply
<1>6. ASSUME NEW c \in Clients, NEW o \in {"approve", "reject"}, Check(c, o)
      PROVE  DraftInv'
  BY <1>6 DEF Check, MayDecide, TypeOK, DraftInv, DraftsOnlyForApply
<1>7. ASSUME NEW c \in Clients, Resume(c) \/ LoadForReject(c) \/ FailRequest(c)
      PROVE  DraftInv'
  <2>1. /\ cp' = cp /\ mode' = mode /\ first' = first /\ asked' = asked
        /\ \A d \in Clients : d # c => pc'[d] = pc[d] /\ mem'[d] = mem[d]
        /\ pc'[c] # "idle" => pc[c] # "idle"
        /\ pc'[c] \in {"evaluating", "rejecting"} => mem'[c] = cp
    BY <1>7 DEF Resume, LoadForReject, FailRequest, Leave, TypeOK
  <2> QED
    BY <2>1 DEF DraftInv, DraftsOnlyForApply
<1>8. ASSUME NEW c \in Clients, Evaluated(c) \/ SaveReject(c) PROVE DraftInv'
  BY <1>8, RequestDrafts
<1> QED
  BY <1>1, <1>2, <1>3, <1>4, <1>5, <1>6, <1>7, <1>8 DEF Next

\* Nothing of a flagged description reaches a model, and nothing is drafted for a
\* job that was not decided "apply", in whatever mode and after whatever requests
\* (workflow.py:16-22, preprocess.py:31-33, tool_handlers.py:137-150).
THEOREM DraftsSafe == Spec => []DraftsOnlyForApply
<1>1. Init => DraftInv
  BY DEF Init, Fresh, DraftInv, DraftsOnlyForApply
<1>2. DraftInv => DraftsOnlyForApply
  BY DEF DraftInv
<1> QED
  BY <1>1, <1>2, DraftStep, InvCorrect, PTL DEF Spec
=============================================================================
