------------------------------ MODULE Research ------------------------------
(***************************************************************************)
(* The research agent of app/research/agent.py, an asynchronous generator  *)
(* that plans, calls a tool of app/research/tools.py, notes what it saw    *)
(* and finally synthesises a brief, and the two callers that draw events   *)
(* from it: the streaming endpoint of app/api/job_actions.py, which stores *)
(* the result in the row of the job, and the MCP tool of                   *)
(* app/mcp/tool_handlers.py, which returns it.  Several runs may be under  *)
(* way for one job.                                                        *)
(***************************************************************************)
EXTENDS Naturals, FiniteSets, RowStore

CONSTANTS
    Runs,           \* the runs of one behaviour
    Queries,        \* lower-cased queries the planner can come up with
    Urls,           \* URLs it can come up with
    MAX_ITERATIONS, \* planner calls of one run at most
    NoBrief         \* company_brief = {}

ASSUME IterationsAssumption == MAX_ITERATIONS \in Nat \ {0}
ASSUME NoBriefAssumption == NoBrief \notin Runs
ASSUME SubjectsAssumption == Queries \cap Urls = {}

Subjects == Queries \cup Urls

\* A brief goes by the run that wrote it; its length stands for the trace.
Rows == [brief : Runs \cup {NoBrief}, iterations : Nat, total : Nat]

FreshRow == [brief |-> NoBrief, iterations |-> 0, total |-> 0]

VARIABLES
    exists,    \* the job is in the table
    row,       \* its research columns
    pc,        \* where each run is
    caller,    \* who draws its events
    iteration, \* the loop variable
    seen,      \* seen_queries and seen_urls
    notes,     \* the number of notes
    cost,      \* cost_eur, what the caller has added up; one unit for a call
    loaded,    \* the row as the endpoint's second session loaded it
    new,       \* the same object with the attributes it assigned
    answers,   \* history: model calls of the run that were answered
    tools,     \* history: web_search and fetch_url calls of the run
    crossed    \* history: runs that had the row loaded when another stored its result

local == <<pc, caller, iteration, seen, notes, cost, loaded, new>>
history == <<answers, tools, crossed>>
vars == <<exists, row, local, history>>

PCs == {"unstarted", "planning", "searching", "fetching", "synthesizing",
        "persisting", "writing", "ended"}

TypeOK ==
    /\ exists \in BOOLEAN
    /\ row \in Rows
    /\ pc \in [Runs -> PCs]
    /\ caller \in [Runs -> {"none", "http", "mcp"}]
    /\ iteration \in [Runs -> 1..MAX_ITERATIONS]
    /\ seen \in [Runs -> SUBSET Subjects]
    /\ notes \in [Runs -> 0..MAX_ITERATIONS]
    /\ cost \in [Runs -> Nat]
    /\ loaded \in [Runs -> Rows]
    /\ new \in [Runs -> Rows]
    /\ answers \in [Runs -> Nat]
    /\ tools \in [Runs -> Nat]
    /\ crossed \subseteq Runs

Init ==
    /\ exists = TRUE
    /\ row = FreshRow
    /\ pc = [r \in Runs |-> "unstarted"]
    /\ caller = [r \in Runs |-> "none"]
    /\ iteration = [r \in Runs |-> 1]
    /\ seen = [r \in Runs |-> {}]
    /\ notes = [r \in Runs |-> 0]
    /\ cost = [r \in Runs |-> 0]
    /\ loaded = [r \in Runs |-> FreshRow]
    /\ new = [r \in Runs |-> FreshRow]
    /\ answers = [r \in Runs |-> 0]
    /\ tools = [r \in Runs |-> 0]
    /\ crossed = {}

-----------------------------------------------------------------------------
(* The loop *)

\* The endpoint finds the job and its company; the MCP tool is given a company.
Start(r, c) ==
    /\ pc[r] = "unstarted"
    /\ c = "http" => exists
    /\ pc' = [pc EXCEPT ![r] = "planning"]
    /\ caller' = [caller EXCEPT ![r] = c]
    /\ UNCHANGED <<exists, row, iteration, seen, notes, cost, loaded, new,
                   history>>

\* Mutant: one iteration too many.
AnotherIterationLate(i) == i <= MAX_ITERATIONS

\* range(1, MAX_ITERATIONS + 1) has a next value.
AnotherIteration(i) == i < MAX_ITERATIONS

\* The end of an iteration, by falling out of its body or by continue.
Advance(r) ==
    IF AnotherIteration(iteration[r])
    THEN /\ pc' = [pc EXCEPT ![r] = "planning"]
         /\ iteration' = [iteration EXCEPT ![r] = @ + 1]
    ELSE pc' = [pc EXCEPT ![r] = "synthesizing"] /\ UNCHANGED iteration

\* The planner's answer arrives, and its price in the "plan" event.
Answered(r) ==
    /\ pc[r] = "planning"
    /\ answers' = [answers EXCEPT ![r] = @ + 1]
    /\ cost' = [cost EXCEPT ![r] = @ + 1]

\* Mutant: the planner's subjects are not remembered.
IsNewAlways(r, s) == TRUE

IsNew(r, s) == s \notin seen[r]

\* A search or a fetch of something new.
PlanTool(r, s) ==
    /\ Answered(r)
    /\ IsNew(r, s)
    /\ seen' = [seen EXCEPT ![r] = @ \cup {s}]
    /\ tools' = [tools EXCEPT ![r] = @ + 1]
    /\ pc' = [pc EXCEPT ![r] = IF s \in Queries THEN "searching" ELSE "fetching"]
    /\ UNCHANGED <<exists, row, caller, iteration, notes, loaded, new, crossed>>

\* A search finds no key for the service, gets no answer in time or one with an
\* error status, an answer that is not JSON, or hits, perhaps none.
SearchOutcomes == {"no key", "failed", "not JSON", "hits"}

\* A fetch is of something that is not http, or cannot be parsed as a URL, fails,
\* or answers with an error status, something that is not text, too much text,
\* or a page.
FetchOutcomes == {"not http", "bad URL", "failed", "refused", "not text",
                  "too large", "page"}

ToolOutcomes(r) == CASE pc[r] = "searching" -> SearchOutcomes
                     [] pc[r] = "fetching"  -> FetchOutcomes
                     [] OTHER               -> {}

\* What neither tool turns into an error of its result: the except clauses name
\* httpx.HTTPError, which covers neither json() nor a URL httpx cannot parse.
Raises(outcome) == outcome \in {"not JSON", "bad URL"}

\* Hits, a page or an error of the result: each is an observation.
ToolReturns(r) ==
    /\ \E outcome \in ToolOutcomes(r) : ~Raises(outcome)
    /\ notes' = [notes EXCEPT ![r] = @ + 1]
    /\ Advance(r)
    /\ UNCHANGED <<exists, row, caller, seen, cost, loaded, new, history>>

\* The exception leaves the agent: the endpoint reports it and stops, the MCP
\* server answers with it.  The plans are paid, the notes are gone.
ToolRaises(r) ==
    /\ \E outcome \in ToolOutcomes(r) : Raises(outcome)
    /\ pc' = [pc EXCEPT ![r] = "ended"]
    /\ UNCHANGED <<exists, row, caller, iteration, seen, notes, cost, loaded,
                   new, history>>

\* An empty subject, or one the run has had.  The agent notes it, emits an
\* error event and moves on; the MCP tool takes the event for the end.
PlanFruitless(r) ==
    /\ Answered(r)
    /\ notes' = [notes EXCEPT ![r] = @ + 1]
    /\ IF caller[r] = "http"
       THEN Advance(r)
       ELSE pc' = [pc EXCEPT ![r] = "ended"] /\ UNCHANGED iteration
    /\ UNCHANGED <<exists, row, caller, seen, loaded, new, tools, crossed>>

PlanStop(r) ==
    /\ Answered(r)
    /\ pc' = [pc EXCEPT ![r] = "synthesizing"]
    /\ UNCHANGED <<exists, row, caller, iteration, seen, notes, loaded, new,
                   tools, crossed>>

\* An action that is neither: an error event, and the loop is left; the agent
\* would go on to its brief.
PlanUnknown(r) ==
    /\ Answered(r)
    /\ pc' = [pc EXCEPT ![r] = IF caller[r] = "http" THEN "synthesizing" ELSE "ended"]
    /\ UNCHANGED <<exists, row, caller, iteration, seen, notes, loaded, new,
                   tools, crossed>>

\* The planner or the synthesiser fails, with an answer that is not a JSON
\* object (paid for, and not added up) or with none.
ModelFails(r, paid) ==
    /\ pc[r] \in {"planning", "synthesizing"}
    /\ pc' = [pc EXCEPT ![r] = "ended"]
    /\ answers' = [answers EXCEPT ![r] = IF paid THEN @ + 1 ELSE @]
    /\ UNCHANGED <<exists, row, caller, iteration, seen, notes, cost, loaded,
                   new, tools, crossed>>

\* The "final" event.
Synthesize(r) ==
    /\ pc[r] = "synthesizing"
    /\ answers' = [answers EXCEPT ![r] = @ + 1]
    /\ cost' = [cost EXCEPT ![r] = @ + 1]
    /\ pc' = [pc EXCEPT ![r] = IF caller[r] = "http" THEN "persisting" ELSE "ended"]
    /\ UNCHANGED <<exists, row, caller, iteration, seen, notes, loaded, new,
                   tools, crossed>>

-----------------------------------------------------------------------------
(* The endpoint stores the result *)

\* Mutants: no brief is kept for a run without notes; the price is added twice;
\* an empty trace leaves the earlier one in place.
ResearchedNull(l, r) ==
    [brief |-> IF notes[r] = 0 THEN "none" ELSE r, iterations |-> notes[r],
     total |-> l.total + cost[r]]
ResearchedTwice(l, r) ==
    [brief |-> r, iterations |-> notes[r], total |-> l.total + cost[r] + cost[r]]
ResearchedTruthy(l, r) ==
    [brief |-> r, total |-> l.total + cost[r],
     iterations |-> IF notes[r] = 0 THEN l.iterations ELSE notes[r]]

\* The attributes assigned to the copy l that is loaded after the loop.
Researched(l, r) ==
    [brief |-> r, iterations |-> notes[r], total |-> l.total + cost[r]]

\* Mutant: the endpoint insists on a row to store the result in.
LoadRowInsisting(r) ==
    /\ pc[r] = "persisting"
    /\ exists
    /\ pc' = [pc EXCEPT ![r] = "writing"]
    /\ loaded' = [loaded EXCEPT ![r] = row]
    /\ new' = [new EXCEPT ![r] = Researched(row, r)]
    /\ UNCHANGED <<exists, row, caller, iteration, seen, notes, cost, history>>

\* A job that is gone by now is not an error: there is nothing to store.
LoadRow(r) ==
    /\ pc[r] = "persisting"
    /\ pc' = [pc EXCEPT ![r] = IF exists THEN "writing" ELSE "ended"]
    /\ loaded' = [loaded EXCEPT ![r] = IF exists THEN row ELSE @]
    /\ new' = [new EXCEPT ![r] = IF exists THEN Researched(row, r) ELSE @]
    /\ UNCHANGED <<exists, row, caller, iteration, seen, notes, cost, history>>

FlushedRow(r) ==
    LET l == loaded[r]
        n == new[r]
    IN  [brief      |-> Flushed(row.brief, l.brief, n.brief),
         iterations |-> Flushed(row.iterations, l.iterations, n.iterations),
         total      |-> Flushed(row.total, l.total, n.total)]

\* The UPDATE of a row deleted since it was loaded fails.
Commit(r) ==
    /\ pc[r] = "writing"
    /\ row' = IF exists THEN FlushedRow(r) ELSE row
    /\ crossed' = crossed \cup {q \in Runs \ {r} : pc[q] = "writing"}
    /\ pc' = [pc EXCEPT ![r] = "ended"]
    /\ UNCHANGED <<exists, caller, iteration, seen, notes, cost, loaded, new,
                   answers, tools>>

-----------------------------------------------------------------------------
\* The client goes away and the generator is cancelled where it waits, or the
\* process stops.
Cancel(r) ==
    /\ pc[r] \notin {"unstarted", "ended"}
    /\ pc' = [pc EXCEPT ![r] = "ended"]
    /\ UNCHANGED <<exists, row, caller, iteration, seen, notes, cost, loaded,
                   new, history>>

\* DELETE /api/jobs/{id}.
Delete ==
    /\ exists
    /\ exists' = FALSE
    /\ row' = FreshRow
    /\ UNCHANGED <<local, history>>

\* What a run does of its own accord.
Step(r) ==
    \/ \E s \in Subjects : PlanTool(r, s)
    \/ ToolReturns(r) \/ ToolRaises(r) \/ PlanFruitless(r) \/ PlanStop(r) \/ PlanUnknown(r)
    \/ \E paid \in BOOLEAN : ModelFails(r, paid)
    \/ Synthesize(r) \/ LoadRow(r) \/ Commit(r)

Next ==
    \/ \E r \in Runs : \/ \E c \in {"http", "mcp"} : Start(r, c)
                       \/ Step(r) \/ Cancel(r)
    \/ Delete

Spec == Init /\ [][Next]_vars

\* Every await of a run ends: both tools and the clients of both providers have
\* timeouts, and the event loop does not starve a task.  Which way it ends is
\* not fair.
FairSpec == Spec /\ \A r \in Runs : WF_vars(Step(r))

-----------------------------------------------------------------------------
(* Properties *)

\* The brief, its trace and its count in a row are of one run, however long its
\* runs overlap: they can come from two only if one stored its result between the
\* other's load of the row and its commit (job_actions.py:222-231).
ResultWhole ==
    row.brief \in Runs \ crossed => row.iterations = notes[row.brief]

\* The model calls that were answered to one run, and to all of them.
Calls(r, n) == {r} \X (1..n)
Bill == UNION {Calls(r, answers[r]) : r \in Runs}

\* However stubborn the planner, a run pays for at most MAX_ITERATIONS plans and
\* one synthesis and searches or fetches nothing twice.  What its caller adds up
\* is never more than was paid, and the total of the job never more than its runs
\* have cost, though a lost update may make it less (agent.py:98, 145-192,
\* job_actions.py:226-231).
SpendSound ==
    /\ \A r \in Runs :
          /\ tools[r] = Cardinality(seen[r])
          /\ cost[r] <= answers[r]
          /\ answers[r] <= MAX_ITERATIONS + 1
    /\ row.total <= Cardinality(Bill)

\* A run that has started ends, even if every plan is a duplicate
\* (agent.py:98, 159, 191, tools.py:75, 120).
RunEnds == \A r \in Runs : pc[r] = "planning" ~> pc[r] = "ended"
=============================================================================
