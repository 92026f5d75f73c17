# Formal model of CareerOS AI

TLA+ specifications of the server under `src/app/`: what its request handlers,
its LangGraph workflow, its discovery pipeline and scrapers, its research agent and
its model router do to shared state, and what its settings store and sessions keep,
checked with TLC on small instances. Every safety invariant and all three
refinements are also proved with TLAPS for every value of the constants; liveness
is model-checked only (section 5).

Line references are to the repository (`job_actions.py:404` is
`src/app/api/job_actions.py`, line 404).

## 1. The system

One asyncio process (FastAPI) serves a web UI, a browser extension and an MCP
server. Its state is in PostgreSQL: the tables `discovered_jobs`,
`applications`, `llm_usage_events` and `app_settings`, and LangGraph's
checkpoints. Nothing is locked and no row carries a version; requests interleave
at every `await`, and what holds them apart is one unique constraint, two foreign
keys and the way SQLAlchemy writes a loaded row back (section 3).

| component | state it keeps | operations | made correct by |
|---|---|---|---|
| Cover letter endpoints (`api/job_actions.py`) | letter, approved, generated_at, generations and total cost of a row | generate (preflight, then a streamed model call, then a commit), save, approve, unapprove | an approved letter is never missing and is one the user signed off; it takes force to replace it; counters never overstate; a deleted job stays deleted |
| Scoring and feedback (`api/job_actions.py`) | fit, decision, parsed_job, triage, human_feedback | score (graph with `interrupt_after`), feedback | the columns of a verdict belong together; no feedback is lost; no triage without its link |
| Workflow and application API (`graph/`, `nodes/`, `api/applications.py`) | the checkpoint of a thread | create, approve, reject, status | the evaluator runs only behind the human gate, drafts only in the apply band, nothing flagged reaches a model |
| Discovery pipeline (`scrapers/pipeline.py`, `api/discovery.py`) | rows, triage, applications | discover, delete, list | one row per posting, rows and applications linked both ways, no row forgotten |
| Scrapers (`scrapers/adzuna.py`, `reed.py`, `registry.py`) | the pages a search has fetched, HTTP clients | build, search, gather, close | a posting that was listed all along is found; no search outlives its client; paging stops |
| Captures (`api/captures.py`) | rows | capture a new page, refresh a known one | one row per page; a refresh loses nothing else |
| Lifecycle and dashboard (`api/lifecycle.py`) | status, dates, history | change status; counts and weekly chart | an applied job has its date and, with room in the chart's twelve weeks, its place there; dates agree with the history; the history is append-only |
| Research agent (`research/`, endpoint, MCP tool) | a run's notes and cost; brief and totals of a row | plan, search, fetch, synthesise, store | it ends, repeats nothing, spends a bounded number of calls, stores one whole result |
| Model router and usage ledger (`llm/router.py`, `llm/usage.py`) | settings overrides, `llm_usage_events` | route, stream, record | one author of a stream, every answer in the ledger once and under its author, the stored model name is true |
| Runtime settings (`settings_store.py`, `api/settings.py`, `llm/providers/`) | encrypted settings, master key, provider clients | put, delete, show, test, use | what is used is in force; a key that passed its test works; an acknowledged put counts |
| Sessions (`auth.py`, `api/auth.py`, `main.py`) | admin account, session secret | first-run setup, login, change of password, session check | no half-made account locks the user out; a session lasts as long as its master key |
| MCP server (`mcp/tool_handlers.py`) | none | five tools | the same rules as the graph: nothing flagged is sent, drafts only for `apply` |
| Budget guard, cost table (`llm/budget.py`, `llm/cost.py`) | none | check, estimate | nothing in the application calls the guard |
| Injection scan, PII redaction (`security/`) | none | text functions | nothing flagged or personal passes |

How they interact: every component that calls a model goes through the router,
which reads the settings and writes the ledger; the providers behind it, the
scrapers and the web search read their keys from the same settings on every use. A
discover request runs the scrapers (`Scraping`), whose batch is what `Fetch` of
`Discovery` takes up. Scoring, discovery and the application API run the same graph. Discovery, capture, scoring, letters,
research, status changes and delete all write columns of the same
`discovered_jobs` row, each from a copy it loaded earlier; a letter stream holds
its copy for the seconds a model call takes.

What is hard here: interleavings of handlers that load, wait and commit;
check-then-act on the checkpoint and on unique keys; a process that stops
between two commits; clients that disconnect in the middle of a stream;
providers, settings and ledger that fail in any combination; boards that change
between two pages; clients that keep a key the user has replaced; a planner that
never says stop. `PROJECT.json` lists every such place under `hazards`, with its
line and the properties that watch it.

## 2. Modules

| module | models | composed of |
|---|---|---|
| `RowStore` | how a loaded row reaches the table | used by the five modules that write rows |
| `LetterStages` | abstract: what the letter endpoints promise | implemented by `CoverLetter` |
| `CoverLetter` | generate, save, approve, unapprove, with score and delete as concurrent writers of the row | `RowStore`, `LetterStages` (INSTANCE with `stage <- Stage`) |
| `CoverLetter_proofs` | theorems | `CoverLetter` |
| `ApprovalGate` | abstract: what the approval of an application promises | implemented by `Workflow` |
| `Workflow` | one LangGraph thread: nodes, routing, interrupts, approve, reject; the MCP tools that run the same stages | `ApprovalGate` (INSTANCE with `stage <- GateStage`, `permits <- Cardinality(Approving)`) |
| `Workflow_proofs` | theorems | `Workflow` |
| `Discovery` | the two tables under discovery runs, captures, scoring and delete | `RowStore` |
| `Discovery_proofs` | theorems | `Discovery`, `Scraping` |
| `Annotations` | scoring, feedback and recaptures on one row, beside the run that inserted it | `RowStore` |
| `Annotations_proofs` | theorems | `Annotations` |
| `Lifecycle` | the status endpoint and the dashboard's queries | `RowStore` |
| `Lifecycle_proofs` | theorems | `Lifecycle` |
| `Research` | the agent's loop, its tools and its two callers | `RowStore` |
| `Research_proofs` | theorems | `Research` |
| `Scraping` | the searches of one discovery run against changing boards | |
| `CallLedger` | abstract: what the router promises about a call and its row | implemented by `Router` |
| `Router` | route resolution, fallback, streaming, ledger | `CallLedger` (INSTANCE with `book <- usage`) |
| `Router_proofs` | theorems | `Router`, `Settings` |
| `Settings` | keys, routes and budgets: put, delete, show, test and use, cached clients, restarts | |
| `Sessions` | the encrypted settings, setup, login, change of password, sessions, restarts | |
| `Sessions_proofs` | theorems | `Sessions` |
| `MC*` | constants and symmetry for TLC | |

### RowStore, and what one action is

`async_sessionmaker(expire_on_commit=False)` (`db/session.py:18`) gives each
handler its own copy of a row. On commit SQLAlchemy sends an UPDATE of the
columns whose value differs from the **loaded** one. `Flushed(stored, loaded,
assigned)` says so for one column, and it matters: a handler that assigns
`approved = False` to a row it loaded with `False` does not overwrite a `True`
that was committed in between. Most of the interesting behaviours below come
from that. The UPDATE of a row deleted meanwhile matches nothing and raises
`StaleDataError`: the table is unchanged and the request fails.

Everywhere one action is one stretch of a coroutine between two awaits that
matter: a load, the end of a model call with the assignments that follow it, a
commit. A handler that is refused (404, 409, 422) takes no step. A deleted row
is shown with the columns of a fresh one, so that equal states are equal.

### CoverLetter

`row` holds the columns, `loaded[h]` and `new[h]` the copy of handler `h` before
and after its assignments, `pc[h]` where it waits. `Preflight` is the endpoint
function with its three checks, `StartStream` the second load in the generator,
which repeats none of them, `EndStream` the assignments of lines 404-415,
`Commit` line 416. `AbortStream` is every way a stream ends with nothing
written. `Crash` drops all requests. Texts are model values; a price is a
natural number. `streams`, `written`, `billed`, `signed` are history, and so is
`overtaken`: the generate requests past their preflight when a letter was approved.
An answer may be empty (`Blank`), which approve takes for no letter. `crossed`
(history) marks a row whose letter and approval are of two requests that overlapped:
the last commit wrote one of the two beside a value of the other it had not loaded.

### Workflow

`cp` is the latest checkpoint of one thread: its next node and the values the
routing or a property looks at. `RunNode` is one superstep of the first
`ainvoke`; `Return` tells the id to a client (only `POST /api/applications`
does); `Lose` is a node that raises. `Check` is `aget_state` with the 409, then
`Resume` and `Evaluated` (approve) or `LoadForReject` and `SaveReject` (reject).
LangGraph is external; what is assumed of it is stated at the head of the
module. `mode` tells the graph of the endpoint, the one with
`interrupt_after=["matcher"]`, and the three MCP tools that take a description:
those repeat the stages in code of their own, with no thread and no gate
(`RunTool`); `cp` is then what the tool holds in its variables. Generator and
evaluator look at the decision again themselves and return without a model call
(`GeneratorSkips`, `EvaluatorSkips`); `asked` (history) holds the nodes that did call
one.

### Discovery

Rows are numbered by insertion. A run looks its postings up one SELECT at a time
(`LookUp`), inserts what was new in one transaction (`InsertFresh`, with the
unique constraint as `Conflict`), then scores row after row (`ScoreRow`,
`FailRow`) with a commit each; `CommitFails` is the commit outside the try. It can
raise for any row, deleted or live, since the database may refuse what is written (a
decision over `String(16)`, a fit outside `Numeric(5,2)`) or be out of reach; that row
and the rest of the queue join `skipped` (history). `UpsertFails` is the same before
anything is inserted. The
requests score a row from a copy, delete it after a check on a copy, or capture a
page. The verdict of the workflow is a free choice of fit and decision, since the
decision is the model's own. `apps[a]` is the row application `a` was made for;
`chased` (history) holds the rows that were linked after a delete had checked that
they were not, the one way an application loses its row.

### Annotations

One row, its text, the columns of the verdict and `human_feedback`. `StartScore`,
`EndScore` and `Commit` are `score_job`; the handler `Run` is the discovery run,
which holds the copy of when it inserted the row and assigns the fit and the
decision only. `Feedback` loads, merges and assigns before its next await;
`Recapture` is the refresh branch of `create_capture`. The verdict of a text is a
free choice; `parsed` stands for the text that was parsed. `due` and `merged`
(history) say what the columns ought to be by what has been committed: each
commit adds its outcome, unless a handler that writes the same columns has
committed since it loaded (`stale`).

### Scraping

A search is a source and a location, a task of its own. `GetPage` takes the page
of the board's list that the request asks for and then decides as the loop does:
page short, cap reached, last page. `PageFails` is `httpx.HTTPError`, which ends
the search with what it has; `PageGarbled` is what no except clause names (a body
that is not JSON, an item without its id), which ends it with an exception and
nothing. `Collect` is what follows `gather`: results by the key `source:name`,
cut, filtered by red flag. `Close` closes the clients. `Publish` and `Withdraw`
change the boards in between, `MaxChanges` times.

### Lifecycle

`Load`, `UpdateStatus` (which reads the clock after the load) and `Commit`. The
clock is a counter, each request gets a time of its own. `CountStatuses` and
`ChartWeeks` are two queries of the dashboard; it runs without a snapshot, so that
commits fall between them. The chart keeps the twelve latest weeks that have an
application; whether other jobs fill twelve later ones is a free choice (`full`).
`shown` says whether the chart has the job. `acked`, `stale` and `excused` are history: the entries
clients were shown, and those removed by the commit of a request that had loaded
before they were added.

### Research

`PlanTool`, `PlanFruitless`, `PlanStop`, `PlanUnknown` are the answers of the
planner, `ModelFails` a failure of planner or synthesiser; one unit of cost is
one call. `SearchOutcomes` and `FetchOutcomes` are the ways a tool can come out;
all but two become an observation (`ToolReturns`), those two leave the agent as an
exception (`ToolRaises`). `caller` is the endpoint, which ignores error events, or
the MCP tool, which stops at the first. `LoadRow` and `Commit` store the result.

### Router

`Announce` is the look-up of the letter endpoint for its meta event,
`ReadDefault` and `ReadFallback` the two reads of `_resolve_route`, `Emit`,
`Answer`, `Raise` what a provider does, `Record` the ledger. `PutSetting`
changes an override at any time. An override names a provider; the model part,
the prompts and the prices are data. An override of a name that no provider has
is the same as a provider that raises. `lost` and `shifted` are history: calls
whose usage row found the database out of reach, and streams whose default changed,
or could not be read, between the two look-ups.

### Settings

A behaviour is about one service and its keys: a provider, a pair of board
credentials, a search key, the route of a task, a budget, the extension's token.
`PutLoad` and `PutCommit` are the look-up and the write of a put or delete; `Read`
is one SELECT, so that a pair is read in two steps. `Use` is the call with what was
read: a provider first replaces its client, if it has read another key
(`_ensure_client`), and sends the client's. `Show` is the settings tree or a test,
`Finish` the service's answer and what the test makes of it. `ReadFails` is the
store out of reach, `Restart` a new process, perhaps with another environment or
without the old master key. The histories: `inforce` is what was in force at the
first and at the last SELECT of a request; `late` holds the requests that test with or
use a key read before the last change of a row; `keptOld` says that the provider's
client is from before that change; `proven` that a test has said ok to the settings as
they stand.

### Sessions

`store` holds the three rows of `app_settings` that make the account: a value and
the number of the master key it is encrypted under. `Get` reads a row of another
key as absent, as `settings_store.get` does. A put is two steps, `PutLoad`
(whether the row is there, readable or not) and `PutCommit` (overwrite, or
insert, where the second of two inserts violates the primary key and its request
fails). `Check` is `is_initialised` in setup and login, `ReadName` and `ReadHash`
the two reads of `verify_credentials`, `Sign` and `Finish` the serializer with its
secret made on first use. A password stands for its hash and a number for a
random secret. `Restart` keeps the key, or, when neither the environment nor
`.env` holds one, makes a new one. `issued`, `sent`, `overlapped` and `raced` are
history: the last two mark exactly the overlaps under which the properties do not
hold.

## 3. Runs

| run | instance | what it shows |
|---|---|---|
| `cover_letter` | 2 handlers, 1 text, unit price, 2 finished streams | `ApprovedHasLetter`, `CountersTrue`, `ForceNeeded` and the refinement `ImplementsStages` hold under every interleaving, abort and crash |
| `cover_letter_signoff` | 2 texts | **violated** `ApprovedMeansSignedOff` (finding 1) |
| `workflow` | 3 clients, 4 decisions, all modes | `HumanGate` (no evaluation without an approval of its own), `DraftsOnlyForApply`, and the refinement `ImplementsGate` |
| `workflow_reject` | the same | **violated** `RejectCancels` (finding 2) |
| `discovery` | 2 runs, 2 requests, 2 postings, 1 page, 2 rows | `OneRowPerPosting`, `LinkedBothWays`, `PendingIsQueued` |
| `annotations` | 2 requests and the run, 2 fields, 2 values (one falsy), 2 texts (one short) | `FeedbackKept`, `VerdictWhole` |
| `lifecycle` | 3 requests, 3 statuses, 3 changes, 1 dashboard at a time | `ChartCoversApplied`, `HistoryTrue`, `EntriesKept` |
| `research` | 2 runs, 2 queries, 1 URL, 3 iterations | `ResultWhole`, `SpendSound`, and `RunEnds` under fairness |
| `router` | 2 calls, 2 providers | `LedgerTrue`, `ModelNamed`, the refinement `ImplementsLedger`, and `CallEnds` under fairness |
| `scraping` | 2 boards at one place or 1 at two, 4 postings, pages of 1 or 2, caps 0, 2, -1, 2 changes of a board | `FetchWhole`, and `FetchEnds` under fairness |
| `settings` | 2 requests, 5 services, 3 values (one the service refuses) | `UsesWhatIsInForce`, `TestedKeyWorks`, `PutsKept` |
| `sessions` | 2 requests, 2 names, 2 passwords, 2 master keys, 2 secrets | `NameBehindHash`, `AccountWhole`, `SessionsLast` |

Each run also checks the module's `TypeOK` (`FetchTypeOK`, `SettingsTypeOK`). Beside the definitions that mutate
them (`...Unchecked`, `...Twice` and the like, marked `Mutant`) every property is
known to fail when the code is changed in the way named there.

**Bounds.** Two writers are what every stale-copy anomaly needs: one copy, and
one commit that overtakes it; a third (workflow, lifecycle) lets a second
overtaking commit undo the effect of the first. Each bound leaves room for the
event twice: two finished streams on one row, four decisions on a thread (so a
reject, a late approve and two more), two rows (so that one is left behind when
the commit of the other fails), three status changes. `MAX_ITERATIONS` is 3
instead of 6, with two queries and one URL: enough for a search, a fetch and a
duplicate in one run. Two providers are all the code has. A list of three
postings with pages of one or two has a full, a short and an empty last page; two
changes let a posting enter and another leave between two pages; the caps are none,
one that cuts, and a negative one, which the request model admits
(`discovery.py:21`). The services of `settings` are one of each kind: a provider
whose test asks for 200, the one whose test passes anything under 500, a pair of
credentials, a reader of the environment alone, a route. Tavily and Reed read one
key the way Adzuna's scraper reads two.

The bounds (`MaxStreams`, `MaxCalls`, `MaxRows`, `MaxChanges`, `MaxKeys`, `MaxSecrets`)
stand in guards and are constants; two keys make one loss of the master key, two
secrets one race for the session secret or its renewal after that loss.

**Deadlock.** Every configuration says `CHECK_DEADLOCK FALSE`: the modules bound
their requests, and a system with no request left rests.

**Symmetry** is used over handlers, clients, runs, postings, requests, names and
passwords in the runs of safety properties only; the runs with a liveness property
have none. The values of `settings` and the postings of `scraping` are not
interchangeable (one value is refused, a list is ordered).

**Fairness.** Safety runs assume none. `Research` and `Router` assume weak
fairness of `Step` of each run or call, `Scraping` of `Step` of each search and of
`Finish`, and of nothing else: every await of the loops is a model call, a tool or
a page with a client timeout, the settings database answers or raises, and asyncio
does not starve a task. Which of the outcomes happens is not fair: nothing says that a planner ever stops, or that a provider or
a page ever succeeds. Cancellation, deletes, settings changes and the boards are not
fair either.

## 4. What the runs found

1. **A text is approved that nobody signed off.** Generate loads the row
   (`job_actions.py:331`), the user approves the old letter, the stream ends and
   assigns `approved = False` (415): unchanged against its copy, so not written,
   and the new text stands approved. `models.py:192` says the flag means the
   user signed off. Two overlapping saves reach the same state. The approved text can
   even be the empty one, which approve refuses (`job_actions.py:483`): a generation
   whose answer is empty overlaps the approval (`crossed` in `ApprovedHasLetter`).
2. **Reject does not cancel.** It writes `awaiting_approval` and `current_step`;
   the thread's next node stays the evaluator, so a later approve runs it.
   `applications.py:73` says it cancels the workflow at the gate.

Three more departures from the documents are written into passing properties, which
say exactly when they happen and that they happen in no other way:

3. **A history entry can be lost.** Two overlapping status changes each rewrite the
   whole list from their copy, although the product specification (line 825)
   calls it append-only and never truncated. `EntriesKept` excuses these entries
   and no others.
4. **A workflow's usage is never recorded.** `create_application` invents an
   application id with no row in `applications`; the foreign key refuses the
   usage row and `record_usage` logs it. The specification (line 340) says every
   call writes a row. `LedgerTrue` claims it for every other call.
5. **The stored model name can be wrong.** It is the default looked up before the
   call, also when the fallback wrote the letter; the specification (line 877)
   says it is the model that produced the draft. `ModelNamed` claims it when the
   default answered and did not change in between.

Seen while modelling, without a run of their own:

- A generate without force that passed its preflight overwrites a letter approved
  before its stream starts: the check at 301 is not repeated after the reload at
  331 (`overtaken` in `ForceNeeded`).
- A promotion that commits while a delete is under way leaves an application whose
  job is gone (`chased` in `LinkedBothWays`).
- The pipeline writes no `parsed_job`, so that a promoted row cannot have a letter
  generated until it is scored again; and when a row is scored on demand while it
  is still in the queue, the run overwrites fit and decision, and leaves the
  parsed job and the reason of the other scoring beside them. A job quarantined in
  a run gets fit 0, one quarantined on demand none. A recapture replaces the text
  and leaves the old verdict.
- Of two overlapping feedback requests the later one restores the fields of the
  earlier to what they were (`stale` in `FeedbackKept`).
- A posting is skipped when the board withdraws an earlier one between two pages
  (`gone`). A garbled page raises out of the search, and the pages before it are
  lost with it, while a failed one keeps them; the `errors` of a search reach
  nobody. Two locations with the same name in two countries share a key, and the
  result of the second replaces that of the first (`SharesName`).
- With `max_pages: 0` Adzuna's search raises `UnboundLocalError` (`adzuna.py:87`)
  and Reed's finds nothing. A negative `max_results` drops jobs from the end, since
  `jobs[:max_results]` is taken for any number but 0. The cap is applied before the
  red-flag filter, so that a capped search returns fewer than it could.
- Emptying a provider's key when the environment has none leaves the old client in
  use until a restart (`openai.py:33` replaces it only for a key), although
  `openai.py:17` says that an edit takes effect without one.
- A change that lands between the SELECTs of the two Adzuna credentials
  (`registry.py:23-24`) makes a pair that was never in force: the search is turned
  away although the old pair and the new one both passed their test. A provider that
  cannot read the settings goes on with the client it has, perhaps one of a key the
  user has replaced. These are the uses in `late`; `TestedKeyWorks` says that no other
  is turned away.
- The budgets and the extension's token are read from the environment alone
  (`usage.py:37`, `captures.py`), though the settings tree shows the stored
  value as the one in force. The LangSmith key has no reader.
- Anthropic's connection test passes any key, since a 401 is below 500
  (`settings.py:258`); its comment says so on purpose. `_validate_value` takes
  `nan` and negative budgets for numbers.
- The docstring of `web_search` says that a failed search is an observation, not a
  crash; an answer that is not JSON raises `ValueError`, and a URL that httpx
  cannot parse raises `InvalidURL`; neither is an `HTTPError`, and both end the run
  (`tools.py:77`, `124`; `ToolRaises`).
- Two first discover requests can both try to insert the user (`discovery.py:203`);
  one of them fails with 500.
- The commit of the scoring loop is outside its try (`pipeline.py:89`): a row
  deleted while it is scored, or a value the database refuses, ends the whole run;
  that row, if it is still there, and those after it stay `pending`, and no later run
  picks them up. `PendingIsQueued` states exactly what is left behind.
- `PipelineReport.promoted` counts decisions, not applications created
  (`pipeline.py:77-80`, comment at 34).
- The docstring of generate says that approved is not touched (281-282); line 415
  assigns it. The force rule for `bookmarked` and `not_applying` of the
  specification (line 912) is not in the code, and a row without a fit passes
  the threshold check.
- `research_iterations` and `research_trace` are flushed column by column: when
  two runs end together the row can hold the brief of one and the iteration count
  of the other (`crossed` in `ResultWhole`).
- The MCP tool gives up where the agent moves on: the agent emits an error event
  for a duplicate query and continues (`agent.py:157`, "moving on"), and
  `tool_handlers.py:208` returns a failure at the first error event.
- The catalogue says that the tool drafts only for `fit_score >= 70`
  (`mcp_server.py:98`); the code goes by the decision alone
  (`tool_handlers.py:140`).
- Two setups that overlap can store the name of one and the password of the
  other (`overlapped`), and two first requests can each make a session secret, so
  that a session just handed out is invalid (`raced`).
- Where an overlap does harm that the code accepts, a property leaves out what that
  overlap harms, and nothing else: `EntriesKept`, `FeedbackKept`, `VerdictWhole`,
  `ResultWhole`, `ModelNamed`, `SessionsLast`, `AccountWhole`, `TestedKeyWorks`. They
  do not report the overlap itself; the notes under `hazards` say so one by one.
- `BudgetGuard` is said to be consulted before every call (`budget.py:25`,
  README) and is called by nothing.

## 5. What is proved

`CoverLetter_proofs` proves, for any set of handlers and texts, any prices that
are natural numbers and any `MaxStreams` (the three named assumptions of
`CoverLetter`):

- `TypeCorrect`: `Spec => []TypeOK`.
- `ApprovalSound`: `Spec => []ApprovedHasLetter`. The invariant by itself is not
  inductive, because the next commit may come from any stale copy. `LetterInv`
  adds, for every handler, that both of its copies are sound, that what it
  assigned only grows (a letter or a timestamp is never taken away, `Grows`), and
  that the table has grown beyond what it loaded. From this `FlushSound` shows
  that a column-wise flush of a sound copy into a grown row is sound: the only
  column that can be left unwritten in a harmful way is the flag, and a flag set
  in the table meanwhile finds its letter there. `BlankInv` is for the empty letter:
  no handler makes an approved empty letter by what it assigns itself, so that the
  table gets one only by a commit that crosses another's.
- `CountersHonest`: `Spec => []CountersTrue`. `CountInv` adds that each copy was true when it was
  loaded and that a generation ready to be committed has already been billed.
- `ForceRespected`: `Spec => []ForceNeeded`. The property is inductive given
  `TypeOK`: a generate request enters only while the flag is off, and every commit
  that turns it on overtakes those that are past their check.
- `Refinement`: `Spec => Lifecycle!Spec`, every step of the handlers maps to a
  step or a stutter of `LetterStages`; it rests on `LetterInv` (no commit removes
  a letter) and on a deleted row refusing its UPDATE.

`Annotations_proofs` proves, for any requests, fields, values and texts, from the
fact that the run is no request and that what is given has the fields of a feedback
(`RunAssumption`, `GivensAssumption`):

- `TypeCorrect`: `Spec => []TypeOK`.
- `FeedbackSafe`: `Spec => []FeedbackKept`. `FeedbackInv` adds that the copy of a
  feedback request nobody has overtaken holds the feedback of the row, so that its
  merge is a merge into what is there now.
- `VerdictSafe`: `Spec => []VerdictWhole`. `VerdictInv` adds the same for the
  verdict of a scoring, and that the run's copy is the empty one of its insert.
  `FlushWhole` is the step that makes it work: flushed against the row's own values
  every column becomes the assigned one, whether it is written or not; and
  `FlushNothing` says that a handler that assigned none changes none.

`Lifecycle_proofs` proves, for any set of requests, any statuses among the allowed
ones and any `MaxChanges` (`RequestedAssumption`, `MaxChangesAssumption`):

- `TypeCorrect`: `Spec => []TypeOK`.
- `ApplicationDated`: `Spec => []AppliedHasDate`. A commit may write the status
  and not the date, when the request found the date set in its copy. `DateInv`
  adds that a date a copy was loaded with is still in the table and in what the
  request assigned (`KeepsDate`), and `FlushDated` that a flush under these
  conditions is dated.
- `DashboardAgrees`: `Spec => []ChartCoversApplied`, from `DateInv` and `ViewInv`: a
  date is never taken away, so that a job counted as applied still has one when
  the chart is made, and is in it unless twelve later weeks fill it.
- `HistoryOrdered`: `Spec => []HistoryTrue`. `TimeInv` adds that every copy is in
  order and older than the clock, and that a request about to commit differs from
  its copy in both columns, so that a commit always writes the two together.
- `HistoryKept`: `Spec => []EntriesKept`. `KeptInv` adds that the copy of a request
  nobody has overtaken holds the history that is in the table, and that what it
  assigned has every entry of it.

`Sessions_proofs` proves, for any requests, names, passwords and bounds
(`NoneAssumption`, `BoundsAssumption`):

- `TypeCorrect`: `Spec => []TypeOK`, with the shape of what a request still has to
  put (`Pending`) and the fact that no row and no session is under a key younger
  than the present one.
- `AccountHasName`: `Spec => []NameBehindHash`. `NameInv` adds that a request with
  only the hash left to put, or past the check of the name, finds a readable name:
  the name is put first, and a key lost in between ends every request.
- `SessionsStay`: `Spec => []SessionsLast`. `SecretInv` adds that, until two
  requests store a secret at once, a secret on its way replaces nothing that can
  be read, and so no session of the present key.
- `AccountOfOneClient`: `Spec => []AccountWhole`. The two puts of a setup, and the check
  and the put of a change of password, are steps among those of others, so that the
  property holds only with what every request has sent and seen. `AccountInv` says that,
  until setups overlap, at most one request is storing an account, what it has put is
  in the row, and a change of password works for the name that is stored. It rests on
  `HashInv` (who has a session of the present key, or is about to get one, finds a
  hash, so that no setup gets past its check behind a change) and that on `MintInv`
  (a secret is drawn once, so that a session signed with it is of the key of its time).

`Workflow_proofs` proves, for any number of clients and any `MaxCalls`
(`MaxCallsAssumption`):

- `TypeCorrect`: `Spec => []TypeOK`.
- `GateHolds`: `Spec => []HumanGate`. An approve reads the checkpoint in one step and
  runs the node in another, so that the counters alone are not inductive.
  `GateInv` says that the evaluations and the approve requests that are past their
  check (`Approving`, a finite set) are together no more than the approvals; `RunInv`
  and `RequestInv` say where the thread can be when a client has its id, and that
  the copy of an approve is at the evaluator.
- `AnswersTrue`: `Spec => []ApprovedAnswerIsTrue`. `AnswerInv` adds that a thread that
  a client finds ended, or whose ended copy a reject is about to store, has been
  evaluated.
- `DraftsSafe`: `Spec => []DraftsOnlyForApply`. A reject writes a whole copy back.
  `DraftInv` adds that from the moment the id is known the quarantine, the decision
  and the letter of the thread are settled, so that every copy agrees with it, and
  that before the matcher has run there is no letter and nobody was asked for one.
- `GateRefined`: `Spec => Gate!Spec`, the thread and its requests implement
  `ApprovalGate`. Its permits are the approve requests in flight, which a checkpoint
  knows nothing of: `LeaveCounts` shows that a request that acts or leaves takes its own
  with it and no other. Late rejects, which move the next node back and forth, are
  stutters, because `AnswerInv` says that only an evaluated thread is moved from its
  end; a thread that ended in the screening has no request in flight
  (`InFlightOpen`) and admits none. `KnownInv` adds that nothing is evaluated before
  the id is known.

`Discovery_proofs` proves, for any runs and requests, a finite set of postings that
no captured page shares and any `MaxRows` (`PostingsAssumption`, `KeysAssumption`,
`MaxRowsAssumption`):

- `TypeCorrect`: `Spec => []TypeOK`. `InsertFacts` says what an INSERT of several
  rows leaves: the rows there were, and one new row for each key.
- `PostingsUnique`: `Spec => []OneRowPerPosting`.
- `LinksHold`: `Spec => []LinkedBothWays`. The links alone are not inductive, since
  score and delete act on copies. `LinkInv` adds that a link points at an
  application that points back; `QueueInv` and `ApartInv` that what is in a queue
  has no application and is in no other queue, so that nothing is promoted twice;
  `CopyInv` that a link a score request has seen is still in the table, and that a
  row linked behind the back of a delete is in `chased`.
- `NoneForgotten`: `Spec => []PendingIsQueued`, inductive given `TypeOK` and the links:
  a row leaves a queue only with its outcome written, with its run broken off, or with
  a commit that failed.

and, of `Scraping`, whose batch is what `Fetch` of `Discovery` receives, for any
profiles, caps, listings and any `MaxChanges` (its named assumptions; that a board
lists nothing twice is not needed):

- `FetchTyped`: `FetchSpec => []FetchTypeOK`, with `Tasks`: only a task of a scraper
  that was built has a state, and it runs only while the request is `fetching`.
- `NothingLost`: `FetchSpec => []FetchWhole`. `MissInv` says of every search whose
  board withdrew nothing that a posting listed all along has been found, or stands
  behind the results the next page skips; a page that is not full is the last there
  is (`ResultsFacts`), a posting that is published moves others back, never forward
  (`InsertedFacts`), and so what is found at the end is all of it. `CollectWhole`
  takes it from there through the dictionary of results and the cut.

`Research_proofs` proves, for any runs, queries, URLs and any positive
`MAX_ITERATIONS` (`IterationsAssumption`, `NoBriefAssumption`):

- `TypeCorrect`: `Spec => []TypeOK`.
- `SpendBounded`: `Spec => []SpendSound`. `SpentInv` relates answers and observations to the iteration, place by
  place in the loop: before the planner is asked they are behind it by one, after it
  level, and only the synthesis goes one beyond. The total of the row is bounded by
  the number of calls billed, as a set (`Bill`), so that no sum over the runs has to
  be proved about: `TotalInv` says that the row and every copy of it hold no more
  than the number of calls of the runs that have ended (`Stored`), each of which is
  added at most once, though a lost update may leave some out.
- `ResultHolds`: `Spec => []ResultWhole`. `StoreInv` adds that the brief in the row, or
  in a copy of it, is of a run that has ended, whose notes no longer grow; and
  that the copy of a run nobody has crossed is what is in the row.

`Router_proofs` proves, for any calls and providers, the defaults among them, and
any number of changes (`BaseAssumption`):

- `TypeCorrect`: `Spec => []TypeOK`.
- `AuthorHolds`: `Spec => []OneAuthor`. `AuthorInv` says, place by place, whose text
  has been sent: in the second attempt only that of the second, because the
  fallback is reached only when the first has sent nothing.
- `LedgerHolds`: `Spec => []LedgerTrue`. `LedgerInv` adds that a row is only about a call
  that has returned, so that a call about to record has none.
- `LedgerRefined`: `Spec => Ledger!Spec`, all of it implements `CallLedger`. The mapping
  shows of a call only whether it is open, answered or closed and whom it has heard
  from (`HeardFacts`, from `AuthorInv`); look-ups, failovers and settings are stutters,
  `Record` is `Enter` or, when the row is refused, `Drop`. It says more than
  `LedgerTrue` does of single states: rows are only ever appended, and never for a call
  that is over.
- `NameHolds`: `Spec => []ModelNamed`. `NamedInv` adds that the name announced is the
  default in force until the call resolves it, unless it `shifted`.

and, of `Settings`, where routes and keys come from, for any requests and values
(`ServicesAssumption`, `SoundAssumption`, `MarksAssumption`):

- `SettingsTyped`: `SettingsSpec => []SettingsTypeOK`, with `Progress`: how many keys
  a request has read at each place.
- `PutsStay`: `SettingsSpec => []PutsKept`. It needs from `Progress` that a delete under
  way has found its row: if that is gone by the time of the commit another delete has
  been acknowledged, and the answer is as true as the other's.
- `InForceUsed`: `SettingsSpec => []UsesWhatIsInForce`. `Reads` adds that the first value
  a request has read was in force at its first SELECT and the last at its last; `Uses`
  carries the exception for a provider's old client where no key is set, which is one
  for uses and not for tests.
- `TestedWorks`: `SettingsSpec => []TestedKeyWorks`. `FreshInv` adds that what a request
  outside `late` has read, or calls with, is what is in force now, and that so is the
  key of a client that is not `keptOld`; `ProvenInv` that while a test counts, what is
  in force is right.

Two components share a module of theorems here and in `Discovery_proofs`; `Scraping`
and `Settings` give the names they have in common with `Discovery` and `Router` a
prefix, so that one module can extend both.

The structure is one lemma per fact about the flush and about a handler that
loads or leaves, then one step per action.

`ApplicationDated`, `AnswersTrue` and `AuthorHolds` are about no property of a run:
`ChartCoversApplied`, `ApprovalGate` and `CallLedger` show TLC what goes wrong without
them, and the theorems state it plainly. Every invariant that a run checks and all three refinements are proved. Only model-checked:
liveness (`RunEnds`, `CallEnds`, `FetchEnds`), which is out of the prover's reach, and
the two violations, by their nature.

## 6. Not modelled, and what is assumed

Assumed of the outside: SQLAlchemy flushes changed columns only; PostgreSQL's
statements are atomic, it checks unique and foreign keys, and read-committed
isolation lets a handler see what is committed at the time of its load; LangGraph
as stated in `Workflow`; the provider SDKs and the tools time out.

Not modelled: the text of prompts, letters and pages, and the mapping of a board's
fields; token counts; the read-only endpoints (lists, usage and metrics, and those
queries of the dashboard that relate to no other); the parsing of `profile.yml`;
the budget guard, which nothing calls; the counters of `PipelineReport`; the insert
of the one user row; the clients, whose requests are the environment; migrations;
logging and tracing; encryption and bcrypt; the regular expressions of the injection
scan and of PII redaction (their verdict is a free choice).

Left out of the modules above on purpose: `Annotations` has no triage, which is
`Discovery`'s, and `Discovery` no verdict columns; `Settings` has one service at a
time, because no code reads the keys of two together; `Scraping` has one discovery
run, because two share neither clients nor lists, and their batches meet in
`Discovery`.

## 7. Plan

Modelled in this order: letters (paid for, and the only artefact the user signs
off), the gate, the tables, the two loops that spend money, the account; then the
handlers that merge into a copy (`Annotations`), the fetch (`Scraping`), the
settings and their readers (`Settings`), and the dashboard beside the status
endpoint; then the theorems, module by module; then `ApprovalGate` and `CallLedger`, and
that `Workflow` and `Router` implement them. What is left:

1. An abstract life of a posting for `Discovery` (seen, judged, applied for, gone),
   with its runs, captures, scorings and deletes as a refinement.
