------------------------------- MODULE Router -------------------------------
(***************************************************************************)
(* One call of a language model through app/llm/router.py, and several of  *)
(* them at once: the route is looked up in the settings, the default       *)
(* provider is tried, then the fallback, and the answer is entered in      *)
(* llm_usage_events (app/llm/usage.py).  The streamed letter of            *)
(* app/api/job_actions.py looks the route up once more, beforehand, for    *)
(* the model it will store with the text.                                  *)
(***************************************************************************)
EXTENDS Naturals, Sequences, FiniteSets

CONSTANTS
    Calls,         \* the calls of one behaviour
    Providers,
    BaseDefault,   \* the route of the task in ROUTES
    BaseFallback,
    Unset          \* no such setting

ASSUME BaseAssumption == {BaseDefault, BaseFallback} \subseteq Providers
ASSUME UnsetAssumption == Unset \notin Providers

\* "stream" is route_stream for a letter, "plain" is route.
Kinds == {"stream", "plain"}

\* What the CallContext names as the application: nothing (score, research,
\* letters, MCP), or the id of a workflow thread, which POST /api/applications
\* makes up without inserting an applications row.
Contexts == {"free", "thread"}

\* The two attempts of a call, in order; 0 stands for neither.
Attempts == {1, 2}

VARIABLES
    override, \* the settings model.<task>.default and .fallback
    usage,    \* llm_usage_events
    pc,       \* where each call is
    kind,     \* how it was asked for
    context,  \* its CallContext
    named,    \* the provider its "meta" event and cover_letter_model name
    route,    \* the providers of its two attempts
    sent,     \* the attempts whose text has reached the client
    answer,   \* the attempt that answered, or 0
    lost,     \* history: calls whose usage row found the database out of reach
    shifted   \* history: calls since whose announcement the default has changed,
              \* or for which one of the two look-ups of it failed

vars == <<override, usage, pc, kind, context, named, route, sent, answer,
          lost, shifted>>

PCs == {"unstarted", "announcing", "readingDefault", "readingFallback", "first",
        "second", "recording", "returned", "raised", "cancelled"}

TypeOK ==
    /\ override \in [Attempts -> Providers \cup {Unset}]
    /\ usage \in Seq([call : Calls, by : Providers])
    /\ pc \in [Calls -> PCs]
    /\ kind \in [Calls -> Kinds]
    /\ context \in [Calls -> Contexts]
    /\ named \in [Calls -> Providers \cup {Unset}]
    /\ route \in [Calls -> [Attempts -> Providers]]
    /\ sent \in [Calls -> SUBSET Attempts]
    /\ answer \in [Calls -> Attempts \cup {0}]
    /\ lost \subseteq Calls
    /\ shifted \subseteq Calls

Base == <<BaseDefault, BaseFallback>>

Init ==
    /\ override = [n \in Attempts |-> Unset]
    /\ usage = <<>>
    /\ pc = [c \in Calls |-> "unstarted"]
    /\ kind \in [Calls -> Kinds]
    /\ context \in [Calls -> Contexts]
    /\ \A c \in Calls : kind[c] = "stream" => context[c] = "free"
    /\ named = [c \in Calls |-> Unset]
    /\ route = [c \in Calls |-> Base]
    /\ sent = [c \in Calls |-> {}]
    /\ answer = [c \in Calls |-> 0]
    /\ lost = {}
    /\ shifted = {}

ledger == <<usage, lost>>
fixed == <<kind, context>>
Goto(c, p) == pc' = [pc EXCEPT ![c] = p]

-----------------------------------------------------------------------------
(* PUT /api/settings/model.<task>.default or .fallback; empty deletes it *)

PutSetting(n, p) ==
    /\ override[n] # p
    /\ override' = [override EXCEPT ![n] = p]
    /\ shifted' = IF n = 1 THEN shifted \cup {c \in Calls : kind[c] = "stream" /\ pc[c] = "readingDefault"}
                  ELSE shifted
    /\ UNCHANGED <<ledger, pc, fixed, named, route, sent, answer>>

-----------------------------------------------------------------------------
(* _resolve_route *)

\* Mutant: an override that is not there is taken for the answer.
EffectiveRaw(n) == override[n]

\* The override of attempt n, or the routing table.
Effective(n) == IF override[n] = Unset THEN Base[n] ELSE override[n]

Start(c) ==
    /\ pc[c] = "unstarted"
    /\ Goto(c, IF kind[c] = "stream" THEN "announcing" ELSE "readingDefault")
    /\ UNCHANGED <<override, ledger, fixed, named, route, sent, answer, shifted>>

\* Mutant: the routing table is named whatever the settings say.
NamedByTable(reached) == Base[1]

Named(reached) == IF reached THEN Effective(1) ELSE Base[1]

\* The letter endpoint resolves the route for its "meta" event; the settings may
\* be out of reach.
Announce(c, reached) ==
    /\ pc[c] = "announcing"
    /\ named' = [named EXCEPT ![c] = Named(reached)]
    /\ shifted' = IF reached THEN shifted ELSE shifted \cup {c}
    /\ Goto(c, "readingDefault")
    /\ UNCHANGED <<override, ledger, fixed, route, sent, answer>>

\* The two settings are read one after the other; when a read fails the rest of
\* the route is the table's.
ReadDefault(c, reached) ==
    /\ pc[c] = "readingDefault"
    /\ route' = [route EXCEPT ![c][1] = IF reached THEN Effective(1) ELSE Base[1]]
    /\ shifted' = IF reached \/ kind[c] = "plain" THEN shifted ELSE shifted \cup {c}
    /\ Goto(c, IF reached THEN "readingFallback" ELSE "first")
    /\ UNCHANGED <<override, ledger, fixed, named, sent, answer>>

ReadFallback(c, reached) ==
    /\ pc[c] = "readingFallback"
    /\ route' = [route EXCEPT ![c][2] = IF reached THEN Effective(2) ELSE Base[2]]
    /\ Goto(c, "first")
    /\ UNCHANGED <<override, ledger, fixed, named, sent, answer, shifted>>

-----------------------------------------------------------------------------
(* route and route_stream *)

Trying(c) == pc[c] \in {"first", "second"}
Attempt(c) == IF pc[c] = "first" THEN 1 ELSE 2

\* The provider yields a StreamDelta, which is passed on at once.
Emit(c) ==
    /\ Trying(c)
    /\ kind[c] = "stream"
    /\ sent' = [sent EXCEPT ![c] = @ \cup {Attempt(c)}]
    /\ UNCHANGED <<override, ledger, pc, fixed, named, route, answer, shifted>>

\* The response of generate, or the LLMResponse that ends a stream.
Answer(c) ==
    /\ Trying(c)
    /\ answer' = [answer EXCEPT ![c] = Attempt(c)]
    /\ Goto(c, "recording")
    /\ UNCHANGED <<override, ledger, fixed, named, route, sent, shifted>>

\* Mutant: a stream is retried whatever it has shown.
FailsOverAlways(c) == pc[c] = "first"

\* An attempt that raised gives way to the fallback, unless it was the fallback
\* or has emitted something.
FailsOver(c) == pc[c] = "first" /\ sent[c] = {}

Raise(c) ==
    /\ Trying(c)
    /\ Goto(c, IF FailsOver(c) THEN "second" ELSE "raised")
    /\ UNCHANGED <<override, ledger, fixed, named, route, sent, answer, shifted>>

-----------------------------------------------------------------------------
(* record_usage *)

\* Mutants: the row names the default provider; the call waits for the row to
\* be written.
UsageRowOfDefault(c) == [call |-> c, by |-> route[c][1]]

UsageRow(c) == [call |-> c, by |-> route[c][answer[c]]]

RecordOrWait(c, reached) ==
    /\ pc[c] = "recording"
    /\ reached /\ context[c] = "free"
    /\ usage' = Append(usage, UsageRow(c))
    /\ Goto(c, "returned")
    /\ UNCHANGED <<override, fixed, named, route, sent, answer, lost, shifted>>

\* application_id refers to applications(id), where a thread's id is not found.
\* Whatever the INSERT raises is logged, and the answer is returned all the same.
Record(c, reached) ==
    /\ pc[c] = "recording"
    /\ usage' = IF reached /\ context[c] = "free"
                THEN Append(usage, UsageRow(c)) ELSE usage
    /\ lost' = IF reached \/ context[c] = "thread" THEN lost ELSE lost \cup {c}
    /\ Goto(c, "returned")
    /\ UNCHANGED <<override, fixed, named, route, sent, answer, shifted>>

\* The client goes away, or the process stops, and the call's variables with it.
Cancel(c) ==
    /\ pc[c] \notin {"unstarted", "returned", "raised", "cancelled"}
    /\ Goto(c, "cancelled")
    /\ named' = [named EXCEPT ![c] = Unset]
    /\ route' = [route EXCEPT ![c] = Base]
    /\ sent' = [sent EXCEPT ![c] = {}]
    /\ answer' = [answer EXCEPT ![c] = 0]
    /\ shifted' = shifted \ {c}
    /\ UNCHANGED <<override, ledger, fixed>>

Step(c) ==
    \/ \E reached \in BOOLEAN :
          \/ Announce(c, reached) \/ ReadDefault(c, reached)
          \/ ReadFallback(c, reached) \/ Record(c, reached)
    \/ Emit(c) \/ Answer(c) \/ Raise(c)

Next ==
    \/ \E c \in Calls : Start(c) \/ Step(c) \/ Cancel(c)
    \/ \E n \in Attempts, p \in Providers \cup {Unset} : PutSetting(n, p)

Spec == Init /\ [][Next]_vars

\* The clients of both providers time out, max_tokens ends a stream, and so does
\* the settings database answer or fail.
FairSpec == Spec /\ \A c \in Calls : WF_vars(Step(c))

-----------------------------------------------------------------------------
(* Properties *)

\* A letter is never patched together from two attempts: all the text a client
\* receives is of one of them, of the one that answered if one did
\* (router.py:67-89).
OneAuthor ==
    \A c \in Calls : /\ Cardinality(sent[c]) <= 1
                     /\ answer[c] # 0 => sent[c] \subseteq {answer[c]}

\* A ledger of what has been paid for: a call that returned has exactly one row,
\* a call that nobody answered has none, and the row names the provider that
\* answered, also when that was the fallback or the settings have changed since.
\* Two kinds of calls are missing: those for which the database was out of reach,
\* and all those of a workflow thread, whose application_id the schema refuses
\* (usage.py:41-71, CareerOS_AI_Product_Spec_v2.md:340).
LedgerTrue ==
    /\ \A c \in Calls : pc[c] = "returned" /\ context[c] = "free" /\ c \notin lost =>
           \E i \in DOMAIN usage : usage[i].call = c
    /\ \A i \in DOMAIN usage :
           LET c == usage[i].call
           IN  /\ answer[c] # 0
               /\ usage[i].by = route[c][answer[c]]
               /\ \A j \in DOMAIN usage : usage[j].call = c => i = j

\* The provider stored with a letter is the one that wrote it, unless the fallback
\* did or the default changed between the look-up for the meta event and that for
\* the call (job_actions.py:348-352, 407, CareerOS_AI_Product_Spec_v2.md:877).
\* A fallback whose provider is the default's makes no difference.
ModelNamed ==
    \A c \in Calls :
        kind[c] = "stream" /\ answer[c] = 1 /\ c \notin shifted =>
            named[c] = route[c][answer[c]]

\* A call that has started ends, whatever the providers and the database do
\* (router.py:91-111, usage.py:70-71).
CallEnds ==
    \A c \in Calls :
        pc[c] = "readingDefault" ~> pc[c] \in {"returned", "raised", "cancelled"}

-----------------------------------------------------------------------------
(* The refinement of CallLedger *)

Over(c) == pc[c] \in {"returned", "raised", "cancelled"}

Stage(c) ==
    IF Over(c) THEN "closed" ELSE IF pc[c] = "recording" THEN "answered" ELSE "open"

\* The providers whose text or answer an open call has received.
HeardFrom(c) ==
    IF Over(c) THEN {} ELSE {route[c][n] : n \in sent[c] \cup ({answer[c]} \ {0})}

CallStages == [c \in Calls |-> Stage(c)]
CallAuthors == [c \in Calls |-> HeardFrom(c)]

Ledger ==
    INSTANCE CallLedger WITH stage <- CallStages, authors <- CallAuthors, book <- usage

\* Routes that change between two look-ups, fallbacks, cancellations and a database
\* that fails come to what CallLedger promises: a call hears from one provider, and
\* a row is appended only as an answered call ends, once, with that provider in it;
\* no row is changed or taken back (router.py:67-111, usage.py:41-71).
ImplementsLedger == Ledger!Spec
=============================================================================
