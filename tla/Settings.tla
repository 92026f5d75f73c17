------------------------------ MODULE Settings ------------------------------
(***************************************************************************)
(* The settings a user edits while the server runs (app/api/settings.py,   *)
(* app/settings_store.py) and what uses them: the model providers with     *)
(* their cached clients, the scraper registry, the web search, the routing *)
(* table, and the two readers that look at the environment alone.  The     *)
(* services share nothing but the master key, so that a behaviour is about *)
(* one of them.  Names that Router has too carry Settings, so that the two *)
(* can be read together.                                                   *)
(***************************************************************************)
EXTENDS Naturals, Sequences

CONSTANTS
    Requests,  \* requests in flight at the same time
    Services,  \* the services looked at
    Values,    \* what can be put: keys, model names, amounts
    Preset,    \* those the environment can hold
    Sound,     \* those that are right: the service accepts the key, the model
               \* is on the list, the amount is a number
    None,      \* no value: no row, an empty variable of the environment
    Garbled    \* a row that cannot be decrypted

ModelServices == {"openai", "anthropic"}
Tested == ModelServices \cup {"tavily", "adzuna", "reed"}
EnvOnly == {"budget", "extension"}
Defaulted == {"route", "budget"}  \* never without a value: ROUTES, config.py
AllServices == ModelServices \cup EnvOnly \cup {"route", "tavily", "adzuna", "reed"}

ASSUME ServicesAssumption == Services \subseteq AllServices
ASSUME SoundAssumption == Sound \subseteq Values /\ Preset \subseteq Sound /\ Preset # {}
ASSUME MarksAssumption == None # Garbled /\ {None, Garbled} \cap Values = {}

VARIABLES
    service,  \* what this behaviour is about
    env,      \* the environment of the process; for a route the table ROUTES
    rows,     \* app_settings, by the place of the key in Names
    client,   \* the key of a provider's client; None is the placeholder
    at,       \* where each request is
    op,       \* what it does
    asked,    \* the key and the value of a put
    present,  \* whether session.get found the row it is putting
    seen,     \* the settings it has read so far
    used,     \* what it has sent to the service, or shows
    outage,   \* history: the store could not be read for it
    said,     \* history: the value last acknowledged for a key
    inforce,  \* history: what was in force at a request's first and last SELECT
    late,     \* history: requests on a key read before the last change of a row
    keptOld,  \* history: the provider's client is of before the last change
    proven    \* history: a test said ok and no row has changed since what it read

store == <<service, env, rows, client>>
local == <<at, op, asked, present, seen, used>>
history == <<outage, said, inforce, late, keptOld, proven>>
settingsVars == <<store, local, history>>

-----------------------------------------------------------------------------
(* The keys of a service, in the order they are read *)

Names ==
    CASE service = "openai" -> <<"openai_api_key">>
      [] service = "anthropic" -> <<"anthropic_api_key">>
      [] service = "tavily" -> <<"tavily_api_key">>
      [] service = "adzuna" -> <<"adzuna_app_id", "adzuna_app_key">>
      [] service = "reed" -> <<"reed_api_key">>
      [] service = "extension" -> <<"extension_api_token">>
      [] service = "budget" -> <<"monthly_budget_eur">>
      [] service = "route" -> <<"model.task.default", "model.task.fallback">>

Keys == DOMAIN Names
Known == Values \cup {None}

NoPut == [key |-> 0, value |-> None]

SettingsTypeOK ==
    /\ service \in Services
    /\ env \in [Keys -> Known]
    /\ rows \in [Keys -> Known \cup {Garbled}]
    /\ service \in Defaulted =>
          \A k \in Keys : /\ env[k] \in Sound
                          /\ rows[k] \in Sound \cup {None, Garbled}
    /\ client \in Known
    /\ at \in [Requests -> {"idle", "putting", "reading", "acting", "calling"}]
    /\ op \in [Requests -> {"none", "put", "tree", "test", "use"}]
    /\ asked \in [Requests -> [key : Keys \cup {0}, value : Known]]
    /\ present \in [Requests -> BOOLEAN]
    /\ seen \in [Requests -> Seq(Known)]
    /\ used \in [Requests -> Seq(Known)]
    /\ outage \in [Requests -> BOOLEAN]
    /\ said \in [Keys -> Known]
    /\ inforce \in [Requests -> [first : [Keys -> Known], last : [Keys -> Known]]]
    /\ late \subseteq Requests
    /\ keptOld \in BOOLEAN /\ proven \in BOOLEAN

Unread == [first |-> [k \in Keys |-> None], last |-> [k \in Keys |-> None]]

\* What the environment can hold for the service.
Environments ==
    [Keys -> IF service \in Defaulted THEN Preset ELSE Preset \cup {None}]

SettingsInit ==
    /\ service \in Services
    /\ env \in Environments
    /\ rows = [k \in Keys |-> None]
    /\ client = IF service \in ModelServices THEN env[1] ELSE None
    /\ at = [q \in Requests |-> "idle"]
    /\ op = [q \in Requests |-> "none"]
    /\ asked = [q \in Requests |-> NoPut]
    /\ present = [q \in Requests |-> FALSE]
    /\ seen = [q \in Requests |-> <<>>]
    /\ used = [q \in Requests |-> <<>>]
    /\ outage = [q \in Requests |-> FALSE]
    /\ said = [k \in Keys |-> None]
    /\ inforce = [q \in Requests |-> Unread]
    /\ late = {}
    /\ keptOld = FALSE /\ proven = FALSE

-----------------------------------------------------------------------------
(* The histories *)

\* The value in force by the order of precedence the documents state.
InForce(e, r, k) == IF r[k] \in {None, Garbled} THEN e[k] ELSE r[k]
Configuration(e, r) == [k \in Keys |-> InForce(e, r, k)]

\* The use or the test goes by a key it has read, or is calling already.
Committed(q) ==
    /\ service \in Tested /\ op[q] # "tree"
    /\ at[q] = "calling" \/ (seen[q] # <<>> /\ ~outage[q])

\* A request that is still reading will have read at least what is in force now.
Track ==
    /\ inforce' = [p \in Requests |->
                      IF at[p] # "reading" THEN inforce[p]
                      ELSE [first |-> IF seen[p] = <<>> THEN Configuration(env, rows')
                                      ELSE inforce[p].first,
                            last |-> Configuration(env, rows')]]
    /\ IF rows' = rows
       THEN UNCHANGED <<late, keptOld, proven>>
       ELSE /\ late' = late \cup {p \in Requests : Committed(p)}
            /\ keptOld' = (service \in ModelServices)
            /\ proven' = FALSE

\* A request that ends.
Forget(q) ==
    /\ inforce' = [inforce EXCEPT ![q] = Unread]
    /\ late' = late \ {q}

-----------------------------------------------------------------------------
(* settings_store *)

\* get: a row that cannot be decrypted reads as one that is not there.
Get(k) == IF rows[k] = Garbled THEN None ELSE rows[k]

\* Mutant: the environment has priority.
EffectiveEnvFirst(k) == IF env[k] # None THEN env[k] ELSE Get(k)

\* effective_secret, and the value behind _is_set_marker of the settings tree: the
\* stored value, then that of the environment.
EffectiveSecret(k) == IF Get(k) # None THEN Get(k) ELSE env[k]

\* Mutant: models and amounts are stored as they are sent.
ValidAlways(v) == TRUE

\* _validate_value: the empty value, which deletes, and any key will do; a model
\* has to be on the list and an amount a number.
Valid(v) == v = None \/ service \notin Defaulted \/ v \in Sound

Leave(q) ==
    /\ at' = [at EXCEPT ![q] = "idle"]
    /\ op' = [op EXCEPT ![q] = "none"]
    /\ asked' = [asked EXCEPT ![q] = NoPut]
    /\ present' = [present EXCEPT ![q] = FALSE]
    /\ seen' = [seen EXCEPT ![q] = <<>>]
    /\ used' = [used EXCEPT ![q] = <<>>]
    /\ outage' = [outage EXCEPT ![q] = FALSE]

-----------------------------------------------------------------------------
(* PUT /api/settings/{key} *)

\* The row is looked up.  To delete one that is not there nothing has to be done.
PutLoad(q, k, v) ==
    /\ at[q] = "idle"
    /\ Valid(v)
    /\ IF v = None /\ rows[k] = None
       THEN said' = [said EXCEPT ![k] = None] /\ UNCHANGED local
       ELSE /\ at' = [at EXCEPT ![q] = "putting"]
            /\ op' = [op EXCEPT ![q] = "put"]
            /\ asked' = [asked EXCEPT ![q] = [key |-> k, value |-> v]]
            /\ present' = [present EXCEPT ![q] = rows[k] # None]
            /\ UNCHANGED <<seen, used, said>>
    /\ UNCHANGED <<store, outage, inforce, late, keptOld, proven>>

\* Mutants: a put that finds the row gone or inserted counts as done.
AcceptedAlways(q) == TRUE

\* A DELETE of what is gone already does nothing; an UPDATE of it fails, and so
\* does a second INSERT.
Accepted(q) ==
    asked[q].value = None \/ present[q] = (rows[asked[q].key] # None)

\* A new ciphertext is made for the same value, too, so that the UPDATE always has
\* both its columns to write.
PutCommit(q) ==
    LET k == asked[q].key
        lands == present[q] = (rows[k] # None)
    IN  /\ at[q] = "putting"
        /\ rows' = IF lands THEN [rows EXCEPT ![k] = asked[q].value] ELSE rows
        /\ said' = IF Accepted(q) THEN [said EXCEPT ![k] = asked[q].value] ELSE said
        /\ Track
        /\ Leave(q)
        /\ UNCHANGED <<service, env, client>>

-----------------------------------------------------------------------------
(* GET /api/settings, POST /api/settings/test, and the uses *)

\* monthly_summary and _check_token of captures read the environment alone.
StartRead(q, o) ==
    /\ at[q] = "idle"
    /\ o \in {"tree", "use"} \cup IF service \in Tested THEN {"test"} ELSE {}
    /\ op' = [op EXCEPT ![q] = o]
    /\ inforce' = [inforce EXCEPT ![q] = [first |-> Configuration(env, rows),
                                          last |-> Configuration(env, rows)]]
    /\ IF o = "use" /\ service \in EnvOnly
       THEN at' = [at EXCEPT ![q] = "calling"] /\ used' = [used EXCEPT ![q] = env]
       ELSE at' = [at EXCEPT ![q] = "reading"] /\ UNCHANGED used
    /\ UNCHANGED <<store, asked, present, seen, outage, said, late, keptOld, proven>>

\* One SELECT for every key.
Read(q) ==
    /\ at[q] = "reading"
    /\ seen' = [seen EXCEPT ![q] = Append(@, EffectiveSecret(Len(@) + 1))]
    /\ at' = [at EXCEPT ![q] = IF Len(seen'[q]) = Len(Names) THEN "acting" ELSE @]
    /\ UNCHANGED <<store, op, asked, present, used, history>>

\* The database is out of reach.  A provider goes on with the client it has, the
\* router with the rest of the table; the others raise.
ReadFails(q) ==
    /\ at[q] = "reading"
    /\ IF op[q] = "use" /\ service \in ModelServices \cup {"route"}
       THEN /\ at' = [at EXCEPT ![q] = "acting"]
            /\ seen' = [seen EXCEPT ![q] =
                           [k \in Keys |-> IF k <= Len(@) THEN @[k]
                                           ELSE IF service \in ModelServices THEN None
                                           ELSE env[k]]]
            /\ outage' = [outage EXCEPT ![q] = TRUE]
            /\ UNCHANGED <<op, asked, present, used, inforce, late>>
       ELSE Leave(q) /\ Forget(q)
    /\ UNCHANGED <<store, said, keptOld, proven>>

\* Mutant: the client of the first key is kept.
RefreshedOnce(resolved) == IF client = None THEN resolved ELSE client

\* _ensure_client: a client for the key that was read, if that is a new one.
Refreshed(resolved) == IF resolved # None THEN resolved ELSE client

\* A use with all it has read: a provider sends the key of its client, which no
\* other task can replace before it is sent.
Use(q) ==
    /\ at[q] = "acting"
    /\ op[q] = "use"
    /\ IF service \in ModelServices
       THEN /\ client' = Refreshed(seen[q][1])
            /\ used' = [used EXCEPT ![q] = <<client'>>]
            /\ IF seen[q][1] # None
               THEN keptOld' = (q \in late) /\ UNCHANGED late
               ELSE late' = (IF keptOld THEN late \cup {q} ELSE late) /\ UNCHANGED keptOld
       ELSE used' = [used EXCEPT ![q] = seen[q]] /\ UNCHANGED <<client, late, keptOld>>
    /\ seen' = [seen EXCEPT ![q] = <<>>]
    /\ at' = [at EXCEPT ![q] = "calling"]
    /\ UNCHANGED <<service, env, rows, op, asked, present, outage, said, inforce, proven>>

\* The tree is returned with its secrets masked; a test calls the service.
Show(q) ==
    /\ at[q] = "acting"
    /\ op[q] \in {"tree", "test"}
    /\ used' = [used EXCEPT ![q] = seen[q]]
    /\ seen' = [seen EXCEPT ![q] = <<>>]
    /\ at' = [at EXCEPT ![q] = "calling"]
    /\ UNCHANGED <<store, op, asked, present, history>>

\* What a service answers to the values vs: 200, or 401 to a key it does not know.
Answers(vs) == IF \A k \in DOMAIN vs : vs[k] \in Sound THEN {200, 500} ELSE {401, 500}

\* Mutant: a test is passed by any answer that is not the server's fault.
OkReachable(vs, status) == (\A k \in DOMAIN vs : vs[k] # None) /\ status < 500

\* What a test makes of it.  A key that is missing is not sent.
Ok(vs, status) ==
    /\ \A k \in DOMAIN vs : vs[k] # None
    /\ IF service = "anthropic" THEN status < 500 ELSE status = 200

Finish(q, status) ==
    /\ at[q] = "calling"
    /\ status \in Answers(used[q])
    /\ proven' = (proven \/ (op[q] = "test" /\ Ok(used[q], status) /\ q \notin late))
    /\ Leave(q)
    /\ Forget(q)
    /\ UNCHANGED <<store, said, keptOld>>

Fail(q) ==
    /\ at[q] # "idle"
    /\ Leave(q)
    /\ Forget(q)
    /\ UNCHANGED <<store, said, keptOld, proven>>

\* The process ends and starts again; without a master key in the environment or
\* a .env that can be written, what is stored can no longer be read.
Restart(e, lost) ==
    /\ env' = e
    /\ rows' = [k \in Keys |-> IF lost /\ rows[k] # None THEN Garbled ELSE rows[k]]
    /\ client' = IF service \in ModelServices THEN e[1] ELSE None
    /\ at' = [q \in Requests |-> "idle"]
    /\ op' = [q \in Requests |-> "none"]
    /\ asked' = [q \in Requests |-> NoPut]
    /\ present' = [q \in Requests |-> FALSE]
    /\ seen' = [q \in Requests |-> <<>>]
    /\ used' = [q \in Requests |-> <<>>]
    /\ outage' = [q \in Requests |-> FALSE]
    /\ said' = [k \in Keys |-> IF lost THEN None ELSE said[k]]
    /\ inforce' = [q \in Requests |-> Unread]
    /\ late' = {}
    /\ keptOld' = (service \in ModelServices /\ InForce(e, rows', 1) # e[1])
    /\ proven' = FALSE
    /\ UNCHANGED service

SettingsNext ==
    \/ \E q \in Requests :
          \/ \E k \in Keys, v \in Known : PutLoad(q, k, v)
          \/ PutCommit(q)
          \/ \E o \in {"tree", "test", "use"} : StartRead(q, o)
          \/ Read(q) \/ ReadFails(q) \/ Use(q) \/ Show(q)
          \/ \E status \in {200, 401, 500} : Finish(q, status)
          \/ Fail(q)
    \/ \E e \in Environments, lost \in BOOLEAN : Restart(e, lost)

SettingsSpec == SettingsInit /\ [][SettingsNext]_settingsVars

-----------------------------------------------------------------------------
(* Properties *)

StoreReaders == AllServices \ EnvOnly

\* What is shown, tested or used was in force when the request read it, whatever
\* others did to a provider's client in the meantime: an edit takes effect on the next
\* call (openai.py:17-35, registry.py:15-16).  A pair is one that was in force, unless
\* a change landed between its two SELECTs; then each half was in force at one of them,
\* and the pair perhaps never.  Left out are a use that could not read the settings,
\* the readers of the environment, and a provider's client where no key was set.
UsesWhatIsInForce ==
    \A q \in Requests :
        at[q] = "calling" /\ ~outage[q] /\ (op[q] = "use" => service \in StoreReaders) =>
            \/ \A k \in Keys : used[q][k] \in {inforce[q].first[k], inforce[q].last[k]}
            \/ service \in ModelServices /\ op[q] = "use" /\ inforce[q].last[1] = None

\* After a test has said ok to the settings as they stand, a use or a test is turned
\* away for one reason only: it goes by a key read before they came to stand so.
\* Either it had itself read one by then, be it the first half of a pair
\* (registry.py:23-24), or it cannot read the settings and keeps a client made from a
\* key read by then.  What starts after the edit works, in an outage too once a use has
\* made the client anew (settings.py:213-316, openai.py:17-35).  Anthropic's test
\* passes any key.
TestedKeyWorks ==
    \A q \in Requests :
        /\ proven /\ service # "anthropic"
        /\ at[q] = "calling" /\ op[q] \in {"use", "test"} /\ q \notin late
        => \A k \in Keys : used[q][k] \in Sound

\* A put that was acknowledged is what is read from then on, and one that was
\* refused has changed nothing: of overlapping puts and deletes the last one to
\* be acknowledged counts, until the master key is lost (settings_store.py:105-146).
PutsKept == \A k \in Keys : Get(k) = said[k]
=============================================================================
