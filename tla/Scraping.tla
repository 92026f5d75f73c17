------------------------------ MODULE Scraping ------------------------------
(***************************************************************************)
(* The fetch of one POST /api/discover: every scraper that is enabled and  *)
(* has its credentials (app/scrapers/registry.py) searches every location  *)
(* of the profile in a task of its own, page after page (adzuna.py,        *)
(* reed.py), while the boards go on publishing and withdrawing postings;   *)
(* _fetch_all of app/scrapers/pipeline.py gathers what they found, the     *)
(* HTTP clients are closed and the batch goes to _upsert, which is the     *)
(* action Fetch of Discovery.  Names that Discovery has too carry Fetch,   *)
(* so that the two can be read together.                                   *)
(***************************************************************************)
EXTENDS Integers, Sequences, Functions

CONSTANTS
    Locations,   \* the locations a profile can list
    PostingIds,  \* ids a board gives its postings
    RedFlagged,  \* those whose title or description has a red flag
    Profiles,    \* what profile.yml can say
    Caps,        \* max_results_per_source; None, like 0, is no cap
    Listings,    \* what a board can list for a search at first
    MaxChanges   \* bound: postings published or withdrawn meanwhile

Sources == {"adzuna", "reed"}
Credentials == {"adzuna_app_id", "adzuna_app_key", "reed_api_key"}

ProfileType == [enabled : SUBSET Sources, locations : Seq(Locations),
                name : [Locations -> STRING],
                results_per_page : Nat \ {0}, max_pages : Nat]

ASSUME ProfilesAssumption == Profiles \subseteq ProfileType
ASSUME CapsAssumption == Caps \subseteq Int
ASSUME RedFlaggedAssumption == RedFlagged \subseteq PostingIds
ASSUME ListingsAssumption ==
    \A s \in Listings : s \in Seq(PostingIds) /\ IsInjective(s)
ASSUME MaxChangesAssumption == MaxChanges \in Nat

\* A search is a task of _fetch_all: one scraper at one location.
Searches == Sources \X Locations
Source(t) == t[1]
Location(t) == t[2]

VARIABLES
    profile,  \* the profile of this request
    cap,      \* its max_results_per_source
    listing,  \* what each board lists for a search at the moment
    phase,    \* where the request is
    scrapers, \* build_enabled_scrapers: the sources searched
    state,    \* where each task is
    page,     \* its loop variable
    jobs,     \* its jobs before the cut and the filter
    closed,   \* the scrapers whose client is closed
    batch,    \* what is handed to _upsert
    changes,  \* the number of postings published or withdrawn
    before,   \* history: what the board listed when the search began
    gone,     \* history: searches whose board has withdrawn a posting since
    ended     \* history: why the loop of a search ended

config == <<profile, cap>>
boards == <<listing, changes, gone>>
tasks == <<state, page, jobs, ended>>
fetchVars == <<config, boards, tasks, phase, scrapers, closed, batch, before>>

States == {"none", "running", "returned", "raised"}

FetchTypeOK ==
    /\ profile \in Profiles
    /\ cap \in Caps
    /\ listing \in [Searches -> Seq(PostingIds)]
    /\ phase \in {"building", "fetching", "closing", "storing", "refused"}
    /\ scrapers \subseteq Sources
    /\ state \in [Searches -> States]
    /\ page \in [Searches -> 0..(profile.max_pages + 1)]
    /\ jobs \in [Searches -> Seq(PostingIds)]
    /\ closed \subseteq scrapers
    /\ batch \subseteq Sources \X PostingIds
    /\ changes \in 0..MaxChanges
    /\ before \in [Searches -> Seq(PostingIds)]
    /\ gone \subseteq Searches
    /\ ended \in [Searches -> {"not", "short", "cap", "pages", "error"}]

NoListing == [t \in Searches |-> <<>>]

FetchInit ==
    /\ profile \in Profiles
    /\ cap \in Caps
    /\ listing = NoListing
    /\ phase = "building"
    /\ scrapers = {}
    /\ state = [t \in Searches |-> "none"]
    /\ page = [t \in Searches |-> 0]
    /\ jobs = NoListing
    /\ closed = {}
    /\ batch = {}
    /\ changes = 0
    /\ before = NoListing
    /\ gone = {}
    /\ ended = [t \in Searches |-> "not"]

-----------------------------------------------------------------------------
(* build_enabled_scrapers, and the tasks of _fetch_all *)

Needs(s) == IF s = "adzuna" THEN {"adzuna_app_id", "adzuna_app_key"}
            ELSE {"reed_api_key"}

\* keys are the credentials found in the settings or the environment; a source the
\* profile enables is skipped without a word when one of its own is missing.
EnabledScrapers(keys) == {s \in profile.enabled : Needs(s) \subseteq keys}

\* One task for every scraper and location.
Created(ss) == {t \in Searches : Source(t) \in ss /\
                                 Location(t) \in Range(profile.locations)}

\* Adzuna counts its pages from 1, Reed's scraper from 0.
Pages(s) == IF s = "adzuna" THEN 1..profile.max_pages
            ELSE 0..(profile.max_pages - 1)

FirstPage(s) == IF s = "adzuna" THEN 1 ELSE 0

\* Without a page to fetch Adzuna's search raises, as it reports the number of
\* a page there was not, and Reed's returns nothing.
StateAtFirst(s) ==
    IF Pages(s) # {} THEN "running" ELSE IF s = "adzuna" THEN "raised" ELSE "returned"

\* What the boards list is looked at for the searches that are made.
Build(keys) ==
    /\ phase = "building"
    /\ scrapers' = EnabledScrapers(keys)
    /\ phase' = IF scrapers' = {} THEN "refused" ELSE "fetching"
    /\ LET ts == Created(scrapers')
       IN  \E f \in [ts -> Listings] :
             /\ listing' = [t \in Searches |-> IF t \in ts THEN f[t] ELSE <<>>]
             /\ state' = [t \in Searches |->
                            IF t \in ts THEN StateAtFirst(Source(t)) ELSE "none"]
             /\ page' = [t \in Searches |->
                            IF t \in ts THEN FirstPage(Source(t)) ELSE 0]
    /\ before' = listing'
    /\ UNCHANGED <<config, changes, gone, jobs, ended, closed, batch>>

-----------------------------------------------------------------------------
(* search *)

\* Mutant: Reed's first page is skipped.
SkippedFromOne(s, p) == IF s = "adzuna" THEN (p - 1) * profile.results_per_page
                        ELSE (p + 1) * profile.results_per_page

\* The results before page p: resultsToSkip of Reed, Adzuna's own reckoning.
Skipped(s, p) == IF s = "adzuna" THEN (p - 1) * profile.results_per_page
                 ELSE p * profile.results_per_page

\* What a board answers to the request for page p.
Results(t, p) ==
    LET from == Skipped(Source(t), p) + 1
        upto == Skipped(Source(t), p) + profile.results_per_page
    IN  SubSeq(listing[t], from,
               IF upto < Len(listing[t]) THEN upto ELSE Len(listing[t]))

\* Mutant: max_pages is not looked at.
EndingUnbounded(t, rs, all) ==
    IF Len(rs) < profile.results_per_page THEN "short"
    ELSE IF cap # 0 /\ Len(all) >= cap THEN "cap" ELSE "not"

\* Why the loop ends after a page with results rs, when the search has found all;
\* "not" if it goes on.
Ending(t, rs, all) ==
    CASE Len(rs) < profile.results_per_page -> "short"
      [] Len(rs) >= profile.results_per_page /\ cap # 0 /\ Len(all) >= cap -> "cap"
      [] OTHER -> IF page[t] + 1 \in Pages(Source(t)) THEN "not" ELSE "pages"

GetPage(t) ==
    /\ state[t] = "running"
    /\ LET rs == Results(t, page[t])
           all == jobs[t] \o rs
           end == Ending(t, rs, all)
       IN  /\ jobs' = [jobs EXCEPT ![t] = all]
           /\ ended' = [ended EXCEPT ![t] = end]
           /\ page' = [page EXCEPT ![t] = IF end = "not" THEN @ + 1 ELSE @]
           /\ state' = [state EXCEPT ![t] = IF end = "not" THEN @ ELSE "returned"]
    /\ UNCHANGED <<config, boards, phase, scrapers, closed, batch, before>>

\* An HTTPError, a timeout among them: what has been found so far is returned.
PageFails(t) ==
    /\ state[t] = "running"
    /\ state' = [state EXCEPT ![t] = "returned"]
    /\ ended' = [ended EXCEPT ![t] = "error"]
    /\ UNCHANGED <<config, boards, page, jobs, phase, scrapers, closed, batch, before>>

\* A body that is not JSON, or an item without an id: the exception leaves
\* search, and the earlier pages are lost with it.
PageGarbled(t) ==
    /\ state[t] = "running"
    /\ state' = [state EXCEPT ![t] = "raised"]
    /\ UNCHANGED <<config, boards, page, jobs, ended, phase, scrapers, closed, batch, before>>

\* jobs[:max_results], where a negative number counts from the end.
Cut(s) ==
    IF cap = 0 THEN s
    ELSE IF cap > 0 THEN SubSeq(s, 1, IF cap < Len(s) THEN cap ELSE Len(s))
    ELSE SubSeq(s, 1, Len(s) + cap)

Unflagged(p) == p \notin RedFlagged

\* The jobs of the SearchResult: cut first, then filter_red_flags.
Found(t) == {p \in Range(Cut(jobs[t])) : Unflagged(p)}

-----------------------------------------------------------------------------
(* _fetch_all, and the end of the fetch *)

\* The key of a result in the dictionary: the source and the location's name.
Key(t) == <<Source(t), profile.name[Location(t)]>>

\* The place of a location in the profile; its tasks are created in this order.
Place(t) == CHOOSE i \in DOMAIN profile.locations :
                profile.locations[i] = Location(t)

\* The results that stay in the dictionary: an exception is passed over, a later
\* result of the same key replaces an earlier one.
Kept == {t \in Searches :
            /\ state[t] = "returned"
            /\ \A u \in Searches : state[u] = "returned" /\ Key(u) = Key(t)
                                     => Place(u) <= Place(t)}

\* Mutants: without return_exceptions the first exception ends the gather; the
\* gather waits for a result of every task.
GatheredEarly == \/ \A t \in Searches : state[t] # "running"
                 \/ \E t \in Searches : state[t] = "raised"
GatheredResults == \A t \in Searches : state[t] \in {"none", "returned"}

\* gather(return_exceptions=True) is over when every task is.
Gathered == \A t \in Searches : state[t] # "running"

Collect ==
    /\ phase = "fetching"
    /\ Gathered
    /\ batch' = UNION {{Source(t)} \X Found(t) : t \in Kept}
    /\ phase' = "closing"
    /\ UNCHANGED <<config, boards, tasks, scrapers, closed, before>>

\* The finally block closes one client after the other, Adzuna's first.
Close(s) ==
    /\ phase = "closing"
    /\ s \in scrapers \ closed
    /\ s = "reed" => "adzuna" \notin scrapers \ closed
    /\ closed' = closed \cup {s}
    /\ phase' = IF closed' = scrapers THEN "storing" ELSE "closing"
    /\ UNCHANGED <<config, boards, tasks, scrapers, batch, before>>

-----------------------------------------------------------------------------
(* The boards *)

Inserted(s, i, p) == SubSeq(s, 1, i) \o <<p>> \o SubSeq(s, i + 1, Len(s))
Without(s, i) == SubSeq(s, 1, i - 1) \o SubSeq(s, i + 1, Len(s))

\* The code asks for no order, so a new posting may turn up anywhere.
Publish(t, i, p) ==
    /\ state[t] = "running"
    /\ changes < MaxChanges
    /\ p \notin Range(listing[t])
    /\ i \in 0..Len(listing[t])
    /\ listing' = [listing EXCEPT ![t] = Inserted(@, i, p)]
    /\ changes' = changes + 1
    /\ UNCHANGED <<config, tasks, phase, scrapers, closed, batch, before, gone>>

Withdraw(t, i) ==
    /\ state[t] = "running"
    /\ changes < MaxChanges
    /\ i \in DOMAIN listing[t]
    /\ listing' = [listing EXCEPT ![t] = Without(@, i)]
    /\ gone' = gone \cup {t}
    /\ changes' = changes + 1
    /\ UNCHANGED <<config, tasks, phase, scrapers, closed, batch, before>>

-----------------------------------------------------------------------------
Step(t) == GetPage(t) \/ PageFails(t) \/ PageGarbled(t)

Finish == Collect \/ \E s \in Sources : Close(s)

FetchNext ==
    \/ \E keys \in SUBSET Credentials : Build(keys)
    \/ \E t \in Searches : Step(t)
    \/ Finish
    \/ \E t \in Searches, p \in PostingIds : \E i \in 0..Len(listing[t]) :
          Publish(t, i, p) \/ Withdraw(t, i)

FetchSpec == FetchInit /\ [][FetchNext]_fetchVars

\* Both clients time out after 20 seconds; which way a request ends is not fair,
\* and the boards need not do anything.
FairSpec == FetchSpec /\ WF_fetchVars(Finish) /\ \A t \in Searches : WF_fetchVars(Step(t))

-----------------------------------------------------------------------------
(* Properties *)

\* Another location of the profile has the same name.
SharesName(t) ==
    \E u \in Created(scrapers) : u # t /\ Key(u) = Key(t)

\* A search that saw the end of its board's list, undisturbed by a cap.
SawAll(t) ==
    /\ ended[t] = "short"
    /\ cap >= 0
    /\ cap = 0 \/ Len(jobs[t]) <= cap
    /\ state[t] = "returned"

\* A posting that was listed all along is in the batch, however many are
\* published between two pages and whatever other searches run into, if its
\* search got to the end of the list and the board withdrew nothing (which moves
\* later postings to a page already fetched) and no other location has the same
\* name (whose result would replace it) (adzuna.py:56-86, reed.py:55-81,
\* pipeline.py:107-124).
NothingMissed ==
    phase \in {"closing", "storing"} =>
        \A t \in Created(scrapers) :
            SawAll(t) /\ t \notin gone /\ ~SharesName(t) =>
                \A p \in Range(before[t]) :
                    Unflagged(p) => <<Source(t), p>> \in batch

\* No task outlives the fetch.
NoneAfterClose ==
    \A t \in Searches : state[t] = "running" => Source(t) \notin closed /\ phase = "fetching"

\* The batch is handed on whole: nothing that was listed all along is missing from
\* it, and a search that raises makes the request neither answer before the others
\* are done nor close a client they are waiting on (pipeline.py:58-62, 117).
FetchWhole == NothingMissed /\ NoneAfterClose

\* A fetch ends, though the boards may grow faster than they are read and any
\* page may fail (adzuna.py:56-82, reed.py:55-77).
FetchEnds == phase = "fetching" ~> phase = "storing"
=============================================================================
