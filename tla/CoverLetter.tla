---------------------------- MODULE CoverLetter -----------------------------
(***************************************************************************)
(* The cover letter of one discovered_jobs row, and the HTTP handlers of   *)
(* app/api/job_actions.py that run concurrently on it: the streamed        *)
(* generate endpoint, save, approve, unapprove, score, and the delete of   *)
(* app/api/discovery.py.  Every handler loads the row, waits, and commits  *)
(* the attributes it assigned, so its decisions rest on a copy that other  *)
(* handlers may have overtaken.                                            *)
(***************************************************************************)
EXTENDS Integers, RowStore

CONSTANTS
    Handlers,    \* requests in flight at the same time
    Texts,       \* the non-empty letter texts
    NoLetter,    \* cover_letter IS NULL
    Blank,       \* cover_letter = ''
    Prices,      \* what a finished stream can cost
    MaxStreams   \* bound: streams that finish in one behaviour

ASSUME TextsAssumption == /\ NoLetter \notin Texts \cup {Blank}
                          /\ Blank \notin Texts
ASSUME PricesAssumption == Prices \subseteq Nat
ASSUME MaxStreamsAssumption == MaxStreams \in Nat

Letters == Texts \cup {NoLetter, Blank}

\* fit_score against APPLY_BAND_THRESHOLD: not scored, below it, or at least it.
Fits == {"none", "below", "apply"}

\* The columns the letter endpoints read or write; stamped stands for
\* cover_letter_generated_at IS NOT NULL, parsed for a non-empty parsed_job.
Rows == [letter : Letters, approved : BOOLEAN, stamped : BOOLEAN,
         generations : Nat, cost : Nat, parsed : BOOLEAN, fit : Fits]

FreshRow == [letter |-> NoLetter, approved |-> FALSE, stamped |-> FALSE,
             generations |-> 0, cost |-> 0, parsed |-> FALSE, fit |-> "none"]

VARIABLES
    exists,   \* the row is in the table
    row,      \* its columns (those of FreshRow once it is deleted)
    pc,       \* where each handler is
    op,       \* the endpoint each handler serves
    loaded,   \* the row as the handler's session loaded it
    new,      \* the same object with the attributes the handler assigned
    streams,  \* history: streams that ran to their terminal LLMResponse
    written,  \* history: generations that were committed to the row
    billed,   \* history: what the finished streams cost
    signed,   \* history: the texts a user has asked to mark as approved
    overtaken,\* history: generates without force since whose checks a letter was approved
    crossed   \* history: letter and approval are of two requests that overlapped

history == <<streams, written, billed, signed, overtaken, crossed>>
vars == <<exists, row, pc, op, loaded, new, history>>

\* "generate" is a request without force, "regenerate" one with force=true.
Ops == {"none", "generate", "regenerate", "save", "approve", "unapprove",
        "score", "delete"}
Generating == {"generate", "regenerate"}
PCs == {"idle", "preflighted", "streaming", "scoring", "writing", "deleting"}

TypeOK ==
    /\ exists \in BOOLEAN
    /\ row \in Rows
    /\ pc \in [Handlers -> PCs]
    /\ op \in [Handlers -> Ops]
    /\ loaded \in [Handlers -> Rows]
    /\ new \in [Handlers -> Rows]
    /\ streams \in 0..MaxStreams
    /\ written \in Nat
    /\ billed \in Nat
    /\ signed \subseteq Letters
    /\ overtaken \subseteq Handlers
    /\ crossed \in BOOLEAN

Init ==
    /\ exists = TRUE
    /\ row = FreshRow
    /\ pc = [h \in Handlers |-> "idle"]
    /\ op = [h \in Handlers |-> "none"]
    /\ loaded = [h \in Handlers |-> FreshRow]
    /\ new = [h \in Handlers |-> FreshRow]
    /\ streams = 0
    /\ written = 0
    /\ billed = 0
    /\ signed = {}
    /\ overtaken = {}
    /\ crossed = FALSE

-----------------------------------------------------------------------------
(* Steps shared by the handlers *)

\* The handler leaves; what it held in memory is gone.
Leave(h) ==
    /\ pc' = [pc EXCEPT ![h] = "idle"]
    /\ op' = [op EXCEPT ![h] = "none"]
    /\ loaded' = [loaded EXCEPT ![h] = FreshRow]
    /\ new' = [new EXCEPT ![h] = FreshRow]

\* The handler serves endpoint o, has loaded the row and has reached p with
\* the object in state r.  A row that is not there is a 404: no step.
Load(h, o, p, r) ==
    /\ exists
    /\ pc' = [pc EXCEPT ![h] = p]
    /\ op' = [op EXCEPT ![h] = o]
    /\ loaded' = [loaded EXCEPT ![h] = row]
    /\ new' = [new EXCEPT ![h] = r]

\* Mutant: the UPDATE sends every column of the object, changed or not.
FullRow(h) == new[h]

\* What the UPDATE of handler h leaves in the table.
FlushedRow(h) ==
    LET W(stored, old, assigned) == Flushed(stored, old, assigned)
        l == loaded[h]
        n == new[h]
    IN  [letter      |-> W(row.letter, l.letter, n.letter),
         approved    |-> W(row.approved, l.approved, n.approved),
         stamped     |-> W(row.stamped, l.stamped, n.stamped),
         generations |-> W(row.generations, l.generations, n.generations),
         cost        |-> W(row.cost, l.cost, n.cost),
         parsed      |-> W(row.parsed, l.parsed, n.parsed),
         fit         |-> W(row.fit, l.fit, n.fit)]

\* Mutant: commit merges the object, so a deleted row is inserted again.
CommitMerging(h) ==
    /\ pc[h] = "writing"
    /\ row' = FlushedRow(h)
    /\ exists' = TRUE
    /\ written' = IF op[h] \in Generating THEN written + 1 ELSE written
    /\ signed' = signed
    /\ Leave(h)
    /\ UNCHANGED <<streams, billed, overtaken, crossed>>

\* The letter, or the approval, a handler has assigned differs from the loaded one.
NewLetter(h) == new[h].letter # loaded[h].letter
NewApproval(h) == new[h].approved # loaded[h].approved

\* The commit of handler h writes one of letter and approval beside a value of
\* the other that is not the one it has loaded.
Crosses(h) ==
    \/ NewLetter(h) /\ ~NewApproval(h) /\ row.approved # loaded[h].approved
    \/ NewApproval(h) /\ ~NewLetter(h) /\ row.letter # loaded[h].letter

\* session.commit.  The UPDATE of a row that has been deleted matches nothing
\* and raises StaleDataError: the request fails and the table is unchanged.
Commit(h) ==
    /\ pc[h] = "writing"
    /\ row' = IF exists THEN FlushedRow(h) ELSE row
    /\ written' = IF exists /\ op[h] \in Generating THEN written + 1 ELSE written
    /\ signed' = IF op[h] \in {"save", "approve"} /\ new[h].approved
                 THEN signed \cup {new[h].letter} ELSE signed
    /\ overtaken' = IF row'.approved /\ ~row.approved
                    THEN overtaken \cup {g \in Handlers : op[g] = "generate"}
                    ELSE overtaken
    /\ crossed' = IF exists /\ (NewLetter(h) \/ NewApproval(h))
                  THEN Crosses(h) ELSE crossed
    /\ Leave(h)
    /\ UNCHANGED <<exists, streams, billed>>

-----------------------------------------------------------------------------
(* POST /api/jobs/{id}/generate *)

\* Mutant: the check for an approved letter is forgotten.
MayGenerateOverApproved(r, force) == r.parsed /\ (force \/ r.fit # "below")

\* The checks of the endpoint function, in a session that is closed before
\* streaming starts.
MayGenerate(r, force) ==
    /\ r.parsed
    /\ force \/ r.fit # "below"
    /\ force \/ ~r.approved

Preflight(h, force) ==
    /\ pc[h] = "idle"
    /\ exists
    /\ MayGenerate(row, force)
    /\ pc' = [pc EXCEPT ![h] = "preflighted"]
    /\ op' = [op EXCEPT ![h] = IF force THEN "regenerate" ELSE "generate"]
    /\ overtaken' = overtaken \ {h}
    /\ UNCHANGED <<exists, row, loaded, new, streams, written, billed, signed, crossed>>

\* event_stream loads the row again, in the session it will commit with, and
\* starts the model call.  None of the checks is repeated.
StartStream(h) ==
    /\ pc[h] = "preflighted"
    /\ Load(h, op[h], "streaming", row)
    /\ UNCHANGED <<exists, row, history>>

\* Mutants: the price is subtracted; the generation is counted at the meta
\* event and again at the end.
GeneratedRowRefunded(r, t, p) ==
    [r EXCEPT !.letter = t, !.stamped = TRUE, !.approved = FALSE,
              !.generations = r.generations + 1, !.cost = r.cost - p]
GeneratedRowCountedTwice(r, t, p) ==
    [r EXCEPT !.letter = t, !.stamped = TRUE, !.approved = FALSE,
              !.generations = r.generations + 2, !.cost = r.cost + p]

\* The assignments at the end of a stream whose text is t and whose price is p.
GeneratedRow(r, t, p) ==
    [r EXCEPT !.letter = t, !.stamped = TRUE, !.approved = FALSE,
              !.generations = r.generations + 1, !.cost = r.cost + p]

\* The stream ends with its terminal LLMResponse; a model that sends no
\* content leaves the text empty.
EndStream(h, t, p) ==
    /\ pc[h] = "streaming"
    /\ streams < MaxStreams
    /\ new' = [new EXCEPT ![h] = GeneratedRow(loaded[h], t, p)]
    /\ pc' = [pc EXCEPT ![h] = "writing"]
    /\ streams' = streams + 1
    /\ billed' = billed + p
    /\ UNCHANGED <<exists, row, op, loaded, written, signed, overtaken, crossed>>

\* The stream ends with nothing written: the CV cannot be loaded, the row has
\* disappeared or the provider fails (an error event), or the client has gone
\* and the generator is cancelled, at the latest while it awaits the commit.
AbortStream(h) ==
    /\ op[h] \in Generating
    /\ Leave(h)
    /\ UNCHANGED <<exists, row, history>>

-----------------------------------------------------------------------------
(* PUT .../cover-letter, POST .../approve, POST .../unapprove *)

Save(h, t, approved) ==
    /\ pc[h] = "idle"
    /\ Load(h, "save", "writing",
            [row EXCEPT !.letter = t, !.approved = approved, !.stamped = TRUE])
    /\ UNCHANGED <<exists, row, history>>

\* Mutants: approve does not look at the letter; it refuses NULL only.
HasLetterUnchecked(r) == TRUE
HasLetterNotNull(r) == r.letter # NoLetter

\* A letter that is NULL or empty is refused with 422.
HasLetter(r) == r.letter \notin {NoLetter, Blank}

Approve(h) ==
    /\ pc[h] = "idle"
    /\ HasLetter(row)
    /\ Load(h, "approve", "writing", [row EXCEPT !.approved = TRUE])
    /\ UNCHANGED <<exists, row, history>>

Unapprove(h) ==
    /\ pc[h] = "idle"
    /\ Load(h, "unapprove", "writing", [row EXCEPT !.approved = FALSE])
    /\ UNCHANGED <<exists, row, history>>

-----------------------------------------------------------------------------
(* POST /api/jobs/{id}/score, as far as the letter endpoints see it *)

\* A row with no description of some length is a 422: no step.
StartScore(h) ==
    /\ pc[h] = "idle"
    /\ Load(h, "score", "scoring", row)
    /\ UNCHANGED <<exists, row, history>>

\* A quarantined description leaves no fit and no parsed job; otherwise the
\* model returned a score, and a parsed job that may be empty.
ScoreResults == [fit : {"none"}, parsed : {FALSE}]
                \cup [fit : Fits \ {"none"}, parsed : BOOLEAN]

EndScore(h, s) ==
    /\ pc[h] = "scoring"
    /\ new' = [new EXCEPT ![h].fit = s.fit, ![h].parsed = s.parsed]
    /\ pc' = [pc EXCEPT ![h] = "writing"]
    /\ UNCHANGED <<exists, row, op, loaded, history>>

\* A node of the workflow raises: 500, nothing written.
FailScore(h) ==
    /\ pc[h] = "scoring"
    /\ Leave(h)
    /\ UNCHANGED <<exists, row, history>>

-----------------------------------------------------------------------------
(* DELETE /api/jobs/{id}, on a row that is not linked to an application *)

StartDelete(h) ==
    /\ pc[h] = "idle"
    /\ exists
    /\ pc' = [pc EXCEPT ![h] = "deleting"]
    /\ op' = [op EXCEPT ![h] = "delete"]
    /\ UNCHANGED <<exists, row, loaded, new, history>>

EndDelete(h) ==
    /\ pc[h] = "deleting"
    /\ exists' = FALSE
    /\ row' = FreshRow
    /\ Leave(h)
    /\ UNCHANGED history

-----------------------------------------------------------------------------
\* The process stops: every request in flight is lost, the table stays.
Crash ==
    /\ \E h \in Handlers : pc[h] # "idle"
    /\ pc' = [h \in Handlers |-> "idle"]
    /\ op' = [h \in Handlers |-> "none"]
    /\ loaded' = [h \in Handlers |-> FreshRow]
    /\ new' = [h \in Handlers |-> FreshRow]
    /\ UNCHANGED <<exists, row, history>>

\* What a handler in flight does next.
Progress(h) ==
    \/ Commit(h)
    \/ StartStream(h)
    \/ \E t \in Texts \cup {Blank}, p \in Prices : EndStream(h, t, p)
    \/ AbortStream(h)
    \/ \E s \in ScoreResults : EndScore(h, s)
    \/ FailScore(h)
    \/ EndDelete(h)

\* A request arrives.
Arrive(h) ==
    \/ \E force \in BOOLEAN : Preflight(h, force)
    \/ \E t \in Texts, approved \in BOOLEAN : Save(h, t, approved)
    \/ Approve(h)
    \/ Unapprove(h)
    \/ StartScore(h)
    \/ StartDelete(h)

Next == Crash \/ \E h \in Handlers : Progress(h) \/ Arrive(h)

Spec == Init /\ [][Next]_vars

-----------------------------------------------------------------------------
(* Properties *)

\* The columns of one copy agree with each other.
Sound(r) ==
    /\ r.approved => r.letter # NoLetter
    /\ r.letter # NoLetter => r.stamped

\* A letter the row shows as approved is not NULL, and one that is not NULL has
\* its generated_at, whatever generate, save, approve and unapprove interleave.
\* The letter is not empty either, which approve takes for no letter at all, but
\* for one case: an empty generation and an approval that overlapped, of which
\* the later wrote its own column beside a value of the other that it had not
\* loaded (job_actions.py:404-415, 465-499).
ApprovedHasLetter ==
    /\ Sound(row)
    /\ row.approved /\ row.letter = Blank => crossed

\* Two streams that loaded the same row lose one increment each way, but
\* whatever the interleaving the counter never shows more generations than were
\* committed, nor the total more than the model calls cost; and once a generation
\* has been committed the counter never returns to zero, however many stale
\* writers follow (job_actions.py:409-414).
CountersTrue ==
    /\ row.generations <= written
    /\ row.cost <= billed
    /\ exists /\ written > 0 => row.generations > 0

\* A generate without force has an approved letter before it only when the
\* letter was approved after its checks: the stream does not repeat them, but
\* nothing else lets it overwrite what a user signed off
\* (job_actions.py:300-304, 331-335).
ForceNeeded ==
    \A h \in Handlers :
        op[h] = "generate" /\ exists /\ row.approved => h \in overtaken

\* The stage the letter has reached, as a reader of the row sees it.
Stage ==
    IF ~exists THEN "deleted"
    ELSE IF row.letter = NoLetter THEN "none"
    ELSE IF row.approved THEN "signed" ELSE "draft"

Lifecycle == INSTANCE LetterStages WITH stage <- Stage

\* The handlers implement the life cycle of LetterStages: a letter is never
\* un-written and a deleted job never comes back (job_actions.py:265-499).
ImplementsStages == Lifecycle!Spec

\* models.py:192-193 says that cover_letter_approved=True means the user signed
\* off.  The generate handler loads the row before the model call and assigns
\* approved = False after it; when the user approves the old letter meanwhile,
\* False is the loaded value, is not written, and the new text is approved.
ApprovedMeansSignedOff ==
    exists /\ row.approved => row.letter \in signed
=============================================================================
