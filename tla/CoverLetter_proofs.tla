------------------------- MODULE CoverLetter_proofs -------------------------
(***************************************************************************)
(* Theorems about CoverLetter for any number of concurrent requests, any   *)
(* set of texts and prices and any bound on the streams.                   *)
(***************************************************************************)
EXTENDS CoverLetter, TLAPS

\* The columns of the table are typed after any flush.
LEMMA FlushedRowType ==
    ASSUME TypeOK, NEW h \in Handlers
    PROVE  FlushedRow(h) \in Rows
<1>1. row \in Rows /\ loaded[h] \in Rows /\ new[h] \in Rows
  BY DEF TypeOK
<1> QED
  BY <1>1 DEF FlushedRow, Flushed, Rows

\* The initial columns are typed.
LEMMA FreshRowType == FreshRow \in Rows
BY TextsAssumption DEF FreshRow, Rows, Letters, Fits

\* So is the copy the end of a stream assigns.
LEMMA GeneratedRowType ==
    ASSUME NEW r \in Rows, NEW t \in Texts \cup {Blank}, NEW p \in Prices
    PROVE  GeneratedRow(r, t, p) \in Rows
<1>1. p \in Nat
  BY PricesAssumption
<1>2. r.generations + 1 \in Nat /\ r.cost + p \in Nat /\ t \in Letters
  BY <1>1 DEF Rows, Letters
<1> QED
  BY <1>2 DEF GeneratedRow, Rows

\* A handler that leaves keeps the handlers' variables typed.
LEMMA LeaveType ==
    ASSUME TypeOK, NEW h \in Handlers, Leave(h)
    PROVE  /\ pc' \in [Handlers -> PCs]
           /\ op' \in [Handlers -> Ops]
           /\ loaded' \in [Handlers -> Rows]
           /\ new' \in [Handlers -> Rows]
BY FreshRowType DEF TypeOK, Leave, PCs, Ops

\* So does one that loads the row.
LEMMA LoadType ==
    ASSUME TypeOK, NEW h \in Handlers, NEW o \in Ops, NEW p \in PCs,
           NEW r \in Rows, Load(h, o, p, r)
    PROVE  /\ pc' \in [Handlers -> PCs]
           /\ op' \in [Handlers -> Ops]
           /\ loaded' \in [Handlers -> Rows]
           /\ new' \in [Handlers -> Rows]
BY DEF TypeOK, Load

\* Every state of every behaviour is typed.
THEOREM TypeCorrect == Spec => []TypeOK
<1>1. Init => TypeOK
  <2> SUFFICES ASSUME Init PROVE TypeOK
    OBVIOUS
  <2>1. "idle" \in PCs /\ "none" \in Ops /\ 0 \in 0..MaxStreams
    BY MaxStreamsAssumption DEF PCs, Ops
  <2>2. /\ pc \in [Handlers -> PCs] /\ op \in [Handlers -> Ops]
        /\ loaded \in [Handlers -> Rows] /\ new \in [Handlers -> Rows]
    BY <2>1, FreshRowType DEF Init
  <2>3. row \in Rows /\ streams \in 0..MaxStreams
    BY <2>1, FreshRowType DEF Init
  <2> QED
    BY <2>2, <2>3 DEF Init, TypeOK
<1>2. TypeOK /\ [Next]_vars => TypeOK'
  <2> SUFFICES ASSUME TypeOK, [Next]_vars PROVE TypeOK'
    OBVIOUS
  <2> USE DEF history
  <2>1. CASE UNCHANGED vars
    BY <2>1 DEF TypeOK, vars
  <2>2. CASE Crash
    BY <2>2, FreshRowType DEF Crash, TypeOK, PCs, Ops
  <2>3. ASSUME NEW h \in Handlers, Commit(h) PROVE TypeOK'
    <3>1. row' \in Rows /\ written' \in Nat
      BY <2>3, FlushedRowType DEF Commit, TypeOK
    <3>2. new[h].letter \in Letters
      BY DEF TypeOK, Rows
    <3>3. crossed' \in BOOLEAN
      BY <2>3 DEF Commit, Crosses, TypeOK
    <3>4. signed' \subseteq Letters /\ overtaken' \subseteq Handlers
      BY <2>3, <3>2 DEF Commit, TypeOK
    <3> QED
      BY <2>3, <3>1, <3>3, <3>4, LeaveType DEF Commit, TypeOK
  <2>4. ASSUME NEW h \in Handlers, StartStream(h) PROVE TypeOK'
    <3>1. op[h] \in Ops /\ row \in Rows /\ "streaming" \in PCs
      BY DEF TypeOK, PCs
    <3> QED
      BY <2>4, <3>1, LoadType DEF StartStream, TypeOK
  <2>5. ASSUME NEW h \in Handlers, NEW t \in Texts \cup {Blank},
               NEW p \in Prices, EndStream(h, t, p)
        PROVE  TypeOK'
    <3>1. GeneratedRow(loaded[h], t, p) \in Rows
      BY GeneratedRowType DEF TypeOK
    <3>2. billed' \in Nat /\ streams' \in 0..MaxStreams
      BY <2>5, PricesAssumption, MaxStreamsAssumption DEF EndStream, TypeOK
    <3> QED
      BY <2>5, <3>1, <3>2 DEF EndStream, TypeOK, PCs
  <2>6. ASSUME NEW h \in Handlers, AbortStream(h) PROVE TypeOK'
    BY <2>6, LeaveType DEF AbortStream, TypeOK
  <2>7. ASSUME NEW h \in Handlers, NEW s \in ScoreResults, EndScore(h, s)
        PROVE  TypeOK'
    <3>1. [new[h] EXCEPT !.fit = s.fit, !.parsed = s.parsed] \in Rows
      BY DEF TypeOK, Rows, ScoreResults, Fits
    <3> QED
      BY <2>7, <3>1 DEF EndScore, TypeOK, PCs
  <2>8. ASSUME NEW h \in Handlers, FailScore(h) PROVE TypeOK'
    BY <2>8, LeaveType DEF FailScore, TypeOK
  <2>9. ASSUME NEW h \in Handlers, EndDelete(h) PROVE TypeOK'
    BY <2>9, LeaveType, FreshRowType DEF EndDelete, TypeOK
  <2>10. ASSUME NEW h \in Handlers, NEW force \in BOOLEAN, Preflight(h, force)
         PROVE  TypeOK'
    BY <2>10 DEF Preflight, TypeOK, PCs, Ops
  <2>11. ASSUME NEW h \in Handlers, NEW t \in Texts, NEW b \in BOOLEAN,
                Save(h, t, b)
         PROVE  TypeOK'
    <3>1. [row EXCEPT !.letter = t, !.approved = b, !.stamped = TRUE] \in Rows
      BY DEF TypeOK, Rows, Letters
    <3>2. "save" \in Ops /\ "writing" \in PCs
      BY DEF Ops, PCs
    <3> QED
      BY <2>11, <3>1, <3>2, LoadType DEF Save, TypeOK
  <2>12. ASSUME NEW h \in Handlers, Approve(h) PROVE TypeOK'
    <3>1. [row EXCEPT !.approved = TRUE] \in Rows
      BY DEF TypeOK, Rows
    <3>2. "approve" \in Ops /\ "writing" \in PCs
      BY DEF Ops, PCs
    <3> QED
      BY <2>12, <3>1, <3>2, LoadType DEF Approve, TypeOK
  <2>13. ASSUME NEW h \in Handlers, Unapprove(h) PROVE TypeOK'
    <3>1. [row EXCEPT !.approved = FALSE] \in Rows
      BY DEF TypeOK, Rows
    <3>2. "unapprove" \in Ops /\ "writing" \in PCs
      BY DEF Ops, PCs
    <3> QED
      BY <2>13, <3>1, <3>2, LoadType DEF Unapprove, TypeOK
  <2>14. ASSUME NEW h \in Handlers, StartScore(h) PROVE TypeOK'
    <3>1. "score" \in Ops /\ "scoring" \in PCs /\ row \in Rows
      BY DEF Ops, PCs, TypeOK
    <3> QED
      BY <2>14, <3>1, LoadType DEF StartScore, TypeOK
  <2>15. ASSUME NEW h \in Handlers, StartDelete(h) PROVE TypeOK'
    BY <2>15 DEF StartDelete, TypeOK, PCs, Ops
  <2> QED
    BY <2>1, <2>2, <2>3, <2>4, <2>5, <2>6, <2>7, <2>8, <2>9, <2>10, <2>11,
       <2>12, <2>13, <2>14, <2>15 DEF Next, Progress, Arrive
<1> QED
  BY <1>1, <1>2, PTL DEF Spec

-----------------------------------------------------------------------------
(* Letter, approval and timestamp *)

\* Copy s has whatever of letter and timestamp copy r had.
Grows(r, s) ==
    /\ r.letter # NoLetter => s.letter # NoLetter
    /\ r.stamped => s.stamped

\* The strengthening that makes Sound(row) inductive: every copy is sound,
\* assigning attributes takes nothing away, and while the row exists nothing a
\* handler loaded has been taken away from the table since.
CopiesOK(h) ==
    /\ Sound(loaded[h])
    /\ Sound(new[h])
    /\ Grows(loaded[h], new[h])
    /\ exists => Grows(loaded[h], row)

LetterInv == Sound(row) /\ \A h \in Handlers : CopiesOK(h)

\* The column-wise flush of a sound copy into a row that has grown since the
\* copy was loaded is sound, and takes nothing away from the row: this is
\* where a column left unwritten could separate flag, letter and timestamp.
LEMMA FlushSound ==
    ASSUME TypeOK, NEW h \in Handlers, Sound(row), CopiesOK(h), exists
    PROVE  Sound(FlushedRow(h)) /\ Grows(row, FlushedRow(h))
<1>1. row \in Rows /\ loaded[h] \in Rows /\ new[h] \in Rows
  BY DEF TypeOK
<1> QED
  BY <1>1 DEF FlushedRow, Flushed, Sound, Grows, CopiesOK, Rows

\* When one handler replaces its copies by OK ones and the row only grows, the
\* copies of all handlers stay OK.
LEMMA CopiesStayOK ==
    ASSUME TypeOK, LetterInv, NEW h \in Handlers,
           NEW l \in Rows, NEW n \in Rows,
           loaded' = [loaded EXCEPT ![h] = l], new' = [new EXCEPT ![h] = n],
           Sound(l), Sound(n), Grows(l, n), exists' => Grows(l, row'),
           exists' => exists /\ Grows(row, row'), Sound(row')
    PROVE  LetterInv'
<1>1. loaded'[h] = l /\ new'[h] = n
  BY DEF TypeOK
<1>2. CopiesOK(h)'
  BY <1>1 DEF CopiesOK, Sound, Grows
<1>3. ASSUME NEW k \in Handlers, k # h PROVE CopiesOK(k)'
  <2>1. loaded'[k] = loaded[k] /\ new'[k] = new[k]
    BY <1>3 DEF TypeOK
  <2> QED
    BY <2>1 DEF CopiesOK, LetterInv, Sound, Grows
<1> QED
  BY <1>2, <1>3 DEF LetterInv, Sound

\* The two instances of it that most actions are: the handler leaves, or it
\* loads the row and assigns attributes, while the table does not move.
LEMMA LeaveOK ==
    ASSUME TypeOK, LetterInv, NEW h \in Handlers, Leave(h),
           exists' => exists /\ Grows(row, row'), Sound(row')
    PROVE  LetterInv'
<1>1. Sound(FreshRow) /\ Grows(FreshRow, FreshRow) /\ Grows(FreshRow, row')
  BY DEF Sound, Grows, FreshRow
<1>2. loaded' = [loaded EXCEPT ![h] = FreshRow]
      /\ new' = [new EXCEPT ![h] = FreshRow]
  BY DEF Leave
<1> QED
  BY <1>1, <1>2, FreshRowType, CopiesStayOK

LEMMA LoadOK ==
    ASSUME TypeOK, LetterInv, NEW h \in Handlers, NEW o, NEW p, NEW r \in Rows,
           Load(h, o, p, r), Sound(r), Grows(row, r),
           UNCHANGED <<exists, row>>
    PROVE  LetterInv'
<1>1. row \in Rows
  BY DEF TypeOK
<1>2. Sound(row) /\ Grows(row, row) /\ Sound(row') /\ Grows(row, row')
  BY DEF LetterInv, Grows, Sound
<1>3. loaded' = [loaded EXCEPT ![h] = row] /\ new' = [new EXCEPT ![h] = r]
  BY DEF Load
<1> QED
  BY <1>1, <1>2, <1>3, CopiesStayOK

\* A step that touches neither the row nor any copy keeps the invariant.
LEMMA CopiesUntouched ==
    ASSUME LetterInv, UNCHANGED <<exists, row, loaded, new>>
    PROVE  LetterInv'
BY DEF LetterInv, CopiesOK, Sound, Grows

LEMMA LetterStep ==
    ASSUME TypeOK, LetterInv, [Next]_vars
    PROVE  LetterInv'
<1> USE DEF history
<1>0. Sound(row) /\ row \in Rows
  BY DEF LetterInv, TypeOK
<1>a. Grows(row, row)
  BY DEF Grows
<1>1. CASE UNCHANGED vars
  BY <1>1, CopiesUntouched DEF vars
<1>2. CASE Crash
  BY <1>2, <1>0 DEF Crash, LetterInv, CopiesOK, Sound, Grows, FreshRow
<1>3. ASSUME NEW h \in Handlers, Commit(h) PROVE LetterInv'
  <2>1. CopiesOK(h)
    BY DEF LetterInv
  <2>2. Sound(row') /\ (exists' => exists /\ Grows(row, row'))
    BY <1>3, <1>0, <2>1, FlushSound DEF Commit
  <2> QED
    BY <1>3, <2>2, LeaveOK DEF Commit
<1>4. ASSUME NEW h \in Handlers, StartStream(h) PROVE LetterInv'
  BY <1>4, <1>0, <1>a, LoadOK DEF StartStream
<1>5. ASSUME NEW h \in Handlers, NEW t \in Texts \cup {Blank},
             NEW p \in Prices, EndStream(h, t, p)
      PROVE  LetterInv'
  <2> DEFINE l == loaded[h]  n == GeneratedRow(l, t, p)
  <2>1. CopiesOK(h) /\ l \in Rows /\ n \in Rows
    BY GeneratedRowType DEF LetterInv, TypeOK
  <2>2. t # NoLetter
    BY TextsAssumption
  <2>3. Sound(n) /\ Grows(l, n)
    BY <2>1, <2>2 DEF Sound, Grows, GeneratedRow, Rows
  <2>4. loaded' = [loaded EXCEPT ![h] = l] /\ new' = [new EXCEPT ![h] = n]
    BY <1>5 DEF EndStream, TypeOK
  <2>5. Sound(l) /\ (exists' => Grows(l, row')) /\ Sound(row')
        /\ (exists' => exists /\ Grows(row, row'))
    BY <1>5, <1>0, <1>a, <2>1 DEF EndStream, CopiesOK
  <2> HIDE DEF l, n
  <2> QED
    BY <2>1, <2>3, <2>4, <2>5, CopiesStayOK
<1>6. ASSUME NEW h \in Handlers, AbortStream(h) PROVE LetterInv'
  BY <1>6, <1>0, <1>a, LeaveOK DEF AbortStream
<1>7. ASSUME NEW h \in Handlers, NEW s \in ScoreResults, EndScore(h, s)
      PROVE  LetterInv'
  <2> DEFINE l == loaded[h]
             n == [new[h] EXCEPT !.fit = s.fit, !.parsed = s.parsed]
  <2>1. CopiesOK(h) /\ l \in Rows /\ new[h] \in Rows
    BY DEF LetterInv, TypeOK
  <2>2. n \in Rows /\ Sound(n) /\ Grows(l, n)
    BY <2>1 DEF Sound, Grows, Rows, ScoreResults, Fits, CopiesOK
  <2>3. loaded' = [loaded EXCEPT ![h] = l] /\ new' = [new EXCEPT ![h] = n]
    BY <1>7 DEF EndScore, TypeOK
  <2>4. Sound(l) /\ (exists' => Grows(l, row')) /\ Sound(row')
        /\ (exists' => exists /\ Grows(row, row'))
    BY <1>7, <1>0, <1>a, <2>1 DEF EndScore, CopiesOK
  <2> HIDE DEF l, n
  <2> QED
    BY <2>1, <2>2, <2>3, <2>4, CopiesStayOK
<1>8. ASSUME NEW h \in Handlers, FailScore(h) PROVE LetterInv'
  BY <1>8, <1>0, <1>a, LeaveOK DEF FailScore
<1>9. ASSUME NEW h \in Handlers, EndDelete(h) PROVE LetterInv'
  <2>1. Sound(FreshRow)
    BY DEF Sound, FreshRow
  <2>2. Sound(row') /\ ~exists'
    BY <1>9, <2>1 DEF EndDelete
  <2> QED
    BY <1>9, <2>2, LeaveOK DEF EndDelete
<1>10. ASSUME NEW h \in Handlers, NEW force \in BOOLEAN, Preflight(h, force)
       PROVE  LetterInv'
  BY <1>10, CopiesUntouched DEF Preflight
<1>11. ASSUME NEW h \in Handlers, NEW t \in Texts, NEW b \in BOOLEAN,
              Save(h, t, b)
       PROVE  LetterInv'
  <2> DEFINE r == [row EXCEPT !.letter = t, !.approved = b, !.stamped = TRUE]
  <2>1. t # NoLetter
    BY TextsAssumption
  <2>2. r \in Rows /\ Sound(r) /\ Grows(row, r)
    BY <1>0, <2>1 DEF Sound, Grows, Rows, Letters
  <2>3. Load(h, "save", "writing", r) /\ UNCHANGED <<exists, row>>
    BY <1>11 DEF Save
  <2> HIDE DEF r
  <2> QED
    BY <2>2, <2>3, LoadOK
<1>12. ASSUME NEW h \in Handlers, Approve(h) PROVE LetterInv'
  <2> DEFINE r == [row EXCEPT !.approved = TRUE]
  <2>1. r \in Rows /\ Sound(r) /\ Grows(row, r)
    BY <1>0, <1>12 DEF Approve, HasLetter, Sound, Grows, Rows
  <2>2. Load(h, "approve", "writing", r) /\ UNCHANGED <<exists, row>>
    BY <1>12 DEF Approve
  <2> HIDE DEF r
  <2> QED
    BY <2>1, <2>2, LoadOK
<1>13. ASSUME NEW h \in Handlers, Unapprove(h) PROVE LetterInv'
  <2> DEFINE r == [row EXCEPT !.approved = FALSE]
  <2>1. r \in Rows /\ Sound(r) /\ Grows(row, r)
    BY <1>0 DEF Sound, Grows, Rows
  <2>2. Load(h, "unapprove", "writing", r) /\ UNCHANGED <<exists, row>>
    BY <1>13 DEF Unapprove
  <2> HIDE DEF r
  <2> QED
    BY <2>1, <2>2, LoadOK
<1>14. ASSUME NEW h \in Handlers, StartScore(h) PROVE LetterInv'
  BY <1>14, <1>0, <1>a, LoadOK DEF StartScore
<1>15. ASSUME NEW h \in Handlers, StartDelete(h) PROVE LetterInv'
  BY <1>15, CopiesUntouched DEF StartDelete
<1> QED
  BY <1>1, <1>2, <1>3, <1>4, <1>5, <1>6, <1>7, <1>8, <1>9, <1>10, <1>11,
     <1>12, <1>13, <1>14, <1>15 DEF Next, Progress, Arrive

\* An approval beside an empty letter is never a request's own doing: what it
\* assigned is what it had loaded.
BlankLoaded(h) ==
    new[h].approved /\ new[h].letter = Blank =>
        loaded[h].approved /\ loaded[h].letter = Blank

BlankInv ==
    /\ row.approved /\ row.letter = Blank => crossed
    /\ \A h \in Handlers : BlankLoaded(h)

\* A handler that leaves, or that loads the row and assigns r, keeps this of all
\* handlers.
LEMMA BlankAfterLeave ==
    ASSUME TypeOK, BlankInv, NEW h \in Handlers, Leave(h)
    PROVE  \A k \in Handlers : BlankLoaded(k)'
<1>1. ASSUME NEW k \in Handlers PROVE BlankLoaded(k)'
  <2>1. CASE k = h
    <3>1. loaded'[k] = FreshRow /\ new'[k] = FreshRow
      BY <2>1 DEF Leave, TypeOK
    <3> QED
      BY <3>1 DEF BlankLoaded
  <2>2. CASE k # h
    BY <2>2 DEF Leave, TypeOK, BlankInv, BlankLoaded
  <2> QED
    BY <2>1, <2>2
<1> QED
  BY <1>1

LEMMA BlankAfterLoad ==
    ASSUME TypeOK, BlankInv, NEW h \in Handlers, NEW o, NEW p, NEW r,
           Load(h, o, p, r), UNCHANGED <<row, crossed>>,
           r.approved /\ r.letter = Blank => row.approved /\ row.letter = Blank
    PROVE  BlankInv'
<1>1. ASSUME NEW k \in Handlers PROVE BlankLoaded(k)'
  <2>1. CASE k = h
    <3>1. loaded'[k] = row /\ new'[k] = r
      BY <2>1 DEF Load, TypeOK
    <3> QED
      BY <3>1 DEF BlankLoaded
  <2>2. CASE k # h
    BY <2>2 DEF Load, TypeOK, BlankInv, BlankLoaded
  <2> QED
    BY <2>1, <2>2
<1> QED
  BY <1>1 DEF BlankInv

LEMMA BlankStep ==
    ASSUME TypeOK, BlankInv, [Next]_vars
    PROVE  BlankInv'
<1> USE DEF history
<1>1. CASE UNCHANGED vars
  BY <1>1 DEF vars, BlankInv, BlankLoaded
<1>2. CASE Crash
  BY <1>2 DEF Crash, BlankInv, BlankLoaded
<1>3. ASSUME NEW h \in Handlers, Commit(h) PROVE BlankInv'
  <2>1. \A k \in Handlers : BlankLoaded(k)'
    BY <1>3, BlankAfterLeave DEF Commit
  <2>2. CASE exists
    <3>1. /\ row'.letter = Flushed(row.letter, loaded[h].letter, new[h].letter)
          /\ row'.approved = Flushed(row.approved, loaded[h].approved, new[h].approved)
          /\ crossed' = IF NewLetter(h) \/ NewApproval(h) THEN Crosses(h) ELSE crossed
      BY <1>3, <2>2 DEF Commit, FlushedRow
    <3>2. BlankLoaded(h)
      BY DEF BlankInv
    <3>3. row'.approved /\ row'.letter = Blank => crossed'
      <4>1. CASE ~NewLetter(h) /\ ~NewApproval(h)
        BY <3>1, <4>1 DEF Flushed, NewLetter, NewApproval, BlankInv
      <4>2. CASE NewLetter(h) /\ NewApproval(h)
        BY <3>1, <3>2, <4>2 DEF Flushed, NewLetter, NewApproval, BlankLoaded
      <4>3. CASE NewLetter(h) /\ ~NewApproval(h)
        BY <3>1, <3>2, <4>3 DEF Flushed, NewLetter, NewApproval, Crosses, BlankLoaded
      <4>4. CASE ~NewLetter(h) /\ NewApproval(h)
        BY <3>1, <3>2, <4>4 DEF Flushed, NewLetter, NewApproval, Crosses, BlankLoaded
      <4> QED
        BY <4>1, <4>2, <4>3, <4>4
    <3> QED
      BY <2>1, <3>3 DEF BlankInv
  <2>3. CASE ~exists
    BY <1>3, <2>1, <2>3 DEF Commit, BlankInv
  <2> QED
    BY <2>2, <2>3
<1>4. ASSUME NEW h \in Handlers, StartStream(h) PROVE BlankInv'
  BY <1>4, BlankAfterLoad DEF StartStream
<1>5. ASSUME NEW h \in Handlers, NEW t \in Texts \cup {Blank},
             NEW p \in Prices, EndStream(h, t, p)
      PROVE  BlankInv'
  <2>1. ASSUME NEW k \in Handlers PROVE BlankLoaded(k)'
    <3>1. CASE k = h
      <4>1. new'[k] = GeneratedRow(loaded[k], t, p) /\ loaded[k] \in Rows
        BY <1>5, <3>1 DEF EndStream, TypeOK
      <4>2. ~new'[k].approved
        BY <4>1 DEF GeneratedRow, Rows
      <4> QED
        BY <4>2 DEF BlankLoaded
    <3>2. CASE k # h
      BY <1>5, <3>2 DEF EndStream, TypeOK, BlankInv, BlankLoaded
    <3> QED
      BY <3>1, <3>2
  <2> QED
    BY <1>5, <2>1 DEF EndStream, BlankInv
<1>6. ASSUME NEW h \in Handlers, AbortStream(h) \/ FailScore(h) PROVE BlankInv'
  BY <1>6, BlankAfterLeave DEF AbortStream, FailScore, BlankInv
<1>7. ASSUME NEW h \in Handlers, NEW s \in ScoreResults, EndScore(h, s)
      PROVE  BlankInv'
  <2>1. ASSUME NEW k \in Handlers PROVE BlankLoaded(k)'
    <3>1. new'[k].letter = new[k].letter /\ new'[k].approved = new[k].approved
      BY <1>7 DEF EndScore, TypeOK, Rows
    <3> QED
      BY <1>7, <3>1 DEF EndScore, BlankInv, BlankLoaded
  <2> QED
    BY <1>7, <2>1 DEF EndScore, BlankInv
<1>8. ASSUME NEW h \in Handlers, EndDelete(h) PROVE BlankInv'
  <2>1. ~row'.approved
    BY <1>8 DEF EndDelete, FreshRow
  <2> QED
    BY <1>8, <2>1, BlankAfterLeave DEF EndDelete, BlankInv
<1>9. ASSUME NEW h \in Handlers, NEW force \in BOOLEAN, Preflight(h, force)
      PROVE  BlankInv'
  BY <1>9 DEF Preflight, BlankInv, BlankLoaded
<1>10. ASSUME NEW h \in Handlers, NEW t \in Texts, NEW b \in BOOLEAN,
              Save(h, t, b)
       PROVE  BlankInv'
  <2> DEFINE r == [row EXCEPT !.letter = t, !.approved = b, !.stamped = TRUE]
  <2>1. r.letter # Blank
    BY TextsAssumption DEF TypeOK, Rows
  <2>2. Load(h, "save", "writing", r) /\ UNCHANGED <<row, crossed>>
    BY <1>10 DEF Save
  <2> HIDE DEF r
  <2> QED
    BY <2>1, <2>2, BlankAfterLoad
<1>11. ASSUME NEW h \in Handlers, Approve(h) PROVE BlankInv'
  <2> DEFINE r == [row EXCEPT !.approved = TRUE]
  <2>1. r.letter # Blank
    BY <1>11 DEF Approve, HasLetter, TypeOK, Rows
  <2>2. Load(h, "approve", "writing", r) /\ UNCHANGED <<row, crossed>>
    BY <1>11 DEF Approve
  <2> HIDE DEF r
  <2> QED
    BY <2>1, <2>2, BlankAfterLoad
<1>12. ASSUME NEW h \in Handlers, Unapprove(h) PROVE BlankInv'
  <2> DEFINE r == [row EXCEPT !.approved = FALSE]
  <2>1. ~r.approved
    BY DEF TypeOK, Rows
  <2>2. Load(h, "unapprove", "writing", r) /\ UNCHANGED <<row, crossed>>
    BY <1>12 DEF Unapprove
  <2> HIDE DEF r
  <2> QED
    BY <2>1, <2>2, BlankAfterLoad
<1>13. ASSUME NEW h \in Handlers, StartScore(h) PROVE BlankInv'
  BY <1>13, BlankAfterLoad DEF StartScore
<1>14. ASSUME NEW h \in Handlers, StartDelete(h) PROVE BlankInv'
  BY <1>14 DEF StartDelete, BlankInv, BlankLoaded
<1> QED
  BY <1>1, <1>2, <1>3, <1>4, <1>5, <1>6, <1>7, <1>8, <1>9, <1>10, <1>11,
     <1>12, <1>13, <1>14 DEF Next, Progress, Arrive

\* No interleaving separates the approval from a letter or a letter from its
\* timestamp, and an approved letter is empty only where an empty generation and
\* an approval overlapped (ApprovedHasLetter), for any number of requests.
THEOREM ApprovalSound == Spec => []ApprovedHasLetter
<1>1. Init => LetterInv /\ BlankInv
  BY DEF Init, LetterInv, CopiesOK, Sound, Grows, FreshRow, BlankInv, BlankLoaded
<1>2. LetterInv /\ BlankInv => ApprovedHasLetter
  BY DEF LetterInv, BlankInv, ApprovedHasLetter
<1> QED
  BY <1>1, <1>2, TypeCorrect, LetterStep, BlankStep, PTL DEF Spec

-----------------------------------------------------------------------------
(* Counters *)

\* The strengthening for the counters: what a handler loaded was true when it
\* loaded it and the histories only grow, and only a generation that is ready
\* to commit holds a count one above the one it loaded.
TallyOK(h) ==
    /\ pc[h] \in {"preflighted", "streaming"} => op[h] \in Generating
    /\ pc[h] = "scoring" => op[h] \notin Generating
    /\ loaded[h].generations <= written
    /\ new[h].generations = IF pc[h] = "writing" /\ op[h] \in Generating
                             THEN loaded[h].generations + 1
                             ELSE loaded[h].generations
    /\ loaded[h].cost <= billed
    /\ new[h].cost <= billed

CountInv ==
    /\ row.generations <= written
    /\ row.cost <= billed
    /\ exists /\ written > 0 => row.generations > 0
    /\ \A h \in Handlers : TallyOK(h)

\* A handler that is idle, or that has loaded the row for another endpoint
\* than generate and left the counters alone, has an OK tally.
LEMMA LeaveTally ==
    ASSUME TypeOK, CountInv, NEW h \in Handlers, Leave(h),
           written' \in Nat, written <= written', UNCHANGED billed
    PROVE  \A k \in Handlers : TallyOK(k)'
<1>1. ASSUME NEW k \in Handlers PROVE TallyOK(k)'
  <2>1. TallyOK(k) /\ loaded[k] \in Rows /\ written \in Nat /\ billed \in Nat
    BY DEF CountInv, TypeOK
  <2>2. CASE k = h
    <3>1. /\ pc'[k] = "idle" /\ op'[k] = "none"
          /\ loaded'[k] = FreshRow /\ new'[k] = FreshRow
      BY <2>2 DEF Leave, TypeOK
    <3> QED
      BY <2>1, <3>1 DEF TallyOK, FreshRow, Generating
  <2>3. CASE k # h
    <3>1. /\ pc'[k] = pc[k] /\ op'[k] = op[k]
          /\ loaded'[k] = loaded[k] /\ new'[k] = new[k]
      BY <2>3 DEF Leave, TypeOK
    <3> QED
      BY <2>1, <3>1 DEF TallyOK, Rows
  <2> QED
    BY <2>2, <2>3
<1> QED
  BY <1>1

LEMMA LoadTally ==
    ASSUME TypeOK, CountInv, NEW h \in Handlers, NEW o \in Ops, NEW p \in PCs,
           NEW r \in Rows, Load(h, o, p, r),
           r.generations = row.generations, r.cost = row.cost,
           o \in Generating <=> p = "streaming", p # "preflighted",
           UNCHANGED <<exists, row, written, billed>>
    PROVE  CountInv'
<1>1. ASSUME NEW k \in Handlers PROVE TallyOK(k)'
  <2>1. TallyOK(k)
    BY DEF CountInv
  <2>2. CASE k = h
    <3>1. /\ pc'[k] = p /\ op'[k] = o
          /\ loaded'[k] = row /\ new'[k] = r
      BY <2>2 DEF Load, TypeOK
    <3> QED
      BY <3>1 DEF TallyOK, CountInv
  <2>3. CASE k # h
    <3>1. /\ pc'[k] = pc[k] /\ op'[k] = op[k]
          /\ loaded'[k] = loaded[k] /\ new'[k] = new[k]
      BY <2>3 DEF Load, TypeOK
    <3> QED
      BY <2>1, <3>1 DEF TallyOK
  <2> QED
    BY <2>2, <2>3
<1> QED
  BY <1>1 DEF CountInv

LEMMA CountStep ==
    ASSUME TypeOK, CountInv, [Next]_vars
    PROVE  CountInv'
<1> USE DEF history
<1>0. row \in Rows /\ written \in Nat /\ billed \in Nat
  BY DEF TypeOK
<1>1. CASE UNCHANGED vars
  BY <1>1 DEF vars, CountInv, TallyOK
<1>2. CASE Crash
  BY <1>2, <1>0 DEF Crash, CountInv, TallyOK, FreshRow, Generating
<1>3. ASSUME NEW h \in Handlers, Commit(h) PROVE CountInv'
  <2>1. written' \in Nat /\ written <= written' /\ UNCHANGED <<exists, billed>>
    BY <1>3, <1>0 DEF Commit
  <2>2. \A k \in Handlers : TallyOK(k)'
    BY <1>3, <2>1, LeaveTally DEF Commit
  <2>3. TallyOK(h) /\ loaded[h] \in Rows /\ new[h] \in Rows /\ pc[h] = "writing"
    BY <1>3 DEF CountInv, TypeOK, Commit
  <2>4. CASE ~exists
    BY <1>3, <2>1, <2>2, <2>4 DEF Commit, CountInv
  <2>5. CASE exists
    <3>1. /\ row'.generations = Flushed(row.generations, loaded[h].generations,
                                       new[h].generations)
          /\ row'.cost = Flushed(row.cost, loaded[h].cost, new[h].cost)
      BY <1>3, <2>5 DEF Commit, FlushedRow
    <3>2. row'.cost <= billed'
      BY <3>1, <2>1, <2>3 DEF Flushed, TallyOK, CountInv
    <3>3. CASE op[h] \in Generating
      <4>1. written' = written + 1
        BY <1>3, <2>5, <3>3 DEF Commit
      <4>2. row'.generations = loaded[h].generations + 1
        BY <3>1, <3>3, <2>3 DEF Flushed, TallyOK, Rows
      <4>3. row'.generations <= written' /\ row'.generations > 0
        BY <4>1, <4>2, <2>3, <1>0 DEF TallyOK, Rows
      <4> QED
        BY <4>3, <3>2, <2>2 DEF CountInv
    <3>4. CASE op[h] \notin Generating
      <4>1. written' = written
        BY <1>3, <3>4 DEF Commit
      <4>2. row'.generations = row.generations
        BY <3>1, <3>4, <2>3 DEF Flushed, TallyOK
      <4> QED
        BY <4>1, <4>2, <3>2, <2>1, <2>2 DEF CountInv
    <3> QED
      BY <3>3, <3>4
  <2> QED
    BY <2>4, <2>5
<1>4. ASSUME NEW h \in Handlers, StartStream(h) PROVE CountInv'
  <2>1. op[h] \in Ops /\ op[h] \in Generating /\ "streaming" \in PCs
    BY <1>4 DEF TypeOK, CountInv, TallyOK, StartStream, PCs
  <2> QED
    BY <1>4, <1>0, <2>1, LoadTally DEF StartStream
<1>5. ASSUME NEW h \in Handlers, NEW t \in Texts \cup {Blank},
             NEW p \in Prices, EndStream(h, t, p)
      PROVE  CountInv'
  <2>1. p \in Nat /\ billed' = billed + p
    BY <1>5, PricesAssumption DEF EndStream
  <2>2. ASSUME NEW k \in Handlers PROVE TallyOK(k)'
    <3>1. TallyOK(k) /\ loaded[k] \in Rows /\ new[k] \in Rows
      BY DEF CountInv, TypeOK
    <3>2. op' = op /\ loaded' = loaded /\ written' = written
      BY <1>5 DEF EndStream
    <3>3. CASE k = h
      <4>1. /\ pc'[k] = "writing" /\ op[k] \in Generating
            /\ new'[k] = GeneratedRow(loaded[k], t, p)
        BY <1>5, <3>1, <3>3 DEF EndStream, TypeOK, TallyOK
      <4>2. /\ new'[k].generations = loaded[k].generations + 1
            /\ new'[k].cost = loaded[k].cost + p
        BY <4>1, <3>1 DEF GeneratedRow, Rows
      <4> QED
        BY <4>1, <4>2, <3>1, <3>2, <2>1, <1>0 DEF TallyOK, Rows
    <3>4. CASE k # h
      <4>1. pc'[k] = pc[k] /\ new'[k] = new[k]
        BY <1>5, <3>4 DEF EndStream, TypeOK
      <4> QED
        BY <4>1, <3>1, <3>2, <2>1, <1>0 DEF TallyOK, Rows
    <3> QED
      BY <3>3, <3>4
  <2>3. UNCHANGED <<exists, row, written>>
    BY <1>5 DEF EndStream
  <2>4. row.cost <= billed'
    BY <2>1, <1>0 DEF CountInv, Rows
  <2> QED
    BY <2>2, <2>3, <2>4 DEF CountInv
<1>6. ASSUME NEW h \in Handlers, AbortStream(h) PROVE CountInv'
  BY <1>6, <1>0, LeaveTally DEF AbortStream, CountInv
<1>7. ASSUME NEW h \in Handlers, NEW s \in ScoreResults, EndScore(h, s)
      PROVE  CountInv'
  <2>1. ASSUME NEW k \in Handlers PROVE TallyOK(k)'
    <3>1. TallyOK(k) /\ new[k] \in Rows
      BY DEF CountInv, TypeOK
    <3>2. UNCHANGED <<op, loaded, written, billed>>
      BY <1>7 DEF EndScore
    <3>3. CASE k = h
      <4>1. /\ pc[k] = "scoring" /\ pc'[k] = "writing"
            /\ new'[k] = [new[k] EXCEPT !.fit = s.fit, !.parsed = s.parsed]
        BY <1>7, <3>3 DEF EndScore, TypeOK
      <4>2. new'[k].generations = new[k].generations /\ new'[k].cost = new[k].cost
        BY <4>1, <3>1 DEF Rows
      <4> QED
        BY <4>1, <4>2, <3>1, <3>2 DEF TallyOK
    <3>4. CASE k # h
      <4>1. pc'[k] = pc[k] /\ new'[k] = new[k]
        BY <1>7, <3>4 DEF EndScore, TypeOK
      <4> QED
        BY <4>1, <3>1, <3>2 DEF TallyOK
    <3> QED
      BY <3>3, <3>4
  <2> QED
    BY <1>7, <2>1 DEF EndScore, CountInv
<1>8. ASSUME NEW h \in Handlers, FailScore(h) PROVE CountInv'
  BY <1>8, <1>0, LeaveTally DEF FailScore, CountInv
<1>9. ASSUME NEW h \in Handlers, EndDelete(h) PROVE CountInv'
  <2>1. \A k \in Handlers : TallyOK(k)'
    BY <1>9, <1>0, LeaveTally DEF EndDelete
  <2> QED
    BY <1>9, <1>0, <2>1 DEF EndDelete, CountInv, FreshRow
<1>10. ASSUME NEW h \in Handlers, NEW force \in BOOLEAN, Preflight(h, force)
       PROVE  CountInv'
  <2>1. ASSUME NEW k \in Handlers PROVE TallyOK(k)'
    <3>1. TallyOK(k)
      BY DEF CountInv
    <3>2. UNCHANGED <<loaded, new, written, billed>>
      BY <1>10 DEF Preflight
    <3>3. CASE k = h
      <4>1. pc[k] = "idle" /\ pc'[k] = "preflighted" /\ op'[k] \in Generating
        BY <1>10, <3>3 DEF Preflight, TypeOK, Generating
      <4> QED
        BY <4>1, <3>1, <3>2 DEF TallyOK
    <3>4. CASE k # h
      <4>1. pc'[k] = pc[k] /\ op'[k] = op[k]
        BY <1>10, <3>4 DEF Preflight, TypeOK
      <4> QED
        BY <4>1, <3>1, <3>2 DEF TallyOK
    <3> QED
      BY <3>3, <3>4
  <2> QED
    BY <1>10, <2>1 DEF Preflight, CountInv
<1>11. ASSUME NEW h \in Handlers, NEW t \in Texts, NEW b \in BOOLEAN,
              Save(h, t, b)
       PROVE  CountInv'
  <2> DEFINE r == [row EXCEPT !.letter = t, !.approved = b, !.stamped = TRUE]
  <2>1. r \in Rows /\ r.generations = row.generations /\ r.cost = row.cost
    BY <1>0 DEF Rows, Letters
  <2>2. Load(h, "save", "writing", r) /\ UNCHANGED <<exists, row, written, billed>>
    BY <1>11 DEF Save
  <2>3. "save" \in Ops /\ "writing" \in PCs /\ "save" \notin Generating
    BY DEF Ops, PCs, Generating
  <2> HIDE DEF r
  <2> QED
    BY <2>1, <2>2, <2>3, LoadTally
<1>12. ASSUME NEW h \in Handlers, Approve(h) PROVE CountInv'
  <2> DEFINE r == [row EXCEPT !.approved = TRUE]
  <2>1. r \in Rows /\ r.generations = row.generations /\ r.cost = row.cost
    BY <1>0 DEF Rows
  <2>2. Load(h, "approve", "writing", r) /\ UNCHANGED <<exists, row, written, billed>>
    BY <1>12 DEF Approve
  <2>3. "approve" \in Ops /\ "writing" \in PCs /\ "approve" \notin Generating
    BY DEF Ops, PCs, Generating
  <2> HIDE DEF r
  <2> QED
    BY <2>1, <2>2, <2>3, LoadTally
<1>13. ASSUME NEW h \in Handlers, Unapprove(h) PROVE CountInv'
  <2> DEFINE r == [row EXCEPT !.approved = FALSE]
  <2>1. r \in Rows /\ r.generations = row.generations /\ r.cost = row.cost
    BY <1>0 DEF Rows
  <2>2. Load(h, "unapprove", "writing", r) /\ UNCHANGED <<exists, row, written, billed>>
    BY <1>13 DEF Unapprove
  <2>3. "unapprove" \in Ops /\ "writing" \in PCs /\ "unapprove" \notin Generating
    BY DEF Ops, PCs, Generating
  <2> HIDE DEF r
  <2> QED
    BY <2>1, <2>2, <2>3, LoadTally
<1>14. ASSUME NEW h \in Handlers, StartScore(h) PROVE CountInv'
  <2>1. "score" \in Ops /\ "scoring" \in PCs /\ "score" \notin Generating
    BY DEF Ops, PCs, Generating
  <2> QED
    BY <1>14, <1>0, <2>1, LoadTally DEF StartScore
<1>15. ASSUME NEW h \in Handlers, StartDelete(h) PROVE CountInv'
  <2>1. ASSUME NEW k \in Handlers PROVE TallyOK(k)'
    <3>1. TallyOK(k)
      BY DEF CountInv
    <3>2. UNCHANGED <<loaded, new, written, billed>>
      BY <1>15 DEF StartDelete
    <3>3. CASE k = h
      <4>1. pc[k] = "idle" /\ pc'[k] = "deleting"
        BY <1>15, <3>3 DEF StartDelete, TypeOK
      <4> QED
        BY <4>1, <3>1, <3>2 DEF TallyOK
    <3>4. CASE k # h
      <4>1. pc'[k] = pc[k] /\ op'[k] = op[k]
        BY <1>15, <3>4 DEF StartDelete, TypeOK
      <4> QED
        BY <4>1, <3>1, <3>2 DEF TallyOK
    <3> QED
      BY <3>3, <3>4
  <2> QED
    BY <1>15, <2>1 DEF StartDelete, CountInv
<1> QED
  BY <1>1, <1>2, <1>3, <1>4, <1>5, <1>6, <1>7, <1>8, <1>9, <1>10, <1>11,
     <1>12, <1>13, <1>14, <1>15 DEF Next, Progress, Arrive

\* Stale writers lose increments but never invent one and never take the counter
\* back to zero (CountersTrue).
THEOREM CountersHonest == Spec => []CountersTrue
<1>1. Init => CountInv
  BY DEF Init, CountInv, TallyOK, FreshRow, Generating
<1>2. CountInv => CountersTrue
  BY DEF CountInv, CountersTrue
<1> QED
  BY <1>1, <1>2, TypeCorrect, CountStep, PTL DEF Spec

-----------------------------------------------------------------------------
(* The force flag *)

\* A step that changes neither the row nor what was overtaken, and that turns no
\* request into a generate, keeps ForceNeeded.
LEMMA ForceStays ==
    ASSUME ForceNeeded, UNCHANGED <<exists, row, overtaken>>,
           \A h \in Handlers : op'[h] = "generate" => op[h] = "generate"
    PROVE  ForceNeeded'
BY DEF ForceNeeded

\* The endpoint of each request after one of them has left or loaded the row.
LEMMA OpAfterLeave ==
    ASSUME TypeOK, NEW h \in Handlers, Leave(h), NEW g \in Handlers
    PROVE  op'[g] = "generate" => op[g] = "generate" /\ g # h
BY DEF TypeOK, Leave

LEMMA OpAfterLoad ==
    ASSUME TypeOK, NEW h \in Handlers, NEW o, NEW p, NEW r, Load(h, o, p, r),
           o = "generate" => op[h] = "generate", NEW g \in Handlers
    PROVE  op'[g] = "generate" => op[g] = "generate"
BY DEF TypeOK, Load

LEMMA ForceStep ==
    ASSUME TypeOK, ForceNeeded, [Next]_vars
    PROVE  ForceNeeded'
<1> USE DEF history
<1>1. CASE UNCHANGED vars
  BY <1>1 DEF vars, ForceNeeded
<1>2. CASE Crash
  BY <1>2 DEF Crash, ForceNeeded
<1>3. ASSUME NEW h \in Handlers, Commit(h) PROVE ForceNeeded'
  <2> SUFFICES ASSUME NEW g \in Handlers, op'[g] = "generate", exists',
                      row'.approved
               PROVE  g \in overtaken'
    BY DEF ForceNeeded
  <2>1. exists /\ op[g] = "generate"
    BY <1>3, OpAfterLeave DEF Commit
  <2>2. CASE row.approved
    <3>1. g \in overtaken
      BY <2>1, <2>2 DEF ForceNeeded
    <3> QED
      BY <1>3, <3>1 DEF Commit
  <2>3. CASE ~row.approved
    BY <1>3, <2>1, <2>3 DEF Commit
  <2> QED
    BY <2>2, <2>3
<1>4. ASSUME NEW h \in Handlers, StartStream(h) PROVE ForceNeeded'
  <2>1. \A g \in Handlers : op'[g] = "generate" => op[g] = "generate"
    BY <1>4, OpAfterLoad DEF StartStream
  <2> QED
    BY <1>4, <2>1, ForceStays DEF StartStream
<1>5. ASSUME NEW h \in Handlers, NEW t \in Texts \cup {Blank},
             NEW p \in Prices, EndStream(h, t, p)
      PROVE  ForceNeeded'
  BY <1>5, ForceStays DEF EndStream
<1>6. ASSUME NEW h \in Handlers, AbortStream(h) \/ FailScore(h) PROVE ForceNeeded'
  <2>1. \A g \in Handlers : op'[g] = "generate" => op[g] = "generate"
    BY <1>6, OpAfterLeave DEF AbortStream, FailScore
  <2> QED
    BY <1>6, <2>1, ForceStays DEF AbortStream, FailScore
<1>7. ASSUME NEW h \in Handlers, NEW s \in ScoreResults, EndScore(h, s)
      PROVE  ForceNeeded'
  BY <1>7, ForceStays DEF EndScore
<1>8. ASSUME NEW h \in Handlers, EndDelete(h) PROVE ForceNeeded'
  BY <1>8 DEF EndDelete, ForceNeeded
<1>9. ASSUME NEW h \in Handlers, NEW force \in BOOLEAN, Preflight(h, force)
      PROVE  ForceNeeded'
  <2> SUFFICES ASSUME NEW g \in Handlers, op'[g] = "generate", exists',
                      row'.approved
               PROVE  g \in overtaken'
    BY DEF ForceNeeded
  <2>1. row.approved /\ exists /\ force
    BY <1>9 DEF Preflight, MayGenerate
  <2>2. op[g] = "generate" /\ g # h
    BY <1>9, <2>1 DEF Preflight, TypeOK
  <2>3. g \in overtaken
    BY <2>1, <2>2 DEF ForceNeeded
  <2> QED
    BY <1>9, <2>2, <2>3 DEF Preflight
<1>10. ASSUME NEW h \in Handlers, NEW t \in Texts, NEW b \in BOOLEAN,
              Save(h, t, b)
       PROVE  ForceNeeded'
  <2>1. \A g \in Handlers : op'[g] = "generate" => op[g] = "generate"
    BY <1>10, OpAfterLoad DEF Save
  <2> QED
    BY <1>10, <2>1, ForceStays DEF Save
<1>11. ASSUME NEW h \in Handlers, Approve(h) \/ Unapprove(h) \/ StartScore(h)
       PROVE  ForceNeeded'
  <2>1. \A g \in Handlers : op'[g] = "generate" => op[g] = "generate"
    BY <1>11, OpAfterLoad DEF Approve, Unapprove, StartScore
  <2> QED
    BY <1>11, <2>1, ForceStays DEF Approve, Unapprove, StartScore
<1>12. ASSUME NEW h \in Handlers, StartDelete(h) PROVE ForceNeeded'
  <2>1. \A g \in Handlers : op'[g] = "generate" => op[g] = "generate"
    BY <1>12 DEF StartDelete, TypeOK
  <2> QED
    BY <1>12, <2>1, ForceStays DEF StartDelete
<1> QED
  BY <1>1, <1>2, <1>3, <1>4, <1>5, <1>6, <1>7, <1>8, <1>9, <1>10, <1>11,
     <1>12 DEF Next, Progress, Arrive

\* However many requests overlap, one without force replaces an approved letter
\* only when it was approved after the request's checks (ForceNeeded).
THEOREM ForceRespected == Spec => []ForceNeeded
<1>1. Init => ForceNeeded
  BY DEF Init, ForceNeeded
<1> QED
  BY <1>1, TypeCorrect, ForceStep, PTL DEF Spec

-----------------------------------------------------------------------------
(* Refinement *)

\* Each step of a handler is a step of LetterStages or leaves the stage alone.
LEMMA StageStep ==
    ASSUME TypeOK, LetterInv, LetterInv', [Next]_vars
    PROVE  [Lifecycle!Next]_Stage
<1> USE DEF history
<1>1. CASE UNCHANGED <<exists, row>>
  BY <1>1 DEF Stage
<1>2. ASSUME NEW h \in Handlers, Commit(h), exists
      PROVE  [Lifecycle!Next]_Stage
  <2>1. exists' /\ Grows(row, row') /\ Sound(row')
    BY <1>2, FlushSound DEF Commit, LetterInv
  <2>2. CASE row'.letter = NoLetter
    BY <1>2, <2>1, <2>2 DEF Grows, Stage
  <2>3. CASE row'.letter # NoLetter
    BY <1>2, <2>1, <2>3 DEF Stage, Lifecycle!Next, Lifecycle!Write
  <2> QED
    BY <2>2, <2>3
<1>3. ASSUME NEW h \in Handlers, EndDelete(h)
      PROVE  [Lifecycle!Next]_Stage
  BY <1>3 DEF EndDelete, Stage, Lifecycle!Next, Lifecycle!Delete
<1>4. UNCHANGED <<exists, row>>
      \/ \E h \in Handlers : (Commit(h) /\ exists) \/ EndDelete(h)
  BY DEF Next, vars, Progress, Arrive, Crash, Commit, StartStream, EndStream,
         AbortStream, EndScore, FailScore, Preflight, Save, Approve, Unapprove,
         StartScore, StartDelete
<1> QED
  BY <1>1, <1>2, <1>3, <1>4

\* The concurrent handlers implement the life cycle of LetterStages
\* (ImplementsStages): no schedule un-writes a letter or revives a job.
THEOREM Refinement == Spec => ImplementsStages
<1>1. Init => LetterInv
  BY DEF Init, LetterInv, CopiesOK, Sound, Grows, FreshRow
<1>2. Init => Lifecycle!Init
  BY DEF Init, Stage, FreshRow, Lifecycle!Init
<1> QED
  BY <1>1, <1>2, TypeCorrect, LetterStep, StageStep, PTL
     DEF Spec, ImplementsStages, Lifecycle!Spec
=============================================================================
