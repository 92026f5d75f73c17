-------------------------- MODULE Research_proofs ---------------------------
(***************************************************************************)
(* Theorems about Research: for any number of runs for one job, whatever   *)
(* the planner comes up with, a run pays and searches within its bounds,   *)
(* and the brief in the row goes with its own trace.                       *)
(***************************************************************************)
EXTENDS Research, FiniteSetTheorems, TLAPS

-----------------------------------------------------------------------------
(* Types, and what a run may have spent by the time it is at a step *)

Early == {"unstarted", "planning"}
Acting == {"searching", "fetching"}

\* Each iteration answers once and notes once at most, and nothing is searched or
\* fetched that is not new.
SpentInv ==
    \A r \in Runs :
        /\ pc[r] \in Early => answers[r] <= iteration[r] - 1
        /\ pc[r] \in Early \cup Acting => notes[r] <= iteration[r] - 1
        /\ pc[r] \in Acting \cup {"synthesizing"} => answers[r] <= iteration[r]
        /\ answers[r] <= iteration[r] + 1
        /\ notes[r] <= iteration[r]
        /\ cost[r] <= answers[r]
        /\ IsFiniteSet(seen[r])
        /\ tools[r] = Cardinality(seen[r])

IInv == TypeOK /\ SpentInv

\* The end of an iteration moves on to the next, if there is one.
LEMMA AdvanceFacts ==
    ASSUME TypeOK, NEW r \in Runs, Advance(r)
    PROVE  /\ pc' \in [Runs -> PCs] /\ iteration' \in [Runs -> 1..MAX_ITERATIONS]
           /\ \A q \in Runs \ {r} : pc'[q] = pc[q] /\ iteration'[q] = iteration[q]
           /\ \/ pc'[r] = "planning" /\ iteration'[r] = iteration[r] + 1
              \/ pc'[r] = "synthesizing" /\ iteration'[r] = iteration[r]
BY IterationsAssumption DEF Advance, AnotherIteration, TypeOK, PCs

\* A step of one run leaves what the others have spent.
LEMMA OthersSpent ==
    ASSUME SpentInv, NEW r \in Runs,
           \A q \in Runs \ {r} :
              /\ pc'[q] = pc[q] /\ iteration'[q] = iteration[q] /\ answers'[q] = answers[q]
              /\ notes'[q] = notes[q] /\ cost'[q] = cost[q] /\ seen'[q] = seen[q]
              /\ tools'[q] = tools[q],
           /\ pc'[r] \in Early => answers'[r] <= iteration'[r] - 1
           /\ pc'[r] \in Early \cup Acting => notes'[r] <= iteration'[r] - 1
           /\ pc'[r] \in Acting \cup {"synthesizing"} => answers'[r] <= iteration'[r]
           /\ answers'[r] <= iteration'[r] + 1
           /\ notes'[r] <= iteration'[r]
           /\ cost'[r] <= answers'[r]
           /\ IsFiniteSet(seen'[r])
           /\ tools'[r] = Cardinality(seen'[r])
    PROVE  SpentInv'
BY DEF SpentInv

\* The planner answers, and something new is searched or fetched.
LEMMA PlanToolInv ==
    ASSUME IInv, NEW r \in Runs, NEW s \in Subjects, PlanTool(r, s)
    PROVE  IInv'
<1> USE DEF IInv, Answered
<1>1. /\ pc[r] = "planning" /\ s \notin seen[r]
      /\ pc' = [pc EXCEPT ![r] = IF s \in Queries THEN "searching" ELSE "fetching"]
      /\ answers' = [answers EXCEPT ![r] = @ + 1] /\ cost' = [cost EXCEPT ![r] = @ + 1]
      /\ seen' = [seen EXCEPT ![r] = @ \cup {s}] /\ tools' = [tools EXCEPT ![r] = @ + 1]
      /\ UNCHANGED <<exists, row, caller, iteration, notes, loaded, new, crossed>>
  BY DEF PlanTool, IsNew
<1>2. TypeOK'
  BY <1>1 DEF TypeOK, PCs
<1>3. /\ IsFiniteSet(seen[r]) /\ tools[r] = Cardinality(seen[r])
      /\ Cardinality(seen[r]) \in Nat
  BY FS_CardinalityType DEF SpentInv
<1>4. IsFiniteSet(seen[r] \cup {s}) /\ Cardinality(seen[r] \cup {s}) = Cardinality(seen[r]) + 1
  BY <1>1, <1>3, FS_AddElement
<1>5. IsFiniteSet(seen'[r]) /\ tools'[r] = Cardinality(seen'[r])
  BY <1>1, <1>3, <1>4 DEF TypeOK
<1>6. /\ pc'[r] \in Acting /\ answers'[r] = answers[r] + 1 /\ cost'[r] = cost[r] + 1
      /\ iteration'[r] = iteration[r] /\ notes'[r] = notes[r]
      /\ iteration[r] \in Nat /\ answers[r] \in Nat /\ cost[r] \in Nat /\ notes[r] \in Nat
  BY <1>1, IterationsAssumption DEF TypeOK, Acting
<1>7. /\ answers[r] <= iteration[r] - 1 /\ notes[r] <= iteration[r] - 1
      /\ cost[r] <= answers[r]
  BY <1>1 DEF SpentInv, Early
<1>8. \A q \in Runs \ {r} :
         /\ pc'[q] = pc[q] /\ iteration'[q] = iteration[q] /\ answers'[q] = answers[q]
         /\ notes'[q] = notes[q] /\ cost'[q] = cost[q] /\ seen'[q] = seen[q]
         /\ tools'[q] = tools[q]
  BY <1>1 DEF TypeOK
<1>9. SpentInv'
  <2>1. /\ answers'[r] <= iteration'[r] /\ notes'[r] <= iteration'[r] - 1
        /\ answers'[r] <= iteration'[r] + 1 /\ notes'[r] <= iteration'[r]
        /\ cost'[r] <= answers'[r] /\ pc'[r] \notin Early
    BY <1>6, <1>7 DEF Early, Acting
  <2> QED
    BY <1>5, <1>8, <2>1, OthersSpent
<1> QED
  BY <1>2, <1>9

\* A step that ends an iteration, with a note more.
LEMMA NoteInv ==
    ASSUME IInv, NEW r \in Runs, ToolReturns(r) \/ PlanFruitless(r)
    PROVE  IInv'
<1> USE DEF IInv, Answered, history
<1>1. /\ pc[r] \in {"planning", "searching", "fetching"}
      /\ notes' = [notes EXCEPT ![r] = @ + 1]
      /\ UNCHANGED <<exists, row, caller, seen, loaded, new, tools, crossed>>
  BY DEF ToolReturns, PlanFruitless, ToolOutcomes
<1>2. \/ pc[r] # "planning" /\ UNCHANGED <<answers, cost>>
      \/ /\ pc[r] = "planning" /\ answers' = [answers EXCEPT ![r] = @ + 1]
         /\ cost' = [cost EXCEPT ![r] = @ + 1]
  BY DEF ToolReturns, PlanFruitless, ToolOutcomes
<1>3. /\ pc' \in [Runs -> PCs] /\ iteration' \in [Runs -> 1..MAX_ITERATIONS]
      /\ \A q \in Runs \ {r} : pc'[q] = pc[q] /\ iteration'[q] = iteration[q]
      /\ \/ pc'[r] = "planning" /\ iteration'[r] = iteration[r] + 1
         \/ pc'[r] \in {"synthesizing", "ended"} /\ iteration'[r] = iteration[r]
  <2>1. CASE Advance(r)
    BY <2>1, AdvanceFacts
  <2>2. CASE pc' = [pc EXCEPT ![r] = "ended"] /\ UNCHANGED iteration
    BY <2>2 DEF TypeOK, PCs
  <2> QED
    BY <2>1, <2>2 DEF ToolReturns, PlanFruitless
<1>4. /\ iteration[r] \in Nat /\ answers[r] \in Nat /\ cost[r] \in Nat /\ notes[r] \in Nat
      /\ iteration[r] <= MAX_ITERATIONS /\ MAX_ITERATIONS \in Nat
  BY IterationsAssumption DEF TypeOK
<1>5. /\ notes'[r] = notes[r] + 1
      /\ IF pc[r] = "planning"
         THEN answers'[r] = answers[r] + 1 /\ cost'[r] = cost[r] + 1
         ELSE answers'[r] = answers[r] /\ cost'[r] = cost[r]
  BY <1>1, <1>2 DEF TypeOK
<1>6. /\ notes[r] <= iteration[r] - 1 /\ cost[r] <= answers[r]
      /\ pc[r] = "planning" => answers[r] <= iteration[r] - 1
      /\ pc[r] # "planning" => answers[r] <= iteration[r]
  BY <1>1 DEF SpentInv, Early, Acting
<1>7. \A q \in Runs \ {r} :
         /\ notes'[q] = notes[q] /\ answers'[q] = answers[q] /\ cost'[q] = cost[q]
         /\ seen'[q] = seen[q] /\ tools'[q] = tools[q]
  BY <1>1, <1>2 DEF TypeOK
<1>8. TypeOK'
  <2>1. notes[r] + 1 \in 0..MAX_ITERATIONS
    BY <1>4, <1>6
  <2>2. notes' \in [Runs -> 0..MAX_ITERATIONS]
    BY <1>1, <2>1 DEF TypeOK
  <2>3. answers' \in [Runs -> Nat] /\ cost' \in [Runs -> Nat]
    BY <1>2 DEF TypeOK
  <2> QED
    BY <1>1, <1>3, <2>2, <2>3 DEF TypeOK
<1>9. SpentInv'
  <2>1. IsFiniteSet(seen'[r]) /\ tools'[r] = Cardinality(seen'[r])
    BY <1>1 DEF SpentInv
  <2>2. /\ pc'[r] \in Early => answers'[r] <= iteration'[r] - 1
        /\ pc'[r] \in Early \cup Acting => notes'[r] <= iteration'[r] - 1
        /\ pc'[r] \in Acting \cup {"synthesizing"} => answers'[r] <= iteration'[r]
        /\ answers'[r] <= iteration'[r] + 1
        /\ notes'[r] <= iteration'[r]
        /\ cost'[r] <= answers'[r]
    BY <1>3, <1>4, <1>5, <1>6 DEF Early, Acting
  <2> QED
    BY <1>3, <1>7, <2>1, <2>2, OthersSpent
<1> QED
  BY <1>8, <1>9

\* A step of a run towards its end that leaves its notes and its subjects alone,
\* and answers once at most, when it leaves the loop or the synthesis.
Late == {"synthesizing", "persisting", "writing", "ended"}

LEMMA LateInv ==
    ASSUME IInv, NEW r \in Runs, NEW p \in Late, pc' = [pc EXCEPT ![r] = p],
           answers' \in [Runs -> Nat], cost' \in [Runs -> Nat],
           \A q \in Runs \ {r} : answers'[q] = answers[q] /\ cost'[q] = cost[q],
           cost'[r] <= answers'[r], answers'[r] <= iteration[r] + 1,
           p = "synthesizing" => answers'[r] <= iteration[r],
           UNCHANGED <<exists, caller, iteration, seen, notes, tools>>,
           row' \in Rows, loaded' \in [Runs -> Rows], new' \in [Runs -> Rows],
           crossed' \subseteq Runs
    PROVE  IInv'
<1>1. TypeOK'
  <2>1. pc' \in [Runs -> PCs]
    BY DEF IInv, TypeOK, PCs, Late
  <2> QED
    BY <2>1 DEF IInv, TypeOK
<1>2. pc'[r] = p /\ \A q \in Runs \ {r} : pc'[q] = pc[q]
  BY DEF IInv, TypeOK
<1>3. SpentInv'
  <2>1. /\ notes[r] <= iteration[r] /\ IsFiniteSet(seen[r])
        /\ tools[r] = Cardinality(seen[r])
    BY DEF IInv, SpentInv
  <2>2. p \notin Early \cup Acting
    BY DEF Late, Early, Acting
  <2> QED
    BY <1>2, <2>1, <2>2, OthersSpent DEF IInv
<1> QED
  BY <1>1, <1>3 DEF IInv

\* One without an answer, and one whose answer is paid for and maybe added up.
LEMMA UnpaidInv ==
    ASSUME IInv, NEW r \in Runs, NEW p \in Late \ {"synthesizing"},
           pc' = [pc EXCEPT ![r] = p],
           UNCHANGED <<exists, caller, iteration, seen, notes, cost, answers, tools>>,
           row' \in Rows, loaded' \in [Runs -> Rows], new' \in [Runs -> Rows],
           crossed' \subseteq Runs
    PROVE  IInv'
<1>1. /\ answers' \in [Runs -> Nat] /\ cost' \in [Runs -> Nat]
      /\ cost'[r] <= answers'[r] /\ answers'[r] <= iteration[r] + 1
  BY DEF IInv, TypeOK, SpentInv
<1> QED
  BY <1>1, LateInv

LEMMA PaidInv ==
    ASSUME IInv, NEW r \in Runs, NEW p \in Late, pc' = [pc EXCEPT ![r] = p],
           pc[r] = "planning" \/ (pc[r] = "synthesizing" /\ p # "synthesizing"),
           answers' = [answers EXCEPT ![r] = @ + 1],
           cost' = cost \/ cost' = [cost EXCEPT ![r] = @ + 1],
           UNCHANGED <<exists, row, caller, iteration, seen, notes, loaded, new, tools, crossed>>
    PROVE  IInv'
<1>1. /\ answers' \in [Runs -> Nat] /\ cost' \in [Runs -> Nat]
      /\ \A q \in Runs \ {r} : answers'[q] = answers[q] /\ cost'[q] = cost[q]
      /\ answers'[r] = answers[r] + 1 /\ cost'[r] \in {cost[r], cost[r] + 1}
  BY DEF IInv, TypeOK
<1>2. /\ iteration[r] \in Nat /\ answers[r] \in Nat /\ cost[r] \in Nat
      /\ row' \in Rows /\ loaded' \in [Runs -> Rows] /\ new' \in [Runs -> Rows]
      /\ crossed' \subseteq Runs
  BY IterationsAssumption DEF IInv, TypeOK
<1>3. /\ pc[r] = "planning" => answers[r] <= iteration[r] - 1
      /\ pc[r] = "synthesizing" => answers[r] <= iteration[r]
      /\ cost[r] <= answers[r]
  BY DEF IInv, SpentInv, Early, Acting
<1>4. /\ cost'[r] <= answers'[r] /\ answers'[r] <= iteration[r] + 1
      /\ p = "synthesizing" => answers'[r] <= iteration[r]
  BY <1>1, <1>2, <1>3
<1> QED
  BY <1>1, <1>2, <1>4, LateInv

LEMMA FlushedType ==
    ASSUME TypeOK, NEW r \in Runs
    PROVE  /\ FlushedRow(r) \in Rows /\ Researched(row, r) \in Rows /\ FreshRow \in Rows
<1>1. /\ row \in Rows /\ loaded[r] \in Rows /\ new[r] \in Rows
      /\ notes[r] \in Nat /\ cost[r] \in Nat
  BY IterationsAssumption DEF TypeOK
<1>2. FlushedRow(r) \in Rows
  BY <1>1 DEF FlushedRow, Flushed, Rows
<1> QED
  BY <1>1, <1>2 DEF Researched, FreshRow, Rows

LEMMA InvStep ==
    ASSUME IInv, [Next]_vars
    PROVE  IInv'
<1> USE DEF IInv, history, local
<1>1. CASE UNCHANGED vars
  BY <1>1 DEF vars, TypeOK, SpentInv
<1>2. ASSUME NEW r \in Runs, NEW c \in {"http", "mcp"}, Start(r, c) PROVE IInv'
  <2>1. TypeOK'
    BY <1>2 DEF Start, TypeOK, PCs
  <2> QED
    BY <1>2, <2>1 DEF Start, TypeOK, SpentInv, Early, Acting
<1>3. ASSUME NEW r \in Runs, NEW s \in Subjects, PlanTool(r, s) PROVE IInv'
  BY <1>3, PlanToolInv
<1>4. ASSUME NEW r \in Runs, ToolReturns(r) \/ PlanFruitless(r) PROVE IInv'
  BY <1>4, NoteInv
<1>5. ASSUME NEW r \in Runs, ToolRaises(r) \/ Cancel(r) PROVE IInv'
  BY <1>5, UnpaidInv DEF ToolRaises, Cancel, TypeOK, Late
<1>6. ASSUME NEW r \in Runs, PlanStop(r) \/ PlanUnknown(r) PROVE IInv'
  BY <1>6, PaidInv DEF PlanStop, PlanUnknown, Answered, Late
<1>7. ASSUME NEW r \in Runs, NEW paid \in BOOLEAN, ModelFails(r, paid) PROVE IInv'
  <2>1. CASE paid
    BY <1>7, <2>1, PaidInv DEF ModelFails, Late
  <2>2. CASE ~paid
    <3>1. UNCHANGED answers
      BY <1>7, <2>2 DEF ModelFails, TypeOK
    <3> QED
      BY <1>7, <3>1, UnpaidInv DEF ModelFails, TypeOK, Late
  <2> QED
    BY <2>1, <2>2
<1>8. ASSUME NEW r \in Runs, Synthesize(r) PROVE IInv'
  BY <1>8, PaidInv DEF Synthesize, Late
<1>9. ASSUME NEW r \in Runs, LoadRow(r) PROVE IInv'
  <2>1. loaded' \in [Runs -> Rows] /\ new' \in [Runs -> Rows]
    BY <1>9, FlushedType DEF LoadRow, TypeOK
  <2> QED
    BY <1>9, <2>1, UnpaidInv DEF LoadRow, TypeOK, Late
<1>10. ASSUME NEW r \in Runs, Commit(r) PROVE IInv'
  <2>1. row' \in Rows /\ crossed' \subseteq Runs
    BY <1>10, FlushedType DEF Commit, TypeOK
  <2> QED
    BY <1>10, <2>1, UnpaidInv DEF Commit, TypeOK, Late
<1>11. CASE Delete
  <2>1. FreshRow \in Rows
    BY DEF FreshRow, Rows
  <2> QED
    BY <1>11, <2>1 DEF Delete, TypeOK, SpentInv
<1> QED
  BY <1>1, <1>2, <1>3, <1>4, <1>5, <1>6, <1>7, <1>8, <1>9, <1>10, <1>11 DEF Next, Step

LEMMA InitInv == Init => IInv
<1> SUFFICES ASSUME Init PROVE IInv
  OBVIOUS
<1>1. FreshRow \in Rows
  BY DEF FreshRow, Rows
<1>2. TypeOK
  BY <1>1, IterationsAssumption DEF Init, TypeOK, PCs
<1>3. IsFiniteSet({}) /\ Cardinality({}) = 0
  BY FS_EmptySet
<1>4. SpentInv
  BY <1>3 DEF Init, SpentInv
<1> QED
  BY <1>2, <1>4 DEF IInv

LEMMA InvCorrect == Spec => []IInv
BY InitInv, InvStep, PTL DEF Spec

\* Every state of every behaviour is typed.
THEOREM TypeCorrect == Spec => []TypeOK
<1>1. IInv => TypeOK
  BY DEF IInv
<1> QED
  BY <1>1, InvCorrect, PTL

-----------------------------------------------------------------------------
(* The result in the row *)

\* The run of a brief has ended, so that its notes stay as they are; and the copy
\* of a run that nobody has crossed holds what is in the row.
StoreInv ==
    /\ ResultWhole
    /\ \A r \in Runs : pc[r] # "ended" =>
          row.brief # r /\ \A q \in Runs : loaded[q].brief # r
    /\ \A r \in Runs : pc[r] = "writing" =>
          /\ new[r] = Researched(loaded[r], r)
          /\ r \notin crossed /\ exists => loaded[r] = row

\* A step that leaves the row and the copies alone, and the notes of a run that has
\* ended or is about to write.
LEMMA StoreKept ==
    ASSUME StoreInv, UNCHANGED <<exists, row, loaded, new, crossed>>,
           \A r \in Runs : /\ pc[r] = "ended" => pc'[r] = "ended"
                           /\ pc'[r] = "writing" => pc[r] = "writing" /\ cost'[r] = cost[r]
                           /\ pc[r] \in {"ended", "writing"} => notes'[r] = notes[r]
    PROVE  StoreInv'
<1>1. ResultWhole'
  BY DEF StoreInv, ResultWhole
<1>2. \A r \in Runs : pc'[r] = "writing" => new'[r] = Researched(loaded[r], r)'
  BY DEF StoreInv, Researched
<1> QED
  BY <1>1, <1>2 DEF StoreInv

LEMMA StoreStep ==
    ASSUME TypeOK, StoreInv, [Next]_vars
    PROVE  StoreInv'
<1> USE DEF history, local
<1>1. CASE UNCHANGED vars
  BY <1>1, StoreKept DEF vars
<1>2. ASSUME NEW r \in Runs, NEW c \in {"http", "mcp"}, Start(r, c) PROVE StoreInv'
  BY <1>2, StoreKept DEF Start, TypeOK
<1>3. ASSUME NEW r \in Runs, NEW s \in Subjects, PlanTool(r, s) PROVE StoreInv'
  BY <1>3, StoreKept DEF PlanTool, Answered, TypeOK
<1>4. ASSUME NEW r \in Runs, ToolReturns(r) \/ PlanFruitless(r) PROVE StoreInv'
  <2>1. /\ pc[r] \in {"planning", "searching", "fetching"}
        /\ pc'[r] \in {"planning", "synthesizing", "ended"}
        /\ \A q \in Runs \ {r} : pc'[q] = pc[q] /\ notes'[q] = notes[q] /\ cost'[q] = cost[q]
        /\ UNCHANGED <<exists, row, loaded, new, crossed>>
    BY <1>4 DEF ToolReturns, PlanFruitless, Answered, Advance, ToolOutcomes, TypeOK
  <2> QED
    BY <2>1, StoreKept
<1>5. ASSUME NEW r \in Runs, NEW paid \in BOOLEAN,
             \/ ToolRaises(r) \/ Cancel(r) \/ PlanStop(r) \/ PlanUnknown(r)
             \/ ModelFails(r, paid) \/ Synthesize(r)
      PROVE  StoreInv'
  <2>1. /\ pc'[r] \in {"synthesizing", "persisting", "ended"}
        /\ pc[r] = "ended" => pc'[r] = "ended"
        /\ \A q \in Runs \ {r} : pc'[q] = pc[q] /\ cost'[q] = cost[q]
        /\ UNCHANGED <<exists, row, loaded, new, crossed, notes>>
    BY <1>5 DEF ToolRaises, Cancel, PlanStop, PlanUnknown, ModelFails, Synthesize,
                Answered, ToolOutcomes, TypeOK
  <2> QED
    BY <2>1, StoreKept
<1>6. ASSUME NEW r \in Runs, LoadRow(r) PROVE StoreInv'
  <2>1. CASE ~exists
    <3>1. /\ UNCHANGED <<exists, row, loaded, new, crossed, notes, cost>>
          /\ pc'[r] = "ended" /\ \A q \in Runs \ {r} : pc'[q] = pc[q]
      BY <1>6, <2>1 DEF LoadRow, TypeOK
    <3> QED
      BY <3>1, StoreKept
  <2>2. CASE exists
    <3>1. /\ pc[r] = "persisting" /\ pc'[r] = "writing"
          /\ loaded'[r] = row /\ new'[r] = Researched(row, r)
          /\ \A q \in Runs \ {r} :
                pc'[q] = pc[q] /\ loaded'[q] = loaded[q] /\ new'[q] = new[q]
          /\ UNCHANGED <<exists, row, notes, cost, crossed>>
      BY <1>6, <2>2 DEF LoadRow, TypeOK
    <3>2. ResultWhole'
      BY <3>1 DEF StoreInv, ResultWhole
    <3>3. \A q \in Runs : pc'[q] # "ended" =>
             row'.brief # q /\ \A s \in Runs : loaded'[s].brief # q
      BY <3>1 DEF StoreInv
    <3>4. \A q \in Runs : pc'[q] = "writing" =>
             /\ new'[q] = Researched(loaded[q], q)'
             /\ q \notin crossed' /\ exists' => loaded'[q] = row'
      BY <3>1 DEF StoreInv, Researched
    <3> QED
      BY <3>2, <3>3, <3>4 DEF StoreInv
  <2> QED
    BY <2>1, <2>2
<1>7. ASSUME NEW r \in Runs, Commit(r) PROVE StoreInv'
  <2>1. /\ pc[r] = "writing" /\ pc'[r] = "ended"
        /\ row' = IF exists THEN FlushedRow(r) ELSE row
        /\ crossed' = crossed \cup {q \in Runs \ {r} : pc[q] = "writing"}
        /\ \A q \in Runs \ {r} : pc'[q] = pc[q]
        /\ UNCHANGED <<exists, notes, cost, loaded, new>>
    BY <1>7 DEF Commit, TypeOK
  <2>2. CASE ~exists
    BY <2>1, <2>2 DEF StoreInv, ResultWhole, Researched
  <2>3. CASE exists
    <3>1. new[r].brief = r /\ loaded[r].brief # r /\ new[r].iterations = notes[r]
      <4>1. pc[r] # "ended"
        BY <2>1
      <4>2. loaded[r].brief # r
        BY <4>1 DEF StoreInv
      <4>3. new[r] = Researched(loaded[r], r)
        BY <2>1 DEF StoreInv
      <4> QED
        BY <4>2, <4>3 DEF Researched
    <3>2. row'.brief = r
      BY <2>1, <2>3, <3>1 DEF FlushedRow, Flushed
    <3>3. r \notin crossed => row'.iterations = notes[r]
      BY <2>1, <2>3, <3>1 DEF FlushedRow, Flushed, StoreInv
    <3>4. ResultWhole'
      BY <2>1, <3>2, <3>3 DEF ResultWhole
    <3>5. \A q \in Runs : pc'[q] # "ended" =>
             row'.brief # q /\ \A s \in Runs : loaded'[s].brief # q
      BY <2>1, <3>2 DEF StoreInv
    <3>6. \A q \in Runs : pc'[q] = "writing" =>
             new'[q] = Researched(loaded[q], q)' /\ q \in crossed'
      BY <2>1 DEF StoreInv, Researched
    <3> QED
      BY <3>4, <3>5, <3>6 DEF StoreInv
  <2> QED
    BY <2>2, <2>3
<1>8. CASE Delete
  <2>1. /\ exists' = FALSE /\ row' = FreshRow /\ FreshRow.brief \notin Runs
        /\ UNCHANGED <<pc, notes, cost, loaded, new, crossed>>
    BY <1>8, NoBriefAssumption DEF Delete, FreshRow
  <2> QED
    BY <2>1 DEF StoreInv, ResultWhole, Researched
<1> QED
  BY <1>1, <1>2, <1>3, <1>4, <1>5, <1>6, <1>7, <1>8 DEF Next, Step

LEMMA StoreCorrect == Spec => []StoreInv
<1>1. Init => StoreInv
  BY NoBriefAssumption DEF Init, StoreInv, ResultWhole, FreshRow
<1> QED
  BY <1>1, TypeCorrect, StoreStep, PTL DEF Spec

\* The brief in a row and its trace are of one run, unless a run stored its result
\* between another's load and its commit (job_actions.py:222-231).
THEOREM ResultHolds == Spec => []ResultWhole
<1>1. StoreInv => ResultWhole
  BY DEF StoreInv
<1> QED
  BY <1>1, StoreCorrect, PTL

-----------------------------------------------------------------------------
(* The total of the job *)

\* The calls that callers have added up who may have stored their sum: no run adds
\* up anything once it has ended.
Stored == UNION {Calls(r, cost[r]) : r \in {q \in Runs : pc[q] = "ended"}}

\* Neither the row nor a copy of it holds more than was stored.
TotalInv ==
    /\ IsFiniteSet(Bill)
    /\ row.total <= Cardinality(Stored)
    /\ \A r \in Runs : pc[r] = "writing" => loaded[r].total <= Cardinality(Stored)

\* A run has as many calls as it has had answers.
LEMMA CallsCount ==
    ASSUME NEW r, NEW n \in Nat
    PROVE  IsFiniteSet(Calls(r, n)) /\ Cardinality(Calls(r, n)) = n
<1>1. IsFiniteSet(1..n) /\ Cardinality(1..n) = n
  BY FS_Interval
<1>2. IsFiniteSet({r}) /\ Cardinality({r}) = 1
  BY FS_Singleton
<1>3. IsFiniteSet({r} \X (1..n)) /\ Cardinality({r} \X (1..n)) = 1 * n
  BY <1>1, <1>2, FS_Product
<1> QED
  BY <1>3 DEF Calls

\* What was added up was answered.
LEMMA StoredBilled ==
    ASSUME IInv
    PROVE  Stored \subseteq Bill
<1> SUFFICES ASSUME NEW r \in Runs PROVE Calls(r, cost[r]) \subseteq Calls(r, answers[r])
  BY DEF Stored, Bill
<1>1. cost[r] \in Nat /\ answers[r] \in Nat /\ cost[r] <= answers[r]
  BY DEF IInv, TypeOK, SpentInv
<1> QED
  BY <1>1 DEF Calls

\* One more answer is one more call.
LEMMA BillGrows ==
    ASSUME TypeOK, IsFiniteSet(Bill), NEW r \in Runs,
           answers' = answers \/ answers' = [answers EXCEPT ![r] = @ + 1]
    PROVE  IsFiniteSet(Bill')
<1>1. CASE answers' = answers
  BY <1>1 DEF Bill
<1>2. CASE answers' = [answers EXCEPT ![r] = @ + 1]
  <2>1. answers \in [Runs -> Nat]
    BY DEF TypeOK
  <2>2. \A q \in Runs \ {r} : answers'[q] = answers[q]
    BY <1>2, <2>1
  <2>3. Calls(r, answers'[r]) = Calls(r, answers[r]) \cup {<<r, answers'[r]>>}
    BY <1>2, <2>1 DEF Calls
  <2>4. Bill' \subseteq Bill \cup {<<r, answers'[r]>>}
    BY <2>2, <2>3 DEF Bill
  <2>5. IsFiniteSet(Bill \cup {<<r, answers'[r]>>})
    BY FS_AddElement
  <2> QED
    BY <2>4, <2>5, FS_Subset
<1> QED
  BY <1>1, <1>2

\* A step that neither loads nor writes the row; a run that has ended stays so.
LEMMA TotalKept ==
    ASSUME IInv, IInv', TotalInv, NEW r \in Runs,
           answers' = answers \/ answers' = [answers EXCEPT ![r] = @ + 1],
           row' = row \/ row'.total = 0, UNCHANGED loaded,
           \A q \in Runs : /\ pc[q] = "ended" => pc'[q] = "ended" /\ cost'[q] = cost[q]
                           /\ pc'[q] = "writing" => pc[q] = "writing"
    PROVE  TotalInv'
<1>1. IsFiniteSet(Bill')
  BY BillGrows DEF IInv, TotalInv
<1>2. IsFiniteSet(Stored')
  <2>1. ASSUME NEW q \in Runs PROVE Calls(q, cost'[q]) \subseteq Calls(q, answers'[q])
    <3>1. cost'[q] \in Nat /\ answers'[q] \in Nat /\ cost'[q] <= answers'[q]
      BY DEF IInv, TypeOK, SpentInv
    <3> QED
      BY <3>1 DEF Calls
  <2>2. Stored' \subseteq Bill'
    BY <2>1 DEF Stored, Bill
  <2> QED
    BY <1>1, <2>2, FS_Subset
<1>3. Stored \subseteq Stored'
  BY DEF Stored
<1>4. /\ Cardinality(Stored) <= Cardinality(Stored')
      /\ Cardinality(Stored) \in Nat /\ Cardinality(Stored') \in Nat
  BY <1>2, <1>3, FS_Subset, FS_CardinalityType
<1>5. row.total \in Nat /\ \A q \in Runs : loaded[q].total \in Nat
  BY DEF IInv, TypeOK, Rows
<1>6. row'.total <= Cardinality(Stored')
  BY <1>4, <1>5 DEF TotalInv
<1>7. \A q \in Runs : pc'[q] = "writing" => loaded'[q].total <= Cardinality(Stored')
  BY <1>4, <1>5 DEF TotalInv
<1> QED
  BY <1>1, <1>6, <1>7 DEF TotalInv

LEMMA TotalStep ==
    ASSUME IInv, IInv', StoreInv, TotalInv, [Next]_vars
    PROVE  TotalInv'
<1> USE DEF history, local
<1>0. TypeOK
  BY DEF IInv
<1>1. CASE UNCHANGED vars
  BY <1>1 DEF vars, TotalInv, Bill, Stored
<1>2. ASSUME NEW r \in Runs, NEW c \in {"http", "mcp"}, Start(r, c) PROVE TotalInv'
  BY <1>0, <1>2, TotalKept DEF Start, TypeOK
<1>3. ASSUME NEW r \in Runs, NEW s \in Subjects, PlanTool(r, s) PROVE TotalInv'
  BY <1>0, <1>3, TotalKept DEF PlanTool, Answered, TypeOK
<1>4. ASSUME NEW r \in Runs, ToolReturns(r) \/ PlanFruitless(r) PROVE TotalInv'
  <2>1. /\ pc[r] \in {"planning", "searching", "fetching"}
        /\ pc'[r] \in {"planning", "synthesizing", "ended"}
        /\ \A q \in Runs \ {r} : pc'[q] = pc[q] /\ cost'[q] = cost[q]
        /\ answers' = answers \/ answers' = [answers EXCEPT ![r] = @ + 1]
        /\ UNCHANGED <<row, loaded>>
    BY <1>0, <1>4 DEF ToolReturns, PlanFruitless, Answered, Advance, ToolOutcomes, TypeOK
  <2> QED
    BY <2>1, TotalKept
<1>5. ASSUME NEW r \in Runs, NEW paid \in BOOLEAN,
             \/ ToolRaises(r) \/ Cancel(r) \/ PlanStop(r) \/ PlanUnknown(r)
             \/ ModelFails(r, paid) \/ Synthesize(r)
      PROVE  TotalInv'
  <2>1. /\ pc[r] # "ended" /\ pc'[r] # "writing"
        /\ \A q \in Runs \ {r} : pc'[q] = pc[q] /\ cost'[q] = cost[q]
        /\ UNCHANGED <<row, loaded>>
    BY <1>0, <1>5 DEF ToolRaises, Cancel, PlanStop, PlanUnknown, ModelFails, Synthesize,
                      Answered, ToolOutcomes, TypeOK
  <2>2. answers' = answers \/ answers' = [answers EXCEPT ![r] = @ + 1]
    BY <1>0, <1>5 DEF ToolRaises, Cancel, PlanStop, PlanUnknown, ModelFails, Synthesize,
                      Answered, TypeOK
  <2> QED
    BY <2>1, <2>2, TotalKept
<1>6. ASSUME NEW r \in Runs, LoadRow(r) PROVE TotalInv'
  <2>1. /\ pc[r] = "persisting" /\ \A q \in Runs \ {r} : pc'[q] = pc[q]
        /\ UNCHANGED <<row, cost, answers>>
    BY <1>0, <1>6 DEF LoadRow, TypeOK
  <2>2. CASE ~exists
    <3>1. pc'[r] = "ended" /\ UNCHANGED loaded
      BY <1>0, <1>6, <2>2 DEF LoadRow, TypeOK
    <3> QED
      BY <2>1, <3>1, TotalKept
  <2>3. CASE exists
    <3>1. /\ pc'[r] = "writing" /\ loaded'[r] = row
          /\ \A q \in Runs \ {r} : loaded'[q] = loaded[q]
      BY <1>0, <1>6, <2>3 DEF LoadRow, TypeOK
    <3>2. Bill' = Bill /\ Stored' = Stored
      BY <2>1, <3>1 DEF Bill, Stored
    <3> QED
      BY <2>1, <3>1, <3>2 DEF TotalInv
  <2> QED
    BY <2>2, <2>3
<1>7. ASSUME NEW r \in Runs, Commit(r) PROVE TotalInv'
  <2>1. /\ pc[r] = "writing" /\ pc'[r] = "ended"
        /\ row' = IF exists THEN FlushedRow(r) ELSE row
        /\ \A q \in Runs \ {r} : pc'[q] = pc[q]
        /\ UNCHANGED <<cost, answers, loaded>>
    BY <1>0, <1>7 DEF Commit, TypeOK
  <2>2. Bill' = Bill
    BY <2>1 DEF Bill
  <2>3. Stored' = Stored \cup Calls(r, cost[r]) /\ Stored \cap Calls(r, cost[r]) = {}
    BY <2>1 DEF Stored, Calls
  <2>4. IsFiniteSet(Stored) /\ Cardinality(Stored) \in Nat
    BY StoredBilled, FS_Subset, FS_CardinalityType DEF TotalInv
  <2>5. /\ cost[r] \in Nat /\ row.total \in Nat /\ new[r].total \in Nat
        /\ \A q \in Runs : loaded[q].total \in Nat
    <3>1. row \in Rows /\ loaded \in [Runs -> Rows] /\ new[r] \in Rows /\ cost[r] \in Nat
      BY <1>0 DEF TypeOK
    <3> QED
      BY <3>1 DEF Rows
  <2>6. Cardinality(Stored') = Cardinality(Stored) + cost[r]
    <3>1. IsFiniteSet(Calls(r, cost[r])) /\ Cardinality(Calls(r, cost[r])) = cost[r]
      BY <2>5, CallsCount
    <3>2. Cardinality(Stored \cup Calls(r, cost[r])) =
             Cardinality(Stored) + Cardinality(Calls(r, cost[r]))
             - Cardinality(Stored \cap Calls(r, cost[r]))
      BY <2>4, <3>1, FS_Union
    <3>3. Cardinality(Stored \cap Calls(r, cost[r])) = 0
      BY <2>3, FS_EmptySet
    <3>4. Cardinality(Stored') = Cardinality(Stored \cup Calls(r, cost[r]))
      BY <2>3
    <3> QED
      BY <2>4, <2>5, <3>1, <3>2, <3>3, <3>4
  <2>7. new[r].total = loaded[r].total + cost[r] /\ loaded[r].total <= Cardinality(Stored)
    <3>1. new[r] = Researched(loaded[r], r)
      BY <2>1 DEF StoreInv
    <3>2. loaded[r].total <= Cardinality(Stored)
      BY <2>1 DEF TotalInv
    <3> QED
      BY <3>1, <3>2 DEF Researched
  <2>8. row'.total = row.total \/ row'.total = new[r].total
    BY <2>1 DEF FlushedRow, Flushed
  <2>9. row'.total <= Cardinality(Stored')
    BY <2>4, <2>5, <2>6, <2>7, <2>8 DEF TotalInv
  <2>10. \A q \in Runs : pc'[q] = "writing" => loaded'[q].total <= Cardinality(Stored')
    BY <2>1, <2>4, <2>5, <2>6 DEF TotalInv
  <2> QED
    BY <2>2, <2>9, <2>10 DEF TotalInv
<1>8. CASE Delete
  <2>1. row'.total = 0 /\ UNCHANGED <<pc, cost, answers, loaded>>
    BY <1>8 DEF Delete, FreshRow
  <2>2. Bill' = Bill /\ Stored' = Stored
    BY <2>1 DEF Bill, Stored
  <2>3. IsFiniteSet(Stored) /\ Cardinality(Stored) \in Nat
    BY StoredBilled, FS_Subset, FS_CardinalityType DEF TotalInv
  <2> QED
    BY <2>1, <2>2, <2>3 DEF TotalInv
<1> QED
  BY <1>1, <1>2, <1>3, <1>4, <1>5, <1>6, <1>7, <1>8 DEF Next, Step

LEMMA InitTotal == Init => TotalInv
<1> SUFFICES ASSUME Init PROVE TotalInv
  OBVIOUS
<1>1. Bill = {} /\ Stored = {}
  BY DEF Init, Bill, Stored, Calls
<1> QED
  BY <1>1, FS_EmptySet DEF Init, TotalInv, FreshRow

\* However stubborn the planner, a run pays for at most MAX_ITERATIONS plans and
\* one synthesis and searches or fetches nothing twice, and the total of the job is
\* never more than all its runs have paid for (SpendSound).
THEOREM SpendBounded == Spec => []SpendSound
<1>1. IInv /\ TotalInv => SpendSound
  <2> SUFFICES ASSUME IInv, TotalInv PROVE SpendSound
    OBVIOUS
  <2>1. ASSUME NEW r \in Runs PROVE answers[r] <= MAX_ITERATIONS + 1
    <3>1. /\ answers[r] <= iteration[r] + 1 /\ answers[r] \in Nat
          /\ iteration[r] \in 1..MAX_ITERATIONS
      BY DEF IInv, TypeOK, SpentInv
    <3> QED
      BY <3>1, IterationsAssumption
  <2>2. /\ Cardinality(Stored) <= Cardinality(Bill)
        /\ Cardinality(Stored) \in Nat /\ Cardinality(Bill) \in Nat
    BY StoredBilled, FS_Subset, FS_CardinalityType DEF TotalInv
  <2>3. row.total <= Cardinality(Bill)
    BY <2>2 DEF TotalInv, IInv, TypeOK, Rows
  <2> QED
    BY <2>1, <2>3 DEF IInv, SpentInv, SpendSound
<1> QED
  BY <1>1, InvCorrect, StoreCorrect, InitTotal, TotalStep, PTL DEF Spec
=============================================================================
