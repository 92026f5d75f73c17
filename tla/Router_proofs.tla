--------------------------- MODULE Router_proofs ----------------------------
(***************************************************************************)
(* Theorems about Router: for any number of calls at once, any providers   *)
(* and any changes of the settings between the steps of a call, a letter   *)
(* has one author, the ledger has one row for each answer, and the model   *)
(* stored with a letter is the one that wrote it.                          *)
(*                                                                         *)
(* Then theorems about Settings, where the routes and the keys of the      *)
(* providers come from: for any number of requests at once a put that was  *)
(* acknowledged is what is read, what is used was in force, and a key that *)
(* has passed its test works.                                              *)
(***************************************************************************)
EXTENDS Router, Settings, FiniteSetTheorems, TLAPS

-----------------------------------------------------------------------------
(* Types, and who has sent what *)

Before == {"unstarted", "announcing", "readingDefault", "readingFallback", "cancelled"}

\* Text has come only from the attempt that runs or, at the end, that answered:
\* an attempt that has sent some is the last one.
AuthorInv ==
    \A c \in Calls :
        /\ pc[c] \in Before => sent[c] = {} /\ answer[c] = 0
        /\ pc[c] = "first" => sent[c] \subseteq {1} /\ answer[c] = 0
        /\ pc[c] = "second" => sent[c] \subseteq {2} /\ answer[c] = 0
        /\ pc[c] = "raised" => answer[c] = 0 /\ \E n \in Attempts : sent[c] \subseteq {n}
        /\ pc[c] \in {"recording", "returned"} =>
              answer[c] \in Attempts /\ sent[c] \subseteq {answer[c]}

LEMMA BaseType == \A n \in Attempts : Base[n] \in Providers
BY BaseAssumption DEF Base, Attempts

LEMMA EffectiveType ==
    ASSUME TypeOK, NEW n \in Attempts
    PROVE  Effective(n) \in Providers
BY BaseType DEF Effective, TypeOK

\* A look-up moves the call on and leaves everything it has sent alone.
LookUp(c) ==
    \/ Start(c)
    \/ \E reached \in BOOLEAN :
          Announce(c, reached) \/ ReadDefault(c, reached) \/ ReadFallback(c, reached)

LEMMA LookUpInv ==
    ASSUME TypeOK, AuthorInv, NEW c \in Calls, LookUp(c)
    PROVE  TypeOK' /\ AuthorInv'
<1> USE DEF Goto, ledger, fixed
<1>1. TypeOK'
  <2>1. CASE Start(c)
    BY <2>1 DEF Start, TypeOK, PCs
  <2>2. ASSUME NEW reached \in BOOLEAN, Announce(c, reached) PROVE TypeOK'
    <3>1. Named(reached) \in Providers
      BY EffectiveType, BaseType DEF Named, Attempts
    <3> QED
      BY <2>2, <3>1 DEF Announce, TypeOK, PCs
  <2>3. ASSUME NEW reached \in BOOLEAN, ReadDefault(c, reached) PROVE TypeOK'
    <3>1. (IF reached THEN Effective(1) ELSE Base[1]) \in Providers
      BY EffectiveType, BaseType DEF Attempts
    <3>2. route' \in [Calls -> [Attempts -> Providers]]
      BY <2>3, <3>1 DEF ReadDefault, TypeOK
    <3> QED
      BY <2>3, <3>2 DEF ReadDefault, TypeOK, PCs
  <2>4. ASSUME NEW reached \in BOOLEAN, ReadFallback(c, reached) PROVE TypeOK'
    <3>1. (IF reached THEN Effective(2) ELSE Base[2]) \in Providers
      BY EffectiveType, BaseType DEF Attempts
    <3>2. route' \in [Calls -> [Attempts -> Providers]]
      BY <2>4, <3>1 DEF ReadFallback, TypeOK
    <3> QED
      BY <2>4, <3>2 DEF ReadFallback, TypeOK, PCs
  <2> QED
    BY <2>1, <2>2, <2>3, <2>4 DEF LookUp
<1>2. /\ pc[c] \in Before /\ pc'[c] \in Before \cup {"first"}
      /\ sent' = sent /\ answer' = answer
      /\ \A d \in Calls : d # c => pc'[d] = pc[d]
  BY DEF LookUp, Start, Announce, ReadDefault, ReadFallback, TypeOK, Before
<1>3. AuthorInv'
  BY <1>2 DEF AuthorInv, Before
<1> QED
  BY <1>1, <1>3

\* An attempt sends, answers or raises.
LEMMA AttemptInv ==
    ASSUME TypeOK, AuthorInv, NEW c \in Calls, Emit(c) \/ Answer(c) \/ Raise(c)
    PROVE  TypeOK' /\ AuthorInv'
<1> USE DEF Goto, ledger, fixed, Attempts
<1>1. pc[c] \in {"first", "second"} /\ Attempt(c) \in Attempts
  BY DEF Emit, Answer, Raise, Trying, Attempt
<1>2. TypeOK'
  <2>1. CASE Emit(c)
    BY <1>1, <2>1 DEF Emit, TypeOK
  <2>2. CASE Answer(c)
    BY <1>1, <2>2 DEF Answer, TypeOK, PCs
  <2>3. CASE Raise(c)
    BY <1>1, <2>3 DEF Raise, TypeOK, PCs
  <2> QED
    BY <2>1, <2>2, <2>3
<1>3. ASSUME NEW d \in Calls, d # c
      PROVE  pc'[d] = pc[d] /\ sent'[d] = sent[d] /\ answer'[d] = answer[d]
  BY <1>3 DEF Emit, Answer, Raise, TypeOK
<1>4. CASE Emit(c)
  <2>1. pc' = pc /\ answer' = answer /\ sent'[c] = sent[c] \cup {Attempt(c)}
    BY <1>4 DEF Emit, TypeOK
  <2> QED
    BY <1>1, <1>2, <1>3, <2>1 DEF AuthorInv, Attempt, Before
<1>5. CASE Answer(c)
  <2>1. pc'[c] = "recording" /\ answer'[c] = Attempt(c) /\ sent' = sent
    BY <1>5 DEF Answer, TypeOK
  <2> QED
    BY <1>1, <1>2, <1>3, <2>1 DEF AuthorInv, Attempt, Before
<1>6. CASE Raise(c)
  <2>1. /\ answer' = answer /\ sent' = sent
        /\ pc'[c] = IF pc[c] = "first" /\ sent[c] = {} THEN "second" ELSE "raised"
    BY <1>6 DEF Raise, FailsOver, TypeOK
  <2> QED
    BY <1>1, <1>2, <1>3, <2>1 DEF AuthorInv, Before
<1> QED
  BY <1>4, <1>5, <1>6

LEMMA RecordInv ==
    ASSUME TypeOK, AuthorInv, NEW c \in Calls, NEW reached \in BOOLEAN, Record(c, reached)
    PROVE  TypeOK' /\ AuthorInv'
<1> USE DEF Goto, fixed
<1>1. UsageRow(c) \in [call : Calls, by : Providers]
  BY DEF UsageRow, Record, AuthorInv, TypeOK
<1>2. usage' \in Seq([call : Calls, by : Providers])
  <2> DEFINE R == [call : Calls, by : Providers]
             e == UsageRow(c)
  <2>1. usage' = usage \/ usage' = Append(usage, e)
    BY DEF Record
  <2>2. usage \in Seq(R) /\ e \in R
    BY <1>1 DEF TypeOK
  <2> HIDE DEF R, e
  <2>3. usage' \in Seq(R)
    BY <2>1, <2>2
  <2> QED
    BY <2>3 DEF R
<1>3. TypeOK'
  BY <1>2 DEF Record, TypeOK, PCs
<1>4. AuthorInv'
  BY DEF Record, AuthorInv, TypeOK, Before
<1> QED
  BY <1>3, <1>4

LEMMA CancelInv ==
    ASSUME TypeOK, AuthorInv, NEW c \in Calls, Cancel(c)
    PROVE  TypeOK' /\ AuthorInv'
<1> USE DEF Goto, ledger, fixed
<1>1. Base \in [Attempts -> Providers]
  BY BaseType DEF Base, Attempts
<1>2. TypeOK'
  BY <1>1 DEF Cancel, TypeOK, PCs
<1>3. AuthorInv'
  BY DEF Cancel, AuthorInv, TypeOK, Before
<1> QED
  BY <1>2, <1>3

LEMMA PutInv ==
    ASSUME TypeOK, AuthorInv, NEW n \in Attempts, NEW p \in Providers \cup {Unset},
           PutSetting(n, p)
    PROVE  TypeOK' /\ AuthorInv'
BY DEF PutSetting, TypeOK, AuthorInv, ledger, fixed

LEMMA InitInv == Init => TypeOK /\ AuthorInv
<1>1. Base \in [Attempts -> Providers]
  BY BaseType DEF Base, Attempts
<1> QED
  BY <1>1 DEF Init, TypeOK, AuthorInv, PCs, Before, Attempts

LEMMA InvStep == TypeOK /\ AuthorInv /\ [Next]_vars => TypeOK' /\ AuthorInv'
<1> SUFFICES ASSUME TypeOK, AuthorInv, [Next]_vars PROVE TypeOK' /\ AuthorInv'
  OBVIOUS
<1>1. CASE UNCHANGED vars
  BY <1>1 DEF vars, TypeOK, AuthorInv
<1>2. CASE \E c \in Calls : LookUp(c)
  BY <1>2, LookUpInv
<1>3. CASE \E c \in Calls : Emit(c) \/ Answer(c) \/ Raise(c)
  BY <1>3, AttemptInv
<1>4. CASE \E c \in Calls, reached \in BOOLEAN : Record(c, reached)
  BY <1>4, RecordInv
<1>5. CASE \E c \in Calls : Cancel(c)
  BY <1>5, CancelInv
<1>6. CASE \E n \in Attempts, p \in Providers \cup {Unset} : PutSetting(n, p)
  BY <1>6, PutInv
<1> QED
  BY <1>1, <1>2, <1>3, <1>4, <1>5, <1>6 DEF Next, Step, LookUp

LEMMA InvCorrect == Spec => [](TypeOK /\ AuthorInv)
BY InitInv, InvStep, PTL DEF Spec

\* Every state of every behaviour is typed.
THEOREM TypeCorrect == Spec => []TypeOK
BY InvCorrect, PTL

\* A letter is never patched together from two attempts (router.py:67-89).
THEOREM AuthorHolds == Spec => []OneAuthor
<1>1. TypeOK /\ AuthorInv => OneAuthor
  <2> SUFFICES ASSUME TypeOK, AuthorInv, NEW c \in Calls
               PROVE  /\ Cardinality(sent[c]) <= 1
                      /\ answer[c] # 0 => sent[c] \subseteq {answer[c]}
    BY DEF OneAuthor
  <2>1. answer[c] # 0 => sent[c] \subseteq {answer[c]}
    BY DEF TypeOK, PCs, AuthorInv, Before
  <2>2. PICK n \in Attempts : sent[c] \subseteq {n}
    <3>1. CASE pc[c] \in Before \cup {"first"}
      BY <3>1 DEF AuthorInv, Attempts
    <3>2. CASE pc[c] = "second"
      BY <3>2 DEF AuthorInv, Attempts
    <3>3. CASE pc[c] = "raised"
      BY <3>3 DEF AuthorInv
    <3>4. CASE pc[c] \in {"recording", "returned"}
      BY <3>4 DEF AuthorInv
    <3> QED
      BY <3>1, <3>2, <3>3, <3>4 DEF TypeOK, PCs, Before
  <2>3. sent[c] = {} \/ sent[c] = {n}
    BY <2>2
  <2>4. Cardinality(sent[c]) <= 1
    <3>1. Cardinality({}) = 0
      BY FS_EmptySet
    <3>2. Cardinality({n}) = 1
      BY FS_Singleton
    <3> QED
      BY <2>3, <3>1, <3>2
  <2> QED
    BY <2>1, <2>4
<1> QED
  BY <1>1, InvCorrect, PTL
-----------------------------------------------------------------------------
(* The ledger *)

\* A row is written by the step that lets its call return, so that only calls that
\* have returned have one.
LedgerInv ==
    /\ LedgerTrue
    /\ \A i \in DOMAIN usage : pc[usage[i].call] = "returned"

\* A step of a call that has not returned, and leaves the ledger alone, leaves it
\* true: no row is about that call.
LEMMA LedgerUntouched ==
    ASSUME TypeOK, LedgerInv, NEW c \in Calls,
           pc[c] # "returned", pc'[c] # "returned",
           UNCHANGED <<usage, lost, context>>,
           \A d \in Calls \ {c} :
              /\ pc'[d] = pc[d] /\ answer'[d] = answer[d] /\ route'[d] = route[d]
    PROVE  LedgerInv'
<1>1. \A i \in DOMAIN usage : usage[i].call \in Calls \ {c}
  <2> DEFINE R == [call : Calls, by : Providers]
  <2>1. usage \in Seq(R)
    BY DEF TypeOK
  <2> HIDE DEF R
  <2>2. \A i \in DOMAIN usage : usage[i] \in R
    BY <2>1
  <2> QED
    BY <2>2 DEF LedgerInv, R
<1>2. \A i \in DOMAIN usage' : pc'[usage'[i].call] = "returned"
  BY <1>1 DEF LedgerInv
<1>3. ASSUME NEW d \in Calls, pc'[d] = "returned", context'[d] = "free", d \notin lost'
      PROVE  \E i \in DOMAIN usage' : usage'[i].call = d
  BY <1>3 DEF LedgerInv, LedgerTrue
<1>4. ASSUME NEW i \in DOMAIN usage'
      PROVE  /\ answer'[usage'[i].call] # 0
             /\ usage'[i].by = route'[usage'[i].call][answer'[usage'[i].call]]
             /\ \A j \in DOMAIN usage' : usage'[j].call = usage'[i].call => i = j
  BY <1>1, <1>4 DEF LedgerInv, LedgerTrue
<1> QED
  BY <1>2, <1>3, <1>4 DEF LedgerInv, LedgerTrue

\* The INSERT of a call that has no row yet.
LEMMA LedgerRecord ==
    ASSUME TypeOK, AuthorInv, LedgerInv, NEW c \in Calls, NEW reached \in BOOLEAN,
           Record(c, reached)
    PROVE  LedgerInv'
<1> DEFINE e == UsageRow(c)
           R == [call : Calls, by : Providers]
<1>1. /\ pc[c] = "recording" /\ answer[c] \in Attempts /\ pc'[c] = "returned"
      /\ answer' = answer /\ route' = route /\ context' = context
      /\ \A d \in Calls \ {c} : pc'[d] = pc[d]
  BY DEF Record, Goto, fixed, AuthorInv, TypeOK
<1>2. e.call = c /\ e.by = route[c][answer[c]] /\ e \in R
  BY <1>1 DEF UsageRow, TypeOK
<1>3. answer[c] # 0
  BY <1>1 DEF Attempts
<1>4. usage \in Seq(R)
  BY DEF TypeOK
<1> HIDE DEF e, R
<1>5. \A i \in DOMAIN usage : usage[i].call \in Calls \ {c}
  <2>1. \A i \in DOMAIN usage : usage[i] \in R
    BY <1>4
  <2>2. \A i \in DOMAIN usage : usage[i].call \in Calls
    BY <2>1 DEF R
  <2> QED
    BY <1>1, <2>2 DEF LedgerInv
<1>6. CASE reached /\ context[c] = "free"
  <2>1. usage' = Append(usage, e) /\ lost' = lost
    BY <1>6 DEF Record, e
  <2>2. /\ DOMAIN usage' = DOMAIN usage \cup {Len(usage) + 1}
        /\ Len(usage) + 1 \notin DOMAIN usage
        /\ usage'[Len(usage) + 1] = e
        /\ \A i \in DOMAIN usage : usage'[i] = usage[i]
    BY <1>2, <1>4, <2>1
  <2>3. \A i \in DOMAIN usage' : pc'[usage'[i].call] = "returned"
    BY <1>1, <1>2, <1>5, <2>2 DEF LedgerInv
  <2>4. ASSUME NEW d \in Calls, pc'[d] = "returned", context'[d] = "free", d \notin lost'
        PROVE  \E i \in DOMAIN usage' : usage'[i].call = d
    BY <1>1, <1>2, <2>1, <2>2, <2>4 DEF LedgerInv, LedgerTrue
  <2>5. ASSUME NEW i \in DOMAIN usage'
        PROVE  /\ answer'[usage'[i].call] # 0
               /\ usage'[i].by = route'[usage'[i].call][answer'[usage'[i].call]]
               /\ \A j \in DOMAIN usage' : usage'[j].call = usage'[i].call => i = j
    <3>1. CASE i = Len(usage) + 1
      BY <1>1, <1>2, <1>3, <1>5, <2>2, <3>1
    <3>2. CASE i \in DOMAIN usage
      BY <1>1, <1>2, <1>5, <2>2, <3>2 DEF LedgerInv, LedgerTrue
    <3> QED
      BY <2>2, <2>5, <3>1, <3>2
  <2> QED
    BY <2>3, <2>4, <2>5 DEF LedgerInv, LedgerTrue
<1>7. CASE ~(reached /\ context[c] = "free")
  <2>1. usage' = usage /\ (context[c] = "free" => lost' = lost \cup {c}) /\ lost \subseteq lost'
    BY <1>7 DEF Record, TypeOK, Contexts
  <2> QED
    BY <1>1, <1>5, <2>1 DEF LedgerInv, LedgerTrue
<1> QED
  BY <1>6, <1>7

LEMMA LedgerStep ==
    ASSUME TypeOK, AuthorInv, LedgerInv, [Next]_vars
    PROVE  LedgerInv'
<1> USE DEF Goto, ledger, fixed
<1>1. CASE UNCHANGED vars
  BY <1>1 DEF vars, LedgerInv, LedgerTrue
<1>2. ASSUME NEW c \in Calls, LookUp(c) PROVE LedgerInv'
  <2>1. /\ pc[c] # "returned" /\ pc'[c] # "returned"
        /\ UNCHANGED <<usage, lost, context>>
        /\ \A d \in Calls \ {c} :
              /\ pc'[d] = pc[d] /\ answer'[d] = answer[d] /\ route'[d] = route[d]
    BY <1>2 DEF LookUp, Start, Announce, ReadDefault, ReadFallback, TypeOK
  <2> QED
    BY <2>1, LedgerUntouched
<1>3. ASSUME NEW c \in Calls, Emit(c) \/ Answer(c) \/ Raise(c) \/ Cancel(c)
      PROVE  LedgerInv'
  <2>1. /\ pc[c] # "returned" /\ pc'[c] # "returned"
        /\ UNCHANGED <<usage, lost, context>>
        /\ \A d \in Calls \ {c} :
              /\ pc'[d] = pc[d] /\ answer'[d] = answer[d] /\ route'[d] = route[d]
    BY <1>3 DEF Emit, Answer, Raise, Cancel, Trying, TypeOK
  <2> QED
    BY <2>1, LedgerUntouched
<1>4. CASE \E c \in Calls, reached \in BOOLEAN : Record(c, reached)
  BY <1>4, LedgerRecord
<1>5. CASE \E n \in Attempts, p \in Providers \cup {Unset} : PutSetting(n, p)
  BY <1>5 DEF PutSetting, LedgerInv, LedgerTrue
<1> QED
  BY <1>1, <1>2, <1>3, <1>4, <1>5 DEF Next, Step, LookUp

\* The ledger has one row for each answered call whose INSERT the database could
\* take, and the row names the provider that answered (usage.py:41-71).
THEOREM LedgerHolds == Spec => []LedgerTrue
<1>1. Init => LedgerInv
  BY DEF Init, LedgerInv, LedgerTrue
<1>2. LedgerInv => LedgerTrue
  BY DEF LedgerInv
<1> QED
  BY <1>1, <1>2, LedgerStep, InvCorrect, PTL DEF Spec

-----------------------------------------------------------------------------
(* The refinement of CallLedger *)

\* What the mapping reads of call d does not change.
Still(d) == /\ pc'[d] = pc[d] /\ sent'[d] = sent[d]
            /\ answer'[d] = answer[d] /\ route'[d] = route[d]

LEMMA StillStage ==
    ASSUME NEW d, Still(d)
    PROVE  Stage(d)' = Stage(d) /\ HeardFrom(d)' = HeardFrom(d)
BY DEF Still, Stage, HeardFrom, Over

\* An open call has heard of nobody, or of the provider of the attempt that runs.
LEMMA HeardFacts ==
    ASSUME TypeOK, AuthorInv, NEW c \in Calls
    PROVE  /\ pc[c] \in Before => HeardFrom(c) = {}
           /\ pc[c] = "first" =>
                 HeardFrom(c) = IF sent[c] = {} THEN {} ELSE {route[c][1]}
           /\ pc[c] = "second" =>
                 HeardFrom(c) = IF sent[c] = {} THEN {} ELSE {route[c][2]}
           /\ pc[c] = "recording" => HeardFrom(c) = {route[c][answer[c]]}
           /\ pc[c] \in {"returned", "raised", "cancelled"} => HeardFrom(c) = {}
<1>1. CASE pc[c] \in Before
  <2>1. sent[c] \cup ({answer[c]} \ {0}) = {}
    BY <1>1 DEF AuthorInv
  <2>2. HeardFrom(c) = {}
    BY <2>1 DEF HeardFrom
  <2> QED
    BY <1>1, <2>2 DEF Before
<1>2. CASE pc[c] = "first"
  BY <1>2 DEF HeardFrom, Over, AuthorInv
<1>3. CASE pc[c] = "second"
  BY <1>3 DEF HeardFrom, Over, AuthorInv
<1>4. CASE pc[c] = "recording"
  <2>1. /\ answer[c] \in Attempts /\ answer[c] # 0
        /\ sent[c] \cup ({answer[c]} \ {0}) = {answer[c]}
    BY <1>4 DEF AuthorInv, Attempts
  <2>2. HeardFrom(c) = {route[c][answer[c]]}
    BY <1>4, <2>1 DEF HeardFrom, Over
  <2> QED
    BY <1>4, <2>2 DEF Before
<1>5. CASE pc[c] \in {"returned", "raised", "cancelled"}
  BY <1>5 DEF HeardFrom, Over
<1> QED
  BY <1>1, <1>2, <1>3, <1>4, <1>5 DEF Before

\* A step of call c alone is seen in the two functions of the mapping at c.
LEMMA SeenAt ==
    ASSUME NEW c \in Calls, \A d \in Calls \ {c} : Still(d)
    PROVE  /\ CallStages' = [CallStages EXCEPT ![c] = Stage(c)']
           /\ CallAuthors' = [CallAuthors EXCEPT ![c] = HeardFrom(c)']
<1>1. \A d \in Calls \ {c} : Stage(d)' = Stage(d) /\ HeardFrom(d)' = HeardFrom(d)
  BY StillStage
<1>2. CallStages' = [CallStages EXCEPT ![c] = Stage(c)']
  BY <1>1 DEF CallStages
<1>3. CallAuthors' = [CallAuthors EXCEPT ![c] = HeardFrom(c)']
  BY <1>1 DEF CallAuthors
<1> QED
  BY <1>2, <1>3

\* A look-up, and a step that changes nothing of the mapping, is a stutter.
LEMMA UnseenStep ==
    ASSUME NEW c \in Calls, \A d \in Calls \ {c} : Still(d), usage' = usage,
           Stage(c)' = Stage(c), HeardFrom(c)' = HeardFrom(c)
    PROVE  UNCHANGED <<CallStages, CallAuthors, usage>>
<1>1. /\ CallStages' = [CallStages EXCEPT ![c] = Stage(c)]
      /\ CallAuthors' = [CallAuthors EXCEPT ![c] = HeardFrom(c)]
  BY SeenAt
<1> QED
  BY <1>1 DEF CallStages, CallAuthors

\* Each step of a call, and each change of the settings, is a step of the ledger.
LEMMA LedgerMaps ==
    ASSUME TypeOK, AuthorInv, TypeOK', AuthorInv', [Next]_vars
    PROVE  [Ledger!Next]_<<CallStages, CallAuthors, usage>>
<1> DEFINE Mapped == [Ledger!Next]_<<CallStages, CallAuthors, usage>>
<1> USE DEF Goto, ledger, fixed
<1>1. CASE UNCHANGED vars \/ \E n \in Attempts, p \in Providers \cup {Unset} : PutSetting(n, p)
  <2>1. UNCHANGED <<pc, route, sent, answer, usage>>
    BY <1>1 DEF vars, PutSetting
  <2>2. \A d \in Calls : Still(d)
    BY <2>1 DEF Still
  <2>3. \A d \in Calls : Stage(d)' = Stage(d) /\ HeardFrom(d)' = HeardFrom(d)
    BY <2>2, StillStage
  <2> QED
    BY <2>1, <2>3 DEF CallStages, CallAuthors
<1>2. ASSUME NEW c \in Calls, LookUp(c) PROVE Mapped
  <2>1. /\ pc[c] \in Before \ {"cancelled"}
        /\ pc'[c] \in (Before \ {"cancelled"}) \cup {"first"}
        /\ sent' = sent /\ answer' = answer /\ usage' = usage
        /\ \A d \in Calls \ {c} : Still(d)
    BY <1>2 DEF LookUp, Start, Announce, ReadDefault, ReadFallback, TypeOK, Before, Still
  <2>2. Stage(c) = "open" /\ Stage(c)' = "open"
    BY <2>1 DEF Stage, Over, Before
  <2>3. HeardFrom(c) = {} /\ HeardFrom(c)' = {}
    BY <2>1 DEF HeardFrom, AuthorInv
  <2> QED
    BY <2>1, <2>2, <2>3, UnseenStep
<1>3. ASSUME NEW c \in Calls, Emit(c) PROVE Mapped
  <2>1. /\ pc' = pc /\ answer' = answer /\ route' = route /\ usage' = usage
        /\ sent'[c] = sent[c] \cup {Attempt(c)} /\ pc[c] \in {"first", "second"}
        /\ \A d \in Calls \ {c} : Still(d)
    BY <1>3 DEF Emit, Trying, TypeOK, Still
  <2> DEFINE p == route[c][Attempt(c)]
  <2>2. p \in Providers
    BY <2>1 DEF TypeOK, Attempt, Attempts
  <2>3. Stage(c) = "open" /\ Stage(c)' = "open"
    BY <2>1 DEF Stage, Over
  <2>4. HeardFrom(c) = IF sent[c] = {} THEN {} ELSE {p}
    BY <2>1, HeardFacts DEF Attempt
  <2>5. HeardFrom(c)' = {p}
    BY <2>1 DEF HeardFrom, Over, Attempt, AuthorInv
  <2>6. CASE sent[c] = {}
    <3>1. Ledger!Speak(c, p)
      <4>1. CallStages' = CallStages
        BY <2>1, <2>3, SeenAt DEF CallStages
      <4>2. CallAuthors' = [CallAuthors EXCEPT ![c] = {p}]
        BY <2>1, <2>5, SeenAt
      <4>3. CallStages[c] = "open" /\ CallAuthors[c] = {}
        BY <2>3, <2>4, <2>6 DEF CallStages, CallAuthors
      <4> QED
        BY <2>1, <4>1, <4>2, <4>3 DEF Ledger!Speak
    <3> QED
      BY <2>2, <3>1 DEF Ledger!Next
  <2>7. CASE sent[c] # {}
    BY <2>1, <2>3, <2>4, <2>5, <2>7, UnseenStep
  <2> QED
    BY <2>6, <2>7
<1>4. ASSUME NEW c \in Calls, Answer(c) PROVE Mapped
  <2>1. /\ pc'[c] = "recording" /\ answer'[c] = Attempt(c) /\ route' = route
        /\ sent' = sent /\ usage' = usage /\ pc[c] \in {"first", "second"}
        /\ \A d \in Calls \ {c} : Still(d)
    BY <1>4 DEF Answer, Trying, TypeOK, Still
  <2> DEFINE p == route[c][Attempt(c)]
  <2>2. p \in Providers
    BY <2>1 DEF TypeOK, Attempt, Attempts
  <2>3. Stage(c) = "open" /\ Stage(c)' = "answered"
    BY <2>1 DEF Stage, Over
  <2>4. HeardFrom(c) \subseteq {p}
    BY <2>1, HeardFacts DEF Attempt
  <2>5. HeardFrom(c)' = {p}
    BY <2>1 DEF HeardFrom, Over, Attempt, AuthorInv, Attempts
  <2>6. Ledger!Answer(c, p)
    <3>1. CallStages' = [CallStages EXCEPT ![c] = "answered"]
      BY <2>1, <2>3, SeenAt
    <3>2. CallAuthors' = [CallAuthors EXCEPT ![c] = {p}]
      BY <2>1, <2>5, SeenAt
    <3>3. CallStages[c] = "open" /\ CallAuthors[c] \subseteq {p}
      BY <2>3, <2>4 DEF CallStages, CallAuthors
    <3> QED
      BY <2>1, <3>1, <3>2, <3>3 DEF Ledger!Answer
  <2> QED
    BY <2>2, <2>6 DEF Ledger!Next
<1>5. ASSUME NEW c \in Calls, Stage(c) # "closed", Over(c)', usage' = usage,
             \A d \in Calls \ {c} : Still(d)
      PROVE  Mapped
  <2>1. Stage(c)' = "closed" /\ HeardFrom(c)' = {}
    BY <1>5 DEF Stage, HeardFrom
  <2>2. /\ CallStages' = [CallStages EXCEPT ![c] = "closed"]
        /\ CallAuthors' = [CallAuthors EXCEPT ![c] = {}]
    BY <1>5, <2>1, SeenAt
  <2>3. CallStages[c] # "closed"
    BY <1>5 DEF CallStages
  <2> QED
    BY <1>5, <2>2, <2>3 DEF Ledger!Next, Ledger!Drop, Ledger!Close
<1>6. ASSUME NEW c \in Calls, Raise(c) PROVE Mapped
  <2>1. /\ answer' = answer /\ sent' = sent /\ route' = route /\ usage' = usage
        /\ pc[c] \in {"first", "second"}
        /\ pc'[c] = IF FailsOver(c) THEN "second" ELSE "raised"
        /\ \A d \in Calls \ {c} : Still(d)
    BY <1>6 DEF Raise, Trying, TypeOK, Still
  <2>2. CASE FailsOver(c)
    <3>1. Stage(c)' = Stage(c)
      BY <2>1, <2>2 DEF Stage, Over
    <3>2. HeardFrom(c)' = HeardFrom(c)
      BY <2>1, <2>2 DEF HeardFrom, Over
    <3> QED
      BY <2>1, <3>1, <3>2, UnseenStep
  <2>3. CASE ~FailsOver(c)
    <3>1. Stage(c) # "closed" /\ Over(c)'
      BY <2>1, <2>3 DEF Stage, Over
    <3> QED
      BY <2>1, <3>1, <1>5
  <2> QED
    BY <2>2, <2>3
<1>7. ASSUME NEW c \in Calls, Cancel(c) PROVE Mapped
  <2>1. /\ pc[c] \in PCs \ {"returned", "raised", "cancelled"} /\ pc'[c] = "cancelled"
        /\ usage' = usage /\ \A d \in Calls \ {c} : Still(d)
    BY <1>7 DEF Cancel, TypeOK, Still
  <2>2. Stage(c) # "closed" /\ Over(c)'
    BY <2>1 DEF Stage, Over
  <2> QED
    BY <2>1, <2>2, <1>5
<1>8. ASSUME NEW c \in Calls, NEW reached \in BOOLEAN, Record(c, reached) PROVE Mapped
  <2>1. /\ pc[c] = "recording" /\ pc'[c] = "returned"
        /\ \A d \in Calls \ {c} : Still(d)
    BY <1>8 DEF Record, TypeOK, Still
  <2>2. Stage(c) = "answered" /\ Over(c)'
    BY <2>1 DEF Stage, Over
  <2>3. CASE usage' = usage
    BY <2>1, <2>2, <2>3, <1>5
  <2>4. CASE usage' = Append(usage, UsageRow(c))
    <3> DEFINE p == route[c][answer[c]]
    <3>1. CallStages[c] = "answered" /\ CallAuthors[c] = {p}
      BY <2>1, <2>2, HeardFacts DEF CallStages, CallAuthors
    <3>2. Stage(c)' = "closed" /\ HeardFrom(c)' = {}
      BY <2>2 DEF Stage, HeardFrom
    <3>3. /\ CallStages' = [CallStages EXCEPT ![c] = "closed"]
          /\ CallAuthors' = [CallAuthors EXCEPT ![c] = {}]
      BY <2>1, <3>2, SeenAt
    <3>4. p \in CallAuthors[c] /\ usage' = Append(usage, [call |-> c, by |-> p])
      BY <2>4, <3>1 DEF UsageRow
    <3>5. Ledger!Enter(c)
      BY <3>1, <3>3, <3>4 DEF Ledger!Enter, Ledger!Close
    <3> QED
      BY <3>5 DEF Ledger!Next
  <2> QED
    BY <1>8, <2>3, <2>4 DEF Record
<1> QED
  BY <1>1, <1>2, <1>3, <1>4, <1>6, <1>7, <1>8 DEF Next, Step, LookUp

LEMMA LedgerStart == Init => Ledger!Init
<1> SUFFICES ASSUME Init PROVE Ledger!Init
  OBVIOUS
<1>1. \A c \in Calls : Stage(c) = "open" /\ HeardFrom(c) = {}
  BY DEF Init, Stage, HeardFrom, Over
<1>2. usage = <<>>
  BY DEF Init
<1>3. CallStages = [c \in Calls |-> "open"]
  BY <1>1 DEF CallStages
<1>4. CallAuthors = [c \in Calls |-> {}]
  BY <1>1 DEF CallAuthors
<1> QED
  BY <1>2, <1>3, <1>4 DEF Ledger!Init

\* The router implements CallLedger (ImplementsLedger): under every schedule of
\* calls, settings and failures a call has one author, and its row, written once
\* and never changed, is that author's (router.py:67-111, usage.py:41-71).
THEOREM LedgerRefined == Spec => ImplementsLedger
<1>1. TypeOK /\ AuthorInv /\ TypeOK' /\ AuthorInv' /\ [Next]_vars
          => [Ledger!Next]_<<CallStages, CallAuthors, usage>>
  BY LedgerMaps
<1> QED
  BY <1>1, LedgerStart, InvCorrect, PTL DEF Spec, ImplementsLedger, Ledger!Spec, Ledger!vars

-----------------------------------------------------------------------------
(* The model stored with a letter *)

\* From its announcement on, the provider a call has named is the default, first
\* the one in the settings and then the one it has read there.
NamedInv ==
    \A c \in Calls : kind[c] = "stream" /\ c \notin shifted =>
        /\ pc[c] = "readingDefault" => named[c] = Effective(1)
        /\ pc[c] \in {"readingFallback", "first", "second", "recording", "returned"} =>
              named[c] = route[c][1]

LEMMA NamedStep ==
    ASSUME TypeOK, NamedInv, [Next]_vars
    PROVE  NamedInv'
<1> USE DEF Goto, ledger, fixed
<1>1. CASE UNCHANGED vars
  BY <1>1 DEF vars, NamedInv, Effective
<1>2. ASSUME NEW c \in Calls, Start(c) PROVE NamedInv'
  BY <1>2 DEF Start, TypeOK, NamedInv, Effective
<1>3. ASSUME NEW c \in Calls, NEW reached \in BOOLEAN, Announce(c, reached) PROVE NamedInv'
  <2>1. /\ named'[c] = Named(reached) /\ pc'[c] = "readingDefault"
        /\ (~reached => c \in shifted')
        /\ \A d \in Calls \ {c} : pc'[d] = pc[d] /\ named'[d] = named[d]
        /\ shifted \subseteq shifted' /\ kind' = kind /\ route' = route
        /\ override' = override
    BY <1>3 DEF Announce, TypeOK
  <2>2. Effective(1)' = Effective(1)
    BY <2>1 DEF Effective
  <2> QED
    BY <2>1, <2>2 DEF NamedInv, Named
<1>4. ASSUME NEW c \in Calls, NEW reached \in BOOLEAN, ReadDefault(c, reached)
      PROVE  NamedInv'
  <2>1. /\ pc[c] = "readingDefault" /\ pc'[c] \in {"readingFallback", "first"}
        /\ (reached => route'[c][1] = Effective(1))
        /\ (~reached /\ kind[c] = "stream" => c \in shifted')
        /\ \A d \in Calls \ {c} : pc'[d] = pc[d] /\ route'[d] = route[d]
        /\ shifted \subseteq shifted' /\ kind' = kind /\ named' = named
        /\ override' = override
    BY <1>4 DEF ReadDefault, TypeOK, Kinds, Attempts
  <2>2. Effective(1)' = Effective(1)
    BY <2>1 DEF Effective
  <2> QED
    BY <2>1, <2>2 DEF NamedInv
<1>5. ASSUME NEW c \in Calls, NEW reached \in BOOLEAN, ReadFallback(c, reached)
      PROVE  NamedInv'
  <2>1. /\ pc[c] = "readingFallback" /\ pc'[c] = "first"
        /\ route'[c][1] = route[c][1]
        /\ \A d \in Calls \ {c} : pc'[d] = pc[d] /\ route'[d] = route[d]
        /\ shifted' = shifted /\ kind' = kind /\ named' = named /\ override' = override
    BY <1>5 DEF ReadFallback, TypeOK, Attempts
  <2>2. Effective(1)' = Effective(1)
    BY <2>1 DEF Effective
  <2> QED
    BY <2>1, <2>2 DEF NamedInv
<1>6. ASSUME NEW c \in Calls, NEW reached \in BOOLEAN,
             Emit(c) \/ Answer(c) \/ Raise(c) \/ Record(c, reached)
      PROVE  NamedInv'
  <2>1. /\ pc[c] \in {"first", "second", "recording"} /\ pc'[c] # "readingDefault"
        /\ \A d \in Calls \ {c} : pc'[d] = pc[d]
        /\ shifted' = shifted /\ kind' = kind /\ named' = named /\ override' = override
        /\ route' = route
    BY <1>6 DEF Emit, Answer, Raise, Record, Trying, TypeOK
  <2>2. Effective(1)' = Effective(1)
    BY <2>1 DEF Effective
  <2> QED
    BY <2>1, <2>2 DEF NamedInv
<1>7. ASSUME NEW c \in Calls, Cancel(c) PROVE NamedInv'
  <2>1. /\ pc'[c] = "cancelled"
        /\ \A d \in Calls \ {c} :
              /\ pc'[d] = pc[d] /\ named'[d] = named[d] /\ route'[d] = route[d]
              /\ d \in shifted' <=> d \in shifted
        /\ kind' = kind /\ override' = override
    BY <1>7 DEF Cancel, TypeOK
  <2>2. Effective(1)' = Effective(1)
    BY <2>1 DEF Effective
  <2> QED
    BY <2>1, <2>2 DEF NamedInv
<1>8. ASSUME NEW n \in Attempts, NEW p \in Providers \cup {Unset}, PutSetting(n, p)
      PROVE  NamedInv'
  <2>1. CASE n = 1
    BY <1>8, <2>1 DEF PutSetting, NamedInv
  <2>2. CASE n = 2
    <3>1. Effective(1)' = Effective(1)
      BY <1>8, <2>2 DEF PutSetting, Effective, TypeOK, Attempts
    <3> QED
      BY <1>8, <2>2, <3>1 DEF PutSetting, NamedInv
  <2> QED
    BY <2>1, <2>2 DEF Attempts
<1> QED
  BY <1>1, <1>2, <1>3, <1>4, <1>5, <1>6, <1>7, <1>8 DEF Next, Step

\* The model stored with a letter is the one that wrote it, but for the fallback
\* and for a default that has changed in between (job_actions.py:348-352, 407).
THEOREM NameHolds == Spec => []ModelNamed
<1>1. Init => NamedInv
  BY DEF Init, NamedInv
<1>2. TypeOK /\ AuthorInv /\ NamedInv => ModelNamed
  BY DEF TypeOK, PCs, AuthorInv, NamedInv, ModelNamed, Before
<1> QED
  BY <1>1, <1>2, NamedStep, InvCorrect, PTL DEF Spec

-----------------------------------------------------------------------------
(* The settings: keys, values and types *)

\* Every service has one key or two, and a provider has one.
LEMMA KeysFacts ==
    ASSUME service \in AllServices
    PROVE  /\ Len(Names) \in {1, 2} /\ Keys = 1..Len(Names) /\ 1 \in Keys
           /\ service \in ModelServices => Keys = {1} /\ Len(Names) = 1
<1>1. \/ Len(Names) = 1 /\ Keys = {1}
      \/ Len(Names) = 2 /\ Keys = {1, 2} /\ service \notin ModelServices
  BY DEF AllServices, ModelServices, EnvOnly, Names, Keys
<1> QED
  BY <1>1

Places == {"idle", "putting", "reading", "acting", "calling"}
Doings == {"none", "put", "tree", "test", "use"}
Busy == {"reading", "acting", "calling"}

\* How far a request is, and what it has read by then.
Progress(q) ==
    /\ at[q] = "idle" => op[q] = "none"
    /\ at[q] = "putting" =>
          /\ op[q] = "put" /\ asked[q].key \in Keys
          /\ asked[q].value = None => present[q]
          /\ service \in Defaulted => asked[q].value \in Sound \cup {None}
    /\ at[q] \in {"idle", "putting"} => seen[q] = <<>>
    /\ at[q] = "reading" => Len(seen[q]) < Len(Names)
    /\ at[q] = "acting" => Len(seen[q]) = Len(Names)
    /\ at[q] = "calling" => Len(used[q]) = Len(Names)
    /\ at[q] \in Busy => op[q] \in {"tree", "test", "use"}
    /\ op[q] = "test" => service \in Tested
    /\ outage[q] => op[q] = "use"
    /\ at[q] = "reading" => ~outage[q]

TypeInv == SettingsTypeOK /\ \A q \in Requests : Progress(q)

LocalTypes ==
    /\ at \in [Requests -> Places]
    /\ op \in [Requests -> Doings]
    /\ asked \in [Requests -> [key : Keys \cup {0}, value : Known]]
    /\ present \in [Requests -> BOOLEAN]
    /\ seen \in [Requests -> Seq(Known)]
    /\ used \in [Requests -> Seq(Known)]
    /\ outage \in [Requests -> BOOLEAN]

StoreTypes ==
    /\ service \in Services
    /\ env \in [Keys -> Known]
    /\ rows \in [Keys -> Known \cup {Garbled}]
    /\ service \in Defaulted =>
          \A k \in Keys : /\ env[k] \in Sound
                          /\ rows[k] \in Sound \cup {None, Garbled}
    /\ client \in Known

HistoryTypes ==
    /\ said \in [Keys -> Known]
    /\ inforce \in [Requests -> [first : [Keys -> Known], last : [Keys -> Known]]]
    /\ late \subseteq Requests
    /\ keptOld \in BOOLEAN /\ proven \in BOOLEAN

LEMMA TypesSplit == SettingsTypeOK <=> StoreTypes /\ LocalTypes /\ HistoryTypes
BY DEF SettingsTypeOK, StoreTypes, LocalTypes, HistoryTypes, Places, Doings

\* The value read is the one in force.
LEMMA EffectiveFacts ==
    ASSUME StoreTypes, NEW k \in Keys
    PROVE  /\ EffectiveSecret(k) = InForce(env, rows, k) /\ EffectiveSecret(k) \in Known
BY MarksAssumption, SoundAssumption DEF StoreTypes, EffectiveSecret, Get, InForce, Known

\* What is in force is a value for every key, and depends on the settings alone.
LEMMA ConfigurationFacts ==
    /\ StoreTypes => Configuration(env, rows) \in [Keys -> Known]
    /\ \A k \in Keys : Configuration(env, rows)[k] = InForce(env, rows, k)
<1>1. StoreTypes => \A k \in Keys : InForce(env, rows, k) \in Known
  BY EffectiveFacts
<1> QED
  BY <1>1 DEF Configuration

\* The keys are those of the service.
LEMMA SameKeys ==
    ASSUME service' = service
    PROVE  Names' = Names /\ Keys' = Keys
BY DEF Names, Keys

\* What the requests but q have is left as it is.
Apart(q) ==
    \A p \in Requests \ {q} :
        /\ at'[p] = at[p] /\ op'[p] = op[p] /\ asked'[p] = asked[p]
        /\ present'[p] = present[p] /\ seen'[p] = seen[p] /\ used'[p] = used[p]
        /\ outage'[p] = outage[p]

LEMMA ApartProgress ==
    ASSUME \A p \in Requests : Progress(p), NEW q \in Requests, Apart(q),
           service' = service, Progress(q)'
    PROVE  \A p \in Requests : Progress(p)'
<1>1. Keys' = Keys /\ Names' = Names
  BY SameKeys
<1> SUFFICES ASSUME NEW p \in Requests \ {q} PROVE Progress(p)'
  OBVIOUS
<1>2. Progress(p)
  OBVIOUS
<1>3. /\ at'[p] = at[p] /\ op'[p] = op[p] /\ asked'[p] = asked[p]
      /\ present'[p] = present[p] /\ seen'[p] = seen[p] /\ used'[p] = used[p]
      /\ outage'[p] = outage[p]
  BY DEF Apart
<1> QED
  BY <1>1, <1>2, <1>3 DEF Progress

\* A request that leaves is at rest.
LEMMA LeaveFacts ==
    ASSUME LocalTypes, NEW q \in Requests, Leave(q), service' = service
    PROVE  LocalTypes' /\ Apart(q) /\ Progress(q)' /\ at'[q] = "idle" /\ op'[q] = "none"
           /\ outage'[q] = FALSE
<1>1. Keys' = Keys /\ Names' = Names /\ Known' = Known
  BY SameKeys DEF Known
<1>2. NoPut \in [key : Keys \cup {0}, value : Known] /\ <<>> \in Seq(Known)
  BY DEF NoPut, Known
<1>3. LocalTypes'
  BY <1>1, <1>2 DEF LocalTypes, Leave, Places, Doings
<1>4. Apart(q)
  BY DEF LocalTypes, Leave, Apart
<1>5. /\ at'[q] = "idle" /\ op'[q] = "none" /\ seen'[q] = <<>> /\ outage'[q] = FALSE
  BY DEF LocalTypes, Leave
<1>6. Progress(q)'
  BY <1>5 DEF Progress, Busy
<1> QED
  BY <1>3, <1>4, <1>5, <1>6

LEMMA TypeStep ==
    ASSUME TypeInv, [SettingsNext]_settingsVars
    PROVE  TypeInv'
<1>0. /\ StoreTypes /\ LocalTypes /\ HistoryTypes /\ \A q \in Requests : Progress(q)
      /\ service \in AllServices
  BY TypesSplit, ServicesAssumption DEF TypeInv, StoreTypes
<1>1. CASE UNCHANGED settingsVars
  BY <1>1 DEF settingsVars, store, local, history, TypeInv, SettingsTypeOK, Progress, Keys,
              Names, Tested
<1>2. Len(Names) \in {1, 2} /\ Keys = 1..Len(Names) /\ 1 \in Keys
      /\ (service \in ModelServices => Keys = {1} /\ Len(Names) = 1)
  BY <1>0, KeysFacts
<1>3. None \in Known
  BY DEF Known
\* What is left to show where the service stays.
<1>4. ASSUME service' = service, StoreTypes', LocalTypes', HistoryTypes',
             \A p \in Requests : Progress(p)'
      PROVE  TypeInv'
  <2>1. Keys' = Keys /\ Known' = Known
    BY <1>4, SameKeys DEF Known
  <2>2. SettingsTypeOK'
    BY <1>4, <2>1 DEF SettingsTypeOK, StoreTypes, LocalTypes, HistoryTypes, Places, Doings
  <2> QED
    BY <1>4, <2>2 DEF TypeInv
<1>5. ASSUME UNCHANGED <<service, env, rows>>, client' \in Known
      PROVE  StoreTypes'
  BY <1>0, <1>5, SameKeys DEF StoreTypes, Known
<1>6. ASSUME service' = service, said' \in [Keys -> Known],
             inforce' \in [Requests -> [first : [Keys -> Known], last : [Keys -> Known]]],
             late' \subseteq Requests, keptOld' \in BOOLEAN, proven' \in BOOLEAN
      PROVE  HistoryTypes'
  BY <1>6, SameKeys DEF HistoryTypes, Known
<1>7. ASSUME NEW q \in Requests, NEW k \in Keys, NEW v \in Known, PutLoad(q, k, v)
      PROVE  TypeInv'
  <2>1. /\ UNCHANGED store /\ service' = service
        /\ UNCHANGED <<inforce, late, keptOld, proven>>
    BY <1>7 DEF PutLoad, store
  <2>2. StoreTypes' /\ Keys' = Keys /\ Names' = Names /\ Known' = Known
    BY <1>0, <1>5, <2>1, SameKeys DEF store, StoreTypes, Known
  <2>3. CASE v = None /\ rows[k] = None
    <3>1. /\ said' \in [Keys -> Known]
          /\ UNCHANGED <<at, op, asked, present, seen, used, outage>>
      BY <1>0, <1>3, <1>7, <2>3 DEF PutLoad, HistoryTypes, local
    <3>2. LocalTypes'
      BY <1>0, <2>2, <3>1 DEF LocalTypes
    <3>3. HistoryTypes'
      BY <1>0, <1>6, <2>1, <3>1 DEF HistoryTypes
    <3>4. \A p \in Requests : Progress(p)'
      BY <1>0, <2>1, <2>2, <3>1 DEF Progress, Tested
    <3> QED
      BY <1>4, <2>1, <2>2, <3>2, <3>3, <3>4
  <2>4. CASE ~(v = None /\ rows[k] = None)
    <3>1. /\ at[q] = "idle" /\ Valid(v)
          /\ at' = [at EXCEPT ![q] = "putting"]
          /\ op' = [op EXCEPT ![q] = "put"]
          /\ asked' = [asked EXCEPT ![q] = [key |-> k, value |-> v]]
          /\ present' = [present EXCEPT ![q] = rows[k] # None]
          /\ UNCHANGED <<seen, used, said, outage>>
      BY <1>7, <2>4 DEF PutLoad
    <3>2. /\ (rows[k] # None) \in BOOLEAN
          /\ [key |-> k, value |-> v] \in [key : Keys \cup {0}, value : Known]
      OBVIOUS
    <3>3. LocalTypes' /\ Apart(q)
      BY <1>0, <2>2, <3>1, <3>2 DEF LocalTypes, Places, Doings, Apart
    <3>4. /\ at'[q] = "putting" /\ op'[q] = "put" /\ asked'[q].key = k /\ asked'[q].value = v
          /\ present'[q] = (rows[k] # None) /\ seen'[q] = seen[q] /\ outage'[q] = outage[q]
      BY <1>0, <3>1 DEF LocalTypes
    <3>5. /\ seen[q] = <<>> /\ ~outage[q]
      BY <1>0, <3>1 DEF Progress
    <3>6. service \in Defaulted => v \in Sound \cup {None}
      BY <3>1 DEF Valid
    <3>7. Progress(q)'
      BY <2>1, <2>2, <2>4, <3>4, <3>5, <3>6 DEF Progress, Busy
    <3> QED
      BY <1>0, <1>4, <1>6, <2>1, <2>2, <3>1, <3>3, <3>7, ApartProgress DEF HistoryTypes
  <2> QED
    BY <2>3, <2>4
<1>8. ASSUME NEW q \in Requests, PutCommit(q) PROVE TypeInv'
  <2>1. /\ at[q] = "putting" /\ Leave(q) /\ UNCHANGED <<service, env, client>>
        /\ rows' = rows \/ rows' = [rows EXCEPT ![asked[q].key] = asked[q].value]
        /\ said' = said \/ said' = [said EXCEPT ![asked[q].key] = asked[q].value]
    BY <1>8 DEF PutCommit
  <2>2. /\ asked[q].key \in Keys /\ asked[q].value \in Known
        /\ service \in Defaulted => asked[q].value \in Sound \cup {None}
    BY <1>0, <2>1 DEF Progress, LocalTypes
  <2>3. Keys' = Keys /\ Known' = Known
    BY <2>1, SameKeys DEF Known
  <2>4. StoreTypes'
    BY <1>0, <2>1, <2>2, <2>3 DEF StoreTypes
  <2>5. Configuration(env, rows') \in [Keys -> Known]
    <3>1. \A k \in Keys : InForce(env, rows', k) \in Known
      BY <2>1, <2>3, <2>4 DEF StoreTypes, InForce, Known
    <3> QED
      BY <3>1 DEF Configuration
  <2>6. inforce' \in [Requests -> [first : [Keys -> Known], last : [Keys -> Known]]]
    BY <1>0, <1>8, <2>5 DEF PutCommit, Track, HistoryTypes
  <2>7. /\ late' \subseteq Requests /\ keptOld' \in BOOLEAN /\ proven' \in BOOLEAN
        /\ said' \in [Keys -> Known]
    <3>1. said' \in [Keys -> Known]
      BY <1>0, <2>1, <2>2 DEF HistoryTypes
    <3>2. Track
      BY <1>8 DEF PutCommit
    <3>3. CASE rows' = rows
      <4>1. UNCHANGED <<late, keptOld, proven>>
        BY <3>2, <3>3 DEF Track
      <4> QED
        BY <1>0, <3>1, <4>1 DEF HistoryTypes
    <3>4. CASE rows' # rows
      <4>1. /\ late' = late \cup {p \in Requests : Committed(p)}
            /\ keptOld' = (service \in ModelServices) /\ proven' = FALSE
        BY <3>2, <3>4 DEF Track
      <4>2. late' \subseteq Requests
        BY <1>0, <4>1 DEF HistoryTypes
      <4>3. keptOld' \in BOOLEAN
        <5>1. (service \in ModelServices) = TRUE \/ (service \in ModelServices) = FALSE
          OBVIOUS
        <5> QED
          BY <4>1, <5>1
      <4> QED
        BY <3>1, <4>1, <4>2, <4>3
    <3> QED
      BY <3>3, <3>4
  <2>8. HistoryTypes'
    BY <1>6, <2>1, <2>6, <2>7
  <2> QED
    BY <1>0, <1>4, <2>1, <2>4, <2>8, LeaveFacts, ApartProgress
<1>9. ASSUME NEW q \in Requests, NEW o \in {"tree", "test", "use"}, StartRead(q, o)
      PROVE  TypeInv'
  <2>1. /\ at[q] = "idle" /\ service' = service /\ UNCHANGED store
        /\ UNCHANGED <<asked, present, seen, outage, said, late, keptOld, proven>>
        /\ op' = [op EXCEPT ![q] = o]
        /\ inforce' = [inforce EXCEPT ![q] = [first |-> Configuration(env, rows),
                                              last |-> Configuration(env, rows)]]
        /\ o = "test" => service \in Tested
        /\ \/ at' = [at EXCEPT ![q] = "calling"] /\ used' = [used EXCEPT ![q] = env]
           \/ at' = [at EXCEPT ![q] = "reading"] /\ UNCHANGED used
    BY <1>9 DEF StartRead, store
  <2>2. StoreTypes' /\ Keys' = Keys /\ Names' = Names /\ Known' = Known
    BY <1>0, <1>5, <2>1, SameKeys DEF store, StoreTypes, Known
  <2>3. Configuration(env, rows) \in [Keys -> Known]
    BY <1>0, ConfigurationFacts
  <2>4. HistoryTypes'
    BY <1>0, <1>6, <2>1, <2>3 DEF HistoryTypes
  <2>5. env \in Seq(Known) /\ Len(env) = Len(Names)
    BY <1>0, <1>2 DEF StoreTypes
  <2>6. LocalTypes' /\ Apart(q)
    BY <1>0, <2>1, <2>2, <2>5 DEF LocalTypes, Places, Doings, Apart
  <2>7. seen[q] = <<>> /\ ~outage[q] /\ Len(seen[q]) = 0
    BY <1>0, <2>1 DEF Progress
  <2>8. Progress(q)'
    <3>1. /\ op'[q] = o /\ seen'[q] = <<>> /\ ~outage'[q] /\ Len(<<>>) < Len(Names)
          /\ at'[q] = "reading" \/ (at'[q] = "calling" /\ used'[q] = env)
      BY <1>0, <1>2, <2>1, <2>7 DEF LocalTypes
    <3> QED
      BY <2>1, <2>2, <2>5, <3>1 DEF Progress, Busy, Tested
  <2> QED
    BY <1>0, <1>4, <2>1, <2>2, <2>4, <2>6, <2>8, ApartProgress
<1>10. ASSUME NEW q \in Requests, Read(q) PROVE TypeInv'
  <2> DEFINE n == Len(seen[q])
             v == EffectiveSecret(n + 1)
  <2>1. /\ at[q] = "reading" /\ service' = service /\ UNCHANGED store
        /\ UNCHANGED <<op, asked, present, used, outage, said, inforce, late, keptOld, proven>>
        /\ seen' = [seen EXCEPT ![q] = Append(@, v)]
        /\ at' = [at EXCEPT ![q] = IF Len(seen'[q]) = Len(Names) THEN "acting" ELSE @]
    BY <1>10 DEF Read, store, history
  <2>2. StoreTypes' /\ Keys' = Keys /\ Names' = Names /\ Known' = Known
    BY <1>0, <1>5, <2>1, SameKeys DEF store, StoreTypes, Known
  <2>3. n \in Nat /\ n < Len(Names) /\ seen[q] \in Seq(Known) /\ n + 1 \in Keys
    BY <1>0, <1>2, <2>1 DEF LocalTypes, Progress
  <2>4. v \in Known
    BY <1>0, <2>3, EffectiveFacts
  <2> HIDE DEF v
  <2>5. seen'[q] = Append(seen[q], v) /\ Len(seen'[q]) = n + 1 /\ seen'[q] \in Seq(Known)
    BY <1>0, <2>1, <2>3, <2>4 DEF LocalTypes
  <2>6. LocalTypes' /\ Apart(q)
    BY <1>0, <2>1, <2>2, <2>5 DEF LocalTypes, Places, Apart
  <2>7. Progress(q)'
    <3>1. /\ op'[q] = op[q] /\ outage'[q] = outage[q]
          /\ at'[q] = IF n + 1 = Len(Names) THEN "acting" ELSE "reading"
      BY <1>0, <2>1, <2>5 DEF LocalTypes
    <3>2. /\ op[q] \in {"tree", "test", "use"} /\ (op[q] = "test" => service \in Tested)
          /\ ~outage[q]
      BY <1>0, <2>1 DEF Progress, Busy
    <3>3. at'[q] = "reading" => n + 1 < Len(Names)
      BY <1>2, <2>3, <3>1
    <3> QED
      BY <2>1, <2>2, <2>5, <3>1, <3>2, <3>3 DEF Progress, Busy, Tested
  <2>8. HistoryTypes'
    BY <1>0, <1>6, <2>1 DEF HistoryTypes
  <2> QED
    BY <1>0, <1>4, <2>1, <2>2, <2>6, <2>7, <2>8, ApartProgress
<1>11. ASSUME NEW q \in Requests, service' = service, UNCHANGED <<store, said>>, Leave(q),
              Forget(q), keptOld' \in BOOLEAN, proven' \in BOOLEAN
       PROVE  TypeInv'
  <2>1. StoreTypes'
    BY <1>0, <1>5, <1>11 DEF store, StoreTypes
  <2>2. Unread \in [first : [Keys -> Known], last : [Keys -> Known]]
    BY <1>3 DEF Unread
  <2>3. HistoryTypes'
    BY <1>0, <1>6, <1>11, <2>2 DEF HistoryTypes, Forget
  <2> QED
    BY <1>0, <1>4, <1>11, <2>1, <2>3, LeaveFacts, ApartProgress
<1>12. ASSUME NEW q \in Requests, ReadFails(q) PROVE TypeInv'
  <2>1. /\ at[q] = "reading" /\ service' = service /\ UNCHANGED store
        /\ UNCHANGED <<said, keptOld, proven>>
    BY <1>12 DEF ReadFails, store
  <2>2. CASE Leave(q) /\ Forget(q)
    BY <1>0, <1>11, <2>1, <2>2 DEF HistoryTypes
  <2>3. CASE ~(Leave(q) /\ Forget(q))
    <3> DEFINE s == [k \in Keys |-> IF k <= Len(seen[q]) THEN seen[q][k]
                                    ELSE IF service \in ModelServices THEN None
                                    ELSE env[k]]
    <3>1. /\ at' = [at EXCEPT ![q] = "acting"] /\ op[q] = "use"
          /\ seen' = [seen EXCEPT ![q] = s]
          /\ outage' = [outage EXCEPT ![q] = TRUE]
          /\ UNCHANGED <<op, asked, present, used, inforce, late>>
      BY <1>12, <2>3 DEF ReadFails
    <3>2. StoreTypes' /\ Keys' = Keys /\ Names' = Names /\ Known' = Known
      BY <1>0, <1>5, <2>1, SameKeys DEF store, StoreTypes, Known
    <3>3. s \in Seq(Known) /\ Len(s) = Len(Names)
      <4>1. ASSUME NEW k \in Keys PROVE s[k] \in Known
        <5>1. seen[q] \in Seq(Known) /\ env[k] \in Known /\ k \in 1..Len(Names)
          BY <1>0, <1>2 DEF LocalTypes, StoreTypes
        <5>2. k <= Len(seen[q]) => seen[q][k] \in Known
          BY <1>2, <5>1
        <5> QED
          BY <1>3, <5>1, <5>2
      <4> QED
        BY <1>2, <4>1
    <3> HIDE DEF s
    <3>4. LocalTypes' /\ Apart(q)
      BY <1>0, <3>1, <3>2, <3>3 DEF LocalTypes, Places, Apart
    <3>5. at'[q] = "acting" /\ op'[q] = "use" /\ seen'[q] = s
      BY <1>0, <3>1 DEF LocalTypes
    <3>6. Progress(q)'
      BY <3>2, <3>3, <3>5 DEF Progress, Busy
    <3>7. HistoryTypes'
      BY <1>0, <1>6, <2>1, <3>1 DEF HistoryTypes
    <3> QED
      BY <1>0, <1>4, <2>1, <3>2, <3>4, <3>6, <3>7, ApartProgress
  <2> QED
    BY <2>2, <2>3
<1>13. ASSUME NEW q \in Requests, Use(q) \/ Show(q) PROVE TypeInv'
  <2>1. /\ at[q] = "acting" /\ UNCHANGED <<service, env, rows>>
        /\ UNCHANGED <<op, asked, present, outage, said, inforce, proven>>
        /\ seen' = [seen EXCEPT ![q] = <<>>]
        /\ at' = [at EXCEPT ![q] = "calling"]
        /\ late' = late \/ late' = late \cup {q}
        /\ keptOld' = keptOld \/ keptOld' = (q \in late)
    BY <1>13 DEF Use, Show, store, history
  <2>2. seen[q] \in Seq(Known) /\ Len(seen[q]) = Len(Names)
    BY <1>0, <2>1 DEF LocalTypes, Progress
  <2>3. PICK u : /\ u \in Seq(Known) /\ Len(u) = Len(Names) /\ client' \in Known
                 /\ used' = [used EXCEPT ![q] = u]
    <3>1. CASE Use(q) /\ service \in ModelServices
      <4>1. seen[q][1] \in Known
        BY <1>2, <2>2, <3>1
      <4>2. client' \in Known /\ used' = [used EXCEPT ![q] = <<client'>>]
        BY <1>0, <3>1, <4>1 DEF Use, Refreshed, StoreTypes
      <4>3. <<client'>> \in Seq(Known) /\ Len(<<client'>>) = Len(Names)
        BY <1>2, <3>1, <4>2
      <4> QED
        BY <4>2, <4>3
    <3>2. CASE ~(Use(q) /\ service \in ModelServices)
      <4>1. used' = [used EXCEPT ![q] = seen[q]] /\ client' = client
        BY <1>13, <3>2 DEF Use, Show, store
      <4> QED
        BY <1>0, <2>2, <4>1 DEF StoreTypes
    <3> QED
      BY <3>1, <3>2
  <2>4. StoreTypes' /\ Keys' = Keys /\ Names' = Names /\ Known' = Known
    BY <1>5, <2>1, <2>3, SameKeys DEF Known
  <2>5. <<>> \in Seq(Known)
    OBVIOUS
  <2>6. LocalTypes' /\ Apart(q)
    BY <1>0, <2>1, <2>3, <2>4, <2>5 DEF LocalTypes, Places, Apart
  <2>7. /\ at'[q] = "calling" /\ used'[q] = u /\ op'[q] = op[q] /\ outage'[q] = outage[q]
    BY <1>0, <2>1, <2>3 DEF LocalTypes
  <2>8. Progress(q)'
    <3>1. /\ op[q] \in {"tree", "test", "use"} /\ (op[q] = "test" => service \in Tested)
          /\ outage[q] => op[q] = "use"
      BY <1>0, <2>1 DEF Progress, Busy
    <3> QED
      BY <2>1, <2>3, <2>4, <2>7, <3>1 DEF Progress, Busy, Tested
  <2>9. HistoryTypes'
    <3>1. keptOld' \in BOOLEAN
      <4>1. (q \in late) = TRUE \/ (q \in late) = FALSE
        OBVIOUS
      <4>2. keptOld' = keptOld \/ keptOld' = TRUE \/ keptOld' = FALSE
        BY <2>1, <4>1
      <4> QED
        BY <1>0, <4>2 DEF HistoryTypes
    <3> QED
      BY <1>0, <1>6, <2>1, <3>1 DEF HistoryTypes
  <2> QED
    BY <1>0, <1>4, <2>1, <2>4, <2>6, <2>8, <2>9, ApartProgress
<1>14. ASSUME NEW q \in Requests, NEW status \in {200, 401, 500}, Finish(q, status) \/ Fail(q)
       PROVE  TypeInv'
  <2>1. /\ Leave(q) /\ Forget(q) /\ UNCHANGED <<store, said, keptOld>> /\ service' = service
        /\ proven' = proven \/ Finish(q, status)
    BY <1>14 DEF Finish, Fail, store
  <2>2. proven' \in BOOLEAN
    BY <1>0, <2>1, Zenon DEF Finish, HistoryTypes
  <2>3. keptOld' \in BOOLEAN
    BY <1>0, <2>1 DEF HistoryTypes
  <2> QED
    BY <1>11, <2>1, <2>2, <2>3
<1>15. ASSUME NEW e \in Environments, NEW gone \in BOOLEAN, Restart(e, gone) PROVE TypeInv'
  <2>1. /\ service' = service /\ Keys' = Keys /\ Names' = Names /\ Known' = Known
    BY <1>15, SameKeys DEF Restart, Known
  <2>2. /\ e \in [Keys -> Known] /\ (service \in Defaulted => \A k \in Keys : e[k] \in Sound)
    BY <1>15, SoundAssumption DEF Environments, Known
  <2>3. /\ rows' \in [Keys -> Known \cup {Garbled}]
        /\ service \in Defaulted => \A k \in Keys : rows'[k] \in Sound \cup {None, Garbled}
    BY <1>0, <1>15 DEF Restart, StoreTypes
  <2>4. client' \in Known
    BY <1>2, <1>3, <1>15, <2>2 DEF Restart
  <2>5. StoreTypes'
    BY <1>0, <1>15, <2>1, <2>2, <2>3, <2>4 DEF Restart, StoreTypes
  <2>6. NoPut \in [key : Keys \cup {0}, value : Known] /\ <<>> \in Seq(Known)
    BY <1>3 DEF NoPut
  <2>7. LocalTypes'
    BY <1>15, <2>1, <2>6 DEF Restart, LocalTypes, Places, Doings
  <2>8. HistoryTypes'
    BY <1>0, <1>3, <1>6, <1>15 DEF Restart, HistoryTypes, Unread
  <2>9. \A q \in Requests : Progress(q)'
    BY <1>15 DEF Restart, Progress, Busy
  <2> QED
    BY <1>4, <2>1, <2>5, <2>7, <2>8, <2>9
<1> QED
  BY <1>1, <1>7, <1>8, <1>9, <1>10, <1>12, <1>13, <1>14, <1>15 DEF SettingsNext

LEMMA InitTypes == SettingsInit => TypeInv
<1> SUFFICES ASSUME SettingsInit PROVE TypeInv
  OBVIOUS
<1>1. service \in AllServices /\ service \in Services
  BY ServicesAssumption DEF SettingsInit
<1>2. Len(Names) \in {1, 2} /\ Keys = 1..Len(Names) /\ 1 \in Keys
  BY <1>1, KeysFacts
<1>3. /\ env \in [Keys -> Known] /\ (service \in Defaulted => \A k \in Keys : env[k] \in Sound)
  BY SoundAssumption DEF SettingsInit, Environments, Known
<1>4. StoreTypes
  BY <1>1, <1>2, <1>3 DEF SettingsInit, StoreTypes, Known
<1>5. NoPut \in [key : Keys \cup {0}, value : Known] /\ <<>> \in Seq(Known)
  BY DEF NoPut, Known
<1>6. LocalTypes
  BY <1>5 DEF SettingsInit, LocalTypes, Places, Doings
<1>7. HistoryTypes
  BY DEF SettingsInit, HistoryTypes, Unread, Known
<1>8. \A q \in Requests : Progress(q)
  BY DEF SettingsInit, Progress, Busy
<1> QED
  BY <1>4, <1>6, <1>7, <1>8, TypesSplit DEF TypeInv

LEMMA TypeAlways == SettingsSpec => []TypeInv
<1>1. SettingsInit => TypeInv
  BY InitTypes
<1>2. TypeInv /\ [SettingsNext]_settingsVars => TypeInv'
  BY TypeStep
<1> QED
  BY <1>1, <1>2, PTL DEF SettingsSpec

\* Types: of the requests that edit, show, test and use the settings (SettingsTypeOK).
THEOREM SettingsTyped == SettingsSpec => []SettingsTypeOK
<1>1. TypeInv => SettingsTypeOK
  BY DEF TypeInv
<1> QED
  BY <1>1, TypeAlways, PTL

-----------------------------------------------------------------------------
(* Puts *)

LEMMA KeptStep ==
    ASSUME TypeInv, PutsKept, [SettingsNext]_settingsVars
    PROVE  PutsKept'
<1>0. /\ StoreTypes /\ LocalTypes /\ HistoryTypes /\ \A q \in Requests : Progress(q)
  BY TypesSplit DEF TypeInv
<1>1. ASSUME UNCHANGED <<service, rows, said>> PROVE PutsKept'
  BY <1>1, SameKeys DEF PutsKept, Get
<1>2. CASE UNCHANGED settingsVars
  BY <1>1, <1>2 DEF settingsVars, store, history
<1>3. ASSUME NEW q \in Requests, NEW k \in Keys, NEW v \in Known, PutLoad(q, k, v)
      PROVE  PutsKept'
  <2>1. UNCHANGED <<service, rows>>
    BY <1>3 DEF PutLoad, store
  <2>2. said' = said \/ (rows[k] = None /\ said' = [said EXCEPT ![k] = None])
    BY <1>3 DEF PutLoad
  <2>3. said' = said
    BY <1>0, <2>2 DEF PutsKept, Get, HistoryTypes
  <2> QED
    BY <1>1, <2>1, <2>3
<1>4. ASSUME NEW q \in Requests, PutCommit(q) PROVE PutsKept'
  <2> DEFINE k == asked[q].key
             v == asked[q].value
             lands == present[q] = (rows[k] # None)
  <2>1. /\ at[q] = "putting" /\ service' = service
        /\ rows' = IF lands THEN [rows EXCEPT ![k] = v] ELSE rows
        /\ said' = IF v = None \/ lands THEN [said EXCEPT ![k] = v] ELSE said
    BY <1>4 DEF PutCommit, Accepted
  <2>2. k \in Keys /\ v \in Known /\ (v = None => present[q])
    BY <1>0, <2>1 DEF Progress, LocalTypes
  <2>3. v # Garbled
    BY <2>2, MarksAssumption DEF Known
  <2>4. Keys' = Keys
    BY <2>1, SameKeys
  <2> HIDE DEF k, v
  \* The row is there when it is to be deleted, or it is gone by now.
  <2>5. CASE lands
    BY <1>0, <2>1, <2>2, <2>3, <2>4, <2>5 DEF PutsKept, Get, StoreTypes, HistoryTypes
  <2>6. CASE ~lands
    <3>1. v = None => rows[k] = None
      BY <2>2, <2>6
    <3>2. said' = said /\ rows' = rows
      BY <1>0, <2>1, <2>2, <2>6, <3>1 DEF PutsKept, Get, HistoryTypes
    <3> QED
      BY <1>1, <2>1, <3>2
  <2> QED
    BY <2>5, <2>6
<1>5. ASSUME NEW q \in Requests, NEW o \in {"tree", "test", "use"},
             NEW status \in {200, 401, 500},
             \/ StartRead(q, o) \/ Read(q) \/ ReadFails(q) \/ Use(q) \/ Show(q)
             \/ Finish(q, status) \/ Fail(q)
      PROVE  PutsKept'
  BY <1>1, <1>5 DEF StartRead, Read, ReadFails, Use, Show, Finish, Fail, store, history
<1>6. ASSUME NEW e \in Environments, NEW gone \in BOOLEAN, Restart(e, gone)
      PROVE  PutsKept'
  <2>1. /\ service' = service
        /\ rows' = [k \in Keys |-> IF gone /\ rows[k] # None THEN Garbled ELSE rows[k]]
        /\ said' = [k \in Keys |-> IF gone THEN None ELSE said[k]]
    BY <1>6 DEF Restart
  <2>2. Keys' = Keys
    BY <2>1, SameKeys
  <2> QED
    BY <2>1, <2>2 DEF PutsKept, Get
<1> QED
  BY <1>2, <1>3, <1>4, <1>5, <1>6 DEF SettingsNext

\* A put that was acknowledged is what is read from then on (PutsKept).
THEOREM PutsStay == SettingsSpec => []PutsKept
<1>1. SettingsInit => PutsKept
  BY DEF SettingsInit, PutsKept, Get
<1>2. TypeInv /\ PutsKept /\ [SettingsNext]_settingsVars => PutsKept'
  BY KeptStep
<1> QED
  BY <1>1, <1>2, TypeAlways, PTL DEF SettingsSpec

-----------------------------------------------------------------------------
(* Uses *)

\* What a request under way has read: its first value at its first SELECT, the last at
\* its last.
Reads(q) ==
    /\ at[q] = "reading" =>
          /\ inforce[q].last = Configuration(env, rows)
          /\ seen[q] = <<>> => inforce[q].first = Configuration(env, rows)
          /\ \A k \in DOMAIN seen[q] : seen[q][k] = inforce[q].first[k]
    /\ at[q] = "acting" /\ ~outage[q] =>
          /\ \A k \in Keys : seen[q][k] \in {inforce[q].first[k], inforce[q].last[k]}
          /\ seen[q][Len(Names)] = inforce[q].last[Len(Names)]

\* What UsesWhatIsInForce says of one request; a reader of the environment does not
\* read the settings.
Uses(q) ==
    /\ at[q] = "calling" /\ ~outage[q] /\ (op[q] = "use" => service \in StoreReaders) =>
          \/ \A k \in Keys : used[q][k] \in {inforce[q].first[k], inforce[q].last[k]}
          \/ service \in ModelServices /\ op[q] = "use" /\ inforce[q].last[1] = None
    /\ op[q] = "use" /\ service \in EnvOnly => at[q] = "calling"

UseInv == \A q \in Requests : Reads(q) /\ Uses(q)

\* What is in force is the same after a step that leaves the settings alone.
LEMMA SameConfiguration ==
    ASSUME UNCHANGED <<service, env, rows>>
    PROVE  /\ Keys' = Keys /\ Names' = Names
           /\ Configuration(env, rows)' = Configuration(env, rows)
           /\ \A k : InForce(env, rows, k)' = InForce(env, rows, k)
BY SameKeys DEF Configuration, InForce

\* A step of request q that leaves the settings alone.
LEMMA UseQuiet ==
    ASSUME UseInv, NEW q \in Requests, Apart(q), UNCHANGED <<service, env, rows>>,
           \A p \in Requests \ {q} : inforce'[p] = inforce[p],
           Reads(q)', Uses(q)'
    PROVE  UseInv'
<1>1. Keys' = Keys /\ Names' = Names /\ Configuration(env, rows)' = Configuration(env, rows)
  BY SameConfiguration
<1> SUFFICES ASSUME NEW p \in Requests \ {q} PROVE Reads(p)' /\ Uses(p)'
  BY DEF UseInv
<1>2. Reads(p) /\ Uses(p) /\ inforce'[p] = inforce[p]
  BY DEF UseInv
<1>3. /\ at'[p] = at[p] /\ op'[p] = op[p] /\ seen'[p] = seen[p] /\ used'[p] = used[p]
      /\ outage'[p] = outage[p]
  BY DEF Apart
<1>4. Reads(p)'
  BY <1>1, <1>2, <1>3 DEF Reads
<1>5. Uses(p)'
  BY <1>1, <1>2, <1>3 DEF Uses
<1> QED
  BY <1>4, <1>5

\* A request that has left.
LEMMA UseIdle ==
    ASSUME NEW q \in Requests, at'[q] \in {"idle", "putting"}, op'[q] \in {"none", "put"}
    PROVE  Reads(q)' /\ Uses(q)'
BY DEF Reads, Uses

LEMMA UseStep ==
    ASSUME TypeInv, UseInv, [SettingsNext]_settingsVars
    PROVE  UseInv'
<1>0. /\ StoreTypes /\ LocalTypes /\ HistoryTypes /\ \A q \in Requests : Progress(q)
      /\ service \in AllServices
  BY TypesSplit, ServicesAssumption DEF TypeInv, StoreTypes
<1>1. Len(Names) \in {1, 2} /\ Keys = 1..Len(Names) /\ 1 \in Keys
      /\ (service \in ModelServices => Keys = {1} /\ Len(Names) = 1)
  BY <1>0, KeysFacts
<1>2. CASE UNCHANGED settingsVars
  <2>1. /\ Keys' = Keys /\ Names' = Names
        /\ Configuration(env, rows)' = Configuration(env, rows)
    BY <1>2, SameConfiguration DEF settingsVars, store
  <2> QED
    BY <1>2, <2>1 DEF settingsVars, store, local, history, UseInv, Reads, Uses
<1>3. ASSUME NEW q \in Requests, NEW k \in Keys, NEW v \in Known, PutLoad(q, k, v)
      PROVE  UseInv'
  <2>1. /\ UNCHANGED <<service, env, rows, outage, inforce>> /\ at[q] = "idle"
        /\ UNCHANGED <<seen, used>>
        /\ \/ UNCHANGED local
           \/ /\ at' = [at EXCEPT ![q] = "putting"]
              /\ op' = [op EXCEPT ![q] = "put"]
              /\ asked' = [asked EXCEPT ![q] = [key |-> k, value |-> v]]
              /\ present' = [present EXCEPT ![q] = rows[k] # None]
    BY <1>3 DEF PutLoad, store, local
  <2>2. Apart(q) /\ at'[q] \in {"idle", "putting"} /\ op'[q] \in {"none", "put"}
    BY <1>0, <2>1 DEF LocalTypes, Apart, local, Progress
  <2> QED
    BY <2>1, <2>2, UseIdle, UseQuiet
<1>4. ASSUME NEW q \in Requests, PutCommit(q) PROVE UseInv'
  <2>1. /\ at[q] = "putting" /\ Leave(q) /\ UNCHANGED <<service, env>>
        /\ inforce' = [p \in Requests |->
                          IF at[p] # "reading" THEN inforce[p]
                          ELSE [first |-> IF seen[p] = <<>> THEN Configuration(env, rows')
                                          ELSE inforce[p].first,
                                last |-> Configuration(env, rows')]]
    BY <1>4 DEF PutCommit, Track
  <2>2. /\ Apart(q) /\ at'[q] = "idle" /\ op'[q] = "none" /\ Keys' = Keys /\ Names' = Names
        /\ Configuration(env, rows)' = Configuration(env, rows')
    BY <1>0, <2>1, LeaveFacts, SameKeys DEF Configuration, InForce
  <2>3. ASSUME NEW p \in Requests \ {q} PROVE Reads(p)' /\ Uses(p)'
    <3>1. /\ at'[p] = at[p] /\ op'[p] = op[p] /\ seen'[p] = seen[p] /\ used'[p] = used[p]
          /\ outage'[p] = outage[p]
      BY <2>2 DEF Apart
    <3>2. Reads(p) /\ Uses(p)
      BY DEF UseInv
    <3>3. CASE at[p] # "reading"
      <4>1. inforce'[p] = inforce[p]
        BY <2>1, <3>3
      <4> QED
        BY <2>1, <2>2, <3>1, <3>2, <3>3, <4>1 DEF Reads, Uses
    <3>4. CASE at[p] = "reading"
      <4>1. /\ inforce'[p].last = Configuration(env, rows')
            /\ inforce'[p].first = IF seen[p] = <<>> THEN Configuration(env, rows')
                                   ELSE inforce[p].first
        BY <2>1, <3>4
      <4>2. seen[p] = <<>> => DOMAIN seen[p] = {}
        OBVIOUS
      <4>3. Reads(p)'
        BY <2>2, <3>1, <3>2, <3>4, <4>1, <4>2 DEF Reads
      <4>4. Uses(p)'
        BY <2>1, <3>1, <3>2, <3>4 DEF Uses
      <4> QED
        BY <4>3, <4>4
    <3> QED
      BY <3>3, <3>4
  <2> QED
    BY <2>2, <2>3, UseIdle DEF UseInv
<1>5. ASSUME NEW q \in Requests, NEW o \in {"tree", "test", "use"}, StartRead(q, o)
      PROVE  UseInv'
  <2>1. /\ at[q] = "idle" /\ UNCHANGED <<service, env, rows>>
        /\ UNCHANGED <<asked, present, seen, outage>>
        /\ op' = [op EXCEPT ![q] = o]
        /\ inforce' = [inforce EXCEPT ![q] = [first |-> Configuration(env, rows),
                                              last |-> Configuration(env, rows)]]
        /\ IF o = "use" /\ service \in EnvOnly
           THEN at' = [at EXCEPT ![q] = "calling"] /\ used' = [used EXCEPT ![q] = env]
           ELSE at' = [at EXCEPT ![q] = "reading"] /\ UNCHANGED used
    BY <1>5 DEF StartRead, store
  <2>2. Apart(q) /\ \A p \in Requests \ {q} : inforce'[p] = inforce[p]
    BY <1>0, <2>1 DEF LocalTypes, HistoryTypes, Apart
  <2>3. /\ op'[q] = o /\ seen'[q] = <<>> /\ DOMAIN seen'[q] = {}
        /\ inforce'[q].first = Configuration(env, rows)
        /\ inforce'[q].last = Configuration(env, rows)
        /\ IF o = "use" /\ service \in EnvOnly
           THEN at'[q] = "calling" /\ used'[q] = env ELSE at'[q] = "reading"
    BY <1>0, <2>1 DEF LocalTypes, HistoryTypes, Progress
  <2>4. Configuration(env, rows)' = Configuration(env, rows)
    BY <2>1, SameConfiguration
  <2>5. Reads(q)'
    BY <2>3, <2>4 DEF Reads
  <2>6. Uses(q)'
    BY <2>1, <2>3 DEF Uses, StoreReaders
  <2> QED
    BY <2>1, <2>2, <2>5, <2>6, UseQuiet
<1>6. ASSUME NEW q \in Requests, Read(q) PROVE UseInv'
  <2> DEFINE n == Len(seen[q])
             v == EffectiveSecret(n + 1)
  <2>1. /\ at[q] = "reading" /\ UNCHANGED <<service, env, rows>>
        /\ UNCHANGED <<op, asked, present, used, outage, inforce>>
        /\ seen' = [seen EXCEPT ![q] = Append(@, v)]
        /\ at' = [at EXCEPT ![q] = IF Len(seen'[q]) = Len(Names) THEN "acting" ELSE @]
    BY <1>6 DEF Read, store, history
  <2>2. n \in Nat /\ n < Len(Names) /\ seen[q] \in Seq(Known) /\ n + 1 \in Keys
    BY <1>0, <1>1, <2>1 DEF LocalTypes, Progress
  <2>3. v = Configuration(env, rows)[n + 1]
    BY <1>0, <2>2, EffectiveFacts, ConfigurationFacts
  <2> HIDE DEF v
  <2>4. /\ Apart(q) /\ outage'[q] = outage[q] /\ op'[q] = op[q]
        /\ seen'[q] = Append(seen[q], v)
        /\ at'[q] = IF n + 1 = Len(Names) THEN "acting" ELSE "reading"
    BY <1>0, <2>1, <2>2 DEF LocalTypes, Apart
  <2>5. /\ Keys' = Keys /\ Names' = Names
        /\ Configuration(env, rows)' = Configuration(env, rows)
    BY <2>1, SameConfiguration
  <2>6. Reads(q)
    BY DEF UseInv
  <2>7. /\ DOMAIN seen'[q] = 1..(n + 1) /\ seen'[q][n + 1] = v
        /\ \A k \in 1..n : seen'[q][k] = seen[q][k]
        /\ n + 1 \in DOMAIN seen'[q] /\ seen'[q] # <<>>
    <3>1. /\ DOMAIN seen'[q] = 1..(n + 1) /\ seen'[q][n + 1] = v
          /\ \A k \in 1..n : seen'[q][k] = seen[q][k]
      BY <2>2, <2>4
    <3>2. n + 1 \in DOMAIN seen'[q] /\ DOMAIN <<>> = {}
      BY <2>2, <3>1
    <3> QED
      BY <3>1, <3>2
  <2>8. v = inforce[q].last[n + 1] /\ \A k \in 1..n : seen'[q][k] = inforce[q].first[k]
    BY <2>1, <2>2, <2>3, <2>6, <2>7 DEF Reads
  <2>9. n = 0 => v = inforce[q].first[1]
    BY <2>1, <2>2, <2>3, <2>6 DEF Reads
  <2>10. Reads(q)'
    <3>1. CASE n + 1 = Len(Names)
      <4>1. at'[q] = "acting" /\ Keys' = 1..(n + 1) /\ Len(Names)' = n + 1
        BY <1>1, <2>4, <2>5, <3>1
      <4>2. \A k \in 1..(n + 1) : seen'[q][k] \in {inforce[q].first[k], inforce[q].last[k]}
        BY <2>2, <2>7, <2>8
      <4> QED
        BY <2>1, <2>7, <2>8, <4>1, <4>2 DEF Reads
    <3>2. CASE n + 1 # Len(Names)
      <4>1. at'[q] = "reading" /\ n = 0
        <5>1. at'[q] = "reading"
          BY <2>4, <3>2
        <5>2. n < Len(Names) /\ n + 1 # Len(Names) /\ n \in Nat
          BY <2>2, <3>2
        <5>3. CASE Len(Names) = 1
          BY <5>1, <5>2, <5>3
        <5>4. CASE Len(Names) = 2
          BY <5>1, <5>2, <5>4
        <5> QED
          BY <1>1, <5>3, <5>4
      <4>2. \A k \in DOMAIN seen'[q] : seen'[q][k] = inforce[q].first[k]
        BY <2>7, <2>9, <4>1
      <4> QED
        BY <2>1, <2>5, <2>6, <2>7, <4>1, <4>2 DEF Reads
    <3> QED
      BY <3>1, <3>2
  <2>11. Uses(q)'
    <3>1. Uses(q)
      BY DEF UseInv
    <3> QED
      BY <2>1, <2>4, <3>1 DEF Uses
  <2> QED
    BY <2>1, <2>4, <2>10, <2>11, UseQuiet
\* A request that leaves.
<1>7. ASSUME NEW q \in Requests, Leave(q), Forget(q), UNCHANGED <<service, env, rows>>
      PROVE  UseInv'
  <2>1. Apart(q) /\ at'[q] = "idle" /\ op'[q] = "none"
    BY <1>0, <1>7, LeaveFacts
  <2>2. \A p \in Requests \ {q} : inforce'[p] = inforce[p]
    BY <1>0, <1>7 DEF Forget, HistoryTypes
  <2> QED
    BY <1>7, <2>1, <2>2, UseIdle, UseQuiet
<1>8. ASSUME NEW q \in Requests, ReadFails(q) PROVE UseInv'
  <2>1. at[q] = "reading" /\ UNCHANGED <<service, env, rows>>
    BY <1>8 DEF ReadFails, store
  <2>2. CASE ~(Leave(q) /\ Forget(q))
    <3>1. PICK s : /\ at' = [at EXCEPT ![q] = "acting"]
                   /\ seen' = [seen EXCEPT ![q] = s]
                   /\ outage' = [outage EXCEPT ![q] = TRUE]
                   /\ UNCHANGED <<op, asked, present, used, inforce>>
      BY <1>0, <1>8, <2>2 DEF ReadFails, LocalTypes
    <3>2. Apart(q) /\ at'[q] = "acting" /\ outage'[q] = TRUE
      BY <1>0, <2>1, <3>1 DEF LocalTypes, Apart
    <3>3. Reads(q)' /\ Uses(q)'
      BY <2>1, <3>1, <3>2 DEF UseInv, Reads, Uses
    <3> QED
      BY <2>1, <3>1, <3>2, <3>3, UseQuiet
  <2> QED
    BY <1>7, <2>1, <2>2
<1>9. ASSUME NEW q \in Requests, Use(q) \/ Show(q) PROVE UseInv'
  <2>1. /\ at[q] = "acting" /\ UNCHANGED <<service, env, rows>>
        /\ UNCHANGED <<op, asked, present, outage, inforce>>
        /\ seen' = [seen EXCEPT ![q] = <<>>]
        /\ at' = [at EXCEPT ![q] = "calling"]
    BY <1>9 DEF Use, Show, store, history
  <2>2. PICK u : /\ used' = [used EXCEPT ![q] = u]
                 /\ \/ u = seen[q]
                    \/ /\ op[q] = "use" /\ service \in ModelServices
                       /\ u = <<Refreshed(seen[q][1])>>
    BY <1>9 DEF Use, Show
  <2>3. /\ Apart(q) /\ at'[q] = "calling" /\ used'[q] = u /\ op'[q] = op[q]
        /\ outage'[q] = outage[q] /\ Keys' = Keys
    BY <1>0, <2>1, <2>2, SameKeys DEF LocalTypes, Apart
  <2>4. Reads(q)
    BY DEF UseInv
  <2>5. Reads(q)'
    BY <2>3 DEF Reads
  <2>6. ASSUME ~outage[q]
        PROVE  \/ \A k \in Keys : u[k] \in {inforce[q].first[k], inforce[q].last[k]}
               \/ service \in ModelServices /\ op[q] = "use" /\ inforce[q].last[1] = None
    <3>1. /\ \A k \in Keys : seen[q][k] \in {inforce[q].first[k], inforce[q].last[k]}
          /\ seen[q][Len(Names)] = inforce[q].last[Len(Names)]
      BY <2>1, <2>4, <2>6 DEF Reads
    <3>2. CASE op[q] = "use" /\ service \in ModelServices /\ u = <<Refreshed(seen[q][1])>>
      <4>1. Keys = {1} /\ Len(Names) = 1
        BY <1>1, <3>2
      <4>2. u[1] = seen[q][1] \/ seen[q][1] = None
        BY <3>2 DEF Refreshed
      <4> QED
        BY <3>1, <3>2, <4>1, <4>2
    <3> QED
      BY <2>2, <3>1, <3>2
  \* A use of a reader of the environment does not come here.
  <2>7. ~(op[q] = "use" /\ service \in EnvOnly)
    BY <2>1 DEF UseInv, Uses
  <2>8. Uses(q)'
    BY <2>1, <2>3, <2>6, <2>7 DEF Uses
  <2> QED
    BY <2>1, <2>3, <2>5, <2>8, UseQuiet
<1>10. ASSUME NEW q \in Requests, NEW status \in {200, 401, 500}, Finish(q, status) \/ Fail(q)
       PROVE  UseInv'
  BY <1>7, <1>10 DEF Finish, Fail, store
<1>11. ASSUME NEW e \in Environments, NEW gone \in BOOLEAN, Restart(e, gone) PROVE UseInv'
  <2>1. \A q \in Requests : at'[q] = "idle" /\ op'[q] = "none"
    BY <1>11 DEF Restart
  <2> QED
    BY <2>1, UseIdle DEF UseInv
<1> QED
  BY <1>2, <1>3, <1>4, <1>5, <1>6, <1>8, <1>9, <1>10, <1>11 DEF SettingsNext

LEMMA UseAlways == SettingsSpec => []UseInv
<1>1. SettingsInit => UseInv
  BY DEF SettingsInit, UseInv, Reads, Uses
<1>2. TypeInv /\ UseInv /\ [SettingsNext]_settingsVars => UseInv'
  BY UseStep
<1> QED
  BY <1>1, <1>2, TypeAlways, PTL DEF SettingsSpec

\* What is shown, tested or used was in force when the request read it
\* (UsesWhatIsInForce).
THEOREM InForceUsed == SettingsSpec => []UsesWhatIsInForce
<1>1. UseInv => UsesWhatIsInForce
  BY DEF UseInv, Uses, UsesWhatIsInForce
<1> QED
  BY <1>1, UseAlways, PTL

-----------------------------------------------------------------------------
(* Tests *)

\* What a request that is not late has read, or calls with, is what is in force now.
Fresh(q) ==
    /\ service \in Tested /\ q \notin late /\ op[q] # "tree" =>
          /\ at[q] \in {"reading", "acting"} /\ ~outage[q] =>
                \A k \in DOMAIN seen[q] : seen[q][k] = InForce(env, rows, k)
          /\ at[q] = "calling" =>
                \A k \in Keys : \/ used[q][k] = InForce(env, rows, k)
                                \/ op[q] = "use" /\ InForce(env, rows, k) = None
    /\ outage[q] => service \in ModelServices \cup {"route"}
    /\ outage[q] /\ at[q] = "acting" /\ service \in ModelServices => seen[q][1] = None

\* So is the key of a client that is not of before the last change.
ClientFresh ==
    service \in ModelServices /\ ~keptOld =>
        client = InForce(env, rows, 1) \/ InForce(env, rows, 1) = None

FreshInv == ClientFresh /\ \A q \in Requests : Fresh(q)

\* A step of request q that leaves the settings alone.
LEMMA FreshQuiet ==
    ASSUME FreshInv, NEW q \in Requests, Apart(q), UNCHANGED <<service, env, rows>>,
           \A p \in Requests \ {q} : p \in late' <=> p \in late,
           ClientFresh', Fresh(q)'
    PROVE  FreshInv'
<1>1. Keys' = Keys /\ \A k : InForce(env, rows, k)' = InForce(env, rows, k)
  BY SameConfiguration
<1> SUFFICES ASSUME NEW p \in Requests \ {q} PROVE Fresh(p)'
  BY DEF FreshInv
<1>2. Fresh(p)
  BY DEF FreshInv
<1>3. /\ at'[p] = at[p] /\ op'[p] = op[p] /\ seen'[p] = seen[p] /\ used'[p] = used[p]
      /\ outage'[p] = outage[p]
  BY DEF Apart
<1> QED
  BY <1>1, <1>2, <1>3 DEF Fresh, Tested

\* A request that has left.
LEMMA FreshIdle ==
    ASSUME NEW q \in Requests, at'[q] \in {"idle", "putting"}, ~outage'[q]
    PROVE  Fresh(q)'
BY DEF Fresh

LEMMA ClientQuiet ==
    ASSUME ClientFresh, UNCHANGED <<store, keptOld>>
    PROVE  ClientFresh'
BY DEF ClientFresh, store, InForce

LEMMA FreshStep ==
    ASSUME TypeInv, FreshInv, [SettingsNext]_settingsVars
    PROVE  FreshInv'
<1>0. /\ StoreTypes /\ LocalTypes /\ HistoryTypes /\ \A q \in Requests : Progress(q)
      /\ service \in AllServices
  BY TypesSplit, ServicesAssumption DEF TypeInv, StoreTypes
<1>1. Len(Names) \in {1, 2} /\ Keys = 1..Len(Names) /\ 1 \in Keys
      /\ (service \in ModelServices => Keys = {1} /\ Len(Names) = 1)
  BY <1>0, KeysFacts
<1>2. CASE UNCHANGED settingsVars
  <2>1. Keys' = Keys /\ \A k : InForce(env, rows, k)' = InForce(env, rows, k)
    BY <1>2, SameConfiguration DEF settingsVars, store
  <2>2. ClientFresh'
    BY <1>2, ClientQuiet DEF settingsVars, history, FreshInv
  <2> QED
    BY <1>2, <2>1, <2>2 DEF settingsVars, store, local, history, FreshInv, Fresh, Tested
<1>3. ASSUME NEW q \in Requests, NEW k \in Keys, NEW v \in Known, PutLoad(q, k, v)
      PROVE  FreshInv'
  <2>1. /\ UNCHANGED <<service, env, rows, outage, late, keptOld, store>> /\ at[q] = "idle"
        /\ UNCHANGED <<seen, used>>
        /\ \/ UNCHANGED local
           \/ /\ at' = [at EXCEPT ![q] = "putting"]
              /\ op' = [op EXCEPT ![q] = "put"]
              /\ asked' = [asked EXCEPT ![q] = [key |-> k, value |-> v]]
              /\ present' = [present EXCEPT ![q] = rows[k] # None]
    BY <1>3 DEF PutLoad, store, local
  <2>2. Apart(q) /\ at'[q] \in {"idle", "putting"} /\ ~outage'[q]
    BY <1>0, <2>1 DEF LocalTypes, Apart, local, Progress
  <2> QED
    BY <2>1, <2>2, FreshIdle, FreshQuiet, ClientQuiet DEF FreshInv
<1>4. ASSUME NEW q \in Requests, PutCommit(q) PROVE FreshInv'
  <2>1. /\ at[q] = "putting" /\ Leave(q) /\ UNCHANGED <<service, env, client>> /\ Track
    BY <1>4 DEF PutCommit
  <2>2. Apart(q) /\ at'[q] = "idle" /\ ~outage'[q]
    BY <1>0, <2>1, LeaveFacts
  <2>3. CASE rows' = rows
    <3>1. UNCHANGED <<service, env, rows, late, keptOld, store>>
      BY <2>1, <2>3 DEF Track, store
    <3> QED
      BY <2>2, <3>1, FreshIdle, FreshQuiet, ClientQuiet DEF FreshInv
  <2>4. CASE rows' # rows
    <3>1. /\ late' = late \cup {p \in Requests : Committed(p)}
          /\ keptOld' = (service \in ModelServices)
      BY <2>1, <2>4 DEF Track
    <3>2. ClientFresh'
      BY <2>1, <3>1 DEF ClientFresh, ModelServices
    <3>3. ASSUME NEW p \in Requests \ {q} PROVE Fresh(p)'
      <4>1. /\ at'[p] = at[p] /\ op'[p] = op[p] /\ seen'[p] = seen[p]
            /\ outage'[p] = outage[p]
        BY <2>2 DEF Apart
      <4>2. Fresh(p) /\ (p \notin late' => ~Committed(p)) /\ DOMAIN <<>> = {}
        BY <3>1 DEF FreshInv
      <4> QED
        BY <2>1, <4>1, <4>2 DEF Fresh, Committed, Tested
    <3> QED
      BY <2>2, <3>2, <3>3, FreshIdle DEF FreshInv
  <2> QED
    BY <2>3, <2>4
<1>5. ASSUME NEW q \in Requests, NEW o \in {"tree", "test", "use"}, StartRead(q, o)
      PROVE  FreshInv'
  <2>1. /\ at[q] = "idle" /\ UNCHANGED <<service, env, rows, store, late, keptOld>>
        /\ UNCHANGED <<asked, present, seen, outage>>
        /\ op' = [op EXCEPT ![q] = o]
        /\ IF o = "use" /\ service \in EnvOnly
           THEN at' = [at EXCEPT ![q] = "calling"] /\ used' = [used EXCEPT ![q] = env]
           ELSE at' = [at EXCEPT ![q] = "reading"] /\ UNCHANGED used
    BY <1>5 DEF StartRead, store
  <2>2. Apart(q)
    BY <1>0, <2>1 DEF LocalTypes, Apart
  <2>3. /\ DOMAIN seen'[q] = {} /\ ~outage'[q]
        /\ at'[q] = "reading" \/ (at'[q] = "calling" /\ service' \in EnvOnly)
    BY <1>0, <2>1 DEF LocalTypes, Progress
  <2>4. Fresh(q)'
    BY <2>3 DEF Fresh, Tested, EnvOnly, ModelServices
  <2> QED
    BY <2>1, <2>2, <2>4, FreshQuiet, ClientQuiet DEF FreshInv
<1>6. ASSUME NEW q \in Requests, Read(q) PROVE FreshInv'
  <2> DEFINE n == Len(seen[q])
             v == EffectiveSecret(n + 1)
  <2>1. /\ at[q] = "reading" /\ UNCHANGED <<service, env, rows, store, late, keptOld>>
        /\ UNCHANGED <<op, outage, used>>
        /\ seen' = [seen EXCEPT ![q] = Append(@, v)]
        /\ at' = [at EXCEPT ![q] = IF Len(seen'[q]) = Len(Names) THEN "acting" ELSE @]
        /\ UNCHANGED <<asked, present>>
    BY <1>6 DEF Read, store, history
  <2>2. n \in Nat /\ n < Len(Names) /\ seen[q] \in Seq(Known) /\ n + 1 \in Keys
    BY <1>0, <1>1, <2>1 DEF LocalTypes, Progress
  <2>3. v = InForce(env, rows, n + 1)
    BY <1>0, <2>2, EffectiveFacts
  <2> HIDE DEF v
  <2>4. /\ Apart(q) /\ outage'[q] = outage[q] /\ op'[q] = op[q]
        /\ seen'[q] = Append(seen[q], v) /\ at'[q] \in {"reading", "acting"}
    BY <1>0, <2>1 DEF LocalTypes, Apart
  <2>5. \A k : InForce(env, rows, k)' = InForce(env, rows, k)
    BY <2>1, SameConfiguration
  <2>6. /\ DOMAIN seen'[q] = 1..(n + 1) /\ seen'[q][n + 1] = v
        /\ \A k \in 1..n : seen'[q][k] = seen[q][k]
        /\ DOMAIN seen[q] = 1..n
    BY <2>2, <2>4
  <2>7. Fresh(q)
    BY DEF FreshInv
  \* The settings have been read: it is no outage.
  <2>8. ~outage[q]
    BY <1>0, <2>1 DEF Progress
  <2>9. Fresh(q)'
    BY <2>1, <2>2, <2>3, <2>4, <2>5, <2>6, <2>7, <2>8 DEF Fresh, Tested
  <2> QED
    BY <2>1, <2>4, <2>9, FreshQuiet, ClientQuiet DEF FreshInv
\* A request that leaves.
<1>7. ASSUME NEW q \in Requests, Leave(q), Forget(q), UNCHANGED <<store, keptOld>>
      PROVE  FreshInv'
  <2>1. Apart(q) /\ at'[q] = "idle" /\ ~outage'[q] /\ UNCHANGED <<service, env, rows>>
    BY <1>0, <1>7, LeaveFacts DEF store
  <2>2. \A p \in Requests \ {q} : p \in late' <=> p \in late
    BY <1>7 DEF Forget
  <2> QED
    BY <1>7, <2>1, <2>2, FreshIdle, FreshQuiet, ClientQuiet DEF FreshInv
<1>8. ASSUME NEW q \in Requests, ReadFails(q) PROVE FreshInv'
  <2>1. at[q] = "reading" /\ UNCHANGED <<service, env, rows, store, keptOld>>
    BY <1>8 DEF ReadFails, store
  <2>2. CASE ~(Leave(q) /\ Forget(q))
    <3> DEFINE s == [k \in Keys |-> IF k <= Len(seen[q]) THEN seen[q][k]
                                    ELSE IF service \in ModelServices THEN None
                                    ELSE env[k]]
    <3>1. /\ at' = [at EXCEPT ![q] = "acting"]
          /\ seen' = [seen EXCEPT ![q] = s]
          /\ outage' = [outage EXCEPT ![q] = TRUE]
          /\ service \in ModelServices \cup {"route"}
          /\ UNCHANGED <<op, asked, present, used, late>>
      BY <1>8, <2>2 DEF ReadFails
    <3>2. service \in ModelServices => s[1] = None
      <4>1. seen[q] \in Seq(Known) /\ Len(seen[q]) < Len(Names)
        BY <1>0, <2>1 DEF LocalTypes, Progress
      <4>2. service \in ModelServices => ~(1 <= Len(seen[q]))
        BY <1>1, <4>1
      <4> QED
        BY <1>1, <4>2
    <3> HIDE DEF s
    <3>3. Apart(q) /\ at'[q] = "acting" /\ outage'[q] = TRUE /\ seen'[q] = s
      BY <1>0, <2>1, <3>1 DEF LocalTypes, Apart
    <3>4. Fresh(q)'
      BY <2>1, <3>1, <3>2, <3>3 DEF Fresh, ModelServices
    <3> QED
      BY <2>1, <3>1, <3>3, <3>4, FreshQuiet, ClientQuiet DEF FreshInv
  <2> QED
    BY <1>7, <2>1, <2>2
<1>9. ASSUME NEW q \in Requests, Show(q) PROVE FreshInv'
  <2>1. /\ at[q] = "acting" /\ op[q] \in {"tree", "test"}
        /\ UNCHANGED <<service, env, rows, store, late, keptOld, op, asked, present, outage>>
        /\ used' = [used EXCEPT ![q] = seen[q]]
        /\ seen' = [seen EXCEPT ![q] = <<>>]
        /\ at' = [at EXCEPT ![q] = "calling"]
    BY <1>9 DEF Show, store, history
  <2>2. /\ Apart(q) /\ at'[q] = "calling" /\ used'[q] = seen[q] /\ op'[q] = op[q]
        /\ ~outage'[q] /\ ~outage[q]
    BY <1>0, <2>1 DEF LocalTypes, Apart, Progress
  <2>3. Fresh(q) /\ DOMAIN seen[q] = Keys
    BY <1>0, <1>1, <2>1 DEF FreshInv, LocalTypes, Progress
  <2>4. Keys' = Keys /\ \A k : InForce(env, rows, k)' = InForce(env, rows, k)
    BY <2>1, SameConfiguration
  <2>5. Fresh(q)'
    BY <2>1, <2>2, <2>3, <2>4 DEF Fresh, Tested
  <2> QED
    BY <2>1, <2>2, <2>5, FreshQuiet, ClientQuiet DEF FreshInv
<1>10. ASSUME NEW q \in Requests, Use(q) PROVE FreshInv'
  <2>1. /\ at[q] = "acting" /\ op[q] = "use"
        /\ UNCHANGED <<service, env, rows, op, asked, present, outage>>
        /\ seen' = [seen EXCEPT ![q] = <<>>]
        /\ at' = [at EXCEPT ![q] = "calling"]
    BY <1>10 DEF Use
  <2>2. Keys' = Keys /\ \A k : InForce(env, rows, k)' = InForce(env, rows, k)
    BY <2>1, SameConfiguration
  <2>3. Fresh(q) /\ seen[q] \in Seq(Known) /\ DOMAIN seen[q] = Keys
    BY <1>0, <1>1, <2>1 DEF FreshInv, LocalTypes, Progress
  <2>4. CASE service \in ModelServices
    <3> DEFINE r == seen[q][1]
    <3>1. /\ client' = Refreshed(r) /\ used' = [used EXCEPT ![q] = <<client'>>]
          /\ IF r # None
             THEN keptOld' = (q \in late) /\ UNCHANGED late
             ELSE late' = (IF keptOld THEN late \cup {q} ELSE late) /\ UNCHANGED keptOld
      BY <1>10, <2>4 DEF Use
    <3>2. Keys = {1} /\ service \in Tested
      BY <1>1, <2>4 DEF Tested
    <3>3. Apart(q) /\ at'[q] = "calling" /\ used'[q][1] = client' /\ op'[q] = "use"
      BY <1>0, <2>1, <3>1 DEF LocalTypes, Apart
    <3>4. q \notin late /\ ~outage[q] => r = InForce(env, rows, 1)
      BY <1>1, <2>1, <2>3, <3>2 DEF Fresh
    <3>5. outage[q] => r = None
      BY <2>1, <2>3, <2>4 DEF Fresh
    <3>6. ClientFresh
      BY DEF FreshInv
    <3> HIDE DEF r
    <3>7. ClientFresh'
      BY <2>1, <2>2, <3>1, <3>4, <3>5, <3>6 DEF ClientFresh, Refreshed
    <3>8. q \notin late' => client' = InForce(env, rows, 1) \/ InForce(env, rows, 1) = None
      BY <2>4, <3>1, <3>4, <3>5, <3>6 DEF ClientFresh, Refreshed
    <3>9. Fresh(q)'
      <4>1. outage'[q] => service' \in ModelServices \cup {"route"}
        BY <2>1, <2>4
      <4> QED
        BY <2>2, <3>2, <3>3, <3>8, <4>1 DEF Fresh
    <3>10. \A p \in Requests \ {q} : p \in late' <=> p \in late
      BY <3>1
    <3> QED
      BY <2>1, <3>3, <3>7, <3>9, <3>10, FreshQuiet
  <2>5. CASE service \notin ModelServices
    <3>1. /\ used' = [used EXCEPT ![q] = seen[q]] /\ UNCHANGED <<client, late, keptOld>>
      BY <1>10, <2>5 DEF Use
    <3>2. /\ Apart(q) /\ at'[q] = "calling" /\ used'[q] = seen[q] /\ op'[q] = op[q]
          /\ outage'[q] = outage[q]
      BY <1>0, <2>1, <3>1 DEF LocalTypes, Apart
    <3>3. ClientFresh'
      BY <2>1, <2>5 DEF ClientFresh, ModelServices
    <3>4. service \in Tested => ~outage[q]
      BY <2>3, <2>5 DEF Fresh, Tested, ModelServices
    <3>5. Fresh(q)'
      BY <2>1, <2>2, <2>3, <2>5, <3>1, <3>2, <3>4 DEF Fresh, Tested, ModelServices
    <3> QED
      BY <2>1, <3>1, <3>2, <3>3, <3>5, FreshQuiet
  <2> QED
    BY <2>4, <2>5
<1>11. ASSUME NEW q \in Requests, NEW status \in {200, 401, 500}, Finish(q, status) \/ Fail(q)
       PROVE  FreshInv'
  BY <1>7, <1>11 DEF Finish, Fail
<1>12. ASSUME NEW e \in Environments, NEW gone \in BOOLEAN, Restart(e, gone) PROVE FreshInv'
  <2>1. /\ \A q \in Requests : at'[q] = "idle" /\ ~outage'[q]
        /\ env' = e /\ service' = service
        /\ client' = IF service \in ModelServices THEN e[1] ELSE None
        /\ keptOld' = (service \in ModelServices /\ InForce(e, rows', 1) # e[1])
    BY <1>12 DEF Restart
  <2>2. ClientFresh'
    BY <2>1 DEF ClientFresh, ModelServices, InForce
  <2> QED
    BY <2>1, <2>2, FreshIdle DEF FreshInv
<1> QED
  BY <1>2, <1>3, <1>4, <1>5, <1>6, <1>8, <1>9, <1>10, <1>11, <1>12 DEF SettingsNext

\* While a test counts, what is in force is right.
ProvenInv ==
    proven /\ service # "anthropic" =>
        /\ service \in Tested
        /\ \A k \in Keys : InForce(env, rows, k) \in Sound

LEMMA ProvenStep ==
    ASSUME TypeInv, FreshInv, ProvenInv, [SettingsNext]_settingsVars
    PROVE  ProvenInv'
<1>0. /\ StoreTypes /\ LocalTypes /\ HistoryTypes /\ \A q \in Requests : Progress(q)
      /\ service \in AllServices
  BY TypesSplit, ServicesAssumption DEF TypeInv, StoreTypes
<1>1. Len(Names) \in {1, 2} /\ Keys = 1..Len(Names)
  BY <1>0, KeysFacts
<1>2. ASSUME UNCHANGED <<service, env, rows>>, proven' => proven PROVE ProvenInv'
  BY <1>2, SameConfiguration DEF ProvenInv, Tested
<1>3. CASE UNCHANGED settingsVars
  BY <1>2, <1>3 DEF settingsVars, store, history
<1>4. ASSUME NEW q \in Requests, NEW k \in Keys, NEW v \in Known, PutLoad(q, k, v)
      PROVE  ProvenInv'
  BY <1>2, <1>4 DEF PutLoad, store
<1>5. ASSUME NEW q \in Requests, PutCommit(q) PROVE ProvenInv'
  <2>1. UNCHANGED <<service, env>> /\ Track
    BY <1>5 DEF PutCommit
  <2>2. CASE rows' = rows
    BY <1>2, <2>1, <2>2 DEF Track
  <2>3. CASE rows' # rows
    BY <2>1, <2>3 DEF Track, ProvenInv
  <2> QED
    BY <2>2, <2>3
<1>6. ASSUME NEW q \in Requests, NEW o \in {"tree", "test", "use"},
             \/ StartRead(q, o) \/ Read(q) \/ ReadFails(q) \/ Use(q) \/ Show(q) \/ Fail(q)
      PROVE  ProvenInv'
  BY <1>2, <1>6 DEF StartRead, Read, ReadFails, Use, Show, Fail, store, history
<1>7. ASSUME NEW q \in Requests, NEW status \in {200, 401, 500}, Finish(q, status)
      PROVE  ProvenInv'
  <2>1. /\ at[q] = "calling" /\ status \in Answers(used[q]) /\ UNCHANGED <<service, env, rows>>
        /\ proven' <=> proven \/ (op[q] = "test" /\ Ok(used[q], status) /\ q \notin late)
    BY <1>7, Zenon DEF Finish, store
  <2>2. CASE service # "anthropic" /\ op[q] = "test" /\ Ok(used[q], status) /\ q \notin late
    <3>1. used[q] \in Seq(Known) /\ DOMAIN used[q] = Keys /\ service \in Tested
      BY <1>0, <1>1, <2>1, <2>2 DEF LocalTypes, Progress
    <3>2. status = 200 /\ \A k \in Keys : used[q][k] \in Sound
      BY <2>1, <2>2, <3>1 DEF Ok, Answers
    <3>3. \A k \in Keys : used[q][k] = InForce(env, rows, k)
      BY <2>1, <2>2, <3>1 DEF FreshInv, Fresh
    <3> QED
      BY <2>1, <3>1, <3>2, <3>3, SameConfiguration DEF ProvenInv, Tested
  <2> QED
    BY <1>2, <2>1, <2>2 DEF ProvenInv
<1>8. ASSUME NEW e \in Environments, NEW gone \in BOOLEAN, Restart(e, gone) PROVE ProvenInv'
  BY <1>8 DEF Restart, ProvenInv
<1> QED
  BY <1>3, <1>4, <1>5, <1>6, <1>7, <1>8 DEF SettingsNext

\* After a test has said ok to the settings as they stand, only what goes by a key read
\* before is turned away (TestedKeyWorks).
THEOREM TestedWorks == SettingsSpec => []TestedKeyWorks
<1>1. SettingsInit => FreshInv /\ ProvenInv
  <2> SUFFICES ASSUME SettingsInit PROVE FreshInv /\ ProvenInv
    OBVIOUS
  <2>1. service \in AllServices
    BY ServicesAssumption DEF SettingsInit
  <2>2. ClientFresh
    BY <2>1, KeysFacts DEF SettingsInit, ClientFresh, InForce
  <2> QED
    BY <2>2 DEF SettingsInit, FreshInv, Fresh, ProvenInv
<1>2. TypeInv /\ FreshInv /\ [SettingsNext]_settingsVars => FreshInv'
  BY FreshStep
<1>3. TypeInv /\ FreshInv /\ ProvenInv /\ [SettingsNext]_settingsVars => ProvenInv'
  BY ProvenStep
<1>4. FreshInv /\ ProvenInv => TestedKeyWorks
  <2> SUFFICES ASSUME FreshInv, ProvenInv, NEW q \in Requests, proven,
                      at[q] = "calling", op[q] \in {"use", "test"}, q \notin late,
                      service # "anthropic", NEW k \in Keys
               PROVE  used[q][k] \in Sound
    BY DEF TestedKeyWorks
  <2>1. InForce(env, rows, k) \in Sound /\ service \in Tested
    BY DEF ProvenInv
  <2>2. used[q][k] = InForce(env, rows, k) \/ InForce(env, rows, k) = None
    BY <2>1 DEF FreshInv, Fresh
  <2>3. None \notin Sound
    BY MarksAssumption, SoundAssumption
  <2> QED
    BY <2>1, <2>2, <2>3
<1> QED
  BY <1>1, <1>2, <1>3, <1>4, TypeAlways, PTL DEF SettingsSpec
=============================================================================
