--------------------------- MODULE Sessions_proofs ---------------------------
(***************************************************************************)
(* Theorems about Sessions: for any number of requests, keys and secrets   *)
(* an account has its name, a session stays valid unless two requests each *)
(* made a secret, and name and password are one client's unless two setups *)
(* overlapped.                                                             *)
(***************************************************************************)
EXTENDS Sessions, TLAPS

-----------------------------------------------------------------------------
(* What is put *)

Kind(f) == IF f = "username" THEN Names
           ELSE IF f = "hash" THEN Passwords ELSE Nat

UserPut(n) == [field |-> "username", value |-> n]
HashPut(w) == [field |-> "hash", value |-> w]

\* What a request may still have to put: an account, its hash, or a secret.
Accounts == {<<UserPut(n), HashPut(w)>> : n \in Names, w \in Passwords}
Hashes == {<<HashPut(w)>> : w \in Passwords}
SecretPuts == {Secret(s) : s \in Nat}
Pending == Accounts \cup Hashes \cup SecretPuts

LEMMA PendingAccount ==
    ASSUME NEW p \in Accounts
    PROVE  /\ p \in Seq(Puts) /\ p # <<>>
           /\ Head(p).field = "username" /\ Head(p).value \in Names
           /\ Tail(p) \in Hashes /\ Tail(p) # <<>>
           /\ \A i \in DOMAIN p : p[i].field # "secret"
<1>1. PICK n \in Names, w \in Passwords : p = <<UserPut(n), HashPut(w)>>
  BY DEF Accounts
<1>2. UserPut(n) \in Puts /\ HashPut(w) \in Puts
  BY DEF UserPut, HashPut, Puts, Fields, Values
<1>3. Head(p) = UserPut(n) /\ Tail(p) = <<HashPut(w)>> /\ p \in Seq(Puts) /\ p # <<>>
  BY <1>1, <1>2
<1>4. Tail(p) \in Hashes /\ Tail(p) # <<>>
  BY <1>3 DEF Hashes
<1>5. \A i \in DOMAIN p : p[i].field # "secret"
  BY <1>1 DEF UserPut, HashPut
<1> QED
  BY <1>3, <1>4, <1>5 DEF UserPut

LEMMA PendingHash ==
    ASSUME NEW p \in Hashes
    PROVE  /\ p \in Seq(Puts) /\ p # <<>>
           /\ Head(p).field = "hash" /\ Head(p).value \in Passwords
           /\ Tail(p) = <<>>
           /\ \A i \in DOMAIN p : p[i].field # "secret"
<1>1. PICK w \in Passwords : p = <<HashPut(w)>>
  BY DEF Hashes
<1>2. HashPut(w) \in Puts
  BY DEF HashPut, Puts, Fields, Values
<1>3. Head(p) = HashPut(w) /\ Tail(p) = <<>> /\ p \in Seq(Puts) /\ p # <<>>
  BY <1>1, <1>2
<1>4. \A i \in DOMAIN p : p[i].field # "secret"
  BY <1>1 DEF HashPut
<1> QED
  BY <1>3, <1>4 DEF HashPut

LEMMA PendingSecret ==
    ASSUME NEW p \in SecretPuts
    PROVE  /\ p \in Seq(Puts) /\ p # <<>>
           /\ Head(p).field = "secret" /\ Head(p).value \in Nat
           /\ Tail(p) = <<>>
           /\ \E i \in DOMAIN p : p[i].field = "secret"
<1>1. PICK s \in Nat : p = <<[field |-> "secret", value |-> s]>>
  BY DEF SecretPuts, Secret
<1>2. [field |-> "secret", value |-> s] \in Puts
  BY DEF Puts, Fields, Values
<1>3. Head(p) = [field |-> "secret", value |-> s] /\ Tail(p) = <<>>
      /\ p \in Seq(Puts) /\ p # <<>>
  BY <1>1, <1>2
<1>4. 1 \in DOMAIN p /\ p[1].field = "secret"
  BY <1>1
<1> QED
  BY <1>3, <1>4

LEMMA PendingTyped ==
    ASSUME NEW p \in Pending
    PROVE  p \in Seq(Puts) /\ p # <<>>
BY PendingAccount, PendingHash, PendingSecret DEF Pending

-----------------------------------------------------------------------------
(* Types *)

\* What place p, operation o, credentials c and puts ps of a request have to do
\* with each other.
Shape(p, o, c, ps) ==
    /\ p \in {"putting", "committing"} => ps \in Pending
    /\ p \notin {"putting", "committing"} => ps = <<>>
    /\ o \in {"init", "login", "change"} => c.name \in Names
    /\ o = "init" => c.password \in Passwords
    /\ o = "change" => c.new \in Passwords
    /\ p = "checking" => o \in {"init", "login"}
    /\ p \in {"readingName", "readingHash"} => o \in {"login", "change"}

LocalOK == \A q \in Requests : Shape(pc[q], op[q], cred[q], puts[q])

\* A row holds a value of its kind, and no key is younger than the present one.
StoreOK ==
    \A f \in Fields : /\ store[f].under <= master
                      /\ store[f].under # 0 => store[f].value \in Kind(f)

\* The sessions handed out are no younger either.
IssuedOK == \A t \in issued : t.under <= master

TypeInv == TypeOK /\ LocalOK /\ StoreOK /\ IssuedOK

\* The variables of one request, typed.
LocalTypes ==
    /\ pc \in [Requests -> PCs]
    /\ op \in [Requests -> Ops]
    /\ cred \in [Requests -> Creds]
    /\ puts \in [Requests -> Seq(Puts)]
    /\ found \in [Requests -> BOOLEAN]

\* A request at rest.
LEMMA IdleShape == Shape("idle", "none", NoCred, <<>>) /\ NoCred \in Creds
BY DEF Shape, NoCred, Creds

\* A readable row is a row of its kind.
LEMMA GetKind ==
    ASSUME TypeOK, StoreOK, NEW f \in Fields
    PROVE  Get(f) \in Kind(f) \cup {None}
<1>1. store[f] \in Rows /\ master \in Nat /\ master # 0
  BY BoundsAssumption DEF TypeOK
<1> QED
  BY <1>1 DEF Get, StoreOK

\* The values of a kind are not None.
LEMMA KindNotNone == ASSUME NEW f \in Fields PROVE None \notin Kind(f)
BY NoneAssumption DEF Kind

\* A step of request q that leaves the others alone.
LEMMA LocalStep ==
    ASSUME LocalTypes, LocalOK, LocalTypes', NEW q \in Requests,
           \A k \in Requests \ {q} : /\ pc'[k] = pc[k] /\ op'[k] = op[k]
                                     /\ cred'[k] = cred[k] /\ puts'[k] = puts[k],
           Shape(pc'[q], op'[q], cred'[q], puts'[q])
    PROVE  LocalOK'
BY DEF LocalOK

LEMMA LeaveOK ==
    ASSUME LocalTypes, LocalOK, NEW q \in Requests, Leave(q)
    PROVE  LocalTypes' /\ LocalOK'
<1>1. LocalTypes'
  BY IdleShape DEF LocalTypes, Leave, Goto, PCs, Ops
<1>2. Shape(pc'[q], op'[q], cred'[q], puts'[q])
  BY IdleShape DEF LocalTypes, Leave, Goto
<1> QED
  BY <1>1, <1>2, LocalStep DEF LocalTypes, Leave, Goto

LEMMA StartPutsOK ==
    ASSUME LocalTypes, LocalOK, NEW q \in Requests, NEW ps \in Pending,
           StartPuts(q, ps)
    PROVE  LocalTypes' /\ LocalOK'
<1>1. LocalTypes'
  BY PendingTyped DEF LocalTypes, StartPuts, Goto, PCs
<1>2. Shape(pc'[q], op'[q], cred'[q], puts'[q])
  BY DEF LocalTypes, LocalOK, StartPuts, Goto, Shape
<1> QED
  BY <1>1, <1>2, LocalStep DEF LocalTypes, StartPuts, Goto

\* A request that goes on to p, with nothing to put.
LEMMA GotoOK ==
    ASSUME LocalTypes, LocalOK, NEW q \in Requests,
           NEW p \in {"readingName", "readingHash", "signing"}, Goto(q, p),
           p = "signing" \/ op[q] \in {"login", "change"},
           (puts' = puts /\ puts[q] = <<>>) \/ puts' = [puts EXCEPT ![q] = <<>>],
           UNCHANGED <<op, cred, found>>
    PROVE  LocalTypes' /\ LocalOK'
<1>1. LocalTypes'
  <2>1. puts' \in [Requests -> Seq(Puts)]
    <3>1. <<>> \in Seq(Puts)
      OBVIOUS
    <3>2. CASE puts' = puts
      BY <3>2 DEF LocalTypes
    <3>3. CASE puts' = [puts EXCEPT ![q] = <<>>]
      BY <3>1, <3>3 DEF LocalTypes
    <3> QED
      BY <3>2, <3>3
  <2>2. pc' \in [Requests -> PCs]
    BY DEF LocalTypes, Goto, PCs
  <2> QED
    BY <2>1, <2>2 DEF LocalTypes
<1>2. Shape(pc'[q], op'[q], cred'[q], puts'[q])
  BY DEF LocalTypes, LocalOK, Goto, Shape
<1> QED
  BY <1>1, <1>2, LocalStep DEF LocalTypes, Goto

\* The serializer with a secret: the request hands a session out, goes on, or
\* leaves.
LEMMA FinishOK ==
    ASSUME TypeInv, NEW q \in Requests, NEW s \in Nat, Finish(q, s), master' = master
    PROVE  LocalTypes' /\ LocalOK' /\ issued' \subseteq Tokens /\ IssuedOK'
<1>1. LocalTypes' /\ LocalOK'
  BY LeaveOK, GotoOK DEF Finish, TypeInv, TypeOK, LocalTypes
<1>2. op[q] \in {"init", "login"} => cred[q].name \in Names
  BY DEF TypeInv, LocalOK, Shape
<1>3. master \in Nat
  BY BoundsAssumption DEF TypeInv, TypeOK
<1>4. issued' \subseteq Tokens
  BY <1>2, <1>3 DEF Finish, TypeInv, TypeOK, Tokens
<1>5. IssuedOK'
  BY <1>3 DEF Finish, TypeInv, IssuedOK
<1> QED
  BY <1>1, <1>4, <1>5

\* A request that arrives.
LEMMA ArriveOK ==
    ASSUME LocalTypes, LocalOK, NEW q \in Requests, NEW o \in Ops, NEW p \in PCs,
           NEW c \in Creds, Arrive(q, o, p, c), Shape(p, o, c, <<>>)
    PROVE  LocalTypes' /\ LocalOK'
<1>1. LocalTypes'
  BY DEF LocalTypes, Arrive, Goto
<1>2. puts[q] = <<>>
  BY DEF LocalOK, Shape, Arrive
<1>3. Shape(pc'[q], op'[q], cred'[q], puts'[q])
  BY <1>2 DEF LocalTypes, Arrive, Goto
<1> QED
  BY <1>1, <1>3, LocalStep DEF LocalTypes, Arrive, Goto

\* What a put commits.
LEMMA CommitStore ==
    ASSUME TypeInv, NEW q \in Requests, PutCommit(q),
           NEW f, f = Head(puts[q]).field, NEW v, v = Head(puts[q]).value
    PROVE  /\ f \in Fields /\ v \in Kind(f)
           /\ store' = store \/ store' = [store EXCEPT ![f] = [value |-> v, under |-> master]]
           /\ store' \in [Fields -> Rows] /\ StoreOK'
<1>1. puts[q] \in Pending
  BY DEF TypeInv, LocalOK, Shape, PutCommit
<1>2. f \in Fields /\ v \in Kind(f)
  BY <1>1, PendingAccount, PendingHash, PendingSecret DEF Pending, Fields, Kind
<1>3. store' = store \/ store' = [store EXCEPT ![f] = [value |-> v, under |-> master]]
  BY DEF PutCommit
<1>4. master \in Nat /\ master' = master /\ master # 0 /\ v \in Values
  BY <1>2, BoundsAssumption DEF PutCommit, TypeInv, TypeOK, Kind, Values
<1>5. store' \in [Fields -> Rows]
  BY <1>2, <1>3, <1>4 DEF TypeInv, TypeOK, Rows
<1>6. StoreOK'
  <2> SUFFICES ASSUME NEW g \in Fields
               PROVE  /\ store'[g].under <= master
                      /\ store'[g].under # 0 => store'[g].value \in Kind(g)
    BY <1>4 DEF StoreOK
  <2>1. CASE store'[g] = store[g]
    BY <2>1 DEF TypeInv, StoreOK
  <2>2. CASE g = f /\ store'[g] = [value |-> v, under |-> master]
    BY <1>2, <1>4, <2>2
  <2> QED
    BY <1>3, <2>1, <2>2 DEF TypeInv, TypeOK
<1> QED
  BY <1>2, <1>3, <1>5, <1>6

LEMMA TypeStep ==
    ASSUME TypeInv, [Next]_vars
    PROVE  TypeInv'
<1> DEFINE Same == UNCHANGED <<store, master, kept, issued>>
<1>0. LocalTypes /\ LocalOK
  BY DEF TypeInv, TypeOK, LocalTypes
<1>1. CASE UNCHANGED vars
  BY <1>1 DEF vars, local, history, TypeInv, TypeOK, LocalOK, StoreOK, IssuedOK, Get
\* What is left to show where neither the table, the key nor the sessions change.
<1>2. ASSUME Same, LocalTypes', LocalOK', sent' \subseteq Names \X Passwords,
             secrets' \in 0..MaxSecrets, overlapped' \in BOOLEAN, raced' \in BOOLEAN
      PROVE  TypeInv'
  BY <1>2 DEF TypeInv, TypeOK, LocalTypes, StoreOK, IssuedOK
<1>3. ASSUME NEW q \in Requests, NEW o \in {"init", "login"}, NEW n \in Names,
             NEW w \in Passwords, Ask(q, o, n, w)
      PROVE  TypeInv'
  <2> DEFINE c == [NoCred EXCEPT !.name = n, !.password = w]
  <2>1. c \in Creds /\ Shape("checking", o, c, <<>>) /\ o \in Ops /\ "checking" \in PCs
    BY DEF NoCred, Creds, Shape, Ops, PCs
  <2>2. Arrive(q, o, "checking", c)
    BY <1>3 DEF Ask
  <2> HIDE DEF c
  <2>3. LocalTypes' /\ LocalOK'
    BY <1>0, <2>1, <2>2, ArriveOK
  <2> QED
    BY <1>2, <2>2, <2>3 DEF Arrive, history, TypeInv, TypeOK
<1>4. ASSUME NEW q \in Requests, NEW t \in issued, Visit(q, t)
      PROVE  TypeInv'
  <2> DEFINE c == [NoCred EXCEPT !.name = t.name, !.secret = t.secret]
  <2>1. c \in Creds /\ Shape("signing", "visit", c, <<>>) /\ "visit" \in Ops
        /\ "signing" \in PCs
    BY DEF NoCred, Creds, Shape, Ops, PCs, TypeInv, TypeOK, Tokens
  <2>2. Arrive(q, "visit", "signing", c)
    BY <1>4 DEF Visit
  <2> HIDE DEF c
  <2>3. LocalTypes' /\ LocalOK'
    BY <1>0, <2>1, <2>2, ArriveOK
  <2> QED
    BY <1>2, <2>2, <2>3 DEF Arrive, history, TypeInv, TypeOK
<1>5. ASSUME NEW q \in Requests, NEW t \in issued, NEW old \in Passwords,
             NEW w \in Passwords, ChangePassword(q, t, old, w)
      PROVE  TypeInv'
  <2> DEFINE c == [name |-> t.name, password |-> old, new |-> w, secret |-> t.secret]
  <2>1. c \in Creds /\ Shape("signing", "change", c, <<>>) /\ "change" \in Ops
        /\ "signing" \in PCs
    BY DEF Creds, Shape, Ops, PCs, TypeInv, TypeOK, Tokens
  <2>2. Arrive(q, "change", "signing", c)
    BY <1>5 DEF ChangePassword
  <2> HIDE DEF c
  <2>3. LocalTypes' /\ LocalOK'
    BY <1>0, <2>1, <2>2, ArriveOK
  <2> QED
    BY <1>2, <2>2, <2>3 DEF Arrive, history, TypeInv, TypeOK
<1>6. ASSUME NEW q \in Requests, Check(q) PROVE TypeInv'
  <2>1. op[q] \in {"init", "login"} /\ puts[q] = <<>> /\ cred[q].name \in Names
    BY <1>0, <1>6 DEF Check, LocalOK, Shape
  <2>2. Same /\ secrets' = secrets /\ raced' = raced
    BY <1>6 DEF Check
  <2>3. CASE Leave(q) /\ UNCHANGED <<sent, overlapped>>
    BY <1>0, <1>2, <2>2, <2>3, LeaveOK DEF TypeInv, TypeOK
  <2>4. CASE op[q] = "login" /\ Goto(q, "readingName")
             /\ UNCHANGED <<op, cred, puts, found, sent, overlapped>>
    <3>1. LocalTypes' /\ LocalOK'
      BY <1>0, <2>1, <2>4, GotoOK
    <3> QED
      BY <1>2, <2>2, <2>4, <3>1 DEF TypeInv, TypeOK
  <2>5. CASE op[q] = "init" /\ StartPuts(q, InitPuts(cred[q]))
             /\ sent' = sent \cup {<<cred[q].name, cred[q].password>>}
             /\ overlapped' = (overlapped \/ \E r \in Requests : SettingUp(r))
    <3>1. cred[q].password \in Passwords
      BY <1>0, <2>5 DEF LocalOK, Shape
    <3>2. InitPuts(cred[q]) \in Pending
      BY <2>1, <3>1 DEF InitPuts, Pending, Accounts, UserPut, HashPut
    <3>3. LocalTypes' /\ LocalOK'
      BY <1>0, <2>5, <3>2, StartPutsOK
    <3>4. sent' \subseteq Names \X Passwords
      BY <2>1, <2>5, <3>1 DEF TypeInv, TypeOK
    <3>5. overlapped' \in BOOLEAN
      BY <2>5, Zenon DEF TypeInv, TypeOK
    <3> QED
      BY <1>2, <2>2, <3>3, <3>4, <3>5 DEF TypeInv, TypeOK
  <2> QED
    BY <1>6, <2>1, <2>3, <2>4, <2>5 DEF Check
<1>7. ASSUME NEW q \in Requests, ReadName(q) PROVE TypeInv'
  <2>1. op[q] \in {"login", "change"} /\ puts[q] = <<>>
    BY <1>0, <1>7 DEF ReadName, LocalOK, Shape
  <2>2. Same /\ UNCHANGED <<secrets, sent, overlapped, raced>>
    BY <1>7 DEF ReadName, history
  <2>3. LocalTypes' /\ LocalOK'
    BY <1>0, <1>7, <2>1, LeaveOK, GotoOK DEF ReadName
  <2> QED
    BY <1>2, <2>2, <2>3 DEF TypeInv, TypeOK
<1>8. ASSUME NEW q \in Requests, ReadHash(q) PROVE TypeInv'
  <2>1. op[q] \in {"login", "change"} /\ puts[q] = <<>> /\ cred[q].name \in Names
    BY <1>0, <1>8 DEF ReadHash, LocalOK, Shape
  <2>2. Same /\ UNCHANGED <<secrets, overlapped, raced>>
    BY <1>8 DEF ReadHash
  <2>3. CASE Leave(q) /\ UNCHANGED sent
    BY <1>0, <1>2, <2>2, <2>3, LeaveOK DEF TypeInv, TypeOK
  <2>4. CASE Goto(q, "signing") /\ UNCHANGED <<op, cred, puts, found, sent>>
    BY <1>0, <1>2, <2>1, <2>2, <2>4, GotoOK DEF TypeInv, TypeOK
  <2>5. CASE op[q] = "change"
             /\ StartPuts(q, <<[field |-> "hash", value |-> cred[q].new]>>)
             /\ sent' = sent \cup {<<cred[q].name, cred[q].new>>}
    <3>1. cred[q].new \in Passwords
      BY <1>0, <2>5 DEF LocalOK, Shape
    <3>2. <<[field |-> "hash", value |-> cred[q].new]>> \in Pending
      BY <3>1 DEF Pending, Hashes, HashPut
    <3>3. LocalTypes' /\ LocalOK'
      BY <1>0, <2>5, <3>2, StartPutsOK
    <3>4. sent' \subseteq Names \X Passwords
      BY <2>1, <2>5, <3>1 DEF TypeInv, TypeOK
    <3> QED
      BY <1>2, <2>2, <3>3, <3>4 DEF TypeInv, TypeOK
  <2> QED
    BY <1>8, <2>1, <2>3, <2>4, <2>5 DEF ReadHash
<1>9. ASSUME NEW q \in Requests, Sign(q) PROVE TypeInv'
  <2>1. UNCHANGED <<store, master, kept, sent, overlapped>>
    BY <1>9 DEF Sign
  <2>2. CASE Signs(Get("secret"))
    <3>1. Get("secret") \in Nat
      BY <2>2, GetKind DEF Signs, Kind, Fields, TypeInv
    <3>2. LocalTypes' /\ LocalOK' /\ issued' \subseteq Tokens /\ IssuedOK'
      BY <1>9, <2>1, <2>2, <3>1, FinishOK DEF Sign
    <3>3. StoreOK'
      BY <2>1 DEF TypeInv, StoreOK
    <3> QED
      BY <1>9, <2>1, <2>2, <3>2, <3>3 DEF Sign, TypeInv, TypeOK, LocalTypes
  <2>3. CASE ~Signs(Get("secret"))
    <3>1. secrets' = secrets + 1 /\ secrets < MaxSecrets /\ issued' = issued
          /\ StartPuts(q, Secret(secrets + 1))
      BY <1>9, <2>3 DEF Sign
    <3>2. secrets' \in 0..MaxSecrets /\ Secret(secrets + 1) \in Pending
      BY <3>1, BoundsAssumption DEF TypeInv, TypeOK, Pending, SecretPuts
    <3>3. LocalTypes' /\ LocalOK'
      BY <1>0, <3>1, <3>2, StartPutsOK
    <3>4. raced' = (raced \/ \E r \in Requests : \E i \in DOMAIN puts[r] :
                                 puts[r][i].field = "secret")
      BY <1>9, <2>3 DEF Sign
    <3>5. raced' \in BOOLEAN
      BY <3>4, Zenon DEF TypeInv, TypeOK
    <3> QED
      BY <1>2, <2>1, <3>1, <3>2, <3>3, <3>5 DEF TypeInv, TypeOK
  <2> QED
    BY <2>2, <2>3
<1>10. ASSUME NEW q \in Requests, PutLoad(q) PROVE TypeInv'
  <2>1. LocalTypes'
    BY <1>0, <1>10 DEF PutLoad, LocalTypes, Goto, PCs
  <2>2. Shape(pc'[q], op'[q], cred'[q], puts'[q])
    BY <1>0, <1>10 DEF PutLoad, LocalTypes, LocalOK, Goto, Shape
  <2>3. LocalOK'
    BY <1>0, <1>10, <2>1, <2>2, LocalStep DEF PutLoad, LocalTypes, Goto
  <2> QED
    BY <1>2, <1>10, <2>1, <2>3 DEF PutLoad, history, TypeInv, TypeOK
<1>11. ASSUME NEW q \in Requests, PutCommit(q) PROVE TypeInv'
  <2> DEFINE p == puts[q]
             f == Head(p).field
             v == Head(p).value
  <2>1. store' \in [Fields -> Rows] /\ StoreOK' /\ f \in Fields /\ v \in Kind(f)
    BY <1>11, CommitStore
  <2>2. UNCHANGED <<master, kept, secrets, sent, overlapped, raced>>
    BY <1>11 DEF PutCommit
  <2>3. p \in Pending
    BY <1>0, <1>11 DEF PutCommit, LocalOK, Shape
  <2>4. Tail(p) # <<>> => Tail(p) \in Pending
    BY <2>3, PendingAccount, PendingHash, PendingSecret DEF Pending
  <2>5. \/ Leave(q) /\ issued' = issued
        \/ Tail(p) # <<>> /\ StartPuts(q, Tail(p)) /\ issued' = issued
        \/ f = "secret" /\ Finish(q, v)
        \/ /\ Goto(q, "signing") /\ puts' = [puts EXCEPT ![q] = <<>>]
           /\ UNCHANGED <<op, cred, found, issued>>
    BY <1>11 DEF PutCommit
  <2> HIDE DEF p, f, v
  <2>6. LocalTypes' /\ LocalOK' /\ issued' \subseteq Tokens /\ IssuedOK'
    <3> DEFINE Kept == issued' \subseteq Tokens /\ IssuedOK'
    <3>0. issued' = issued => Kept
      BY <2>2 DEF TypeInv, TypeOK, IssuedOK
    <3> HIDE DEF Kept
    <3>1. CASE Leave(q) /\ issued' = issued
      BY <1>0, <3>0, <3>1, LeaveOK DEF Kept
    <3>4. CASE Tail(p) # <<>> /\ StartPuts(q, Tail(p)) /\ issued' = issued
      BY <1>0, <2>4, <3>0, <3>4, StartPutsOK DEF Kept
    <3>2. CASE f = "secret" /\ Finish(q, v)
      BY <2>1, <2>2, <3>2, FinishOK DEF Kind
    <3>3. CASE /\ Goto(q, "signing") /\ puts' = [puts EXCEPT ![q] = <<>>]
               /\ UNCHANGED <<op, cred, found, issued>>
      BY <1>0, <3>0, <3>3, GotoOK DEF Kept
    <3> QED
      BY <2>5, <3>1, <3>2, <3>3, <3>4
  <2> QED
    BY <2>1, <2>2, <2>6 DEF TypeInv, TypeOK, LocalTypes
<1>12. ASSUME NEW q \in Requests, FailRequest(q) PROVE TypeInv'
  BY <1>0, <1>2, <1>12, LeaveOK DEF FailRequest, history, TypeInv, TypeOK
<1>13. CASE Restart
  <2>1. master' \in 1..MaxKeys /\ master <= master' /\ master' \in Nat /\ master \in Nat
    BY <1>13, BoundsAssumption DEF Restart, TypeInv, TypeOK
  <2>2. LocalTypes'
    BY <1>13, IdleShape DEF Restart, LocalTypes, PCs, Ops
  <2>3. LocalOK'
    BY <1>13, IdleShape DEF Restart, LocalOK
  <2>4. UNCHANGED <<store, kept, secrets, issued, sent, overlapped, raced>>
    BY <1>13 DEF Restart
  <2>5. StoreOK' /\ IssuedOK'
    BY <2>1, <2>4 DEF TypeInv, TypeOK, StoreOK, IssuedOK, Rows, Tokens
  <2> QED
    BY <2>1, <2>2, <2>3, <2>4, <2>5 DEF TypeInv, TypeOK, LocalTypes
<1> QED
  BY <1>1, <1>3, <1>4, <1>5, <1>6, <1>7, <1>8, <1>9, <1>10, <1>11, <1>12, <1>13
     DEF Next

LEMMA TypeAlways == Spec => []TypeInv
<1>1. Init => TypeInv
  <2> SUFFICES ASSUME Init PROVE TypeInv
    OBVIOUS
  <2>1. LocalTypes /\ LocalOK
    BY IdleShape DEF Init, LocalTypes, LocalOK, PCs, Ops
  <2>2. StoreOK /\ IssuedOK /\ store \in [Fields -> Rows]
    BY DEF Init, StoreOK, IssuedOK, NoRow, Rows, Values
  <2>3. master \in 1..MaxKeys /\ secrets \in 0..MaxSecrets
    BY BoundsAssumption DEF Init
  <2>4. issued \subseteq Tokens /\ sent \subseteq Names \X Passwords
        /\ kept \in BOOLEAN /\ overlapped \in BOOLEAN /\ raced \in BOOLEAN
    BY DEF Init
  <2> QED
    BY <2>1, <2>2, <2>3, <2>4 DEF TypeInv, TypeOK, LocalTypes
<1> QED
  BY <1>1, TypeStep, PTL DEF Spec

\* Every state of every behaviour is typed.
THEOREM TypeCorrect == Spec => []TypeOK
<1>1. TypeInv => TypeOK
  BY DEF TypeInv
<1> QED
  BY <1>1, TypeAlways, PTL

-----------------------------------------------------------------------------
(* The name behind the hash *)

\* A request that has found the right name, or has only the hash left to put.
NeedsName(p, ps) == p = "readingHash" \/ ps \in Hashes

\* The strengthening: the name is there before the hash is on its way.
NameInv ==
    /\ NameBehindHash
    /\ \A q \in Requests : NeedsName(pc[q], puts[q]) => Get("username") # None

LEMMA NothingNeedsNoName == ~NeedsName("idle", <<>>) /\ ~NeedsName("signing", <<>>)
                            /\ ~NeedsName("readingName", <<>>)
BY PendingHash DEF NeedsName

\* A step of request q that leaves the table and the key alone.
LEMMA NameQuiet ==
    ASSUME NameInv, NEW q \in Requests, UNCHANGED <<store, master>>,
           \A k \in Requests \ {q} : pc'[k] = pc[k] /\ puts'[k] = puts[k],
           NeedsName(pc'[q], puts'[q]) => Get("username") # None
    PROVE  NameInv'
<1>1. Get("username")' = Get("username") /\ Get("hash")' = Get("hash")
  BY DEF Get
<1> QED
  BY <1>1 DEF NameInv, NameBehindHash

\* What a put changes of what is read.
LEMMA CommitGet ==
    ASSUME TypeInv, NEW q \in Requests, PutCommit(q),
           NEW f, f = Head(puts[q]).field, NEW v, v = Head(puts[q]).value
    PROVE  /\ \A g \in Fields \ {f} : Get(g)' = Get(g)
           /\ (Leave(q) /\ UNCHANGED <<store, issued>>) \/ Get(f)' = v
           /\ v # None
<1>1. f \in Fields /\ v \in Kind(f) /\ master' = master
      /\ (store' = store \/ store' = [store EXCEPT ![f] = [value |-> v, under |-> master]])
  BY CommitStore DEF PutCommit
<1>2. v # None
  BY <1>1, KindNotNone
<1>3. store \in [Fields -> Rows]
  BY DEF TypeInv, TypeOK
<1>4. \/ Leave(q) /\ UNCHANGED <<store, issued>>
      \/ store' = [store EXCEPT ![f] = [value |-> v, under |-> master]]
  BY DEF PutCommit
<1> QED
  BY <1>1, <1>2, <1>3, <1>4 DEF Get

LEMMA NameStep ==
    ASSUME TypeInv, NameInv, [Next]_vars
    PROVE  NameInv'
<1>0. LocalTypes /\ LocalOK
  BY DEF TypeInv, TypeOK, LocalTypes
<1>1. CASE UNCHANGED vars
  BY <1>1 DEF vars, local, NameInv, NameBehindHash, NeedsName, Get
\* The steps after which nothing needs a name: a request leaves, signs or reads
\* the name.
<1>2. ASSUME NEW q \in Requests, UNCHANGED <<store, master>>,
             NEW p \in {"idle", "signing", "readingName"}, Goto(q, p),
             (puts' = puts /\ puts[q] = <<>>) \/ puts' = [puts EXCEPT ![q] = <<>>]
      PROVE  NameInv'
  <2>1. puts'[q] = <<>> /\ pc'[q] = p
    BY <1>0, <1>2 DEF LocalTypes, Goto
  <2> QED
    BY <1>0, <1>2, <2>1, NothingNeedsNoName, NameQuiet DEF LocalTypes, Goto
<1>3. ASSUME NEW q \in Requests, UNCHANGED <<store, master>>, Leave(q)
      PROVE  NameInv'
  BY <1>2, <1>3 DEF Leave
\* A request starts to put ps.
<1>4. ASSUME NEW q \in Requests, UNCHANGED <<store, master>>, NEW ps, StartPuts(q, ps),
             ps \in Hashes => Get("username") # None
      PROVE  NameInv'
  <2>1. puts'[q] = ps /\ pc'[q] = "putting"
    BY <1>0, <1>4 DEF LocalTypes, StartPuts, Goto
  <2>2. NeedsName(pc'[q], puts'[q]) => Get("username") # None
    BY <1>4, <2>1 DEF NeedsName
  <2>3. \A k \in Requests \ {q} : pc'[k] = pc[k] /\ puts'[k] = puts[k]
    BY <1>0, <1>4 DEF LocalTypes, StartPuts, Goto
  <2> QED
    BY <1>4, <2>2, <2>3, NameQuiet
<1>5. ASSUME NEW q \in Requests, NEW o, NEW c, NEW p \in {"checking", "signing"},
             Arrive(q, o, p, c)
      PROVE  NameInv'
  <2>1. puts'[q] = <<>> /\ pc'[q] = p
    BY <1>0, <1>5 DEF LocalTypes, LocalOK, Shape, Arrive, Goto
  <2>2. ~NeedsName(pc'[q], puts'[q])
    BY <2>1, PendingHash DEF NeedsName
  <2> QED
    BY <1>0, <1>5, <2>2, NameQuiet DEF LocalTypes, Arrive, Goto
<1>6. ASSUME NEW q \in Requests, Check(q) PROVE NameInv'
  <2>1. puts[q] = <<>> /\ UNCHANGED <<store, master>>
    BY <1>0, <1>6 DEF Check, LocalOK, Shape
  <2>2. CASE StartPuts(q, InitPuts(cred[q]))
    <3>1. InitPuts(cred[q]) \notin Hashes
      BY PendingHash DEF InitPuts
    <3> QED
      BY <1>4, <2>1, <2>2, <3>1
  <2> QED
    BY <1>2, <1>3, <1>6, <2>1, <2>2 DEF Check
<1>7. ASSUME NEW q \in Requests, ReadName(q) PROVE NameInv'
  <2>1. puts[q] = <<>> /\ UNCHANGED <<store, master>> /\ cred[q].name \in Names
    BY <1>0, <1>7 DEF ReadName, LocalOK, Shape
  <2>2. CASE Get("username") = cred[q].name /\ Goto(q, "readingHash") /\ puts' = puts
    <3>1. Get("username") # None
      BY <2>1, <2>2, NoneAssumption
    <3> QED
      BY <1>0, <2>1, <2>2, <3>1, NameQuiet DEF LocalTypes, Goto
  <2> QED
    BY <1>3, <1>7, <2>1, <2>2 DEF ReadName
<1>8. ASSUME NEW q \in Requests, ReadHash(q) PROVE NameInv'
  <2>1. puts[q] = <<>> /\ UNCHANGED <<store, master>> /\ Get("username") # None
    BY <1>0, <1>8 DEF ReadHash, LocalOK, Shape, NameInv, NeedsName
  <2> QED
    BY <1>2, <1>3, <1>4, <1>8, <2>1 DEF ReadHash
<1>9. ASSUME NEW q \in Requests, NEW s, Finish(q, s), UNCHANGED <<store, master>>
      PROVE  NameInv'
  BY <1>2, <1>3, <1>9 DEF Finish
<1>10. ASSUME NEW q \in Requests, Sign(q) PROVE NameInv'
  <2>1. UNCHANGED <<store, master>>
    BY <1>10 DEF Sign
  <2>2. CASE StartPuts(q, Secret(secrets + 1))
    <3>1. Secret(secrets + 1) \notin Hashes
      BY PendingHash DEF Secret
    <3> QED
      BY <1>4, <2>1, <2>2, <3>1
  <2> QED
    BY <1>9, <1>10, <2>1, <2>2 DEF Sign
<1>11. ASSUME NEW q \in Requests, PutLoad(q) PROVE NameInv'
  <2>1. NeedsName(pc'[q], puts'[q]) => NeedsName(pc[q], puts[q])
    BY <1>0, <1>11 DEF PutLoad, LocalTypes, Goto, NeedsName
  <2> QED
    BY <1>0, <1>11, <2>1, NameQuiet DEF PutLoad, LocalTypes, Goto, NameInv
<1>12. ASSUME NEW q \in Requests, PutCommit(q) PROVE NameInv'
  <2> DEFINE p == puts[q]
  <2>0. PICK f, v : f = Head(p).field /\ v = Head(p).value
    OBVIOUS
  <2>1. p \in Pending
    BY <1>0, <1>12 DEF PutCommit, LocalOK, Shape
  <2>2. /\ \A g \in Fields \ {f} : Get(g)' = Get(g)
        /\ (Leave(q) /\ UNCHANGED <<store, issued>>) \/ Get(f)' = v
        /\ v # None
    BY <1>12, <2>0, CommitGet
  <2>3. \/ Leave(q)
        \/ Tail(p) # <<>> /\ StartPuts(q, Tail(p))
        \/ f = "secret" /\ Finish(q, v)
        \/ Goto(q, "signing") /\ puts' = [puts EXCEPT ![q] = <<>>]
    BY <1>12, <2>0 DEF PutCommit
  <2>4. \A k \in Requests \ {q} : pc'[k] = pc[k] /\ puts'[k] = puts[k]
    BY <1>0, <2>3 DEF LocalTypes, Leave, StartPuts, Finish, Goto
  <2>5. CASE Leave(q) /\ UNCHANGED <<store, issued>>
    BY <1>3, <1>12, <2>5 DEF PutCommit
  <2>6. CASE Get(f)' = v
    <3>1. CASE p \in Accounts
      <4>1. Get("username")' # None
        BY <2>0, <2>2, <2>6, <3>1, PendingAccount
      <4> QED
        BY <4>1 DEF NameInv, NameBehindHash
    <3>2. CASE p \in Hashes
      <4>1. f = "hash" /\ Get("username") # None
        BY <2>0, <3>2, PendingHash DEF NameInv, NeedsName
      <4>2. Get("username")' # None
        BY <2>2, <4>1 DEF Fields
      <4> QED
        BY <4>2 DEF NameInv, NameBehindHash
    <3>3. CASE p \in SecretPuts
      <4>1. f = "secret" /\ Tail(p) = <<>>
        BY <2>0, <3>3, PendingSecret
      <4>2. Get("username")' = Get("username") /\ Get("hash")' = Get("hash")
        BY <2>2, <4>1 DEF Fields
      <4>3. ~NeedsName(pc'[q], puts'[q])
        BY <1>0, <2>3, <4>1, NothingNeedsNoName
           DEF LocalTypes, Leave, Finish, Goto
      <4> QED
        BY <2>4, <4>2, <4>3 DEF NameInv, NameBehindHash
    <3> QED
      BY <2>1, <3>1, <3>2, <3>3 DEF Pending
  <2> QED
    BY <2>2, <2>5, <2>6
<1>13. ASSUME NEW q \in Requests, FailRequest(q) PROVE NameInv'
  BY <1>3, <1>13 DEF FailRequest
<1>14. CASE Restart
  <2>1. \A k \in Requests : ~NeedsName(pc'[k], puts'[k])
    BY <1>14, NothingNeedsNoName DEF Restart
  <2>2. CASE master' = master
    <3>1. Get("username")' = Get("username") /\ Get("hash")' = Get("hash")
      BY <1>14, <2>2 DEF Restart, Get
    <3> QED
      BY <2>1, <3>1 DEF NameInv, NameBehindHash
  <2>3. CASE master' = master + 1
    <3>1. store["hash"].under \in Nat /\ store["hash"].under <= master /\ master \in Nat
      BY BoundsAssumption DEF TypeInv, TypeOK, StoreOK, Fields, Rows
    <3>2. Get("hash")' = None
      BY <1>14, <2>3, <3>1 DEF Restart, Get
    <3> QED
      BY <2>1, <3>2 DEF NameInv, NameBehindHash
  <2> QED
    BY <1>14, <2>2, <2>3 DEF Restart
<1> QED
  BY <1>1, <1>5, <1>6, <1>7, <1>8, <1>10, <1>11, <1>12, <1>13, <1>14
     DEF Next, Ask, Visit, ChangePassword

\* An initialised server has a name to log in with, wherever a setup or the
\* process stops (NameBehindHash).
THEOREM AccountHasName == Spec => []NameBehindHash
<1>1. Init => NameInv
  BY NothingNeedsNoName, BoundsAssumption
     DEF Init, NameInv, NameBehindHash, Get, NoRow, Fields
<1>2. NameInv => NameBehindHash
  BY DEF NameInv
<1> QED
  BY <1>1, <1>2, TypeAlways, NameStep, PTL DEF Spec

-----------------------------------------------------------------------------
(* The lasting session *)

\* A request that has a secret of its own to put.
Makes(ps) == ps \in SecretPuts

Valid == \A t \in issued : t.under = master => t.secret = Get("secret")

\* A request that makes a secret is alone, and there is none yet.
Alone ==
    \A q \in Requests : Makes(puts[q]) =>
        /\ Get("secret") = None
        /\ \A r \in Requests \ {q} : ~Makes(puts[r])

\* The strengthening: until two requests make a secret, the secret that is
\* about to be put replaces nothing.
SecretInv == ~raced => Valid /\ Alone

LEMMA MakesNot == /\ ~Makes(<<>>)
                  /\ \A p \in Accounts \cup Hashes : ~Makes(p)
BY PendingAccount, PendingHash, PendingSecret DEF Makes

\* A step of request q that makes no secret and touches none.
LEMMA SecretQuiet ==
    ASSUME SecretInv, NEW q \in Requests, UNCHANGED <<master, issued, raced>>,
           Get("secret")' = Get("secret"),
           \A k \in Requests \ {q} : puts'[k] = puts[k],
           Makes(puts'[q]) => Makes(puts[q])
    PROVE  SecretInv'
BY DEF SecretInv, Valid, Alone

LEMMA SecretStep ==
    ASSUME TypeInv, SecretInv, [Next]_vars
    PROVE  SecretInv'
<1> DEFINE Same == UNCHANGED <<store, master, issued, raced>>
<1>0. LocalTypes /\ LocalOK
  BY DEF TypeInv, TypeOK, LocalTypes
<1>1. CASE UNCHANGED vars
  BY <1>1 DEF vars, local, history, SecretInv, Valid, Alone, Get
<1>2. ASSUME NEW q \in Requests, Same, NEW ps \in Accounts \cup Hashes \cup {<<>>},
             puts' = puts \/ puts' = [puts EXCEPT ![q] = ps]
      PROVE  SecretInv'
  <2>1. Get("secret")' = Get("secret")
    BY <1>2 DEF Get
  <2>2. ~Makes(ps)
    BY <1>2, MakesNot
  <2>3. (\A k \in Requests \ {q} : puts'[k] = puts[k]) /\ (Makes(puts'[q]) => Makes(puts[q]))
    BY <1>0, <1>2, <2>2 DEF LocalTypes
  <2> QED
    BY <1>2, <2>1, <2>3, SecretQuiet
<1>3. ASSUME NEW q \in Requests, Same, Leave(q) PROVE SecretInv'
  BY <1>2, <1>3 DEF Leave
<1>4. ASSUME NEW q \in Requests, NEW o, NEW c, NEW p, Arrive(q, o, p, c)
      PROVE  SecretInv'
  BY <1>2, <1>4 DEF Arrive, history
<1>5. ASSUME NEW q \in Requests, Check(q) PROVE SecretInv'
  <2>1. /\ Same
        /\ \/ StartPuts(q, InitPuts(cred[q])) /\ op[q] = "init"
           \/ Leave(q)
           \/ puts' = puts
    BY <1>0, <1>5 DEF Check, LocalOK, Shape
  <2>2. CASE StartPuts(q, InitPuts(cred[q])) /\ op[q] = "init"
    <3>1. cred[q].name \in Names /\ cred[q].password \in Passwords
      BY <1>0, <2>2 DEF LocalOK, Shape
    <3>2. InitPuts(cred[q]) \in Accounts
      BY <3>1 DEF InitPuts, Accounts, UserPut, HashPut
    <3> QED
      BY <1>2, <2>1, <2>2, <3>2 DEF StartPuts
  <2> QED
    BY <1>2, <1>3, <2>1, <2>2
<1>6. ASSUME NEW q \in Requests, ReadName(q) PROVE SecretInv'
  BY <1>2, <1>3, <1>6 DEF ReadName, history
<1>7. ASSUME NEW q \in Requests, ReadHash(q) PROVE SecretInv'
  <2>1. /\ Same
        /\ \/ op[q] = "change" /\ StartPuts(q, <<[field |-> "hash", value |-> cred[q].new]>>)
           \/ Leave(q)
           \/ puts' = puts
    BY <1>0, <1>7 DEF ReadHash, LocalOK, Shape
  <2>2. CASE op[q] = "change" /\ StartPuts(q, <<[field |-> "hash", value |-> cred[q].new]>>)
    <3>1. cred[q].new \in Passwords
      BY <1>0, <2>2 DEF LocalOK, Shape
    <3>2. <<[field |-> "hash", value |-> cred[q].new]>> \in Hashes
      BY <3>1 DEF Hashes, HashPut
    <3> QED
      BY <1>2, <2>1, <2>2, <3>2 DEF StartPuts
  <2> QED
    BY <1>2, <1>3, <2>1, <2>2
\* What a session adds to those handed out, and what it leaves to put.
<1>8. ASSUME NEW q \in Requests, NEW s, Finish(q, s)
      PROVE  /\ issued' \subseteq issued \cup
                    {[name |-> cred[q].name, secret |-> s, under |-> master]}
             /\ puts' = [puts EXCEPT ![q] = <<>>]
  BY <1>8 DEF Finish, Leave
<1>9. ASSUME NEW q \in Requests, Sign(q) PROVE SecretInv'
  <2>1. UNCHANGED <<store, master>> /\ Get("secret")' = Get("secret")
    BY <1>9 DEF Sign, Get
  <2>2. CASE Signs(Get("secret"))
    <3>1. issued' \subseteq issued \cup
              {[name |-> cred[q].name, secret |-> Get("secret"), under |-> master]}
          /\ puts' = [puts EXCEPT ![q] = <<>>] /\ raced' = raced
      BY <1>8, <1>9, <2>2 DEF Sign
    <3>2. Valid => Valid'
      BY <2>1, <3>1 DEF Valid
    <3>3. Alone => Alone'
      BY <1>0, <2>1, <3>1, MakesNot DEF Alone, LocalTypes
    <3> QED
      BY <3>1, <3>2, <3>3 DEF SecretInv
  <2>3. CASE ~Signs(Get("secret"))
    <3>1. /\ Get("secret") = None /\ issued' = issued
          /\ puts' = [puts EXCEPT ![q] = Secret(secrets + 1)]
          /\ raced' = (raced \/ \E r \in Requests : \E i \in DOMAIN puts[r] :
                                    puts[r][i].field = "secret")
      BY <1>9, <2>3 DEF Sign, Signs, StartPuts
    <3>2. SUFFICES ASSUME ~raced' PROVE Valid' /\ Alone'
      BY DEF SecretInv
    <3>3. ~raced /\ \A r \in Requests : ~Makes(puts[r])
      BY <3>1, <3>2, PendingSecret DEF Makes
    <3>4. Valid'
      BY <2>1, <3>1, <3>3 DEF SecretInv, Valid
    <3>5. Alone'
      BY <1>0, <2>1, <3>1, <3>3 DEF Alone, LocalTypes
    <3> QED
      BY <3>4, <3>5
  <2> QED
    BY <2>2, <2>3
<1>10. ASSUME NEW q \in Requests, PutLoad(q) PROVE SecretInv'
  BY <1>2, <1>10 DEF PutLoad, history
<1>11. ASSUME NEW q \in Requests, PutCommit(q) PROVE SecretInv'
  <2> DEFINE p == puts[q]
  <2>0. PICK f, v : f = Head(p).field /\ v = Head(p).value
    OBVIOUS
  <2>1. p \in Pending
    BY <1>0, <1>11 DEF PutCommit, LocalOK, Shape
  <2>2. /\ \A g \in Fields \ {f} : Get(g)' = Get(g)
        /\ (Leave(q) /\ UNCHANGED <<store, issued>>) \/ Get(f)' = v
        /\ v # None
    BY <1>11, <2>0, CommitGet
  <2>3. UNCHANGED <<master, raced>>
    BY <1>11 DEF PutCommit
  <2>4. \/ Leave(q) /\ issued' = issued
        \/ StartPuts(q, Tail(p)) /\ Tail(p) # <<>> /\ issued' = issued
        \/ f = "secret" /\ Finish(q, v)
        \/ Goto(q, "signing") /\ puts' = [puts EXCEPT ![q] = <<>>] /\ issued' = issued
    BY <1>11, <2>0 DEF PutCommit
  <2>5. CASE Leave(q) /\ UNCHANGED <<store, issued>>
    BY <1>3, <2>3, <2>5
  <2>6. CASE Get(f)' = v
    <3>1. CASE p \in SecretPuts
      <4>1. f = "secret" /\ v \in Nat /\ Tail(p) = <<>>
        BY <2>0, <3>1, PendingSecret
      <4>2. SUFFICES ASSUME ~raced PROVE Valid' /\ Alone'
        BY <2>3 DEF SecretInv
      <4>3. Get("secret") = None /\ (\A r \in Requests \ {q} : ~Makes(puts[r])) /\ Valid
        BY <3>1, <4>2 DEF SecretInv, Alone, Makes
      <4>4. \A t \in issued : t.under # master
        BY <4>3, NoneAssumption DEF Valid, TypeInv, TypeOK, Tokens
      <4>5. issued' \subseteq issued \cup
                {[name |-> cred[q].name, secret |-> v, under |-> master]}
            /\ puts' = [puts EXCEPT ![q] = <<>>]
        BY <1>8, <2>4, <4>1 DEF Leave
      <4>6. Valid'
        BY <2>3, <2>6, <4>1, <4>4, <4>5 DEF Valid
      <4>7. Alone'
        BY <1>0, <4>3, <4>5, MakesNot DEF Alone, LocalTypes
      <4> QED
        BY <4>6, <4>7
    <3>2. CASE p \in Accounts \cup Hashes
      <4>1. f \in {"username", "hash"} /\ (Tail(p) \in Hashes \/ Tail(p) = <<>>)
        BY <2>0, <3>2, PendingAccount, PendingHash
      <4>2. Get("secret")' = Get("secret")
        BY <2>2, <4>1 DEF Fields
      <4>3. issued' = issued /\ (puts' = [puts EXCEPT ![q] = <<>>]
                                 \/ puts' = [puts EXCEPT ![q] = Tail(p)])
        BY <2>4, <4>1 DEF Leave, StartPuts
      <4>4. ~Makes(puts'[q]) /\ \A k \in Requests \ {q} : puts'[k] = puts[k]
        BY <1>0, <4>1, <4>3, MakesNot DEF LocalTypes
      <4> QED
        BY <2>3, <4>2, <4>3, <4>4, SecretQuiet
    <3> QED
      BY <2>1, <3>1, <3>2 DEF Pending
  <2> QED
    BY <2>2, <2>5, <2>6
<1>12. ASSUME NEW q \in Requests, FailRequest(q) PROVE SecretInv'
  BY <1>3, <1>12 DEF FailRequest, history
<1>13. CASE Restart
  <2>1. \A k \in Requests : ~Makes(puts'[k])
    BY <1>13, MakesNot DEF Restart
  <2>2. UNCHANGED <<store, issued, raced>>
    BY <1>13 DEF Restart
  <2>3. CASE master' = master
    BY <2>1, <2>2, <2>3 DEF SecretInv, Valid, Alone, Get
  <2>4. CASE master' = master + 1
    <3>1. \A t \in issued : t.under \in Nat /\ t.under <= master
      BY DEF TypeInv, TypeOK, IssuedOK, Tokens
    <3>2. master \in Nat
      BY BoundsAssumption DEF TypeInv, TypeOK
    <3>3. \A t \in issued : t.under # master'
      BY <2>4, <3>1, <3>2
    <3> QED
      BY <2>1, <2>2, <3>3 DEF SecretInv, Valid, Alone
  <2> QED
    BY <1>13, <2>3, <2>4 DEF Restart
<1> QED
  BY <1>1, <1>4, <1>5, <1>6, <1>7, <1>9, <1>10, <1>11, <1>12, <1>13
     DEF Next, Ask, Visit, ChangePassword

\* A session of the present master key stays valid unless two requests made a
\* secret each (SessionsLast).
THEOREM SessionsStay == Spec => []SessionsLast
<1>1. Init => SecretInv
  BY MakesNot DEF Init, SecretInv, Valid, Alone
<1>2. SecretInv => SessionsLast
  BY DEF SecretInv, Valid, SessionsLast
<1> QED
  BY <1>1, <1>2, TypeAlways, SecretStep, PTL DEF Spec

-----------------------------------------------------------------------------
(* Secrets are made once *)

SecretRow == store["secret"]

\* A secret on its way is new: it is not in the table, in no session, and no other
\* request has it.
New(q) ==
    LET s == Head(puts[q]).value
    IN  /\ s <= secrets
        /\ SecretRow.under # 0 => SecretRow.value # s
        /\ \A t \in issued : t.secret # s
        /\ \A r \in Requests \ {q} : Makes(puts[r]) => Head(puts[r]).value # s

\* So a secret tells the master key of its time; and a change of password was sent
\* with the secret of some session.
MintInv ==
    /\ SecretRow.under # 0 => SecretRow.value <= secrets
    /\ \A t \in issued :
          /\ t.secret <= secrets
          /\ SecretRow.under # 0 /\ t.secret = SecretRow.value => t.under = SecretRow.under
    /\ \A q \in Requests : Makes(puts[q]) => New(q)
    /\ \A q \in Requests : op[q] = "change" => \E t \in issued : t.secret = cred[q].secret

\* What the requests but q have is left as it is.
Apart(q) ==
    \A k \in Requests \ {q} : /\ pc'[k] = pc[k] /\ op'[k] = op[k]
                              /\ cred'[k] = cred[k] /\ puts'[k] = puts[k]

\* A step of request q that makes no secret, stores none and hands none out.
LEMMA MintQuiet ==
    ASSUME MintInv, NEW q \in Requests, Apart(q),
           secrets' = secrets, issued' = issued, SecretRow' = SecretRow,
           Makes(puts'[q]) => puts'[q] = puts[q],
           op'[q] = "change" => \E t \in issued : t.secret = cred'[q].secret
    PROVE  MintInv'
<1>1. \A k \in Requests : Makes(puts'[k]) => puts'[k] = puts[k]
  BY DEF Apart
<1>2. \A k \in Requests : Makes(puts'[k]) => New(k)'
  BY <1>1 DEF MintInv, New
<1>3. \A k \in Requests : op'[k] = "change" => \E t \in issued' : t.secret = cred'[k].secret
  BY DEF MintInv, Apart
<1> QED
  BY <1>2, <1>3 DEF MintInv

\* The lists of puts tell each other apart.
LEMMA PutsApart ==
    /\ ~Makes(<<>>) /\ <<>> \notin Accounts /\ <<>> \notin Hashes
    /\ \A p \in Accounts : p \notin Hashes /\ ~Makes(p) /\ Tail(p) \in Hashes
    /\ \A p \in Hashes : ~Makes(p) /\ Tail(p) = <<>>
    /\ \A p : Makes(p) => Tail(p) = <<>>
BY PendingAccount, PendingHash, PendingSecret DEF Makes

\* What becomes of a request that leaves, goes on, or starts to put.
LEMMA LeaveMoves ==
    ASSUME LocalTypes, NEW q \in Requests, Leave(q)
    PROVE  /\ Apart(q)
           /\ pc'[q] = "idle" /\ op'[q] = "none" /\ puts'[q] = <<>> /\ cred'[q] = NoCred
BY DEF LocalTypes, Leave, Goto, Apart

LEMMA StartPutsMoves ==
    ASSUME LocalTypes, NEW q \in Requests, NEW ps, StartPuts(q, ps)
    PROVE  /\ Apart(q)
           /\ pc'[q] = "putting" /\ op'[q] = op[q] /\ puts'[q] = ps /\ cred'[q] = cred[q]
BY DEF LocalTypes, StartPuts, Goto, Apart

LEMMA GotoMoves ==
    ASSUME LocalTypes, NEW q \in Requests, NEW p, Goto(q, p), UNCHANGED <<op, cred>>,
           (puts' = puts /\ puts[q] = <<>>) \/ puts' = [puts EXCEPT ![q] = <<>>]
    PROVE  /\ Apart(q)
           /\ pc'[q] = p /\ op'[q] = op[q] /\ puts'[q] = <<>> /\ cred'[q] = cred[q]
BY DEF LocalTypes, Goto, Apart

LEMMA ArriveMoves ==
    ASSUME LocalTypes, LocalOK, NEW q \in Requests, NEW o, NEW p, NEW c, Arrive(q, o, p, c)
    PROVE  /\ Apart(q)
           /\ pc'[q] = p /\ op'[q] = o /\ puts'[q] = <<>> /\ cred'[q] = c
BY DEF LocalTypes, LocalOK, Shape, Arrive, Goto, Apart

\* The serializer with secret s: a session for a setup and a login, the next check
\* for a change that was sent with s, the end for all others.
LEMMA FinishMoves ==
    ASSUME LocalTypes, NEW q \in Requests, NEW s, Finish(q, s)
    PROVE  /\ Apart(q) /\ puts'[q] = <<>>
           /\ \/ issued' = issued
              \/ /\ op[q] \in {"init", "login"}
                 /\ issued' = issued \cup
                       {[name |-> cred[q].name, secret |-> s, under |-> master]}
           /\ \/ pc'[q] = "idle" /\ op'[q] = "none" /\ cred'[q] = NoCred
              \/ /\ op[q] = "change" /\ cred[q].secret = s
                 /\ pc'[q] = "readingName" /\ op'[q] = op[q] /\ cred'[q] = cred[q]
<1>1. CASE Leave(q)
  BY <1>1, LeaveMoves DEF Finish
<1>2. CASE ~Leave(q)
  BY <1>2, GotoMoves DEF Finish
<1> QED
  BY <1>1, <1>2

\* Every request that is checked, verified, or breaks off makes no secret.
LEMMA OtherMoves ==
    ASSUME TypeInv, NEW q \in Requests,
           Check(q) \/ ReadName(q) \/ ReadHash(q) \/ PutLoad(q) \/ FailRequest(q)
    PROVE  /\ Apart(q) /\ UNCHANGED <<store, master, secrets, issued>>
           /\ puts'[q] \in Accounts \cup Hashes \cup {<<>>, puts[q]}
           /\ op'[q] # "none" => op'[q] = op[q] /\ cred'[q] = cred[q]
<1>0. LocalTypes /\ LocalOK
  BY DEF TypeInv, TypeOK, LocalTypes
<1>1. CASE Check(q)
  <2>1. /\ puts[q] = <<>>
        /\ op[q] = "init" => cred[q].name \in Names /\ cred[q].password \in Passwords
        /\ op[q] \in {"init", "login"}
    BY <1>0, <1>1 DEF Check, LocalOK, Shape
  <2>2. op[q] = "init" => InitPuts(cred[q]) \in Accounts
    BY <2>1 DEF InitPuts, Accounts, UserPut, HashPut
  <2>3. \/ Leave(q)
        \/ Goto(q, "readingName") /\ UNCHANGED <<op, cred, puts>>
        \/ op[q] = "init" /\ StartPuts(q, InitPuts(cred[q]))
    BY <1>1, <2>1 DEF Check
  <2>4. UNCHANGED <<store, master, secrets, issued>>
    BY <1>1 DEF Check
  <2> QED
    BY <1>0, <2>1, <2>2, <2>3, <2>4, LeaveMoves, GotoMoves, StartPutsMoves
<1>2. CASE ReadName(q)
  <2>1. puts[q] = <<>> /\ UNCHANGED <<store, master, secrets, issued>>
    BY <1>0, <1>2 DEF ReadName, LocalOK, Shape, history
  <2> QED
    BY <1>0, <1>2, <2>1, LeaveMoves, GotoMoves DEF ReadName
<1>3. CASE ReadHash(q)
  <2>1. /\ puts[q] = <<>>
        /\ op[q] = "change" => cred[q].new \in Passwords
        /\ op[q] \in {"login", "change"}
    BY <1>0, <1>3 DEF ReadHash, LocalOK, Shape
  <2>2. op[q] = "change" => <<[field |-> "hash", value |-> cred[q].new]>> \in Hashes
    BY <2>1 DEF Hashes, HashPut
  <2>3. \/ Leave(q)
        \/ Goto(q, "signing") /\ UNCHANGED <<op, cred, puts>>
        \/ op[q] = "change" /\ StartPuts(q, <<[field |-> "hash", value |-> cred[q].new]>>)
    BY <1>3, <2>1 DEF ReadHash
  <2>4. UNCHANGED <<store, master, secrets, issued>>
    BY <1>3 DEF ReadHash
  <2> QED
    BY <1>0, <2>1, <2>2, <2>3, <2>4, LeaveMoves, GotoMoves, StartPutsMoves
<1>4. CASE PutLoad(q)
  BY <1>0, <1>4 DEF PutLoad, Goto, LocalTypes, Apart, history
<1>5. CASE FailRequest(q)
  BY <1>0, <1>5, LeaveMoves DEF FailRequest, history
<1> QED
  BY <1>1, <1>2, <1>3, <1>4, <1>5

\* The ways a put can end.
LEMMA CommitMoves ==
    ASSUME TypeInv, NEW q \in Requests, PutCommit(q),
           NEW f, f = Head(puts[q]).field, NEW v, v = Head(puts[q]).value
    PROVE  /\ puts[q] \in Pending
           /\ Apart(q) /\ UNCHANGED <<master, secrets, sent, overlapped>>
           /\ \/ Leave(q) /\ UNCHANGED <<store, issued>>
              \/ /\ store' = [store EXCEPT ![f] = [value |-> v, under |-> master]]
                 /\ \/ StartPuts(q, Tail(puts[q])) /\ Tail(puts[q]) # <<>> /\ issued' = issued
                    \/ f = "secret" /\ Finish(q, v)
                    \/ /\ f # "secret" /\ op[q] = "init" /\ issued' = issued
                       /\ Tail(puts[q]) = <<>>
                       /\ Goto(q, "signing") /\ puts' = [puts EXCEPT ![q] = <<>>]
                       /\ UNCHANGED <<op, cred>>
                    \/ /\ f # "secret" /\ op[q] # "init" /\ issued' = issued
                       /\ Tail(puts[q]) = <<>> /\ Leave(q)
<1>0. LocalTypes /\ LocalOK
  BY DEF TypeInv, TypeOK, LocalTypes
<1>1. puts[q] \in Pending
  BY <1>0 DEF PutCommit, LocalOK, Shape
<1>2. \/ Leave(q) /\ UNCHANGED <<store, issued>>
      \/ /\ store' = [store EXCEPT ![f] = [value |-> v, under |-> master]]
         /\ \/ StartPuts(q, Tail(puts[q])) /\ Tail(puts[q]) # <<>> /\ issued' = issued
            \/ f = "secret" /\ Finish(q, v)
            \/ /\ f # "secret" /\ op[q] = "init" /\ issued' = issued
               /\ Tail(puts[q]) = <<>>
               /\ Goto(q, "signing") /\ puts' = [puts EXCEPT ![q] = <<>>]
               /\ UNCHANGED <<op, cred>>
            \/ /\ f # "secret" /\ op[q] # "init" /\ issued' = issued
               /\ Tail(puts[q]) = <<>> /\ Leave(q)
  BY DEF PutCommit
<1>3. Apart(q)
  BY <1>0, <1>2, LeaveMoves, StartPutsMoves, FinishMoves, GotoMoves
<1> QED
  BY <1>1, <1>2, <1>3 DEF PutCommit

LEMMA MintStep ==
    ASSUME TypeInv, MintInv, [Next]_vars
    PROVE  MintInv'
<1>0. LocalTypes /\ LocalOK /\ store \in [Fields -> Rows] /\ "secret" \in Fields
      /\ secrets \in Nat
  BY BoundsAssumption DEF TypeInv, TypeOK, LocalTypes, Fields
<1>1. CASE UNCHANGED vars
  BY <1>1 DEF vars, local, history, MintInv, New, SecretRow
<1>2. ASSUME NEW q \in Requests, NEW o, NEW p, NEW c, Arrive(q, o, p, c),
             o = "change" => \E t \in issued : t.secret = c.secret
      PROVE  MintInv'
  <2>1. Apart(q) /\ op'[q] = o /\ puts'[q] = <<>> /\ cred'[q] = c
    BY <1>0, <1>2, ArriveMoves
  <2>2. UNCHANGED <<store, secrets, issued>>
    BY <1>2 DEF Arrive, history
  <2> QED
    BY <1>2, <2>1, <2>2, PutsApart, MintQuiet DEF SecretRow
<1>3. ASSUME NEW q \in Requests, NEW o \in {"init", "login"}, NEW n, NEW w, Ask(q, o, n, w)
      PROVE  MintInv'
  BY <1>2, <1>3 DEF Ask
<1>4. ASSUME NEW q \in Requests, NEW t \in issued, Visit(q, t) PROVE MintInv'
  BY <1>2, <1>4 DEF Visit
<1>5. ASSUME NEW q \in Requests, NEW t \in issued, NEW old, NEW w,
             ChangePassword(q, t, old, w)
      PROVE  MintInv'
  BY <1>2, <1>5 DEF ChangePassword
<1>6. ASSUME NEW q \in Requests,
             Check(q) \/ ReadName(q) \/ ReadHash(q) \/ PutLoad(q) \/ FailRequest(q)
      PROVE  MintInv'
  <2>1. /\ Apart(q) /\ UNCHANGED <<store, secrets, issued>>
        /\ Makes(puts'[q]) => puts'[q] = puts[q]
        /\ op'[q] = "change" => op[q] = "change" /\ cred'[q] = cred[q]
    BY <1>6, OtherMoves, PutsApart
  <2> QED
    BY <2>1, MintQuiet DEF SecretRow, MintInv
<1>7. ASSUME NEW q \in Requests, Sign(q) PROVE MintInv'
  <2>1. CASE Signs(Get("secret"))
    <3>1. Finish(q, Get("secret")) /\ UNCHANGED <<store, master, secrets>>
      BY <1>7, <2>1 DEF Sign
    <3>2. SecretRow.under = master /\ Get("secret") = SecretRow.value /\ master # 0
      BY <2>1, BoundsAssumption DEF Signs, Get, SecretRow, TypeInv, TypeOK
    <3>3. /\ Apart(q) /\ puts'[q] = <<>>
          /\ \A t \in issued' : t \notin issued => t.secret = SecretRow.value /\ t.under = master
          /\ issued \subseteq issued'
          /\ op'[q] = "change" => op[q] = "change" /\ cred'[q] = cred[q]
      BY <1>0, <3>1, <3>2, FinishMoves
    <3>4. \A t \in issued' : /\ t.secret <= secrets
                             /\ t.secret = SecretRow.value => t.under = SecretRow.under
      BY <3>2, <3>3 DEF MintInv
    <3>5. \A k \in Requests : Makes(puts'[k]) => k # q /\ puts'[k] = puts[k]
      BY <3>3, PutsApart DEF Apart
    <3>6. \A k \in Requests : Makes(puts'[k]) => New(k)'
      BY <3>1, <3>2, <3>3, <3>5 DEF MintInv, New, SecretRow
    <3>7. \A k \in Requests : op'[k] = "change" =>
             \E t \in issued' : t.secret = cred'[k].secret
      BY <3>3 DEF MintInv, Apart
    <3> QED
      BY <3>1, <3>4, <3>6, <3>7 DEF MintInv, SecretRow
  <2>2. CASE ~Signs(Get("secret"))
    <3>1. /\ StartPuts(q, Secret(secrets + 1)) /\ secrets' = secrets + 1
          /\ UNCHANGED <<store, issued>>
      BY <1>7, <2>2 DEF Sign
    <3>2. Apart(q) /\ puts'[q] = Secret(secrets + 1) /\ op'[q] = op[q] /\ cred'[q] = cred[q]
      BY <1>0, <3>1, StartPutsMoves
    <3>3. Head(puts'[q]).value = secrets + 1
      BY <3>2 DEF Secret
    <3>4. SecretRow.under # 0 => SecretRow.value \in Nat
      BY <1>0 DEF TypeInv, StoreOK, SecretRow, Kind
    <3>5. \A t \in issued : t.secret \in Nat
      BY DEF TypeInv, TypeOK, Tokens
    <3>6. \A k \in Requests : Makes(puts[k]) =>
             Head(puts[k]).value \in Nat /\ Head(puts[k]).value <= secrets
      BY PendingSecret DEF Makes, MintInv, New
    <3>7. New(q)'
      BY <1>0, <3>1, <3>2, <3>3, <3>4, <3>5, <3>6 DEF New, MintInv, SecretRow, Apart
    <3>8. \A k \in Requests \ {q} : Makes(puts'[k]) => New(k)'
      BY <1>0, <3>1, <3>2, <3>3, <3>6 DEF New, MintInv, SecretRow, Apart
    <3>9. \A k \in Requests : op'[k] = "change" =>
             \E t \in issued' : t.secret = cred'[k].secret
      BY <3>1, <3>2 DEF MintInv, Apart
    <3>10. /\ SecretRow'.under # 0 => SecretRow'.value <= secrets'
           /\ \A t \in issued' :
                 /\ t.secret <= secrets'
                 /\ SecretRow'.under # 0 /\ t.secret = SecretRow'.value =>
                       t.under = SecretRow'.under
      BY <1>0, <3>1, <3>4, <3>5 DEF MintInv, SecretRow
    <3> QED
      BY <3>7, <3>8, <3>9, <3>10 DEF MintInv
  <2> QED
    BY <2>1, <2>2
<1>8. ASSUME NEW q \in Requests, PutCommit(q) PROVE MintInv'
  <2>0. PICK f, v : f = Head(puts[q]).field /\ v = Head(puts[q]).value
    OBVIOUS
  <2>1. /\ puts[q] \in Pending
        /\ Apart(q) /\ UNCHANGED <<master, secrets>>
        /\ \/ Leave(q) /\ UNCHANGED <<store, issued>>
           \/ /\ store' = [store EXCEPT ![f] = [value |-> v, under |-> master]]
              /\ \/ StartPuts(q, Tail(puts[q])) /\ Tail(puts[q]) # <<>> /\ issued' = issued
                 \/ f = "secret" /\ Finish(q, v)
                 \/ /\ f # "secret" /\ issued' = issued
                    /\ Goto(q, "signing") /\ puts' = [puts EXCEPT ![q] = <<>>]
                    /\ UNCHANGED <<op, cred>>
                 \/ f # "secret" /\ issued' = issued /\ Leave(q)
    BY <1>8, <2>0, CommitMoves
  <2>2. CASE Leave(q) /\ UNCHANGED <<store, issued>>
    BY <1>0, <2>1, <2>2, LeaveMoves, PutsApart, MintQuiet DEF SecretRow
  <2>3. CASE store' = [store EXCEPT ![f] = [value |-> v, under |-> master]]
             /\ puts[q] \in Accounts \cup Hashes
    <3>1. f \in Fields \ {"secret"} /\ (Tail(puts[q]) # <<>> => Tail(puts[q]) \in Hashes)
      BY <2>0, <2>3, PendingAccount, PendingHash DEF Fields
    <3>2. SecretRow' = SecretRow
      BY <1>0, <2>3, <3>1 DEF SecretRow
    <3>3. /\ issued' = issued /\ puts'[q] \in Hashes \cup {<<>>}
          /\ op'[q] # "none" => op'[q] = op[q] /\ cred'[q] = cred[q]
      BY <1>0, <2>1, <2>2, <3>1, LeaveMoves, StartPutsMoves, GotoMoves
    <3> QED
      BY <2>1, <3>2, <3>3, PutsApart, MintQuiet DEF MintInv
  <2>4. CASE store' = [store EXCEPT ![f] = [value |-> v, under |-> master]]
             /\ puts[q] \in SecretPuts
    <3>1. f = "secret" /\ v \in Nat /\ Tail(puts[q]) = <<>> /\ New(q)
      BY <2>0, <2>4, PendingSecret DEF MintInv, Makes
    <3>2. SecretRow' = [value |-> v, under |-> master]
      BY <1>0, <2>4, <3>1 DEF SecretRow
    <3>3. \/ Leave(q) /\ UNCHANGED <<store, issued>>
          \/ Finish(q, v)
      BY <2>1, <3>1
    <3>4. /\ puts'[q] = <<>>
          /\ \A t \in issued' : t \notin issued => t.secret = v /\ t.under = master
          /\ issued \subseteq issued'
          /\ op'[q] = "change" => op[q] = "change" /\ cred'[q] = cred[q]
      BY <1>0, <3>3, LeaveMoves, FinishMoves
    <3>5. \A t \in issued' : t.secret <= secrets /\ (t.secret = v => t.under = master)
      BY <2>0, <3>1, <3>4 DEF MintInv, New
    <3>6. \A k \in Requests : Makes(puts'[k]) =>
             k # q /\ puts'[k] = puts[k] /\ Head(puts[k]).value # v
      BY <2>0, <2>1, <3>1, <3>4, PutsApart DEF Apart, New
    <3>7. \A k \in Requests : Makes(puts'[k]) => New(k)'
      BY <2>1, <3>2, <3>4, <3>6 DEF MintInv, New
    <3>8. \A k \in Requests : op'[k] = "change" =>
             \E t \in issued' : t.secret = cred'[k].secret
      BY <2>1, <3>4 DEF MintInv, Apart
    <3>9. v <= secrets
      BY <2>0, <3>1 DEF New
    <3> QED
      BY <2>1, <3>2, <3>5, <3>7, <3>8, <3>9 DEF MintInv
  <2> QED
    BY <2>1, <2>2, <2>3, <2>4 DEF Pending
<1>9. CASE Restart
  BY <1>9, PutsApart DEF Restart, MintInv, SecretRow
<1> QED
  BY <1>1, <1>3, <1>4, <1>5, <1>6, <1>7, <1>8, <1>9 DEF Next

-----------------------------------------------------------------------------
(* Name and password of one client *)

\* A request that rests on an account that is complete: a setup that is done with
\* its puts or a login past its check, and a change whose cookie is in order.
Settled(p, o, ps) ==
    \/ o \in {"init", "login"} /\ (p = "signing" \/ Makes(ps))
    \/ o = "change" /\ (p \in {"readingName", "readingHash"} \/ ps \in Hashes)

\* Who stores what, and with which password.
Entitled(o, c, ps) ==
    /\ o \in {"init", "login", "change"} => c.password \in Passwords
    /\ ps \in Accounts => o = "init"
    /\ ps \in Hashes => o \in {"init", "change"}

\* Whoever has a session of the present key, or is about to get one, finds a hash.
HashInv ==
    /\ \A t \in issued : t.under = master => Get("hash") # None
    /\ \A q \in Requests : /\ Settled(pc[q], op[q], puts[q]) => Get("hash") # None
                           /\ Entitled(op[q], cred[q], puts[q])

LEMMA HashQuiet ==
    ASSUME HashInv, NEW q \in Requests, Apart(q), master' = master,
           Get("hash") # None => Get("hash")' # None,
           issued' # issued => Get("hash")' # None,
           Settled(pc'[q], op'[q], puts'[q]) => Get("hash")' # None,
           Entitled(op'[q], cred'[q], puts'[q])
    PROVE  HashInv'
BY DEF HashInv, Apart

\* What is at rest neither needs a hash nor stores anything.
LEMMA RestSettled ==
    /\ \A o : ~Settled("idle", o, <<>>) /\ ~Settled("checking", o, <<>>)
    /\ \A p : ~Settled(p, "visit", <<>>) /\ ~Settled(p, "none", <<>>)
    /\ ~Settled("signing", "change", <<>>)
    /\ \A c : Entitled("none", c, <<>>) /\ Entitled("visit", c, <<>>)
    /\ \A o, c : c.password \in Passwords => Entitled(o, c, <<>>)
BY PutsApart DEF Settled, Entitled

LEMMA HashStep ==
    ASSUME TypeInv, MintInv, HashInv, [Next]_vars
    PROVE  HashInv'
<1>0. LocalTypes /\ LocalOK
  BY DEF TypeInv, TypeOK, LocalTypes
<1>1. CASE UNCHANGED vars
  BY <1>1 DEF vars, local, history, HashInv, Get
<1>2. ASSUME NEW q \in Requests, NEW o, NEW p, NEW c, Arrive(q, o, p, c),
             ~Settled(p, o, <<>>), Entitled(o, c, <<>>)
      PROVE  HashInv'
  <2>1. Apart(q) /\ pc'[q] = p /\ op'[q] = o /\ puts'[q] = <<>> /\ cred'[q] = c
    BY <1>0, <1>2, ArriveMoves
  <2>2. UNCHANGED <<master, issued>> /\ Get("hash")' = Get("hash")
    BY <1>2 DEF Arrive, history, Get
  <2> QED
    BY <1>2, <2>1, <2>2, HashQuiet
<1>3. ASSUME NEW q \in Requests, NEW o \in {"init", "login"}, NEW n \in Names,
             NEW w \in Passwords, Ask(q, o, n, w)
      PROVE  HashInv'
  <2> DEFINE c == [NoCred EXCEPT !.name = n, !.password = w]
  <2>1. c.password \in Passwords
    BY DEF NoCred
  <2>2. Arrive(q, o, "checking", c)
    BY <1>3 DEF Ask
  <2> HIDE DEF c
  <2> QED
    BY <1>2, <2>1, <2>2, RestSettled
<1>4. ASSUME NEW q \in Requests, NEW t \in issued, Visit(q, t) PROVE HashInv'
  BY <1>2, <1>4, RestSettled DEF Visit
<1>5. ASSUME NEW q \in Requests, NEW t \in issued, NEW old \in Passwords, NEW w,
             ChangePassword(q, t, old, w)
      PROVE  HashInv'
  <2> DEFINE c == [name |-> t.name, password |-> old, new |-> w, secret |-> t.secret]
  <2>1. c.password \in Passwords
    OBVIOUS
  <2>2. Arrive(q, "change", "signing", c)
    BY <1>5 DEF ChangePassword
  <2> HIDE DEF c
  <2> QED
    BY <1>2, <2>1, <2>2, RestSettled
\* A request that leaves where it is, with the table as it was.
<1>6. ASSUME NEW q \in Requests, Leave(q), UNCHANGED <<store, master, issued>>
      PROVE  HashInv'
  <2>1. Apart(q) /\ pc'[q] = "idle" /\ op'[q] = "none" /\ puts'[q] = <<>>
    BY <1>0, <1>6, LeaveMoves
  <2> QED
    BY <1>6, <2>1, RestSettled, HashQuiet DEF Get
<1>7. ASSUME NEW q \in Requests, Check(q) PROVE HashInv'
  <2>1. /\ op[q] \in {"init", "login"} /\ puts[q] = <<>> /\ cred[q].name \in Names
        /\ UNCHANGED <<store, master, issued>> /\ cred[q].password \in Passwords
    BY <1>0, <1>7 DEF Check, LocalOK, Shape, HashInv, Entitled
  <2>2. CASE Goto(q, "readingName") /\ UNCHANGED <<op, cred, puts>> /\ op[q] = "login"
    <3>1. Apart(q) /\ pc'[q] = "readingName" /\ op'[q] = "login" /\ puts'[q] = <<>>
          /\ cred'[q] = cred[q]
      BY <1>0, <2>1, <2>2, GotoMoves
    <3>2. ~Settled("readingName", "login", <<>>)
      BY PutsApart DEF Settled
    <3> QED
      BY <2>1, <3>1, <3>2, RestSettled, HashQuiet DEF Get
  <2>3. CASE StartPuts(q, InitPuts(cred[q])) /\ op[q] = "init"
    <3>1. Apart(q) /\ pc'[q] = "putting" /\ op'[q] = "init" /\ cred'[q] = cred[q]
          /\ puts'[q] = InitPuts(cred[q])
      BY <1>0, <2>3, StartPutsMoves
    <3>2. puts'[q] \in Accounts
      BY <2>1, <3>1 DEF InitPuts, Accounts, UserPut, HashPut
    <3>3. ~Settled("putting", "init", puts'[q]) /\ Entitled("init", cred[q], puts'[q])
      BY <2>1, <3>2, PutsApart DEF Settled, Entitled
    <3> QED
      BY <2>1, <3>1, <3>3, HashQuiet DEF Get
  <2> QED
    BY <1>6, <1>7, <2>1, <2>2, <2>3 DEF Check
<1>8. ASSUME NEW q \in Requests, ReadName(q) PROVE HashInv'
  <2>1. /\ op[q] \in {"login", "change"} /\ puts[q] = <<>> /\ pc[q] = "readingName"
        /\ UNCHANGED <<store, master, issued>> /\ Entitled(op[q], cred[q], puts[q])
    BY <1>0, <1>8 DEF ReadName, LocalOK, Shape, HashInv, history
  <2>2. CASE Goto(q, "readingHash") /\ UNCHANGED <<op, cred, puts>>
    <3>1. Apart(q) /\ pc'[q] = "readingHash" /\ op'[q] = op[q] /\ puts'[q] = <<>>
          /\ cred'[q] = cred[q]
      BY <1>0, <2>1, <2>2, GotoMoves
    <3>2. Settled("readingHash", op[q], <<>>) => Settled(pc[q], op[q], puts[q])
      BY <2>1, PutsApart DEF Settled
    <3> QED
      BY <2>1, <3>1, <3>2, HashQuiet DEF Get, HashInv
  <2> QED
    BY <1>6, <1>8, <2>1, <2>2 DEF ReadName
<1>9. ASSUME NEW q \in Requests, ReadHash(q) PROVE HashInv'
  <2>1. /\ op[q] \in {"login", "change"} /\ puts[q] = <<>>
        /\ UNCHANGED <<store, master, issued>> /\ cred[q].password \in Passwords
        /\ op[q] = "change" => cred[q].new \in Passwords
    BY <1>0, <1>9 DEF ReadHash, LocalOK, Shape, HashInv, Entitled
  <2>2. CASE Get("hash") = cred[q].password
    <3>1. Get("hash")' # None /\ Get("hash") # None
      BY <2>1, <2>2, NoneAssumption DEF Get
    <3>2. CASE Goto(q, "signing") /\ UNCHANGED <<op, cred, puts>>
      <4>1. Apart(q) /\ op'[q] = op[q] /\ puts'[q] = <<>> /\ cred'[q] = cred[q]
        BY <1>0, <2>1, <3>2, GotoMoves
      <4> QED
        BY <2>1, <3>1, <4>1, RestSettled, HashQuiet
    <3>3. CASE StartPuts(q, <<[field |-> "hash", value |-> cred[q].new]>>) /\ op[q] = "change"
      <4>1. Apart(q) /\ op'[q] = op[q] /\ cred'[q] = cred[q]
            /\ puts'[q] = <<[field |-> "hash", value |-> cred[q].new]>>
        BY <1>0, <3>3, StartPutsMoves
      <4>2. puts'[q] \in Hashes
        BY <2>1, <3>3, <4>1 DEF Hashes, HashPut
      <4>3. Entitled(op[q], cred[q], puts'[q])
        BY <2>1, <3>3, <4>2, PutsApart DEF Entitled
      <4> QED
        BY <2>1, <3>1, <4>1, <4>3, HashQuiet
    <3> QED
      BY <1>9, <2>1, <2>2, <3>2, <3>3 DEF ReadHash
  <2> QED
    BY <1>6, <1>9, <2>1, <2>2 DEF ReadHash
\* The serializer with secret s; a change goes on if it was sent with s.
<1>10. ASSUME NEW q \in Requests, NEW s, Finish(q, s), master' = master,
              Get("hash")' = Get("hash"),
              op[q] \in {"init", "login"} => Get("hash") # None,
              op[q] = "change" /\ cred[q].secret = s => Get("hash") # None
      PROVE  HashInv'
  <2>1. /\ Apart(q) /\ puts'[q] = <<>>
        /\ issued' # issued => op[q] \in {"init", "login"}
        /\ \/ pc'[q] = "idle" /\ op'[q] = "none"
           \/ /\ op[q] = "change" /\ cred[q].secret = s
              /\ op'[q] = "change" /\ cred'[q] = cred[q]
    BY <1>0, <1>10, FinishMoves
  <2>2. op[q] = "change" => cred[q].password \in Passwords
    BY DEF HashInv, Entitled
  <2>3. Entitled(op'[q], cred'[q], puts'[q])
    BY <2>1, <2>2, RestSettled
  <2>4. Settled(pc'[q], op'[q], puts'[q]) => Get("hash")' # None
    BY <1>10, <2>1, RestSettled
  <2> QED
    BY <1>10, <2>1, <2>3, <2>4, HashQuiet
<1>11. ASSUME NEW q \in Requests, Sign(q) PROVE HashInv'
  <2>1. UNCHANGED <<store, master>> /\ pc[q] = "signing" /\ Get("hash")' = Get("hash")
    BY <1>11 DEF Sign, Get
  <2>2. op[q] \in {"init", "login"} => Get("hash") # None
    BY <2>1 DEF HashInv, Settled
  <2>3. CASE Signs(Get("secret"))
    <3>1. Finish(q, Get("secret"))
      BY <1>11, <2>3 DEF Sign
    <3>2. SecretRow.under = master /\ Get("secret") = SecretRow.value /\ master # 0
      BY <2>3, BoundsAssumption DEF Signs, Get, SecretRow, TypeInv, TypeOK
    <3>3. op[q] = "change" /\ cred[q].secret = Get("secret") => Get("hash") # None
      BY <3>2 DEF MintInv, HashInv
    <3> QED
      BY <1>10, <2>1, <2>2, <3>1, <3>3
  <2>4. CASE ~Signs(Get("secret"))
    <3>1. StartPuts(q, Secret(secrets + 1)) /\ issued' = issued
      BY <1>11, <2>4 DEF Sign
    <3>2. Apart(q) /\ pc'[q] = "putting" /\ op'[q] = op[q] /\ cred'[q] = cred[q]
          /\ puts'[q] = Secret(secrets + 1)
      BY <1>0, <3>1, StartPutsMoves
    <3>3. Makes(puts'[q])
      BY <3>2, BoundsAssumption DEF Makes, SecretPuts, TypeInv, TypeOK
    <3>4. puts'[q] \notin Accounts /\ puts'[q] \notin Hashes
      BY <3>3, PutsApart
    <3>5. Settled(pc'[q], op'[q], puts'[q]) => Get("hash")' # None
      BY <2>1, <2>2, <3>2, <3>4 DEF Settled
    <3>6. Entitled(op'[q], cred'[q], puts'[q])
      BY <3>2, <3>4 DEF HashInv, Entitled
    <3> QED
      BY <2>1, <3>1, <3>2, <3>5, <3>6, HashQuiet
  <2> QED
    BY <2>3, <2>4
<1>12. ASSUME NEW q \in Requests, PutLoad(q) PROVE HashInv'
  <2>1. Apart(q) /\ pc[q] = "putting" /\ pc'[q] = "committing" /\ op'[q] = op[q]
        /\ cred'[q] = cred[q] /\ puts'[q] = puts[q]
    BY <1>0, <1>12 DEF PutLoad, LocalTypes, Goto, Apart
  <2>2. UNCHANGED <<master, issued>> /\ Get("hash")' = Get("hash")
    BY <1>12 DEF PutLoad, history, Get
  <2>3. Settled(pc'[q], op'[q], puts'[q]) => Settled(pc[q], op[q], puts[q])
    BY <2>1 DEF Settled
  <2> QED
    BY <2>1, <2>2, <2>3, HashQuiet DEF HashInv
<1>13. ASSUME NEW q \in Requests, PutCommit(q) PROVE HashInv'
  <2>0. PICK f, v : f = Head(puts[q]).field /\ v = Head(puts[q]).value
    OBVIOUS
  <2>1. /\ puts[q] \in Pending
        /\ Apart(q) /\ UNCHANGED <<master, secrets>>
        /\ \/ Leave(q) /\ UNCHANGED <<store, issued>>
           \/ /\ store' = [store EXCEPT ![f] = [value |-> v, under |-> master]]
              /\ \/ StartPuts(q, Tail(puts[q])) /\ Tail(puts[q]) # <<>> /\ issued' = issued
                 \/ f = "secret" /\ Finish(q, v)
                 \/ /\ f # "secret" /\ issued' = issued /\ Tail(puts[q]) = <<>>
                    /\ Goto(q, "signing") /\ puts' = [puts EXCEPT ![q] = <<>>]
                    /\ UNCHANGED <<op, cred>>
                 \/ f # "secret" /\ issued' = issued /\ Leave(q)
    BY <1>13, <2>0, CommitMoves
  <2>2. CASE Leave(q) /\ UNCHANGED <<store, issued>>
    BY <1>6, <2>1, <2>2
  <2>3. CASE ~(Leave(q) /\ UNCHANGED <<store, issued>>)
    <3>1. /\ \A g \in Fields \ {f} : Get(g)' = Get(g)
          /\ Get(f)' = v /\ v # None
      BY <1>13, <2>0, <2>3, CommitGet
    <3>2. CASE puts[q] \in Accounts
      <4>1. f = "username" /\ Tail(puts[q]) \in Hashes /\ op[q] = "init"
        BY <2>0, <3>2, PendingAccount DEF HashInv, Entitled
      <4>2. Get("hash")' = Get("hash")
        BY <3>1, <4>1 DEF Fields
      <4>3. Tail(puts[q]) # <<>> /\ ~Makes(Tail(puts[q])) /\ Tail(puts[q]) \notin Accounts
        BY <4>1, PutsApart
      <4>4. /\ issued' = issued
            /\ \/ pc'[q] = "putting" /\ op'[q] = "init" /\ cred'[q] = cred[q]
                  /\ puts'[q] = Tail(puts[q])
               \/ pc'[q] = "idle" /\ op'[q] = "none" /\ puts'[q] = <<>>
        BY <1>0, <2>1, <2>3, <4>1, <4>3, StartPutsMoves, LeaveMoves
      <4>5. ~Settled(pc'[q], op'[q], puts'[q]) /\ Entitled(op'[q], cred'[q], puts'[q])
        BY <4>1, <4>3, <4>4, RestSettled DEF Settled, Entitled, HashInv
      <4> QED
        BY <2>1, <4>2, <4>4, <4>5, HashQuiet
    <3>3. CASE puts[q] \in Hashes
      <4>1. f = "hash" /\ Tail(puts[q]) = <<>> /\ op[q] \in {"init", "change"}
        BY <2>0, <3>3, PendingHash DEF HashInv, Entitled
      <4>2. Get("hash")' # None
        BY <3>1, <4>1
      <4>3. /\ puts'[q] = <<>>
            /\ \/ op'[q] = op[q] /\ cred'[q] = cred[q]
               \/ op'[q] = "none"
        BY <1>0, <2>1, <2>3, <4>1, GotoMoves, LeaveMoves
      <4>4. Entitled(op'[q], cred'[q], puts'[q])
        BY <4>1, <4>3, RestSettled DEF HashInv, Entitled
      <4> QED
        BY <2>1, <4>2, <4>4, HashQuiet
    <3>4. CASE puts[q] \in SecretPuts
      <4>1. f = "secret" /\ Tail(puts[q]) = <<>> /\ New(q) /\ Makes(puts[q])
        BY <2>0, <3>4, PendingSecret DEF MintInv, Makes
      <4>2. Get("hash")' = Get("hash")
        BY <3>1, <4>1 DEF Fields
      <4>3. Finish(q, v)
        BY <1>0, <2>1, <2>3, <4>1
      <4>4. op[q] \in {"init", "login"} => Get("hash") # None
        BY <4>1 DEF HashInv, Settled
      <4>5. op[q] = "change" => cred[q].secret # v
        BY <2>0, <4>1 DEF MintInv, New
      <4> QED
        BY <1>10, <2>1, <4>2, <4>3, <4>4, <4>5
    <3> QED
      BY <2>1, <3>2, <3>3, <3>4 DEF Pending
  <2> QED
    BY <2>2, <2>3
<1>14. ASSUME NEW q \in Requests, FailRequest(q) PROVE HashInv'
  BY <1>6, <1>14 DEF FailRequest, history
<1>15. CASE Restart
  <2>1. \A k \in Requests : pc'[k] = "idle" /\ op'[k] = "none" /\ puts'[k] = <<>>
    BY <1>15 DEF Restart
  <2>2. UNCHANGED <<store, issued>> /\ (master' = master \/ master' = master + 1)
    BY <1>15 DEF Restart
  <2>3. \A t \in issued : t.under \in Nat /\ t.under <= master
    BY DEF TypeInv, TypeOK, IssuedOK, Tokens
  <2>4. master \in Nat
    BY BoundsAssumption DEF TypeInv, TypeOK
  <2>5. \A t \in issued : t.under = master' => Get("hash")' # None
    BY <2>2, <2>3, <2>4 DEF HashInv, Get
  <2> QED
    BY <2>1, <2>2, <2>5, RestSettled DEF HashInv
<1> QED
  BY <1>1, <1>3, <1>4, <1>5, <1>7, <1>8, <1>9, <1>11, <1>12, <1>13, <1>14, <1>15 DEF Next

-----------------------------------------------------------------------------
(* The account is of one client *)

\* A setup that has its name or its hash to store, and one that no other setup
\* overlaps knows how far it is.
Storing(q) == op[q] = "init" /\ puts[q] \in Accounts \cup Hashes

SetupBacked(q) ==
    /\ Get("hash") = None
    /\ puts[q] \in {InitPuts(cred[q]), Tail(InitPuts(cred[q]))}
    /\ <<cred[q].name, cred[q].password>> \in sent
    /\ puts[q] \in Hashes => Get("username") = cred[q].name

\* A change of password that has seen the name has seen the one that is there.
ChangeBacked(q) ==
    /\ pc[q] = "readingHash" \/ puts[q] \in Hashes => Get("username") = cred[q].name
    /\ puts[q] \in Hashes => <<cred[q].name, Head(puts[q]).value>> \in sent

Backed(q) ==
    /\ Storing(q) => SetupBacked(q)
    /\ op[q] = "change" => ChangeBacked(q)

AccountInv ==
    ~overlapped =>
        /\ AccountWhole
        /\ \A q \in Requests : Backed(q)
        /\ \A q, r \in Requests : Storing(q) /\ Storing(r) => q = r

\* A step of request q that stores neither name nor hash.
LEMMA AccountQuiet ==
    ASSUME AccountInv, NEW q \in Requests, Apart(q), sent \subseteq sent',
           Get("username")' = Get("username"), Get("hash")' = Get("hash"),
           overlapped => overlapped',
           ~overlapped' => Backed(q)',
           ~overlapped' /\ Storing(q)' => Storing(q) \/ \A r \in Requests : ~Storing(r)
    PROVE  AccountInv'
<1> SUFFICES ASSUME ~overlapped'
             PROVE  /\ AccountWhole'
                    /\ \A k \in Requests : Backed(k)'
                    /\ \A k, r \in Requests : Storing(k)' /\ Storing(r)' => k = r
  BY DEF AccountInv
<1>1. AccountWhole'
  BY DEF AccountInv, AccountWhole
<1>2. ASSUME NEW k \in Requests PROVE Backed(k)'
  <2>1. CASE k = q
    BY <2>1
  <2>2. CASE k # q
    <3>1. Backed(k) /\ pc'[k] = pc[k] /\ op'[k] = op[k] /\ cred'[k] = cred[k]
          /\ puts'[k] = puts[k]
      BY <2>2 DEF AccountInv, Apart
    <3> QED
      BY <3>1 DEF Backed, Storing, SetupBacked, ChangeBacked, InitPuts
  <2> QED
    BY <2>1, <2>2
<1>3. \A k \in Requests : Storing(k)' => Storing(k) \/ k = q
  BY DEF Storing, Apart
<1>4. ASSUME NEW k \in Requests, NEW r \in Requests, Storing(k)', Storing(r)'
      PROVE  k = r
  BY <1>3, <1>4 DEF AccountInv
<1> QED
  BY <1>1, <1>2, <1>4

\* What is at rest stores nothing.
LEMMA RestBacked ==
    ASSUME NEW q \in Requests, puts'[q] = <<>>,
           op'[q] = "change" => pc'[q] # "readingHash"
    PROVE  Backed(q)' /\ ~Storing(q)'
BY PutsApart DEF Backed, Storing, ChangeBacked

\* The puts of a setup, one after the other.
LEMMA SetupPuts ==
    ASSUME NEW c
    PROVE  /\ Head(InitPuts(c)) = UserPut(c.name)
           /\ Tail(InitPuts(c)) = <<HashPut(c.password)>>
           /\ Head(Tail(InitPuts(c))) = HashPut(c.password)
           /\ UserPut(c.name).field = "username"
           /\ HashPut(c.password).field = "hash"
           /\ HashPut(c.password).value = c.password
<1>1. InitPuts(c) = <<UserPut(c.name), HashPut(c.password)>>
  BY DEF InitPuts, UserPut, HashPut
<1>2. \A u, h : /\ Head(<<u, h>>) = u /\ Tail(<<u, h>>) = <<h>>
                /\ Head(<<h>>) = h
  OBVIOUS
<1>3. /\ UserPut(c.name).field = "username"
      /\ HashPut(c.password).field = "hash"
      /\ HashPut(c.password).value = c.password
  BY DEF UserPut, HashPut
<1> QED
  BY <1>1, <1>2, <1>3

LEMMA AccountStep ==
    ASSUME TypeInv, MintInv, HashInv, AccountInv, [Next]_vars
    PROVE  AccountInv'
<1> DEFINE Same == UNCHANGED <<store, master, sent, overlapped>>
           Kept == Get("username")' = Get("username") /\ Get("hash")' = Get("hash")
<1>0. LocalTypes /\ LocalOK
  BY DEF TypeInv, TypeOK, LocalTypes
<1>1. CASE UNCHANGED vars
  BY <1>1 DEF vars, local, history, AccountInv, AccountWhole, Backed, Storing,
              SetupBacked, ChangeBacked, InitPuts, Get
\* Name and hash are as they were where the table is, or only the secret is put.
<1>2. UNCHANGED <<store, master>> => Kept
  BY DEF Get
\* A request that has nothing to put afterwards.
<1>3. ASSUME NEW q \in Requests, Apart(q), puts'[q] = <<>>, Kept,
             UNCHANGED <<sent, overlapped>>, op'[q] = "change" => pc'[q] # "readingHash"
      PROVE  AccountInv'
  BY <1>3, RestBacked, AccountQuiet
<1>4. ASSUME NEW q \in Requests, Leave(q), Same PROVE AccountInv'
  BY <1>0, <1>2, <1>3, <1>4, LeaveMoves
<1>5. ASSUME NEW q \in Requests, NEW o, NEW c, NEW p \in {"checking", "signing"},
             Arrive(q, o, p, c)
      PROVE  AccountInv'
  BY <1>0, <1>2, <1>3, <1>5, ArriveMoves DEF Arrive, history
<1>6. ASSUME NEW q \in Requests, Check(q) PROVE AccountInv'
  <2>1. /\ op[q] \in {"init", "login"} /\ puts[q] = <<>> /\ UNCHANGED <<store, master>>
        /\ cred[q].name \in Names
    BY <1>0, <1>6 DEF Check, LocalOK, Shape
  <2>2. CASE Goto(q, "readingName") /\ UNCHANGED <<op, cred, puts, sent, overlapped>>
    BY <1>0, <1>2, <1>3, <2>1, <2>2, GotoMoves
  <2>3. CASE op[q] = "init" /\ Get("hash") = None /\ StartPuts(q, InitPuts(cred[q]))
             /\ sent' = sent \cup {<<cred[q].name, cred[q].password>>}
             /\ overlapped' = (overlapped \/ \E r \in Requests : SettingUp(r))
    <3>1. Apart(q) /\ pc'[q] = "putting" /\ op'[q] = "init" /\ cred'[q] = cred[q]
          /\ puts'[q] = InitPuts(cred[q])
      BY <1>0, <2>3, StartPutsMoves
    <3>2. cred[q].password \in Passwords
      BY <1>0, <2>3 DEF LocalOK, Shape
    <3>3. puts'[q] \in Accounts
      BY <2>1, <3>1, <3>2 DEF InitPuts, Accounts, UserPut, HashPut
    <3>4. Backed(q)'
      BY <1>2, <2>1, <2>3, <3>1, <3>3, PutsApart DEF Backed, SetupBacked, InitPuts
    <3>5. ASSUME ~overlapped', NEW r \in Requests PROVE ~Storing(r)
      BY <1>0, <2>3, <3>5, PutsApart DEF LocalOK, Shape, Storing, SettingUp
    <3> QED
      BY <1>2, <2>1, <2>3, <3>1, <3>4, <3>5, AccountQuiet
  <2> QED
    BY <1>4, <1>6, <2>1, <2>2, <2>3 DEF Check, Initialised
<1>7. ASSUME NEW q \in Requests, ReadName(q) PROVE AccountInv'
  <2>1. puts[q] = <<>> /\ Same
    BY <1>0, <1>7 DEF ReadName, LocalOK, Shape, history
  <2>2. CASE Get("username") = cred[q].name /\ Goto(q, "readingHash")
             /\ UNCHANGED <<op, cred, puts>>
    <3>1. Apart(q) /\ puts'[q] = <<>> /\ cred'[q] = cred[q]
      BY <1>0, <2>1, <2>2, GotoMoves
    <3>2. Backed(q)' /\ ~Storing(q)'
      BY <1>2, <2>1, <2>2, <3>1, PutsApart DEF Backed, Storing, ChangeBacked
    <3> QED
      BY <1>2, <2>1, <3>1, <3>2, AccountQuiet
  <2> QED
    BY <1>4, <1>7, <2>1, <2>2 DEF ReadName
<1>8. ASSUME NEW q \in Requests, ReadHash(q) PROVE AccountInv'
  <2>1. /\ puts[q] = <<>> /\ UNCHANGED <<store, master, overlapped>>
        /\ pc[q] = "readingHash" /\ op[q] \in {"login", "change"}
        /\ op[q] = "change" => cred[q].new \in Passwords
    BY <1>0, <1>8 DEF ReadHash, LocalOK, Shape
  <2>2. CASE Goto(q, "signing") /\ UNCHANGED <<op, cred, puts, sent>>
    BY <1>0, <1>2, <1>3, <2>1, <2>2, GotoMoves
  <2>3. CASE op[q] = "change"
             /\ StartPuts(q, <<[field |-> "hash", value |-> cred[q].new]>>)
             /\ sent' = sent \cup {<<cred[q].name, cred[q].new>>}
    <3>1. Apart(q) /\ op'[q] = "change" /\ cred'[q] = cred[q]
          /\ puts'[q] = <<[field |-> "hash", value |-> cred[q].new]>>
      BY <1>0, <2>3, StartPutsMoves
    <3>2. Head(puts'[q]).value = cred[q].new
      BY <3>1
    <3>3. ~overlapped => Get("username") = cred[q].name
      BY <2>1, <2>3 DEF AccountInv, Backed, ChangeBacked
    <3>4. ~Storing(q)'
      BY <3>1 DEF Storing
    <3>5. ~overlapped' => Backed(q)'
      BY <1>2, <2>1, <2>3, <3>1, <3>2, <3>3, <3>4 DEF Backed, ChangeBacked
    <3> QED
      BY <1>2, <2>1, <2>3, <3>1, <3>4, <3>5, AccountQuiet
  <2> QED
    BY <1>4, <1>8, <2>1, <2>2, <2>3 DEF ReadHash
\* The serializer with a secret.
<1>9. ASSUME NEW q \in Requests, NEW s, Finish(q, s), Kept, UNCHANGED <<sent, overlapped>>
      PROVE  AccountInv'
  BY <1>0, <1>3, <1>9, FinishMoves
<1>10. ASSUME NEW q \in Requests, Sign(q) PROVE AccountInv'
  <2>1. Same
    BY <1>10 DEF Sign
  <2>2. CASE StartPuts(q, Secret(secrets + 1))
    <3>1. Apart(q) /\ puts'[q] = Secret(secrets + 1) /\ pc'[q] = "putting"
      BY <1>0, <2>2, StartPutsMoves
    <3>2. Makes(puts'[q])
      BY <3>1, BoundsAssumption DEF Makes, SecretPuts, TypeInv, TypeOK
    <3>3. puts'[q] \notin Accounts /\ puts'[q] \notin Hashes
      BY <3>2, PutsApart
    <3>4. Backed(q)' /\ ~Storing(q)'
      BY <3>1, <3>3 DEF Backed, Storing, ChangeBacked
    <3> QED
      BY <1>2, <2>1, <3>1, <3>4, AccountQuiet
  <2> QED
    BY <1>2, <1>9, <1>10, <2>1, <2>2 DEF Sign
<1>11. ASSUME NEW q \in Requests, PutLoad(q) PROVE AccountInv'
  <2>1. Apart(q) /\ pc[q] = "putting" /\ pc'[q] = "committing" /\ op'[q] = op[q]
        /\ cred'[q] = cred[q] /\ puts'[q] = puts[q]
    BY <1>0, <1>11 DEF PutLoad, LocalTypes, Goto, Apart
  <2>2. Same
    BY <1>11 DEF PutLoad, history
  <2>3. Storing(q)' => Storing(q)
    BY <2>1 DEF Storing
  <2>4. ~overlapped => Backed(q)'
    BY <1>2, <2>1, <2>2
       DEF AccountInv, Backed, Storing, SetupBacked, ChangeBacked, InitPuts
  <2> QED
    BY <1>2, <2>1, <2>2, <2>3, <2>4, AccountQuiet
<1>12. ASSUME NEW q \in Requests, PutCommit(q) PROVE AccountInv'
  <2>0. PICK f, v : f = Head(puts[q]).field /\ v = Head(puts[q]).value
    OBVIOUS
  <2>1. /\ puts[q] \in Pending
        /\ Apart(q) /\ UNCHANGED <<master, secrets, sent, overlapped>>
        /\ \/ Leave(q) /\ UNCHANGED <<store, issued>>
           \/ /\ store' = [store EXCEPT ![f] = [value |-> v, under |-> master]]
              /\ \/ StartPuts(q, Tail(puts[q])) /\ Tail(puts[q]) # <<>> /\ issued' = issued
                 \/ f = "secret" /\ Finish(q, v)
                 \/ /\ f # "secret" /\ op[q] = "init" /\ issued' = issued
                    /\ Tail(puts[q]) = <<>>
                    /\ Goto(q, "signing") /\ puts' = [puts EXCEPT ![q] = <<>>]
                    /\ UNCHANGED <<op, cred>>
                 \/ /\ f # "secret" /\ op[q] # "init" /\ issued' = issued
                    /\ Tail(puts[q]) = <<>> /\ Leave(q)
    BY <1>12, <2>0, CommitMoves
  <2>2. CASE Leave(q) /\ UNCHANGED <<store, issued>>
    BY <1>4, <2>1, <2>2
  <2>3. CASE ~(Leave(q) /\ UNCHANGED <<store, issued>>)
    <3>1. /\ \A g \in Fields \ {f} : Get(g)' = Get(g)
          /\ Get(f)' = v /\ v # None
      BY <1>12, <2>0, <2>3, CommitGet
    <3>2. CASE puts[q] \in SecretPuts
      <4>1. f = "secret" /\ Tail(puts[q]) = <<>>
        BY <2>0, <3>2, PendingSecret
      <4> QED
        BY <1>9, <2>1, <2>3, <3>1, <4>1 DEF Fields
    <3>3. CASE puts[q] \in Accounts \cup Hashes /\ overlapped
      BY <2>1, <3>3 DEF AccountInv
    \* Nobody else is setting up, and nobody who changes has a hash to see.
    <3>4. ASSUME ~overlapped, Storing(q), NEW k \in Requests \ {q}
          PROVE  ~Storing(k)' /\ (op'[k] = "change" => pc'[k] # "readingHash"
                                                      /\ puts'[k] \notin Hashes)
      <4>1. Get("hash") = None /\ ~Storing(k)
        BY <3>4 DEF AccountInv, Backed, SetupBacked
      <4>2. ~Settled(pc[k], op[k], puts[k])
        BY <4>1 DEF HashInv
      <4> QED
        BY <2>1, <4>1, <4>2 DEF Apart, Storing, Settled
    <3>5. CASE puts[q] \in Accounts /\ ~overlapped
      <4>1. /\ f = "username" /\ Tail(puts[q]) \in Hashes /\ op[q] = "init"
            /\ Tail(puts[q]) # <<>> /\ puts[q] \notin Hashes
        BY <2>0, <3>5, PendingAccount, PutsApart DEF HashInv, Entitled
      <4>2. Storing(q) /\ SetupBacked(q)
        BY <3>5, <4>1 DEF Storing, AccountInv, Backed
      <4>3. puts[q] = InitPuts(cred[q])
        <5>1. Head(Tail(InitPuts(cred[q]))).field = "hash"
          BY SetupPuts
        <5> QED
          BY <2>0, <4>1, <4>2, <5>1 DEF SetupBacked
      <4>4. v = cred[q].name
        BY <2>0, <4>3 DEF InitPuts
      <4>5. Get("hash")' = None /\ Get("username")' = cred[q].name
        BY <3>1, <4>1, <4>2, <4>4 DEF Fields, SetupBacked
      <4>6. /\ op'[q] = "init" /\ cred'[q] = cred[q] /\ puts'[q] = Tail(puts[q])
        BY <1>0, <2>1, <2>3, <4>1, StartPutsMoves
      <4>7. Backed(q)'
        BY <2>1, <4>2, <4>3, <4>5, <4>6 DEF Backed, SetupBacked, InitPuts
      <4>8. ASSUME NEW k \in Requests \ {q} PROVE Backed(k)' /\ ~Storing(k)'
        BY <3>4, <3>5, <4>2, <4>8 DEF Backed, ChangeBacked
      <4> QED
        BY <4>5, <4>7, <4>8 DEF AccountInv, AccountWhole
    <3>6. CASE puts[q] \in Hashes /\ ~overlapped /\ op[q] = "init"
      <4>1. f = "hash" /\ Tail(puts[q]) = <<>>
        BY <2>0, <3>6, PendingHash
      <4>2. Storing(q) /\ SetupBacked(q)
        BY <3>6 DEF Storing, AccountInv, Backed
      <4>3. v = cred[q].password
        <5>1. Head(InitPuts(cred[q])).field = "username"
          BY SetupPuts
        <5>2. puts[q] = Tail(InitPuts(cred[q]))
          BY <2>0, <4>1, <4>2, <5>1 DEF SetupBacked
        <5>3. Head(puts[q]).value = cred[q].password
          BY <5>2, SetupPuts
        <5> QED
          BY <2>0, <5>3
      <4>4. Get("hash")' = cred[q].password /\ Get("username")' = cred[q].name
        BY <3>1, <3>6, <4>1, <4>2, <4>3 DEF Fields, SetupBacked
      <4>5. AccountWhole'
        BY <2>1, <4>2, <4>4 DEF AccountWhole, SetupBacked
      <4>6. puts'[q] = <<>> /\ op'[q] = "init"
        BY <1>0, <2>1, <2>3, <3>6, <4>1, GotoMoves
      <4>7. Backed(q)' /\ ~Storing(q)'
        BY <4>6, RestBacked
      <4>8. ASSUME NEW k \in Requests \ {q} PROVE Backed(k)' /\ ~Storing(k)'
        BY <3>4, <3>6, <4>2, <4>8 DEF Backed, ChangeBacked
      <4> QED
        BY <4>5, <4>7, <4>8 DEF AccountInv
    <3>7. CASE puts[q] \in Hashes /\ ~overlapped /\ op[q] = "change"
      <4>1. f = "hash" /\ Tail(puts[q]) = <<>>
        BY <2>0, <3>7, PendingHash
      <4>2. ChangeBacked(q)
        BY <3>7 DEF AccountInv, Backed
      <4>3. Get("hash")' = v /\ Get("username")' = Get("username")
        BY <3>1, <4>1 DEF Fields
      <4>4. AccountWhole'
        BY <2>0, <2>1, <3>7, <4>2, <4>3 DEF AccountWhole, ChangeBacked
      <4>5. puts'[q] = <<>> /\ op'[q] = "none"
        BY <1>0, <2>1, <2>3, <3>7, <4>1, LeaveMoves
      <4>6. Backed(q)' /\ ~Storing(q)'
        BY <4>5, RestBacked
      \* There is a hash to change, so nobody is setting up.
      <4>7. Get("hash") # None
        BY <3>7 DEF HashInv, Settled
      <4>8. ASSUME NEW k \in Requests \ {q} PROVE Backed(k)' /\ ~Storing(k)'
        <5>1. Backed(k) /\ ~Storing(k)
          BY <3>7, <4>7 DEF AccountInv, Backed, SetupBacked
        <5>2. pc'[k] = pc[k] /\ op'[k] = op[k] /\ cred'[k] = cred[k] /\ puts'[k] = puts[k]
          BY <2>1 DEF Apart
        <5> QED
          BY <2>1, <4>3, <5>1, <5>2 DEF Backed, ChangeBacked, Storing
      <4> QED
        BY <4>4, <4>6, <4>8 DEF AccountInv
    <3> QED
      BY <2>1, <3>2, <3>3, <3>5, <3>6, <3>7 DEF Pending, HashInv, Entitled
  <2> QED
    BY <2>2, <2>3
<1>13. ASSUME NEW q \in Requests, FailRequest(q) PROVE AccountInv'
  BY <1>4, <1>13 DEF FailRequest, history
<1>14. CASE Restart
  <2>1. \A k \in Requests : pc'[k] = "idle" /\ op'[k] = "none" /\ puts'[k] = <<>>
    BY <1>14 DEF Restart
  <2>2. UNCHANGED <<store, sent, overlapped>> /\ (master' = master \/ master' = master + 1)
    BY <1>14 DEF Restart
  <2>3. \A k \in Requests : Backed(k)' /\ ~Storing(k)'
    BY <2>1, RestBacked
  <2>4. CASE master' = master
    BY <1>2, <2>2, <2>3, <2>4 DEF AccountInv, AccountWhole
  <2>5. CASE master' = master + 1
    <3>1. store["hash"].under \in Nat /\ store["hash"].under <= master /\ master \in Nat
      BY BoundsAssumption DEF TypeInv, TypeOK, StoreOK, Fields, Rows
    <3>2. Get("hash")' = None
      BY <2>2, <2>5, <3>1 DEF Get
    <3> QED
      BY <2>3, <3>2 DEF AccountInv, AccountWhole
  <2> QED
    BY <2>2, <2>4, <2>5
<1> QED
  BY <1>1, <1>5, <1>6, <1>7, <1>8, <1>10, <1>11, <1>12, <1>13, <1>14
     DEF Next, Ask, Visit, ChangePassword

\* Unless two setups ran at once, name and password are what one client has sent
\* (AccountWhole).
THEOREM AccountOfOneClient == Spec => []AccountWhole
<1>1. Init => MintInv
  BY PutsApart, BoundsAssumption DEF Init, MintInv, SecretRow, NoRow, Fields
<1>2. Init => HashInv
  BY RestSettled DEF Init, HashInv
<1>3. Init => AccountInv
  BY PutsApart, BoundsAssumption
     DEF Init, AccountInv, AccountWhole, Backed, Storing, Get, NoRow, Fields
<1>4. AccountInv => AccountWhole
  BY DEF AccountInv, AccountWhole
<1> QED
  BY <1>1, <1>2, <1>3, <1>4, TypeAlways, MintStep, HashStep, AccountStep, PTL DEF Spec
=============================================================================
