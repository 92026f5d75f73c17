------------------------------ MODULE Sessions ------------------------------
(***************************************************************************)
(* The encrypted settings store of app/settings_store.py, as far as the    *)
(* single user's account lives in it, and what works on that: first-run    *)
(* setup, login, change of password and the session check of every other   *)
(* request (app/auth.py, app/api/auth.py, app/main.py).  A put looks the   *)
(* row up and commits later; a row that cannot be decrypted reads as one   *)
(* that is not there.                                                      *)
(***************************************************************************)
EXTENDS Naturals, Sequences

CONSTANTS
    Requests,   \* requests in flight at the same time
    Names,      \* user names
    Passwords,
    None,       \* what get returns for a row that is absent or unreadable
    MaxKeys,    \* bound: master keys that are generated
    MaxSecrets  \* bound: session secrets that are generated

ASSUME NoneAssumption == None \notin Names \cup Passwords \cup Nat
ASSUME BoundsAssumption == MaxKeys \in Nat \ {0} /\ MaxSecrets \in Nat

\* auth.admin_username, auth.admin_password_hash and auth.session_secret.  A
\* password stands for its bcrypt hash, a number for a random secret.
Fields == {"username", "hash", "secret"}
Values == Names \cup Passwords \cup Nat \cup {None}

\* A row of app_settings: the value and the master key it is encrypted with, 0
\* for a row that is not there.
Rows == [value : Values, under : Nat]
NoRow == [value |-> None, under |-> 0]

Puts == [field : Fields, value : Values]

\* A signed cookie, and the master key of its time.
Tokens == [name : Names, secret : Nat, under : Nat]

VARIABLES
    store,      \* app_settings
    master,     \* the master key of the process
    kept,       \* PII_ENCRYPTION_KEY is set, or .env can be written
    secrets,    \* secrets generated so far
    pc,         \* where each request is
    op,         \* what it does
    cred,       \* what it was sent: credentials, a new password, a cookie's secret
    puts,       \* the settings it still has to put
    found,      \* whether session.get found the row it is putting
    issued,     \* history: the sessions handed out
    sent,       \* history: the credentials a setup or a change set out to store
    overlapped, \* history: two setups were past their check at once
    raced       \* history: two requests were storing a secret at once

local == <<pc, op, cred, puts, found>>
history == <<issued, sent, overlapped, raced>>
vars == <<store, master, kept, secrets, local, history>>

PCs == {"idle", "checking", "readingName", "readingHash", "putting",
        "committing", "signing"}
Ops == {"none", "init", "login", "change", "visit"}

\* secret 0: no cookie.
Creds == [name : Names \cup {None}, password : Passwords \cup {None},
          new : Passwords \cup {None}, secret : Nat]
NoCred == [name |-> None, password |-> None, new |-> None, secret |-> 0]

TypeOK ==
    /\ store \in [Fields -> Rows]
    /\ master \in 1..MaxKeys
    /\ kept \in BOOLEAN
    /\ secrets \in 0..MaxSecrets
    /\ pc \in [Requests -> PCs]
    /\ op \in [Requests -> Ops]
    /\ cred \in [Requests -> Creds]
    /\ puts \in [Requests -> Seq(Puts)]
    /\ found \in [Requests -> BOOLEAN]
    /\ issued \subseteq Tokens
    /\ sent \subseteq Names \X Passwords
    /\ overlapped \in BOOLEAN
    /\ raced \in BOOLEAN

Init ==
    /\ store = [f \in Fields |-> NoRow]
    /\ master = 1
    /\ kept \in BOOLEAN
    /\ secrets = 0
    /\ pc = [q \in Requests |-> "idle"]
    /\ op = [q \in Requests |-> "none"]
    /\ cred = [q \in Requests |-> NoCred]
    /\ puts = [q \in Requests |-> <<>>]
    /\ found = [q \in Requests |-> FALSE]
    /\ issued = {}
    /\ sent = {}
    /\ overlapped = FALSE
    /\ raced = FALSE

-----------------------------------------------------------------------------
(* The store *)

Get(f) == IF store[f].under = master THEN store[f].value ELSE None

Goto(q, p) == pc' = [pc EXCEPT ![q] = p]

Leave(q) ==
    /\ Goto(q, "idle")
    /\ op' = [op EXCEPT ![q] = "none"]
    /\ cred' = [cred EXCEPT ![q] = NoCred]
    /\ puts' = [puts EXCEPT ![q] = <<>>]
    /\ found' = [found EXCEPT ![q] = FALSE]

\* The request goes on to put the settings ps.
StartPuts(q, ps) ==
    /\ Goto(q, "putting")
    /\ puts' = [puts EXCEPT ![q] = ps]
    /\ UNCHANGED <<op, cred, found>>

\* session.get of a put; readable or not, the row is there or it is not.
PutLoad(q) ==
    /\ pc[q] = "putting"
    /\ found' = [found EXCEPT ![q] = store[Head(puts[q]).field].under # 0]
    /\ Goto(q, "committing")
    /\ UNCHANGED <<store, master, kept, secrets, op, cred, puts, history>>

-----------------------------------------------------------------------------
(* Sessions *)

\* Request q has the serializer with secret s: a setup and a login hand out a
\* session, any other request has its cookie checked, which only a change of
\* password does something after.
Finish(q, s) ==
    /\ issued' = IF op[q] \in {"init", "login"}
                 THEN issued \cup {[name |-> cred[q].name, secret |-> s, under |-> master]} ELSE issued
    /\ IF op[q] = "change" /\ cred[q].secret = s
       THEN /\ Goto(q, "readingName")
            /\ puts' = [puts EXCEPT ![q] = <<>>]
            /\ UNCHANGED <<op, cred, found>>
       ELSE Leave(q)

Secret(s) == <<[field |-> "secret", value |-> s]>>

\* Mutants: what get returned is used as it is; each request makes a secret of
\* its own.
SignsUnchecked(s) == TRUE
SignsAlone(s) == FALSE

\* The stored secret will do.
Signs(s) == s # None

\* _session_serializer: the stored secret, or a new one that is put first.
Sign(q) ==
    /\ pc[q] = "signing"
    /\ IF Signs(Get("secret"))
       THEN /\ Finish(q, Get("secret"))
            /\ UNCHANGED <<secrets, raced>>
       ELSE /\ secrets < MaxSecrets
            /\ secrets' = secrets + 1
            /\ StartPuts(q, Secret(secrets + 1))
            /\ raced' = (raced \/ \E r \in Requests : \E i \in DOMAIN puts[r] :
                                      puts[r][i].field = "secret")
            /\ UNCHANGED issued
    /\ UNCHANGED <<store, master, kept, sent, overlapped>>

\* The commit of a put.  Of two that found no row, the second violates the
\* primary key and its request fails; where a row was found it is overwritten.
PutCommit(q) ==
    LET f == Head(puts[q]).field
        v == Head(puts[q]).value
    IN  /\ pc[q] = "committing"
        /\ IF ~found[q] /\ store[f].under # 0
           THEN Leave(q) /\ UNCHANGED <<store, issued>>
           ELSE /\ store' = [store EXCEPT ![f] = [value |-> v, under |-> master]]
                /\ IF Tail(puts[q]) # <<>>
                   THEN StartPuts(q, Tail(puts[q])) /\ UNCHANGED issued
                   ELSE IF f = "secret" THEN Finish(q, v)
                   ELSE IF op[q] = "init"
                   THEN /\ Goto(q, "signing")
                        /\ puts' = [puts EXCEPT ![q] = <<>>]
                        /\ UNCHANGED <<op, cred, found, issued>>
                   ELSE Leave(q) /\ UNCHANGED issued
        /\ UNCHANGED <<master, kept, secrets, sent, overlapped, raced>>

-----------------------------------------------------------------------------
(* Requests arrive *)

Arrive(q, o, p, c) ==
    /\ pc[q] = "idle"
    /\ Goto(q, p)
    /\ op' = [op EXCEPT ![q] = o]
    /\ cred' = [cred EXCEPT ![q] = c]
    /\ UNCHANGED <<store, master, kept, secrets, puts, found, history>>

\* POST /api/auth/init and /api/auth/login.
Ask(q, o, n, w) ==
    Arrive(q, o, "checking", [NoCred EXCEPT !.name = n, !.password = w])

\* Any request that needs a session, with a cookie this server has issued.
Visit(q, t) ==
    Arrive(q, "visit", "signing", [NoCred EXCEPT !.name = t.name, !.secret = t.secret])

\* POST /api/auth/change-password.
ChangePassword(q, t, old, new) ==
    Arrive(q, "change", "signing",
           [name |-> t.name, password |-> old, new |-> new, secret |-> t.secret])

-----------------------------------------------------------------------------
(* init_admin, verify_credentials, change_password *)

\* Mutant: the hash is put first.
InitPutsHashFirst(c) == <<[field |-> "hash", value |-> c.password],
                          [field |-> "username", value |-> c.name]>>

InitPuts(c) == <<[field |-> "username", value |-> c.name],
                 [field |-> "hash", value |-> c.password]>>

\* Mutant: a setup does not ask.
InitialisedNever == FALSE

Initialised == Get("hash") # None

\* A setup past its check.
SettingUp(r) == op[r] = "init" /\ pc[r] \in {"putting", "committing"}

\* is_initialised: a setup wants no for an answer, a login yes.
Check(q) ==
    /\ pc[q] = "checking"
    /\ IF Initialised = (op[q] = "init")
       THEN Leave(q) /\ UNCHANGED <<sent, overlapped>>
       ELSE IF op[q] = "login"
       THEN /\ Goto(q, "readingName")
            /\ UNCHANGED <<op, cred, puts, found, sent, overlapped>>
       ELSE /\ StartPuts(q, InitPuts(cred[q]))
            /\ sent' = sent \cup {<<cred[q].name, cred[q].password>>}
            /\ overlapped' = (overlapped \/ \E r \in Requests : SettingUp(r))
    /\ UNCHANGED <<store, master, kept, secrets, issued, raced>>

\* The first of two reads of verify_credentials; a name that differs fails
\* whatever the second one finds.
ReadName(q) ==
    /\ pc[q] = "readingName"
    /\ IF Get("username") = cred[q].name
       THEN Goto(q, "readingHash") /\ UNCHANGED <<op, cred, puts, found>>
       ELSE Leave(q)
    /\ UNCHANGED <<store, master, kept, secrets, history>>

ReadHash(q) ==
    /\ pc[q] = "readingHash"
    /\ IF Get("hash") # cred[q].password
       THEN Leave(q) /\ UNCHANGED sent
       ELSE IF op[q] = "login"
       THEN Goto(q, "signing") /\ UNCHANGED <<op, cred, puts, found, sent>>
       ELSE /\ StartPuts(q, <<[field |-> "hash", value |-> cred[q].new]>>)
            /\ sent' = sent \cup {<<cred[q].name, cred[q].new>>}
    /\ UNCHANGED <<store, master, kept, secrets, issued, overlapped, raced>>

-----------------------------------------------------------------------------
\* The request raises, or its client goes away.
FailRequest(q) ==
    /\ pc[q] # "idle"
    /\ Leave(q)
    /\ UNCHANGED <<store, master, kept, secrets, history>>

\* The process stops and starts again: with the key from the environment or
\* .env, or with a new one that opens none of the rows.
Restart ==
    /\ pc' = [q \in Requests |-> "idle"]
    /\ op' = [q \in Requests |-> "none"]
    /\ cred' = [q \in Requests |-> NoCred]
    /\ puts' = [q \in Requests |-> <<>>]
    /\ found' = [q \in Requests |-> FALSE]
    /\ kept \/ master < MaxKeys
    /\ master' = IF kept THEN master ELSE master + 1
    /\ UNCHANGED <<store, kept, secrets, issued, sent, overlapped, raced>>

Next ==
    \/ \E q \in Requests :
          \/ \E o \in {"init", "login"}, n \in Names, w \in Passwords : Ask(q, o, n, w)
          \/ \E t \in issued : \/ Visit(q, t)
                               \/ \E old, new \in Passwords : ChangePassword(q, t, old, new)
          \/ Check(q) \/ ReadName(q) \/ ReadHash(q) \/ Sign(q)
          \/ PutLoad(q) \/ PutCommit(q) \/ FailRequest(q)
    \/ Restart

Spec == Init /\ [][Next]_vars

-----------------------------------------------------------------------------
(* Properties *)

\* A server that calls itself initialised, and so refuses a setup, has a name
\* to log in with: wherever a setup, or the process, stops, the user is let in
\* or may start again (auth.py:59-66).
NameBehindHash == Get("hash") # None => Get("username") # None

\* Unless two setups ran at once, name and password belong together: one
\* client has sent both, whatever was broken off, tried again, changed or
\* encrypted with a key that is gone (auth.py:59-88).
AccountWhole ==
    ~overlapped /\ Get("hash") # None => <<Get("username"), Get("hash")>> \in sent

\* A session that was handed out under the present master key stays valid,
\* cookies of an older key or not, unless the first two requests to need a
\* secret each made one (auth.py:44-51).
SessionsLast ==
    ~raced => \A t \in issued : t.under = master => t.secret = Get("secret")
=============================================================================
