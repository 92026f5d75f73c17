----------------------------- MODULE CallLedger -----------------------------
(***************************************************************************)
(* What the model router promises about a call, stated without routes,     *)
(* settings or fallbacks: one provider speaks to the client, only the one  *)
(* that has spoken can answer, and the book of what has been paid for      *)
(* grows by one row that names it, or not at all, when the call is over.   *)
(***************************************************************************)
EXTENDS Sequences

CONSTANTS Calls, Providers

VARIABLES
    stage,   \* where each call is
    authors, \* the providers an open call has heard from
    book     \* the rows, each for a call

vars == <<stage, authors, book>>

Stages == {"open", "answered", "closed"}

Init ==
    /\ stage = [c \in Calls |-> "open"]
    /\ authors = [c \in Calls |-> {}]
    /\ book = <<>>

\* A first piece of text.
Speak(c, p) ==
    /\ stage[c] = "open"
    /\ authors[c] = {}
    /\ authors' = [authors EXCEPT ![c] = {p}]
    /\ UNCHANGED <<stage, book>>

\* The answer, of whoever has spoken before.
Answer(c, p) ==
    /\ stage[c] = "open"
    /\ authors[c] \subseteq {p}
    /\ stage' = [stage EXCEPT ![c] = "answered"]
    /\ authors' = [authors EXCEPT ![c] = {p}]
    /\ UNCHANGED book

Close(c) ==
    /\ stage' = [stage EXCEPT ![c] = "closed"]
    /\ authors' = [authors EXCEPT ![c] = {}]

\* An answered call is over and in the book.
Enter(c) ==
    /\ stage[c] = "answered"
    /\ \E p \in authors[c] : book' = Append(book, [call |-> c, by |-> p])
    /\ Close(c)

\* A call is over and not in the book: nobody answered, it was cancelled, or the
\* row could not be written.
Drop(c) ==
    /\ stage[c] # "closed"
    /\ Close(c)
    /\ UNCHANGED book

Next ==
    \E c \in Calls :
        \/ \E p \in Providers : Speak(c, p) \/ Answer(c, p)
        \/ Enter(c) \/ Drop(c)

Spec == Init /\ [][Next]_vars
=============================================================================
