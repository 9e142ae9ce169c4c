----------------------------- MODULE AtomicCall -----------------------------
(***************************************************************************)
(* What a Provider call gives the stage that makes it: the answer to one   *)
(* request of this call, in its order, or a failure once all attempts are  *)
(* used up.  A document is whole; prose is all the server sent, which is   *)
(* less than the documents promise when the server stops early.  No        *)
(* thread, queue, deadline or abandoned request is visible at this level.  *)
(***************************************************************************)
EXTENDS Naturals

CONSTANTS
    Limit,          \* attempts of a call
    Unasked         \* the value before there is one

VARIABLES
    phase,          \* "idle", "asked", "returned" or "failed"
    wanted,         \* "json" or "text"
    tries,          \* attempts of this call
    latest,         \* the number of the last request
    value           \* what the call returns

callVars == <<phase, wanted, tries, latest, value>>

CallInit ==
    /\ phase = "idle" /\ wanted = "json"
    /\ tries = 0 /\ latest = 0 /\ value = Unasked

Ask ==
    /\ phase \in {"idle", "returned"}
    /\ phase' = "asked"
    /\ wanted' \in {"json", "text"}
    /\ tries' = 0 /\ value' = Unasked
    /\ UNCHANGED latest

Try ==
    /\ phase = "asked"
    /\ tries < Limit
    /\ tries' = tries + 1 /\ latest' = latest + 1
    /\ UNCHANGED <<phase, wanted, value>>

\* The n parts the last request was answered with; the server may have cut
\* the answer short, of which only a text is usable.
Give(n, whole) ==
    /\ phase = "asked" /\ tries > 0
    /\ n > 0
    /\ wanted = "json" => whole
    /\ phase' = "returned"
    /\ value' = [parts |-> [i \in 1 .. n |-> <<latest, i>>], whole |-> whole]
    /\ UNCHANGED <<wanted, tries, latest>>

Refuse ==
    /\ phase = "asked" /\ tries = Limit
    /\ phase' = "failed"
    /\ UNCHANGED <<wanted, tries, latest, value>>

CallNext ==
    \/ Ask \/ Try \/ Refuse
    \/ \E n \in Nat, whole \in BOOLEAN : Give(n, whole)

CallSpec == CallInit /\ [][CallNext]_callVars
=============================================================================
