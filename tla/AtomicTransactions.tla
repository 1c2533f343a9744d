------------------------- MODULE AtomicTransactions -------------------------
(***************************************************************************)
(* What a caller of run_transaction is promised: the statements it ran on  *)
(* the transaction become visible together, at one instant, or never.  A   *)
(* caller told "ok" saw that instant; a caller told that its closure       *)
(* failed is sure it will not come.  A caller whose COMMIT was not         *)
(* answered, or whose future was dropped, knows only that it is one of the *)
(* two.                                                                    *)
(***************************************************************************)
EXTENDS Naturals

CONSTANTS
    Tasks,          \* callers of run_transaction
    MaxStatements   \* statements one closure may run

VARIABLES
    issued,     \* issued[t]: the statements of t's transaction that succeeded
    store,      \* the statements that are visible to everybody
    outcome     \* what run_transaction told t

vars == <<issued, store, outcome>>

Statements == 1 .. MaxStatements
Outcomes == {"none", "ok", "err", "commit_err", "dropped"}

All(t) == {t} \X issued[t]

Init ==
    /\ issued = [t \in Tasks |-> {}]
    /\ store = {}
    /\ outcome = [t \in Tasks |-> "none"]

Issue(t) ==
    /\ outcome[t] = "none"
    /\ \E n \in Statements : issued' = [issued EXCEPT ![t] = @ \cup {n}]
    /\ UNCHANGED <<store, outcome>>

\* The instant a transaction becomes visible: whoever is told so, or is left
\* in doubt, is told at that instant.
Install(t) ==
    /\ outcome[t] = "none"
    /\ store' = store \cup All(t)
    /\ outcome' \in {[outcome EXCEPT ![t] = o] : o \in {"ok", "commit_err", "dropped"}}
    /\ UNCHANGED issued

Discard(t) ==
    /\ outcome[t] = "none"
    /\ outcome' \in {[outcome EXCEPT ![t] = o] : o \in {"err", "commit_err", "dropped"}}
    /\ UNCHANGED <<issued, store>>

Next == \E t \in Tasks : Issue(t) \/ Install(t) \/ Discard(t)

Spec == Init /\ [][Next]_vars
=============================================================================
