----------------------------- MODULE GroupTable -----------------------------
(***************************************************************************)
(* What a grouping table promises its caller: a call with a key answers     *)
(* with the group of that key, and creates the group when there is none.    *)
(* Groups are numbered in the order they are created and never change.      *)
(***************************************************************************)
EXTENDS Naturals, FiniteSets

CONSTANT Keys

VARIABLES
    groups,    \* the groups, as records [key, id]
    request,   \* the key of the current, or the last, call
    busy,      \* is a call under way?
    reply      \* the answer to the last call that returned

gvars == <<groups, request, busy, reply>>

Init ==
    /\ groups = {}
    /\ request \in Keys
    /\ busy = FALSE
    /\ reply = [value |-> 0, is_new |-> FALSE]

Call ==
    /\ ~busy
    /\ busy' = TRUE
    /\ request' \in Keys
    /\ UNCHANGED <<groups, reply>>

AnswerOld ==
    /\ busy
    /\ \E g \in groups :
         /\ g.key = request
         /\ reply' = [value |-> g.id, is_new |-> FALSE]
    /\ busy' = FALSE
    /\ UNCHANGED <<groups, request>>

AnswerNew ==
    /\ busy
    /\ \A g \in groups : g.key # request
    /\ LET id == Cardinality(groups) + 1 IN
         /\ groups' = groups \cup {[key |-> request, id |-> id]}
         /\ reply' = [value |-> id, is_new |-> TRUE]
    /\ busy' = FALSE
    /\ UNCHANGED request

Answer == AnswerOld \/ AnswerNew
Next == Call \/ Answer

Spec == Init /\ [][Next]_gvars
=============================================================================
