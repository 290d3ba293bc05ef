------------------------------- MODULE Calls --------------------------------
(***************************************************************************)
(* What a request/response connection promises its callers: a call that    *)
(* was issued is settled at most once, either with the answer the server   *)
(* gave to that very call or with a failure, and stays as it was settled.  *)
(* Under Fairness no caller waits for ever.                                *)
(***************************************************************************)
EXTENDS Naturals

CONSTANT Call             \* the calls: the numbers 1, 2, ..., in order of issue

VARIABLES state,          \* of each call
          result,         \* the call whose answer a call was given, 0 if none
          served          \* the calls the server has answered

vars == <<state, result, served>>

States == {"unissued", "waiting", "answered", "failed"}

Init == /\ state = [c \in Call |-> "unissued"]
        /\ result = [c \in Call |-> 0]
        /\ served = {}

Issue(c) == /\ state[c] = "unissued"
            /\ \A d \in Call : d < c => state[d] # "unissued"
            /\ state' = [state EXCEPT ![c] = "waiting"]
            /\ UNCHANGED <<result, served>>

\* The server may answer a call late, or again: that settles nothing by itself.
Serve(c) == /\ state[c] # "unissued"
            /\ served' = served \cup {c}
            /\ UNCHANGED <<state, result>>

Answer(c) == /\ state[c] = "waiting" /\ c \in served
             /\ state' = [state EXCEPT ![c] = "answered"]
             /\ result' = [result EXCEPT ![c] = c]
             /\ UNCHANGED served

\* A timeout fails one call, the end of the server all that wait.
Fail(C) == /\ C # {}
           /\ \A c \in C : state[c] = "waiting"
           /\ state' = [c \in Call |-> IF c \in C THEN "failed" ELSE state[c]]
           /\ UNCHANGED <<result, served>>

Next == \/ \E c \in Call : Issue(c) \/ Serve(c) \/ Answer(c)
        \/ \E C \in SUBSET Call : Fail(C)

Settled(c) == state[c] \in {"answered", "failed"}
Settle(c) == Answer(c) \/ \E C \in SUBSET Call : c \in C /\ Fail(C)

Spec == Init /\ [][Next]_vars
FairSpec == Spec /\ \A c \in Call : WF_vars(Settle(c))
=============================================================================
