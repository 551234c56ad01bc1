------------------------------- MODULE OnceOnly -------------------------------
(***************************************************************************)
(* What a wrapped service promises (domain_bridge/topic_wrap.py): letters  *)
(* may come twice, but as long as the answer to an id is remembered, or    *)
(* still awaited, the service is not called for that id again.             *)
(***************************************************************************)
EXTENDS Naturals

CONSTANT Ids

VARIABLES
    state,      \* of each id: new, called, or answered and remembered
    calls       \* how often the service was called for it

Init == state = [i \in Ids |-> "new"] /\ calls = [i \in Ids |-> 0]

Call(i) ==
    /\ state[i] = "new"
    /\ state' = [state EXCEPT ![i] = "called"] /\ calls' = [calls EXCEPT ![i] = @ + 1]

\* With or without a call, and perhaps once more.
Answer(i) == state' = [state EXCEPT ![i] = "answered"] /\ UNCHANGED calls

Forget ==
    /\ \E S \in SUBSET {i \in Ids : state[i] = "answered"} :
        state' = [i \in Ids |-> IF i \in S THEN "new" ELSE state[i]]
    /\ UNCHANGED calls

Next == Forget \/ \E i \in Ids : Call(i) \/ Answer(i)

Spec == Init /\ [][Next]_<<state, calls>>
=============================================================================
