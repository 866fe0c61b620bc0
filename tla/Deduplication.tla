----------------------------- MODULE Deduplication -----------------------------
(***************************************************************************)
(* What the MCP server promises its hosts: at any time at most one         *)
(* investigation works for a run key, none once the key has its answer,    *)
(* and the answer stays, until the server forgets everything.              *)
(***************************************************************************)
EXTENDS Naturals

CONSTANTS Keys, None

VARIABLES
    working,  \* how many investigations work for each key
    settled   \* each key's answer

Init ==
    /\ working = [k \in Keys |-> 0]
    /\ settled = [k \in Keys |-> None]

Begin(k) ==
    /\ working[k] = 0 /\ settled[k] = None
    /\ working' = [working EXCEPT ![k] = 1]
    /\ UNCHANGED settled

(* With an answer, or without one. *)
End(k) ==
    /\ working[k] = 1
    /\ working' = [working EXCEPT ![k] = 0]
    /\ settled' = [settled EXCEPT ![k] = settled'[k]]

Forget ==
    /\ working' = [k \in Keys |-> 0]
    /\ settled' = [k \in Keys |-> None]

Next == Forget \/ \E k \in Keys : Begin(k) \/ End(k)

Spec == Init /\ [][Next]_<<working, settled>>
===============================================================================
