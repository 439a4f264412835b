--------------------------- MODULE TokenExchange ---------------------------
(***************************************************************************)
(* What a token endpoint promises its clients, with nothing of how it does *)
(* it: every request gets one answer, and one that claims an authorization *)
(* code is granted only if that code became its own before the answer and  *)
(* nobody else's ever.  A request is granted once any token of its answer  *)
(* is out, whether or not the rest arrives, and refused when it is over    *)
(* without one; refused after it took the code, it does not give it back.  *)
(***************************************************************************)
CONSTANTS Requests, Codes

VARIABLES
    claims,   \* the codes a request claims, none or one, known or not
    holder,   \* whose a code is
    outcome   \* the answer to a request

exchange == <<claims, holder, outcome>>

Free(c) == holder[c] = "nobody"
Pending(r) == outcome[r] = "pending"
Proven(r) == \A c \in claims[r] : c \in Codes /\ holder[c] = r

Init ==
    /\ \A r \in Requests : \A c, d \in claims[r] : c = d
    /\ holder = [c \in Codes |-> "nobody"]
    /\ outcome = [r \in Requests |-> "pending"]

Take(r, c) ==
    /\ Pending(r) /\ c \in claims[r] /\ Free(c)
    /\ holder' = [holder EXCEPT ![c] = r]
    /\ UNCHANGED <<claims, outcome>>

Grant(r) ==
    /\ Pending(r) /\ Proven(r)
    /\ outcome' = [outcome EXCEPT ![r] = "granted"]
    /\ UNCHANGED <<claims, holder>>

Refuse(r) ==
    /\ Pending(r)
    /\ outcome' = [outcome EXCEPT ![r] = "refused"]
    /\ UNCHANGED <<claims, holder>>

Next == \E r \in Requests : (\E c \in Codes : Take(r, c)) \/ Grant(r) \/ Refuse(r)

Safe == Init /\ [][Next]_exchange

Spec == Safe /\ \A r \in Requests : WF_exchange(Grant(r) \/ Refuse(r))
=============================================================================
