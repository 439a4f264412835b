----------------------------- MODULE JwtIssuer -----------------------------
(***************************************************************************)
(* jwt.Issuer.Issue: a chain of options around the function that stamps    *)
(* and signs a token.  An option is a record                               *)
(*    does     "set"  writes its claims and calls the next function        *)
(*             "stop" returns nil without calling it                       *)
(*             "fail" returns err without calling it                       *)
(*             "nil"  is nil, or wraps the next function into nil          *)
(*    claims   what it writes into the claims, "" for a claim it leaves    *)
(*    err      the error of a "fail"                                       *)
(***************************************************************************)
EXTENDS OAuthErrors, Sequences, Naturals

CONSTANTS ClaimNames, ClaimValues

ASSUME ClaimAssumption == {"sub", "iat", "jti"} \subseteq ClaimNames /\ "" \in ClaimValues
                          /\ {"now", "random"} \subseteq ClaimValues

Claims == [ClaimNames -> ClaimValues]
NoClaims == [c \in ClaimNames |-> ""]

IssuerOptions == [does : {"set", "stop", "fail", "nil"}, claims : Claims, err : Errors]

SetClaims(claims) == [does |-> "set", claims |-> claims, err |-> NoError]

(* jwt.WithPrincipal: the principal's claims, then its subject *)
WithPrincipal(principal) ==
    SetClaims([principal.claims EXCEPT !["sub"] = principal.subject])

(* A token; algorithm "" is a token that Issuer.issue never saw *)
Tokens == [claims : Claims, algorithm : {"", "none", "signer"}]
NoToken == [claims |-> NoClaims, algorithm |-> "nil"]

(* The options run in order, up to the first one that does not call the next *)
Runs(options, i) ==
    \A j \in DOMAIN options : j < i => options[j].does = "set"

Completes(options) == \A i \in DOMAIN options : options[i].does = "set"

(* A claim has the value the last of them wrote, or none *)
Writes(options, claim, i) ==
    Runs(options, i) /\ options[i].claims[claim] # ""

(* No option has a say about the claim *)
LeavesAlone(options, claim) ==
    \A i \in DOMAIN options : options[i].claims[claim] = ""

WritesLast(options, claim, i) ==
    /\ Writes(options, claim, i)
    /\ \A j \in DOMAIN options : Writes(options, claim, j) => j <= i

ClaimAfter(options, claim) ==
    IF \E i \in DOMAIN options : WritesLast(options, claim, i)
    THEN LET last == CHOOSE i \in DOMAIN options : WritesLast(options, claim, i)
         IN  options[last].claims[claim]
    ELSE ""

(* A mistake: a jti that an option wrote is kept *)
StampIfAbsent(claims) ==
    [claims EXCEPT !["iat"] = "now",
                   !["jti"] = IF claims["jti"] = "" THEN "random" ELSE claims["jti"]]

(***************************************************************************)
(* Issuer.issue: iat and jti replace whatever the options wrote; without a *)
(* signer the token has algorithm none, with one the signature covers all. *)
(* fault is what the source of random bytes, the signer or the header it   *)
(* returned made of the call.                                              *)
(***************************************************************************)
Stamp(claims) == [claims EXCEPT !["iat"] = "now", !["jti"] = "random"]

(***************************************************************************)
(* Issuer.Issue.  The chain is built before any option runs, so one nil    *)
(* option means that none of them runs; every error of the run itself is   *)
(* categorised as malformed on top of its own categories.                  *)
(***************************************************************************)
Issue(options, signer, fault) ==
    LET claims == [c \in ClaimNames |-> ClaimAfter(options, c)]
        failed == {i \in DOMAIN options : Runs(options, i) /\ options[i].does = "fail"}
        failure == IF Completes(options) THEN fault ELSE UNION {options[i].err : i \in failed}
    IN  IF \E i \in DOMAIN options : options[i].does = "nil"
        THEN Failure({"Misconfigured"}, NoToken)
        ELSE IF failure # NoError
        THEN Failure(NewErrorCategory("Malformed", failure), NoToken)
        ELSE IF Completes(options)
        THEN Success([claims |-> Stamp(claims),
                      algorithm |-> IF signer THEN "signer" ELSE "none"])
        ELSE Success([claims |-> claims, algorithm |-> ""])
=============================================================================
