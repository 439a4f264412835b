-------------------------- MODULE MCTokenEndpoint --------------------------
(***************************************************************************)
(* The instances of TokenEndpoint that TLC checks: two clients, two users, *)
(* one code in the hands of client "A", and the requests that can go right *)
(* and wrong with them.                                                    *)
(***************************************************************************)
EXTENDS TokenEndpoint, FiniteSets

MCText == GrantTypes \cup {"", "A", "B", "s", "code", "forged", "rt", "jwt", "bad",
                           "swallowed", "read", "admin", "read admin", "type"}
MCClaimNames == {"sub", "iat", "jti"}
MCClaimValues == MCText \cup {"now", "random", "alice", "bob"}

MCDecodeFault == [t \in MCText |-> CASE t = "bad" -> {"Malformed"}
                                     [] t = "swallowed" -> {"NotApplicable"}
                                     [] OTHER -> {}]
MCValidateFault == [t \in MCText |-> IF t = "rt" THEN {} ELSE
                                     IF t = "jwt" THEN {} ELSE {"uncategorised"}]
MCScopesOf == [t \in MCText \ {""} |-> IF t = "read admin" THEN <<"read", "admin">> ELSE <<t>>]

MCOwner == [c \in {"code"} |-> "alice"]
MCHolder == [c \in {"code"} |-> "A"]

Blank == [f \in FormFields |-> ""]
Post(basic, form) == [method |-> "POST", parses |-> TRUE, basic |-> basic, form |-> form]
Secret(id) == [Blank EXCEPT !["client_id"] = id, !["client_secret"] = "s"]
Basic(id) == [set |-> TRUE, escaped |-> TRUE, id |-> id, secret |-> "s"]
Assertion(text) == [Blank EXCEPT !["client_id"] = "A", !["client_assertion"] = text,
                                 !["client_assertion_type"] = "type"]
Asking(form, code) == [form EXCEPT !["grant_type"] = "authorization_code", !["code"] = code]
Refreshing(form, t, scope) == [form EXCEPT !["grant_type"] = "refresh_token",
                                            !["refresh_token"] = t, !["scope"] = scope]

CodeByPost == Post(NoBasic, Asking(Secret("A"), "code"))
CodeByBasic == Post(Basic("A"), Asking(Blank, "code"))
StolenCode == Post(Basic("B"), Asking(Blank, "code"))
ForgedCode == Post(NoBasic, Asking(Secret("A"), "forged"))
Refresh == Post(NoBasic, Refreshing(Assertion("jwt"), "rt", "read"))

(* Everything that is refused before the application is asked *)
Refused == {
    [CodeByPost EXCEPT !.method = "GET"],
    [CodeByPost EXCEPT !.parses = FALSE],
    Post(NoBasic, Asking(Blank, "code")),
    Post(Basic("A"), Asking(Secret("A"), "code")),
    Post([Basic("A") EXCEPT !.escaped = FALSE], Asking(Blank, "code")),
    Post(NoBasic, Asking(Secret(""), "code")),
    Post(NoBasic, Asking(Secret("A"), "")),
    Post(NoBasic, Asking(Assertion("bad"), "code")),
    Post(NoBasic, Asking(Assertion("swallowed"), "code")),
    Post(NoBasic, Refreshing(Secret("A"), "bad", "")),
    Post(NoBasic, Refreshing(Secret("A"), "rt", "read admin")),
    Post(NoBasic, [Secret("A") EXCEPT !["grant_type"] = "type"]),
    Post(NoBasic, [Secret("A") EXCEPT !["grant_type"] = "device_code"])}

ExchangeCarriers == {CodeByPost, StolenCode, ForgedCode, Refresh}
IssuanceCarriers == {CodeByPost, Refresh}
AllCarriers == {CodeByPost, CodeByBasic, StolenCode, ForgedCode, Refresh} \cup Refused
ClientCarriers == {Post(NoBasic, [Secret("A") EXCEPT !["grant_type"] = "client_credentials"]),
                   Post(Basic("B"), [Blank EXCEPT !["grant_type"] = "client_credentials",
                                                  !["scope"] = "read"])}

NoOptions == {<<>>}
Writing(claim, value) == SetClaims([NoClaims EXCEPT ![claim] = value])
Failing == [does |-> "fail", claims |-> NoClaims, err |-> {"Unavailable"}]
Stopping == [does |-> "stop", claims |-> NoClaims, err |-> NoError]
Nil == [does |-> "nil", claims |-> NoClaims, err |-> NoError]
FailingOptions == {<<>>, <<Failing>>, <<Nil>>}
ManyOptions == {<<>>, <<Writing("sub", "bob")>>,
                <<Writing("jti", "forged"), Writing("iat", "bad")>>,
                <<Failing, Writing("sub", "bob")>>, <<Stopping>>, <<Writing("iat", "s"), Nil>>}
NoRuntimeOptions == <<>>
RuntimeOptions == <<Writing("sub", "B"), Writing("jti", "rt")>>
MCErrors == {{"Unavailable"}, {"PolicyRejected", "Unauthenticated"}}
OneError == {{"Unavailable"}}
=============================================================================
