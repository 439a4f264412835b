--------------------------- MODULE MCClientSession ---------------------------
(***************************************************************************)
(* A client that has one refresh token, one password, one code and one     *)
(* assertion to ask with, and a server that grants what it likes.  What    *)
(* the encoder makes of a token, and the decoder of a text, is computed by *)
(* module JwtCodec: "srt" is a signed refresh token as the server wrote it *)
(* and "srt again" what becomes of it when it is decoded and encoded.      *)
(***************************************************************************)
EXTENDS ClientSession

Codec == INSTANCE JwtCodec WITH MaxTokenBytes <- 60, MaxHeaderBytes <- 9,
                                MaxClaimsBytes <- 9, MaxSignatureBytes <- 9

Part(bytes) == [says |-> <<>>, json |-> TRUE, layers |-> 0, bytes |-> bytes]
Jwt(claims, signature) ==
    [header |-> Part(3), claims |-> Part(claims), parsed |-> FALSE,
     signature |-> [Codec!NoPart EXCEPT !.bytes = signature]]
Wire(claims, signature) == Codec!Encode(Jwt(claims, signature)).value
Again(text) == Codec!Encode(Codec!Decode(text).value).value

(* What is written where a token is; tokens are told apart by their claims *)
Wires == [at |-> Wire(3, 0), rt |-> Wire(4, 0), idt |-> Wire(5, 0), jwt |-> Wire(6, 3),
          huge |-> Wire(10, 0), srt |-> Wire(7, 3), srt_again |-> Again(Wire(7, 3))]
Received == {"at", "rt", "idt", "srt"}

MCText == GrantTypes \cup DOMAIN Wires \cup
          {"", "id", "other", "secret", "code", "uri", "read", "read write", "read  write",
           "type", "broken", "Bearer", "bearer", "DPoP", "token", "urn:token"}
MCDecodeFault == [t \in MCText |-> IF t \in DOMAIN Wires THEN Codec!Decode(Wires[t]).err
                                   ELSE NoError]
MCEncoded == [t \in MCText |->
    IF t \in Received THEN CHOOSE u \in DOMAIN Wires : Wires[u] = Again(Wires[t]) ELSE t]
MCEncodeFault == [t \in MCText |-> IF t = "broken" THEN {"Malformed"} ELSE NoError]
MCValidateFault == [t \in MCText |-> IF t = "srt" THEN {"Expired"} ELSE NoError]
MCTokenFault == [k \in TokenKinds |-> [t \in MCText |->
    IF k = "id_token" /\ t # "idt" THEN {"WrongIssuer"} ELSE NoError]]
MCScopesOf == [t \in MCText \ {""} |->
    CASE t = "read write" -> <<"read", "write">> [] t = "read  write" -> <<"read", "", "write">>
      [] OTHER -> <<t>>]

Secret == [NoCredentials EXCEPT !.auth_method = "client_secret_basic", !.client_id = "id",
                                !.client_secret = "secret"]
Signing(token) == [NoCredentials EXCEPT !.auth_method = "private_key_jwt",
                       !.client_id = "other", !.assertion_type = "type", !.assertion = token]
BareId == [NoCredentials EXCEPT !.client_id = "id", !.assertion_type = "type"]
TwoProofs == [Signing("jwt") EXCEPT !.client_secret = "secret"]

(* Every field is filled in; only those of the grant may be sent *)
Asking(grant, credentials, token) ==
    [grant_type |-> grant, credentials |-> credentials,
     fields |-> [f \in GrantFields |-> CASE f = "scope" -> "read" [] f \in TokenFields -> token
                                         [] f = "redirect_uri" -> "" [] OTHER -> "code"]]

MCArtifacts == {
    Asking("authorization_code", Secret, "jwt"), Asking("password", Signing("jwt"), "jwt"),
    Asking("client_credentials", BareId, "jwt"), Asking("device_code", TwoProofs, "jwt"),
    Asking("jwt_bearer", Secret, "jwt"), Asking("saml2_bearer", Secret, "broken"),
    Asking("refresh_token", Signing("broken"), "rt"), Asking("refresh_token", Secret, "huge"),
    Asking("uri", Secret, "jwt")}
FewArtifacts == {Asking("password", Signing("jwt"), "jwt")}

Basic == [set |-> TRUE, escaped |-> TRUE, id |-> "other", secret |-> "secret"]
MCHeaders == {NoBasic, Basic}
NoHeader == {NoBasic}

Response(access, refresh, id, lifetime, scope) ==
    [tokens |-> [access_token |-> access, refresh_token |-> refresh, id_token |-> id],
     token_type |-> "Bearer", lifetime |-> lifetime, scope |-> scope, issued_type |-> ""]

MCResponses == {
    Response("at", "rt", "idt", 0, "read write"), Response("at", "", "", 2, "read"),
    Response("at", "", "", 0, "read  write"),
    Response("at", "rt", "", 31, ""), Response("at", "", "", -32, "read"),
    Response("at", "", "", -1, "read"), Response("", "", "idt", 3, ""),
    Response("broken", "", "", 0, ""), Response("", "", "", 0, ""),
    [Response("at", "", "", 0, "") EXCEPT !.token_type = "DPoP"],
    [Response("at", "", "", 4, "") EXCEPT !.issued_type = "urn:token"]}
Signed == {Response("at", "srt", "", 0, "")}

Representation(rep, seconds) ==
    [tokens |-> rep.tokens, token_type |-> rep.token_type, expires_in |-> seconds,
     scope |-> rep.scope, issued_type |-> rep.issued_type]
MCForeign == {
    EmptyRepresentation,
    Representation(Response("at", "", "jwt", 0, ""), 1),
    Representation(Response("at", "huge", "", 0, ""), 1),
    Representation([Response("at", "", "idt", 0, "") EXCEPT !.token_type = "bearer"], 17),
    Representation([Response("at", "", "", 0, "") EXCEPT !.token_type = ""], 1),
    Representation([Response("at", "", "", 0, "") EXCEPT !.issued_type = "token"], 1)}
NoForeign == {}
=============================================================================
