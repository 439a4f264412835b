---------------------------- MODULE TokenRequest ----------------------------
(***************************************************************************)
(* Package tokenrequest: the reader that turns an HTTP request into a      *)
(* TokenRequest and the validator that decides whether it may be resolved. *)
(* The steps that call the application (the resolver) are actions of       *)
(* module TokenEndpoint.                                                   *)
(***************************************************************************)
EXTENDS ClientCredentials, Sequences, Naturals

CONSTANTS
    AllowedGrantTypes,  \* Validator.allowedGrantTypes
    AllowedScopes,      \* Validator.allowedScopes, every scope when it is nil
    IllFormedScopes,    \* the scopes validScope refuses, the empty one included
    ScopesOf            \* strings.Split of a scope text

ASSUME GrantAssumption ==
    /\ AllowedGrantTypes \subseteq GrantTypes
    /\ GrantTypes \subseteq Text
    /\ ScopesOf \in [Text \ {""} -> Seq(AllowedScopes \cup IllFormedScopes \cup Text)]

(***************************************************************************)
(* The fields readArtifact takes from the form for each grant type; of an  *)
(* unknown grant type it takes none.                                       *)
(***************************************************************************)
FieldsRead(grant) ==
    CASE grant = "authorization_code" -> {"code", "redirect_uri", "code_verifier"}
      [] grant = "password" -> {"username", "password", "scope"}
      [] grant = "client_credentials" -> {"scope"}
      [] grant = "refresh_token" -> {"refresh_token", "scope"}
      [] grant = "device_code" -> {"device_code"}
      [] grant \in {"jwt_bearer", "saml2_bearer"} -> {"assertion"}
      [] OTHER -> {}

GrantFields == {"code", "redirect_uri", "code_verifier", "username", "password",
                "scope", "refresh_token", "device_code", "assertion"}
TokenFields == {"refresh_token", "assertion"}

TokenRequests == [grant_type : Text, credentials : Credentials,
                  fields : [GrantFields -> Text]]

EmptyRequest == [grant_type |-> "", credentials |-> NoCredentials,
                 fields |-> [f \in GrantFields |-> ""]]

(* A mistake: every field of the form is kept, whatever the grant type *)
ReadEveryField(http) ==
    LET credentials == ReadClientCredentials(http)
    IN  IF ~http.parses THEN Failure({"Malformed"}, EmptyRequest)
        ELSE Success([grant_type |-> http.form["grant_type"],
                      credentials |-> credentials.value, fields |-> http.form])

(***************************************************************************)
(* Reader.readArtifact.  A request without client credentials is not an    *)
(* error here: NotApplicable leaves the credentials empty, and any other   *)
(* error of their reader ends the reading.                                 *)
(***************************************************************************)
ReadTokenRequest(http) ==
    LET grant == http.form["grant_type"]
        read == FieldsRead(grant)
        credentials == ReadClientCredentials(http)
        faults == {DecodeFault[http.form[f]] :
                        f \in {t \in TokenFields \cap read : http.form[t] # ""}}
    IN  IF ~http.parses THEN Failure({"Malformed"}, EmptyRequest)
        ELSE IF credentials.err # NoError /\ "NotApplicable" \notin credentials.err
        THEN Failure(credentials.err, EmptyRequest)
        ELSE IF UNION faults # NoError
        THEN Failure(NewErrorCategory("Malformed", UNION faults), EmptyRequest)
        ELSE Success([grant_type |-> grant, credentials |-> credentials.value,
                      fields |-> [f \in GrantFields |->
                                     IF f \in read THEN http.form[f] ELSE ""]])

(***************************************************************************)
(* The loop over the scopes of validate: the first offending scope decides *)
(* between a malformed request and a refusal.                              *)
(***************************************************************************)
ScopeFault(scopes) ==
    LET offends(i) == scopes[i] \in IllFormedScopes \/ scopes[i] \notin AllowedScopes
        first(i) == offends(i) /\ \A j \in DOMAIN scopes : j < i => ~offends(j)
    IN  IF \E i \in DOMAIN scopes : first(i) /\ scopes[i] \in IllFormedScopes
        THEN {"Malformed"}
        ELSE IF \E i \in DOMAIN scopes : first(i) THEN {"PolicyRejected"} ELSE NoError

(***************************************************************************)
(* The switch at the end of validate: the fields a grant cannot do without *)
(* and the validators of the tokens it carries.                            *)
(***************************************************************************)
RequiredFields(grant) ==
    CASE grant = "authorization_code" -> {"code"}
      [] grant = "password" -> {"username", "password"}
      [] grant = "refresh_token" -> {"refresh_token"}
      [] grant = "device_code" -> {"device_code"}
      [] grant \in {"jwt_bearer", "saml2_bearer"} -> {"assertion"}
      [] OTHER -> {}

GrantFault(req) ==
    LET required == RequiredFields(req.grant_type) IN
    IF \E f \in required : req.fields[f] = "" THEN {"Malformed"}
    ELSE UNION {ValidateFault[req.fields[f]] : f \in required \cap TokenFields}

(***************************************************************************)
(* Validator.validate: the grant type, the client's credentials, the       *)
(* scopes and the fields of the grant, in this order.                      *)
(***************************************************************************)
ValidateTokenRequest(req) ==
    LET credentials == ValidateClientCredentials(req.credentials)
        scope == req.fields["scope"]
        scopes == IF scope = "" THEN NoError ELSE ScopeFault(ScopesOf[scope])
    IN  IF req.grant_type = "" THEN {"Malformed"}
        ELSE IF req.grant_type \notin GrantTypes THEN {"Unsupported"}
        ELSE IF req.grant_type \notin AllowedGrantTypes THEN {"PolicyRejected"}
        ELSE IF credentials # NoError THEN credentials
        ELSE IF scopes # NoError THEN scopes
        ELSE GrantFault(req)
=============================================================================
