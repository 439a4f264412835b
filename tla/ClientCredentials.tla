------------------------- MODULE ClientCredentials -------------------------
(***************************************************************************)
(* Package clientcredentials: how the credentials of an OAuth client are   *)
(* found in an HTTP request, validated, and handed to the callback of the  *)
(* application that authenticates a client.  Everything here is computed   *)
(* from one request and the configuration: no state is shared.             *)
(*                                                                         *)
(* A request is a record                                                   *)
(*    method   the HTTP method                                             *)
(*    parses   whether ParseForm reads the whole body and every escape     *)
(*    basic    the Authorization header: NoBasic, or the decoded pair with *)
(*             escaped = FALSE when one of its parts does not unescape     *)
(*    form     the text of every form field, "" when it is absent          *)
(* A token decoded from a text is named by that text, "" being nil.        *)
(***************************************************************************)
EXTENDS OAuthErrors, OAuthNames

CONSTANTS
    Text,             \* the texts a form field may hold
    AllowedMethods,   \* Validator.allowedMethods
    DecodeFault,      \* the error a token decoder has for a text
    ValidateFault     \* the error a token validator has for the token of a text

FormFields == {"grant_type", "client_id", "client_secret", "client_assertion_type",
               "client_assertion", "code", "redirect_uri", "code_verifier",
               "username", "password", "scope", "refresh_token", "device_code",
               "assertion"}

ASSUME TextAssumption ==
    /\ "" \in Text
    /\ AllowedMethods \subseteq ClientAuthMethods
    /\ DecodeFault \in [Text -> Errors]
    /\ ValidateFault \in [Text -> Errors]

NoBasic == [set |-> FALSE, escaped |-> TRUE, id |-> "", secret |-> ""]
BasicHeaders == {NoBasic} \cup [set : {TRUE}, escaped : BOOLEAN, id : Text, secret : Text]

HTTPRequests == [method : {"GET", "POST"}, parses : BOOLEAN,
                 basic : BasicHeaders, form : [FormFields -> Text]]

Credentials == [auth_method : ClientAuthMethods \cup {""}, client_id : Text,
                client_secret : Text, assertion_type : Text, assertion : Text]

(* The zero ClientCredentials *)
NoCredentials == [auth_method |-> "", client_id |-> "", client_secret |-> "",
                  assertion_type |-> "", assertion |-> ""]

(* The methods a request uses; one request may use several *)
PresentedMethods(http) ==
    {m \in ClientAuthMethods :
        \/ m = "client_secret_basic" /\ http.basic.set
        \/ m = "client_secret_post" /\ http.form["client_secret"] # ""
        \/ m = "private_key_jwt" /\ http.form["client_assertion"] # ""}

(* A mistake: of several methods the first one wins *)
FirstClientAuthMethod(http) ==
    LET presented == PresentedMethods(http) IN
    IF ~http.parses THEN Failure({"Malformed"}, "")
    ELSE IF presented = {} THEN Failure({"NotApplicable"}, "")
    ELSE Success(CHOOSE m \in presented : TRUE)

(***************************************************************************)
(* Reader.clientAuthMethod: the one method of the request, or an error.    *)
(***************************************************************************)
ClientAuthMethod(http) ==
    LET presented == PresentedMethods(http) IN
    IF ~http.parses THEN Failure({"Malformed"}, "")
    ELSE IF presented = {} THEN Failure({"NotApplicable"}, "")
    ELSE IF \E m, n \in presented : m # n THEN Failure({"Unauthenticated"}, "")
    ELSE Success(CHOOSE m \in presented : TRUE)

(***************************************************************************)
(* Reader.readArtifact.  The method decides where the id and the secret    *)
(* come from; only the assertion is decoded.                               *)
(***************************************************************************)
ReadClientCredentials(http) ==
    LET method == ClientAuthMethod(http)
        posted == [NoCredentials EXCEPT !.auth_method = method.value,
                                        !.client_id = http.form["client_id"]]
        assertion == http.form["client_assertion"]
    IN  IF method.err # NoError THEN Failure(method.err, NoCredentials)
        ELSE IF method.value = "client_secret_basic"
        THEN IF http.basic.escaped
             THEN Success([NoCredentials EXCEPT !.auth_method = method.value,
                                                !.client_id = http.basic.id,
                                                !.client_secret = http.basic.secret])
             ELSE Failure({"Malformed"}, NoCredentials)
        ELSE IF method.value = "client_secret_post"
        THEN Success([posted EXCEPT !.client_secret = http.form["client_secret"]])
        ELSE IF DecodeFault[assertion] # NoError
        THEN Failure(NewErrorCategory("Malformed", DecodeFault[assertion]), NoCredentials)
        ELSE Success([posted EXCEPT !.assertion_type = http.form["client_assertion_type"],
                                    !.assertion = assertion])

(***************************************************************************)
(* Validator.validate, its checks in their order.                          *)
(***************************************************************************)
ValidateClientCredentials(c) ==
    IF c.auth_method = "" THEN {"Malformed"}
    ELSE IF c.auth_method \notin ClientAuthMethods THEN {"Unsupported"}
    ELSE IF c.auth_method \notin AllowedMethods THEN {"PolicyRejected"}
    ELSE IF c.client_id = "" THEN {"Malformed"}
    ELSE IF c.auth_method = "private_key_jwt"
    THEN IF c.client_secret # "" \/ c.assertion_type = "" \/ c.assertion = ""
         THEN {"Malformed"}
         ELSE ValidateFault[c.assertion]
    ELSE IF c.client_secret = "" \/ c.assertion_type # "" \/ c.assertion # ""
    THEN {"Malformed"}
    ELSE NoError
=============================================================================
