------------------------- MODULE TokenRequestProofs -------------------------
(***************************************************************************)
(* What the functions the endpoint is built from return, for every request *)
(* and every configuration: the lemmas of TokenEndpointProofs.             *)
(***************************************************************************)
EXTENDS TokenRequest, TLAPS

(***************************************************************************)
(* NewErrorCategory never loses an error (vapi.NewErrorCategory as it is   *)
(* used everywhere in src/).                                               *)
(***************************************************************************)
LEMMA WrappedIsError ==
    ASSUME NEW category \in Categories, NEW cause \in Errors
    PROVE  NewErrorCategory(category, cause) \in Errors \ {NoError}
BY DEF NewErrorCategory, Errors, NoError

(***************************************************************************)
(* The credentials reader returns credentials or an error                  *)
(* (clientcredentials/reader.go, readArtifact).                            *)
(***************************************************************************)
LEMMA ReadCredentialsType ==
    ASSUME NEW http \in HTTPRequests
    PROVE  ReadClientCredentials(http) \in [err : Errors, value : Credentials]
<1> DEFINE method == ClientAuthMethod(http)
           posted == [NoCredentials EXCEPT !.auth_method = method.value,
                                           !.client_id = http.form["client_id"]]
           assertion == http.form["client_assertion"]
<1>1. /\ http.form \in [FormFields -> Text] /\ http.basic \in BasicHeaders
      /\ "" \in Text /\ DecodeFault \in [Text -> Errors]
  BY TextAssumption DEF HTTPRequests
<1>2. /\ http.basic.id \in Text /\ http.basic.secret \in Text
      /\ \A f \in FormFields : http.form[f] \in Text
  <2>1. NoBasic.id = "" /\ NoBasic.secret = ""
    BY DEF NoBasic
  <2>2. http.basic = NoBasic => http.basic.id \in Text /\ http.basic.secret \in Text
    BY <1>1, <2>1
  <2>3. http.basic # NoBasic => http.basic.id \in Text /\ http.basic.secret \in Text
    BY <1>1 DEF BasicHeaders
  <2>4. \A f \in FormFields : http.form[f] \in Text
    BY <1>1
  <2> QED
    BY <2>2, <2>3, <2>4
<1>3. method \in [err : Errors, value : ClientAuthMethods \cup {""}]
  <2> DEFINE presented == PresentedMethods(http)
  <2>1. presented \subseteq ClientAuthMethods
    BY DEF PresentedMethods
  <2>2. presented # {} => (CHOOSE m \in presented : TRUE) \in ClientAuthMethods
    BY <2>1
  <2> QED
    BY <2>2 DEF ClientAuthMethod, Success, Failure, Errors, Categories, NoError
<1>4. NoCredentials \in Credentials /\ posted \in Credentials
  BY <1>1, <1>2, <1>3 DEF NoCredentials, Credentials, FormFields
<1>5. /\ method.err \in Errors /\ {"Malformed"} \in Errors /\ NoError \in Errors
      /\ NewErrorCategory("Malformed", DecodeFault[assertion]) \in Errors
  BY <1>1, <1>2, <1>3, WrappedIsError DEF FormFields, Errors, Categories, NoError
<1>6. /\ [NoCredentials EXCEPT !.auth_method = method.value, !.client_id = http.basic.id,
                              !.client_secret = http.basic.secret] \in Credentials
      /\ [posted EXCEPT !.client_secret = http.form["client_secret"]] \in Credentials
      /\ [posted EXCEPT !.assertion_type = http.form["client_assertion_type"],
                        !.assertion = assertion] \in Credentials
  BY <1>1, <1>2, <1>3, <1>4 DEF NoCredentials, Credentials, FormFields
<1> HIDE DEF method, posted, assertion
<1> QED
  BY <1>4, <1>5, <1>6 DEF ReadClientCredentials, Success, Failure, method, posted, assertion

(***************************************************************************)
(* The request reader returns a token request or an error                  *)
(* (tokenrequest/reader.go, readArtifact).                                 *)
(***************************************************************************)
LEMMA ReadType ==
    ASSUME NEW http \in HTTPRequests
    PROVE  ReadTokenRequest(http) \in [err : Errors, value : TokenRequests]
<1> DEFINE grant == http.form["grant_type"]
           read == FieldsRead(grant)
           credentials == ReadClientCredentials(http)
           faults == {DecodeFault[http.form[f]] :
                           f \in {t \in TokenFields \cap read : http.form[t] # ""}}
           made == [grant_type |-> grant, credentials |-> credentials.value,
                    fields |-> [f \in GrantFields |->
                                   IF f \in read THEN http.form[f] ELSE ""]]
<1>1. /\ http.form \in [FormFields -> Text] /\ "" \in Text
      /\ DecodeFault \in [Text -> Errors]
  BY TextAssumption DEF HTTPRequests
<1>2. credentials \in [err : Errors, value : Credentials]
  BY ReadCredentialsType
<1>3. UNION faults \in Errors
  <2>1. \A f \in TokenFields : DecodeFault[http.form[f]] \in Errors
    BY <1>1 DEF TokenFields, FormFields
  <2> QED
    BY <2>1 DEF Errors
<1>4. made \in TokenRequests
  <2>1. GrantFields \subseteq FormFields /\ "grant_type" \in FormFields
    BY DEF GrantFields, FormFields
  <2>2. [f \in GrantFields |-> IF f \in read THEN http.form[f] ELSE ""]
            \in [GrantFields -> Text]
    BY <1>1, <2>1
  <2> QED
    BY <1>1, <1>2, <2>1, <2>2 DEF TokenRequests
<1>5. EmptyRequest \in TokenRequests
  <2>1. NoCredentials \in Credentials
    BY <1>1 DEF NoCredentials, Credentials
  <2> QED
    BY <1>1, <2>1 DEF EmptyRequest, TokenRequests
<1>6. /\ {"Malformed"} \in Errors /\ NoError \in Errors
      /\ NewErrorCategory("Malformed", UNION faults) \in Errors
  BY <1>3, WrappedIsError DEF Errors, Categories, NoError
<1> HIDE DEF grant, read, credentials, faults, made
<1>7. ReadTokenRequest(http) =
        IF ~http.parses THEN Failure({"Malformed"}, EmptyRequest)
        ELSE IF credentials.err # NoError /\ "NotApplicable" \notin credentials.err
        THEN Failure(credentials.err, EmptyRequest)
        ELSE IF UNION faults # NoError
        THEN Failure(NewErrorCategory("Malformed", UNION faults), EmptyRequest)
        ELSE Success(made)
  BY DEF ReadTokenRequest, grant, read, credentials, faults, made
<1> QED
  BY <1>2, <1>4, <1>5, <1>6, <1>7 DEF Success, Failure

(***************************************************************************)
(* The request validator returns an error of known categories or nil       *)
(* (tokenrequest/validator.go, validate).                                  *)
(***************************************************************************)
LEMMA ValidateType ==
    ASSUME NEW req \in TokenRequests
    PROVE  ValidateTokenRequest(req) \in Errors
<1>1. /\ req.credentials \in Credentials /\ req.fields \in [GrantFields -> Text]
      /\ ValidateFault \in [Text -> Errors]
  BY TextAssumption DEF TokenRequests
<1>2. ValidateClientCredentials(req.credentials) \in Errors
  BY <1>1 DEF ValidateClientCredentials, Credentials, Errors, Categories, NoError
<1>3. \A scopes : ScopeFault(scopes) \in Errors
  BY DEF ScopeFault, Errors, Categories, NoError
<1>4. GrantFault(req) \in Errors
  <2>1. \A f \in TokenFields : ValidateFault[req.fields[f]] \in Errors
    BY <1>1 DEF TokenFields, GrantFields
  <2> QED
    BY <2>1 DEF GrantFault, Errors, Categories
<1> QED
  BY <1>2, <1>3, <1>4 DEF ValidateTokenRequest, Errors, Categories, NoError

(***************************************************************************)
(* A request the validator accepts asks for a grant that is allowed.       *)
(***************************************************************************)
LEMMA ValidIsAllowed ==
    ASSUME NEW req, ValidateTokenRequest(req) = NoError
    PROVE  req.grant_type \in AllowedGrantTypes
BY DEF ValidateTokenRequest, NoError

(***************************************************************************)
(* What the two packages establish together: credentials that were read    *)
(* and then found valid are those of the one method the request uses       *)
(* (clientcredentials/reader.go, readArtifact; validator.go, validate).    *)
(***************************************************************************)
LEMMA MethodFound ==
    ASSUME NEW http, ClientAuthMethod(http).err = NoError
    PROVE  http.parses /\ PresentedMethods(http) = {ClientAuthMethod(http).value}
<1> DEFINE presented == PresentedMethods(http)
<1>1. {"Malformed"} # NoError /\ {"NotApplicable"} # NoError /\ {"Unauthenticated"} # NoError
  BY DEF NoError
<1>2. /\ http.parses /\ presented # {} /\ \A m, n \in presented : m = n
      /\ ClientAuthMethod(http).value = CHOOSE m \in presented : TRUE
  BY <1>1 DEF ClientAuthMethod, Success, Failure
<1>3. (CHOOSE m \in presented : TRUE) \in presented
  BY <1>2
<1> HIDE DEF presented
<1> QED
  BY <1>2, <1>3 DEF presented

ProofOf(http, method) ==
    CASE method = "client_secret_basic" -> http.basic.secret
      [] method = "client_secret_post" -> http.form["client_secret"]
      [] method = "private_key_jwt" -> http.form["client_assertion"]

IdOf(http, method) ==
    IF method = "client_secret_basic" THEN http.basic.id ELSE http.form["client_id"]

LEMMA CredentialsAreOfTheMethod ==
    ASSUME NEW http \in HTTPRequests,
           ValidateClientCredentials(ReadClientCredentials(http).value) = NoError
    PROVE  \E m \in AllowedMethods :
               LET c == ReadClientCredentials(http).value IN
               /\ http.parses /\ PresentedMethods(http) = {m}
               /\ c.client_id = IdOf(http, m) /\ c.client_id # "" /\ ProofOf(http, m) # ""
               /\ m = "client_secret_basic" => http.basic.escaped
               /\ m = "private_key_jwt" => /\ DecodeFault[ProofOf(http, m)] = NoError
                                           /\ ValidateFault[ProofOf(http, m)] = NoError
<1> DEFINE method == ClientAuthMethod(http)
           c == ReadClientCredentials(http).value
           posted == [NoCredentials EXCEPT !.auth_method = method.value,
                                           !.client_id = http.form["client_id"]]
           assertion == http.form["client_assertion"]
           viaBasic == [NoCredentials EXCEPT !.auth_method = method.value,
                                             !.client_id = http.basic.id,
                                             !.client_secret = http.basic.secret]
           viaPost == [posted EXCEPT !.client_secret = http.form["client_secret"]]
           viaJwt == [posted EXCEPT !.assertion_type = http.form["client_assertion_type"],
                                    !.assertion = assertion]
<1>1. NoCredentials.auth_method = ""
  BY DEF NoCredentials
<1>2. c # NoCredentials /\ c.auth_method \in AllowedMethods /\ c.client_id # ""
      /\ IF c.auth_method = "private_key_jwt"
         THEN c.assertion # "" /\ ValidateFault[c.assertion] = NoError
         ELSE c.client_secret # ""
  <2>1. {"Malformed"} # NoError /\ {"Unsupported"} # NoError /\ {"PolicyRejected"} # NoError
    BY DEF NoError
  <2> HIDE DEF c
  <2> QED
    BY <1>1, <2>1 DEF ValidateClientCredentials, c
<1>3. ReadClientCredentials(http) =
        IF method.err # NoError THEN Failure(method.err, NoCredentials)
        ELSE IF method.value = "client_secret_basic"
        THEN IF http.basic.escaped THEN Success(viaBasic)
             ELSE Failure({"Malformed"}, NoCredentials)
        ELSE IF method.value = "client_secret_post" THEN Success(viaPost)
        ELSE IF DecodeFault[assertion] # NoError
        THEN Failure(NewErrorCategory("Malformed", DecodeFault[assertion]), NoCredentials)
        ELSE Success(viaJwt)
  BY Zenon DEF ReadClientCredentials
<1>4. /\ viaBasic.auth_method = method.value /\ viaBasic.client_id = http.basic.id
      /\ viaBasic.client_secret = http.basic.secret
  BY DEF NoCredentials
<1>5. /\ viaPost.auth_method = method.value /\ viaPost.client_id = http.form["client_id"]
      /\ viaPost.client_secret = http.form["client_secret"]
  BY DEF NoCredentials
<1>6. /\ viaJwt.auth_method = method.value /\ viaJwt.client_id = http.form["client_id"]
      /\ viaJwt.assertion = assertion
  BY DEF NoCredentials
<1> HIDE DEF viaBasic, viaPost, viaJwt, posted
<1>7. \A e, v : Failure(e, v).value = v /\ Success(v).value = v
  BY DEF Failure, Success
<1> DEFINE m == method.value
<1>8. c = ReadClientCredentials(http).value
  OBVIOUS
<1>9. c # NoCredentials
  BY <1>2
<1> HIDE DEF c
<1>10. method.err = NoError
  BY <1>3, <1>7, <1>8, <1>9
<1>11. http.parses /\ PresentedMethods(http) = {m}
  BY <1>10, MethodFound
<1> HIDE DEF method
<1>12. CASE m = "client_secret_basic"
  <2>1. ReadClientCredentials(http) = IF http.basic.escaped THEN Success(viaBasic)
                                     ELSE Failure({"Malformed"}, NoCredentials)
    BY <1>3, <1>10, <1>12
  <2>2. http.basic.escaped
    BY <1>7, <1>8, <1>9, <2>1
  <2>3. c = viaBasic
    BY <1>7, <1>8, <2>1, <2>2
  <2> QED
    BY <1>2, <1>4, <1>11, <1>12, <1>8, <2>2, <2>3 DEF IdOf, ProofOf
<1>13. CASE m = "client_secret_post"
  <2>1. c = viaPost
    BY <1>3, <1>7, <1>10, <1>13, <1>8
  <2> QED
    BY <1>2, <1>5, <1>11, <1>13, <1>8, <2>1 DEF IdOf, ProofOf
<1>14. CASE m \notin {"client_secret_basic", "client_secret_post"}
  <2>1. ReadClientCredentials(http) =
            IF DecodeFault[assertion] # NoError
            THEN Failure(NewErrorCategory("Malformed", DecodeFault[assertion]), NoCredentials)
            ELSE Success(viaJwt)
    BY <1>3, <1>10, <1>14
  <2>2. DecodeFault[assertion] = NoError
    <3>1. DecodeFault[assertion] # NoError =>
              ReadClientCredentials(http).value = NoCredentials
      BY <1>7, <2>1
    <3> QED
      BY <1>8, <1>9, <3>1
  <2>3. c = viaJwt
    BY <1>7, <1>8, <2>1, <2>2
  <2>4. m = "private_key_jwt"
    BY <1>2, <1>6, <1>14, <2>3, TextAssumption DEF ClientAuthMethods
  <2> QED
    BY <1>2, <1>6, <1>11, <1>8, <2>2, <2>3, <2>4 DEF IdOf, ProofOf
<1> QED
  BY <1>12, <1>13, <1>14
=============================================================================
