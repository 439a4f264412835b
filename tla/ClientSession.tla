---------------------------- MODULE ClientSession ----------------------------
(***************************************************************************)
(* A client and a token endpoint that both use this library.  The client   *)
(* writes token requests, and credentials alone, into one *http.Request    *)
(* that it keeps, sends it, reads and validates the answer, and uses the   *)
(* refresh token it was given in its next request.  The server reads the   *)
(* request, grants it or not, and writes the answer; what happens inside   *)
(* the server is module TokenEndpoint.  Requests and answers get lost,     *)
(* answers arrive in part, writers fail, other servers answer too.         *)
(***************************************************************************)
EXTENDS TokenResponse

CONSTANTS
    Artifacts,        \* the token requests the application may write
    ClientOf,         \* the credentials the client refreshes with
    Headers,          \* the Authorization headers the carrier may have
    Responses,        \* the responses a server grants
    Foreign,          \* what other servers send
    PayloadSizes, ErrorBytes,  \* bound: the lengths of documents
    ClientCallbacks,  \* the methods that clientcredentials.Resolver has a function for
    ClientErrors,     \* the errors those functions return
    MaxWrites         \* bound: how often the client writes

ASSUME SessionAssumption ==
    /\ Artifacts \subseteq TokenRequests /\ ClientOf \in Credentials
    /\ Headers \subseteq BasicHeaders
    /\ Responses \subseteq TokenResponses /\ Foreign \subseteq Representations
    /\ PayloadSizes \subseteq Nat \ {0} /\ ErrorBytes \in Nat \ {0} /\ MaxWrites \in Nat
    /\ ClientCallbacks \subseteq ClientAuthMethods
    /\ ClientErrors \subseteq Errors \ {NoError}

VARIABLES
    carrier,    \* the client's *http.Request
    written,    \* the artifact of its last WriteArtifact, if that succeeded
    pc,         \* how far the exchange is
    seen,       \* what the server read
    principal,  \* what clientcredentials.Authenticator answered, and to which client
    response,   \* the TokenResponse the server granted
    sent,       \* the representation the answer is meant to carry
    body,       \* the body of the answer: documents, and whether it broke off
    got,        \* what the client made of it
    held,       \* the client's refresh token
    handed,     \* the refresh tokens the server has handed out
    writes      \* how often the client has written

request == <<carrier, written, writes>>
answer == <<response, sent, body>>
vars == <<request, pc, seen, principal, answer, got, held, handed>>

NotRead == Failure({"uncategorised"}, EmptyRequest)
NotAsked == Failure({"uncategorised"}, "")
NotReceived == Failure({"uncategorised"}, EmptyResponse)
NoBody == [documents |-> <<>>, broken |-> FALSE]

Init ==
    /\ carrier \in [method : {"POST"}, parses : {TRUE}, basic : Headers, form : {NoForm}]
    /\ written = EmptyRequest /\ pc = "idle" /\ seen = NotRead /\ principal = NotAsked
    /\ response = EmptyResponse /\ sent = EmptyRepresentation /\ body = NoBody
    /\ got = NotReceived /\ held = "" /\ handed = {} /\ writes = 0

(* A WriteArtifact has returned; what became of the exchange before is over *)
Written(result, artifact, next) ==
    /\ pc \in {"idle", "received", "request", "credentials"} /\ writes < MaxWrites
    /\ carrier' = result.carrier
    /\ IF result.err = NoError THEN written' = artifact /\ pc' = next
       ELSE written' = EmptyRequest /\ pc' = "idle"
    /\ writes' = writes + 1
    /\ seen' = NotRead /\ principal' = NotAsked /\ got' = NotReceived
    /\ response' = EmptyResponse /\ sent' = EmptyRepresentation /\ body' = NoBody
    /\ UNCHANGED <<held, handed>>

Refreshing ==
    [EmptyRequest EXCEPT !.grant_type = "refresh_token", !.credentials = ClientOf,
                         !.fields["refresh_token"] = held]

WriteRequest ==
    \E a \in Artifacts \cup (IF held = "" THEN {} ELSE {Refreshing}) :
        Written(WriteTokenRequest(carrier, a), a, "request")

WriteCredentials ==
    \E a \in Artifacts :
        Written(WriteClientCredentials(carrier, a.credentials),
                [EmptyRequest EXCEPT !.credentials = a.credentials], "credentials")

(* net/http reads the body to its end when it sends a request *)
Drain == carrier' = WithBody(carrier, NoForm)

Lose ==
    /\ \/ pc = "request" /\ Drain
       \/ pc = "receive" /\ UNCHANGED carrier
    /\ pc' = "idle"
    /\ UNCHANGED <<written, writes, seen, principal, answer, got, held, handed>>

Send ==
    /\ pc = "request" /\ pc' = "serve"
    /\ seen' = ReadTokenRequest(carrier)
    /\ Drain
    /\ UNCHANGED <<written, writes, principal, answer, got, held, handed>>

(***************************************************************************)
(* clientcredentials.Authenticator.Authenticate, of a request with nothing *)
(* but credentials: read, validate, resolve.  The resolver has a function  *)
(* for a method, which vouches for the client, fails, or returns nil; or   *)
(* it has none.                                                            *)
(***************************************************************************)
Authenticate ==
    LET read == ReadClientCredentials(carrier)
        fault == ValidateClientCredentials(read.value)
        served == read.value.auth_method \in ClientCallbacks
        answered(err) == Failure(NewErrorCategory("Unauthenticated", err), "")
    IN  /\ pc = "credentials" /\ pc' = "idle"
        /\ Drain
        /\ IF read.err # NoError
           THEN principal' = IF "NotApplicable" \in read.err THEN Failure(read.err, "")
                             ELSE answered(read.err)
           ELSE IF fault # NoError THEN principal' = answered(fault)
           ELSE IF ~served THEN principal' = answered({"Misconfigured"})
           ELSE \/ principal' = Success(read.value.client_id)
                \/ \E err \in ClientErrors \cup {NoError} : principal' = answered(err)
        /\ UNCHANGED <<written, writes, seen, answer, got, held, handed>>

ErrorDocument == [what |-> "error", says |-> EmptyRepresentation, bytes |-> ErrorBytes]

RefuseRequest ==
    /\ pc' = "receive"
    /\ body' = [documents |-> <<ErrorDocument>>, broken |-> FALSE]
    /\ UNCHANGED <<response, sent, handed>>

Fault == IF seen.err # NoError THEN seen.err ELSE ValidateTokenRequest(seen.value)
Refreshes == seen.value.grant_type = "refresh_token"

(* The server grants a refresh token's request if it handed that token out *)
Grant(r) ==
    LET encoded == EncodeResponse(r) IN
    /\ Fault = NoError
    /\ Refreshes => seen.value.fields["refresh_token"] \in handed
    /\ IF encoded.err # NoError THEN RefuseRequest
       ELSE /\ pc' = "deliver" /\ response' = r /\ sent' = encoded.value
            /\ handed' = (handed \cup {r.tokens["refresh_token"]}) \ {""}
            /\ UNCHANGED body

AnswerOfAnother ==
    /\ \E representation \in Foreign : sent' = representation
    /\ pc' = "deliver"
    /\ UNCHANGED <<response, body, handed>>

Serve ==
    /\ pc = "serve"
    /\ RefuseRequest \/ (\E r \in Responses : Grant(r)) \/ AnswerOfAnother
    /\ UNCHANGED <<request, seen, principal, got, held>>

(***************************************************************************)
(* tokenresponse.Writer.writeArtifact writes the payload; when Write       *)
(* fails, having sent all, a part or nothing of it, handleError writes its *)
(* document after it, and that may fail as well.  Whatever was written may *)
(* break off on its way, which the client's Read reports.                  *)
(***************************************************************************)
Deliveries(document) ==
    {<<document>>} \cup
    {before \o after :
        before \in {<<>>, <<document>>} \cup
                   {<<PartOf(document, n)>> : n \in 1 .. document.bytes - 1},
        after \in {<<>>, <<ErrorDocument>>, <<PartOf(ErrorDocument, 1)>>}}

Deliver ==
    /\ pc = "deliver" /\ pc' = "receive"
    /\ \E bytes \in PayloadSizes, broken \in BOOLEAN :
       \E documents \in Deliveries([what |-> "response", says |-> sent, bytes |-> bytes]) :
           body' = [documents |-> documents, broken |-> broken]
    /\ UNCHANGED <<request, seen, principal, response, sent, got, held, handed>>

(* The client's Reader, then its Validator; a new refresh token is kept *)
Receive ==
    LET read == ReadResponse(body.documents, body.broken)
        fault == IF read.err # NoError THEN read.err ELSE ValidateResponse(read.value)
        token == read.value.tokens["refresh_token"]
    IN  /\ pc = "receive" /\ pc' = "received"
        /\ got' = IF fault = NoError THEN read ELSE Failure(fault, EmptyResponse)
        /\ held' = IF fault = NoError /\ token # "" THEN token ELSE held
        /\ UNCHANGED <<request, seen, principal, answer, handed>>

Finished == writes = MaxWrites /\ pc \in {"idle", "received"} /\ UNCHANGED vars

Next ==
    \/ WriteRequest \/ WriteCredentials
    \/ Send \/ Lose \/ Authenticate \/ Serve \/ Deliver \/ Receive
    \/ Finished

Spec == Init /\ [][Next]_vars

-----------------------------------------------------------------------------
(***************************************************************************)
(* Properties.                                                             *)
(***************************************************************************)
TypeOK ==
    /\ carrier \in HTTPRequests
    /\ written \in TokenRequests
    /\ pc \in {"idle", "request", "credentials", "serve", "deliver", "receive", "received"}
    /\ seen.err \in Errors /\ seen.value \in TokenRequests
    /\ principal.err \in Errors /\ principal.value \in Text
    /\ response \in TokenResponses
    /\ got.err \in Errors /\ got.value \in TokenResponses
    /\ held \in Text /\ handed \subseteq Text \ {""}
    /\ writes \in 0 .. MaxWrites

(***************************************************************************)
(* However the carrier was written before, by writers that failed, for     *)
(* other grants, or for credentials alone, the server reads the last       *)
(* artifact: its grant type, the fields that tokenrequest.go:22-43 says    *)
(* this grant uses and no other, the tokens as the encoder writes them,    *)
(* and its credentials under the method of the proof in them, whatever     *)
(* AuthMethod says; without a proof there are none.  What has two proofs,  *)
(* the carrier's own header included, is refused.                          *)
(***************************************************************************)
UsedBy == [code |-> {"authorization_code"}, redirect_uri |-> {"authorization_code"},
           code_verifier |-> {"authorization_code"},
           username |-> {"password"}, password |-> {"password"},
           scope |-> {"password", "client_credentials", "refresh_token"},
           refresh_token |-> {"refresh_token"}, device_code |-> {"device_code"},
           assertion |-> {"jwt_bearer", "saml2_bearer"}]

Proofs(c) == {p \in {"client_secret", "assertion"} : c[p] # ""}

CredentialsOf(c) ==
    IF Proofs(c) = {} THEN NoCredentials
    ELSE IF Proofs(c) = {"client_secret"}
    THEN [NoCredentials EXCEPT !.auth_method = "client_secret_post",
                               !.client_id = c.client_id, !.client_secret = c.client_secret]
    ELSE [NoCredentials EXCEPT !.auth_method = "private_key_jwt",
                               !.client_id = c.client_id, !.assertion = Encoded[c.assertion],
                               !.assertion_type = c.assertion_type]

FieldsOf(a) ==
    [f \in GrantFields |-> IF a.grant_type \notin UsedBy[f] THEN ""
                           ELSE IF f \in TokenFields THEN Encoded[a.fields[f]]
                           ELSE a.fields[f]]

Decodable(a) ==
    \A t \in {a.credentials.assertion, a.fields["refresh_token"], a.fields["assertion"]} :
        DecodeFault[Encoded[t]] = NoError

ServerReadsTheLastArtifact ==
    pc = "serve" /\ Decodable(written) =>
        LET c == written.credentials IN
        IF Cardinality(Proofs(c)) + (IF carrier.basic.set THEN 1 ELSE 0) > 1
        THEN seen.err = {"Unauthenticated"}
        ELSE ~carrier.basic.set =>
                seen = Success([grant_type |-> written.grant_type,
                                credentials |-> CredentialsOf(c), fields |-> FieldsOf(written)])

(***************************************************************************)
(* A principal is the client whose id and only proof came together: those  *)
(* of the last artifact, or those of the carrier's own header where the    *)
(* artifact brings no proof.  An id without its proof is nobody.           *)
(***************************************************************************)
PrincipalHasTheProof ==
    principal.err = NoError =>
        LET c == written.credentials IN
        IF carrier.basic.set
        THEN Proofs(c) = {} /\ principal.value = carrier.basic.id /\ carrier.basic.secret # ""
        ELSE Cardinality(Proofs(c)) = 1 /\ principal.value = c.client_id

(***************************************************************************)
(* The client has the whole grant that was meant for it or nothing, and    *)
(* whether the server's Write failed half way, an error document follows   *)
(* the tokens, the connection broke or the limit cut the body off decides  *)
(* which: an answer it accepts is one whole document.  The reader does not *)
(* look at the HTTP status and does not need to.                           *)
(***************************************************************************)
Accepted == pc = "received" /\ got.err = NoError
DeliveredWhole ==
    /\ ~body.broken /\ Len(body.documents) = 1
    /\ body.documents[1].what = "response"

GrantIsWholeOrNothing ==
    Accepted => DeliveredWhole /\ got.value.tokens = sent.tokens /\ sent # EmptyRepresentation

(***************************************************************************)
(* The lifetime a client learns from a server of this library is the one   *)
(* the server gave, short of it by less than a second, and never negative, *)
(* up to the largest there is ("Zero means unspecified",                   *)
(* tokenresponse.go:25).                                                   *)
(***************************************************************************)
LifetimeSurvives ==
    Accepted /\ response # EmptyResponse =>
        LET lost == response.lifetime - got.value.lifetime IN
        /\ got.value.lifetime >= 0
        /\ IF response.lifetime < 0 THEN got.value.lifetime = 0 ELSE lost \in 0 .. Second - 1

(***************************************************************************)
(* A client whose policy agrees with the server's configuration accepts    *)
(* every grant that reaches it whole: of type "Bearer" however the client  *)
(* writes that, with the tokens and scopes the server granted.  The        *)
(* largest limit there is reads nothing at all                             *)
(* (tokenresponse/reader.go:79).                                           *)
(***************************************************************************)
Granted(k) == response.tokens[k] # ""
PoliciesAgree ==
    /\ response.token_type = "Bearer" /\ "bearer" \in AllowedTokenTypes
    /\ Granted("access_token") /\ ~RequireIssuedType
    /\ response.issued_type \notin RelativeTypes
    /\ \/ response.issued_type = "" \/ AllowedIssuedTypes = {}
       \/ response.issued_type \in AllowedIssuedTypes
    /\ Granted("id_token") => AllowIDToken
    /\ RequireIDToken => Granted("id_token")
    /\ \A k \in TokenKinds : Granted(k) =>
           DecodeFault[response.tokens[k]] = NoError /\ TokenFault[k][response.tokens[k]] = NoError
    /\ response.lifetime > -Second
    /\ response.scope # "" => ToSet(ScopesOf[response.scope]) \cap IllFormedScopes = {}

GrantsAreAccepted ==
    /\ pc = "received" /\ response # EmptyResponse /\ PoliciesAgree
    /\ MaxBodyBytes < Int64Max /\ DeliveredWhole /\ body.documents[1].bytes <= MaxBodyBytes
    /\ body.documents[1].bytes <= MaxPayloadBytes
    => Accepted /\ got.value.tokens = response.tokens /\ got.value.scope = response.scope

(***************************************************************************)
(* "RefreshToken is the refresh token issued by the authorization server"  *)
(* (tokenrequest.go:36): the server is shown a refresh token that it       *)
(* handed out whenever the client writes one of those.                     *)
(***************************************************************************)
RefreshTokenIsTheIssuedOne ==
    pc = "serve" /\ seen.err = NoError /\ Refreshes
    /\ written.fields["refresh_token"] \in handed
        => seen.value.fields["refresh_token"] \in handed
=============================================================================
