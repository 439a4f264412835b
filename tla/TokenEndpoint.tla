--------------------------- MODULE TokenEndpoint ---------------------------
(***************************************************************************)
(* The OAuth 2.0 token endpoint: TokenEndpoint.ServeHTTP and everything it *)
(* calls, one action per step of the handler.  net/http runs every request *)
(* in a goroutine of its own, so the handlers of all Requests interleave;  *)
(* what they share is the state of the application that configured the     *)
(* endpoint (who its client callback vouched for, which authorization      *)
(* codes it has consumed) and nothing of the library.  A request sent      *)
(* again, by a client that lost the answer, is another request with the    *)
(* same carrier.                                                           *)
(***************************************************************************)
EXTENDS TokenRequest, JwtIssuer

CONSTANTS
    Requests,           \* the requests net/http serves
    Carriers,           \* the HTTP requests clients send
    IssuedTokens,       \* TokenEndpoint.issuedTokens
    HasSigner,          \* whether the issuer has a signer
    IssuerRuntimeOptions, \* Issuer.runtimeOptions
    ClientCallbacks,    \* the methods with a ClientAuthentication callback
    HasSubjectResolver, \* whether ResolveSubject configured a callback
    Codes,              \* the authorization codes the application handed out
    Owner,              \* the user a code stands for
    Holder,             \* the client a code was handed out to
    Users,              \* the subjects the application knows of
    CallbackErrors,     \* the errors callbacks and the signer return
    OptionLists         \* the issuer options a token callback may return

ASSUME EndpointAssumption ==
    /\ "nobody" \notin Requests
    /\ Carriers \subseteq HTTPRequests
    /\ IssuedTokens \subseteq TokenKinds /\ IssuedTokens # {}
    /\ HasSigner \in BOOLEAN /\ HasSubjectResolver \in BOOLEAN
    /\ IssuerRuntimeOptions \in Seq(IssuerOptions)
    /\ ClientCallbacks \subseteq ClientAuthMethods
    /\ Codes \subseteq Text \ {""}
    /\ Users \cup Text \subseteq ClaimValues /\ "" \notin Users
    /\ Owner \in [Codes -> Users] /\ Holder \in [Codes -> Text]
    /\ CallbackErrors \subseteq Errors \ {NoError}
    /\ OptionLists \subseteq Seq(IssuerOptions)

(***************************************************************************)
(* presets/README.md:28: without ResolveSubject the client itself is the   *)
(* subject, which is meant for an endpoint of client credentials only.     *)
(***************************************************************************)
ASSUME ResolverAssumption ==
    "authorization_code" \in AllowedGrantTypes => HasSubjectResolver

VARIABLES
    pc,        \* where the handler of a request is
    carrier,   \* the *http.Request
    request,   \* the TokenRequest read from it
    client,    \* the principal of the client
    principal, \* the principal of the token subject
    options,   \* the issuer options the callback returned, by token
    tokens,    \* the TokenResponse: its tokens
    err,       \* the error handleError is called with
    wire,      \* what the ResponseWriter has accepted
    vouched,   \* whom the application authenticated: request and client
    redeemed   \* the application's code store: who consumed a code

handler == <<carrier, request, client, principal, options, tokens, err>>
application == <<vouched, redeemed>>
vars == <<pc, handler, wire, application>>

NoPrincipal == [subject |-> "", claims |-> NoClaims, scoped |-> FALSE]
Principals == [subject : Users \cup Text, claims : {NoClaims}, scoped : BOOLEAN]
Principal(subject, scoped) == [subject |-> subject, claims |-> NoClaims, scoped |-> scoped]

NoTokens == [k \in TokenKinds |-> NoToken]
Unused == [by |-> "nobody", client |-> ""]

Steps == {"serve", "read", "validate", "client", "subject", "prepare",
          "access_token", "refresh_token", "id_token", "write", "body",
          "fail", "done"}

(* A mistake: the refresh token is only issued next to an id token *)
AfterSkippingRefresh(k) == IF k = "access_token" THEN "id_token" ELSE "write"

(* The step after the one that issues a token of kind k *)
After(k) == CASE k = "access_token" -> "refresh_token"
              [] k = "refresh_token" -> "id_token"
              [] k = "id_token" -> "write"

GrantsCode(r) == request[r].grant_type = "authorization_code"
Code(r) == request[r].fields["code"]

Init ==
    /\ pc = [r \in Requests |-> "serve"]
    /\ carrier \in [Requests -> Carriers]
    /\ request = [r \in Requests |-> EmptyRequest]
    /\ client = [r \in Requests |-> NoPrincipal]
    /\ principal = [r \in Requests |-> NoPrincipal]
    /\ options = [r \in Requests |-> [k \in TokenKinds |-> <<>>]]
    /\ tokens = [r \in Requests |-> NoTokens]
    /\ err = [r \in Requests |-> NoError]
    /\ wire = [r \in Requests |-> [status |-> 0, payload |-> NoTokens, error |-> ""]]
    /\ vouched = {}
    /\ redeemed = [c \in Codes |-> Unused]

At(r, step) == pc[r] = step
Goto(r, step) == pc' = [pc EXCEPT ![r] = step]

(* handleError is about to be called with e *)
Raise(r, e) ==
    /\ Goto(r, "fail")
    /\ err' = [err EXCEPT ![r] = e]

(* http.ResponseWriter.WriteHeader: the first status is final *)
Committed(r, status) == IF wire[r].status = 0 THEN status ELSE wire[r].status

(***************************************************************************)
(* The head of ServeHTTP.  Its checks for a nil request and for an         *)
(* endpoint that New did not build cannot fail here.                       *)
(***************************************************************************)
Serve(r) ==
    /\ At(r, "serve")
    /\ IF carrier[r].method = "POST"
       THEN Goto(r, "read") /\ UNCHANGED wire
       ELSE Goto(r, "done") /\ wire' = [wire EXCEPT ![r].status = 405]
    /\ UNCHANGED <<handler, application>>

(***************************************************************************)
(* Authenticator.authenticate of package tokenrequest: read, validate,     *)
(* resolve the client, resolve the subject.                                *)
(***************************************************************************)
Read(r) ==
    LET read == ReadTokenRequest(carrier[r]) IN
    /\ At(r, "read")
    /\ IF read.err = NoError
       THEN /\ Goto(r, "validate")
            /\ request' = [request EXCEPT ![r] = read.value]
            /\ UNCHANGED err
       ELSE Raise(r, read.err) /\ UNCHANGED request
    /\ UNCHANGED <<carrier, client, principal, options, tokens, wire, application>>

(* A mistake: the subject is resolved without resolving the client first *)
ValidateThenSubject(r) ==
    LET fault == ValidateTokenRequest(request[r]) IN
    /\ At(r, "validate")
    /\ IF fault = NoError THEN Goto(r, "subject") /\ UNCHANGED err ELSE Raise(r, fault)
    /\ UNCHANGED <<carrier, request, client, principal, options, tokens, wire, application>>

Validate(r) ==
    LET fault == ValidateTokenRequest(request[r]) IN
    /\ At(r, "validate")
    /\ IF fault = NoError THEN Goto(r, "client") /\ UNCHANGED err ELSE Raise(r, fault)
    /\ UNCHANGED <<carrier, request, client, principal, options, tokens, wire, application>>

(* A mistake: the client id is taken from the form, however it was presented *)
ResolveClientOfForm(r) ==
    LET credentials == request[r].credentials IN
    /\ At(r, "client")
    /\ credentials.auth_method \in ClientCallbacks
    /\ client' = [client EXCEPT ![r] = Principal(carrier[r].form["client_id"], TRUE)]
    /\ vouched' = vouched \cup {<<r, credentials.client_id>>}
    /\ Goto(r, "subject")
    /\ UNCHANGED <<carrier, request, principal, options, tokens, err, wire, redeemed>>

(***************************************************************************)
(* Resolver.Resolve, its first half: the callback registered for the       *)
(* client's method, found by clientcredentials.Resolver, vouches for the   *)
(* client, fails, or returns a nil principal; a method without a callback  *)
(* reaches the resolver's own error.                                       *)
(***************************************************************************)
ResolveClient(r) ==
    LET credentials == request[r].credentials IN
    /\ At(r, "client")
    /\ \/ /\ credentials.auth_method \in ClientCallbacks
          /\ \E scoped \in BOOLEAN :
                client' = [client EXCEPT ![r] = Principal(credentials.client_id, scoped)]
          /\ vouched' = vouched \cup {<<r, credentials.client_id>>}
          /\ Goto(r, "subject")
          /\ UNCHANGED err
       \/ /\ credentials.auth_method \in ClientCallbacks
          /\ \E e \in CallbackErrors \cup {{"Unauthenticated"}} : Raise(r, e)
          /\ UNCHANGED <<client, vouched>>
       \/ /\ credentials.auth_method \notin ClientCallbacks
          /\ Raise(r, {"Misconfigured"})
          /\ UNCHANGED <<client, vouched>>
    /\ UNCHANGED <<carrier, request, principal, options, tokens, wire, redeemed>>

(* What ends the resolution of the subject, one way or the other *)
Resolved(r, p) ==
    /\ principal' = [principal EXCEPT ![r] = p]
    /\ Goto(r, "prepare")
    /\ UNCHANGED err

Unresolved(r, e) ==
    /\ Raise(r, e)
    /\ UNCHANGED principal

(* The application consumes a code at most once, for whoever asks first *)
Consume(r, code) ==
    redeemed' = [redeemed EXCEPT ![code] = [by |-> r, client |-> client[r].subject]]

(* A mistake: nothing looks whether the code is still unused *)
RedeemUnchecked(r) ==
    /\ At(r, "subject") /\ HasSubjectResolver /\ GrantsCode(r)
    /\ Code(r) \in Codes /\ Holder[Code(r)] = client[r].subject
    /\ Consume(r, Code(r))
    /\ Resolved(r, Principal(Owner[Code(r)], TRUE))
    /\ UNCHANGED <<carrier, request, client, options, tokens, wire, vouched>>

(***************************************************************************)
(* Resolver.Resolve, its second half, for a code: the subject callback     *)
(* consumes the code before it looks whose it is.                          *)
(***************************************************************************)
RedeemCode(r) ==
    /\ At(r, "subject") /\ HasSubjectResolver /\ GrantsCode(r)
    /\ \/ /\ Code(r) \in Codes /\ redeemed[Code(r)] = Unused
          /\ Consume(r, Code(r))
          /\ IF Holder[Code(r)] = client[r].subject
             THEN Resolved(r, Principal(Owner[Code(r)], TRUE))
             ELSE Unresolved(r, {"PolicyRejected"})
       \/ /\ \/ Code(r) \notin Codes
             \/ Code(r) \in Codes /\ redeemed[Code(r)] # Unused
          /\ Unresolved(r, {"PolicyRejected"})
          /\ UNCHANGED redeemed
       \/ /\ \E e \in CallbackErrors : Unresolved(r, e)
          /\ UNCHANGED redeemed
    /\ UNCHANGED <<carrier, request, client, options, tokens, wire, vouched>>

(***************************************************************************)
(* The same for the other grants: the callback knows the subject, fails,   *)
(* or returns nil, which authenticate turns into an error.                 *)
(***************************************************************************)
ResolveSubject(r) ==
    /\ At(r, "subject") /\ HasSubjectResolver /\ ~GrantsCode(r)
    /\ \/ \E user \in Users, scoped \in BOOLEAN : Resolved(r, Principal(user, scoped))
       \/ \E e \in CallbackErrors \cup {{"Unauthenticated"}} : Unresolved(r, e)
    /\ UNCHANGED <<carrier, request, client, options, tokens, wire, application>>

(* Resolver.resolve, the end of the chain: the client is the subject *)
ResolveDefault(r) ==
    /\ At(r, "subject") /\ ~HasSubjectResolver
    /\ Resolved(r, client[r])
    /\ UNCHANGED <<carrier, request, client, options, tokens, wire, application>>

(* A mistake: the status goes out before the tokens are issued *)
PrepareCommitted(r) ==
    /\ At(r, "prepare")
    /\ principal[r].scoped
    /\ \E prepared \in [IssuedTokens -> OptionLists] :
          options' = [options EXCEPT ![r] = [k \in TokenKinds |->
                          IF k \in IssuedTokens THEN prepared[k] ELSE <<>>]]
    /\ wire' = [wire EXCEPT ![r].status = 200]
    /\ Goto(r, "access_token")
    /\ UNCHANGED <<carrier, request, client, principal, tokens, err, application>>

(***************************************************************************)
(* ServeHTTP again: a principal without scopes is refused, then the        *)
(* options callback prepares every token or fails.                         *)
(***************************************************************************)
Prepare(r) ==
    /\ At(r, "prepare")
    /\ \/ /\ principal[r].scoped
          /\ \E prepared \in [IssuedTokens -> OptionLists] :
                options' = [options EXCEPT ![r] = [k \in TokenKinds |->
                                IF k \in IssuedTokens THEN prepared[k] ELSE <<>>]]
          /\ Goto(r, "access_token")
          /\ UNCHANGED err
       \/ /\ principal[r].scoped
          /\ \E e \in CallbackErrors : Raise(r, e)
          /\ UNCHANGED options
       \/ /\ ~principal[r].scoped
          /\ Raise(r, {"PolicyRejected"})
          /\ UNCHANGED options
    /\ UNCHANGED <<carrier, request, client, principal, tokens, wire, application>>

(* A mistake: the principal is applied before the issuer's own options *)
IssueOptionsPrincipalFirst(r, k) ==
    <<WithPrincipal(principal[r])>> \o IssuerRuntimeOptions \o options[r][k]

(* The issuer's own options, the principal, then the options of the token *)
IssueOptions(r, k) ==
    IssuerRuntimeOptions \o <<WithPrincipal(principal[r])>> \o options[r][k]

(***************************************************************************)
(* What Issuer.issue may fail with: the source of random bytes or the      *)
(* marshalling of the claims; with a signer also the signer, or the header *)
(* it returned, which does not unmarshal.                                  *)
(***************************************************************************)
SignFaults ==
    {NoError, {"uncategorised"}}
    \cup (IF HasSigner THEN {NewErrorCategory("Internal", e) :
                                e \in CallbackErrors \cup {{"uncategorised"}}} ELSE {})

(* A mistake: the error of the issuer is overlooked *)
IssueRegardless(r, k) ==
    /\ At(r, k)
    /\ Goto(r, After(k))
    /\ \E fault \in SignFaults :
          tokens' = IF k \in IssuedTokens
                    THEN [tokens EXCEPT ![r][k] =
                             Issue(IssueOptions(r, k), HasSigner, fault).value]
                    ELSE tokens
    /\ UNCHANGED <<carrier, request, client, principal, options, err, wire, application>>

(***************************************************************************)
(* One of the three blocks of ServeHTTP that issue a token.                *)
(***************************************************************************)
IssueToken(r, k) ==
    /\ At(r, k)
    /\ \/ /\ k \notin IssuedTokens
          /\ Goto(r, After(k))
          /\ UNCHANGED <<tokens, err>>
       \/ /\ k \in IssuedTokens
          /\ \E fault \in SignFaults :
                LET issued == Issue(IssueOptions(r, k), HasSigner, fault) IN
                /\ tokens' = [tokens EXCEPT ![r][k] = issued.value]
                /\ IF issued.err = NoError
                   THEN Goto(r, After(k)) /\ UNCHANGED err
                   ELSE Raise(r, issued.err)
    /\ UNCHANGED <<carrier, request, client, principal, options, wire, application>>

(***************************************************************************)
(* Writer.writeArtifact of package tokenresponse: the tokens are encoded,  *)
(* the status goes out, then the payload.                                  *)
(***************************************************************************)
WriteHeader(r) ==
    /\ At(r, "write")
    /\ \/ /\ Goto(r, "body")
          /\ wire' = [wire EXCEPT ![r].status = Committed(r, 200)]
          /\ UNCHANGED err
       \/ Raise(r, {"Malformed"}) /\ UNCHANGED wire
    /\ UNCHANGED <<carrier, request, client, principal, options, tokens, application>>

(* How much of the document a write may have sent: its fields come in this order *)
SentFields == {{}, {"access_token"}, {"access_token", "refresh_token"}, TokenKinds}
Sent(document, fields) ==
    [k \in TokenKinds |-> IF k \in fields THEN document[k] ELSE NoToken]

(* The error of a write that fails *)
WriteFault == {"Malformed", "uncategorised"}

(***************************************************************************)
(* Its second half.  A write that fails has sent nothing, some of the      *)
(* document or all of it: the bytes that are out stay out, and ServeHTTP   *)
(* calls handleError whichever it was.                                     *)
(***************************************************************************)
WriteBody(r) ==
    /\ At(r, "body")
    /\ \/ /\ Goto(r, "done")
          /\ wire' = [wire EXCEPT ![r].payload = tokens[r]]
          /\ UNCHANGED err
       \/ /\ \E fields \in SentFields :
                wire' = [wire EXCEPT ![r].payload = Sent(tokens[r], fields)]
          /\ Raise(r, WriteFault)
    /\ UNCHANGED <<carrier, request, client, principal, options, tokens, application>>

(* A mistake: an error that may pass is left to the client's timeout *)
HandleErrorSilently(r) ==
    /\ At(r, "fail") /\ Goto(r, "done")
    /\ wire' = IF "Unavailable" \in err[r] THEN wire
               ELSE [wire EXCEPT ![r].status = Committed(r, ErrorAnswer(err[r]).status)]
    /\ UNCHANGED <<handler, application>>

(***************************************************************************)
(* handleError.  Its own write may be cut off as well, which nobody looks  *)
(* at; whatever the writer had sent before stays in front of it.           *)
(***************************************************************************)
HandleError(r) ==
    LET answer == ErrorAnswer(err[r]) IN
    /\ At(r, "fail")
    /\ Goto(r, "done")
    /\ \E body \in {"", "cut off", answer.body} :
          wire' = [wire EXCEPT ![r].status = Committed(r, answer.status), ![r].error = body]
    /\ UNCHANGED <<handler, application>>

Handle(r) ==
    \/ Serve(r) \/ Read(r) \/ Validate(r)
    \/ ResolveClient(r) \/ RedeemCode(r) \/ ResolveSubject(r) \/ ResolveDefault(r)
    \/ Prepare(r) \/ (\E k \in TokenKinds : IssueToken(r, k))
    \/ WriteHeader(r) \/ WriteBody(r) \/ HandleError(r)

(* Every request has been answered *)
Finished == (\A r \in Requests : At(r, "done")) /\ UNCHANGED vars

Next == (\E r \in Requests : Handle(r)) \/ Finished

(***************************************************************************)
(* A handler that can take a step takes one: net/http runs it in its own   *)
(* goroutine, and the callbacks are taken to return.                       *)
(***************************************************************************)
Fairness == \A r \in Requests : WF_vars(Handle(r))

Spec == Init /\ [][Next]_vars /\ Fairness

-----------------------------------------------------------------------------
(***************************************************************************)
(* Properties.                                                             *)
(***************************************************************************)
Statuses == {0, 200, 400, 401, 405, 500, 503}
Wires == [status : Statuses,
          payload : [TokenKinds -> Tokens \cup {NoToken}],
          error : ErrorCodes \cup {"", "cut off"}]

TypeOK ==
    /\ pc \in [Requests -> Steps]
    /\ carrier \in [Requests -> Carriers]
    /\ request \in [Requests -> TokenRequests]
    /\ client \in [Requests -> Principals \cup {NoPrincipal}]
    /\ principal \in [Requests -> Principals \cup {NoPrincipal}]
    /\ options \in [Requests -> [TokenKinds -> OptionLists \cup {<<>>}]]
    /\ tokens \in [Requests -> [TokenKinds -> Tokens \cup {NoToken}]]
    /\ err \in [Requests -> Errors]
    /\ wire \in [Requests -> Wires]
    /\ vouched \subseteq Requests \X Text
    /\ redeemed \in [Codes -> {Unused} \cup [by : Requests, client : Users \cup Text]]

(* The client of r has been sent tokens, all of them or what a failed write let out *)
Granted(r) == wire[r].payload # NoTokens

(* The tokens r has been issued *)
Issued(r) == {k \in TokenKinds : tokens[r][k] # NoToken}

(* What was sent is what was issued, and is missing only if the write failed *)
SentAsIssued(r) ==
    \A k \in TokenKinds :
        \/ wire[r].payload[k] = tokens[r][k]
        \/ wire[r].payload[k] = NoToken /\ err[r] # NoError

(***************************************************************************)
(* An authorization code buys tokens once, however the handlers of         *)
(* requests that carry it interleave and whichever of them fails after     *)
(* taking it, be it halfway through the write that delivers them.          *)
(***************************************************************************)
SingleUse ==
    \A r, s \in Requests :
        /\ Granted(r) /\ GrantsCode(r)
        /\ Granted(s) /\ GrantsCode(s)
        /\ Code(r) = Code(s)
        => r = s

(***************************************************************************)
(* A code is spent only by a request that was validated and whose client   *)
(* the application has authenticated for that very request, so that a bad  *)
(* request, or a failed authentication, never burns somebody's code        *)
(* (authenticate's order of read, validate and resolve, and Resolve's      *)
(* order of client and subject).                                           *)
(***************************************************************************)
SpentByAuthenticatedClient ==
    \A c \in Codes :
        LET spent == redeemed[c] IN
        spent # Unused =>
            /\ <<spent.by, spent.client>> \in vouched
            /\ request[spent.by].credentials.client_id = spent.client
            /\ ValidateTokenRequest(request[spent.by]) = NoError
            /\ Code(spent.by) = c

(***************************************************************************)
(* All of the configured tokens or none of them: nothing of an answer with *)
(* tokens is on the wire before every one of them exists, it goes out      *)
(* under status 200, and a client that misses some lost them to a write    *)
(* that failed, never to an issuer that did.  What it has was issued for   *)
(* the owner of the code the client holds.                                 *)
(***************************************************************************)
WholeGrant ==
    \A r \in Requests : Granted(r) =>
        /\ wire[r].status = 200 /\ Issued(r) = IssuedTokens
        /\ SentAsIssued(r)
        /\ GrantsCode(r) => /\ redeemed[Code(r)].by = r
                            /\ Holder[Code(r)] = client[r].subject
                            /\ principal[r].subject = Owner[Code(r)]

(***************************************************************************)
(* What a client may conclude from the answer to a request that failed.    *)
(* Under a status of handleError no token is out.  Under status 200 the    *)
(* endpoint has issued every token (and a code is spent) and failed in     *)
(* sending them: some may have arrived, and the error document appended to *)
(* them, if it is there, says "invalid_request", although nothing was      *)
(* wrong with the request (ServeHTTP's last two branches, writer.go's      *)
(* WriteHeader before Write).                                              *)
(***************************************************************************)
RefusedWithNothing(r) == wire[r].status = ErrorAnswer(err[r]).status /\ ~Granted(r)
FailedInSending(r) ==
    /\ wire[r].status = 200 /\ Issued(r) = IssuedTokens
    /\ wire[r].error \in {"", "cut off", "invalid_request"}

ErrorAfterCommit ==
    \A r \in Requests :
        At(r, "done") /\ err[r] # NoError => RefusedWithNothing(r) \/ FailedInSending(r)

(***************************************************************************)
(* Between its validation and its answer a request keeps what it was       *)
(* admitted with: it stays valid, its client stays the one the application *)
(* vouched for, and once its subject is resolved the code it carries stays *)
(* its own, out of reach of every other handler.  SingleUse and            *)
(* SpentByAuthenticatedClient follow.                                      *)
(***************************************************************************)
SubjectKnown == {"prepare", "write", "body"} \cup TokenKinds
Admitted == {"client", "subject"} \cup SubjectKnown

HoldsItsCode(r) ==
    /\ Code(r) \in Codes /\ redeemed[Code(r)].by = r
    /\ Holder[Code(r)] = client[r].subject
    /\ principal[r].subject = Owner[Code(r)]

RequestKept(r) ==
    /\ pc[r] \in Admitted => ValidateTokenRequest(request[r]) = NoError
    /\ At(r, "subject") => /\ <<r, client[r].subject>> \in vouched
                           /\ client[r].subject = request[r].credentials.client_id
    /\ Granted(r) => pc[r] \in {"fail", "done"}
    /\ (pc[r] \in SubjectKnown \/ Granted(r)) /\ GrantsCode(r) => HoldsItsCode(r)

CodeKept(c) ==
    redeemed[c] # Unused =>
        LET by == redeemed[c].by IN
        /\ pc[by] \in SubjectKnown \cup {"fail", "done"}
        /\ <<by, redeemed[c].client>> \in vouched
        /\ request[by].credentials.client_id = redeemed[c].client
        /\ ValidateTokenRequest(request[by]) = NoError
        /\ Code(by) = c

Custody ==
    /\ \A r \in Requests : RequestKept(r)
    /\ \A c \in Codes : CodeKept(c)

(***************************************************************************)
(* How far the answer has come is known from where the handler is: which   *)
(* tokens exist, whether the status is out, whether there is an error, and *)
(* what of the tokens may have been sent.  WholeGrant, ErrorAfterCommit    *)
(* and SpentBeforeIssued follow.                                           *)
(***************************************************************************)
IssuedBefore(step) == CASE step \in {"write", "body"} -> TokenKinds
                        [] step = "id_token" -> {"access_token", "refresh_token"}
                        [] step = "refresh_token" -> {"access_token"}
                        [] OTHER -> {}

Delivered(r) ==
    /\ pc[r] \notin {"fail", "done"} =>
          /\ Issued(r) = IssuedBefore(pc[r]) \cap IssuedTokens
          /\ wire[r].status = IF At(r, "body") THEN 200 ELSE 0
          /\ err[r] = NoError
    /\ pc[r] \notin {"fail", "done"} => ~Granted(r)
    /\ ~At(r, "done") => wire[r].error = ""
    /\ wire[r].status = 200 => Issued(r) = IssuedTokens
    /\ At(r, "fail") => \/ wire[r].status = 0
                        \/ wire[r].status = 200 /\ err[r] = WriteFault
    /\ At(r, "done") /\ err[r] # NoError => RefusedWithNothing(r) \/ FailedInSending(r)
    /\ Granted(r) => wire[r].status = 200 /\ SentAsIssued(r)

Delivery == \A r \in Requests : Delivered(r)

(***************************************************************************)
(* A token names the subject the application resolved, whatever the        *)
(* issuer's own options wrote, unless an option returned for that token    *)
(* says otherwise (presets/README.md:23: WithPrincipal is applied before   *)
(* those options).                                                         *)
(***************************************************************************)
TokensNameTheSubject ==
    \A r \in Requests, k \in TokenKinds :
        /\ wire[r].payload[k] # NoToken /\ Completes(IssuerRuntimeOptions)
        /\ LeavesAlone(options[r][k], "sub")
        => wire[r].payload[k].claims["sub"] = principal[r].subject

(***************************************************************************)
(* A token that is sent went through a chain without a nil option.  If the *)
(* chain ran to its end, the token carries the issuer's own iat and jti,   *)
(* and the signature of the signer if there is one, whatever the options   *)
(* tried to write; if an option ended the chain without an error, the      *)
(* token can be told by its missing algorithm: the issuer never passes off *)
(* an unsigned token as a finished one (Issuer.Issue and Issuer.issue).    *)
(***************************************************************************)
TokensAreStamped ==
    \A r \in Requests, k \in TokenKinds :
        LET token == wire[r].payload[k] IN
        token # NoToken =>
            /\ \A i \in DOMAIN IssueOptions(r, k) : IssueOptions(r, k)[i].does # "nil"
            /\ IF Completes(IssueOptions(r, k))
               THEN /\ token.claims["iat"] = "now" /\ token.claims["jti"] = "random"
                    /\ token.algorithm = IF HasSigner THEN "signer" ELSE "none"
               ELSE token.algorithm = ""

(***************************************************************************)
(* A request that is whole: a POST whose form was read to the end, with    *)
(* one method of client authentication, the client's id and the proof that *)
(* method calls for, for a grant type that is allowed, with its fields.    *)
(***************************************************************************)
WholeRequest(http, id) ==
    LET form == http.form
        basic == [id |-> http.basic.id, proof |-> http.basic.secret]
        posted == [id |-> form["client_id"], proof |-> form["client_secret"]]
        asserted == [id |-> form["client_id"], proof |-> form["client_assertion"]]
        used == {<<m, IF m = "client_secret_basic" THEN basic
                      ELSE IF m = "client_secret_post" THEN posted ELSE asserted>> :
                    m \in PresentedMethods(http)}
    IN  /\ http.method = "POST" /\ http.parses /\ http.basic.escaped
        /\ form["grant_type"] \in AllowedGrantTypes
        /\ \A f \in RequiredFields(form["grant_type"]) : form[f] # ""
        /\ \E m \in AllowedMethods, proof \in Text \ {""} :
              /\ id # "" /\ used = {<<m, [id |-> id, proof |-> proof]>>}
              /\ m = "private_key_jwt" => DecodeFault[proof] \cup ValidateFault[proof] = {}

(***************************************************************************)
(* The application is asked to authenticate a client only about a request  *)
(* that is whole.  Reader and validator each check a part; between them    *)
(* nothing is left out.                                                    *)
(***************************************************************************)
AskedAboutWholeRequests ==
    \A pair \in vouched : WholeRequest(carrier[pair[1]], pair[2])

(***************************************************************************)
(* Without a subject callback every token names the client that the        *)
(* application authenticated for that same request (Resolver.resolve),     *)
(* unless an option writes another subject.                                *)
(***************************************************************************)
SubjectIsClient ==
    \A r \in Requests, k \in TokenKinds :
        /\ ~HasSubjectResolver /\ wire[r].payload[k] # NoToken
        /\ Completes(IssuerRuntimeOptions) /\ LeavesAlone(options[r][k], "sub")
        => /\ <<r, wire[r].payload[k].claims["sub"]>> \in vouched
           /\ principal[r].scoped

(***************************************************************************)
(* A code is consumed while the answer is still open: before a token of    *)
(* the request exists and before anything of its response is written.      *)
(***************************************************************************)
SpentBeforeIssued ==
    [][\A c \in Codes : redeemed'[c] # redeemed[c] =>
          LET r == redeemed'[c].by IN
          redeemed[c] = Unused /\ wire[r].status = 0 /\ tokens[r] = NoTokens]_vars

(***************************************************************************)
(* Every request is answered: its handler returns, and never without a     *)
(* status (net/http would make that an empty 200).                         *)
(***************************************************************************)
Answered == \A r \in Requests : <>(At(r, "done") /\ wire[r].status # 0)

(***************************************************************************)
(* The handlers together implement TokenExchange: a request claims the     *)
(* code of its form, and its outcome is settled when the first of its      *)
(* tokens, or the last thing it will write, is on the wire.                *)
(***************************************************************************)
ClaimedCodes == [r \in Requests |->
    IF carrier[r].form["grant_type"] = "authorization_code"
    THEN {carrier[r].form["code"]} ELSE {}]

Takers == [c \in Codes |-> redeemed[c].by]
Outcomes == [r \in Requests |->
    IF Granted(r) THEN "granted" ELSE IF At(r, "done") THEN "refused" ELSE "pending"]

Exchange == INSTANCE TokenExchange WITH
    claims <- ClaimedCodes, holder <- Takers, outcome <- Outcomes

ImplementsExchange == Exchange!Spec
=============================================================================
