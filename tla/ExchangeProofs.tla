--------------------------- MODULE ExchangeProofs ---------------------------
(***************************************************************************)
(* What the handlers of the token endpoint have of their carriers: they    *)
(* implement the exchange of TokenExchange (its safety part), they ask the *)
(* application only about whole requests, and the tokens they issue name   *)
(* whom they authenticated, for every chain of issuer options.             *)
(***************************************************************************)
EXTENDS TokenEndpointProofs

-----------------------------------------------------------------------------
(***************************************************************************)
(* The exchange.                                                           *)
(***************************************************************************)

(***************************************************************************)
(* What the reader takes from a form it takes unchanged: the grant type,   *)
(* and the code where the grant is one of a code (tokenrequest/reader.go,  *)
(* readArtifact).                                                          *)
(***************************************************************************)
LEMMA ReadKeepsTheCode ==
    ASSUME NEW http, ReadTokenRequest(http).err = NoError
    PROVE  LET read == ReadTokenRequest(http).value IN
           /\ read.grant_type = http.form["grant_type"]
           /\ read.grant_type = "authorization_code" => read.fields["code"] = http.form["code"]
<1> DEFINE made == [grant_type |-> http.form["grant_type"],
                    credentials |-> ReadClientCredentials(http).value,
                    fields |-> [f \in GrantFields |->
                        IF f \in FieldsRead(http.form["grant_type"]) THEN http.form[f] ELSE ""]]
<1>1. \A cause : NewErrorCategory("Malformed", cause) # NoError
  BY DEF NewErrorCategory, NoError
<1>2. {"Malformed"} # NoError
  BY DEF NoError
<1>3. ReadTokenRequest(http).value = made
  BY <1>1, <1>2 DEF ReadTokenRequest, Success, Failure
<1>4. /\ made.grant_type = http.form["grant_type"]
      /\ http.form["grant_type"] = "authorization_code" =>
             made.fields["code"] = http.form["code"]
  BY DEF FieldsRead, GrantFields
<1> HIDE DEF made
<1> QED
  BY <1>3, <1>4

(***************************************************************************)
(* From its reading on, up to its tokens, a request is what the reader     *)
(* made of its carrier, which was a POST.                                  *)
(***************************************************************************)
Reached == {"validate"} \cup Admitted

Faithful(r) ==
    /\ pc[r] \in {"read"} \cup Reached => carrier[r].method = "POST"
    /\ pc[r] \in Reached => /\ ReadTokenRequest(carrier[r]).err = NoError
                            /\ request[r] = ReadTokenRequest(carrier[r]).value

CarriersRead == \A r \in Requests : Faithful(r)

LEMMA CodeIsTheCarriers ==
    ASSUME CarriersRead, NEW r \in Requests, pc[r] \in Reached
    PROVE  /\ request[r].grant_type = carrier[r].form["grant_type"]
           /\ GrantsCode(r) => Code(r) = carrier[r].form["code"]
BY ReadKeepsTheCode DEF CarriersRead, Faithful, GrantsCode, Code

LEMMA CarriersReadInit == Init => CarriersRead
BY DEF Init, CarriersRead, Faithful, Reached, Admitted, SubjectKnown, TokenKinds

LEMMA StepKeepsFaithful ==
    ASSUME CarriersRead, NEW r \in Requests, UNCHANGED <<carrier, request>>,
           pc'[r] \in {"read"} \cup Reached =>
               pc[r] \in {"read"} \cup Reached \/ carrier[r].method = "POST",
           pc'[r] \in Reached => pc[r] \in Reached,
           \A s \in Requests \ {r} : pc'[s] = pc[s]
    PROVE  CarriersRead'
<1>1. ASSUME NEW s \in Requests PROVE Faithful(s)'
  <2>1. Faithful(s)
    BY DEF CarriersRead
  <2>2. pc'[s] \in Reached => pc[s] \in Reached
    OBVIOUS
  <2>3. pc'[s] \in {"read"} \cup Reached =>
            pc[s] \in {"read"} \cup Reached \/ carrier[s].method = "POST"
    OBVIOUS
  <2>4. Reached' = Reached
    BY DEF Reached, Admitted, SubjectKnown
  <2> QED
    BY <2>1, <2>2, <2>3, <2>4 DEF Faithful
<1> QED
  BY <1>1 DEF CarriersRead

(* What a handler works on stays what the reader made of its carrier, whatever
   step is taken (tokenrequest/authenticator.go). *)
THEOREM CarriersReadNext == TypeOK /\ CarriersRead /\ [Next]_vars => CarriersRead'
<1> SUFFICES ASSUME TypeOK, CarriersRead, [Next]_vars PROVE CarriersRead'
  OBVIOUS
<1> USE DEF Reached, Admitted, SubjectKnown, TokenKinds
<1>1. ASSUME NEW r \in Requests, Serve(r) PROVE CarriersRead'
  <2>1. pc'[r] \in {"read", "done"} /\ (pc'[r] = "read" => carrier[r].method = "POST")
    BY <1>1 DEF Serve, Goto, TypeOK
  <2> QED
    BY <1>1, <2>1, StepKeepsFaithful DEF Serve, Goto, TypeOK, handler
<1>2. ASSUME NEW r \in Requests, Read(r) PROVE CarriersRead'
  <2> DEFINE read == ReadTokenRequest(carrier[r])
  <2>1. /\ pc'[r] \in {"validate", "fail"}
        /\ pc'[r] = "validate" => read.err = NoError /\ request'[r] = read.value
    BY <1>2 DEF Read, Goto, Raise, TypeOK
  <2>2. /\ UNCHANGED carrier
        /\ \A s \in Requests \ {r} : pc'[s] = pc[s] /\ request'[s] = request[s]
    BY <1>2 DEF Read, Goto, Raise, TypeOK
  <2>3. pc[r] = "read" /\ carrier[r].method = "POST"
    BY <1>2 DEF Read, At, CarriersRead, Faithful
  <2>4. Faithful(r)'
    BY <2>1, <2>2, <2>3 DEF Faithful
  <2>5. ASSUME NEW s \in Requests \ {r} PROVE Faithful(s)'
    BY <2>2 DEF CarriersRead, Faithful
  <2> QED
    BY <2>4, <2>5 DEF CarriersRead
<1>3. ASSUME NEW r \in Requests, Validate(r) PROVE CarriersRead'
  BY <1>3, StepKeepsFaithful DEF Validate, At, Goto, Raise, TypeOK
<1>4. ASSUME NEW r \in Requests, ResolveClient(r) PROVE CarriersRead'
  BY <1>4, StepKeepsFaithful DEF ResolveClient, At, Goto, Raise, TypeOK
<1>5. ASSUME NEW r \in Requests, RedeemCode(r) PROVE CarriersRead'
  BY <1>5, StepKeepsFaithful DEF RedeemCode, Resolved, Unresolved, At, Goto, Raise, TypeOK
<1>6. ASSUME NEW r \in Requests, ResolveSubject(r) PROVE CarriersRead'
  BY <1>6, StepKeepsFaithful DEF ResolveSubject, Resolved, Unresolved, At, Goto, Raise, TypeOK
<1>7. ASSUME NEW r \in Requests, ResolveDefault(r) PROVE CarriersRead'
  BY <1>7, StepKeepsFaithful DEF ResolveDefault, Resolved, At, Goto, TypeOK
<1>8. ASSUME NEW r \in Requests, Prepare(r) PROVE CarriersRead'
  BY <1>8, StepKeepsFaithful DEF Prepare, At, Goto, Raise, TypeOK
<1>9. ASSUME NEW r \in Requests, NEW k \in TokenKinds, IssueToken(r, k) PROVE CarriersRead'
  BY <1>9, StepKeepsFaithful DEF IssueToken, At, Goto, Raise, TypeOK
<1>10. ASSUME NEW r \in Requests, WriteHeader(r) PROVE CarriersRead'
  BY <1>10, StepKeepsFaithful DEF WriteHeader, At, Goto, Raise, TypeOK
<1>11. ASSUME NEW r \in Requests, WriteBody(r) PROVE CarriersRead'
  BY <1>11, StepKeepsFaithful DEF WriteBody, At, Goto, Raise, TypeOK
<1>12. ASSUME NEW r \in Requests, HandleError(r) PROVE CarriersRead'
  BY <1>12, StepKeepsFaithful DEF HandleError, At, Goto, TypeOK, handler
<1>13. CASE UNCHANGED vars
  BY <1>13 DEF vars, handler, CarriersRead, Faithful
<1> QED
  BY <1>1, <1>2, <1>3, <1>4, <1>5, <1>6, <1>7, <1>8, <1>9, <1>10, <1>11, <1>12, <1>13
     DEF Next, Handle, Finished

(***************************************************************************)
(* How far a request is, in the terms of TokenExchange.                    *)
(***************************************************************************)
LEMMA StepMapsToStutter ==
    ASSUME NEW r \in Requests, UNCHANGED <<carrier, redeemed>>,
           (pc[r] # "done" /\ pc'[r] # "done") \/ Granted(r), Granted(r)' <=> Granted(r),
           \A s \in Requests \ {r} : pc'[s] = pc[s] /\ wire'[s] = wire[s]
    PROVE  UNCHANGED <<ClaimedCodes, Takers, Outcomes>>
<1>1. \A s \in Requests : Granted(s)' <=> Granted(s)
  BY DEF Granted
<1>2. \A s \in Requests : (At(s, "done")' <=> At(s, "done")) \/ Granted(s)
  BY DEF At
<1>3. UNCHANGED Outcomes
  BY <1>1, <1>2 DEF Outcomes
<1> QED
  BY <1>3 DEF ClaimedCodes, Takers

LEMMA AnswerMapsToOutcome ==
    ASSUME NEW r \in Requests, UNCHANGED <<carrier, redeemed>>,
           pc[r] # "done", Granted(r)' \/ pc'[r] = "done", ~Granted(r),
           \A s \in Requests \ {r} : pc'[s] = pc[s] /\ wire'[s] = wire[s]
    PROVE  /\ UNCHANGED <<ClaimedCodes, Takers>>
           /\ Exchange!Pending(r)
           /\ Granted(r)' => Outcomes' = [Outcomes EXCEPT ![r] = "granted"]
           /\ ~Granted(r)' => Outcomes' = [Outcomes EXCEPT ![r] = "refused"]
<1>1. \A s \in Requests \ {r} :
          (Granted(s)' <=> Granted(s)) /\ (At(s, "done")' <=> At(s, "done"))
  BY DEF Granted, At
<1>2. ~At(r, "done") /\ (~Granted(r)' => At(r, "done")')
  BY DEF At
<1>3. Outcomes[r] = "pending"
  BY <1>2 DEF Outcomes
<1>4. Granted(r)' => Outcomes' = [Outcomes EXCEPT ![r] = "granted"]
  BY <1>1 DEF Outcomes
<1>5. ~Granted(r)' => Outcomes' = [Outcomes EXCEPT ![r] = "refused"]
  BY <1>1, <1>2 DEF Outcomes
<1> QED
  BY <1>3, <1>4, <1>5 DEF ClaimedCodes, Takers, Exchange!Pending

LEMMA RefusalMapsToRefuse ==
    ASSUME NEW r \in Requests, UNCHANGED <<carrier, redeemed>>,
           pc[r] # "done", pc'[r] = "done", ~Granted(r), ~Granted(r)',
           \A s \in Requests \ {r} : pc'[s] = pc[s] /\ wire'[s] = wire[s]
    PROVE  Exchange!Next
<1>1. Exchange!Refuse(r)
  BY AnswerMapsToOutcome DEF Exchange!Refuse
<1> QED
  BY <1>1 DEF Exchange!Next

(***************************************************************************)
(* The initial states are those of TokenExchange.                          *)
(***************************************************************************)
LEMMA ExchangeInit == Init => Exchange!Init
<1> SUFFICES ASSUME Init PROVE Exchange!Init
  OBVIOUS
<1>1. \A r \in Requests : \A c, d \in ClaimedCodes[r] : c = d
  BY DEF ClaimedCodes
<1>2. Takers = [c \in Codes |-> "nobody"]
  BY DEF Takers, Init, Unused
<1>3. \A r \in Requests : ~Granted(r) /\ ~At(r, "done")
  BY DEF Init, Granted, At
<1>4. Outcomes = [r \in Requests |-> "pending"]
  BY <1>3 DEF Outcomes
<1> QED
  BY <1>1, <1>2, <1>4 DEF Exchange!Init

(***************************************************************************)
(* A subject callback that consumes the code takes it; nothing else does.  *)
(***************************************************************************)
LEMMA RedemptionMapsToTake ==
    ASSUME TypeOK, Custody, CarriersRead, NEW r \in Requests, RedeemCode(r)
    PROVE  Exchange!Next \/ UNCHANGED <<ClaimedCodes, Takers, Outcomes>>
<1>1. /\ pc[r] = "subject" /\ pc'[r] \in {"prepare", "fail"} /\ GrantsCode(r)
      /\ UNCHANGED <<carrier, wire>> /\ \A s \in Requests \ {r} : pc'[s] = pc[s]
  BY DEF RedeemCode, Resolved, Unresolved, At, Goto, Raise, TypeOK
<1>2. CASE UNCHANGED redeemed
  BY <1>1, <1>2, StepMapsToStutter DEF Granted
<1>3. CASE Code(r) \in Codes /\ redeemed[Code(r)] = Unused /\ Consume(r, Code(r))
  <2>1. RequestKept(r)
    BY DEF Custody
  <2>2. ~Granted(r)
    BY <1>1, <2>1 DEF RequestKept, At
  <2>3. Exchange!Pending(r)
    BY <1>1, <2>2 DEF Exchange!Pending, Outcomes, At
  <2>4. Code(r) \in ClaimedCodes[r]
    <3>1. pc[r] \in Reached
      BY <1>1 DEF Reached, Admitted
    <3> QED
      BY <1>1, <3>1, CodeIsTheCarriers DEF ClaimedCodes, GrantsCode
  <2>5. Exchange!Free(Code(r))
    <3>1. Unused.by = "nobody"
      BY DEF Unused
    <3>2. Takers[Code(r)] = "nobody"
      BY <1>3, <3>1 DEF Takers
    <3> QED
      BY <3>2 DEF Exchange!Free
  <2>6. redeemed' = [redeemed EXCEPT ![Code(r)] = [by |-> r, client |-> client[r].subject]]
    BY <1>3 DEF Consume
  <2>7. Takers' = [Takers EXCEPT ![Code(r)] = r]
    BY <1>3, <2>6 DEF Takers, TypeOK
  <2>8. UNCHANGED <<ClaimedCodes, Outcomes>>
    <3>1. \A s \in Requests : (Granted(s)' <=> Granted(s)) /\ (At(s, "done")' <=> At(s, "done"))
      BY <1>1 DEF Granted, At
    <3> QED
      BY <1>1, <3>1 DEF ClaimedCodes, Outcomes
  <2>9. Exchange!Take(r, Code(r))
    BY <2>3, <2>4, <2>5, <2>7, <2>8 DEF Exchange!Take
  <2> QED
    BY <1>3, <2>9 DEF Exchange!Next
<1> QED
  BY <1>2, <1>3 DEF RedeemCode

(***************************************************************************)
(* The first token on the wire is a grant, to a request that proved its    *)
(* claim, whether or not the rest of the answer follows.                   *)
(***************************************************************************)
LEMMA WritingMapsToGrant ==
    ASSUME TypeOK, Custody, Delivery, CarriersRead, NEW r \in Requests, WriteBody(r)
    PROVE  Exchange!Next \/ UNCHANGED <<ClaimedCodes, Takers, Outcomes>>
<1>1. /\ pc[r] = "body" /\ pc'[r] \in {"fail", "done"} /\ UNCHANGED <<carrier, redeemed>>
      /\ \A s \in Requests \ {r} : pc'[s] = pc[s] /\ wire'[s] = wire[s]
  BY DEF WriteBody, Goto, Raise, At, TypeOK, application
<1>2. Delivered(r) /\ RequestKept(r)
  BY DEF Delivery, Custody
<1>3. ~Granted(r)
  BY <1>1, <1>2 DEF RequestKept
<1>4. CASE Granted(r)'
  <2>1. GrantsCode(r) => HoldsItsCode(r)
    BY <1>1, <1>2 DEF RequestKept, SubjectKnown
  <2>2. ClaimedCodes[r] = IF GrantsCode(r) THEN {Code(r)} ELSE {}
    <3>1. pc[r] \in Reached
      BY <1>1 DEF Reached, Admitted, SubjectKnown
    <3> QED
      BY <3>1, CodeIsTheCarriers DEF ClaimedCodes, GrantsCode
  <2>3. ASSUME NEW c \in ClaimedCodes[r] PROVE c \in Codes /\ Takers[c] = r
    BY <2>1, <2>2 DEF HoldsItsCode, Takers
  <2>4. Exchange!Proven(r)
    BY <2>3 DEF Exchange!Proven
  <2>5. Exchange!Grant(r)
    BY <1>1, <1>3, <1>4, <2>4, AnswerMapsToOutcome DEF Exchange!Grant
  <2> QED
    BY <2>5 DEF Exchange!Next
<1>5. CASE ~Granted(r)' /\ pc'[r] = "fail"
  BY <1>1, <1>3, <1>5, StepMapsToStutter
<1>6. CASE pc'[r] = "done"
  <2>1. wire' = [wire EXCEPT ![r].payload = tokens[r]]
    BY <1>6 DEF WriteBody, Raise, Goto, TypeOK
  <2>2. wire'[r].payload = tokens[r]
    <3>1. wire[r] \in Wires /\ wire'[r] = [wire[r] EXCEPT !.payload = tokens[r]]
      BY <2>1 DEF TypeOK
    <3> QED
      BY <3>1, WireUpdates
  <2>3. tokens[r] # NoTokens
    <3>1. Issued(r) = IssuedBefore("body") \cap IssuedTokens
      BY <1>1, <1>2 DEF Delivered
    <3>2. IssuedBefore("body") = TokenKinds
      BY DEF IssuedBefore
    <3>3. PICK k \in TokenKinds : tokens[r][k] # NoToken
      BY <3>1, <3>2, EndpointAssumption DEF Issued
    <3> QED
      BY <3>3 DEF NoTokens
  <2>4. Granted(r)'
    BY <2>2, <2>3 DEF Granted
  <2> QED
    BY <1>4, <2>4
<1> QED
  BY <1>1, <1>4, <1>5, <1>6

(***************************************************************************)
(* Every step of a handler is a step of the exchange, or none.             *)
(***************************************************************************)
THEOREM ExchangeNext ==
    TypeOK /\ Custody /\ Delivery /\ CarriersRead /\ [Next]_vars
        => Exchange!Next \/ UNCHANGED <<ClaimedCodes, Takers, Outcomes>>
<1> DEFINE Mapped == Exchange!Next \/ UNCHANGED <<ClaimedCodes, Takers, Outcomes>>
<1> SUFFICES ASSUME TypeOK, Custody, Delivery, CarriersRead, [Next]_vars PROVE Mapped
  OBVIOUS
<1>0. \A r \in Requests : RequestKept(r)
  BY DEF Custody
<1>1. ASSUME NEW r \in Requests, Serve(r) PROVE Mapped
  <2>1. /\ pc[r] = "serve" /\ pc'[r] \in {"read", "done"} /\ UNCHANGED <<carrier, redeemed>>
        /\ \A s \in Requests \ {r} : pc'[s] = pc[s] /\ wire'[s] = wire[s]
    BY <1>1 DEF Serve, At, Goto, TypeOK, handler, application
  <2>2. ~Granted(r)
    BY <1>0, <2>1 DEF RequestKept, At
  <2>4. ~Granted(r)'
    BY <1>1, <2>2, StatusWrite
  <2> QED
    BY <2>1, <2>2, <2>4, StepMapsToStutter, RefusalMapsToRefuse
<1>2. ASSUME NEW r \in Requests, Read(r) PROVE Mapped
  BY <1>2, StepMapsToStutter DEF Read, At, Goto, Raise, Granted, TypeOK, application
<1>3. ASSUME NEW r \in Requests, Validate(r) PROVE Mapped
  BY <1>3, StepMapsToStutter DEF Validate, At, Goto, Raise, Granted, TypeOK, application
<1>4. ASSUME NEW r \in Requests, ResolveClient(r) PROVE Mapped
  BY <1>4, StepMapsToStutter DEF ResolveClient, At, Goto, Raise, Granted, TypeOK
<1>5. ASSUME NEW r \in Requests, RedeemCode(r) PROVE Mapped
  BY <1>5, RedemptionMapsToTake
<1>6. ASSUME NEW r \in Requests, ResolveSubject(r) PROVE Mapped
  BY <1>6, StepMapsToStutter
     DEF ResolveSubject, Resolved, Unresolved, At, Goto, Raise, Granted, TypeOK, application
<1>7. ASSUME NEW r \in Requests, ResolveDefault(r) PROVE Mapped
  BY <1>7, StepMapsToStutter
     DEF ResolveDefault, Resolved, At, Goto, Granted, TypeOK, application
<1>8. ASSUME NEW r \in Requests, Prepare(r) PROVE Mapped
  BY <1>8, StepMapsToStutter DEF Prepare, At, Goto, Raise, Granted, TypeOK, application
<1>9. ASSUME NEW r \in Requests, NEW k \in TokenKinds, IssueToken(r, k) PROVE Mapped
  <2>1. pc[r] = k /\ pc'[r] \in {After(k), "fail"}
    BY <1>9 DEF IssueToken, Raise, At, Goto, TypeOK
  <2>2. k # "done" /\ After(k) # "done"
    BY DEF After, TokenKinds
  <2>3. /\ UNCHANGED <<carrier, redeemed, wire>> /\ \A s \in Requests \ {r} : pc'[s] = pc[s]
    BY <1>9 DEF IssueToken, Raise, Goto, TypeOK, application
  <2> QED
    BY <2>1, <2>2, <2>3, StepMapsToStutter DEF Granted
<1>10. ASSUME NEW r \in Requests, WriteHeader(r) PROVE Mapped
  <2>1. pc[r] = "write" /\ pc'[r] \in {"body", "fail"} /\ UNCHANGED <<carrier, redeemed>>
    BY <1>10 DEF WriteHeader, At, Raise, Goto, TypeOK, application
  <2>2. \A s \in Requests \ {r} : pc'[s] = pc[s] /\ wire'[s] = wire[s]
    BY <1>10, StatusWrite DEF WriteHeader, Raise, Goto, TypeOK
  <2>3. Granted(r)' <=> Granted(r)
    BY <1>10, StatusWrite
  <2> QED
    BY <2>1, <2>2, <2>3, StepMapsToStutter
<1>11. ASSUME NEW r \in Requests, WriteBody(r) PROVE Mapped
  BY <1>11, WritingMapsToGrant
<1>12. ASSUME NEW r \in Requests, HandleError(r) PROVE Mapped
  <2>1. pc[r] = "fail" /\ pc'[r] = "done" /\ UNCHANGED <<carrier, redeemed>>
    BY <1>12 DEF HandleError, At, Goto, TypeOK, handler, application
  <2>2. \A s \in Requests \ {r} : pc'[s] = pc[s] /\ wire'[s] = wire[s]
    BY <1>12, StatusWrite DEF HandleError, Goto, TypeOK
  <2>3. Granted(r)' <=> Granted(r)
    BY <1>12, StatusWrite
  <2> QED
    BY <2>1, <2>2, <2>3, StepMapsToStutter, RefusalMapsToRefuse
<1>13. CASE UNCHANGED vars
  <2>1. UNCHANGED <<pc, carrier, wire, redeemed>>
    BY <1>13 DEF vars, handler, application
  <2> QED
    BY <2>1 DEF ClaimedCodes, Takers, Outcomes, Granted, At
<1> QED
  BY <1>1, <1>2, <1>3, <1>4, <1>5, <1>6, <1>7, <1>8, <1>9, <1>10, <1>11, <1>12, <1>13
     DEF Next, Handle, Finished

(***************************************************************************)
(* The endpoint keeps the promise of TokenExchange: a request that claims  *)
(* a code is granted only if the code became its own before, and nobody    *)
(* else's ever; every answer is given once.                                *)
(***************************************************************************)
THEOREM ExchangeIsSafe == Spec => Exchange!Safe
<1> DEFINE Kept == TypeOK /\ Custody /\ Delivery /\ CarriersRead
<1>1. Spec => []CarriersRead
  BY CarriersReadInit, CarriersReadNext, TypeCorrect, PTL DEF Spec
<1>2. Spec => []Kept
  BY <1>1, TypeCorrect, CustodyHolds, DeliveryHolds, PTL
<1>3. Kept /\ [Next]_vars => [Exchange!Next]_(Exchange!exchange)
  BY ExchangeNext DEF Exchange!exchange
<1> HIDE DEF Kept
<1> QED
  BY <1>2, <1>3, ExchangeInit, PTL DEF Spec, Exchange!Safe

(* What every Authorization header has (net/http, Request.BasicAuth) *)
LEMMA BasicHeaderParts ==
    ASSUME NEW b \in BasicHeaders
    PROVE  (b.escaped \/ b.set) /\ b.secret \in Text
<1>1. CASE b = NoBasic
  BY <1>1, TextAssumption DEF NoBasic
<1>2. CASE b \in [set : {TRUE}, escaped : BOOLEAN, id : Text, secret : Text]
  BY <1>2
<1> QED
  BY <1>1, <1>2 DEF BasicHeaders

(***************************************************************************)
(* The client callback is asked only about whole requests: what the reader *)
(* and the validator together establish of the request they read           *)
(* (tokenrequest/reader.go, validator.go; clientcredentials the same).     *)
(***************************************************************************)
LEMMA ReadAndValidIsWhole ==
    ASSUME NEW http \in HTTPRequests, http.method = "POST",
           ReadTokenRequest(http).err = NoError,
           ValidateTokenRequest(ReadTokenRequest(http).value) = NoError
    PROVE  WholeRequest(http, ReadTokenRequest(http).value.credentials.client_id)
<1> DEFINE grant == http.form["grant_type"]
           made == [grant_type |-> grant, credentials |-> ReadClientCredentials(http).value,
                    fields |-> [f \in GrantFields |->
                        IF f \in FieldsRead(grant) THEN http.form[f] ELSE ""]]
           c == ReadClientCredentials(http).value
<1>1. ReadTokenRequest(http).value = made
  <2>1. \A cause : NewErrorCategory("Malformed", cause) # NoError
    BY DEF NewErrorCategory, NoError
  <2>2. {"Malformed"} # NoError
    BY DEF NoError
  <2> QED
    BY <2>1, <2>2 DEF ReadTokenRequest, Success, Failure
<1>2. ValidateTokenRequest(made) = NoError
  BY <1>1
<1>3. /\ made.grant_type = grant /\ made.credentials = c
      /\ \A f \in GrantFields : made.fields[f] =
             IF f \in FieldsRead(grant) THEN http.form[f] ELSE ""
  OBVIOUS
<1> HIDE DEF made, c
<1>4. /\ grant \in AllowedGrantTypes /\ ValidateClientCredentials(c) = NoError
      /\ GrantFault(made) = NoError
  <2>1. {"Malformed"} # NoError /\ {"Unsupported"} # NoError /\ {"PolicyRejected"} # NoError
    BY DEF NoError
  <2> QED
    BY <1>2, <1>3, <2>1 DEF ValidateTokenRequest
<1>5. \A f \in RequiredFields(grant) : http.form[f] # ""
  <2>1. \A f \in RequiredFields(grant) : made.fields[f] # ""
    BY <1>3, <1>4 DEF GrantFault, NoError
  <2>2. RequiredFields(grant) \subseteq FieldsRead(grant) \cap GrantFields
    BY DEF RequiredFields, FieldsRead, GrantFields
  <2> QED
    BY <1>3, <2>1, <2>2
<1>6. PICK m \in AllowedMethods :
          /\ http.parses /\ PresentedMethods(http) = {m}
          /\ c.client_id = IdOf(http, m) /\ c.client_id # "" /\ ProofOf(http, m) # ""
          /\ m = "client_secret_basic" => http.basic.escaped
          /\ m = "private_key_jwt" => /\ DecodeFault[ProofOf(http, m)] = NoError
                                      /\ ValidateFault[ProofOf(http, m)] = NoError
  BY <1>4, CredentialsAreOfTheMethod DEF c
<1>7. m \in ClientAuthMethods
  BY TextAssumption
<1>8. http.basic.escaped
  <2>1. CASE http.basic.set
    <3>1. "client_secret_basic" \in PresentedMethods(http)
      BY <2>1 DEF PresentedMethods, ClientAuthMethods
    <3> QED
      BY <1>6, <3>1
  <2>2. CASE ~http.basic.set
    <3>1. http.basic \in BasicHeaders
      BY DEF HTTPRequests
    <3> QED
      BY <2>2, <3>1, BasicHeaderParts
  <2> QED
    BY <2>1, <2>2
<1>9. ProofOf(http, m) \in Text
  <2>1. /\ http.basic.secret \in Text
        /\ http.form["client_secret"] \in Text /\ http.form["client_assertion"] \in Text
    <3>1. http.basic \in BasicHeaders /\ http.form \in [FormFields -> Text]
      BY DEF HTTPRequests
    <3> QED
      BY <3>1, BasicHeaderParts DEF FormFields
  <2> QED
    BY <1>7, <2>1 DEF ProofOf, ClientAuthMethods
<1>10. [id |-> c.client_id, proof |-> ProofOf(http, m)] =
          IF m = "client_secret_basic" THEN [id |-> http.basic.id, proof |-> http.basic.secret]
          ELSE IF m = "client_secret_post"
          THEN [id |-> http.form["client_id"], proof |-> http.form["client_secret"]]
          ELSE [id |-> http.form["client_id"], proof |-> http.form["client_assertion"]]
  BY <1>6, <1>7 DEF ProofOf, IdOf, ClientAuthMethods
<1>11. m = "private_key_jwt" => DecodeFault[ProofOf(http, m)] \cup
                                    ValidateFault[ProofOf(http, m)] = {}
  BY <1>6 DEF NoError
<1> DEFINE id == ReadTokenRequest(http).value.credentials.client_id
           basic == [id |-> http.basic.id, proof |-> http.basic.secret]
           posted == [id |-> http.form["client_id"], proof |-> http.form["client_secret"]]
           asserted == [id |-> http.form["client_id"], proof |-> http.form["client_assertion"]]
           pair(n) == IF n = "client_secret_basic" THEN basic
                      ELSE IF n = "client_secret_post" THEN posted ELSE asserted
           used == {<<n, pair(n)>> : n \in PresentedMethods(http)}
<1>12. id = c.client_id
  BY <1>1, <1>3
<1>13. pair(m) = [id |-> id, proof |-> ProofOf(http, m)]
  BY <1>10, <1>12
<1> HIDE DEF id, pair
<1>14. used = {<<m, [id |-> id, proof |-> ProofOf(http, m)]>>}
  BY <1>6, <1>13
<1>15. id # "" /\ ProofOf(http, m) \in Text \ {""}
  BY <1>6, <1>9, <1>12
<1> HIDE DEF used
<1>16. \E n \in AllowedMethods, proof \in Text \ {""} :
          /\ id # "" /\ used = {<<n, [id |-> id, proof |-> proof]>>}
          /\ n = "private_key_jwt" => DecodeFault[proof] \cup ValidateFault[proof] = {}
  BY <1>11, <1>14, <1>15
<1> QED
  BY <1>4, <1>5, <1>6, <1>8, <1>16, Zenon DEF WholeRequest, used, pair, id

LEMMA AskedInit == Init => AskedAboutWholeRequests
BY DEF Init, AskedAboutWholeRequests

(***************************************************************************)
(* vouched grows in one step, the client callback's, and no request is     *)
(* exchanged for another.                                                  *)
(***************************************************************************)
THEOREM AskedNext ==
    TypeOK /\ Custody /\ CarriersRead /\ AskedAboutWholeRequests /\ [Next]_vars
        => AskedAboutWholeRequests'
<1> SUFFICES ASSUME TypeOK, Custody, CarriersRead, AskedAboutWholeRequests, [Next]_vars
             PROVE  AskedAboutWholeRequests'
  OBVIOUS
<1>1. ASSUME UNCHANGED <<carrier, vouched>> PROVE AskedAboutWholeRequests'
  BY <1>1 DEF AskedAboutWholeRequests
<1>2. ASSUME NEW r \in Requests, ResolveClient(r) PROVE AskedAboutWholeRequests'
  <2>1. UNCHANGED carrier /\ pc[r] = "client"
    BY <1>2 DEF ResolveClient, At
  <2>2. \A pair \in vouched' :
            pair \in vouched \/ pair = <<r, request[r].credentials.client_id>>
    BY <1>2 DEF ResolveClient
  <2>3. /\ carrier[r] \in HTTPRequests /\ carrier[r].method = "POST"
        /\ ReadTokenRequest(carrier[r]).err = NoError
        /\ request[r] = ReadTokenRequest(carrier[r]).value
    <3>1. carrier[r] \in HTTPRequests
      BY EndpointAssumption DEF TypeOK
    <3> QED
      BY <2>1, <3>1 DEF CarriersRead, Faithful, Reached, Admitted
  <2>4. ValidateTokenRequest(request[r]) = NoError
    BY <2>1 DEF Custody, RequestKept, Admitted
  <2>5. WholeRequest(carrier[r], request[r].credentials.client_id)
    BY <2>3, <2>4, ReadAndValidIsWhole
  <2> QED
    BY <2>1, <2>2, <2>5 DEF AskedAboutWholeRequests
<1>3. ASSUME NEW r \in Requests, Serve(r) PROVE UNCHANGED <<carrier, vouched>>
  BY <1>3 DEF Serve, handler, application
<1>4. ASSUME NEW r \in Requests, Read(r) PROVE UNCHANGED <<carrier, vouched>>
  BY <1>4 DEF Read, application
<1>5. ASSUME NEW r \in Requests, Validate(r) PROVE UNCHANGED <<carrier, vouched>>
  BY <1>5 DEF Validate, application
<1>6. ASSUME NEW r \in Requests, RedeemCode(r) PROVE UNCHANGED <<carrier, vouched>>
  BY <1>6 DEF RedeemCode
<1>7. ASSUME NEW r \in Requests, ResolveSubject(r) \/ ResolveDefault(r)
      PROVE  UNCHANGED <<carrier, vouched>>
  BY <1>7 DEF ResolveSubject, ResolveDefault, application
<1>8. ASSUME NEW r \in Requests, Prepare(r) PROVE UNCHANGED <<carrier, vouched>>
  BY <1>8 DEF Prepare, application
<1>9. ASSUME NEW r \in Requests, NEW k \in TokenKinds, IssueToken(r, k)
      PROVE  UNCHANGED <<carrier, vouched>>
  BY <1>9 DEF IssueToken, application
<1>10. ASSUME NEW r \in Requests, WriteHeader(r) \/ WriteBody(r) \/ HandleError(r)
       PROVE  UNCHANGED <<carrier, vouched>>
  BY <1>10 DEF WriteHeader, WriteBody, HandleError, handler, application
<1>11. CASE UNCHANGED vars
  BY <1>1, <1>11 DEF vars, handler, application
<1> QED
  BY <1>1, <1>2, <1>3, <1>4, <1>5, <1>6, <1>7, <1>8, <1>9, <1>10, <1>11
     DEF Next, Handle, Finished

(***************************************************************************)
(* Whoever the application vouched for came with a whole request: reader   *)
(* and validator leave nothing out between them.                           *)
(***************************************************************************)
THEOREM WholeRequestsAreAskedAbout == Spec => []AskedAboutWholeRequests
<1>1. Spec => []CarriersRead
  BY CarriersReadInit, CarriersReadNext, TypeCorrect, PTL DEF Spec
<1> QED
  BY <1>1, AskedInit, AskedNext, TypeCorrect, CustodyHolds, PTL DEF Spec

-----------------------------------------------------------------------------
(***************************************************************************)
(* Whom a token names and what is stamped on it.                           *)
(***************************************************************************)

(***************************************************************************)
(* Every token a request holds is what Issue made of the request's own     *)
(* principal and options: neither changes after the first token.           *)
(***************************************************************************)
Made(r, k) ==
    \E fault \in SignFaults :
        LET issued == Issue(IssueOptions(r, k), HasSigner, fault) IN
        issued.err = NoError /\ issued.value = tokens[r][k]

Issuance == \A r \in Requests, k \in TokenKinds : k \in Issued(r) => Made(r, k)

LEMMA IssuanceInit == Init => Issuance
<1>1. Init => \A r \in Requests : tokens[r] = NoTokens
  BY DEF Init
<1>2. \A r \in Requests : tokens[r] = NoTokens => Issued(r) = {}
  BY DEF Issued, NoTokens
<1> QED
  BY <1>1, <1>2 DEF Issuance

LEMMA StepKeepsIssuance ==
    ASSUME Issuance, NEW r \in Requests, UNCHANGED tokens,
           Issued(r) = {} \/ UNCHANGED <<principal, options>>,
           \A s \in Requests \ {r} : principal'[s] = principal[s] /\ options'[s] = options[s]
    PROVE  Issuance'
<1>1. ASSUME NEW s \in Requests, NEW k \in TokenKinds, k \in Issued(s)' PROVE Made(s, k)'
  <2>1. k \in Issued(s)
    BY <1>1 DEF Issued
  <2>2. principal'[s] = principal[s] /\ options'[s] = options[s]
    BY <2>1
  <2>3. Made(s, k)
    BY <2>1 DEF Issuance
  <2>4. IssueOptions(s, k)' = IssueOptions(s, k)
    BY <2>2 DEF IssueOptions
  <2> QED
    BY <2>3, <2>4 DEF Made
<1> QED
  BY <1>1 DEF Issuance

LEMMA TokenIsMade ==
    ASSUME TypeOK, Issuance, NEW r \in Requests, NEW k \in TokenKinds, IssueToken(r, k)
    PROVE  Issuance'
<1>1. UNCHANGED <<principal, options>>
  BY DEF IssueToken
<1>2. CASE UNCHANGED tokens
  BY <1>1, <1>2, StepKeepsIssuance
<1>3. ASSUME NEW fault \in SignFaults,
             tokens' = [tokens EXCEPT ![r][k] = Issue(IssueOptions(r, k), HasSigner, fault).value]
      PROVE  Issuance'
  <2> DEFINE issued == Issue(IssueOptions(r, k), HasSigner, fault)
  <2>1. issued.err # NoError => issued.value = NoToken
    BY IssueOptionsType, SignFaultsType, IssueType, EndpointAssumption
  <2> HIDE DEF issued
  <2>2. tokens[r] \in [TokenKinds -> Tokens \cup {NoToken}]
    BY DEF TypeOK
  <2>3. tokens' = [tokens EXCEPT ![r] = [tokens[r] EXCEPT ![k] = issued.value]]
    BY <1>3 DEF issued
  <2>4. /\ tokens'[r][k] = issued.value
        /\ \A j \in TokenKinds \ {k} : tokens'[r][j] = tokens[r][j]
        /\ \A s \in Requests \ {r} : tokens'[s] = tokens[s]
    BY <2>2, <2>3 DEF TypeOK
  <2>5. ASSUME NEW s \in Requests, NEW j \in TokenKinds, j \in Issued(s)' PROVE Made(s, j)'
    <3>1. IssueOptions(s, j)' = IssueOptions(s, j)
      BY <1>1 DEF IssueOptions
    <3>2. CASE s = r /\ j = k
      <4>1. issued.err = NoError
        BY <2>1, <2>4, <2>5, <3>2 DEF Issued
      <4> QED
        BY <2>4, <3>1, <3>2, <4>1 DEF Made, issued
    <3>3. CASE ~(s = r /\ j = k)
      <4>1. tokens'[s][j] = tokens[s][j]
        BY <2>4, <3>3
      <4>2. Made(s, j)
        BY <2>5, <4>1 DEF Issuance, Issued
      <4> QED
        BY <3>1, <4>1, <4>2 DEF Made
    <3> QED
      BY <3>2, <3>3
  <2> QED
    BY <2>5 DEF Issuance
<1> QED
  BY <1>2, <1>3 DEF IssueToken

(* Every token stays what Issue makes of the principal and the options of its
   own request, whatever step is taken (tokenendpoint/endpoint.go:128). *)
THEOREM IssuanceNext == TypeOK /\ Delivery /\ Issuance /\ [Next]_vars => Issuance'
<1> SUFFICES ASSUME TypeOK, Delivery, Issuance, [Next]_vars PROVE Issuance'
  OBVIOUS
<1>1. ASSUME NEW r \in Requests,
             Serve(r) \/ Read(r) \/ Validate(r) \/ ResolveClient(r)
             \/ WriteHeader(r) \/ WriteBody(r) \/ HandleError(r)
      PROVE  Issuance'
  <2>1. UNCHANGED <<principal, options, tokens>>
    BY <1>1 DEF Serve, Read, Validate, ResolveClient, WriteHeader, WriteBody, HandleError, handler
  <2> QED
    BY <2>1, StepKeepsIssuance
<1>2. ASSUME NEW r \in Requests,
             RedeemCode(r) \/ ResolveSubject(r) \/ ResolveDefault(r) \/ Prepare(r)
      PROVE  Issuance'
  <2>1. pc[r] \in Early /\ UNCHANGED tokens
    BY <1>2 DEF RedeemCode, ResolveSubject, ResolveDefault, Prepare, At, Early
  <2>2. Issued(r) = {}
    BY <2>1, NothingIssuedEarly
  <2>3. \A s \in Requests \ {r} : principal'[s] = principal[s] /\ options'[s] = options[s]
    BY <1>2 DEF RedeemCode, ResolveSubject, ResolveDefault, Prepare, Resolved, Unresolved, TypeOK
  <2> QED
    BY <2>1, <2>2, <2>3, StepKeepsIssuance
<1>3. CASE UNCHANGED vars
  BY <1>3 DEF vars, handler, Issuance, Issued, Made, IssueOptions
<1> QED
  BY <1>1, <1>2, <1>3, TokenIsMade DEF Next, Handle, Finished

(***************************************************************************)
(* The subject of a request has a name; without a subject callback it is   *)
(* the client the application authenticated for that request.  From the    *)
(* first token on the principal has scopes.                                *)
(***************************************************************************)
Scoped == SubjectKnown \ {"prepare"}

Identified(r) ==
    /\ principal[r].subject # ""
    /\ ~HasSubjectResolver => <<r, principal[r].subject>> \in vouched

Named(r) ==
    /\ pc[r] \in SubjectKnown \/ Granted(r) => Identified(r)
    /\ pc[r] \in Scoped \/ Granted(r) => principal[r].scoped

SubjectsNamed == \A r \in Requests : Named(r)

LEMMA SubjectsNamedInit == Init => SubjectsNamed
<1> SUFFICES ASSUME Init, NEW r \in Requests PROVE Named(r)
  BY DEF SubjectsNamed
<1>1. pc[r] = "serve" /\ ~Granted(r)
  BY DEF Init, Granted
<1> QED
  BY <1>1 DEF Named, Scoped, SubjectKnown, TokenKinds

LEMMA ValidHasClientId ==
    ASSUME NEW req, ValidateTokenRequest(req) = NoError
    PROVE  req.credentials.client_id # ""
<1>1. ValidateClientCredentials(req.credentials) = NoError
  BY DEF ValidateTokenRequest, NoError
<1> QED
  BY <1>1 DEF ValidateClientCredentials, NoError

LEMMA PrincipalSubject == \A subject, b : Principal(subject, b).subject = subject
BY DEF Principal

(***************************************************************************)
(* A handler names nobody but its own subject.                             *)
(***************************************************************************)
LEMMA StepKeepsNamed ==
    ASSUME SubjectsNamed, NEW r \in Requests, Named(r)', vouched \subseteq vouched',
           \A s \in Requests \ {r} :
              pc'[s] = pc[s] /\ principal'[s] = principal[s] /\ wire'[s] = wire[s]
    PROVE  SubjectsNamed'
<1>1. ASSUME NEW s \in Requests \ {r} PROVE Named(s)'
  <2>1. Named(s) /\ (Granted(s)' <=> Granted(s)) /\ (Identified(s) => Identified(s)')
    BY DEF SubjectsNamed, Granted, Identified
  <2> QED
    BY <2>1 DEF Named
<1> QED
  BY <1>1 DEF SubjectsNamed

LEMMA LateStepKeepsNamed ==
    ASSUME SubjectsNamed, NEW r \in Requests, UNCHANGED principal, vouched \subseteq vouched',
           pc'[r] \in SubjectKnown => pc[r] \in SubjectKnown,
           pc'[r] \in Scoped => pc[r] \in Scoped \/ principal[r].scoped,
           Granted(r)' => Granted(r) \/ pc[r] = "body",
           \A s \in Requests \ {r} : pc'[s] = pc[s] /\ wire'[s] = wire[s]
    PROVE  SubjectsNamed'
<1>1. Named(r) /\ (Identified(r) => Identified(r)')
  BY DEF SubjectsNamed, Identified
<1>2. "body" \in Scoped /\ "body" \in SubjectKnown
  BY DEF Scoped, SubjectKnown
<1>3. Named(r)'
  BY <1>1, <1>2 DEF Named
<1> QED
  BY <1>3, StepKeepsNamed

LEMMA SubjectIsNamed ==
    ASSUME TypeOK, Custody, SubjectsNamed, NEW r \in Requests,
           RedeemCode(r) \/ ResolveSubject(r) \/ ResolveDefault(r)
    PROVE  SubjectsNamed'
<1>1. /\ pc[r] = "subject" /\ pc'[r] \in {"prepare", "fail"}
      /\ UNCHANGED <<wire, vouched, client, request>>
      /\ \A s \in Requests \ {r} : pc'[s] = pc[s] /\ principal'[s] = principal[s]
  BY DEF RedeemCode, ResolveSubject, ResolveDefault, Resolved, Unresolved, At, Goto, Raise,
         TypeOK, application
<1>2. RequestKept(r)
  BY DEF Custody
<1>3. ~Granted(r)'
  BY <1>1, <1>2 DEF RequestKept, At, Granted
<1>4. pc'[r] = "prepare" => Identified(r)'
  <2>1. CASE RedeemCode(r)
    <3>1. pc'[r] = "prepare" =>
             Code(r) \in Codes /\ principal'[r] = Principal(Owner[Code(r)], TRUE)
      BY <2>1 DEF RedeemCode, Resolved, Unresolved, Raise, Goto, TypeOK
    <3>2. HasSubjectResolver /\ Owner \in [Codes -> Users] /\ "" \notin Users
      BY <2>1, EndpointAssumption DEF RedeemCode
    <3>3. Principal(Owner[Code(r)], TRUE).subject = Owner[Code(r)]
      BY PrincipalSubject, Zenon
    <3>4. Code(r) \in Codes => Owner[Code(r)] \in Users
      BY <3>2
    <3>5. pc'[r] = "prepare" => principal'[r].subject \in Users
      BY <3>1, <3>3, <3>4, Zenon
    <3> QED
      BY <3>2, <3>5 DEF Identified
  <2>3. CASE ResolveSubject(r)
    <3>1. pc'[r] = "prepare" => \E user \in Users, b \in BOOLEAN : Resolved(r, Principal(user, b))
      BY <2>3 DEF ResolveSubject, Unresolved, Raise, Goto, TypeOK
    <3>2. pc'[r] = "prepare" =>
            \E user \in Users, b \in BOOLEAN : principal'[r] = Principal(user, b)
      BY <3>1 DEF Resolved, TypeOK
    <3>3. HasSubjectResolver /\ "" \notin Users
      BY <2>3, EndpointAssumption DEF ResolveSubject
    <3>4. pc'[r] = "prepare" => principal'[r].subject \in Users
      BY <3>2, PrincipalSubject
    <3> QED
      BY <3>3, <3>4 DEF Identified
  <2>2. CASE ResolveDefault(r)
    <3>1. principal'[r] = client[r]
      BY <2>2 DEF ResolveDefault, Resolved, TypeOK
    <3>2. /\ ValidateTokenRequest(request[r]) = NoError
          /\ <<r, client[r].subject>> \in vouched
          /\ client[r].subject = request[r].credentials.client_id
      BY <1>1, <1>2 DEF RequestKept, At, Admitted
    <3> QED
      BY <1>1, <3>1, <3>2, ValidHasClientId DEF Identified
  <2> QED
    BY <2>1, <2>2, <2>3
<1>5. Named(r)'
  BY <1>1, <1>3, <1>4 DEF Named, Scoped, SubjectKnown, TokenKinds
<1> QED
  BY <1>1, <1>5, StepKeepsNamed

(* Every principal keeps its name and, without a subject callback, stays the
   client that was vouched for (tokenrequest/resolver.go:76). *)
THEOREM SubjectsNamedNext ==
    TypeOK /\ Custody /\ SubjectsNamed /\ [Next]_vars => SubjectsNamed'
<1> SUFFICES ASSUME TypeOK, Custody, SubjectsNamed, [Next]_vars PROVE SubjectsNamed'
  OBVIOUS
<1> USE DEF SubjectKnown, Scoped, TokenKinds
<1>1. ASSUME NEW r \in Requests, Serve(r) PROVE SubjectsNamed'
  <2>1. /\ pc'[r] \in {"read", "done"} /\ UNCHANGED <<principal, vouched>>
        /\ \A s \in Requests \ {r} : pc'[s] = pc[s] /\ wire'[s] = wire[s]
    BY <1>1 DEF Serve, Goto, TypeOK, handler, application
  <2>4. Granted(r)' <=> Granted(r)
    BY <1>1, StatusWrite
  <2> QED
    BY <2>1, <2>4, LateStepKeepsNamed
<1>2. ASSUME NEW r \in Requests, Read(r) PROVE SubjectsNamed'
  BY <1>2, LateStepKeepsNamed DEF Read, Goto, Raise, Granted, TypeOK, application
<1>3. ASSUME NEW r \in Requests, Validate(r) PROVE SubjectsNamed'
  BY <1>3, LateStepKeepsNamed DEF Validate, Goto, Raise, Granted, TypeOK, application
<1>4. ASSUME NEW r \in Requests, ResolveClient(r) PROVE SubjectsNamed'
  BY <1>4, LateStepKeepsNamed DEF ResolveClient, Goto, Raise, Granted, TypeOK
<1>5. ASSUME NEW r \in Requests, RedeemCode(r) \/ ResolveSubject(r) \/ ResolveDefault(r)
      PROVE  SubjectsNamed'
  BY <1>5, SubjectIsNamed
<1>6. ASSUME NEW r \in Requests, Prepare(r) PROVE SubjectsNamed'
  <2>1. /\ pc[r] = "prepare" /\ pc'[r] \in {"access_token", "fail"}
        /\ pc'[r] = "access_token" => principal[r].scoped
    BY <1>6 DEF Prepare, Raise, At, Goto, TypeOK
  <2>2. /\ UNCHANGED <<principal, wire, vouched>> /\ \A s \in Requests \ {r} : pc'[s] = pc[s]
    BY <1>6 DEF Prepare, Raise, Goto, TypeOK, application
  <2> QED
    BY <2>1, <2>2, LateStepKeepsNamed DEF Granted
<1>7. ASSUME NEW r \in Requests, NEW k \in TokenKinds, IssueToken(r, k) PROVE SubjectsNamed'
  <2>1. pc[r] = k /\ k \in Scoped
    BY <1>7 DEF IssueToken, At
  <2>2. /\ UNCHANGED <<principal, wire, vouched>> /\ \A s \in Requests \ {r} : pc'[s] = pc[s]
    BY <1>7 DEF IssueToken, Raise, Goto, TypeOK, application
  <2> QED
    BY <2>1, <2>2, LateStepKeepsNamed DEF Granted
<1>8. ASSUME NEW r \in Requests, WriteHeader(r) PROVE SubjectsNamed'
  <2>1. /\ pc[r] = "write" /\ UNCHANGED <<principal, vouched>>
    BY <1>8 DEF WriteHeader, At, application
  <2>4. Granted(r)' <=> Granted(r)
    BY <1>8, StatusWrite
  <2>5. \A s \in Requests \ {r} : pc'[s] = pc[s] /\ wire'[s] = wire[s]
    BY <1>8, StatusWrite DEF WriteHeader, Raise, Goto, TypeOK
  <2> QED
    BY <2>1, <2>4, <2>5, LateStepKeepsNamed
<1>9. ASSUME NEW r \in Requests, WriteBody(r) PROVE SubjectsNamed'
  <2>1. /\ pc[r] = "body" /\ UNCHANGED <<principal, vouched>>
        /\ \A s \in Requests \ {r} : pc'[s] = pc[s] /\ wire'[s] = wire[s]
    BY <1>9 DEF WriteBody, At, Goto, Raise, TypeOK, application
  <2> QED
    BY <2>1, LateStepKeepsNamed
<1>10. ASSUME NEW r \in Requests, HandleError(r) PROVE SubjectsNamed'
  <2>1. pc'[r] = "done" /\ UNCHANGED <<principal, vouched>>
    BY <1>10 DEF HandleError, Goto, TypeOK, handler, application
  <2>4. Granted(r)' <=> Granted(r)
    BY <1>10, StatusWrite
  <2>5. \A s \in Requests \ {r} : pc'[s] = pc[s] /\ wire'[s] = wire[s]
    BY <1>10, StatusWrite DEF HandleError, Goto, TypeOK
  <2> QED
    BY <2>1, <2>4, <2>5, LateStepKeepsNamed
<1>11. CASE UNCHANGED vars
  BY <1>11 DEF vars, handler, application, SubjectsNamed, Named, Identified, Granted
<1> QED
  BY <1>1, <1>2, <1>3, <1>4, <1>5, <1>6, <1>7, <1>8, <1>9, <1>10, <1>11
     DEF Next, Handle, Finished

(***************************************************************************)
(* Both hold in every state.                                               *)
(***************************************************************************)
THEOREM IssuanceHolds == Spec => [](Issuance /\ SubjectsNamed)
<1>1. Spec => []Issuance
  BY IssuanceInit, IssuanceNext, TypeCorrect, DeliveryHolds, PTL DEF Spec
<1>2. Spec => []SubjectsNamed
  BY SubjectsNamedInit, SubjectsNamedNext, TypeCorrect, CustodyHolds, PTL DEF Spec
<1> QED
  BY <1>1, <1>2, PTL

(***************************************************************************)
(* A token the client has was made by Issue.                               *)
(***************************************************************************)
LEMMA GrantedTokensAreMade ==
    ASSUME Delivery, Issuance, NEW r \in Requests, NEW k \in TokenKinds,
           wire[r].payload[k] # NoToken
    PROVE  \E fault \in SignFaults :
              LET issued == Issue(IssueOptions(r, k), HasSigner, fault) IN
              issued.err = NoError /\ issued.value = wire[r].payload[k]
<1>1. Granted(r)
  BY DEF Granted, NoTokens
<1>2. wire[r].payload[k] = tokens[r][k]
  BY <1>1 DEF Delivery, Delivered, SentAsIssued
<1>3. k \in Issued(r)
  BY <1>2 DEF Issued
<1>4. Made(r, k)
  BY <1>3 DEF Issuance
<1> QED
  BY <1>2, <1>4 DEF Made

(***************************************************************************)
(* A token the client has names the request's own subject.                 *)
(***************************************************************************)
LEMMA GrantedTokensNameTheSubject ==
    ASSUME TypeOK, Delivery, Issuance, SubjectsNamed,
           NEW r \in Requests, NEW k \in TokenKinds, wire[r].payload[k] # NoToken,
           Completes(IssuerRuntimeOptions), LeavesAlone(options[r][k], "sub")
    PROVE  wire[r].payload[k].claims["sub"] = principal[r].subject
<1>1. PICK fault \in SignFaults :
         LET issued == Issue(IssueOptions(r, k), HasSigner, fault) IN
         issued.err = NoError /\ issued.value = wire[r].payload[k]
  BY GrantedTokensAreMade
<1>2. principal[r].claims \in Claims /\ principal[r].subject \in ClaimValues \ {""}
  <2>1. Named(r) /\ Granted(r)
    BY DEF SubjectsNamed, Granted, NoTokens
  <2> QED
    BY <2>1, PrincipalType DEF TypeOK, Named, Identified
<1>3. options[r][k] \in Seq(IssuerOptions) /\ IssuerRuntimeOptions \in Seq(IssuerOptions)
  <2>2. options[r][k] \in OptionLists \cup {<<>>}
    BY DEF TypeOK
  <2>3. OptionLists \subseteq Seq(IssuerOptions) /\ IssuerRuntimeOptions \in Seq(IssuerOptions)
    BY EndpointAssumption
  <2>4. <<>> \in Seq(IssuerOptions)
    OBVIOUS
  <2> QED
    BY <2>2, <2>3, <2>4
<1>4. HasSigner \in BOOLEAN /\ fault \in Errors
  BY EndpointAssumption, SignFaultsType
<1>5. Issue(IssueOptions(r, k), HasSigner, fault).value.claims["sub"] = principal[r].subject
  BY <1>1, <1>2, <1>3, <1>4, PrincipalsSubjectStands DEF IssueOptions
<1> QED
  BY <1>1, <1>5

(***************************************************************************)
(* No token the client gets names anybody but the subject resolved for     *)
(* that very request, whatever the issuer's own options write.             *)
(***************************************************************************)
THEOREM TokensNameTheirSubject == Spec => []TokensNameTheSubject
<1>1. TypeOK /\ Delivery /\ Issuance /\ SubjectsNamed => TokensNameTheSubject
  BY GrantedTokensNameTheSubject DEF TokensNameTheSubject
<1> QED
  BY <1>1, TypeCorrect, DeliveryHolds, IssuanceHolds, PTL

(***************************************************************************)
(* No option keeps a token that went through all of them from having the   *)
(* issuer's own time, identifier and signature; a token an option cut      *)
(* short has no algorithm, and no token is sent that a nil option was part *)
(* of.                                                                     *)
(***************************************************************************)
THEOREM TokensCarryTheStamp == Spec => []TokensAreStamped
<1>1. TypeOK /\ Delivery /\ Issuance => TokensAreStamped
  <2> SUFFICES ASSUME TypeOK, Delivery, Issuance, NEW r \in Requests, NEW k \in TokenKinds,
                      wire[r].payload[k] # NoToken
               PROVE  LET token == wire[r].payload[k] IN
                      /\ \A i \in DOMAIN IssueOptions(r, k) :
                            IssueOptions(r, k)[i].does # "nil"
                      /\ IF Completes(IssueOptions(r, k))
                         THEN Stamped(token, HasSigner) ELSE token.algorithm = ""
    BY DEF TokensAreStamped, Stamped
  <2>1. PICK fault \in SignFaults :
           LET issued == Issue(IssueOptions(r, k), HasSigner, fault) IN
           issued.err = NoError /\ issued.value = wire[r].payload[k]
    BY GrantedTokensAreMade
  <2>2. IssueOptions(r, k) \in Seq(IssuerOptions) /\ HasSigner \in BOOLEAN /\ fault \in Errors
    BY IssueOptionsType, EndpointAssumption, SignFaultsType
  <2> QED
    BY <2>1, <2>2, IssueStamps
<1> QED
  BY <1>1, TypeCorrect, DeliveryHolds, IssuanceHolds, PTL

(***************************************************************************)
(* Without a subject callback a token names the client that was            *)
(* authenticated for the request it answers.                               *)
(***************************************************************************)
THEOREM ClientsAreTheirSubjects == Spec => []SubjectIsClient
<1>1. TypeOK /\ Delivery /\ Issuance /\ SubjectsNamed => SubjectIsClient
  <2> SUFFICES ASSUME TypeOK, Delivery, Issuance, SubjectsNamed,
                      NEW r \in Requests, NEW k \in TokenKinds,
                      ~HasSubjectResolver, wire[r].payload[k] # NoToken,
                      Completes(IssuerRuntimeOptions), LeavesAlone(options[r][k], "sub")
               PROVE  /\ <<r, wire[r].payload[k].claims["sub"]>> \in vouched
                      /\ principal[r].scoped
    BY DEF SubjectIsClient
  <2>1. wire[r].payload[k].claims["sub"] = principal[r].subject
    BY GrantedTokensNameTheSubject
  <2>2. Named(r) /\ Granted(r)
    BY DEF SubjectsNamed, Granted, NoTokens
  <2> QED
    BY <2>1, <2>2 DEF Named, Identified
<1> QED
  BY <1>1, TypeCorrect, DeliveryHolds, IssuanceHolds, PTL
=============================================================================
