------------------------ MODULE TokenEndpointProofs ------------------------
(***************************************************************************)
(* The token endpoint, for every set of requests, every list of options    *)
(* and every configuration that satisfies the assumptions of               *)
(* TokenEndpoint: its type, and what jwt.Issuer.Issue returns.             *)
(*                                                                         *)
(* An authorization code is spent once, and only by a request that earned  *)
(* it: Custody is inductive, SingleUse and SpentByAuthenticatedClient      *)
(* follow from it. What is on the wire is known from where a handler is:   *)
(* Delivery is inductive, and with Custody it gives WholeGrant,            *)
(* ErrorAfterCommit and SpentBeforeIssued.                                 *)
(***************************************************************************)
EXTENDS TokenEndpoint, TokenRequestProofs, TLAPS

-----------------------------------------------------------------------------
(***************************************************************************)
(* What jwt.Issuer.Issue returns, for every list of options.               *)
(***************************************************************************)

(***************************************************************************)
(* Where the elements of a list are that was put together of two lists and *)
(* an element between them.                                                *)
(***************************************************************************)
LEMMA AroundOne ==
    ASSUME NEW S, NEW before \in Seq(S), NEW after \in Seq(S), NEW x \in S
    PROVE  LET all == before \o <<x>> \o after
               k == Len(before) + 1
           IN  /\ all \in Seq(S) /\ DOMAIN all \subseteq Nat
               /\ k \in DOMAIN all /\ all[k] = x
               /\ \A j \in DOMAIN all :
                     /\ j < k => j \in DOMAIN before /\ all[j] = before[j]
                     /\ j > k => j - k \in DOMAIN after /\ all[j] = after[j - k]
OBVIOUS

LEMMA WithPrincipalType ==
    ASSUME NEW p, p.claims \in Claims, p.subject \in ClaimValues
    PROVE  /\ WithPrincipal(p) \in IssuerOptions
           /\ WithPrincipal(p).does = "set"
           /\ WithPrincipal(p).claims["sub"] = p.subject
<1>1. [p.claims EXCEPT !["sub"] = p.subject] \in Claims
  BY DEF Claims
<1>2. [p.claims EXCEPT !["sub"] = p.subject]["sub"] = p.subject
  BY ClaimAssumption DEF Claims
<1> QED
  BY <1>1, <1>2 DEF WithPrincipal, SetClaims, IssuerOptions, Errors, NoError

LEMMA ClaimAfterType ==
    ASSUME NEW chain \in Seq(IssuerOptions), NEW claim \in ClaimNames
    PROVE  ClaimAfter(chain, claim) \in ClaimValues
<1> DEFINE last == CHOOSE i \in DOMAIN chain : WritesLast(chain, claim, i)
<1>1. ASSUME NEW i \in DOMAIN chain
      PROVE  chain[i].claims[claim] \in ClaimValues
  <2>1. chain[i] \in IssuerOptions
    OBVIOUS
  <2> QED
    BY <2>1 DEF IssuerOptions, Claims
<1>2. CASE \E i \in DOMAIN chain : WritesLast(chain, claim, i)
  <2>1. last \in DOMAIN chain
    BY <1>2
  <2> QED
    BY <1>2, <1>1, <2>1 DEF ClaimAfter
<1>3. CASE ~ \E i \in DOMAIN chain : WritesLast(chain, claim, i)
  BY <1>3, ClaimAssumption DEF ClaimAfter
<1> QED
  BY <1>2, <1>3

(***************************************************************************)
(* Issue returns a token or an error, never both and never neither: the    *)
(* nil checks of its callers are not needed (jwt/issuer.go, Issue).        *)
(***************************************************************************)
LEMMA IssueType ==
    ASSUME NEW chain \in Seq(IssuerOptions), NEW signer \in BOOLEAN,
           NEW fault \in Errors
    PROVE  LET issued == Issue(chain, signer, fault)
           IN  /\ issued.err \in Errors
               /\ issued.err = NoError => issued.value \in Tokens
               /\ issued.err # NoError => issued.value = NoToken
<1> DEFINE claims == [c \in ClaimNames |-> ClaimAfter(chain, c)]
           failed == {i \in DOMAIN chain : Runs(chain, i) /\ chain[i].does = "fail"}
           failure == IF Completes(chain) THEN fault ELSE UNION {chain[i].err : i \in failed}
<1>1. claims \in Claims /\ Stamp(claims) \in Claims
  BY ClaimAfterType, ClaimAssumption DEF Claims, Stamp
<1>2. failure \in Errors
  <2>1. ASSUME NEW i \in DOMAIN chain PROVE chain[i].err \in Errors
    <3>1. chain[i] \in IssuerOptions
      OBVIOUS
    <3> QED
      BY <3>1 DEF IssuerOptions
  <2> QED
    BY <2>1 DEF Errors
<1>3. NewErrorCategory("Malformed", failure) \in Errors \ {NoError}
  BY <1>2 DEF NewErrorCategory, Errors, Categories, NoError
<1>4. {"Misconfigured"} \in Errors \ {NoError} /\ NoError \in Errors
  BY DEF Errors, Categories, NoError
<1> HIDE DEF claims, failed, failure
<1>5. Issue(chain, signer, fault) =
        IF \E i \in DOMAIN chain : chain[i].does = "nil"
        THEN Failure({"Misconfigured"}, NoToken)
        ELSE IF failure # NoError
        THEN Failure(NewErrorCategory("Malformed", failure), NoToken)
        ELSE IF Completes(chain)
        THEN Success([claims |-> Stamp(claims),
                      algorithm |-> IF signer THEN "signer" ELSE "none"])
        ELSE Success([claims |-> claims, algorithm |-> ""])
  BY DEF Issue, claims, failed, failure
<1>6. /\ [claims |-> Stamp(claims), algorithm |-> IF signer THEN "signer" ELSE "none"] \in Tokens
      /\ [claims |-> claims, algorithm |-> ""] \in Tokens
  BY <1>1 DEF Tokens
<1>7. /\ \A v : Success(v).err = NoError /\ Success(v).value = v
      /\ \A e, v : Failure(e, v).err = e /\ Failure(e, v).value = v
  BY DEF Success, Failure
<1> DEFINE issued == Issue(chain, signer, fault)
           nil == \E i \in DOMAIN chain : chain[i].does = "nil"
<1>8. CASE nil
  <2>1. issued = Failure({"Misconfigured"}, NoToken)
    BY <1>5, <1>8
  <2> QED
    BY <1>4, <1>7, <2>1
<1>9. CASE ~nil /\ failure # NoError
  BY <1>3, <1>5, <1>7, <1>9
<1>10. CASE ~nil /\ failure = NoError /\ Completes(chain)
  <2> DEFINE signed == [claims |-> Stamp(claims),
                        algorithm |-> IF signer THEN "signer" ELSE "none"]
  <2>1. issued = Success(signed)
    BY <1>5, <1>10
  <2>2. signed \in Tokens
    BY <1>6
  <2> HIDE DEF signed
  <2>3. issued.err = NoError /\ issued.value = signed
    BY <1>7, <2>1
  <2> QED
    BY <1>4, <2>2, <2>3
<1>11. CASE ~nil /\ failure = NoError /\ ~Completes(chain)
  <2> DEFINE unsigned == [claims |-> claims, algorithm |-> ""]
  <2>1. issued = Success(unsigned)
    BY <1>5, <1>11
  <2>2. unsigned \in Tokens
    BY <1>6
  <2> HIDE DEF unsigned
  <2>3. issued.err = NoError /\ issued.value = unsigned
    BY <1>7, <2>1
  <2> QED
    BY <1>4, <2>2, <2>3
<1> QED
  BY <1>8, <1>9, <1>10, <1>11

(***************************************************************************)
(* A token is not NoToken.                                                 *)
(***************************************************************************)
LEMMA NoTokenIsNoToken == NoToken \notin Tokens
BY DEF NoToken, Tokens

(***************************************************************************)
(* What is issued went through a chain without a nil option: to its end,   *)
(* and then iat, jti and the signature are those of Issuer.issue whatever  *)
(* the options wrote, or not, and then it has no algorithm.                *)
(***************************************************************************)
Stamped(token, signer) ==
    /\ token.claims["iat"] = "now" /\ token.claims["jti"] = "random"
    /\ token.algorithm = IF signer THEN "signer" ELSE "none"

LEMMA IssueStamps ==
    ASSUME NEW chain \in Seq(IssuerOptions), NEW signer \in BOOLEAN,
           NEW fault \in Errors,
           Issue(chain, signer, fault).err = NoError
    PROVE  LET token == Issue(chain, signer, fault).value
           IN  /\ \A i \in DOMAIN chain : chain[i].does # "nil"
               /\ IF Completes(chain) THEN Stamped(token, signer) ELSE token.algorithm = ""
<1> DEFINE claims == [c \in ClaimNames |-> ClaimAfter(chain, c)]
           failed == {i \in DOMAIN chain : Runs(chain, i) /\ chain[i].does = "fail"}
           failure == IF Completes(chain) THEN fault ELSE UNION {chain[i].err : i \in failed}
           nil == \E i \in DOMAIN chain : chain[i].does = "nil"
           signed == [claims |-> Stamp(claims),
                      algorithm |-> IF signer THEN "signer" ELSE "none"]
           unsigned == [claims |-> claims, algorithm |-> ""]
<1>1. /\ \A e : NewErrorCategory("Malformed", e) # NoError
      /\ {"Misconfigured"} # NoError
  BY DEF NewErrorCategory, NoError
<1>2. Stamp(claims)["iat"] = "now" /\ Stamp(claims)["jti"] = "random"
  BY ClaimAssumption DEF Stamp
<1>3. Stamped(signed, signer) /\ unsigned.algorithm = ""
  BY <1>2 DEF Stamped
<1> HIDE DEF claims, failed, failure
<1>4. Issue(chain, signer, fault) =
        IF nil THEN Failure({"Misconfigured"}, NoToken)
        ELSE IF failure # NoError
        THEN Failure(NewErrorCategory("Malformed", failure), NoToken)
        ELSE IF Completes(chain) THEN Success(signed) ELSE Success(unsigned)
  BY DEF Issue, claims, failed, failure
<1>5. /\ \A v : Success(v).value = v
      /\ \A e, v : Failure(e, v).err = e
  BY DEF Success, Failure
<1> HIDE DEF nil, signed, unsigned
<1>6. ~nil
  BY <1>1, <1>4, <1>5
<1>7. failure = NoError
  BY <1>1, <1>4, <1>5, <1>6
<1>8. Issue(chain, signer, fault).value = IF Completes(chain) THEN signed ELSE unsigned
  BY <1>4, <1>5, <1>6, <1>7
<1> QED
  BY <1>3, <1>6, <1>8 DEF nil

(***************************************************************************)
(* The k-th of a list of options has the last word on a claim it writes    *)
(* that no later option touches.                                           *)
(***************************************************************************)
LEMMA LastWord ==
    ASSUME NEW chain, NEW claim \in ClaimNames, NEW k \in DOMAIN chain,
           DOMAIN chain \subseteq Nat,
           Writes(chain, claim, k),
           \A j \in DOMAIN chain : j > k => ~Writes(chain, claim, j)
    PROVE  ClaimAfter(chain, claim) = chain[k].claims[claim]
<1>1. \A j \in DOMAIN chain : Writes(chain, claim, j) => j <= k
  OBVIOUS
<1>2. WritesLast(chain, claim, k)
  BY <1>1 DEF WritesLast
<1>3. ASSUME NEW i \in DOMAIN chain, WritesLast(chain, claim, i)
      PROVE  i = k
  BY <1>2, <1>3 DEF WritesLast
<1> DEFINE last == CHOOSE i \in DOMAIN chain : WritesLast(chain, claim, i)
<1>4. last = k
  BY <1>2, <1>3
<1> QED
  BY <1>2, <1>4 DEF ClaimAfter

(***************************************************************************)
(* The subject an option writes between others that have no later say.     *)
(***************************************************************************)
LEMMA SubjectInTheMiddle ==
    ASSUME NEW before \in Seq(IssuerOptions), NEW after \in Seq(IssuerOptions),
           NEW w \in IssuerOptions, Completes(before), LeavesAlone(after, "sub")
    PROVE  w.does = "set" /\ w.claims["sub"] # "" =>
               ClaimAfter(before \o <<w>> \o after, "sub") = w.claims["sub"]
<1> DEFINE chain == before \o <<w>> \o after
           k == Len(before) + 1
<1>1. /\ DOMAIN chain \subseteq Nat /\ k \in DOMAIN chain /\ chain[k] = w
      /\ \A j \in DOMAIN chain :
            /\ j < k => j \in DOMAIN before /\ chain[j] = before[j]
            /\ j > k => j - k \in DOMAIN after /\ chain[j] = after[j - k]
  BY AroundOne
<1> HIDE DEF chain, k
<1>2. w.does = "set" /\ w.claims["sub"] # "" => Writes(chain, "sub", k)
  BY <1>1 DEF Writes, Runs, Completes
<1>3. \A j \in DOMAIN chain : j > k => ~Writes(chain, "sub", j)
  BY <1>1 DEF Writes, LeavesAlone
<1>4. Writes(chain, "sub", k) => ClaimAfter(chain, "sub") = chain[k].claims["sub"]
  <2>1. "sub" \in ClaimNames
    BY ClaimAssumption
  <2> QED
    BY <1>1, <1>3, <2>1, LastWord
<1> QED
  BY <1>1, <1>2, <1>4 DEF chain

(***************************************************************************)
(* The subject of the principal replaces one written by an option before   *)
(* it and stands unless an option after it writes another: the order of    *)
(* runtime options, principal and token options in ServeHTTP.              *)
(***************************************************************************)
LEMMA PrincipalsSubjectStands ==
    ASSUME NEW before \in Seq(IssuerOptions), NEW after \in Seq(IssuerOptions),
           NEW p, p.claims \in Claims, p.subject \in ClaimValues \ {""},
           NEW signer \in BOOLEAN, NEW fault \in Errors,
           Completes(before),
           LeavesAlone(after, "sub"),
           Issue(before \o <<WithPrincipal(p)>> \o after, signer, fault).err = NoError
    PROVE  Issue(before \o <<WithPrincipal(p)>> \o after, signer, fault).value.claims["sub"]
               = p.subject
<1>1. /\ WithPrincipal(p) \in IssuerOptions /\ WithPrincipal(p).does = "set"
      /\ WithPrincipal(p).claims["sub"] = p.subject
  BY WithPrincipalType
<1> DEFINE chain == before \o <<WithPrincipal(p)>> \o after
           claims == [c \in ClaimNames |-> ClaimAfter(chain, c)]
<1>2. ClaimAfter(chain, "sub") = p.subject
  BY <1>1, SubjectInTheMiddle
<1> HIDE DEF chain
<1>3. /\ \A e : NewErrorCategory("Malformed", e) # NoError
      /\ {"Misconfigured"} # NoError
  BY DEF NewErrorCategory, NoError
<1>4. \/ Issue(chain, signer, fault).value.claims = claims
      \/ Issue(chain, signer, fault).value.claims = Stamp(claims)
  BY <1>3 DEF Issue, Success, Failure, chain
<1>5. claims["sub"] = p.subject /\ Stamp(claims)["sub"] = p.subject
  BY <1>2, ClaimAssumption DEF Stamp
<1> QED
  BY <1>4, <1>5 DEF chain

-----------------------------------------------------------------------------
(***************************************************************************)
(* Type correctness.                                                       *)
(***************************************************************************)
LEMMA SimpleErrors ==
    /\ NoError \in Errors /\ {"Unauthenticated"} \in Errors /\ {"Misconfigured"} \in Errors
    /\ {"PolicyRejected"} \in Errors /\ {"Malformed"} \in Errors
    /\ WriteFault \in Errors
BY DEF Errors, Categories, NoError, WriteFault

LEMMA AnswerType ==
    ASSUME NEW e
    PROVE  /\ ErrorAnswer(e).status \in {400, 401, 500, 503}
           /\ ErrorAnswer(e).body \in ErrorCodes
BY DEF ErrorAnswer, ErrorCodes

LEMMA CarrierIsRequest == \A h \in Carriers : h \in HTTPRequests
BY EndpointAssumption

LEMMA StepTypes ==
    /\ TokenKinds \subseteq Steps
    /\ \A k \in TokenKinds : After(k) \in Steps
BY DEF TokenKinds, Steps, After

LEMMA PrincipalType ==
    /\ \A s \in Users \cup Text, b \in BOOLEAN : Principal(s, b) \in Principals
    /\ \A p \in Principals \cup {NoPrincipal} :
          p.claims \in Claims /\ p.subject \in ClaimValues
<1>1. NoClaims \in Claims
  BY ClaimAssumption DEF NoClaims, Claims
<1>2. Users \cup Text \subseteq ClaimValues /\ "" \in ClaimValues
  BY EndpointAssumption, ClaimAssumption
<1>3. \A s \in Users \cup Text, b \in BOOLEAN : Principal(s, b) \in Principals
  BY DEF Principal, Principals
<1>4. \A p \in Principals : p.claims \in Claims /\ p.subject \in ClaimValues
  BY <1>1, <1>2 DEF Principals
<1>5. NoPrincipal.claims \in Claims /\ NoPrincipal.subject \in ClaimValues
  BY <1>1, <1>2 DEF NoPrincipal
<1> QED
  BY <1>3, <1>4, <1>5

(***************************************************************************)
(* The options ServeHTTP passes to the issuer are always a list of         *)
(* options.                                                                *)
(***************************************************************************)
LEMMA IssueOptionsType ==
    ASSUME TypeOK, NEW r \in Requests, NEW k \in TokenKinds
    PROVE  IssueOptions(r, k) \in Seq(IssuerOptions)
<1>1. principal[r].claims \in Claims /\ principal[r].subject \in ClaimValues
  BY PrincipalType DEF TypeOK
<1>2. WithPrincipal(principal[r]) \in IssuerOptions
  BY <1>1, WithPrincipalType
<1>3. options[r][k] \in Seq(IssuerOptions)
  <2>1. options[r][k] \in OptionLists \cup {<<>>}
    BY DEF TypeOK
  <2>2. OptionLists \subseteq Seq(IssuerOptions)
    BY EndpointAssumption
  <2>3. <<>> \in Seq(IssuerOptions)
    OBVIOUS
  <2> QED
    BY <2>1, <2>2, <2>3
<1>4. IssuerRuntimeOptions \in Seq(IssuerOptions)
  BY EndpointAssumption
<1> QED
  BY <1>2, <1>3, <1>4, AroundOne DEF IssueOptions

LEMMA SignFaultsType == SignFaults \subseteq Errors
<1>1. CallbackErrors \subseteq Errors /\ "Internal" \in Categories
      /\ {"uncategorised"} \in Errors
  BY EndpointAssumption DEF Categories, Errors
<1>2. ASSUME NEW e \in CallbackErrors \cup {{"uncategorised"}}
      PROVE  NewErrorCategory("Internal", e) \in Errors
  <2>1. e \in Errors
    BY <1>1
  <2> QED
    BY <1>1, <2>1, WrappedIsError
<1> QED
  BY <1>1, <1>2, SimpleErrors DEF SignFaults

(* A request that was not served yet has no token, no answer and no error. *)
THEOREM TypeInit == Init => TypeOK
<1> SUFFICES ASSUME Init PROVE TypeOK
  OBVIOUS
<1>1. "" \in Text
  BY TextAssumption
<1>2. EmptyRequest \in TokenRequests
  BY <1>1 DEF EmptyRequest, TokenRequests, NoCredentials, Credentials
<1>3. [k \in TokenKinds |-> <<>>] \in [TokenKinds -> OptionLists \cup {<<>>}]
  OBVIOUS
<1>4. NoTokens \in [TokenKinds -> Tokens \cup {NoToken}]
  BY DEF NoTokens
<1>5. [status |-> 0, payload |-> NoTokens, error |-> ""] \in Wires
  BY <1>4 DEF Wires, Statuses
<1> QED
  BY <1>2, <1>3, <1>4, <1>5, SimpleErrors DEF Init, TypeOK, Steps

(***************************************************************************)
(* What Goto, Raise and WriteHeader leave typed.                           *)
(***************************************************************************)
LEMMA GotoType ==
    ASSUME TypeOK, NEW r \in Requests, NEW step \in Steps, Goto(r, step)
    PROVE  pc' \in [Requests -> Steps]
BY DEF TypeOK, Goto

LEMMA RaiseType ==
    ASSUME TypeOK, NEW r \in Requests, NEW e \in Errors, Raise(r, e)
    PROVE  pc' \in [Requests -> Steps] /\ err' \in [Requests -> Errors]
BY DEF TypeOK, Raise, Goto, Steps

LEMMA CommittedType ==
    ASSUME TypeOK, NEW r \in Requests, NEW status \in Statuses
    PROVE  Committed(r, status) \in Statuses
BY DEF TypeOK, Committed, Wires

LEMMA CallbackErrorsType ==
    CallbackErrors \cup {{"Unauthenticated"}} \subseteq Errors
BY EndpointAssumption, SimpleErrors

(* Every step of a handler keeps the types, its callbacks' answers included
   (tokenendpoint/endpoint.go). *)
THEOREM TypeNext == TypeOK /\ [Next]_vars => TypeOK'
<1> SUFFICES ASSUME TypeOK, [Next]_vars PROVE TypeOK'
  OBVIOUS
<1> USE SimpleErrors
<1>1. ASSUME NEW r \in Requests, Serve(r) PROVE TypeOK'
  <2>1. wire[r] \in Wires /\ 405 \in Statuses /\ "read" \in Steps /\ "done" \in Steps
    BY DEF TypeOK, Statuses, Steps
  <2>2. pc' \in [Requests -> Steps]
    BY <1>1, <2>1, GotoType DEF Serve
  <2>3. wire' \in [Requests -> Wires]
    <3>1. [wire[r] EXCEPT !.status = 405] \in Wires
      BY <2>1 DEF Wires
    <3>2. UNCHANGED wire \/ wire' = [wire EXCEPT ![r] = [wire[r] EXCEPT !.status = 405]]
      BY <1>1 DEF Serve
    <3>3. wire \in [Requests -> Wires]
      BY DEF TypeOK
    <3> QED
      BY <3>1, <3>2, <3>3
  <2> QED
    BY <1>1, <2>2, <2>3 DEF TypeOK, Serve, handler, application
<1>2. ASSUME NEW r \in Requests, Read(r) PROVE TypeOK'
  <2>1. ReadTokenRequest(carrier[r]) \in [err : Errors, value : TokenRequests]
    BY ReadType, CarrierIsRequest DEF TypeOK
  <2> QED
    BY <1>2, <2>1 DEF TypeOK, Read, Raise, At, Goto, Steps, application
<1>3. ASSUME NEW r \in Requests, Validate(r) PROVE TypeOK'
  <2>1. ValidateTokenRequest(request[r]) \in Errors
    BY ValidateType DEF TypeOK
  <2> QED
    BY <1>3, <2>1 DEF TypeOK, Validate, Raise, At, Goto, Steps, application
<1>4. ASSUME NEW r \in Requests, ResolveClient(r) PROVE TypeOK'
  <2> DEFINE id == request[r].credentials.client_id
  <2>1. id \in Text /\ "subject" \in Steps
    BY DEF TypeOK, TokenRequests, Credentials, Steps
  <2>2. \A b \in BOOLEAN : Principal(id, b) \in Principals
    BY <2>1, PrincipalType
  <2> HIDE DEF id
  <2>3. \/ /\ Goto(r, "subject") /\ UNCHANGED err
           /\ \E b \in BOOLEAN : client' = [client EXCEPT ![r] = Principal(id, b)]
           /\ vouched' = vouched \cup {<<r, id>>}
        \/ (\E e \in Errors : Raise(r, e)) /\ UNCHANGED <<client, vouched>>
    BY <1>4, CallbackErrorsType DEF ResolveClient, id
  <2>4. pc' \in [Requests -> Steps] /\ err' \in [Requests -> Errors]
    BY <2>1, <2>3, GotoType, RaiseType DEF TypeOK
  <2>5. client' \in [Requests -> Principals \cup {NoPrincipal}]
    BY <2>2, <2>3 DEF TypeOK
  <2>6. vouched' \subseteq Requests \X Text
    BY <2>1, <2>3 DEF TypeOK
  <2> QED
    BY <1>4, <2>4, <2>5, <2>6 DEF TypeOK, ResolveClient
<1>5. ASSUME NEW r \in Requests, RedeemCode(r) PROVE TypeOK'
  <2>1. "prepare" \in Steps
    BY DEF Steps
  <2>2. \/ /\ Goto(r, "prepare") /\ UNCHANGED err
           /\ Code(r) \in Codes
           /\ principal' = [principal EXCEPT ![r] = Principal(Owner[Code(r)], TRUE)]
        \/ (\E e \in Errors : Raise(r, e)) /\ UNCHANGED principal
    BY <1>5, CallbackErrorsType DEF RedeemCode, Resolved, Unresolved
  <2>3. pc' \in [Requests -> Steps] /\ err' \in [Requests -> Errors]
    BY <2>1, <2>2, GotoType, RaiseType DEF TypeOK
  <2>4. principal' \in [Requests -> Principals \cup {NoPrincipal}]
    <3>1. Code(r) \in Codes => Principal(Owner[Code(r)], TRUE) \in Principals
      BY EndpointAssumption, PrincipalType
    <3> QED
      BY <2>2, <3>1 DEF TypeOK
  <2>5. redeemed' \in [Codes -> {Unused} \cup [by : Requests, client : Users \cup Text]]
    <3>1. "" \in Text
      BY TextAssumption
    <3>2. \A p \in Principals \cup {NoPrincipal} : p.subject \in Users \cup Text
      <4>1. \A p \in Principals : p.subject \in Users \cup Text
        BY DEF Principals
      <4>2. NoPrincipal.subject = ""
        BY DEF NoPrincipal
      <4> QED
        BY <3>1, <4>1, <4>2
    <3>3. [by |-> r, client |-> client[r].subject] \in [by : Requests, client : Users \cup Text]
      BY <3>2 DEF TypeOK
    <3>4. \/ UNCHANGED redeemed
          \/ redeemed' = [redeemed EXCEPT ![Code(r)] = [by |-> r, client |-> client[r].subject]]
      BY <1>5 DEF RedeemCode, Consume
    <3> QED
      BY <3>3, <3>4 DEF TypeOK
  <2> QED
    BY <1>5, <2>3, <2>4, <2>5 DEF TypeOK, RedeemCode
<1>6. ASSUME NEW r \in Requests, ResolveSubject(r) PROVE TypeOK'
  <2>1. "prepare" \in Steps
    BY DEF Steps
  <2>2. \A u \in Users, b \in BOOLEAN : Principal(u, b) \in Principals
    BY PrincipalType
  <2>3. \/ /\ Goto(r, "prepare") /\ UNCHANGED err
           /\ \E u \in Users, b \in BOOLEAN :
                 principal' = [principal EXCEPT ![r] = Principal(u, b)]
        \/ (\E e \in Errors : Raise(r, e)) /\ UNCHANGED principal
    BY <1>6, CallbackErrorsType DEF ResolveSubject, Resolved, Unresolved
  <2>4. pc' \in [Requests -> Steps] /\ err' \in [Requests -> Errors]
    BY <2>1, <2>3, GotoType, RaiseType DEF TypeOK
  <2>5. principal' \in [Requests -> Principals \cup {NoPrincipal}]
    BY <2>2, <2>3 DEF TypeOK
  <2> QED
    BY <1>6, <2>4, <2>5 DEF TypeOK, ResolveSubject, application
<1>7. ASSUME NEW r \in Requests, ResolveDefault(r) PROVE TypeOK'
  BY <1>7 DEF TypeOK, ResolveDefault, Resolved, At, Goto, Steps, application
<1>8. ASSUME NEW r \in Requests, Prepare(r) PROVE TypeOK'
  <2>1. \A prepared \in [IssuedTokens -> OptionLists] :
           [k \in TokenKinds |-> IF k \in IssuedTokens THEN prepared[k] ELSE <<>>]
               \in [TokenKinds -> OptionLists \cup {<<>>}]
    OBVIOUS
  <2>2. "access_token" \in Steps
    BY DEF Steps
  <2>3. \/ /\ Goto(r, "access_token") /\ UNCHANGED err
           /\ \E lists \in [TokenKinds -> OptionLists \cup {<<>>}] :
                 options' = [options EXCEPT ![r] = lists]
        \/ (\E e \in Errors : Raise(r, e)) /\ UNCHANGED options
    BY <1>8, <2>1, CallbackErrorsType DEF Prepare
  <2>4. pc' \in [Requests -> Steps] /\ err' \in [Requests -> Errors]
    BY <2>2, <2>3, GotoType, RaiseType DEF TypeOK
  <2>5. options' \in [Requests -> [TokenKinds -> OptionLists \cup {<<>>}]]
    BY <2>3 DEF TypeOK
  <2> QED
    BY <1>8, <2>4, <2>5 DEF TypeOK, Prepare, application
<1>9. ASSUME NEW r \in Requests, NEW k \in TokenKinds, IssueToken(r, k) PROVE TypeOK'
  <2>1. \A fault \in SignFaults :
           LET issued == Issue(IssueOptions(r, k), HasSigner, fault)
           IN  issued.err \in Errors /\ issued.value \in Tokens \cup {NoToken}
    BY IssueOptionsType, SignFaultsType, IssueType, EndpointAssumption
  <2>2. After(k) \in Steps
    BY StepTypes
  <2>3. /\ \/ Goto(r, After(k)) /\ UNCHANGED err
           \/ \E e \in Errors : Raise(r, e)
        /\ \/ UNCHANGED tokens
           \/ \E t \in Tokens \cup {NoToken} : tokens' = [tokens EXCEPT ![r][k] = t]
    BY <1>9, <2>1 DEF IssueToken
  <2>4. pc' \in [Requests -> Steps] /\ err' \in [Requests -> Errors]
    BY <2>2, <2>3, GotoType, RaiseType DEF TypeOK
  <2>5. tokens' \in [Requests -> [TokenKinds -> Tokens \cup {NoToken}]]
    <3>1. tokens[r] \in [TokenKinds -> Tokens \cup {NoToken}]
      BY DEF TypeOK
    <3>2. \A t \in Tokens \cup {NoToken} :
             [tokens[r] EXCEPT ![k] = t] \in [TokenKinds -> Tokens \cup {NoToken}]
      BY <3>1
    <3>3. \/ UNCHANGED tokens
          \/ \E t \in Tokens \cup {NoToken} :
                tokens' = [tokens EXCEPT ![r] = [tokens[r] EXCEPT ![k] = t]]
      BY <2>3 DEF TypeOK
    <3>4. \/ UNCHANGED tokens
          \/ \E row \in [TokenKinds -> Tokens \cup {NoToken}] :
                tokens' = [tokens EXCEPT ![r] = row]
      BY <3>2, <3>3
    <3> QED
      BY <3>4 DEF TypeOK
  <2> QED
    BY <1>9, <2>4, <2>5 DEF TypeOK, IssueToken, application
<1>10. ASSUME NEW r \in Requests, WriteHeader(r) PROVE TypeOK'
  <2>1. "body" \in Steps /\ 200 \in Statuses /\ wire[r] \in Wires
    BY DEF TypeOK, Steps, Statuses
  <2>2. pc' \in [Requests -> Steps] /\ err' \in [Requests -> Errors]
    BY <1>10, <2>1, GotoType, RaiseType DEF TypeOK, WriteHeader
  <2>3. wire' \in [Requests -> Wires]
    <3>1. [wire[r] EXCEPT !.status = Committed(r, 200)] \in Wires
      BY <2>1, CommittedType DEF Wires
    <3> QED
      BY <1>10, <3>1 DEF TypeOK, WriteHeader
  <2> QED
    BY <1>10, <2>2, <2>3 DEF TypeOK, WriteHeader, application
<1>11. ASSUME NEW r \in Requests, WriteBody(r) PROVE TypeOK'
  <2>1. "done" \in Steps /\ wire[r] \in Wires
        /\ tokens[r] \in [TokenKinds -> Tokens \cup {NoToken}]
    BY DEF TypeOK, Steps
  <2>2. pc' \in [Requests -> Steps] /\ err' \in [Requests -> Errors]
    BY <1>11, <2>1, GotoType, RaiseType DEF TypeOK, WriteBody
  <2>3. wire' \in [Requests -> Wires]
    <3>1. ASSUME NEW payload \in [TokenKinds -> Tokens \cup {NoToken}]
          PROVE  [wire[r] EXCEPT !.payload = payload] \in Wires
      BY <2>1 DEF Wires
    <3>2. \A fields : Sent(tokens[r], fields) \in [TokenKinds -> Tokens \cup {NoToken}]
      BY <2>1 DEF Sent
    <3>3. \E payload \in [TokenKinds -> Tokens \cup {NoToken}] :
             wire' = [wire EXCEPT ![r].payload = payload]
      BY <1>11, <2>1, <3>2 DEF WriteBody
    <3> QED
      BY <3>1, <3>3 DEF TypeOK
  <2> QED
    BY <1>11, <2>2, <2>3 DEF TypeOK, WriteBody, application
<1>12. ASSUME NEW r \in Requests, HandleError(r) PROVE TypeOK'
  <2> DEFINE answer == ErrorAnswer(err[r])
  <2>1. "done" \in Steps /\ wire[r] \in Wires
    BY DEF TypeOK, Steps
  <2>2. Committed(r, answer.status) \in Statuses /\ answer.body \in ErrorCodes
    BY AnswerType, CommittedType DEF Statuses
  <2> HIDE DEF answer
  <2>3. pc' \in [Requests -> Steps]
    BY <1>12, <2>1, GotoType DEF HandleError
  <2>4. wire' \in [Requests -> Wires]
    <3>1. \A body \in {"", "cut off", answer.body} :
             [wire[r] EXCEPT !.status = Committed(r, answer.status), !.error = body] \in Wires
      BY <2>1, <2>2 DEF Wires
    <3>2. \E body \in {"", "cut off", answer.body} :
             wire' = [wire EXCEPT ![r] =
                         [wire[r] EXCEPT !.status = Committed(r, answer.status), !.error = body]]
      BY <1>12 DEF HandleError, answer, TypeOK
    <3> QED
      BY <3>1, <3>2 DEF TypeOK
  <2> QED
    BY <1>12, <2>3, <2>4 DEF TypeOK, HandleError, handler, application
<1>13. CASE UNCHANGED vars
  BY <1>13 DEF TypeOK, vars, handler, application
<1> QED
  BY <1>1, <1>2, <1>3, <1>4, <1>5, <1>6, <1>7, <1>8, <1>9, <1>10, <1>11, <1>12, <1>13
     DEF Next, Handle, Finished

(***************************************************************************)
(* Every variable of the endpoint keeps its type: in particular every      *)
(* answer has a status and a body that RFC 6749 knows, and everything that *)
(* is issued is a token.                                                   *)
(***************************************************************************)
THEOREM TypeCorrect == Spec => []TypeOK
BY TypeInit, TypeNext, PTL DEF Spec

-----------------------------------------------------------------------------
(***************************************************************************)
(* Custody.                                                                *)
(***************************************************************************)

(***************************************************************************)
(* Before the first request nothing has been granted and no code is spent. *)
(***************************************************************************)
LEMMA CustodyInit == Init => Custody
<1> SUFFICES ASSUME Init PROVE Custody
  OBVIOUS
<1>1. \A r \in Requests : ~Granted(r) /\ At(r, "serve")
  BY DEF Init, Granted, At
<1>2. \A r \in Requests : RequestKept(r)
  BY <1>1 DEF RequestKept, At, Admitted, SubjectKnown, TokenKinds
<1>3. \A c \in Codes : CodeKept(c)
  BY DEF Init, CodeKept
<1> QED
  BY <1>2, <1>3 DEF Custody

(***************************************************************************)
(* A step of r that neither reads a request nor resolves a principal keeps *)
(* Custody if it moves r no nearer to the code than it was.                *)
(***************************************************************************)
LEMMA StepKeepsCustody ==
    ASSUME TypeOK, Custody, NEW r \in Requests,
           UNCHANGED <<request, client, redeemed>>, vouched \subseteq vouched',
           \A s \in Requests \ {r} :
              pc'[s] = pc[s] /\ principal'[s] = principal[s] /\ wire'[s] = wire[s],
           pc'[r] \in Admitted => ValidateTokenRequest(request[r]) = NoError,
           ~At(r, "subject")',
           pc[r] \in SubjectKnown \cup {"fail", "done"} =>
               pc'[r] \in SubjectKnown \cup {"fail", "done"},
           Granted(r)' => pc'[r] \in {"fail", "done"},
           (pc'[r] \in SubjectKnown \/ Granted(r)') /\ GrantsCode(r) => HoldsItsCode(r)'
    PROVE  Custody'
<1>1. RequestKept(r)'
  BY DEF RequestKept, GrantsCode, Code
<1>2. ASSUME NEW s \in Requests \ {r} PROVE RequestKept(s)'
  <2>1. RequestKept(s)
    BY DEF Custody
  <2>2. (Granted(s)' <=> Granted(s)) /\ (HoldsItsCode(s)' <=> HoldsItsCode(s))
    BY DEF Granted, HoldsItsCode, Code
  <2>3. \A step : At(s, step)' <=> At(s, step)
    BY DEF At
  <2> QED
    BY <2>1, <2>2, <2>3 DEF RequestKept, GrantsCode, Code
<1>3. ASSUME NEW c \in Codes PROVE CodeKept(c)'
  <2>1. CodeKept(c)
    BY DEF Custody
  <2>2. redeemed[c] # Unused => redeemed[c].by \in Requests
    BY DEF TypeOK
  <2>3. redeemed[c] # Unused =>
           pc'[redeemed[c].by] \in SubjectKnown \cup {"fail", "done"}
    BY <2>1, <2>2 DEF CodeKept
  <2> QED
    BY <2>1, <2>3 DEF CodeKept, Code
<1> QED
  BY <1>1, <1>2, <1>3 DEF Custody

(***************************************************************************)
(* A request that has not got as far as its subject owns no code.          *)
(***************************************************************************)
LEMMA NothingHeldYet ==
    ASSUME TypeOK, Custody, NEW r \in Requests,
           pc[r] \notin SubjectKnown \cup {"fail", "done"}
    PROVE  /\ ~Granted(r)
           /\ \A c \in Codes : redeemed[c] # Unused => redeemed[c].by # r
<1>1. RequestKept(r) /\ \A c \in Codes : CodeKept(c)
  BY DEF Custody
<1>2. ~Granted(r)
  BY <1>1 DEF RequestKept, At
<1>3. \A c \in Codes : redeemed[c] # Unused => redeemed[c].by # r
  BY <1>1 DEF CodeKept
<1> QED
  BY <1>2, <1>3

LEMMA PayloadStays ==
    ASSUME NEW w \in Wires, NEW x, NEW y
    PROVE  /\ [w EXCEPT !.status = x].payload = w.payload
           /\ [w EXCEPT !.status = x, !.error = y].payload = w.payload
BY DEF Wires

(***************************************************************************)
(* A step that writes a status or an error document, to one response,      *)
(* leaves all the tokens on the wire alone (tokenendpoint/endpoint.go).    *)
(***************************************************************************)
LEMMA StatusWrite ==
    ASSUME TypeOK, NEW r \in Requests, Serve(r) \/ WriteHeader(r) \/ HandleError(r)
    PROVE  /\ wire'[r].payload = wire[r].payload
           /\ Granted(r)' <=> Granted(r)
           /\ \A s \in Requests \ {r} : wire'[s] = wire[s]
<1>1. wire \in [Requests -> Wires] /\ wire[r] \in Wires
  BY DEF TypeOK
<1>2. ASSUME NEW w, wire' = [wire EXCEPT ![r] = w]
      PROVE  wire'[r] = w /\ \A s \in Requests \ {r} : wire'[s] = wire[s]
  BY <1>1, <1>2
<1>3. CASE UNCHANGED wire
  BY <1>3 DEF Granted
<1>4. CASE \E x : wire' = [wire EXCEPT ![r] = [wire[r] EXCEPT !.status = x]]
  <2>1. PICK x : wire' = [wire EXCEPT ![r] = [wire[r] EXCEPT !.status = x]]
    BY <1>4
  <2>2. wire'[r].payload = wire[r].payload
    BY <1>1, <1>2, <2>1, PayloadStays
  <2> QED
    BY <1>2, <2>1, <2>2 DEF Granted
<1>5. CASE \E x, y : wire' = [wire EXCEPT ![r] = [wire[r] EXCEPT !.status = x, !.error = y]]
  <2>1. PICK x, y : wire' = [wire EXCEPT ![r] = [wire[r] EXCEPT !.status = x, !.error = y]]
    BY <1>5
  <2>2. wire'[r].payload = wire[r].payload
    BY <1>1, <1>2, <2>1, PayloadStays
  <2> QED
    BY <1>2, <2>1, <2>2 DEF Granted
<1>6. CASE Serve(r)
  <2>1. UNCHANGED wire \/ wire' = [wire EXCEPT ![r].status = 405]
    BY <1>6 DEF Serve
  <2> QED
    BY <1>3, <1>4, <2>1
<1>7. CASE WriteHeader(r)
  <2>1. UNCHANGED wire \/ wire' = [wire EXCEPT ![r].status = Committed(r, 200)]
    BY <1>7 DEF WriteHeader
  <2> QED
    BY <1>3, <1>4, <2>1
<1>8. CASE HandleError(r)
  <2>1. PICK y : wire' = [wire EXCEPT ![r].status = Committed(r, ErrorAnswer(err[r]).status),
                                      ![r].error = y]
    BY <1>8 DEF HandleError
  <2>2. wire' = [wire EXCEPT ![r] = [wire[r] EXCEPT
                    !.status = Committed(r, ErrorAnswer(err[r]).status), !.error = y]]
    BY <1>1, <2>1
  <2> QED
    BY <1>5, <2>2
<1> QED
  BY <1>6, <1>7, <1>8

LEMMA NobodyIsNoRequest == Unused.by \notin Requests
BY EndpointAssumption DEF Unused

(***************************************************************************)
(* Once the subject is known a step changes nothing a code depends on; it  *)
(* moves r on, into the error path or to the end.                          *)
(***************************************************************************)
LEMMA LateStepKeepsCustody ==
    ASSUME TypeOK, Custody, NEW r \in Requests,
           UNCHANGED <<request, client, principal, application>>,
           pc[r] \in SubjectKnown \cup {"fail"},
           pc'[r] \in SubjectKnown \cup {"fail", "done"},
           \A s \in Requests \ {r} : pc'[s] = pc[s] /\ wire'[s] = wire[s],
           Granted(r)' =>
               Granted(r) \/ (pc[r] \in SubjectKnown /\ pc'[r] \in {"fail", "done"}),
           pc[r] = "fail" => pc'[r] = "done"
    PROVE  Custody'
<1>1. RequestKept(r)
  BY DEF Custody
<1>2. pc[r] # "done" /\ (Granted(r) => pc[r] = "fail")
  BY <1>1 DEF RequestKept, SubjectKnown, TokenKinds
<1>3. ~At(r, "subject")' /\ (Granted(r)' => pc'[r] \in {"fail", "done"})
  BY <1>2 DEF At, SubjectKnown, TokenKinds
<1>4. pc'[r] \in Admitted => pc[r] \in Admitted
  BY DEF Admitted, SubjectKnown, TokenKinds
<1>5. pc'[r] \in SubjectKnown \/ Granted(r)' => pc[r] \in SubjectKnown \/ Granted(r)
  BY <1>2 DEF SubjectKnown, TokenKinds
<1>6. HoldsItsCode(r) => HoldsItsCode(r)'
  BY DEF HoldsItsCode, Code, application
<1> QED
  BY <1>1, <1>3, <1>4, <1>5, <1>6, StepKeepsCustody DEF RequestKept, application

(***************************************************************************)
(* Custody is inductive: one step per action.                              *)
(***************************************************************************)
THEOREM CustodyNext == TypeOK /\ Custody /\ [Next]_vars => Custody'
<1> SUFFICES ASSUME TypeOK, Custody, [Next]_vars PROVE Custody'
  OBVIOUS
<1>0. \A r \in Requests : RequestKept(r)
  BY DEF Custody
<1>1. ASSUME NEW r \in Requests, Serve(r) PROVE Custody'
  <2>1. ~Granted(r)
    BY <1>0, <1>1 DEF RequestKept, Serve, At
  <2>2. pc'[r] \in {"read", "done"} /\ ~Granted(r)'
    <3>1. pc'[r] \in {"read", "done"}
      BY <1>1 DEF Serve, Goto, TypeOK
    <3> QED
      BY <1>1, <2>1, <3>1, StatusWrite
  <2> QED
    BY <1>1, <2>1, <2>2, StepKeepsCustody
       DEF Serve, At, Goto, Granted, TypeOK, handler, application,
           Admitted, SubjectKnown, TokenKinds
<1>2. ASSUME NEW r \in Requests, Read(r) PROVE Custody'
  <2>1. pc[r] = "read" /\ pc'[r] \in {"validate", "fail"}
    BY <1>2 DEF Read, At, Goto, Raise, TypeOK
  <2>2. ~Granted(r) /\ \A c \in Codes : redeemed[c] # Unused => redeemed[c].by # r
    BY <2>1, NothingHeldYet DEF SubjectKnown, TokenKinds
  <2>3. /\ UNCHANGED <<client, principal, wire, vouched, redeemed>>
        /\ \A s \in Requests \ {r} : pc'[s] = pc[s] /\ request'[s] = request[s]
    BY <1>2 DEF Read, Goto, Raise, TypeOK, application
  <2>4. RequestKept(r)'
    BY <2>1, <2>2, <2>3 DEF RequestKept, At, Granted, Admitted, SubjectKnown, TokenKinds
  <2>5. ASSUME NEW s \in Requests \ {r} PROVE RequestKept(s)'
    BY <1>0, <2>3, <2>5 DEF RequestKept, At, Granted, GrantsCode, HoldsItsCode, Code
  <2>6. ASSUME NEW c \in Codes PROVE CodeKept(c)'
    <3>1. CodeKept(c) /\ (redeemed[c] # Unused => redeemed[c].by \in Requests \ {r})
      BY <2>2 DEF Custody, TypeOK
    <3> QED
      BY <2>3, <3>1 DEF CodeKept, Code
  <2> QED
    BY <2>4, <2>5, <2>6 DEF Custody
<1>3. ASSUME NEW r \in Requests, Validate(r) PROVE Custody'
  <2>1. /\ pc[r] = "validate" /\ pc'[r] \in {"client", "fail"}
        /\ pc'[r] = "client" => ValidateTokenRequest(request[r]) = NoError
    BY <1>3 DEF Validate, At, Goto, Raise, TypeOK
  <2>2. ~Granted(r) /\ ~Granted(r)'
    BY <1>0, <1>3, <2>1 DEF RequestKept, At, Granted, Validate
  <2> QED
    BY <1>3, <2>1, <2>2, StepKeepsCustody
       DEF Validate, At, Goto, Raise, TypeOK, application, Admitted, SubjectKnown, TokenKinds
<1>4. ASSUME NEW r \in Requests, ResolveClient(r) PROVE Custody'
  <2> DEFINE id == request[r].credentials.client_id
  <2>1. /\ pc[r] = "client" /\ pc'[r] \in {"subject", "fail"}
        /\ pc'[r] = "subject" => /\ client'[r].subject = id
                                 /\ <<r, id>> \in vouched'
    BY <1>4 DEF ResolveClient, Principal, At, Goto, Raise, TypeOK
  <2>2. /\ ~Granted(r) /\ ValidateTokenRequest(request[r]) = NoError
        /\ \A c \in Codes : redeemed[c] # Unused => redeemed[c].by # r
    BY <1>0, <2>1, NothingHeldYet DEF RequestKept, Admitted, SubjectKnown, TokenKinds
  <2>3. /\ UNCHANGED <<request, principal, wire, redeemed>> /\ vouched \subseteq vouched'
        /\ \A s \in Requests \ {r} : pc'[s] = pc[s] /\ client'[s] = client[s]
    BY <1>4 DEF ResolveClient, Goto, Raise, TypeOK
  <2>4. RequestKept(r)'
    BY <2>1, <2>2, <2>3 DEF RequestKept, At, Granted, SubjectKnown, TokenKinds
  <2>5. ASSUME NEW s \in Requests \ {r} PROVE RequestKept(s)'
    BY <1>0, <2>3, <2>5 DEF RequestKept, At, Granted, GrantsCode, HoldsItsCode, Code
  <2>6. ASSUME NEW c \in Codes PROVE CodeKept(c)'
    <3>1. CodeKept(c) /\ (redeemed[c] # Unused => redeemed[c].by \in Requests \ {r})
      BY <2>2 DEF Custody, TypeOK
    <3> QED
      BY <2>3, <3>1 DEF CodeKept, Code
  <2> QED
    BY <2>4, <2>5, <2>6 DEF Custody
<1>5. ASSUME NEW r \in Requests, RedeemCode(r) PROVE Custody'
  <2>1. /\ pc[r] = "subject" /\ pc'[r] \in {"prepare", "fail"}
        /\ \A s \in Requests \ {r} : pc'[s] = pc[s] /\ principal'[s] = principal[s]
        /\ UNCHANGED <<request, client, wire, vouched>>
    BY <1>5 DEF RedeemCode, Resolved, Unresolved, At, Goto, Raise, TypeOK
  <2>2. /\ ~Granted(r) /\ ~Granted(r)' /\ ValidateTokenRequest(request[r]) = NoError
        /\ <<r, client[r].subject>> \in vouched
        /\ client[r].subject = request[r].credentials.client_id
    BY <1>0, <2>1 DEF RequestKept, At, Granted, Admitted
  <2>3. CASE UNCHANGED redeemed
    <3>1. Code(r) \in Codes /\ Consume(r, Code(r)) => redeemed'[Code(r)].by = r
      BY DEF Consume, TypeOK
    <3>2. ~(Code(r) \in Codes /\ redeemed[Code(r)] = Unused /\ Consume(r, Code(r)))
      BY <2>3, <3>1, NobodyIsNoRequest
    <3>3. pc'[r] = "fail"
      BY <1>5, <3>2 DEF RedeemCode, Unresolved, Raise, Goto, TypeOK
    <3> QED
      BY <2>1, <2>2, <2>3, <3>3, StepKeepsCustody DEF At, Admitted, SubjectKnown, TokenKinds
  <2>4. CASE Code(r) \in Codes /\ redeemed[Code(r)] = Unused /\ Consume(r, Code(r))
    <3>1. /\ redeemed'[Code(r)] = [by |-> r, client |-> client[r].subject]
          /\ \A c \in Codes \ {Code(r)} : redeemed'[c] = redeemed[c]
      BY <2>4 DEF Consume, TypeOK
    <3>2. pc'[r] = "prepare" => HoldsItsCode(r)'
      <4>1. pc'[r] = "prepare" => /\ Holder[Code(r)] = client[r].subject
                                  /\ principal'[r] = Principal(Owner[Code(r)], TRUE)
        BY <1>5, <2>4 DEF RedeemCode, Resolved, Unresolved, Raise, Goto, TypeOK
      <4> QED
        BY <2>1, <2>4, <3>1, <4>1 DEF HoldsItsCode, Code, Principal
    <3>3. RequestKept(r)'
      BY <2>1, <2>2, <3>2 DEF RequestKept, At, SubjectKnown, TokenKinds
    <3>4. ASSUME NEW s \in Requests \ {r} PROVE RequestKept(s)'
      <4>1. Code(s) \in Codes /\ redeemed[Code(s)].by = s => Code(s) # Code(r)
        BY <2>4, NobodyIsNoRequest
      <4>2. HoldsItsCode(s) => HoldsItsCode(s)'
        BY <2>1, <3>1, <4>1 DEF HoldsItsCode, Code
      <4>3. GrantsCode(s)' = GrantsCode(s) /\ Granted(s)' = Granted(s)
        BY <2>1 DEF GrantsCode, Granted
      <4> QED
        BY <1>0, <2>1, <3>4, <4>2, <4>3 DEF RequestKept, At
    <3>5. ASSUME NEW c \in Codes PROVE CodeKept(c)'
      <4>1. CodeKept(c) /\ (redeemed[c] # Unused => redeemed[c].by \in Requests)
        BY DEF Custody, TypeOK
      <4>2. CASE c = Code(r)
        BY <2>1, <2>2, <3>1, <4>2 DEF CodeKept, SubjectKnown, Code
      <4>3. CASE c # Code(r)
        <5>1. redeemed'[c] = redeemed[c]
          BY <3>1, <4>3
        <5>2. redeemed[c] # Unused =>
                 pc'[redeemed[c].by] \in SubjectKnown \cup {"fail", "done"}
          BY <2>1, <4>1 DEF CodeKept, SubjectKnown
        <5> QED
          BY <2>1, <4>1, <5>1, <5>2 DEF CodeKept, Code
      <4> QED
        BY <4>2, <4>3
    <3> QED
      BY <3>3, <3>4, <3>5 DEF Custody
  <2> QED
    BY <1>5, <2>3, <2>4 DEF RedeemCode
<1>6. ASSUME NEW r \in Requests, ResolveSubject(r) PROVE Custody'
  <2>1. pc[r] = "subject" /\ pc'[r] \in {"prepare", "fail"} /\ ~GrantsCode(r)
    BY <1>6 DEF ResolveSubject, Resolved, Unresolved, At, Goto, Raise, TypeOK
  <2>2. /\ ~Granted(r) /\ ~Granted(r)' /\ ValidateTokenRequest(request[r]) = NoError
    BY <1>0, <1>6, <2>1 DEF RequestKept, At, Granted, Admitted, ResolveSubject
  <2> QED
    BY <1>6, <2>1, <2>2, StepKeepsCustody
       DEF ResolveSubject, Resolved, Unresolved, At, Goto, Raise, TypeOK, application,
           SubjectKnown, TokenKinds
<1>7. ASSUME NEW r \in Requests, ResolveDefault(r) PROVE Custody'
  <2>1. pc[r] = "subject" /\ pc'[r] = "prepare"
    BY <1>7 DEF ResolveDefault, Resolved, At, Goto, TypeOK
  <2>2. /\ ~Granted(r) /\ ~Granted(r)' /\ ValidateTokenRequest(request[r]) = NoError
    BY <1>0, <1>7, <2>1 DEF RequestKept, At, Granted, Admitted, ResolveDefault
  <2>3. ~GrantsCode(r)
    BY <1>7, <2>2, ValidIsAllowed, ResolverAssumption DEF GrantsCode, ResolveDefault
  <2> QED
    BY <1>7, <2>1, <2>2, <2>3, StepKeepsCustody
       DEF ResolveDefault, Resolved, At, Goto, TypeOK, application, SubjectKnown, TokenKinds
<1>8. ASSUME NEW r \in Requests, Prepare(r) PROVE Custody'
  <2>1. pc[r] = "prepare" /\ pc'[r] \in {"access_token", "fail"}
    BY <1>8 DEF Prepare, Raise, At, Goto, TypeOK
  <2>2. (Granted(r)' <=> Granted(r))
    BY <1>8 DEF Prepare, Granted
  <2>3. /\ UNCHANGED <<request, client, principal, wire, application>>
        /\ \A s \in Requests \ {r} : pc'[s] = pc[s]
    BY <1>8 DEF Prepare, Raise, Goto, TypeOK
  <2>4. /\ pc[r] \in SubjectKnown \cup {"fail"} /\ pc'[r] \in SubjectKnown \cup {"fail", "done"}
        /\ pc[r] = "fail" => pc'[r] = "done"
    BY <2>1 DEF SubjectKnown, TokenKinds
  <2>5. \A s \in Requests \ {r} : pc'[s] = pc[s] /\ wire'[s] = wire[s]
    BY <2>3
  <2>6. Granted(r)' => Granted(r) \/ (pc[r] \in SubjectKnown /\ pc'[r] = "done")
    BY <2>2
  <2> QED
    BY <2>3, <2>4, <2>5, <2>6, LateStepKeepsCustody
<1>9. ASSUME NEW r \in Requests, NEW k \in TokenKinds, IssueToken(r, k) PROVE Custody'
  <2>1. pc[r] = k /\ pc'[r] \in {After(k), "fail"}
    BY <1>9 DEF IssueToken, Raise, At, Goto, TypeOK
  <2>2. After(k) \in SubjectKnown
    BY DEF After, SubjectKnown, TokenKinds
  <2>3. (Granted(r)' <=> Granted(r)) /\ k # "fail" /\ k \in SubjectKnown
    BY <1>9 DEF IssueToken, Granted, SubjectKnown, TokenKinds
  <2>4. /\ UNCHANGED <<request, client, principal, wire, application>>
        /\ \A s \in Requests \ {r} : pc'[s] = pc[s]
    BY <1>9 DEF IssueToken, Raise, Goto, TypeOK
  <2> QED
    BY <2>1, <2>2, <2>3, <2>4, LateStepKeepsCustody
<1>10. ASSUME NEW r \in Requests, WriteHeader(r) PROVE Custody'
  <2>1. pc[r] = "write" /\ pc'[r] \in {"body", "fail"}
    BY <1>10 DEF WriteHeader, Raise, At, Goto, TypeOK
  <2>4. Granted(r)' => Granted(r) \/ (pc[r] \in SubjectKnown /\ pc'[r] \in {"fail", "done"})
    BY <1>10, StatusWrite
  <2>5. /\ UNCHANGED <<request, client, principal, application>>
        /\ \A s \in Requests \ {r} : pc'[s] = pc[s] /\ wire'[s] = wire[s]
    BY <1>10, StatusWrite DEF WriteHeader, Raise, Goto, TypeOK
  <2>6. /\ pc[r] \in SubjectKnown \cup {"fail"} /\ pc'[r] \in SubjectKnown \cup {"fail", "done"}
        /\ pc[r] = "fail" => pc'[r] = "done"
    BY <2>1 DEF SubjectKnown
  <2> QED
    BY <2>4, <2>5, <2>6, LateStepKeepsCustody
<1>11. ASSUME NEW r \in Requests, WriteBody(r) PROVE Custody'
  <2>1. pc[r] = "body" /\ pc'[r] \in {"done", "fail"}
    BY <1>11 DEF WriteBody, Raise, At, Goto, TypeOK
  <2>3. /\ UNCHANGED <<request, client, principal, application>>
        /\ \A s \in Requests \ {r} : pc'[s] = pc[s] /\ wire'[s] = wire[s]
    BY <1>11 DEF WriteBody, Raise, Goto, TypeOK
  <2>4. /\ pc[r] \in SubjectKnown \cup {"fail"} /\ pc'[r] \in SubjectKnown \cup {"fail", "done"}
        /\ pc[r] = "fail" => pc'[r] = "done"
    BY <2>1 DEF SubjectKnown
  <2>5. Granted(r)' =>
           Granted(r) \/ (pc[r] \in SubjectKnown /\ pc'[r] \in {"fail", "done"})
    BY <2>1 DEF SubjectKnown
  <2> QED
    BY <2>3, <2>4, <2>5, LateStepKeepsCustody
<1>12. ASSUME NEW r \in Requests, HandleError(r) PROVE Custody'
  <2>1. pc[r] = "fail" /\ pc'[r] = "done"
    BY <1>12 DEF HandleError, At, Goto, TypeOK
  <2>4. Granted(r)' => Granted(r) \/ (pc[r] \in SubjectKnown /\ pc'[r] \in {"fail", "done"})
    BY <1>12, StatusWrite
  <2>5. \A s \in Requests \ {r} : wire'[s] = wire[s] /\ pc'[s] = pc[s]
    BY <1>12, StatusWrite DEF HandleError, Goto, TypeOK
  <2>6. UNCHANGED <<request, client, principal, application>>
    BY <1>12 DEF HandleError, handler
  <2> QED
    BY <2>1, <2>4, <2>5, <2>6, LateStepKeepsCustody
<1>13. CASE UNCHANGED vars
  BY <1>13 DEF vars, handler, application, Custody, RequestKept, CodeKept, HoldsItsCode,
               At, Granted, GrantsCode, Code
<1> QED
  BY <1>1, <1>2, <1>3, <1>4, <1>5, <1>6, <1>7, <1>8, <1>9, <1>10, <1>11, <1>12, <1>13
     DEF Next, Handle, Finished

(***************************************************************************)
(* Custody holds in every state.                                           *)
(***************************************************************************)
THEOREM CustodyHolds == Spec => []Custody
BY TypeInit, TypeNext, CustodyInit, CustodyNext, PTL DEF Spec

(***************************************************************************)
(* Two requests never both get tokens for one code, whatever the number of *)
(* requests and codes and however their handlers interleave.               *)
(***************************************************************************)
THEOREM CodesAreSingleUse == Spec => []SingleUse
<1>1. Custody => SingleUse
  BY DEF Custody, RequestKept, HoldsItsCode, SingleUse
<1> QED
  BY <1>1, CustodyHolds, PTL

(***************************************************************************)
(* A bad request or a client that is not authenticated never burns a code. *)
(***************************************************************************)
THEOREM CodesAreSpentByTheirClients == Spec => []SpentByAuthenticatedClient
<1>1. Custody => SpentByAuthenticatedClient
  BY DEF Custody, CodeKept, SpentByAuthenticatedClient
<1> QED
  BY <1>1, CustodyHolds, PTL

-----------------------------------------------------------------------------
(***************************************************************************)
(* Delivery.                                                               *)
(***************************************************************************)

(***************************************************************************)
(* What a write to the ResponseWriter does to the answer.                  *)
(***************************************************************************)
LEMMA WireUpdates ==
    ASSUME NEW w \in Wires, NEW x, NEW y
    PROVE  /\ [w EXCEPT !.status = x].status = x
           /\ [w EXCEPT !.status = x].payload = w.payload
           /\ [w EXCEPT !.status = x].error = w.error
           /\ [w EXCEPT !.payload = x].status = w.status
           /\ [w EXCEPT !.payload = x].payload = x
           /\ [w EXCEPT !.payload = x].error = w.error
           /\ [w EXCEPT !.status = x, !.error = y].status = x
           /\ [w EXCEPT !.status = x, !.error = y].payload = w.payload
           /\ [w EXCEPT !.status = x, !.error = y].error = y
BY DEF Wires

LEMMA StatusesDiffer == \A s \in {0, 400, 401, 405, 500, 503} : s # 200
OBVIOUS

LEMMA NothingIsNot200 == \A x : x = 0 => x # 200 /\ x \in {0, 200}
<1>1. 0 # 200 /\ 0 \in {0, 200}
  OBVIOUS
<1> QED
  BY <1>1, Zenon

(***************************************************************************)
(* A handler touches its own answer only.                                  *)
(***************************************************************************)
LEMMA DeliveredIsLocal ==
    ASSUME NEW r \in Requests, Delivered(r),
           pc'[r] = pc[r], tokens'[r] = tokens[r], wire'[r] = wire[r], err'[r] = err[r]
    PROVE  Delivered(r)'
<1>1. Issued(r)' = Issued(r) /\ (Granted(r)' <=> Granted(r))
  BY DEF Issued, Granted
<1>2. \A step : At(r, step)' <=> At(r, step)
  BY DEF At
<1>3. /\ SentAsIssued(r)' <=> SentAsIssued(r)
      /\ RefusedWithNothing(r)' <=> RefusedWithNothing(r)
      /\ FailedInSending(r)' <=> FailedInSending(r)
  BY <1>1 DEF SentAsIssued, RefusedWithNothing, FailedInSending
<1>4. pc'[r] \notin {"fail", "done"} =>
          /\ Issued(r)' = IssuedBefore(pc'[r]) \cap IssuedTokens
          /\ wire'[r].status = IF At(r, "body")' THEN 200 ELSE 0
          /\ err'[r] = NoError
  BY <1>1, <1>2 DEF Delivered
<1>5. /\ pc'[r] \notin {"fail", "done"} => ~Granted(r)'
      /\ ~At(r, "done")' => wire'[r].error = ""
      /\ wire'[r].status = 200 => Issued(r)' = IssuedTokens
  BY <1>1, <1>2 DEF Delivered
<1>6. At(r, "fail")' => \/ wire'[r].status = 0
                        \/ wire'[r].status = 200 /\ err'[r] = WriteFault
  BY <1>2 DEF Delivered
<1>7. /\ At(r, "done")' /\ err'[r] # NoError =>
            RefusedWithNothing(r)' \/ FailedInSending(r)'
      /\ Granted(r)' => wire'[r].status = 200 /\ SentAsIssued(r)'
  BY <1>1, <1>2, <1>3 DEF Delivered
<1> QED
  BY <1>4, <1>5, <1>6, <1>7, Zenon DEF Delivered

LEMMA OthersKeepDelivery ==
    ASSUME Delivery, NEW r \in Requests, Delivered(r)',
           \A s \in Requests \ {r} : /\ pc'[s] = pc[s] /\ tokens'[s] = tokens[s]
                                     /\ wire'[s] = wire[s] /\ err'[s] = err[s]
    PROVE  Delivery'
<1>1. ASSUME NEW s \in Requests \ {r} PROVE Delivered(s)'
  BY DeliveredIsLocal DEF Delivery
<1> QED
  BY <1>1 DEF Delivery

(***************************************************************************)
(* Before the first token: nothing is issued, nothing is written.          *)
(***************************************************************************)
Early == {"serve", "read", "validate", "client", "subject", "prepare"}

LEMMA NothingIssuedEarly ==
    ASSUME Delivery, NEW r \in Requests, pc[r] \in Early
    PROVE  /\ Issued(r) = {} /\ wire[r].status = 0 /\ wire[r].error = ""
           /\ err[r] = NoError /\ ~Granted(r)
<1>1. Delivered(r)
  BY DEF Delivery
<1>2. pc[r] \notin {"fail", "done"} /\ ~At(r, "body") /\ ~At(r, "done")
      /\ IssuedBefore(pc[r]) = {}
  BY DEF Early, At, IssuedBefore
<1> QED
  BY <1>1, <1>2 DEF Delivered

LEMMA EarlyStepKeepsDelivery ==
    ASSUME Delivery, NEW r \in Requests, pc[r] \in Early,
           pc'[r] \in (Early \cup {"access_token"}) => err'[r] = NoError,
           pc'[r] \in Early \cup {"access_token", "fail"},
           UNCHANGED <<tokens, wire>>,
           \A s \in Requests \ {r} : pc'[s] = pc[s] /\ err'[s] = err[s]
    PROVE  Delivery'
<1>1. /\ Issued(r) = {} /\ wire[r].status = 0 /\ wire[r].error = "" /\ ~Granted(r)
  BY NothingIssuedEarly
<1>2. Issued(r)' = {} /\ wire'[r].status = 0 /\ wire'[r].error = "" /\ ~Granted(r)'
  BY <1>1 DEF Issued, Granted
<1>3. pc'[r] # "done" /\ pc'[r] # "body"
      /\ (pc'[r] # "fail" => IssuedBefore(pc'[r]) = {} /\ err'[r] = NoError)
  BY DEF Early, IssuedBefore
<1>4. pc'[r] # "fail" => Issued(r)' = IssuedBefore(pc'[r]) \cap IssuedTokens
  BY <1>2, <1>3
<1>5. wire'[r].status # 200 /\ wire'[r].status \in {0, 200}
  BY <1>2, NothingIsNot200, Zenon
<1>6. Delivered(r)'
  BY <1>2, <1>3, <1>4, <1>5, Zenon DEF Delivered, At
<1> QED
  BY <1>6, OthersKeepDelivery

LEMMA DeliveryInit == Init => Delivery
<1> SUFFICES ASSUME Init, NEW r \in Requests PROVE Delivered(r)
  BY DEF Delivery
<1>1. /\ pc[r] = "serve" /\ tokens[r] = NoTokens /\ err[r] = NoError
      /\ wire[r].status = 0 /\ wire[r].error = "" /\ wire[r].payload = NoTokens
  BY DEF Init
<1>2. Issued(r) = {} /\ ~Granted(r)
  BY <1>1 DEF Issued, NoTokens, Granted
<1>3. Issued(r) = IssuedBefore(pc[r]) \cap IssuedTokens
  BY <1>1, <1>2 DEF IssuedBefore
<1>4. wire[r].status # 200 /\ wire[r].status \in {0, 200} /\ pc[r] # "body"
  BY <1>1, NothingIsNot200
<1> QED
  BY <1>1, <1>2, <1>3, <1>4, Zenon DEF Delivered, At

(***************************************************************************)
(* A block of ServeHTTP that issues a token adds that token or fails.      *)
(***************************************************************************)
LEMMA IssueKeepsDelivery ==
    ASSUME TypeOK, Delivery, NEW r \in Requests, NEW k \in TokenKinds, IssueToken(r, k)
    PROVE  Delivery'
<1>1. Delivered(r)
  BY DEF Delivery
<1>2. pc[r] = k /\ k \notin {"fail", "done", "body", "write"}
  BY DEF IssueToken, At, TokenKinds
<1>3. /\ Issued(r) = IssuedBefore(k) \cap IssuedTokens /\ wire[r].status = 0
      /\ err[r] = NoError /\ wire[r].error = "" /\ ~Granted(r)
  BY <1>1, <1>2 DEF Delivered, At
<1>4. /\ UNCHANGED wire
      /\ \A s \in Requests \ {r} : pc'[s] = pc[s] /\ err'[s] = err[s] /\ tokens'[s] = tokens[s]
  BY DEF IssueToken, Goto, Raise, TypeOK
<1>5. After(k) \notin {"fail", "done", "body"} /\ IssuedBefore(After(k)) = IssuedBefore(k) \cup {k}
  BY DEF After, IssuedBefore, TokenKinds
<1>6. wire'[r].status = 0 /\ wire'[r].error = "" /\ ~Granted(r)'
  BY <1>3, <1>4 DEF Granted
<1>7. wire'[r].status # 200 /\ wire'[r].status \in {0, 200}
  BY <1>6, NothingIsNot200, Zenon
<1>8. Delivered(r)'
  <2>1. CASE pc'[r] = "fail"
    BY <1>6, <2>1, <1>7, Zenon DEF Delivered, At
  <2>2. CASE k \notin IssuedTokens
    <3>1. pc'[r] = After(k) /\ UNCHANGED <<tokens, err>>
      BY <2>2 DEF IssueToken, Goto, TypeOK
    <3>2. Issued(r)' = IssuedBefore(After(k)) \cap IssuedTokens
      BY <1>3, <1>5, <2>2, <3>1 DEF Issued
    <3> QED
      BY <1>3, <1>5, <1>6, <1>7, <3>1, <3>2, Zenon DEF Delivered, At
  <2>3. CASE k \in IssuedTokens /\ pc'[r] # "fail"
    <3>1. PICK fault \in SignFaults :
             LET issued == Issue(IssueOptions(r, k), HasSigner, fault) IN
             /\ tokens' = [tokens EXCEPT ![r][k] = issued.value]
             /\ IF issued.err = NoError
                THEN Goto(r, After(k)) /\ UNCHANGED err
                ELSE Raise(r, issued.err)
      BY <2>3 DEF IssueToken
    <3> DEFINE issued == Issue(IssueOptions(r, k), HasSigner, fault)
    <3>2. issued.err = NoError => issued.value \in Tokens
      BY IssueOptionsType, SignFaultsType, IssueType, EndpointAssumption
    <3> HIDE DEF issued
    <3>3. issued.err = NoError
      BY <2>3, <3>1 DEF Raise, Goto, TypeOK, issued
    <3>4. pc'[r] = After(k) /\ err' = err /\ tokens' = [tokens EXCEPT ![r][k] = issued.value]
      BY <3>1, <3>3 DEF Goto, TypeOK, issued
    <3>5. tokens'[r] = [tokens[r] EXCEPT ![k] = issued.value]
          /\ tokens[r] \in [TokenKinds -> Tokens \cup {NoToken}]
      BY <3>4 DEF TypeOK
    <3>6. issued.value # NoToken
      BY <3>2, <3>3, NoTokenIsNoToken
    <3>7. Issued(r)' = Issued(r) \cup {k}
      BY <3>5, <3>6 DEF Issued
    <3>8. Issued(r)' = IssuedBefore(After(k)) \cap IssuedTokens
      BY <1>3, <1>5, <2>3, <3>7
    <3> QED
      BY <1>3, <1>5, <1>6, <1>7, <3>4, <3>8, Zenon DEF Delivered, At
  <2> QED
    BY <2>1, <2>2, <2>3
<1> QED
  BY <1>4, <1>8, OthersKeepDelivery

(***************************************************************************)
(* The steps that write: the status, the tokens, the error document.       *)
(***************************************************************************)
LEMMA WriteHeaderKeepsDelivery ==
    ASSUME TypeOK, Delivery, NEW r \in Requests, WriteHeader(r)
    PROVE  Delivery'
<1>1. Delivered(r) /\ pc[r] = "write"
  BY DEF Delivery, WriteHeader, At
<1>2. /\ Issued(r) = IssuedTokens /\ wire[r].status = 0
      /\ err[r] = NoError /\ wire[r].error = "" /\ ~Granted(r)
  <2>1. IssuedBefore("write") = TokenKinds /\ IssuedTokens \subseteq TokenKinds
    BY EndpointAssumption DEF IssuedBefore
  <2>2. TokenKinds \cap IssuedTokens = IssuedTokens
    BY <2>1
  <2> QED
    BY <1>1, <2>1, <2>2 DEF Delivered, At
<1>3. /\ UNCHANGED tokens
      /\ \A s \in Requests \ {r} : pc'[s] = pc[s] /\ err'[s] = err[s] /\ wire'[s] = wire[s]
  BY DEF WriteHeader, Goto, Raise, TypeOK
<1>4. Issued(r)' = IssuedTokens
  BY <1>2, <1>3 DEF Issued
<1>5. CASE Raise(r, {"Malformed"}) /\ UNCHANGED wire
  <2>1. pc'[r] = "fail"
    BY <1>5 DEF Raise, Goto, TypeOK
  <2>2. wire'[r].error = "" /\ ~Granted(r)' /\ wire'[r].status = 0
    BY <1>2, <1>5 DEF Granted
  <2>3. wire'[r].status # 200 /\ wire'[r].status \in {0, 200}
    BY <2>2, NothingIsNot200, Zenon
  <2>4. Delivered(r)'
    BY <2>1, <2>2, <2>3, Zenon DEF Delivered, At
  <2> QED
    BY <1>3, <2>4, OthersKeepDelivery
<1>6. CASE Goto(r, "body") /\ wire' = [wire EXCEPT ![r].status = Committed(r, 200)] /\ UNCHANGED err
  <2>1. wire[r] \in Wires /\ wire'[r] = [wire[r] EXCEPT !.status = Committed(r, 200)]
    BY <1>6 DEF TypeOK
  <2>2. Committed(r, 200) = 200
    BY <1>2 DEF Committed
  <2>3. /\ wire'[r].status = Committed(r, 200) /\ wire'[r].error = wire[r].error
        /\ wire'[r].payload = wire[r].payload
    BY <2>1, WireUpdates
  <2>7. wire'[r].status = 200 /\ wire'[r].error = ""
    BY <1>2, <2>2, <2>3
  <2>4. pc'[r] = "body" /\ err'[r] = NoError /\ ~Granted(r)'
    BY <1>2, <1>6, <2>3 DEF Goto, Granted, TypeOK
  <2>5. Issued(r)' = IssuedBefore(pc'[r]) \cap IssuedTokens
    BY <1>4, <2>4, EndpointAssumption DEF IssuedBefore
  <2>6. Delivered(r)'
    BY <1>4, <2>7, <2>4, <2>5, Zenon DEF Delivered, At
  <2> QED
    BY <1>3, <2>6, OthersKeepDelivery
<1> QED
  BY <1>5, <1>6 DEF WriteHeader

LEMMA WriteBodyKeepsDelivery ==
    ASSUME TypeOK, Delivery, NEW r \in Requests, WriteBody(r)
    PROVE  Delivery'
<1>1. Delivered(r) /\ pc[r] = "body"
  BY DEF Delivery, WriteBody, At
<1>2. /\ wire[r].status = 200 /\ err[r] = NoError /\ wire[r].error = "" /\ ~Granted(r)
  BY <1>1 DEF Delivered, At
<1>3. /\ UNCHANGED tokens
      /\ \A s \in Requests \ {r} : pc'[s] = pc[s] /\ err'[s] = err[s] /\ wire'[s] = wire[s]
  BY DEF WriteBody, Goto, Raise, TypeOK
<1>4. Issued(r)' = IssuedTokens
  BY <1>1, <1>2, <1>3 DEF Issued, Delivered
<1>5. wire[r] \in Wires /\ tokens'[r] = tokens[r]
      /\ tokens[r] \in [TokenKinds -> Tokens \cup {NoToken}]
  BY <1>3 DEF TypeOK
<1>6. ASSUME NEW payload, wire' = [wire EXCEPT ![r].payload = payload]
      PROVE  wire'[r].status = 200 /\ wire'[r].error = "" /\ wire'[r].payload = payload
  <2>1. wire'[r] = [wire[r] EXCEPT !.payload = payload]
    BY <1>6 DEF TypeOK
  <2>2. /\ wire'[r].status = wire[r].status /\ wire'[r].error = wire[r].error
        /\ wire'[r].payload = payload
    BY <1>5, <2>1, WireUpdates
  <2> QED
    BY <1>2, <2>2
<1>7. CASE Raise(r, WriteFault)
           /\ \E fields \in SentFields :
                 wire' = [wire EXCEPT ![r].payload = Sent(tokens[r], fields)]
  <2>1. PICK fields \in SentFields :
           wire' = [wire EXCEPT ![r].payload = Sent(tokens[r], fields)]
    BY <1>7
  <2>2. pc'[r] = "fail" /\ err'[r] = WriteFault
    BY <1>7 DEF Raise, Goto, TypeOK
  <2>3. /\ wire'[r].status = 200 /\ wire'[r].error = ""
        /\ wire'[r].payload = Sent(tokens[r], fields)
    BY <1>6, <2>1
  <2>4. SentAsIssued(r)'
    <3>1. err'[r] # NoError
      BY <2>2 DEF NoError, WriteFault
    <3>2. ASSUME NEW k \in TokenKinds
          PROVE  wire'[r].payload[k] = tokens'[r][k] \/ wire'[r].payload[k] = NoToken
      <4>1. Sent(tokens[r], fields)[k] = IF k \in fields THEN tokens[r][k] ELSE NoToken
        BY DEF Sent
      <4> QED
        BY <1>5, <2>3, <4>1
    <3> QED
      BY <3>1, <3>2 DEF SentAsIssued
  <2>5. Delivered(r)'
    BY <1>4, <2>2, <2>3, <2>4, Zenon DEF Delivered, At
  <2> QED
    BY <1>3, <2>5, OthersKeepDelivery
<1>8. CASE Goto(r, "done") /\ wire' = [wire EXCEPT ![r].payload = tokens[r]] /\ UNCHANGED err
  <2>1. err'[r] = NoError /\ pc'[r] = "done"
    <3>1. err[r] = NoError
      BY <1>2
    <3>2. err' = err /\ pc' = [pc EXCEPT ![r] = "done"]
      BY <1>8 DEF Goto
    <3> QED
      BY <3>1, <3>2 DEF TypeOK
  <2>2. wire'[r].status = 200 /\ wire'[r].payload = tokens'[r]
    BY <1>5, <1>6, <1>8
  <2>3. SentAsIssued(r)'
    BY <2>2 DEF SentAsIssued
  <2>4. Delivered(r)'
    BY <1>4, <2>1, <2>2, <2>3, Zenon DEF Delivered, At
  <2> QED
    BY <1>3, <2>4, OthersKeepDelivery
<1> QED
  BY <1>7, <1>8 DEF WriteBody

LEMMA SendingIsInvalidRequest ==
    ErrorAnswer(WriteFault).body = "invalid_request"
BY DEF ErrorAnswer, WriteFault

(***************************************************************************)
(* handleError: under a status that is not out yet nothing was sent; under *)
(* the 200 of writeArtifact everything had been issued, and its error is   *)
(* that of the write.                                                      *)
(***************************************************************************)
LEMMA HandleErrorKeepsDelivery ==
    ASSUME TypeOK, Delivery, NEW r \in Requests, HandleError(r)
    PROVE  Delivery'
<1>1. Delivered(r) /\ pc[r] = "fail"
  BY DEF Delivery, HandleError, At
<1>2. /\ \/ wire[r].status = 0
         \/ wire[r].status = 200 /\ err[r] = WriteFault
      /\ wire[r].status = 200 => Issued(r) = IssuedTokens
      /\ Granted(r) => wire[r].status = 200 /\ SentAsIssued(r)
  BY <1>1 DEF Delivered, At
<1> DEFINE answer == ErrorAnswer(err[r])
<1>3. answer.status # 200
  BY AnswerType, StatusesDiffer
<1>4. PICK body \in {"", "cut off", answer.body} :
         wire' = [wire EXCEPT ![r] = [wire[r] EXCEPT
                     !.status = Committed(r, answer.status), !.error = body]]
  BY DEF HandleError, TypeOK
<1>5. wire[r].status = 200 => body \in {"", "cut off", "invalid_request"}
  <2>1. ASSUME wire[r].status = 200 PROVE answer.body = "invalid_request"
    <3>1. err[r] = WriteFault
      BY <1>2, <2>1, NothingIsNot200, Zenon
    <3> QED
      BY <3>1, SendingIsInvalidRequest
  <2> QED
    BY <2>1
<1> HIDE DEF answer
<1>6. /\ wire'[r].status = Committed(r, answer.status)
      /\ wire'[r].payload = wire[r].payload /\ wire'[r].error = body
  <2>1. wire[r] \in Wires
        /\ wire'[r] = [wire[r] EXCEPT !.status = Committed(r, answer.status), !.error = body]
    BY <1>4 DEF TypeOK
  <2> DEFINE status == Committed(r, answer.status)
  <2> HIDE DEF answer, status
  <2>2. wire'[r] = [wire[r] EXCEPT !.status = status, !.error = body]
    BY <2>1 DEF status
  <2>3. wire'[r].status = status /\ wire'[r].payload = wire[r].payload /\ wire'[r].error = body
    BY <2>1, <2>2 DEF Wires
  <2> QED
    BY <2>3 DEF status
<1>7. /\ UNCHANGED <<tokens, err>> /\ (Granted(r)' <=> Granted(r)) /\ Issued(r)' = Issued(r)
      /\ SentAsIssued(r)' <=> SentAsIssued(r)
  BY <1>6 DEF HandleError, handler, Granted, Issued, SentAsIssued
<1>8. pc'[r] = "done"
      /\ \A s \in Requests \ {r} : pc'[s] = pc[s] /\ err'[s] = err[s] /\ wire'[s] = wire[s]
  BY <1>4 DEF HandleError, handler, Goto, TypeOK
<1>9. CASE wire[r].status = 0
  <2>1. ~Granted(r)' /\ wire'[r].status = answer.status
    BY <1>2, <1>6, <1>7, <1>9, NothingIsNot200, Zenon DEF Committed
  <2>2. RefusedWithNothing(r)' /\ wire'[r].status # 200
    BY <1>3, <1>7, <2>1 DEF RefusedWithNothing, answer
  <2>3. Delivered(r)'
    BY <1>8, <2>1, <2>2, Zenon DEF Delivered, At
  <2> QED
    BY <1>7, <1>8, <2>3, OthersKeepDelivery
<1>10. CASE wire[r].status = 200
  <2>1. wire'[r].status = 200
    BY <1>6, <1>10, NothingIsNot200, Zenon DEF Committed
  <2>2. FailedInSending(r)'
    BY <1>2, <1>5, <1>6, <1>7, <1>10, <2>1 DEF FailedInSending
  <2>3. Delivered(r)'
    BY <1>2, <1>7, <1>8, <1>10, <2>1, <2>2, Zenon DEF Delivered, At
  <2> QED
    BY <1>7, <1>8, <2>3, OthersKeepDelivery
<1> QED
  BY <1>2, <1>9, <1>10

(***************************************************************************)
(* Delivery is inductive: one step per action.                             *)
(***************************************************************************)
THEOREM DeliveryNext == TypeOK /\ Delivery /\ [Next]_vars => Delivery'
<1> SUFFICES ASSUME TypeOK, Delivery, [Next]_vars PROVE Delivery'
  OBVIOUS
<1>1. ASSUME NEW r \in Requests, Serve(r) PROVE Delivery'
  <2>1. pc[r] \in Early
    BY <1>1 DEF Serve, At, Early
  <2>2. CASE carrier[r].method = "POST"
    BY <1>1, <2>1, <2>2, NothingIssuedEarly, EarlyStepKeepsDelivery
       DEF Serve, Goto, TypeOK, handler, Early
  <2>3. CASE carrier[r].method # "POST"
    <3>1. /\ pc' = [pc EXCEPT ![r] = "done"] /\ UNCHANGED <<tokens, err>>
          /\ \E status \in {400, 401, 405, 500, 503} :
                wire' = [wire EXCEPT ![r] = [wire[r] EXCEPT !.status = status]]
      BY <1>1, <2>3 DEF Serve, Goto, handler, TypeOK
    <3>2. PICK status \in {400, 401, 405, 500, 503} :
             wire' = [wire EXCEPT ![r] = [wire[r] EXCEPT !.status = status]]
      BY <3>1
    <3>7. status # 200
      BY StatusesDiffer
    <3>8. wire[r] \in Wires /\ wire'[r] = [wire[r] EXCEPT !.status = status]
      BY <3>2 DEF TypeOK
    <3>9. wire'[r].status = status /\ wire'[r].payload = wire[r].payload
      BY <3>8, WireUpdates
    <3>3. wire'[r].status # 200
      BY <3>7, <3>9, Zenon
    <3>4. ~Granted(r)' /\ pc'[r] = "done" /\ err'[r] = NoError
      <4>1. ~Granted(r)
        BY <2>1, NothingIssuedEarly
      <4>2. pc'[r] = "done"
        BY <3>1 DEF TypeOK
      <4>3. err'[r] = NoError
        BY <2>1, <3>1, NothingIssuedEarly
      <4> QED
        BY <3>9, <4>1, <4>2, <4>3 DEF Granted
    <3>5. Delivered(r)'
      BY <3>3, <3>4, Zenon DEF Delivered, At
    <3>6. \A s \in Requests \ {r} : /\ pc'[s] = pc[s] /\ tokens'[s] = tokens[s]
                                     /\ wire'[s] = wire[s] /\ err'[s] = err[s]
      BY <3>1, <3>2 DEF TypeOK
    <3> QED
      BY <3>5, <3>6, OthersKeepDelivery
  <2> QED
    BY <2>2, <2>3
<1>2. ASSUME NEW r \in Requests, Read(r) PROVE Delivery'
  BY <1>2, NothingIssuedEarly, EarlyStepKeepsDelivery
     DEF Read, At, Goto, Raise, TypeOK, Early
<1>3. ASSUME NEW r \in Requests, Validate(r) PROVE Delivery'
  BY <1>3, NothingIssuedEarly, EarlyStepKeepsDelivery
     DEF Validate, At, Goto, Raise, TypeOK, Early
<1>4. ASSUME NEW r \in Requests, ResolveClient(r) PROVE Delivery'
  BY <1>4, NothingIssuedEarly, EarlyStepKeepsDelivery
     DEF ResolveClient, At, Goto, Raise, TypeOK, Early
<1>5. ASSUME NEW r \in Requests, RedeemCode(r) PROVE Delivery'
  BY <1>5, NothingIssuedEarly, EarlyStepKeepsDelivery
     DEF RedeemCode, Resolved, Unresolved, At, Goto, Raise, TypeOK, Early
<1>6. ASSUME NEW r \in Requests, ResolveSubject(r) PROVE Delivery'
  BY <1>6, NothingIssuedEarly, EarlyStepKeepsDelivery
     DEF ResolveSubject, Resolved, Unresolved, At, Goto, Raise, TypeOK, Early
<1>7. ASSUME NEW r \in Requests, ResolveDefault(r) PROVE Delivery'
  BY <1>7, NothingIssuedEarly, EarlyStepKeepsDelivery
     DEF ResolveDefault, Resolved, At, Goto, TypeOK, Early
<1>8. ASSUME NEW r \in Requests, Prepare(r) PROVE Delivery'
  BY <1>8, NothingIssuedEarly, EarlyStepKeepsDelivery
     DEF Prepare, At, Goto, Raise, TypeOK, Early
<1>9. CASE UNCHANGED vars
  <2>1. UNCHANGED <<pc, tokens, wire, err>>
    BY <1>9 DEF vars, handler
  <2>2. ASSUME NEW r \in Requests PROVE Delivered(r)'
    BY <2>1, DeliveredIsLocal DEF Delivery
  <2> QED
    BY <2>2 DEF Delivery
<1> QED
  BY <1>1, <1>2, <1>3, <1>4, <1>5, <1>6, <1>7, <1>8, <1>9, IssueKeepsDelivery,
     WriteHeaderKeepsDelivery, WriteBodyKeepsDelivery, HandleErrorKeepsDelivery
     DEF Next, Handle, Finished

(* The tokens, the status and what is on the wire are known from where a handler
   is (tokenendpoint/endpoint.go:128 to 162, tokenresponse/writer.go). *)
THEOREM DeliveryHolds == Spec => []Delivery
BY TypeInit, TypeNext, DeliveryInit, DeliveryNext, PTL DEF Spec

(***************************************************************************)
(* Nothing of an answer with tokens is sent before every configured token  *)
(* exists; a client that misses one lost it to a failed write, and what it *)
(* has is for the owner of the code it held.                               *)
(***************************************************************************)
THEOREM GrantsAreWhole == Spec => []WholeGrant
<1>1. Delivery /\ Custody => WholeGrant
  <2> SUFFICES ASSUME Delivery, Custody, NEW r \in Requests, Granted(r)
               PROVE  /\ wire[r].status = 200 /\ Issued(r) = IssuedTokens
                      /\ SentAsIssued(r)
                      /\ GrantsCode(r) => HoldsItsCode(r)
    BY DEF WholeGrant, HoldsItsCode
  <2>1. Delivered(r) /\ RequestKept(r)
    BY DEF Delivery, Custody
  <2>2. GrantsCode(r) => HoldsItsCode(r)
    BY <2>1 DEF RequestKept
  <2> QED
    BY <2>1, <2>2 DEF Delivered
<1> QED
  BY <1>1, DeliveryHolds, CustodyHolds, PTL

(***************************************************************************)
(* A request that failed was told so by a status of handleError, and then  *)
(* no token is out; or the 200 of its tokens was out, and then they had    *)
(* all been issued and only sending them failed.                           *)
(***************************************************************************)
THEOREM ErrorStatusMeansNoTokens == Spec => []ErrorAfterCommit
<1>1. Delivery => ErrorAfterCommit
  BY DEF Delivery, Delivered, ErrorAfterCommit
<1> QED
  BY <1>1, DeliveryHolds, PTL

(***************************************************************************)
(* No step takes a code but the resolution of the subject of a request, at *)
(* a time when that request has no token and its answer has not begun.     *)
(***************************************************************************)
THEOREM CodesAreSpentFirst == Spec => SpentBeforeIssued
<1> DEFINE First == \A c \in Codes : redeemed'[c] # redeemed[c] =>
                       LET r == redeemed'[c].by IN
                       redeemed[c] = Unused /\ wire[r].status = 0 /\ tokens[r] = NoTokens
<1>1. TypeOK /\ Delivery /\ [Next]_vars => [First]_vars
  <2> SUFFICES ASSUME TypeOK, Delivery, Next, NEW c \in Codes, redeemed'[c] # redeemed[c]
               PROVE  LET r == redeemed'[c].by IN
                      redeemed[c] = Unused /\ wire[r].status = 0 /\ tokens[r] = NoTokens
    OBVIOUS
  <2>1. PICK r \in Requests : RedeemCode(r)
    BY DEF Next, Handle, Finished, Serve, Read, Validate, ResolveClient, ResolveSubject,
           ResolveDefault, Prepare, IssueToken, WriteHeader, WriteBody, HandleError,
           application, vars
  <2>2. Code(r) \in Codes /\ redeemed[Code(r)] = Unused /\ Consume(r, Code(r))
    BY <2>1 DEF RedeemCode
  <2>3. c = Code(r) /\ redeemed'[c].by = r
    BY <2>2 DEF Consume, TypeOK
  <2>4. pc[r] \in Early
    BY <2>1 DEF RedeemCode, At, Early
  <2>5. Issued(r) = {} /\ wire[r].status = 0
    BY <2>4, NothingIssuedEarly
  <2>6. tokens[r] = NoTokens
    <3>1. tokens[r] \in [TokenKinds -> Tokens \cup {NoToken}]
      BY DEF TypeOK
    <3>2. \A k \in TokenKinds : tokens[r][k] = NoToken
      BY <2>5 DEF Issued
    <3> QED
      BY <3>1, <3>2 DEF NoTokens
  <2> QED
    BY <2>2, <2>3, <2>5, <2>6
<1> QED
  BY <1>1, TypeCorrect, DeliveryHolds, PTL DEF Spec, SpentBeforeIssued
=============================================================================
