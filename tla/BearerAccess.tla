---------------------------- MODULE BearerAccess ----------------------------
(***************************************************************************)
(* A token on its way: an issuer writes it, a client carries it, as the    *)
(* text it was sent or as the token it decoded, jwt.Writer puts it into a  *)
(* request, jwt.Authenticator at a resource server reads, validates and    *)
(* resolves it, and may pass it on in a request of its own.  Time passes   *)
(* between any two of these steps, and the clocks of the two servers       *)
(* differ by skew, which nobody knows.                                     *)
(***************************************************************************)
EXTENDS JwtCodec, JwtValidation

CONSTANTS
    Lifetimes,       \* the durations an issuer gives to WithExp, in ticks
    Templates,       \* header and claims before the issuer dates them
    Signatures,      \* the lengths of the signer's signatures, 0 without one
    Policy,          \* the runtime options of the resource server's validator
    VerifierFaults,  \* what its verifier may say, {NoError} without one
    StandardClaims,  \* whether its resolver has WithStandardClaims
    OtherRequests,   \* the Authorization values of everybody else's requests, which
                     \* may hold tokens of other issuers
    Skews,           \* what the resource server's clock minus the issuer's may be
    Horizon,         \* bound: when time stops
    MaxWrites        \* bound: how often a token is presented

ASSUME AccessAssumption ==
    /\ Lifetimes \subseteq Nat /\ Signatures \subseteq Nat
    /\ Skews \subseteq Int /\ Horizon \in Nat /\ MaxWrites \in Nat
    /\ NoError \in VerifierFaults /\ VerifierFaults \subseteq Errors
    /\ StandardClaims \in BOOLEAN
    /\ Policy \in Seq(ValidatorOptions)

(* What the issuer starts from: a header and claims that can be encoded *)
ASSUME TemplateAssumption ==
    \A template \in Templates :
        /\ IsFresh(template.header) /\ IsFresh(template.claims)
        /\ {"iss", "sub", "iat", "exp", "nbf"} \subseteq DOMAIN template.claims.says

(* A verifier judges a signature and not the time *)
ASSUME VerifierAssumption ==
    \A fault \in VerifierFaults : fault \cap {"Expired", "NotYetValid"} = {}

VARIABLES
    skew,      \* the resource server's clock minus the issuer's
    clock,     \* the time, as the issuer's clock shows it
    issued,    \* the token the issuer made, when, and for how long
    text,      \* the text of it that the client was sent
    held,      \* the token as whoever wants to write it holds it
    carrier,   \* the Authorization values of the request
    foreign,   \* whether it is one of OtherRequests
    pc,        \* where the resource server's Authenticate is
    artifact,  \* the token it has read
    checked,   \* when it validated that
    verdicts,  \* what the verifier says of that, if it got so far
    result,    \* what it returned
    writes     \* how many requests were made

request == <<carrier, foreign>>
judgement == <<artifact, checked, verdicts, result>>
vars == <<skew, clock, issued, text, held, request, pc, judgement, writes>>

NotIssued == [token |-> NoJwt, at |-> 0, lifetime |-> 0, nbf |-> FALSE]
NobodyYet == [iss |-> "", sub |-> "", iat |-> 0]
NoResult == [err |-> NoError, value |-> NobodyYet]

Bearer(raw) == [bearer |-> TRUE, credential |-> "whole", text |-> raw]

Init ==
    /\ skew \in Skews /\ clock = 0 /\ issued = NotIssued /\ text = <<>> /\ held = NoJwt
    /\ carrier = <<>> /\ foreign = FALSE /\ pc = "idle" /\ artifact = NoJwt /\ checked = 0
    /\ verdicts = {} /\ result = NoResult /\ writes = 0

(* Time passes, by any number of ticks *)
Tick ==
    /\ \E later \in clock + 1 .. Horizon : clock' = later
    /\ UNCHANGED <<skew, issued, text, held, request, pc, judgement, writes>>

Seconds(time) == time \div Second
Date(form, time) == [form |-> form, value |-> Seconds(time)]
NoDate == [form |-> "absent", value |-> 0]

(***************************************************************************)
(* jwt.Issuer.Issue with WithExp, unless the token has no lifetime (0),    *)
(* and maybe an nbf from WithClaims; then the response that carries it.    *)
(***************************************************************************)
Stamped(template, lifetime, dated) ==
    [template.claims.says EXCEPT
        !.iat = Date("int64", clock),
        !.exp = IF lifetime = 0 THEN NoDate ELSE Date("int64", clock + lifetime),
        !.nbf = IF dated THEN Date("int64", clock) ELSE NoDate]

IssueToken ==
    /\ issued = NotIssued
    /\ \E template \in Templates, lifetime \in Lifetimes, dated \in BOOLEAN,
          bytes \in Signatures :
          LET token == [header |-> template.header,
                        claims |-> [template.claims EXCEPT
                                        !.says = Stamped(template, lifetime, dated)],
                        signature |-> [NoPart EXCEPT !.bytes = bytes],
                        parsed |-> FALSE]
          IN  /\ issued' = [token |-> token, at |-> clock, lifetime |-> lifetime, nbf |-> dated]
              /\ text' = Encode(token).value
    /\ UNCHANGED <<skew, clock, held, request, pc, judgement, writes>>

(* The client decodes what it was sent *)
Receive ==
    /\ text # <<>> /\ held = NoJwt /\ Decode(text).err = NoError
    /\ held' = Decode(text).value
    /\ UNCHANGED <<skew, clock, issued, text, request, pc, judgement, writes>>

(* A request is ready; the answer to the one before is forgotten *)
Present(values, others) ==
    /\ pc = "idle" /\ writes < MaxWrites
    /\ carrier' = values /\ foreign' = others /\ pc' = "read" /\ writes' = writes + 1
    /\ artifact' = NoJwt /\ verdicts' = {} /\ result' = NoResult
    /\ UNCHANGED <<skew, clock, issued, text, checked>>

(* jwt.Writer.writeArtifact replaces what the header held *)
WriteArtifact ==
    /\ held # NoJwt
    /\ Present(<<Bearer(Encode(held).value)>>, FALSE)
    /\ UNCHANGED held

(* A client that keeps the text, or anybody else *)
PresentText == text # <<>> /\ Present(<<Bearer(text)>>, FALSE) /\ UNCHANGED held
PresentOther == (\E values \in OtherRequests : Present(values, TRUE)) /\ UNCHANGED held

(***************************************************************************)
(* The resource server passes on the token it admitted.  Only the issuer's *)
(* own token is followed: another one that is passed on makes just another *)
(* of OtherRequests.                                                       *)
(***************************************************************************)
PassOn ==
    /\ pc = "idle" /\ artifact # NoJwt /\ result.err = NoError /\ ~foreign
    /\ held' = artifact
    /\ Present(<<Bearer(Encode(artifact).value)>>, FALSE)

(* A mistake: credentials that cannot be read are left to somebody else *)
ReadAnyArtifact(values) ==
    IF Len(values) # 1 THEN Failure({"NotApplicable"}, NoJwt)
    ELSE IF ~values[1].bearer \/ values[1].credential # "whole"
    THEN Failure({"NotApplicable"}, NoJwt)
    ELSE Decode(values[1].text)

(***************************************************************************)
(* jwt.Reader.readArtifact of an Authorization header: its values, each a  *)
(* scheme and a credential that is missing, split by a blank or a comma,   *)
(* or whole.                                                               *)
(***************************************************************************)
ReadArtifact(values) ==
    IF values = <<>> THEN Failure({"NotApplicable"}, NoJwt)
    ELSE IF Len(values) # 1 THEN Failure({"Unauthenticated"}, NoJwt)
    ELSE IF ~values[1].bearer THEN Failure({"NotApplicable"}, NoJwt)
    ELSE IF values[1].credential # "whole" THEN Failure({"Unauthenticated"}, NoJwt)
    ELSE LET decoded == Decode(values[1].text) IN
         IF decoded.err = NoError THEN decoded
         ELSE Failure(NewErrorCategory("Malformed", decoded.err), NoJwt)

(* Of other people's tokens nothing is assumed but that a number is one *)
ForeignTokens ==
    {ReadArtifact(values).value :
        values \in {v \in OtherRequests : ReadArtifact(v).err = NoError}}

ASSUME OthersAssumption ==
    /\ \A values \in OtherRequests : DOMAIN values = 1 .. Len(values)
    /\ \A token \in ForeignTokens :
          Numeric(token.claims.says.iat, TRUE) => token.claims.says.iat.value \in Int

(* Authenticate returns *)
Return(err, value) ==
    /\ pc' = "idle"
    /\ result' = [err |-> err, value |-> value]

Refuse(err) == Return(NewErrorCategory("Unauthenticated", err), NobodyYet)

(* A mistake: the error of the reader is overlooked *)
ReadRegardless ==
    /\ pc = "read"
    /\ artifact' = ReadArtifact(carrier).value
    /\ pc' = "validate"
    /\ UNCHANGED <<skew, clock, issued, text, held, request, checked, verdicts, result, writes>>

(***************************************************************************)
(* jwt.Authenticator.Authenticate: what is not applicable is left to the   *)
(* next authenticator, everything else is a failed authentication.         *)
(***************************************************************************)
Read ==
    LET read == ReadArtifact(carrier) IN
    /\ pc = "read"
    /\ artifact' = read.value
    /\ IF read.err = NoError THEN pc' = "validate" /\ UNCHANGED result
       ELSE IF "NotApplicable" \in read.err THEN Return(read.err, NobodyYet)
       ELSE Refuse(read.err)
    /\ UNCHANGED <<skew, clock, issued, text, held, request, checked, verdicts, writes>>

Validate ==
    /\ pc = "validate"
    /\ checked' = clock
    /\ \E verdict \in VerifierFaults :
          LET fault == ValidateToken(Policy, artifact.header.says, artifact.claims.says,
                                     artifact.parsed, clock + skew, verdict)
          IN  /\ verdicts' = {verdict}
              /\ IF fault = NoError THEN pc' = "resolve" /\ UNCHANGED result
                 ELSE Refuse(fault)
    /\ UNCHANGED <<skew, clock, issued, text, held, request, artifact, writes>>

TextOr(claim, otherwise) == IF claim.form = "string" THEN claim.value ELSE otherwise

(* Resolver.resolve and WithStandardClaims around it *)
Resolution(claims) ==
    [iss |-> TextOr(claims.iss, ""), sub |-> TextOr(claims.sub, ""),
     iat |-> IF StandardClaims /\ Numeric(claims.iat, artifact.parsed)
             THEN claims.iat.value ELSE 0]

Resolve ==
    /\ pc = "resolve"
    /\ Return(NoError, Resolution(artifact.claims.says))
    /\ UNCHANGED <<skew, clock, issued, text, held, request, artifact, checked, verdicts, writes>>

Finished == writes = MaxWrites /\ pc = "idle" /\ UNCHANGED vars

Next ==
    \/ Tick \/ IssueToken \/ Receive
    \/ WriteArtifact \/ PresentText \/ PresentOther \/ PassOn
    \/ Read \/ Validate \/ Resolve
    \/ Finished

Spec == Init /\ [][Next]_vars

-----------------------------------------------------------------------------
(***************************************************************************)
(* Properties.                                                             *)
(***************************************************************************)
Tokens == Templates \cup ForeignTokens
Names ==
    {""} \cup {TextOr(token.claims.says.iss, "") : token \in Tokens}
         \cup {TextOr(token.claims.says.sub, "") : token \in Tokens}
Results == [err : Errors, value : [iss : Names, sub : Names, iat : Int]]

TypeOK ==
    /\ skew \in Skews
    /\ clock \in 0 .. Horizon /\ checked \in 0 .. Horizon /\ writes \in 0 .. MaxWrites
    /\ issued.at \in 0 .. Horizon /\ issued.lifetime \in Lifetimes \cup {0}
    /\ pc \in {"idle", "read", "validate", "resolve"}
    /\ result \in Results /\ foreign \in BOOLEAN /\ verdicts \subseteq VerifierFaults
    /\ pc \in {"validate", "resolve"} => artifact # NoJwt

Admitted == pc = "idle" /\ artifact # NoJwt /\ result.err = NoError
Leeway(i) == Policy[i].leeway
Clocks == {i \in DOMAIN Policy : Policy[i].kind = "clock"}

EndOfLife == issued.at + issued.lifetime

(***************************************************************************)
(* A validator with WithValidClock never lets the issuer's token through   *)
(* whose lifetime, counted from the instant it was issued at, is over by   *)
(* the leeway on the resource server's clock, nor one that is not valid    *)
(* yet by more than the leeway: neither for the seconds that exp and nbf   *)
(* are rounded to nor for the time the token was on its way.               *)
(***************************************************************************)
AdmittedInWindow ==
    (pc = "resolve" \/ Admitted) /\ ~foreign =>
        \A i \in Clocks :
            /\ issued.lifetime > 0 => checked + skew < EndOfLife + Leeway(i)
            /\ issued.nbf => checked + skew + Leeway(i) + Second > issued.at

(***************************************************************************)
(* "using leeway as clock skew tolerance" (jwt/validator_option.go:131): a *)
(* token presented between the instant it was issued and a second before   *)
(* the end of its lifetime is never refused as expired or not yet valid    *)
(* where the clocks differ by no more than the leeway.                     *)
(***************************************************************************)
Timely == issued.lifetime > 0 => checked + Second <= EndOfLife
Covered == \A i \in Clocks : -Leeway(i) <= skew /\ skew <= Leeway(i)

LeewayCoversSkew ==
    result.err \cap {"Expired", "NotYetValid"} # {} /\ ~foreign => ~(Timely /\ Covered)

(***************************************************************************)
(* Nobody is admitted on a token the verifier does not stand for, or as    *)
(* anybody's of an issuer the policy does not name: no option may keep the *)
(* verifier, which comes last, from being asked.  The principal is whom    *)
(* the token in the very request speaks of, and for the issuer's token     *)
(* whom the issuer wrote into it, however often it was decoded and encoded *)
(* on its way.  Where there is no verifier, as in a Validator that is not  *)
(* given one, everybody's token that can be decoded and that the policy    *)
(* lets through is admitted: who wrote it only a verifier can say.         *)
(***************************************************************************)
SpeaksOf(claims, principal) ==
    principal.iss = TextOr(claims.iss, "") /\ principal.sub = TextOr(claims.sub, "")

PrincipalIsVerified ==
    Admitted =>
        /\ verdicts = {NoError}
        /\ \A i \in DOMAIN Policy :
              Policy[i].kind = "issuer" => result.value.iss = Policy[i].text
        /\ SpeaksOf(Decode(carrier[1].text).value.claims.says, result.value)
        /\ ~foreign => /\ SpeaksOf(issued.token.claims.says, result.value)
                       /\ StandardClaims => result.value.iat = Seconds(issued.at)

(***************************************************************************)
(* An authenticator answers that it is not applicable, so that another one *)
(* may be tried, only to a request without any bearer credentials: of      *)
(* those that are there but wrong, no error gets past as an invitation.    *)
(***************************************************************************)
NotApplicableMeansNoBearer ==
    result.err # NoError /\ "Unauthenticated" \notin result.err =>
        \A i \in DOMAIN carrier : ~carrier[i].bearer

(***************************************************************************)
(* The four limits of a decoder mean the bytes they name, at their         *)
(* boundary too: a text the encoder wrote is read exactly if the text and  *)
(* each part of the token that was encoded fit.                            *)
(***************************************************************************)
Fits(token) ==
    LET size == EncodedLen(token.header.bytes) + EncodedLen(token.claims.bytes)
                  + EncodedLen(token.signature.bytes) + 2
    IN  /\ token.header.bytes <= MaxHeaderBytes
        /\ token.claims.bytes <= MaxClaimsBytes
        /\ token.signature.bytes <= MaxSignatureBytes
        /\ size <= MaxTokenBytes

LimitsAreExact ==
    /\ text # <<>> => (Decode(text).err = NoError <=> Fits(issued.token))
    /\ held # NoJwt => (Decode(Encode(held).value).err = NoError <=> Fits(held))

(***************************************************************************)
(* A token without a signature travels unchanged, as its text does; one    *)
(* with a signature keeps its header and its claims.                       *)
(***************************************************************************)
TokensTravel ==
    held # NoJwt =>
        /\ held.header = issued.token.header /\ held.claims = issued.token.claims
        /\ ~Signed(issued.token) => Encode(held).value = text /\ Fits(held)
=============================================================================
