---------------------------- MODULE TokenResponse ----------------------------
(***************************************************************************)
(* Package tokenresponse: what the server's encoder makes of a response    *)
(* and what the client's reader, decoder and validator make of an HTTP     *)
(* body.  A token is named by its text, "" being nil.                      *)
(*                                                                         *)
(* A body is the sequence of the documents written to it                   *)
(*    what     "response", "error" (from handleError), or "part" of either *)
(*    says     the representation in a "response"                          *)
(*    bytes    its length                                                  *)
(* Durations and seconds are int64, whose largest value is Int64Max.       *)
(***************************************************************************)
EXTENDS RequestWriters, Integers, SequencesExt

CONSTANTS
    Int64Max, Second,           \* time.Second, in the unit of a time.Duration
    MaxBodyBytes,               \* Reader.maxBodyBytes
    MaxPayloadBytes,            \* Decoder.maxPayloadBytes
    AllowedTokenTypes,          \* Validator.allowedTokenTypes, in lower case
    AllowedIssuedTypes,         \* Validator.allowedIssuedTypes, {} when it is nil
    RequireAccessToken, AllowIDToken, RequireIDToken, RequireIssuedType,
    RelativeTypes,              \* the issued token types that are no absolute URI
    TokenFault                  \* what the three token validators have for a token

ASSUME ResponseAssumption ==
    /\ Int64Max \in Nat /\ Second \in 1 .. Int64Max
    /\ MaxBodyBytes \in 1 .. Int64Max /\ MaxPayloadBytes \in 1 .. Int64Max
    /\ {RequireAccessToken, AllowIDToken, RequireIDToken, RequireIssuedType} \subseteq BOOLEAN
    /\ RequireIDToken => AllowIDToken
    /\ TokenFault \in [TokenKinds -> [Text -> Errors]]
    /\ "" \notin RelativeTypes

Int64(n) == ((n + Int64Max + 1) % (2 * (Int64Max + 1))) - (Int64Max + 1)
Durations == -(Int64Max + 1) .. Int64Max

TokenResponses == [tokens : [TokenKinds -> Text], token_type : Text,
                   lifetime : Durations, scope : Text, issued_type : Text]
Representations == [tokens : [TokenKinds -> Text], token_type : Text,
                    expires_in : Durations, scope : Text, issued_type : Text]

NoTokenTexts == [k \in TokenKinds |-> ""]

(* The zero TokenResponse and the zero TokenResponseRepresentation *)
EmptyResponse == [tokens |-> NoTokenTexts, token_type |-> "", lifetime |-> 0,
                  scope |-> "", issued_type |-> ""]
EmptyRepresentation == [tokens |-> NoTokenTexts, token_type |-> "", expires_in |-> 0,
                        scope |-> "", issued_type |-> ""]

(* A mistake: a part of a second counts as a whole one *)
RoundedUp(d) == IF d > 0 THEN (d + Second - 1) \div Second ELSE -((-d) \div Second)

(* Go's division by time.Second, towards zero *)
WholeSeconds(d) == IF d >= 0 THEN d \div Second ELSE -((-d) \div Second)

(***************************************************************************)
(* Encoder.Encode and Encoder.encode, for tokens the server has just       *)
(* issued                                                                  *)
(***************************************************************************)
EncodeResponse(r) ==
    LET faults == UNION {EncodeFault[r.tokens[k]] : k \in TokenKinds} IN
    IF r.tokens = NoTokenTexts THEN Failure({"Malformed"}, EmptyRepresentation)
    ELSE IF faults # NoError
    THEN Failure(NewErrorCategory("Malformed", faults), EmptyRepresentation)
    ELSE Success([tokens |-> r.tokens, token_type |-> r.token_type,
                  expires_in |-> WholeSeconds(r.lifetime), scope |-> r.scope,
                  issued_type |-> r.issued_type])

(* The first of several errors, in the order the code comes to them *)
FirstFault(faults) ==
    IF \A i \in DOMAIN faults : faults[i] = NoError THEN NoError
    ELSE faults[SelectInSeq(faults, LAMBDA fault : fault # NoError)]

(* A mistake: the product outgrows a time.Duration *)
UnboundedLifetime(seconds) == seconds * Second

(* time.Duration(seconds) * time.Second *)
Lifetime(seconds) == Int64(seconds * Second)

(***************************************************************************)
(* Decoder.decode: a document without a token is malformed, and so is one  *)
(* with a token that does not decode.                                      *)
(***************************************************************************)
DecodeResponse(rep) ==
    LET fault(k) == DecodeFault[rep.tokens[k]]
        first == FirstFault(<<fault("access_token"), fault("refresh_token"), fault("id_token")>>)
    IN  IF first # NoError THEN Failure(NewErrorCategory("Malformed", first), EmptyResponse)
        ELSE IF rep.tokens = NoTokenTexts THEN Failure({"Malformed"}, EmptyResponse)
        ELSE Success([tokens |-> rep.tokens, token_type |-> rep.token_type,
                      lifetime |-> Lifetime(rep.expires_in), scope |-> rep.scope,
                      issued_type |-> rep.issued_type])

BytesIn(documents) == FoldSeq(LAMBDA d, n : n + d.bytes, 0, documents)
PartOf(document, bytes) == [what |-> "part", says |-> EmptyRepresentation, bytes |-> bytes]

(* io.LimitReader: the first n bytes, nothing when n is not positive *)
LimitReader(documents, n) ==
    LET whole == {k \in 0 .. Len(documents) : k = 0 \/ BytesIn(SubSeq(documents, 1, k)) <= n}
        kept == CHOOSE k \in whole : \A j \in whole : j <= k
        rest == n - BytesIn(SubSeq(documents, 1, kept))
    IN  IF kept = Len(documents) \/ rest <= 0 THEN SubSeq(documents, 1, kept)
        ELSE Append(SubSeq(documents, 1, kept), PartOf(documents[kept + 1], rest))

(* A mistake: what is longer than the limit is cut off unseen *)
ReadTruncated(documents, broken) ==
    LET read == LimitReader(documents, MaxBodyBytes) IN
    IF broken \/ Len(read) # 1 \/ read[1].what = "part" \/ BytesIn(read) > MaxPayloadBytes
    THEN Failure({"Malformed"}, EmptyResponse)
    ELSE DecodeResponse(read[1].says)

(***************************************************************************)
(* Reader.readArtifact and Decoder.Decode: one byte more than the limit is *)
(* read to see whether there is more, and what was read is one whole       *)
(* document or is not JSON.  The HTTP status is not looked at.             *)
(***************************************************************************)
ReadResponse(documents, broken) ==
    LET read == LimitReader(documents, Int64(MaxBodyBytes + 1))
        size == BytesIn(read)
    IN  IF broken \/ size > MaxBodyBytes \/ size > MaxPayloadBytes
        THEN Failure({"Malformed"}, EmptyResponse)
        ELSE IF Len(read) # 1 \/ read[1].what = "part"
        THEN Failure({"Malformed"}, EmptyResponse)
        ELSE DecodeResponse(read[1].says)

Refuse(wrong, category) == IF wrong THEN {category} ELSE NoError

(* A mistake: token types are compared as they are written *)
CaseKept(type) == type

(* strings.ToLower of a token type *)
LowerCase(type) == CASE type = "Bearer" -> "bearer" [] type = "DPoP" -> "dpop" [] OTHER -> type

IllFormedScope(scope) ==
    scope # "" /\ \E i \in DOMAIN ScopesOf[scope] : ScopesOf[scope][i] \in IllFormedScopes

(***************************************************************************)
(* Validator.validate, its checks in their order.                          *)
(***************************************************************************)
ValidateResponse(r) ==
    LET has(k) == r.tokens[k] # ""
        type == r.issued_type
        verdict(k) == IF has(k) THEN TokenFault[k][r.tokens[k]] ELSE NoError
    IN  FirstFault(<<
            Refuse(RequireAccessToken /\ ~has("access_token"), "Malformed"),
            Refuse(has("access_token") /\ r.token_type = "", "Malformed"),
            Refuse(r.token_type # "" /\ LowerCase(r.token_type) \notin AllowedTokenTypes,
                   "PolicyRejected"),
            Refuse(r.lifetime < 0, "Malformed"),
            Refuse(IllFormedScope(r.scope), "Malformed"),
            Refuse(RequireIssuedType /\ type = "", "Malformed"),
            Refuse(type # "" /\ ~has("access_token"), "Malformed"),
            Refuse(type \in RelativeTypes, "Malformed"),
            Refuse(type # "" /\ AllowedIssuedTypes # {} /\ type \notin AllowedIssuedTypes,
                   "PolicyRejected"),
            Refuse(has("id_token") /\ ~AllowIDToken, "PolicyRejected"),
            Refuse(~has("id_token") /\ RequireIDToken, "Malformed"),
            verdict("access_token"), verdict("refresh_token"), verdict("id_token")>>)
=============================================================================
