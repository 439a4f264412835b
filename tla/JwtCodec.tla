------------------------------ MODULE JwtCodec ------------------------------
(***************************************************************************)
(* jwt.Encoder and jwt.Decoder.  A part of a token is a record             *)
(*    says     what it means: the header's or the claims' content          *)
(*    json     whether it is JSON of the shape that part has               *)
(*    layers   how many times it has been through base64                   *)
(*    bytes    its length                                                  *)
(* A text is the sequence of the parts between its dots, nil being <<>>.   *)
(* A token is its three parts and whether its claims came out of JSON,     *)
(* where every number is a float64.                                        *)
(***************************************************************************)
EXTENDS OAuthErrors, Sequences, Naturals

CONSTANTS
    MaxTokenBytes, MaxHeaderBytes, MaxClaimsBytes, MaxSignatureBytes  \* Decoder

ASSUME LimitAssumption ==
    {MaxTokenBytes, MaxHeaderBytes, MaxClaimsBytes, MaxSignatureBytes} \subseteq Nat \ {0}

(* base64.RawURLEncoding, which does not pad *)
EncodedLen(n) == (n * 8 + 5) \div 6
DecodedLen(n) == (n * 6) \div 8

Wrap(part) ==
    IF part.bytes = 0 THEN part
    ELSE [part EXCEPT !.layers = part.layers + 1, !.bytes = EncodedLen(part.bytes)]
Unwrap(part) ==
    [part EXCEPT !.layers = part.layers - 1, !.bytes = DecodedLen(part.bytes)]

IsPart(part) ==
    part \in [says : {part.says}, json : BOOLEAN, layers : Nat, bytes : Nat]
IsFresh(part) == IsPart(part) /\ part.json = TRUE /\ part.layers = 0 /\ part.bytes > 0

NoPart == [says |-> <<>>, json |-> FALSE, layers |-> 0, bytes |-> 0]
NoJwt == [header |-> NoPart, claims |-> NoPart, signature |-> NoPart, parsed |-> FALSE]
Signed(token) == token.signature.bytes > 0

(***************************************************************************)
(* Encoder.encode: the three parts in base64, the signature whatever it is *)
(* already in.                                                             *)
(***************************************************************************)
Encode(token) ==
    IF token = NoJwt \/ ~token.claims.json THEN Failure({"Malformed"}, <<>>)
    ELSE Success(<<Wrap(token.header), Wrap(token.claims), Wrap(token.signature)>>)

(* A mistake: the length of the text is compared instead of the bytes in it *)
ExceedsEncoded(text) ==
    \/ text[1].bytes + text[2].bytes + text[3].bytes + 2 > MaxTokenBytes
    \/ text[1].bytes > MaxHeaderBytes
    \/ text[2].bytes > MaxClaimsBytes
    \/ text[3].bytes > MaxSignatureBytes

(* The limits: one on the text, three on what the parts decode to *)
Exceeds(text) ==
    \/ text[1].bytes + text[2].bytes + text[3].bytes + 2 > MaxTokenBytes
    \/ DecodedLen(text[1].bytes) > MaxHeaderBytes
    \/ DecodedLen(text[2].bytes) > MaxClaimsBytes
    \/ DecodedLen(text[3].bytes) > MaxSignatureBytes

(* Decoder.split: two dots, with something before each of them *)
Splits(text) == Len(text) = 3 /\ text[1].bytes > 0 /\ text[2].bytes > 0

Legible(part) == part.layers = 1 /\ part.json

(* A mistake: header and claims stay as they are written, too *)
DecodeLazily(text) ==
    IF ~Splits(text) THEN Failure({"Malformed"}, NoJwt)
    ELSE IF Exceeds(text) \/ ~Legible(text[1]) \/ ~Legible(text[2])
    THEN Failure({"Malformed"}, NoJwt)
    ELSE Success([header |-> text[1], claims |-> text[2], signature |-> text[3],
                  parsed |-> TRUE])

(***************************************************************************)
(* Decoder.decode: whatever is wrong, the text is malformed.  The          *)
(* signature stays as it is written.                                       *)
(***************************************************************************)
Decode(text) ==
    IF ~Splits(text) THEN Failure({"Malformed"}, NoJwt)
    ELSE IF Exceeds(text) \/ ~Legible(text[1]) \/ ~Legible(text[2])
    THEN Failure({"Malformed"}, NoJwt)
    ELSE Success([header |-> Unwrap(text[1]), claims |-> Unwrap(text[2]),
                  signature |-> text[3], parsed |-> TRUE])
=============================================================================
