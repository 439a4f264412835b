--------------------------- MODULE JwtValidation ----------------------------
(***************************************************************************)
(* jwt.Validator: a chain of options, each of which looks at one claim and *)
(* calls the next, and the verifier at its end.  A claim is a record of    *)
(* the form it has, "absent" included, and its value; of the audience the  *)
(* value is the list of its items, "" for one that is empty or no string.  *)
(* Times are counted in ticks, Second of them in a second, and the numeric *)
(* dates of a token in seconds.                                            *)
(***************************************************************************)
EXTENDS OAuthErrors, Sequences, Integers

CONSTANT Second

ASSUME SecondAssumption == Second \in Nat \ {0}

ValidatorOptions ==
    [kind : {"type", "nonce", "issuer", "audience", "clock", "nil"},
     text : STRING, texts : SUBSET STRING, leeway : Int]

AnyOption == [kind |-> "", text |-> "", texts |-> {}, leeway |-> 0]
WithType(type) == [AnyOption EXCEPT !.kind = "type", !.text = type]
WithNonce(nonce) == [AnyOption EXCEPT !.kind = "nonce", !.text = nonce]
WithValidIssuer(issuer) == [AnyOption EXCEPT !.kind = "issuer", !.text = issuer]
WithValidAudience(audiences) == [AnyOption EXCEPT !.kind = "audience", !.texts = audiences]
WithValidClock(leeway) == [AnyOption EXCEPT !.kind = "clock", !.leeway = leeway]
NilValidatorOption == [AnyOption EXCEPT !.kind = "nil"]

(* A claim that must be one string *)
TextFault(claim, expected, category) ==
    CASE claim.form = "absent" -> {category}
      [] claim.form = "string" -> IF claim.value = expected THEN NoError ELSE {category}
      [] OTHER -> {"Malformed"}

(* One string, or a list that is not empty and holds nothing but strings *)
AudienceFault(claim, audiences) ==
    IF claim.form = "absent" THEN {"WrongAudience"}
    ELSE IF claim.form = "other" \/ claim.value = <<>>
            \/ \E i \in DOMAIN claim.value : claim.value[i] = ""
    THEN {"Malformed"}
    ELSE IF \E i \in DOMAIN claim.value : claim.value[i] \in audiences THEN NoError
    ELSE {"WrongAudience"}

(* numericDate knows a float64 and not the int64 that WithExp writes *)
Numeric(claim, parsed) == claim.form = "float64" \/ (claim.form = "int64" /\ parsed)
NumericFault(claim, parsed) ==
    IF claim.form = "absent" \/ Numeric(claim, parsed) THEN NoError ELSE {"Malformed"}

(* A mistake: at the very end of its leeway a token still is valid *)
ExpiredAfter(claim, parsed, now, leeway) ==
    Numeric(claim, parsed) /\ now > claim.value * Second + leeway

Expired(claim, parsed, now, leeway) ==
    Numeric(claim, parsed) /\ now >= claim.value * Second + leeway

(* A mistake: the leeway makes the window of a token shorter *)
NotYetValidWithin(claim, parsed, now, leeway) ==
    Numeric(claim, parsed) /\ now < claim.value * Second + leeway

NotYetValid(claim, parsed, now, leeway) ==
    Numeric(claim, parsed) /\ now + leeway < claim.value * Second

(* WithValidClock: exp first, then nbf *)
ClockFault(claims, parsed, now, leeway) ==
    IF NumericFault(claims.exp, parsed) # NoError THEN {"Malformed"}
    ELSE IF Expired(claims.exp, parsed, now, leeway) THEN {"Expired"}
    ELSE IF NumericFault(claims.nbf, parsed) # NoError THEN {"Malformed"}
    ELSE IF NotYetValid(claims.nbf, parsed, now, leeway) THEN {"NotYetValid"}
    ELSE NoError

OptionFault(option, header, claims, parsed, now) ==
    CASE option.kind = "type" ->
            IF header.typ = option.text THEN NoError ELSE {"PolicyRejected"}
      [] option.kind = "nonce" -> TextFault(claims.nonce, option.text, "Binding")
      [] option.kind = "issuer" -> TextFault(claims.iss, option.text, "WrongIssuer")
      [] option.kind = "audience" -> AudienceFault(claims.aud, option.texts)
      [] option.kind = "clock" -> ClockFault(claims, parsed, now, option.leeway)

(* A mistake: a token of the right issuer is accepted there and then *)
ValidateUpToTheIssuer(options, header, claims, parsed, now, verdict) ==
    LET Fault(i) == OptionFault(options[i], header, claims, parsed, now)
        deciding == {i \in DOMAIN options : options[i].kind = "issuer" \/ Fault(i) # NoError}
    IN  IF \E i \in DOMAIN options : options[i].kind = "nil" THEN {"Misconfigured"}
        ELSE IF deciding = {} THEN verdict
        ELSE Fault(CHOOSE i \in deciding : \A j \in deciding : i <= j)

(***************************************************************************)
(* Validator.Validate of a token that is not nil: no option may be nil;    *)
(* the first one that objects decides; the verifier, if there is one, has  *)
(* the last word.                                                          *)
(***************************************************************************)
ValidateToken(options, header, claims, parsed, now, verdict) ==
    LET Fault(i) == OptionFault(options[i], header, claims, parsed, now)
        objecting == {i \in DOMAIN options : Fault(i) # NoError}
    IN  IF \E i \in DOMAIN options : options[i].kind = "nil" THEN {"Misconfigured"}
        ELSE IF objecting = {} THEN verdict
        ELSE Fault(CHOOSE i \in objecting : \A j \in objecting : i <= j)
=============================================================================
