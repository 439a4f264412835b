---------------------------- MODULE BearerProofs ----------------------------
(***************************************************************************)
(* What a bearer of a token is admitted as, and when, for every size and   *)
(* lifetime of tokens, every difference between the clocks, every list of  *)
(* validator options and every number of requests.                         *)
(***************************************************************************)
EXTENDS BearerAccess, WellFoundedInduction, TLAPS

-----------------------------------------------------------------------------
(***************************************************************************)
(* The codec.  base64 without padding keeps the length of what it encodes. *)
(***************************************************************************)
LEMMA Base64Lengths ==
    ASSUME NEW n \in Nat
    PROVE  /\ EncodedLen(n) \in Nat /\ (n > 0 => EncodedLen(n) > 0)
           /\ DecodedLen(EncodedLen(n)) = n
<1>1. /\ (n * 8 + 5) \div 6 \in Nat
      /\ n > 0 => (n * 8 + 5) \div 6 > 0
  OBVIOUS
<1>2. (((n * 8 + 5) \div 6) * 6) \div 8 = n
  OBVIOUS
<1> QED
  BY <1>1, <1>2 DEF EncodedLen, DecodedLen

LEMMA PartsAreTheirFields ==
    ASSUME NEW p, NEW q, IsPart(p), IsPart(q), p.says = q.says, p.json = q.json,
           p.layers = q.layers, p.bytes = q.bytes
    PROVE  p = q
BY DEF IsPart

LEMMA PartFields ==
    ASSUME NEW part, IsPart(part)
    PROVE  part.layers \in Nat /\ part.bytes \in Nat /\ part.json \in BOOLEAN
BY DEF IsPart

LEMMA Wrapped ==
    ASSUME NEW part, IsPart(part)
    PROVE  LET w == Wrap(part)
           IN  /\ IsPart(w) /\ w.bytes = EncodedLen(part.bytes)
               /\ DecodedLen(w.bytes) = part.bytes
               /\ part.bytes = 0 => w = part
               /\ part.bytes > 0 => /\ w.bytes > 0 /\ w.layers = part.layers + 1
                                    /\ w.says = part.says /\ w.json = part.json
<1>1. part.layers \in Nat /\ part.bytes \in Nat
  BY PartFields
<1>2. /\ EncodedLen(part.bytes) \in Nat /\ DecodedLen(EncodedLen(part.bytes)) = part.bytes
      /\ part.bytes > 0 => EncodedLen(part.bytes) > 0
  BY <1>1, Base64Lengths
<1>3. CASE part.bytes = 0
  <2>1. EncodedLen(part.bytes) = 0
    BY <1>3 DEF EncodedLen
  <2>2. Wrap(part) = part
    BY <1>3, Zenon DEF Wrap
  <2> QED
    BY <1>2, <1>3, <2>1, <2>2
<1>4. CASE part.bytes > 0
  <2> DEFINE w == [part EXCEPT !.layers = part.layers + 1, !.bytes = EncodedLen(part.bytes)]
  <2>1. /\ IsPart(w) /\ w.says = part.says /\ w.json = part.json
        /\ w.layers = part.layers + 1 /\ w.bytes = EncodedLen(part.bytes)
    <3> DEFINE l == part.layers + 1
               b == EncodedLen(part.bytes)
    <3>1. l \in Nat /\ b \in Nat
      BY <1>1, <1>2
    <3> HIDE DEF l, b
    <3>2. LET p == [part EXCEPT !.layers = l, !.bytes = b]
          IN  /\ IsPart(p) /\ p.says = part.says /\ p.json = part.json
              /\ p.layers = l /\ p.bytes = b
      BY <3>1 DEF IsPart
    <3> QED
      BY <3>2 DEF l, b
  <2>2. part.bytes # 0
    BY <1>1, <1>4
  <2>3. Wrap(part) = w
    BY <2>2, Zenon DEF Wrap
  <2> HIDE DEF w
  <2> QED
    BY <1>1, <1>2, <1>4, <2>1, <2>2, <2>3
<1> QED
  BY <1>1, <1>3, <1>4

LEMMA FreshPartsReturn ==
    ASSUME NEW part, IsFresh(part)
    PROVE  /\ IsPart(Wrap(part)) /\ Wrap(part).bytes > 0
           /\ Legible(Wrap(part)) /\ Unwrap(Wrap(part)) = part
<1> DEFINE w == Wrap(part)
           u == [w EXCEPT !.layers = w.layers - 1, !.bytes = DecodedLen(w.bytes)]
<1>1. IsPart(part) /\ part.json = TRUE /\ part.layers = 0 /\ part.bytes > 0
  BY DEF IsFresh
<1>2. /\ IsPart(w) /\ DecodedLen(w.bytes) = part.bytes /\ w.bytes > 0 /\ w.layers = 1
      /\ w.says = part.says /\ w.json = TRUE
  BY <1>1, Wrapped
<1>3. w.layers - 1 \in Nat /\ w.layers - 1 = 0 /\ part.bytes \in Nat
  BY <1>1, <1>2, PartFields
<1> HIDE DEF w
<1>4. /\ IsPart(u) /\ u.says = w.says /\ u.json = w.json
      /\ u.layers = w.layers - 1 /\ u.bytes = DecodedLen(w.bytes)
  <2> DEFINE l == w.layers - 1
             b == DecodedLen(w.bytes)
  <2>1. l \in Nat /\ b \in Nat
    BY <1>2, <1>3
  <2> HIDE DEF l, b
  <2>2. LET p == [w EXCEPT !.layers = l, !.bytes = b]
        IN  /\ IsPart(p) /\ p.says = w.says /\ p.json = w.json
            /\ p.layers = l /\ p.bytes = b
    BY <1>2, <2>1 DEF IsPart
  <2> QED
    BY <2>2 DEF l, b
<1>5. Unwrap(w) = u
  BY Zenon DEF Unwrap
<1> HIDE DEF u
<1>6. u = part
  BY <1>1, <1>2, <1>3, <1>4, PartsAreTheirFields
<1>7. Legible(w)
  BY <1>2, Zenon DEF Legible
<1>8. Unwrap(w) = part
  BY <1>5, <1>6
<1> QED
  BY <1>2, <1>7, <1>8 DEF w

(***************************************************************************)
(* A token the issuer may have made; a token, and a text, that say what it *)
(* says.  Without a signature they can only be the one it made.            *)
(***************************************************************************)
IsToken(token) ==
    /\ IsFresh(token.header) /\ IsFresh(token.claims) /\ IsPart(token.signature)
    /\ ~Signed(token) => token.signature = NoPart

Copies(t, token) ==
    /\ t # NoJwt /\ t.header = token.header /\ t.claims = token.claims
    /\ IsPart(t.signature)
    /\ ~Signed(token) => t.signature = NoPart

Spells(raw, token) ==
    /\ Len(raw) = 3 /\ raw # <<>>
    /\ raw[1] = Wrap(token.header) /\ raw[2] = Wrap(token.claims) /\ IsPart(raw[3])
    /\ ~Signed(token) => raw = <<Wrap(token.header), Wrap(token.claims), NoPart>>

LEMMA TokensCopyThemselves ==
    ASSUME NEW token, IsToken(token)
    PROVE  Copies(token, token)
<1>1. token.header.bytes # NoJwt.header.bytes
  BY DEF IsToken, IsFresh, NoJwt, NoPart
<1> QED
  BY <1>1 DEF IsToken, Copies

(***************************************************************************)
(* Encoder.Encode, and Decoder.Decode of what it wrote.                    *)
(***************************************************************************)
LEMMA CopiesAreSpelt ==
    ASSUME NEW token, NEW t, IsToken(token), Copies(t, token)
    PROVE  /\ Encode(t).err = NoError /\ Spells(Encode(t).value, token)
           /\ Encode(t).value[3] = Wrap(t.signature)
<1>1. t # NoJwt /\ t.claims.json = TRUE
  BY DEF Copies, IsToken, IsFresh
<1>2. Encode(t) = Success(<<Wrap(t.header), Wrap(t.claims), Wrap(t.signature)>>)
  BY <1>1 DEF Encode
<1>3. /\ Encode(t).err = NoError
      /\ Encode(t).value = <<Wrap(t.header), Wrap(t.claims), Wrap(t.signature)>>
  BY <1>2 DEF Success
<1>4. IsPart(Wrap(t.signature))
  BY Wrapped DEF Copies
<1>5. ~Signed(token) => Wrap(t.signature) = NoPart
  <2>1. NoPart.bytes = 0
    BY DEF NoPart
  <2>2. Wrap(NoPart) = NoPart
    BY <2>1, Zenon DEF Wrap
  <2> QED
    BY <2>2 DEF Copies
<1> QED
  BY <1>3, <1>4, <1>5 DEF Spells, Copies

LEMMA SpeltIsDecoded ==
    ASSUME NEW token, NEW raw, IsToken(token), Spells(raw, token)
    PROVE  /\ Decode(raw).err = IF Exceeds(raw) THEN {"Malformed"} ELSE NoError
           /\ Exceeds(raw) => Decode(raw).value = NoJwt
           /\ ~Exceeds(raw) =>
                /\ Copies(Decode(raw).value, token) /\ Decode(raw).value.parsed = TRUE
                /\ Decode(raw).value.signature = raw[3]
<1>1. Splits(raw)
  BY FreshPartsReturn DEF Spells, Splits, IsToken
<1>2. Legible(raw[1]) /\ Legible(raw[2])
  BY FreshPartsReturn DEF Spells, IsToken
<1>3. Unwrap(raw[1]) = token.header /\ Unwrap(raw[2]) = token.claims
  BY FreshPartsReturn DEF Spells, IsToken
<1> DEFINE copy == [header |-> token.header, claims |-> token.claims, signature |-> raw[3],
                    parsed |-> TRUE]
<1>4. Decode(raw) = IF Exceeds(raw) THEN Failure({"Malformed"}, NoJwt) ELSE Success(copy)
  BY <1>1, <1>2, <1>3 DEF Decode
<1>5. IsPart(raw[3]) /\ (~Signed(token) => raw[3] = NoPart)
  BY DEF Spells
<1>6. Copies(copy, token)
  <2>1. copy.header.bytes # NoJwt.header.bytes
    BY DEF IsToken, IsFresh, NoJwt, NoPart
  <2> QED
    BY <1>5, <2>1 DEF Copies
<1>7. copy.parsed = TRUE /\ copy.signature = raw[3]
  OBVIOUS
<1> HIDE DEF copy
<1> QED
  BY <1>4, <1>6, <1>7 DEF Success, Failure

(***************************************************************************)
(* The limits say what they mean.                                          *)
(***************************************************************************)
LEMMA ExceedsIsNotFits ==
    ASSUME NEW token, NEW t, IsToken(token), Copies(t, token)
    PROVE  Exceeds(Encode(t).value) <=> ~Fits(t)
<1> DEFINE raw == Encode(t).value
<1>1. raw[1] = Wrap(t.header) /\ raw[2] = Wrap(t.claims) /\ raw[3] = Wrap(t.signature)
  BY CopiesAreSpelt DEF Spells, Copies
<1>2. /\ raw[1].bytes = EncodedLen(t.header.bytes) /\ DecodedLen(raw[1].bytes) = t.header.bytes
      /\ raw[2].bytes = EncodedLen(t.claims.bytes) /\ DecodedLen(raw[2].bytes) = t.claims.bytes
  BY <1>1, Wrapped DEF IsToken, Copies, IsFresh
<1>3. raw[3].bytes = EncodedLen(t.signature.bytes) /\ DecodedLen(raw[3].bytes) = t.signature.bytes
  BY <1>1, Wrapped DEF Copies
<1>4. t.header.bytes \in Nat /\ t.claims.bytes \in Nat /\ t.signature.bytes \in Nat
  BY PartFields DEF Copies, IsToken, IsFresh
<1>5. /\ EncodedLen(t.header.bytes) \in Nat /\ EncodedLen(t.claims.bytes) \in Nat
      /\ EncodedLen(t.signature.bytes) \in Nat
  BY <1>4, Base64Lengths
<1> HIDE DEF raw
<1>6. Exceeds(raw) <=>
        \/ EncodedLen(t.header.bytes) + EncodedLen(t.claims.bytes)
             + EncodedLen(t.signature.bytes) + 2 > MaxTokenBytes
        \/ t.header.bytes > MaxHeaderBytes
        \/ t.claims.bytes > MaxClaimsBytes
        \/ t.signature.bytes > MaxSignatureBytes
  BY <1>2, <1>3 DEF Exceeds
<1> QED
  BY <1>4, <1>5, <1>6, LimitAssumption DEF Fits, raw

-----------------------------------------------------------------------------
(***************************************************************************)
(* The validator.  Of the options that object, the first is the one the    *)
(* definition chooses.                                                     *)
(***************************************************************************)
LEMMA FirstOfSome ==
    ASSUME NEW S, S \subseteq Nat, S # {}
    PROVE  \E i \in S : \A j \in S : i <= j
<1>1. PICK i \in S : \A j \in S : ~(<<j, i>> \in OpToRel(<, Nat))
  BY NatLessThanWellFounded, WFMin
<1>2. ASSUME NEW j \in S PROVE i <= j
  <2>1. ~(j < i)
    BY <1>1 DEF OpToRel
  <2> QED
    BY <2>1
<1> QED
  BY <1>2

(* One option's objection, as Validate sees it *)
Objection(i, header, claims, now) == OptionFault(Policy[i], header, claims, TRUE, now)

LEMMA PolicyType ==
    /\ DOMAIN Policy \subseteq Nat
    /\ \A i \in DOMAIN Policy : Policy[i] \in ValidatorOptions /\ Leeway(i) \in Int
    /\ Clocks \subseteq DOMAIN Policy
<1>1. ASSUME NEW i \in DOMAIN Policy PROVE Policy[i] \in ValidatorOptions
  BY AccessAssumption
<1>2. ASSUME NEW i \in DOMAIN Policy PROVE Leeway(i) \in Int
  BY <1>1 DEF ValidatorOptions, Leeway
<1> QED
  BY <1>1, <1>2, AccessAssumption DEF Clocks

LEMMA ClocksObjection ==
    ASSUME NEW header, NEW claims, NEW now, NEW i \in Clocks
    PROVE  Objection(i, header, claims, now) = ClockFault(claims, TRUE, now, Leeway(i))
<1>1. Policy[i].kind = "clock"
  BY DEF Clocks
<1> QED
  BY <1>1 DEF Objection, OptionFault, Leeway

(***************************************************************************)
(* Validate returns the first objection, or what the verifier says.        *)
(***************************************************************************)
LEMMA FirstObjectionDecides ==
    ASSUME NEW header, NEW claims, NEW now, NEW verdict
    PROVE  LET fault == ValidateToken(Policy, header, claims, TRUE, now, verdict) IN
           \/ fault = {"Misconfigured"}
           \/ /\ fault = verdict
              /\ \A i \in DOMAIN Policy : Objection(i, header, claims, now) = NoError
           \/ \E i \in DOMAIN Policy :
                 fault = Objection(i, header, claims, now) /\ fault # NoError
<1> DEFINE Fault(i) == Objection(i, header, claims, now)
           objecting == {i \in DOMAIN Policy : Fault(i) # NoError}
           first == CHOOSE i \in objecting : \A j \in objecting : i <= j
           nil == \E i \in DOMAIN Policy : Policy[i].kind = "nil"
<1>1. ValidateToken(Policy, header, claims, TRUE, now, verdict) =
        IF nil THEN {"Misconfigured"} ELSE IF objecting = {} THEN verdict ELSE Fault(first)
  BY Zenon DEF ValidateToken, Objection
<1>2. objecting # {} => first \in objecting
  <2> SUFFICES ASSUME objecting # {} PROVE first \in objecting
    OBVIOUS
  <2>1. \E i \in objecting : \A j \in objecting : i <= j
    BY FirstOfSome, PolicyType
  <2> QED
    BY <2>1, Zenon
<1>3. objecting # {} => first \in DOMAIN Policy /\ Fault(first) # NoError
  BY <1>2
<1>4. objecting = {} => \A i \in DOMAIN Policy : Fault(i) = NoError
  OBVIOUS
<1> HIDE DEF first, objecting, nil
<1> QED
  BY <1>1, <1>3, <1>4

LEMMA AcceptedByTheClock ==
    ASSUME NEW header, NEW claims, NEW now, NEW verdict, NEW i \in Clocks,
           ValidateToken(Policy, header, claims, TRUE, now, verdict) = NoError
    PROVE  ClockFault(claims, TRUE, now, Leeway(i)) = NoError
<1>1. \A j \in DOMAIN Policy : Objection(j, header, claims, now) = NoError
  BY FirstObjectionDecides DEF NoError
<1> QED
  BY <1>1, ClocksObjection, PolicyType

TimeFaults == {"Expired", "NotYetValid"}

LEMMA RefusedByTheClock ==
    ASSUME NEW header, NEW claims, NEW now, NEW verdict \in VerifierFaults,
           ValidateToken(Policy, header, claims, TRUE, now, verdict) \cap TimeFaults # {}
    PROVE  \E i \in Clocks : ClockFault(claims, TRUE, now, Leeway(i)) \cap TimeFaults # {}
<1> DEFINE fault == ValidateToken(Policy, header, claims, TRUE, now, verdict)
<1>1. {"Misconfigured"} \cap TimeFaults = {} /\ verdict \cap TimeFaults = {}
  BY VerifierAssumption DEF TimeFaults
<1>2. PICK i \in DOMAIN Policy : fault = Objection(i, header, claims, now)
  BY <1>1, FirstObjectionDecides
<1>3. ASSUME i \notin Clocks PROVE FALSE
  <2>1. Policy[i] \in ValidatorOptions /\ Policy[i].kind # "clock"
    BY <1>3, PolicyType DEF Clocks
  <2>2. Policy[i].kind \in {"type", "nonce", "issuer", "audience", "nil"}
    BY <2>1 DEF ValidatorOptions
  <2>3. \A claim, expected, category :
           category \notin TimeFaults => TextFault(claim, expected, category) \cap TimeFaults = {}
    BY DEF TextFault, TimeFaults, NoError
  <2>4. \A claim, audiences : AudienceFault(claim, audiences) \cap TimeFaults = {}
    BY DEF AudienceFault, TimeFaults, NoError
  <2>5. Policy[i].kind # "nil" => Objection(i, header, claims, now) \cap TimeFaults = {}
    BY <2>2, <2>3, <2>4 DEF Objection, OptionFault, TimeFaults, NoError
  <2>6. Policy[i].kind # "nil"
    <3>1. ASSUME Policy[i].kind = "nil" PROVE fault = {"Misconfigured"}
      BY <3>1, Zenon DEF ValidateToken
    <3> QED
      BY <1>1, <3>1
  <2> QED
    BY <1>2, <2>5, <2>6
<1>4. Objection(i, header, claims, now) \cap TimeFaults # {}
  BY <1>2
<1>5. i \in Clocks /\ Objection(i, header, claims, now) = ClockFault(claims, TRUE, now, Leeway(i))
  BY <1>3, ClocksObjection
<1> HIDE DEF fault
<1> QED
  BY <1>4, <1>5

-----------------------------------------------------------------------------
(***************************************************************************)
(* Time.  Dates are rounded down to a second.                              *)
(***************************************************************************)
Dated(says, at, lifetime, nbf) ==
    /\ says.iat = Date("int64", at)
    /\ says.exp = IF lifetime = 0 THEN NoDate ELSE Date("int64", at + lifetime)
    /\ says.nbf = IF nbf THEN Date("int64", at) ELSE NoDate

LEMMA RoundingDown ==
    ASSUME NEW time \in Nat
    PROVE  /\ Seconds(time) \in Nat /\ Seconds(time) * Second <= time
           /\ time < Seconds(time) * Second + Second
<1>1. \A s \in Nat \ {0} : /\ time \div s \in Nat /\ (time \div s) * s <= time
                           /\ time < (time \div s) * s + s
  OBVIOUS
<1> QED
  BY <1>1, SecondAssumption DEF Seconds

LEMMA DateForms ==
    /\ NoDate.form = "absent" /\ ~Numeric(NoDate, TRUE)
    /\ \A time : /\ Date("int64", time).value = Seconds(time)
                 /\ Numeric(Date("int64", time), TRUE)
BY DEF NoDate, Date, Numeric

LEMMA EndOfDated ==
    ASSUME NEW says, NEW at, NEW lifetime, NEW nbf, Dated(says, at, lifetime, nbf),
           NEW now, NEW leeway
    PROVE  /\ NumericFault(says.exp, TRUE) = NoError
           /\ Expired(says.exp, TRUE, now, leeway) <=>
                (lifetime # 0 /\ now >= Seconds(at + lifetime) * Second + leeway)
<1>1. CASE lifetime = 0
  <2>1. says.exp = NoDate
    BY <1>1 DEF Dated
  <2> QED
    BY <1>1, <2>1, DateForms DEF Expired, NumericFault
<1>2. CASE lifetime # 0
  <2>1. says.exp = Date("int64", at + lifetime)
    BY <1>2 DEF Dated
  <2> QED
    BY <1>2, <2>1, DateForms DEF Expired, NumericFault
<1> QED
  BY <1>1, <1>2

LEMMA StartOfDated ==
    ASSUME NEW says, NEW at, NEW lifetime, NEW nbf \in BOOLEAN, Dated(says, at, lifetime, nbf),
           NEW now, NEW leeway
    PROVE  /\ NumericFault(says.nbf, TRUE) = NoError
           /\ NotYetValid(says.nbf, TRUE, now, leeway) <=>
                (nbf /\ now + leeway < Seconds(at) * Second)
<1>1. CASE nbf = FALSE
  <2>1. says.nbf = NoDate
    BY <1>1 DEF Dated
  <2> QED
    BY <1>1, <2>1, DateForms DEF NotYetValid, NumericFault
<1>2. CASE nbf = TRUE
  <2>1. says.nbf = Date("int64", at)
    BY <1>2 DEF Dated
  <2> QED
    BY <1>2, <2>1, DateForms DEF NotYetValid, NumericFault
<1> QED
  BY <1>1, <1>2

LEMMA ClockFaultOfDated ==
    ASSUME NEW says, NEW at, NEW lifetime, NEW nbf \in BOOLEAN, Dated(says, at, lifetime, nbf),
           NEW now, NEW leeway
    PROVE  ClockFault(says, TRUE, now, leeway) =
             IF lifetime # 0 /\ now >= Seconds(at + lifetime) * Second + leeway THEN {"Expired"}
             ELSE IF nbf /\ now + leeway < Seconds(at) * Second THEN {"NotYetValid"}
             ELSE NoError
BY EndOfDated, StartOfDated, Zenon DEF ClockFault

(***************************************************************************)
(* What WithValidClock lets through, and what it holds back.               *)
(***************************************************************************)
LEMMA AcceptedInTime ==
    ASSUME NEW says, NEW at \in Nat, NEW lifetime \in Nat, NEW nbf \in BOOLEAN,
           Dated(says, at, lifetime, nbf), NEW now \in Int, NEW leeway \in Int,
           ClockFault(says, TRUE, now, leeway) = NoError
    PROVE  /\ lifetime > 0 => now < at + lifetime + leeway
           /\ nbf => now + leeway + Second > at
<1>1. /\ lifetime # 0 => ~(now >= Seconds(at + lifetime) * Second + leeway)
      /\ nbf => ~(now + leeway < Seconds(at) * Second)
  BY ClockFaultOfDated DEF NoError
<1>2. /\ Seconds(at + lifetime) * Second \in Nat /\ Seconds(at) * Second \in Nat
      /\ Second \in Nat
  BY RoundingDown, SecondAssumption
<1>3. /\ Seconds(at + lifetime) * Second <= at + lifetime
      /\ at < Seconds(at) * Second + Second
  BY RoundingDown
<1> QED
  BY <1>1, <1>2, <1>3

LEMMA RefusedInTime ==
    ASSUME NEW says, NEW at \in Nat, NEW lifetime \in Nat, NEW nbf \in BOOLEAN,
           Dated(says, at, lifetime, nbf), NEW time \in Nat, at <= time,
           NEW difference \in Int, NEW leeway \in Int,
           -leeway <= difference, difference <= leeway,
           ClockFault(says, TRUE, time + difference, leeway) \cap TimeFaults # {}
    PROVE  ~(lifetime > 0 => time + Second <= at + lifetime)
<1> DEFINE now == time + difference
<1>1. \/ lifetime # 0 /\ now >= Seconds(at + lifetime) * Second + leeway
      \/ now + leeway < Seconds(at) * Second
  <2>1. ClockFault(says, TRUE, now, leeway) # NoError
    BY DEF NoError
  <2> HIDE DEF now
  <2> QED
    BY <2>1, ClockFaultOfDated
<1>2. /\ Seconds(at + lifetime) * Second \in Nat /\ Seconds(at) * Second \in Nat
      /\ Second \in Nat
  BY RoundingDown, SecondAssumption
<1>3. /\ at + lifetime < Seconds(at + lifetime) * Second + Second
      /\ Seconds(at) * Second <= at
  BY RoundingDown
<1> QED
  BY <1>1, <1>2, <1>3

-----------------------------------------------------------------------------
(***************************************************************************)
(* The way of a token: everything that is held, carried or admitted, and   *)
(* is not somebody else's, says what the issuer's token says, and was      *)
(* decoded from a text of it.                                              *)
(***************************************************************************)
Decoded(t, token) ==
    Copies(t, token) /\ t.parsed = TRUE /\ (~Signed(token) => Fits(token))

Presented(values, token) == \E raw : values = <<Bearer(raw)>> /\ Spells(raw, token)

IssuedWell ==
    /\ IsToken(issued.token) /\ issued.at \in Nat /\ issued.at <= clock
    /\ issued.lifetime \in Nat /\ issued.nbf \in BOOLEAN
    /\ Dated(issued.token.claims.says, issued.at, issued.lifetime, issued.nbf)

Lineage ==
    /\ clock \in Nat /\ skew \in Int /\ checked \in Nat
    /\ issued # NotIssued => IssuedWell /\ text = Encode(issued.token).value
    /\ text # <<>> => issued # NotIssued
    /\ held # NoJwt => issued # NotIssued /\ Decoded(held, issued.token)
    /\ artifact # NoJwt =>
          ReadArtifact(carrier).err = NoError /\ artifact = ReadArtifact(carrier).value
    /\ pc \in {"validate", "resolve"} => artifact # NoJwt
    /\ IF foreign THEN carrier \in OtherRequests
       ELSE carrier = <<>> \/ (issued # NotIssued /\ Presented(carrier, issued.token))

LEMMA DecodedFromSpelt ==
    ASSUME NEW token, NEW raw, IsToken(token), Spells(raw, token), Decode(raw).err = NoError
    PROVE  Decoded(Decode(raw).value, token)
<1>1. ~Exceeds(raw)
  BY SpeltIsDecoded DEF NoError
<1>2. Copies(Decode(raw).value, token) /\ Decode(raw).value.parsed = TRUE
  BY <1>1, SpeltIsDecoded
<1>3. ASSUME ~Signed(token) PROVE Fits(token)
  <2>1. Spells(Encode(token).value, token) /\ Copies(token, token)
    BY CopiesAreSpelt, TokensCopyThemselves
  <2>2. Encode(token).value = raw
    BY <1>3, <2>1 DEF Spells
  <2> QED
    BY <1>1, <2>1, <2>2, ExceedsIsNotFits
<1> QED
  BY <1>2, <1>3 DEF Decoded

LEMMA CopiesArePresented ==
    ASSUME NEW token, NEW t, IsToken(token), Copies(t, token)
    PROVE  Presented(<<Bearer(Encode(t).value)>>, token)
BY CopiesAreSpelt DEF Presented

(***************************************************************************)
(* Reader.ReadArtifact: the errors it returns, and for which requests.     *)
(***************************************************************************)
LEMMA DecodeErrors ==
    ASSUME NEW raw
    PROVE  Decode(raw).err \in {NoError, {"Malformed"}}
BY DEF Decode, Success, Failure

LEMMA ReadErrors ==
    ASSUME NEW values, DOMAIN values = 1 .. Len(values)
    PROVE  LET read == ReadArtifact(values) IN
           /\ read.err \in {NoError, {"NotApplicable"}, {"Unauthenticated"}, {"Malformed"}}
           /\ read.err # NoError => read.value = NoJwt
           /\ read.err = {"NotApplicable"} => \A i \in DOMAIN values : ~values[i].bearer
<1>1. \A e, v : Failure(e, v).err = e /\ Failure(e, v).value = v
  BY DEF Failure
<1>2. CASE values = <<>>
  <2>1. ReadArtifact(values) = Failure({"NotApplicable"}, NoJwt)
    BY <1>2, Zenon DEF ReadArtifact
  <2>2. DOMAIN values = {}
    BY <1>2
  <2> QED
    BY <1>1, <2>1, <2>2
<1>3. CASE values # <<>> /\ Len(values) # 1
  <2>1. ReadArtifact(values) = Failure({"Unauthenticated"}, NoJwt)
    BY <1>3, Zenon DEF ReadArtifact
  <2> QED
    BY <1>1, <2>1
<1>4. CASE values # <<>> /\ Len(values) = 1 /\ ~values[1].bearer
  <2>1. ReadArtifact(values) = Failure({"NotApplicable"}, NoJwt)
    BY <1>4, Zenon DEF ReadArtifact
  <2>2. DOMAIN values = {1}
    BY <1>4
  <2> QED
    BY <1>1, <1>4, <2>1, <2>2
<1>5. CASE values # <<>> /\ Len(values) = 1 /\ values[1].bearer /\ values[1].credential # "whole"
  <2>1. ReadArtifact(values) = Failure({"Unauthenticated"}, NoJwt)
    BY <1>5, Zenon DEF ReadArtifact
  <2> QED
    BY <1>1, <2>1
<1>6. CASE values # <<>> /\ Len(values) = 1 /\ values[1].bearer /\ values[1].credential = "whole"
  <2> DEFINE decoded == Decode(values[1].text)
  <2>1. ReadArtifact(values) =
          IF decoded.err = NoError THEN decoded
          ELSE Failure(NewErrorCategory("Malformed", decoded.err), NoJwt)
    BY <1>6, Zenon DEF ReadArtifact
  <2>2. decoded.err \in {NoError, {"Malformed"}}
    BY DecodeErrors
  <2> HIDE DEF decoded
  <2>3. decoded.err # NoError => NewErrorCategory("Malformed", decoded.err) = {"Malformed"}
    BY <2>2 DEF NewErrorCategory
  <2>4. {"Malformed"} # {"NotApplicable"} /\ NoError # {"NotApplicable"} /\ {"Malformed"} # NoError
    BY DEF NoError
  <2>5. CASE decoded.err = NoError
    <3>1. ReadArtifact(values).err = NoError
      BY <2>1, <2>5
    <3> QED
      BY <2>4, <3>1
  <2>6. CASE decoded.err = {"Malformed"}
    <3>1. ReadArtifact(values) = Failure({"Malformed"}, NoJwt)
      BY <2>1, <2>3, <2>4, <2>6
    <3> QED
      BY <1>1, <2>4, <3>1
  <2> QED
    BY <2>2, <2>5, <2>6
<1> QED
  BY <1>2, <1>3, <1>4, <1>5, <1>6

LEMMA ReadPresented ==
    ASSUME NEW values, NEW token, IsToken(token), Presented(values, token)
    PROVE  /\ DOMAIN values = 1 .. Len(values)
           /\ ReadArtifact(values).err = NoError => Decoded(ReadArtifact(values).value, token)
<1>1. PICK raw : values = <<Bearer(raw)>> /\ Spells(raw, token)
  BY DEF Presented
<1>2. /\ values # <<>> /\ Len(values) = 1 /\ DOMAIN values = 1 .. Len(values)
      /\ values[1] = Bearer(raw)
  BY <1>1
<1>3. Bearer(raw).bearer = TRUE /\ Bearer(raw).credential = "whole" /\ Bearer(raw).text = raw
  BY DEF Bearer
<1>4. ReadArtifact(values) =
        IF Decode(raw).err = NoError THEN Decode(raw)
        ELSE Failure(NewErrorCategory("Malformed", Decode(raw).err), NoJwt)
  BY <1>2, <1>3 DEF ReadArtifact
<1>5. NewErrorCategory("Malformed", Decode(raw).err) # NoError
  BY DEF NewErrorCategory, NoError
<1>6. Failure(NewErrorCategory("Malformed", Decode(raw).err), NoJwt).err # NoError
  BY <1>5 DEF Failure
<1> QED
  BY <1>1, <1>2, <1>4, <1>6, DecodedFromSpelt

(* Whatever is read was decoded from the one value there is *)
LEMMA ReadIsDecoded ==
    ASSUME NEW values, ReadArtifact(values).err = NoError
    PROVE  /\ ReadArtifact(values).value = Decode(values[1].text).value
           /\ ReadArtifact(values).value.parsed = TRUE
           /\ ReadArtifact(values).value # NoJwt
<1>1. \A e, v : Failure(e, v).err = e
  BY DEF Failure
<1>2. NewErrorCategory("Malformed", Decode(values[1].text).err) # NoError
  BY DEF NewErrorCategory, NoError
<1>3. \A e, v : e # NoError => ReadArtifact(values) # Failure(e, v)
  BY <1>1
<1>4. {"NotApplicable"} # NoError /\ {"Unauthenticated"} # NoError /\ {"Malformed"} # NoError
  BY DEF NoError
<1>5. ReadArtifact(values) = Decode(values[1].text) /\ Decode(values[1].text).err = NoError
  BY <1>2, <1>3, <1>4, Zenon DEF ReadArtifact
<1> DEFINE raw == values[1].text
<1>6. Decode(raw) = Success([header |-> Unwrap(raw[1]), claims |-> Unwrap(raw[2]),
                             signature |-> raw[3], parsed |-> TRUE])
  BY <1>1, <1>4, <1>5, Zenon DEF Decode
<1> HIDE DEF raw
<1>7. Decode(raw).value.parsed = TRUE
  BY <1>6 DEF Success
<1>8. NoJwt.parsed = FALSE
  BY DEF NoJwt
<1> QED
  BY <1>5, <1>7, <1>8 DEF raw

LEMMA CarrierIsRead ==
    ASSUME Lineage
    PROVE  /\ DOMAIN carrier = 1 .. Len(carrier)
           /\ ReadArtifact(carrier).err = NoError /\ ~foreign =>
                issued # NotIssued /\ Decoded(ReadArtifact(carrier).value, issued.token)
<1>1. CASE carrier = <<>>
  <2>1. ReadArtifact(carrier).err = {"NotApplicable"}
    BY <1>1 DEF ReadArtifact, Failure
  <2> QED
    BY <1>1, <2>1 DEF NoError
<1>2. CASE issued # NotIssued /\ Presented(carrier, issued.token)
  <2>1. IsToken(issued.token)
    BY <1>2 DEF Lineage, IssuedWell
  <2> QED
    BY <1>2, <2>1, ReadPresented
<1>3. CASE foreign
  BY <1>3, OthersAssumption DEF Lineage
<1> QED
  BY <1>1, <1>2, <1>3 DEF Lineage

(* The token that is judged, and whose it is *)
LEMMA ArtifactIsRead ==
    ASSUME Lineage, artifact # NoJwt
    PROVE  /\ artifact = Decode(carrier[1].text).value /\ artifact.parsed = TRUE
           /\ ~foreign => /\ issued # NotIssued /\ IssuedWell
                          /\ Decoded(artifact, issued.token)
                          /\ artifact.claims = issued.token.claims
           /\ foreign => artifact \in ForeignTokens
<1>1. ReadArtifact(carrier).err = NoError /\ artifact = ReadArtifact(carrier).value
  BY DEF Lineage
<1>2. ~foreign => /\ issued # NotIssued /\ IssuedWell /\ Decoded(artifact, issued.token)
  BY <1>1, CarrierIsRead DEF Lineage
<1>3. foreign => artifact \in ForeignTokens
  BY <1>1 DEF Lineage, ForeignTokens
<1> QED
  BY <1>1, <1>2, <1>3, ReadIsDecoded DEF Decoded, Copies

LEMMA LineageInit == Init => Lineage
<1> SUFFICES ASSUME Init PROVE Lineage
  OBVIOUS
<1>1. skew \in Int /\ clock = 0 /\ checked = 0
  BY AccessAssumption DEF Init
<1>2. issued = NotIssued /\ text = <<>> /\ held = NoJwt /\ artifact = NoJwt /\ pc = "idle"
  BY DEF Init
<1>3. carrier = <<>> /\ foreign = FALSE
  BY DEF Init
<1> QED
  BY <1>1, <1>2, <1>3 DEF Lineage

(* The token jwt.Issuer.Issue makes of a template *)
LEMMA IssuedIsWell ==
    ASSUME Lineage, IssueToken
    PROVE  issued' # NotIssued /\ IssuedWell' /\ text' = Encode(issued'.token).value
<1>1. PICK template \in Templates, lifetime \in Lifetimes, dated \in BOOLEAN, bytes \in Signatures :
        LET token == [header |-> template.header,
                      claims |-> [template.claims EXCEPT
                                        !.says = Stamped(template, lifetime, dated)],
                      signature |-> [NoPart EXCEPT !.bytes = bytes],
                      parsed |-> FALSE]
        IN  /\ issued' = [token |-> token, at |-> clock, lifetime |-> lifetime, nbf |-> dated]
            /\ text' = Encode(token).value
  BY DEF IssueToken
<1> DEFINE says == Stamped(template, lifetime, dated)
           claims == [template.claims EXCEPT !.says = says]
           signature == [NoPart EXCEPT !.bytes = bytes]
           token == [header |-> template.header, claims |-> claims,
                     signature |-> signature, parsed |-> FALSE]
<1>2. Dated(says, clock, lifetime, dated)
  <2> DEFINE old == template.claims.says
             iat == Date("int64", clock)
             exp == IF lifetime = 0 THEN NoDate ELSE Date("int64", clock + lifetime)
             nbf == IF dated THEN Date("int64", clock) ELSE NoDate
  <2>1. says = [old EXCEPT !.iat = iat, !.exp = exp, !.nbf = nbf]
    BY Zenon DEF Stamped
  <2>2. {"iat", "exp", "nbf"} \subseteq DOMAIN old
    BY TemplateAssumption
  <2> HIDE DEF old, iat, exp, nbf
  <2>3. says.iat = iat /\ says.exp = exp /\ says.nbf = nbf
    BY <2>1, <2>2
  <2> HIDE DEF says
  <2> QED
    BY <2>3, Zenon DEF Dated, iat, exp, nbf
<1>3. IsFresh(template.header) /\ IsFresh(template.claims)
  BY TemplateAssumption
<1> HIDE DEF says
<1>4. IsFresh(claims) /\ claims.says = says
  BY <1>3 DEF IsFresh, IsPart
<1>5. IsPart(signature) /\ signature.bytes = bytes /\ (bytes = 0 => signature = NoPart)
  <2>1. IsPart(NoPart) /\ NoPart.bytes = 0 /\ bytes \in Nat
    BY AccessAssumption DEF IsPart, NoPart
  <2>2. /\ IsPart(signature) /\ signature.bytes = bytes /\ signature.says = NoPart.says
        /\ signature.json = NoPart.json /\ signature.layers = NoPart.layers
    BY <2>1 DEF IsPart
  <2> HIDE DEF signature
  <2> QED
    BY <2>1, <2>2, PartsAreTheirFields
<1> HIDE DEF claims, signature
<1>6. IsToken(token)
  <2>1. /\ token.header = template.header /\ token.claims = claims
        /\ token.signature = signature
    OBVIOUS
  <2>2. bytes \in Nat
    BY AccessAssumption
  <2> HIDE DEF token
  <2> QED
    BY <1>3, <1>4, <1>5, <2>1, <2>2 DEF IsToken, Signed
<1>7. token.header.bytes > 0 /\ token.claims = claims
  BY <1>3 DEF IsFresh
<1>8. /\ issued' = [token |-> token, at |-> clock, lifetime |-> lifetime, nbf |-> dated]
      /\ text' = Encode(token).value
  BY <1>1, Zenon DEF says, claims, signature, token
<1> HIDE DEF token
<1>9. /\ issued'.token = token /\ issued'.at = clock /\ issued'.lifetime = lifetime
      /\ issued'.nbf = dated
  BY <1>8
<1>10. issued' # NotIssued
  BY <1>7, <1>9 DEF NotIssued, NoJwt, NoPart
<1>11. lifetime \in Nat /\ clock \in Nat /\ clock' = clock
  BY AccessAssumption DEF Lineage, IssueToken
<1>12. IsToken(issued'.token) /\ text' = Encode(issued'.token).value
  BY <1>6, <1>8, <1>9
<1>13. Dated(issued'.token.claims.says, issued'.at, issued'.lifetime, issued'.nbf)
  BY <1>2, <1>4, <1>7, <1>9
<1>14. /\ issued'.at \in Nat /\ issued'.at <= clock' /\ issued'.lifetime \in Nat
       /\ issued'.nbf \in BOOLEAN
  BY <1>9, <1>11
<1> QED
  BY <1>10, <1>12, <1>13, <1>14 DEF IssuedWell

LEMMA LineageNext == Lineage /\ [Next]_vars => Lineage'
<1> SUFFICES ASSUME Lineage, [Next]_vars PROVE Lineage'
  OBVIOUS
<1> DEFINE Rest == <<skew, issued, text, held, request, pc, artifact, checked>>
<1> USE DEF request, judgement
<1>1. CASE Tick
  <2>1. clock' \in Nat /\ clock <= clock'
    BY <1>1 DEF Tick, Lineage
  <2>2. UNCHANGED Rest
    BY <1>1 DEF Tick
  <2>3. IssuedWell => IssuedWell'
    BY <2>1, <2>2 DEF IssuedWell, Lineage
  <2> QED
    BY <2>1, <2>2, <2>3 DEF Lineage
<1>2. CASE IssueToken
  <2>1. issued = NotIssued /\ UNCHANGED <<skew, clock, held, request, pc, artifact, checked>>
    BY <1>2 DEF IssueToken
  <2>2. held = NoJwt /\ (~foreign => carrier = <<>>)
    BY <2>1 DEF Lineage
  <2>3. issued' # NotIssued /\ IssuedWell' /\ text' = Encode(issued'.token).value
    BY <1>2, IssuedIsWell
  <2> QED
    BY <2>1, <2>2, <2>3 DEF Lineage
<1>3. CASE Receive
  <2>1. /\ text # <<>> /\ Decode(text).err = NoError /\ held' = Decode(text).value
        /\ UNCHANGED <<skew, clock, issued, text, request, pc, artifact, checked>>
    BY <1>3 DEF Receive
  <2>2. issued # NotIssued /\ IsToken(issued.token) /\ text = Encode(issued.token).value
    BY <2>1 DEF Lineage, IssuedWell
  <2>3. Spells(text, issued.token)
    BY <2>2, CopiesAreSpelt, TokensCopyThemselves
  <2>4. Decoded(held', issued.token)
    BY <2>1, <2>2, <2>3, DecodedFromSpelt
  <2>5. IssuedWell => IssuedWell'
    BY <2>1 DEF IssuedWell
  <2> QED
    BY <2>1, <2>2, <2>4, <2>5 DEF Lineage
<1>4. ASSUME NEW values, NEW others \in BOOLEAN, Present(values, others),
             IF others THEN values \in OtherRequests
             ELSE issued # NotIssued /\ Presented(values, issued.token),
             held' # NoJwt => issued # NotIssued /\ Decoded(held', issued.token)
      PROVE  Lineage'
  <2>1. /\ carrier' = values /\ foreign' = others /\ pc' = "read" /\ artifact' = NoJwt
        /\ UNCHANGED <<skew, clock, issued, text, checked>>
    BY <1>4 DEF Present
  <2>2. IssuedWell => IssuedWell'
    BY <2>1 DEF IssuedWell
  <2> QED
    BY <1>4, <2>1, <2>2 DEF Lineage
<1>5. ASSUME NEW t, issued # NotIssued, Decoded(t, issued.token)
      PROVE  Presented(<<Bearer(Encode(t).value)>>, issued.token)
  BY <1>5, CopiesArePresented DEF Lineage, IssuedWell, Decoded
<1>6. CASE WriteArtifact
  <2>1. held # NoJwt /\ held' = held /\ Present(<<Bearer(Encode(held).value)>>, FALSE)
    BY <1>6 DEF WriteArtifact
  <2>2. issued # NotIssued /\ Decoded(held, issued.token)
    BY <2>1 DEF Lineage
  <2> QED
    BY <1>4, <1>5, <2>1, <2>2
<1>7. CASE PresentText
  <2>1. text # <<>> /\ held' = held /\ Present(<<Bearer(text)>>, FALSE)
    BY <1>7 DEF PresentText
  <2>2. issued # NotIssued /\ IsToken(issued.token) /\ text = Encode(issued.token).value
    BY <2>1 DEF Lineage, IssuedWell
  <2>3. Presented(<<Bearer(text)>>, issued.token)
    BY <2>2, CopiesArePresented, TokensCopyThemselves
  <2>4. held' # NoJwt => issued # NotIssued /\ Decoded(held', issued.token)
    BY <2>1 DEF Lineage
  <2> QED
    BY <1>4, <2>1, <2>2, <2>3, <2>4
<1>8. CASE PresentOther
  <2>1. PICK values \in OtherRequests : Present(values, TRUE)
    BY <1>8 DEF PresentOther
  <2>2. held' = held
    BY <1>8 DEF PresentOther
  <2>3. held' # NoJwt => issued # NotIssued /\ Decoded(held', issued.token)
    BY <2>2 DEF Lineage
  <2> QED
    BY <1>4, <2>1, <2>3
<1>9. CASE PassOn
  <2>1. /\ artifact # NoJwt /\ held' = artifact /\ ~foreign
        /\ Present(<<Bearer(Encode(artifact).value)>>, FALSE)
    BY <1>9 DEF PassOn
  <2>2. issued # NotIssued /\ Decoded(artifact, issued.token)
    BY <2>1, ArtifactIsRead
  <2> QED
    BY <1>4, <1>5, <2>1, <2>2
<1>10. CASE Read
  <2> DEFINE read == ReadArtifact(carrier)
  <2>1. /\ artifact' = read.value
        /\ UNCHANGED <<skew, clock, issued, text, held, carrier, foreign, checked>>
        /\ pc' \in {"validate", "idle"} /\ (pc' = "validate" => read.err = NoError)
    BY <1>10, Zenon DEF Read, Return, Refuse
  <2>2. read.err = NoError => read.value # NoJwt
    BY ReadIsDecoded
  <2>3. read.err # NoError => read.value = NoJwt
    BY CarrierIsRead, ReadErrors
  <2>4. IssuedWell => IssuedWell'
    BY <2>1 DEF IssuedWell
  <2>5. pc' = "validate" => artifact' # NoJwt
    BY <2>1, <2>2
  <2>6. artifact' # NoJwt =>
          ReadArtifact(carrier').err = NoError /\ artifact' = ReadArtifact(carrier').value
    BY <2>1, <2>3
  <2> HIDE DEF read
  <2>7. pc' \notin {"validate", "resolve"} \/ artifact' # NoJwt
    BY <2>1, <2>5
  <2> QED
    BY <2>1, <2>4, <2>6, <2>7 DEF Lineage
<1>11. CASE Validate \/ Resolve
  <2>1. /\ UNCHANGED <<skew, clock, issued, text, held, carrier, foreign, artifact>>
        /\ checked' \in {checked, clock}
        /\ pc \in {"validate", "resolve"}
    BY <1>11 DEF Validate, Resolve
  <2>2. IssuedWell => IssuedWell'
    BY <2>1 DEF IssuedWell
  <2> QED
    BY <2>1, <2>2 DEF Lineage
<1>12. CASE UNCHANGED vars
  <2>1. IssuedWell => IssuedWell'
    BY <1>12 DEF IssuedWell, vars
  <2> QED
    BY <1>12, <2>1 DEF Lineage, vars
<1> QED
  BY <1>1, <1>2, <1>3, <1>6, <1>7, <1>8, <1>9, <1>10, <1>11, <1>12 DEF Next, Finished

(* Whatever is held, carried or read and not somebody else's is the token that
   was issued, decoded or spelt some number of times (Encoder, Decoder, Reader,
   Writer): the inductive invariant of the token's way. *)
THEOREM LineageHolds == Spec => []Lineage
<1> QED
  BY LineageInit, LineageNext, PTL DEF Spec

(***************************************************************************)
(* The limits of the decoder are exact for every token and every limit,    *)
(* and a token without a signature travels unchanged (Encoder, Decoder).   *)
(***************************************************************************)
THEOREM LimitsMeanTheirBytes == Spec => []LimitsAreExact
<1>1. ASSUME NEW token, NEW t, IsToken(token), Copies(t, token)
      PROVE  Decode(Encode(t).value).err = NoError <=> Fits(t)
  <2>1. Decode(Encode(t).value).err = IF Exceeds(Encode(t).value) THEN {"Malformed"} ELSE NoError
    BY <1>1, CopiesAreSpelt, SpeltIsDecoded
  <2>2. Exceeds(Encode(t).value) <=> ~Fits(t)
    BY <1>1, ExceedsIsNotFits
  <2> QED
    BY <2>1, <2>2 DEF NoError
<1>2. Lineage => LimitsAreExact
  <2> SUFFICES ASSUME Lineage PROVE LimitsAreExact
    OBVIOUS
  <2>1. ASSUME text # <<>> PROVE Decode(text).err = NoError <=> Fits(issued.token)
    <3>1. IsToken(issued.token) /\ text = Encode(issued.token).value
      BY <2>1 DEF Lineage, IssuedWell
    <3> QED
      BY <3>1, <1>1, TokensCopyThemselves
  <2>2. ASSUME held # NoJwt PROVE Decode(Encode(held).value).err = NoError <=> Fits(held)
    <3>1. IsToken(issued.token) /\ Copies(held, issued.token)
      BY <2>2 DEF Lineage, IssuedWell, Decoded
    <3> QED
      BY <3>1, <1>1
  <2> QED
    BY <2>1, <2>2 DEF LimitsAreExact
<1> QED
  BY <1>2, LineageHolds, PTL

(* TokensTravel: the header and the claims, and all of a token without a
   signature, are what was issued, however often it was decoded and encoded
   (Encoder, Decoder). *)
THEOREM TokensTravelUnchanged == Spec => []TokensTravel
<1>1. Lineage => TokensTravel
  <2> SUFFICES ASSUME Lineage, held # NoJwt
               PROVE  /\ held.header = issued.token.header /\ held.claims = issued.token.claims
                      /\ ~Signed(issued.token) => Encode(held).value = text /\ Fits(held)
    BY DEF TokensTravel
  <2>1. IsToken(issued.token) /\ Decoded(held, issued.token)
    BY DEF Lineage, IssuedWell
  <2>2. Copies(held, issued.token)
    BY <2>1 DEF Decoded
  <2>3. ASSUME ~Signed(issued.token) PROVE Encode(held).value = text /\ Fits(held)
    <3>1. held.signature = issued.token.signature
      BY <2>1, <2>2, <2>3 DEF Copies, IsToken
    <3>2. Fits(held)
      BY <2>1, <2>2, <2>3, <3>1 DEF Decoded, Copies, Fits
    <3>3. Spells(Encode(held).value, issued.token)
      BY <2>1, <2>2, CopiesAreSpelt
    <3>4. Spells(Encode(issued.token).value, issued.token)
      BY <2>1, CopiesAreSpelt, TokensCopyThemselves
    <3>5. text = Encode(issued.token).value
      BY DEF Lineage
    <3> QED
      BY <2>3, <3>2, <3>3, <3>4, <3>5 DEF Spells
  <2> QED
    BY <2>2, <2>3 DEF Copies
<1> QED
  BY <1>1, LineageHolds, PTL

-----------------------------------------------------------------------------
(***************************************************************************)
(* What Authenticate has answered, while it works and after.               *)
(***************************************************************************)
(* The policy and the verifier have nothing against the token *)
Passed ==
    /\ verdicts = {NoError}
    /\ \A i \in DOMAIN Policy :
          Policy[i].kind = "issuer" => TextOr(artifact.claims.says.iss, "") = Policy[i].text

Judged ==
    /\ pc # "idle" => result = NoResult
    /\ pc = "resolve" => Passed
    /\ AdmittedInWindow
    /\ result.err \cap TimeFaults # {} /\ ~foreign =>
          artifact # NoJwt /\ ~(Timely /\ Covered)
    /\ PrincipalIsVerified
    /\ NotApplicableMeansNoBearer

LEMMA JudgedAnew ==
    ASSUME pc # "resolve", artifact = NoJwt, result = NoResult
    PROVE  Judged
<1>1. result.err = NoError
  BY DEF NoResult
<1>2. ~Admitted /\ result.err \cap TimeFaults = {}
  BY <1>1 DEF Admitted, NoError
<1> QED
  BY <1>1, <1>2 DEF Judged, AdmittedInWindow, PrincipalIsVerified, NotApplicableMeansNoBearer

LEMMA JudgedInit == Init => Judged
BY JudgedAnew DEF Init

LEMMA ReadKeepsJudged ==
    ASSUME Lineage, Judged, Read
    PROVE  Judged'
<1> DEFINE read == ReadArtifact(carrier)
<1>1. /\ pc = "read" /\ artifact' = read.value
      /\ UNCHANGED <<skew, clock, issued, text, held, carrier, foreign, checked, writes>>
      /\ IF read.err = NoError THEN pc' = "validate" /\ UNCHANGED result
         ELSE IF "NotApplicable" \in read.err THEN Return(read.err, NobodyYet)
         ELSE Refuse(read.err)
  BY Zenon DEF Read, request
<1>2. /\ read.err \in {NoError, {"NotApplicable"}, {"Unauthenticated"}, {"Malformed"}}
      /\ read.err # NoError => read.value = NoJwt
      /\ read.err = {"NotApplicable"} => \A i \in DOMAIN carrier : ~carrier[i].bearer
  BY CarrierIsRead, ReadErrors
<1>3. result = NoResult
  BY <1>1 DEF Judged
<1> HIDE DEF read
<1>4. CASE read.err = NoError
  <2>1. pc' = "validate" /\ result' = NoResult
    BY <1>1, <1>3, <1>4
  <2>2. result'.err = NoError /\ ~Admitted'
    BY <2>1 DEF NoResult, Admitted
  <2> QED
    BY <2>1, <2>2 DEF Judged, AdmittedInWindow, PrincipalIsVerified,
                      NotApplicableMeansNoBearer, NoError
<1>5. CASE read.err # NoError
  <2>1. pc' = "idle" /\ artifact' = NoJwt /\ carrier' = carrier
    BY <1>1, <1>2, <1>5 DEF Return, Refuse
  <2>2. \/ read.err = {"NotApplicable"} /\ result'.err = {"NotApplicable"}
        \/ "Unauthenticated" \in result'.err /\ result'.err \cap TimeFaults = {}
    BY <1>1, <1>2, <1>5 DEF Return, Refuse, NewErrorCategory, TimeFaults, NoError
  <2>3. ~Admitted' /\ result'.err \cap TimeFaults = {}
    BY <2>1, <2>2 DEF Admitted, TimeFaults
  <2>4. NotApplicableMeansNoBearer'
    BY <1>2, <2>1, <2>2 DEF NotApplicableMeansNoBearer
  <2> QED
    BY <2>1, <2>3, <2>4 DEF Judged, AdmittedInWindow, PrincipalIsVerified
<1> QED
  BY <1>4, <1>5

(* A token that no option objects to is of the issuer the policy names *)
LEMMA IssuersObjection ==
    ASSUME NEW header, NEW claims, NEW now, NEW i \in DOMAIN Policy,
           Policy[i].kind = "issuer", Objection(i, header, claims, now) = NoError
    PROVE  TextOr(claims.iss, "") = Policy[i].text
<1>1. Objection(i, header, claims, now) = TextFault(claims.iss, Policy[i].text, "WrongIssuer")
  BY DEF Objection, OptionFault
<1>2. claims.iss.form = "string" /\ claims.iss.value = Policy[i].text
  BY <1>1 DEF TextFault, NoError
<1> QED
  BY <1>2 DEF TextOr

LEMMA ValidateKeepsJudged ==
    ASSUME Lineage, Judged, Validate
    PROVE  Judged'
<1> DEFINE header == artifact.header.says
           says == artifact.claims.says
           Fault(verdict) == ValidateToken(Policy, header, says, TRUE, clock + skew, verdict)
<1>1. /\ artifact # NoJwt /\ artifact.parsed = TRUE
      /\ ~foreign => artifact.claims = issued.token.claims /\ IssuedWell
      /\ clock \in Nat /\ skew \in Int
  BY ArtifactIsRead DEF Validate, Lineage
<1>2. ~foreign => Dated(says, issued.at, issued.lifetime, issued.nbf)
  BY <1>1 DEF IssuedWell
<1>3. ~foreign => /\ issued.at \in Nat /\ issued.lifetime \in Nat /\ issued.nbf \in BOOLEAN
                  /\ issued.at <= clock /\ clock + skew \in Int
  BY <1>1 DEF IssuedWell
<1>4. /\ pc = "validate" /\ checked' = clock
      /\ UNCHANGED <<skew, issued, carrier, foreign, artifact>>
  BY DEF Validate, request
<1>5. PICK verdict \in VerifierFaults :
        /\ verdicts' = {verdict}
        /\ IF Fault(verdict) = NoError THEN pc' = "resolve" /\ UNCHANGED result
           ELSE Refuse(Fault(verdict))
  BY <1>1, Zenon DEF Validate
<1>6. result = NoResult
  BY <1>4 DEF Judged
<1>7. \A i \in Clocks : Leeway(i) \in Int
  BY PolicyType
<1>8. CASE Fault(verdict) = NoError
  <2>1. pc' = "resolve" /\ result' = NoResult
    BY <1>5, <1>6, <1>8
  <2>2. ASSUME ~foreign, NEW i \in Clocks
        PROVE  /\ issued.lifetime > 0 => clock + skew < issued.at + issued.lifetime + Leeway(i)
               /\ issued.nbf => clock + skew + Leeway(i) + Second > issued.at
    <3>1. ClockFault(says, TRUE, clock + skew, Leeway(i)) = NoError
      BY <1>8, AcceptedByTheClock
    <3> HIDE DEF says
    <3> QED
      BY <1>2, <1>3, <1>7, <2>2, <3>1, AcceptedInTime
  <2>3. AdmittedInWindow'
    BY <1>4, <2>2 DEF AdmittedInWindow, EndOfLife
  <2>4. ~Admitted' /\ result'.err = NoError
    BY <2>1 DEF Admitted, NoResult
  <2>5. /\ verdict = NoError
        /\ \A i \in DOMAIN Policy : Objection(i, header, says, clock + skew) = NoError
    BY <1>8, FirstObjectionDecides DEF NoError
  <2>6. Passed'
    <3>1. \A i \in DOMAIN Policy :
             Policy[i].kind = "issuer" => TextOr(says.iss, "") = Policy[i].text
      BY <2>5, IssuersObjection
    <3> QED
      BY <1>4, <1>5, <2>5, <3>1 DEF Passed
  <2> QED
    BY <2>1, <2>3, <2>4, <2>6 DEF Judged, PrincipalIsVerified, NotApplicableMeansNoBearer, NoError
<1>9. CASE Fault(verdict) # NoError
  <2>1. pc' = "idle" /\ result'.err = {"Unauthenticated"} \cup Fault(verdict)
    <3>1. Refuse(Fault(verdict))
      BY <1>5, <1>9
    <3> HIDE DEF Fault
    <3> QED
      BY <3>1 DEF Refuse, Return, NewErrorCategory
  <2>2. ASSUME result'.err \cap TimeFaults # {}, ~foreign,
               \A i \in Clocks : -Leeway(i) <= skew /\ skew <= Leeway(i)
        PROVE  ~(issued.lifetime > 0 => clock + Second <= issued.at + issued.lifetime)
    <3>1. Fault(verdict) \cap TimeFaults # {}
      BY <2>1, <2>2 DEF TimeFaults
    <3>2. PICK i \in Clocks : ClockFault(says, TRUE, clock + skew, Leeway(i)) \cap TimeFaults # {}
      BY <3>1, RefusedByTheClock
    <3> HIDE DEF says
    <3> QED
      BY <1>1, <1>2, <1>3, <1>7, <2>2, <3>2, RefusedInTime
  <2>3. result'.err \cap TimeFaults # {} /\ ~foreign' => ~(Timely /\ Covered)'
    BY <1>4, <2>2 DEF Timely, Covered, EndOfLife
  <2>4. "Unauthenticated" \in result'.err /\ result'.err # NoError
    BY <2>1 DEF NoError
  <2>5. ~Admitted' /\ pc' # "resolve"
    BY <2>1, <2>4 DEF Admitted
  <2> QED
    BY <1>1, <1>4, <2>1, <2>3, <2>4, <2>5
       DEF Judged, AdmittedInWindow, PrincipalIsVerified, NotApplicableMeansNoBearer
<1> QED
  BY <1>8, <1>9

LEMMA ResolveKeepsJudged ==
    ASSUME Lineage, Judged, Resolve
    PROVE  Judged'
<1> DEFINE claims == artifact.claims.says
<1>1. /\ artifact # NoJwt /\ artifact = Decode(carrier[1].text).value /\ Passed
      /\ ~foreign => artifact.claims = issued.token.claims /\ IssuedWell
  BY ArtifactIsRead DEF Resolve, Lineage, Judged
<1>2. /\ pc = "resolve" /\ pc' = "idle"
      /\ result' = [err |-> NoError, value |-> Resolution(claims)]
      /\ UNCHANGED <<skew, clock, issued, carrier, foreign, artifact, checked, verdicts>>
  BY DEF Resolve, Return, request
<1>3. ~foreign => claims.iat = Date("int64", issued.at)
  BY <1>1 DEF IssuedWell, Dated
<1>4. artifact.parsed = TRUE
  BY <1>1, ArtifactIsRead
<1>5. ~foreign => Numeric(claims.iat, TRUE) /\ claims.iat.value = Seconds(issued.at)
  BY <1>3, DateForms
<1> HIDE DEF claims
<1>6. /\ SpeaksOf(claims, Resolution(claims))
      /\ ~foreign /\ StandardClaims => Resolution(claims).iat = Seconds(issued.at)
  BY <1>4, <1>5 DEF Resolution, SpeaksOf
<1>7. PrincipalIsVerified'
  <2>1. /\ result'.value = Resolution(claims) /\ verdicts' = {NoError}
        /\ Decode(carrier'[1].text).value.claims.says = claims
        /\ ~foreign' => issued'.token.claims.says = claims /\ issued'.at = issued.at
    BY <1>1, <1>2 DEF claims, Passed
  <2>2. \A i \in DOMAIN Policy :
           Policy[i].kind = "issuer" => result'.value.iss = Policy[i].text
    BY <1>1, <1>6, <2>1 DEF Passed, claims, SpeaksOf
  <2>3. SpeaksOf(claims, result'.value)
    BY <1>6, <2>1
  <2>4. ~foreign' /\ StandardClaims => result'.value.iat = Seconds(issued'.at)
    BY <1>2, <1>6, <2>1
  <2> QED
    BY <2>1, <2>2, <2>3, <2>4 DEF PrincipalIsVerified, SpeaksOf
<1>8. AdmittedInWindow'
  BY <1>2 DEF Judged, AdmittedInWindow, EndOfLife
<1>9. result'.err = NoError
  BY <1>2
<1> QED
  BY <1>2, <1>7, <1>8, <1>9 DEF Judged, NotApplicableMeansNoBearer, NoError

LEMMA JudgedNext == Lineage /\ Judged /\ [Next]_vars => Judged'
<1> SUFFICES ASSUME Lineage, Judged, [Next]_vars PROVE Judged'
  OBVIOUS
<1>1. ASSUME UNCHANGED <<skew, issued, request, pc, judgement>>
      PROVE  Judged'
  BY <1>1 DEF Judged, Passed, AdmittedInWindow, Admitted, EndOfLife, Timely, Covered,
              PrincipalIsVerified, NotApplicableMeansNoBearer, request, judgement
<1>2. CASE IssueToken
  <2>1. issued = NotIssued /\ UNCHANGED <<request, pc, judgement>>
    BY <1>2 DEF IssueToken
  <2>2. ~foreign => artifact = NoJwt
    BY <2>1, ArtifactIsRead
  <2>3. ~foreign' => pc' # "resolve" /\ ~Admitted' /\ result'.err \cap TimeFaults = {}
    BY <2>1, <2>2 DEF Lineage, Judged, Admitted, request, judgement
  <2>4. PrincipalIsVerified'
    BY <2>1, <2>3 DEF Judged, PrincipalIsVerified, Admitted, request, judgement
  <2>5. (pc' = "resolve" => Passed') /\ NotApplicableMeansNoBearer'
    BY <2>1 DEF Judged, Passed, NotApplicableMeansNoBearer, request, judgement
  <2>6. AdmittedInWindow' /\ (pc' # "idle" => result' = NoResult)
    BY <2>1, <2>3 DEF Judged, AdmittedInWindow, judgement
  <2> QED
    BY <2>3, <2>4, <2>5, <2>6 DEF Judged
<1>3. ASSUME NEW values, NEW others, Present(values, others) PROVE Judged'
  <2>1. pc' = "read" /\ artifact' = NoJwt /\ result' = NoResult
    BY <1>3 DEF Present
  <2>2. result'.err = NoError /\ ~Admitted'
    BY <2>1 DEF NoResult, Admitted
  <2> QED
    BY <2>1, <2>2 DEF Judged, AdmittedInWindow, PrincipalIsVerified,
                      NotApplicableMeansNoBearer, NoError
<1>4. CASE Tick \/ Receive
  BY <1>1, <1>4 DEF Tick, Receive
<1>5. CASE WriteArtifact \/ PresentText \/ PresentOther \/ PassOn
  BY <1>3, <1>5 DEF WriteArtifact, PresentText, PresentOther, PassOn
<1>6. CASE UNCHANGED vars
  BY <1>1, <1>6 DEF vars
<1> QED
  BY <1>2, <1>4, <1>5, <1>6, ReadKeepsJudged, ValidateKeepsJudged, ResolveKeepsJudged
     DEF Next, Finished

(* What Authenticate has answered is right for the token it read and the
   instant it validated that: the inductive invariant of the resource server. *)
THEOREM JudgedHolds == Spec => []Judged
BY LineageHolds, JudgedInit, JudgedNext, PTL DEF Spec

(***************************************************************************)
(* No token is let through outside of its lifetime by more than the        *)
(* leeway, for every lifetime, leeway, skew and length of a second         *)
(* (WithValidClock).                                                       *)
(***************************************************************************)
THEOREM TokensAreAdmittedInTheirWindow == Spec => []AdmittedInWindow
<1>1. Judged => AdmittedInWindow
  BY DEF Judged
<1> QED
  BY <1>1, JudgedHolds, PTL

(***************************************************************************)
(* No token is held back within its lifetime where the clocks differ by no *)
(* more than the leeway (WithValidClock).                                  *)
(***************************************************************************)
THEOREM LeewayIsTolerance == Spec => []LeewayCoversSkew
<1>1. Judged => LeewayCoversSkew
  BY DEF Judged, LeewayCoversSkew, TimeFaults
<1> QED
  BY <1>1, JudgedHolds, PTL

(***************************************************************************)
(* Nobody is admitted on a token that the verifier or the policy object    *)
(* to, and as nobody but whom the token speaks of: with the issuer's token *)
(* whom the issuer wrote into it.  Tokens of others may be decodable, and  *)
(* without a verifier nothing tells them from the issuer's (Authenticator, *)
(* Validator, Resolver).                                                   *)
(***************************************************************************)
THEOREM PrincipalsAreVerified == Spec => []PrincipalIsVerified
<1>1. Judged => PrincipalIsVerified
  BY DEF Judged
<1> QED
  BY <1>1, JudgedHolds, PTL

(***************************************************************************)
(* No request with a bearer token is left to another authenticator         *)
(* (Authenticator, Reader).                                                *)
(***************************************************************************)
THEOREM BearersAreJudgedHere == Spec => []NotApplicableMeansNoBearer
<1>1. Judged => NotApplicableMeansNoBearer
  BY DEF Judged
<1> QED
  BY <1>1, JudgedHolds, PTL

-----------------------------------------------------------------------------
(***************************************************************************)
(* The types: what is said of the issued token comes out of a template.    *)
(***************************************************************************)
Named == {"iss", "sub"}
Traceable ==
    issued # NotIssued =>
        \E template \in Templates : \A claim \in Named :
            issued.token.claims.says[claim] = template.claims.says[claim]

Typed == TypeOK /\ Traceable

LEMMA SmallErrors == \A category \in Categories : {category} \in Errors
BY DEF Errors

LEMMA ObjectionsAreErrors ==
    ASSUME NEW header, NEW claims, NEW now, NEW i \in DOMAIN Policy, Policy[i].kind # "nil"
    PROVE  Objection(i, header, claims, now) \in Errors
<1>1. /\ NoError \in Errors
      /\ \A category \in {"PolicyRejected", "Binding", "WrongIssuer", "WrongAudience",
                          "Malformed", "Expired", "NotYetValid"} : {category} \in Errors
  BY SmallErrors DEF Errors, NoError, Categories
<1>2. Policy[i].kind \in {"type", "nonce", "issuer", "audience", "clock"}
  BY PolicyType, AccessAssumption DEF ValidatorOptions
<1>3. \A claim, expected : \A category \in {"Binding", "WrongIssuer"} :
          TextFault(claim, expected, category) \in Errors
  BY <1>1 DEF TextFault
<1>4. \A claim, audiences : AudienceFault(claim, audiences) \in Errors
  BY <1>1 DEF AudienceFault
<1>5. \A parsed, leeway : ClockFault(claims, parsed, now, leeway) \in Errors
  BY <1>1 DEF ClockFault
<1>6. CASE Policy[i].kind = "type"
  BY <1>1, <1>6 DEF Objection, OptionFault
<1>7. CASE Policy[i].kind = "nonce"
  BY <1>3, <1>7 DEF Objection, OptionFault
<1>8. CASE Policy[i].kind = "issuer"
  BY <1>3, <1>8 DEF Objection, OptionFault
<1>9. CASE Policy[i].kind = "audience"
  BY <1>4, <1>9 DEF Objection, OptionFault
<1>10. CASE Policy[i].kind = "clock"
  BY <1>5, <1>10 DEF Objection, OptionFault
<1> QED
  BY <1>2, <1>6, <1>7, <1>8, <1>9, <1>10

LEMMA ValidationErrors ==
    ASSUME NEW header, NEW claims, NEW now, NEW verdict \in VerifierFaults
    PROVE  ValidateToken(Policy, header, claims, TRUE, now, verdict) \in Errors
<1> DEFINE fault == ValidateToken(Policy, header, claims, TRUE, now, verdict)
<1>1. {"Misconfigured"} \in Errors /\ verdict \in Errors
  BY SmallErrors, AccessAssumption DEF Categories
<1>2. CASE \E i \in DOMAIN Policy : Policy[i].kind = "nil"
  <2>1. fault = {"Misconfigured"}
    BY <1>2, Zenon DEF ValidateToken
  <2> HIDE DEF fault
  <2>2. fault \in Errors
    BY <1>1, <2>1
  <2> QED
    BY <2>2 DEF fault
<1>3. CASE ~ \E i \in DOMAIN Policy : Policy[i].kind = "nil"
  <2>1. \A i \in DOMAIN Policy : Objection(i, header, claims, now) \in Errors
    BY <1>3, ObjectionsAreErrors
  <2>2. \/ fault = {"Misconfigured"}
        \/ fault = verdict
        \/ \E i \in DOMAIN Policy : fault = Objection(i, header, claims, now)
    BY FirstObjectionDecides
  <2> HIDE DEF fault
  <2>3. fault \in Errors
    BY <1>1, <2>1, <2>2
  <2> QED
    BY <2>3 DEF fault
<1> QED
  BY <1>2, <1>3

LEMMA MoreErrors ==
    ASSUME NEW err \in Errors
    PROVE  /\ NewErrorCategory("Unauthenticated", err) \in Errors
           /\ NewErrorCategory("Malformed", err) \in Errors
BY DEF Errors, Categories, NewErrorCategory

LEMMA NobodyIsTyped == NobodyYet \in [iss : Names, sub : Names, iat : Int] /\ NoResult \in Results
<1>1. NobodyYet \in [iss : Names, sub : Names, iat : Int] /\ NoError \in Errors
  BY DEF NobodyYet, Names, Errors, NoError
<1> QED
  BY <1>1 DEF NoResult, Results

LEMMA RefusalsAreTyped ==
    ASSUME NEW err \in Errors
    PROVE  /\ Return(err, NobodyYet) => result' \in Results
           /\ Refuse(err) => result' \in Results
BY MoreErrors, NobodyIsTyped DEF Return, Refuse, Results

LEMMA TypedInit == Init => Typed
<1> SUFFICES ASSUME Init PROVE Typed
  OBVIOUS
<1>1. /\ issued.at = 0 /\ issued.lifetime = 0 /\ issued = NotIssued /\ clock = 0 /\ checked = 0
      /\ writes = 0 /\ pc = "idle" /\ skew \in Skews /\ result = NoResult
  BY DEF Init, NotIssued
<1>2. 0 \in 0 .. Horizon /\ 0 \in 0 .. MaxWrites
  BY AccessAssumption
<1> QED
  BY <1>1, <1>2, NobodyIsTyped DEF Typed, TypeOK, Traceable, Init

(* Dating a token changes nothing it says of anybody *)
LEMMA StampsKeepNames ==
    ASSUME NEW template \in Templates, NEW lifetime, NEW dated, NEW claim \in Named
    PROVE  Stamped(template, lifetime, dated)[claim] = template.claims.says[claim]
<1> DEFINE old == template.claims.says
           iat == Date("int64", clock)
           exp == IF lifetime = 0 THEN NoDate ELSE Date("int64", clock + lifetime)
           nbf == IF dated THEN Date("int64", clock) ELSE NoDate
<1>1. Stamped(template, lifetime, dated) = [old EXCEPT !.iat = iat, !.exp = exp, !.nbf = nbf]
  BY Zenon DEF Stamped
<1>2. {"iss", "sub", "iat", "exp", "nbf"} \subseteq DOMAIN old
  BY TemplateAssumption
<1> HIDE DEF old, iat, exp, nbf
<1>3. [old EXCEPT !.iat = iat, !.exp = exp, !.nbf = nbf][claim] = old[claim]
  BY <1>2 DEF Named
<1> QED
  BY <1>1, <1>3 DEF old

LEMMA IssuedIsTyped == Typed /\ IssueToken => Typed'
<1> SUFFICES ASSUME Typed, IssueToken PROVE Typed'
  OBVIOUS
<1>1. PICK template \in Templates, lifetime \in Lifetimes, dated \in BOOLEAN, bytes \in Signatures :
        issued' = [token |-> [header |-> template.header,
                              claims |-> [template.claims EXCEPT
                                                !.says = Stamped(template, lifetime, dated)],
                              signature |-> [NoPart EXCEPT !.bytes = bytes],
                              parsed |-> FALSE],
                   at |-> clock, lifetime |-> lifetime, nbf |-> dated]
  BY Zenon DEF IssueToken
<1> DEFINE says == Stamped(template, lifetime, dated)
           claims == [template.claims EXCEPT !.says = says]
<1>2. "says" \in DOMAIN template.claims
  BY TemplateAssumption DEF IsFresh, IsPart
<1> HIDE DEF says
<1>3. claims.says = says
  BY <1>2
<1> HIDE DEF claims
<1>4. issued'.token.claims = claims /\ issued'.at = clock /\ issued'.lifetime = lifetime
  BY <1>1 DEF claims, says
<1>5. \A claim \in Named : says[claim] = template.claims.says[claim]
  BY StampsKeepNames DEF says
<1>6. Traceable'
  BY <1>3, <1>4, <1>5 DEF Traceable
<1>7. UNCHANGED <<skew, clock, foreign, pc, artifact, checked, verdicts, result, writes>>
  BY DEF IssueToken, request, judgement
<1>8. TypeOK'
  BY <1>4, <1>7 DEF Typed, TypeOK
<1> QED
  BY <1>6, <1>8 DEF Typed

LEMMA NamesOfTokens ==
    ASSUME NEW token \in Tokens
    PROVE  /\ TextOr(token.claims.says.iss, "") \in Names
           /\ TextOr(token.claims.says.sub, "") \in Names
BY DEF Names

LEMMA ResolvedIsTyped ==
    ASSUME Lineage, Typed, Resolve
    PROVE  result' \in Results
<1> DEFINE claims == artifact.claims.says
           Sourced == \E token \in Tokens : \A claim \in Named :
                         claims[claim] = token.claims.says[claim]
           HasDate == Numeric(claims.iat, TRUE) => claims.iat.value \in Int
<1>1. /\ pc = "resolve" /\ result' = [err |-> NoError, value |-> Resolution(claims)]
  BY DEF Resolve, Return
<1>2. artifact # NoJwt /\ artifact.parsed = TRUE
  BY <1>1, ArtifactIsRead DEF Lineage
<1>3. ASSUME foreign PROVE HasDate /\ Sourced
  <2>1. artifact \in ForeignTokens
    BY <1>2, <1>3, ArtifactIsRead
  <2>2. HasDate
    BY <2>1, OthersAssumption
  <2>3. Sourced
    BY <2>1 DEF Tokens
  <2> QED
    BY <2>2, <2>3
<1>4. ASSUME ~foreign PROVE HasDate /\ Sourced
  <2>1. artifact.claims = issued.token.claims /\ IssuedWell /\ issued # NotIssued
    BY <1>2, <1>4, ArtifactIsRead
  <2>2. claims.iat = Date("int64", issued.at) /\ issued.at \in Nat
    BY <2>1 DEF IssuedWell, Dated
  <2>3. claims.iat.value \in Int
    BY <2>2, DateForms, RoundingDown
  <2>4. Sourced
    BY <2>1 DEF Typed, Traceable, Tokens
  <2> QED
    BY <2>3, <2>4
<1>5. HasDate /\ Sourced
  BY <1>3, <1>4
<1>6. TextOr(claims.iss, "") \in Names /\ TextOr(claims.sub, "") \in Names
  <2>1. PICK token \in Tokens : \A claim \in Named : claims[claim] = token.claims.says[claim]
    BY <1>5
  <2>2. claims["iss"] = token.claims.says["iss"] /\ claims["sub"] = token.claims.says["sub"]
    BY <2>1 DEF Named
  <2> HIDE DEF claims
  <2> QED
    BY <2>2, NamesOfTokens, Zenon
<1> HIDE DEF claims, Sourced
<1>7. Resolution(claims) \in [iss : Names, sub : Names, iat : Int]
  <2>1. HasDate
    BY <1>5
  <2> DEFINE dated == StandardClaims /\ Numeric(claims.iat, artifact.parsed)
             iat == IF dated THEN claims.iat.value ELSE 0
  <2>2. dated => claims.iat.value \in Int
    BY <1>2, <2>1 DEF Numeric
  <2> HIDE DEF dated
  <2>3. iat \in Int
    BY <2>2
  <2>4. Resolution(claims) =
          [iss |-> TextOr(claims.iss, ""), sub |-> TextOr(claims.sub, ""), iat |-> iat]
    BY Zenon DEF Resolution, dated
  <2> DEFINE iss == TextOr(claims.iss, "")
             sub == TextOr(claims.sub, "")
  <2>5. iss \in Names /\ sub \in Names
    BY <1>6
  <2> HIDE DEF iat, iss, sub
  <2>6. [iss |-> iss, sub |-> sub, iat |-> iat] \in [iss : Names, sub : Names, iat : Int]
    BY <2>3, <2>5
  <2> QED
    BY <2>4, <2>6, Zenon DEF iss, sub
<1>8. NoError \in Errors
  BY DEF NoError, Errors
<1> QED
  BY <1>1, <1>7, <1>8 DEF Results

LEMMA TypedNext == Lineage /\ Lineage' /\ Judged /\ Typed /\ [Next]_vars => Typed'
<1> SUFFICES ASSUME Lineage, Lineage', Judged, Typed, [Next]_vars PROVE Typed'
  OBVIOUS
<1>1. ASSUME UNCHANGED <<skew, issued>>, clock' \in 0 .. Horizon, checked' \in 0 .. Horizon,
             writes' \in 0 .. MaxWrites, pc' \in {"idle", "read", "validate", "resolve"},
             result' \in Results, foreign' \in BOOLEAN, verdicts' \subseteq VerifierFaults
      PROVE  Typed'
  BY <1>1 DEF Typed, TypeOK, Traceable, Lineage
<1>2. CASE Tick
  <2>1. clock' \in 0 .. Horizon
    BY <1>2 DEF Tick, Typed, TypeOK
  <2>2. UNCHANGED <<skew, issued, checked, writes, pc, result, foreign, verdicts>>
    BY <1>2 DEF Tick, request, judgement
  <2> QED
    BY <1>1, <2>1, <2>2 DEF Typed, TypeOK
<1>3. CASE IssueToken
  BY <1>3, IssuedIsTyped
<1>4. CASE Receive
  <2>1. UNCHANGED <<skew, clock, issued, checked, writes, pc, result, foreign, verdicts>>
    BY <1>4 DEF Receive, request, judgement
  <2> QED
    BY <1>1, <2>1 DEF Typed, TypeOK
<1>5. ASSUME NEW values, NEW others \in BOOLEAN, Present(values, others) PROVE Typed'
  <2>1. /\ writes' = writes + 1 /\ writes < MaxWrites /\ pc' = "read" /\ result' = NoResult
        /\ foreign' = others /\ verdicts' = {}
        /\ UNCHANGED <<skew, clock, issued, checked>>
    BY <1>5 DEF Present
  <2>2. writes' \in 0 .. MaxWrites
    BY <2>1, AccessAssumption DEF Typed, TypeOK
  <2> QED
    BY <1>1, <2>1, <2>2, NobodyIsTyped DEF Typed, TypeOK
<1>6. CASE WriteArtifact \/ PresentText \/ PresentOther \/ PassOn
  BY <1>5, <1>6 DEF WriteArtifact, PresentText, PresentOther, PassOn
<1>7. CASE Read
  <2> DEFINE read == ReadArtifact(carrier)
  <2>1. UNCHANGED <<skew, clock, issued, checked, writes, foreign, verdicts>>
    BY <1>7 DEF Read, request
  <2>2. \/ pc' = "validate" /\ result' = result
        \/ pc' = "idle" /\ (Return(read.err, NobodyYet) \/ Refuse(read.err))
    BY <1>7, Zenon DEF Read, Return, Refuse
  <2>3. read.err \in Errors
    <3>1. read.err \in {NoError, {"NotApplicable"}, {"Unauthenticated"}, {"Malformed"}}
      BY CarrierIsRead, ReadErrors
    <3> HIDE DEF read
    <3> QED
      BY <3>1, SmallErrors DEF Categories, Errors, NoError
  <2> HIDE DEF read
  <2>4. result' \in Results
    BY <2>2, <2>3, RefusalsAreTyped DEF Typed, TypeOK
  <2> QED
    BY <1>1, <2>1, <2>2, <2>4 DEF Typed, TypeOK
<1>8. CASE Validate
  <2>1. /\ checked' = clock /\ UNCHANGED <<skew, clock, issued, writes, foreign>>
        /\ pc = "validate"
    BY <1>8 DEF Validate, request
  <2>2. artifact.parsed = TRUE
    BY <2>1, ArtifactIsRead DEF Lineage
  <2> DEFINE Fault(verdict) == ValidateToken(Policy, artifact.header.says, artifact.claims.says,
                                             TRUE, clock + skew, verdict)
  <2>3. PICK verdict \in VerifierFaults :
          /\ verdicts' = {verdict}
          /\ IF Fault(verdict) = NoError THEN pc' = "resolve" /\ UNCHANGED result
             ELSE Refuse(Fault(verdict))
    BY <1>8, <2>2, Zenon DEF Validate
  <2>4. Fault(verdict) \in Errors
    BY ValidationErrors
  <2> HIDE DEF Fault
  <2>5. pc' \in {"resolve", "idle"} /\ result' \in Results
    BY <2>3, <2>4, RefusalsAreTyped DEF Typed, TypeOK, Refuse, Return
  <2> QED
    BY <1>1, <2>1, <2>3, <2>5 DEF Typed, TypeOK
<1>9. CASE Resolve
  <2>1. UNCHANGED <<skew, clock, issued, checked, writes, foreign, verdicts>> /\ pc' = "idle"
    BY <1>9 DEF Resolve, Return, request
  <2> QED
    BY <1>1, <1>9, <2>1, ResolvedIsTyped DEF Typed, TypeOK
<1>10. CASE UNCHANGED vars
  <2>1. UNCHANGED <<skew, clock, issued, checked, writes, pc, result, foreign, verdicts>>
    BY <1>10 DEF vars, request, judgement
  <2> QED
    BY <1>1, <2>1 DEF Typed, TypeOK
<1> QED
  BY <1>2, <1>3, <1>4, <1>6, <1>7, <1>8, <1>9, <1>10 DEF Next, Finished

(***************************************************************************)
(* TypeOK: the variables keep their types; in particular no error outside  *)
(* of the known categories is returned, and no name that no token speaks   *)
(* of (Authenticator).                                                     *)
(***************************************************************************)
THEOREM BearerTypes == Spec => []TypeOK
<1>1. Typed => TypeOK
  BY DEF Typed
<1> QED
  BY <1>1, TypedInit, TypedNext, LineageHolds, JudgedHolds, PTL DEF Spec
=============================================================================
