------------------------- MODULE ClientConfigProofs -------------------------
(***************************************************************************)
(* A program that puts components together, for every catalogue of config  *)
(* options it may use: whatever New made of them works, and a validator it *)
(* made accepts the token types it allows.                                 *)
(***************************************************************************)
EXTENDS ClientConfig, ComponentProofs

-----------------------------------------------------------------------------
(***************************************************************************)
(* The New function of every kind.                                         *)
(***************************************************************************)
LEMMA JwtConstruct ==
    ASSUME NEW options
    PROVE  /\ Construct("jwt.Decoder", options) = Jwt!NewDecoder(options)
           /\ Construct("jwt.Encoder", options) = Jwt!NewEncoder(options)
           /\ Construct("jwt.Validator", options) = Jwt!NewValidator(options)
           /\ Construct("jwt.Issuer", options) = Jwt!NewIssuer(options)
           /\ Construct("jwt.Reader", options) = Jwt!NewReader(options)
           /\ Construct("jwt.Writer", options) = Jwt!NewWriter(options)
           /\ Construct("jwt.Resolver", options) = Jwt!NewResolver(options)
           /\ Construct("jwt.Authenticator", options) = Jwt!NewAuthenticator(options)
BY DEF Construct

LEMMA ClientConstruct ==
    ASSUME NEW options
    PROVE  /\ Construct("clientcredentials.Reader", options) = Client!NewReader(options)
           /\ Construct("clientcredentials.Writer", options) = Client!NewWriter(options)
           /\ Construct("clientcredentials.Validator", options) = Client!NewValidator(options)
           /\ Construct("clientcredentials.Resolver", options) = Client!NewResolver(options)
           /\ Construct("clientcredentials.Authenticator", options) =
                Client!NewAuthenticator(options)
BY DEF Construct

LEMMA RequestConstruct ==
    ASSUME NEW options
    PROVE  /\ Construct("tokenrequest.Reader", options) = Request!NewReader(options)
           /\ Construct("tokenrequest.Writer", options) = Request!NewWriter(options)
           /\ Construct("tokenrequest.Validator", options) = Request!NewValidator(options)
           /\ Construct("tokenrequest.Resolver", options) = Request!NewResolver(options)
           /\ Construct("tokenrequest.Authenticator", options) =
                Request!NewAuthenticator(options)
BY DEF Construct

LEMMA ResponseConstruct ==
    ASSUME NEW options
    PROVE  /\ Construct("tokenresponse.Encoder", options) = Response!NewEncoder(options)
           /\ Construct("tokenresponse.Writer", options) = Response!NewWriter(options)
           /\ Construct("tokenresponse.Decoder", options) = Response!NewDecoder(options)
           /\ Construct("tokenresponse.Reader", options) = Response!NewReader(options)
           /\ Construct("tokenresponse.Validator", options) = Response!NewValidator(options)
BY DEF Construct

LEMMA ConstructBuilds ==
    ASSUME NEW options, IsList(options), NEW kind \in Kinds
    PROVE  Builds(Construct(kind, options), kind, options, Zeros)
<1> DEFINE OK(k) == Builds(Construct(k, options), k, options, Zeros)
<1>1. /\ OK("jwt.Decoder") /\ OK("jwt.Encoder") /\ OK("jwt.Validator") /\ OK("jwt.Issuer")
      /\ OK("jwt.Reader") /\ OK("jwt.Writer") /\ OK("jwt.Resolver") /\ OK("jwt.Authenticator")
  BY JwtConstruct, NewComponentsAreSound
<1>2. /\ OK("clientcredentials.Reader") /\ OK("clientcredentials.Writer")
      /\ OK("clientcredentials.Validator") /\ OK("clientcredentials.Resolver")
      /\ OK("clientcredentials.Authenticator")
  BY ClientConstruct, NewComponentsAreSound
<1>3. /\ OK("tokenrequest.Reader") /\ OK("tokenrequest.Writer")
      /\ OK("tokenrequest.Validator") /\ OK("tokenrequest.Resolver")
      /\ OK("tokenrequest.Authenticator")
  BY RequestConstruct, NewComponentsAreSound
<1>4. /\ OK("tokenresponse.Encoder") /\ OK("tokenresponse.Writer")
      /\ OK("tokenresponse.Decoder") /\ OK("tokenresponse.Reader")
      /\ OK("tokenresponse.Validator")
  BY ResponseConstruct, NewComponentsAreSound
<1> HIDE DEF OK
<1>5. OK(kind)
  BY <1>1, <1>2, <1>3, <1>4 DEF Kinds
<1> QED
  BY <1>5 DEF OK

(* Parts, limits and the kind are different fields *)
LEMMA PartsAreNoLimits ==
    ASSUME NEW kind
    PROVE  DOMAIN PartKinds(kind) \cap (LimitsOf(kind) \cup {"is"}) = {}
<1> DEFINE limits == {"maxTokenBytes", "maxHeaderBytes", "maxClaimsBytes", "maxSignatureBytes",
                      "maxBodyBytes", "maxPayloadBytes", "is"}
<1>1. LimitsOf(kind) \subseteq limits
  BY DEF LimitsOf
<1>2. DOMAIN PartKinds(kind) \cap limits = {}
  BY DEF PartKinds
<1> QED
  BY <1>1, <1>2

LEMMA ZeroIsSound ==
    ASSUME NEW kind \in Kinds
    PROVE  Zero(kind) # Nil /\ Sound(Zero(kind), Zeros)
<1>1. Zero(kind).is = kind /\ DOMAIN Zero(kind) = {"is"}
  BY DEF Zero, Named
<1>2. kind # "nil"
  BY DEF Kinds
<1>3. Parts(Zero(kind)) \cap DOMAIN Zero(kind) = {}
  BY <1>1, PartsAreNoLimits DEF Parts
<1>4. Zero(kind) # Nil
  BY <1>1, <1>2, NilIs
<1> QED
  BY <1>3, <1>4, SoundOfParts DEF Zeros

-----------------------------------------------------------------------------
(***************************************************************************)
(* What the program made is nothing, or sound; what it answered is worth   *)
(* something as long as there is something to call.                        *)
(***************************************************************************)
BuiltInv ==
    /\ part = Nil \/ Sound(part, Zeros)
    /\ part = Nil => answer.err = NoError
    /\ BuiltComponentsWork

LEMMA BuiltInit == Init => BuiltInv
BY DEF Init, BuiltInv, BuiltComponentsWork, NoAnswer

LEMMA ZeroKeeps == ASSUME NEW kind \in Kinds PROVE BuiltInv /\ WriteZero(kind) => BuiltInv'
<1> SUFFICES ASSUME BuiltInv, WriteZero(kind) PROVE BuiltInv'
  OBVIOUS
<1>1. part = Nil /\ part' = Zero(kind) /\ answer' = answer
  BY DEF WriteZero
<1>2. answer'.err = NoError
  BY <1>1 DEF BuiltInv
<1> QED
  BY <1>1, <1>2, ZeroIsSound DEF BuiltInv, BuiltComponentsWork

(* The options a component is built with: none of them does it harm *)
LEMMA OptionsBuiltWith ==
    ASSUME BuiltInv, NEW kind \in Kinds,
           NEW names \in SeqOf(DOMAIN Catalogue[kind] \cup Takers(kind), MaxOptions)
    PROVE  LET options == [i \in DOMAIN names |-> Option(kind, names[i])] IN
           /\ IsList(names) /\ IsList(options)
           /\ \A i \in DOMAIN names : names[i] \in DOMAIN Catalogue[kind] \cup Takers(kind)
           /\ \A i \in DOMAIN options : Usable(options[i], kind, Zeros)
<1> DEFINE options == [i \in DOMAIN names |-> Option(kind, names[i])]
<1>1. PICK m \in 0 .. MaxOptions : names \in [1 .. m -> DOMAIN Catalogue[kind] \cup Takers(kind)]
  BY DEF SeqOf
<1>2. m \in Nat /\ DOMAIN names = 1 .. m
      /\ \A i \in DOMAIN names : names[i] \in DOMAIN Catalogue[kind] \cup Takers(kind)
  BY <1>1, CatalogueAssumption
<1>3. IsList(names) /\ IsList(options)
  BY <1>2 DEF IsList
<1>4. \A name \in DOMAIN Catalogue[kind] \cup Takers(kind) : Usable(Option(kind, name), kind, Zeros)
  <2> SUFFICES ASSUME NEW name \in DOMAIN Catalogue[kind] \cup Takers(kind)
               PROVE  Usable(Option(kind, name), kind, Zeros)
    OBVIOUS
  <2>1. CASE name \in DOMAIN Catalogue[kind]
    BY <2>1, CatalogueAssumption DEF Option
  <2>2. CASE name \notin DOMAIN Catalogue[kind]
    <3>1. name \in DOMAIN PartKinds(kind)
      BY <2>2 DEF Takers
    <3>2. name # "is" /\ name \notin LimitsOf(kind)
      BY <3>1, PartsAreNoLimits
    <3>3. Usable(Dependency(name, part), kind, Zeros)
      BY <3>2, OptionsAreUsable DEF BuiltInv
    <3> QED
      BY <2>2, <3>3 DEF Option
  <2> QED
    BY <2>1, <2>2
<1>5. \A i \in DOMAIN options : Usable(options[i], kind, Zeros)
  BY <1>2, <1>4
<1> QED
  BY <1>2, <1>3, <1>5

LEMMA BuildKeeps ==
    ASSUME NEW kind \in Kinds,
           NEW names \in SeqOf(DOMAIN Catalogue[kind] \cup Takers(kind), MaxOptions)
    PROVE  BuiltInv /\ Build(kind, names) => BuiltInv'
<1> SUFFICES ASSUME BuiltInv, Build(kind, names) PROVE BuiltInv'
  OBVIOUS
<1> DEFINE options == [i \in DOMAIN names |-> Option(kind, names[i])]
           made == Construct(kind, options)
<1>1. part' = made.value /\ answer' = NoAnswer
  BY DEF Build
<1>2. IsList(options) /\ \A i \in DOMAIN options : Usable(options[i], kind, Zeros)
  BY OptionsBuiltWith, Zenon
<1> HIDE DEF options
<1>3. part' = Nil \/ Sound(part', Zeros)
  BY <1>1, <1>2, ConstructBuilds DEF Builds
<1>4. answer'.err = NoError
  BY <1>1 DEF NoAnswer
<1> QED
  BY <1>3, <1>4 DEF BuiltInv, BuiltComponentsWork

LEMMA CallKeeps ==
    ASSUME NEW c \in Reached(part), NEW options \in CallOptions
    PROVE  BuiltInv /\ CallPart(c, options) => BuiltInv'
<1> SUFFICES ASSUME BuiltInv, CallPart(c, options) PROVE BuiltInv'
  OBVIOUS
<1> DEFINE given_ == IF c = part THEN options ELSE <<>>
<1>1. part # Nil /\ part' = part /\ answer' = [err |-> Call(c, given_), options |-> options]
  BY DEF CallPart
<1>2. c \in Zeros \/ ~Incomplete(c)
  BY <1>1 DEF BuiltInv, Sound
<1>3. ~Broken(<<>>)
  BY EmptyList DEF Broken
<1>4. Call(c, given_) # NoError => Incomplete(c) \/ Broken(RuntimeOptions(c)) \/ Broken(options)
  BY <1>3 DEF Call
<1>5. answer'.err = Call(c, given_) /\ answer'.options = options
  BY <1>1
<1> HIDE DEF given_
<1>6. Reached(part') = Reached(part)
  BY <1>1
<1>7. BuiltComponentsWork'
  BY <1>2, <1>4, <1>5, <1>6 DEF BuiltComponentsWork
<1> QED
  BY <1>1, <1>7 DEF BuiltInv

(* What every component is made of is there: the invariant behind the next theorem *)
THEOREM BuiltInvariant == Spec => []BuiltInv
<1>1. BuiltInv /\ [Next]_vars => BuiltInv'
  <2> SUFFICES ASSUME BuiltInv, [Next]_vars PROVE BuiltInv'
    OBVIOUS
  <2>1. ASSUME UNCHANGED vars PROVE BuiltInv'
    <3>1. part' = part /\ answer' = answer
      BY <2>1 DEF vars
    <3>2. Reached(part') = Reached(part)
      BY <3>1
    <3> QED
      BY <3>1, <3>2 DEF BuiltInv, BuiltComponentsWork
  <2> QED
    BY <2>1, ZeroKeeps, BuildKeeps, CallKeeps DEF Next, Stop
<1> QED
  BY <1>1, BuiltInit, PTL DEF Spec

(***************************************************************************)
(* BuiltComponentsWork: no call of a component that New returned fails or  *)
(* panics, whatever the options, but for a runtime option that is nil or   *)
(* drops the chain, or a zero value that the program handed over itself.   *)
(***************************************************************************)
THEOREM ComponentsWork == Spec => []BuiltComponentsWork
BY BuiltInvariant, PTL DEF BuiltInv
-----------------------------------------------------------------------------
(***************************************************************************)
(* What the client's validator is made of, option by option, and that one  *)
(* whose settings do not contradict each other accepts what it allows.     *)
(***************************************************************************)
Validating == "tokenresponse.Validator"

(* What NewValidator returns when it does *)
LEMMA ValidatorMade ==
    ASSUME NEW options, Response!NewValidator(options).err = NoError
    PROVE  LET v == Response!NewValidator(options).value IN
           /\ ~Faulty(options)
           /\ \A f \in DOMAIN DefaultResponseValidator :
                 v[f] = Assigned(options, f, DefaultResponseValidator[f])
           /\ ~(v.requireIDToken /\ ~v.allowIDToken)
<1> DEFINE made == New(DefaultResponseValidator, options)
<1>1. Response!New(Response!DefaultValidator, options) = made
  BY ResponseDefaultValidator, ResponseNew, Zenon
<1>2. \/ Response!NewValidator(options) = Failure({"Misconfigured"}, Nil)
      \/ /\ Response!NewValidator(options) = made
         /\ ~(made.err = NoError /\ made.value.requireIDToken /\ ~made.value.allowIDToken)
  BY <1>1, Zenon DEF Response!NewValidator, Response!Failure, Failure, Response!Nil, Nil,
     Response!NoError, NoError
<1>3. Failure({"Misconfigured"}, Nil).err # NoError
  BY DEF NoError, Failure
<1> HIDE DEF made
<1>4. /\ Response!NewValidator(options) = made /\ made.err = NoError
      /\ ~(made.value.requireIDToken /\ ~made.value.allowIDToken)
  BY <1>2, <1>3
<1>5. /\ ~Faulty(options)
      /\ \A f \in DOMAIN DefaultResponseValidator :
            made.value[f] = Assigned(options, f, DefaultResponseValidator[f])
  BY <1>4, MadeHasFields DEF made
<1> QED
  BY <1>4, <1>5

LEMMA ListedTypes ==
    ASSUME NEW types, Response!WithValidatorAllowedTokenTypes(types).does = "set"
    PROVE  LET option == Response!WithValidatorAllowedTokenTypes(types) IN
           /\ DOMAIN option.sets = {"allowedTokenTypes"}
           /\ option.sets["allowedTokenTypes"] = {Response!LowerCase(t) : t \in Range(types)}
           /\ "" \notin Range(types)
<1> DEFINE option == Response!WithValidatorAllowedTokenTypes(types)
           lower == {Response!LowerCase(t) : t \in Range(types)}
<1>1. \/ option = Fails
      \/ "" \notin Range(types) /\ option = SetField("allowedTokenTypes", lower)
  BY Zenon DEF Response!WithValidatorAllowedTokenTypes, Response!Fails, Fails, Response!Range,
     Range, Response!SetField, SetField, Response!Sets, Sets
<1> HIDE DEF option, lower
<1>2. "" \notin Range(types) /\ option = SetField("allowedTokenTypes", lower)
  BY <1>1, FailsSetsNothing DEF option
<1>3. DOMAIN option.sets = {"allowedTokenTypes"} /\ option.sets["allowedTokenTypes"] = lower
  BY <1>2, SetFieldSets
<1> QED
  BY <1>2, <1>3 DEF option, lower

LEMMA LowerCaseTwice ==
    \A t : /\ Response!LowerCase(Response!LowerCase(t)) = Response!LowerCase(t)
           /\ t # "" => Response!LowerCase(t) # ""
           /\ Validation!LowerCase(t) = Response!LowerCase(t)
BY DEF Response!LowerCase, Validation!LowerCase

(* A validator whose settings do not contradict each other *)
Agrees(v) ==
    /\ \A f \in Switches : v[f] \in BOOLEAN
    /\ ~(v.requireIDToken /\ ~v.allowIDToken)
    /\ \/ v.allowedIssuedTypes = Response!AnyIssuedType
       \/ v.allowedIssuedTypes \in (SUBSET IssuedTypes) \ {{}}

LEMMA NothingFound ==
    ASSUME NEW n
    PROVE  \A i \in DOMAIN <<n, n, n, n, n, n, n, n, n, n, n, n, n, n>> :
               <<n, n, n, n, n, n, n, n, n, n, n, n, n, n>>[i] = n
OBVIOUS

LEMMA LifetimeIsPositive == ~(1 < 0)
OBVIOUS

LEMMA AgreeingAccepts ==
    ASSUME Agrees(part), NEW t, t # "", Response!LowerCase(t) \in part.allowedTokenTypes
    PROVE  Accepts(t)
<1> DEFINE tokens == [k \in TokenKinds |->
                IF k = "access_token" \/ (k = "id_token" /\ part.requireIDToken)
                THEN "token" ELSE ""]
           any == part.allowedIssuedTypes = Response!AnyIssuedType
           issued == IF any THEN "urn:a" ELSE CHOOSE u \in part.allowedIssuedTypes : TRUE
           allowed == IF any THEN {} ELSE part.allowedIssuedTypes
           r == [tokens |-> tokens, token_type |-> t, lifetime |-> 1, scope |-> "",
                 issued_type |-> issued]
<1>1. tokens \in [TokenKinds -> Texts]
  BY DEF Texts
<1>2. /\ tokens["access_token"] = "token" /\ tokens["refresh_token"] = ""
      /\ tokens["id_token"] = IF part.requireIDToken THEN "token" ELSE ""
  BY DEF TokenKinds
<1>3. issued \in IssuedTypes /\ (allowed # {} => issued \in allowed)
  BY DEF Agrees, IssuedTypes
<1>4. issued # "" /\ issued \notin {"token"}
  BY <1>3 DEF IssuedTypes
<1> HIDE DEF tokens, issued, allowed, any
<1>5. Validation!ValidateResponse(r) = NoError
  <2> DEFINE has(k) == r.tokens[k] # ""
             type == r.issued_type
             verdict(k) == IF has(k) THEN [j \in TokenKinds |-> NoFaults][k][r.tokens[k]]
                           ELSE NoError
             c1 == Validation!Refuse(part.requireAccessToken /\ ~has("access_token"), "Malformed")
             c2 == Validation!Refuse(has("access_token") /\ r.token_type = "", "Malformed")
             c3 == Validation!Refuse(r.token_type # ""
                        /\ Validation!LowerCase(r.token_type) \notin part.allowedTokenTypes,
                      "PolicyRejected")
             c4 == Validation!Refuse(r.lifetime < 0, "Malformed")
             c5 == Validation!Refuse(Validation!IllFormedScope(r.scope), "Malformed")
             c6 == Validation!Refuse(part.requireIssuedType /\ type = "", "Malformed")
             c7 == Validation!Refuse(type # "" /\ ~has("access_token"), "Malformed")
             c8 == Validation!Refuse(type \in {"token"}, "Malformed")
             c9 == Validation!Refuse(type # "" /\ allowed # {} /\ type \notin allowed,
                                     "PolicyRejected")
             c10 == Validation!Refuse(has("id_token") /\ ~part.allowIDToken, "PolicyRejected")
             c11 == Validation!Refuse(~has("id_token") /\ part.requireIDToken, "Malformed")
             v1 == verdict("access_token")
             v2 == verdict("refresh_token")
             v3 == verdict("id_token")
             checks == <<c1, c2, c3, c4, c5, c6, c7, c8, c9, c10, c11, v1, v2, v3>>
  <2>1. Validation!ValidateResponse(r) = Validation!FirstFault(checks)
    BY Zenon DEF Validation!ValidateResponse, Validation!NoError, NoError, allowed, any
  <2>2. /\ r.tokens = tokens /\ r.token_type = t /\ r.lifetime = 1 /\ r.scope = ""
        /\ r.issued_type = issued
    OBVIOUS
  <2> HIDE DEF r
  <2>3. \A wrong, category : ~wrong => Validation!Refuse(wrong, category) = NoError
    BY Zenon DEF Validation!Refuse, Validation!NoError, NoError
  <2>4. c1 = NoError /\ c2 = NoError /\ c7 = NoError
    BY <1>2, <2>2, <2>3
  <2>5. c3 = NoError
    BY <2>2, <2>3, LowerCaseTwice
  <2>6. c4 = NoError
    <3>1. ~(r.lifetime < 0)
      BY <2>2, LifetimeIsPositive, Zenon
    <3> QED
      BY <2>3, <3>1, Zenon
  <2>7. c5 = NoError
    BY <2>2, <2>3 DEF Validation!IllFormedScope
  <2>8. c6 = NoError /\ c8 = NoError /\ c9 = NoError
    BY <1>3, <1>4, <2>2, <2>3
  <2>9. c10 = NoError /\ c11 = NoError
    BY <1>2, <2>2, <2>3 DEF Agrees
  <2>10. v1 = NoError /\ v2 = NoError /\ v3 = NoError
    BY <1>1, <1>2, <2>2 DEF NoFaults, Texts, TokenKinds
  <2> HIDE DEF c1, c2, c3, c4, c5, c6, c7, c8, c9, c10, c11, v1, v2, v3
  <2> DEFINE n == NoError
  <2>11. checks = <<n, n, n, n, n, n, n, n, n, n, n, n, n, n>>
    BY <2>4, <2>5, <2>6, <2>7, <2>8, <2>9, <2>10, Zenon
  <2> HIDE DEF checks
  <2>12. \A i \in DOMAIN checks : checks[i] = NoError
    BY <2>11, NothingFound, Zenon
  <2> QED
    BY <2>1, <2>12, Zenon DEF Validation!FirstFault, Validation!NoError, NoError
<1>6. issued \in {""} \cup IssuedTypes
  BY <1>3
<1> QED
  BY <1>1, <1>5, <1>6, Zenon DEF Accepts

-----------------------------------------------------------------------------
(***************************************************************************)
(* The validators that come out of New.                                    *)
(***************************************************************************)
Listing(names) == {i \in DOMAIN names : names[i] \in DOMAIN TypesListed}

(* What New promises of a validator built with these options *)
Promised(v, names) ==
    /\ Agrees(v)
    /\ \A t \in v.allowedTokenTypes : t # "" /\ Response!LowerCase(t) = t
    /\ Listing(names) # {} =>
          \A t \in Range(TypesListed[names[Max(Listing(names))]]) :
              t # "" /\ Response!LowerCase(t) \in v.allowedTokenTypes

ValidatorInv == BuiltValidator => Promised(part, given)

(* What one of its options, or the component at hand, sets *)
LEMMA ValidatorOption ==
    ASSUME NEW name \in DOMAIN Catalogue[Validating] \cup Takers(Validating),
           Option(Validating, name).does = "set"
    PROVE  LET sets == Option(Validating, name).sets IN
           /\ \A f \in Switches \cap DOMAIN sets : sets[f] \in BOOLEAN
           /\ "allowedIssuedTypes" \in DOMAIN sets =>
                 sets["allowedIssuedTypes"] \in (SUBSET IssuedTypes) \ {{}}
           /\ "allowedTokenTypes" \in DOMAIN sets <=> name \in DOMAIN TypesListed
           /\ name \in DOMAIN TypesListed =>
                /\ "" \notin Range(TypesListed[name])
                /\ sets["allowedTokenTypes"] =
                        {Response!LowerCase(t) : t \in Range(TypesListed[name])}
<1> DEFINE option == Option(Validating, name)
<1>1. CASE name \in DOMAIN TypesListed
  <2>1. name \in DOMAIN Catalogue[Validating]
        /\ Catalogue[Validating][name] = Response!WithValidatorAllowedTokenTypes(TypesListed[name])
    BY <1>1, CatalogueAssumption, Zenon DEF Validating
  <2>2. option = Response!WithValidatorAllowedTokenTypes(TypesListed[name])
    BY <2>1, Zenon DEF Option
  <2>3. /\ DOMAIN option.sets = {"allowedTokenTypes"}
        /\ option.sets["allowedTokenTypes"] =
                {Response!LowerCase(t) : t \in Range(TypesListed[name])}
        /\ "" \notin Range(TypesListed[name])
    BY <2>2, ListedTypes
  <2>4. Switches \cap DOMAIN option.sets = {} /\ "allowedIssuedTypes" \notin DOMAIN option.sets
    BY <2>3 DEF Switches
  <2> HIDE DEF option
  <2> QED
    BY <1>1, <2>3, <2>4 DEF option
<1>2. CASE name \notin DOMAIN TypesListed /\ name \in DOMAIN Catalogue[Validating]
  <2>1. Typed(option)
    BY <1>2, CatalogueAssumption, Zenon DEF Validating, Option
  <2> HIDE DEF option
  <2> QED
    BY <1>2, <2>1 DEF Typed, option
<1>3. CASE name \notin DOMAIN Catalogue[Validating]
  <2>1. name \in {"accessTokenValidator", "refreshTokenValidator", "idTokenValidator"}
    BY <1>3 DEF Takers, PartKinds, Validating
  <2>2. option = Dependency(name, part)
    BY <1>3, Zenon DEF Option
  <2>3. option = SetField(name, part)
    BY <2>2, FailsSetsNothing, Zenon DEF Dependency
  <2>4. DOMAIN option.sets = {name}
    BY <2>3, SetFieldSets
  <2>5. name \notin DOMAIN TypesListed
    BY <1>3, CatalogueAssumption, Zenon DEF Validating
  <2> HIDE DEF option
  <2> QED
    BY <2>1, <2>4, <2>5 DEF option, Switches
<1> QED
  BY <1>1, <1>2, <1>3

(* The options of a validator, by name: what of them lists token types *)
LEMMA PromiseKept ==
    ASSUME NEW names, IsList(names),
           \A i \in DOMAIN names :
              names[i] \in DOMAIN Catalogue[Validating] \cup Takers(Validating),
           NEW options, options = [i \in DOMAIN names |-> Option(Validating, names[i])],
           Response!NewValidator(options).err = NoError
    PROVE  Promised(Response!NewValidator(options).value, names)
<1> DEFINE v == Response!NewValidator(options).value
           default == DefaultResponseValidator
<1>1. /\ ~Faulty(options)
      /\ \A f \in DOMAIN default : v[f] = Assigned(options, f, default[f])
      /\ ~(v.requireIDToken /\ ~v.allowIDToken)
  BY ValidatorMade, Zenon
<1>2. /\ DOMAIN options = DOMAIN names /\ IsList(options)
      /\ \A i \in DOMAIN names : options[i] = Option(Validating, names[i])
  BY DEF IsList
<1>3. \A i \in DOMAIN names : options[i].does = "set"
  BY <1>1, <1>2 DEF Faulty
<1> DEFINE sets(i) == options[i].sets
<1>4. \A i \in DOMAIN names :
         /\ \A f \in Switches \cap DOMAIN sets(i) : sets(i)[f] \in BOOLEAN
         /\ "allowedIssuedTypes" \in DOMAIN sets(i) =>
               sets(i)["allowedIssuedTypes"] \in (SUBSET IssuedTypes) \ {{}}
         /\ "allowedTokenTypes" \in DOMAIN sets(i) <=> names[i] \in DOMAIN TypesListed
         /\ names[i] \in DOMAIN TypesListed =>
              /\ "" \notin Range(TypesListed[names[i]])
              /\ sets(i)["allowedTokenTypes"] =
                    {Response!LowerCase(t) : t \in Range(TypesListed[names[i]])}
  <2> SUFFICES ASSUME NEW i \in DOMAIN names
               PROVE  LET s == Option(Validating, names[i]).sets IN
                      /\ \A f \in Switches \cap DOMAIN s : s[f] \in BOOLEAN
                      /\ "allowedIssuedTypes" \in DOMAIN s =>
                            s["allowedIssuedTypes"] \in (SUBSET IssuedTypes) \ {{}}
                      /\ "allowedTokenTypes" \in DOMAIN s <=> names[i] \in DOMAIN TypesListed
                      /\ names[i] \in DOMAIN TypesListed =>
                           /\ "" \notin Range(TypesListed[names[i]])
                           /\ s["allowedTokenTypes"] =
                                 {Response!LowerCase(t) : t \in Range(TypesListed[names[i]])}
    BY <1>2, Zenon
  <2>1. Option(Validating, names[i]).does = "set"
    BY <1>2, <1>3, Zenon
  <2> QED
    BY <2>1, ValidatorOption, Zenon
<1>5. /\ {"allowedTokenTypes", "allowedIssuedTypes"} \cup Switches \subseteq DOMAIN default
      /\ \A f \in Switches : default[f] \in BOOLEAN
      /\ default["allowedTokenTypes"] = {"bearer"}
      /\ default["allowedIssuedTypes"] = Response!AnyIssuedType
  BY DEF DefaultResponseValidator, Switches, Response!AnyIssuedType
<1> HIDE DEF v, default
<1>6. \A f \in DOMAIN default :
         \/ v[f] = default[f]
         \/ \E i \in DOMAIN names : f \in DOMAIN sets(i) /\ v[f] = sets(i)[f]
  BY <1>1, <1>2, AssignedOrDefault
<1>7. Agrees(v)
  <2>1. \A f \in Switches : v[f] \in BOOLEAN
    BY <1>4, <1>5, <1>6
  <2>2. \/ v.allowedIssuedTypes = Response!AnyIssuedType
        \/ v.allowedIssuedTypes \in (SUBSET IssuedTypes) \ {{}}
    BY <1>4, <1>5, <1>6
  <2> QED
    BY <1>1, <2>1, <2>2 DEF Agrees
<1>8. \A t \in v.allowedTokenTypes : t # "" /\ Response!LowerCase(t) = t
  <2>1. CASE v["allowedTokenTypes"] = default["allowedTokenTypes"]
    BY <2>1, <1>5 DEF Response!LowerCase
  <2>2. ASSUME NEW i \in DOMAIN names, "allowedTokenTypes" \in DOMAIN sets(i),
               v["allowedTokenTypes"] = sets(i)["allowedTokenTypes"]
        PROVE  \A t \in v.allowedTokenTypes : t # "" /\ Response!LowerCase(t) = t
    <3>1. /\ "" \notin Range(TypesListed[names[i]])
          /\ v.allowedTokenTypes =
                {Response!LowerCase(t) : t \in Range(TypesListed[names[i]])}
      BY <1>4, <2>2
    <3> QED
      BY <3>1, LowerCaseTwice
  <2> QED
    BY <1>5, <1>6, <2>1, <2>2
<1>9. Setting(options, "allowedTokenTypes") = Listing(names)
  BY <1>2, <1>4 DEF Setting, Listing
<1>10. ASSUME Listing(names) # {}, NEW t \in Range(TypesListed[names[Max(Listing(names))]])
       PROVE  t # "" /\ Response!LowerCase(t) \in v.allowedTokenTypes
  <2> DEFINE last == Max(Listing(names))
  <2>1. last \in Listing(names)
    BY <1>2, <1>9, <1>10, LastSetting
  <2>2. last \in DOMAIN names /\ names[last] \in DOMAIN TypesListed
    BY <2>1 DEF Listing
  <2>3. v["allowedTokenTypes"] = sets(last)["allowedTokenTypes"]
    BY <1>1, <1>5, <1>9, <1>10, Zenon DEF Assigned
  <2> HIDE DEF last
  <2>4. /\ "" \notin Range(TypesListed[names[last]])
        /\ v.allowedTokenTypes = {Response!LowerCase(u) : u \in Range(TypesListed[names[last]])}
    BY <1>4, <2>2, <2>3
  <2>5. t \in Range(TypesListed[names[last]])
    BY <1>10 DEF last
  <2> HIDE DEF sets
  <2> QED
    BY <2>4, <2>5
<1> QED
  BY <1>7, <1>8, <1>10, Zenon DEF Promised, v

LEMMA ValidatorInit == Init => ValidatorInv
<1>1. Init => ~BuiltValidator
  BY DEF Init, BuiltValidator, Nil
<1> QED
  BY <1>1, Zenon DEF ValidatorInv

LEMMA ValidatorBuild ==
    ASSUME NEW kind \in Kinds,
           NEW names \in SeqOf(DOMAIN Catalogue[kind] \cup Takers(kind), MaxOptions)
    PROVE  BuiltInv /\ Build(kind, names) => ValidatorInv'
<1> SUFFICES ASSUME BuiltInv, Build(kind, names), BuiltValidator' PROVE Promised(part', given')
  BY Zenon DEF ValidatorInv
<1> DEFINE options == [i \in DOMAIN names |-> Option(kind, names[i])]
           made == Construct(kind, options)
<1>1. part' = made.value /\ given' = names /\ part'.is = Validating
  BY DEF Build, BuiltValidator, Validating
<1>2. /\ IsList(names) /\ IsList(options)
      /\ \A i \in DOMAIN names : names[i] \in DOMAIN Catalogue[kind] \cup Takers(kind)
      /\ \A i \in DOMAIN options : Usable(options[i], kind, Zeros)
  BY OptionsBuiltWith, Zenon
<1>3. Builds(made, kind, options, Zeros)
  BY <1>2, ConstructBuilds, Zenon
<1> HIDE DEF options, made
<1>4. made.err = NoError /\ kind = Validating
  <2>1. Nil.is # Validating
    BY DEF Nil, Validating
  <2> QED
    BY <1>1, <1>2, <1>3, <2>1 DEF Builds
<1>5. made = Response!NewValidator(options)
  BY <1>4, ResponseConstruct, Zenon DEF made, Validating
<1>6. options = [i \in DOMAIN names |-> Option(Validating, names[i])]
  BY <1>4, Zenon DEF options
<1>7. \A i \in DOMAIN names :
         names[i] \in DOMAIN Catalogue[Validating] \cup Takers(Validating)
  BY <1>2, <1>4, Zenon
<1>8. Promised(made.value, names)
  BY <1>2, <1>4, <1>5, <1>6, <1>7, PromiseKept, Zenon
<1> QED
  BY <1>1, <1>8, Zenon

(* What the validators promise: the invariant behind the next two theorems *)
THEOREM ValidatorInvariant == Spec => []ValidatorInv
<1>1. BuiltInv /\ ValidatorInv /\ [Next]_vars => ValidatorInv'
  <2> SUFFICES ASSUME BuiltInv, ValidatorInv, [Next]_vars PROVE ValidatorInv'
    OBVIOUS
  <2>1. ASSUME NEW kind \in Kinds, WriteZero(kind) PROVE ValidatorInv'
    <3>1. built' = 0
      BY <2>1 DEF WriteZero
    <3>2. ~BuiltValidator'
      BY <3>1 DEF BuiltValidator
    <3> QED
      BY <3>2, Zenon DEF ValidatorInv
  <2>2. ASSUME part' = part, given' = given, built' = built PROVE ValidatorInv'
    BY <2>2, Zenon DEF ValidatorInv, BuiltValidator
  <2>3. ASSUME NEW c \in Reached(part), NEW options \in CallOptions, CallPart(c, options)
        PROVE  ValidatorInv'
    BY <2>2, <2>3, Zenon DEF CallPart
  <2>4. ASSUME UNCHANGED vars PROVE ValidatorInv'
    BY <2>2, <2>4, Zenon DEF vars
  <2> QED
    BY <2>1, <2>3, <2>4, ValidatorBuild, Zenon DEF Next, Stop
<1> QED
  BY <1>1, ValidatorInit, BuiltInvariant, PTL DEF Spec

(***************************************************************************)
(* SomeResponseIsAccepted: whatever the options and their order, there is  *)
(* a response the validator accepts for each token type it allows.         *)
(***************************************************************************)
THEOREM ValidatorsAccept == Spec => []SomeResponseIsAccepted
<1>1. ValidatorInv => SomeResponseIsAccepted
  <2> SUFFICES ASSUME Promised(part, given), NEW t \in part.allowedTokenTypes PROVE Accepts(t)
    BY Zenon DEF ValidatorInv, SomeResponseIsAccepted
  <2>1. Agrees(part) /\ t # "" /\ Response!LowerCase(t) \in part.allowedTokenTypes
    BY Zenon DEF Promised
  <2> QED
    BY <2>1, AgreeingAccepts, Zenon
<1> QED
  BY <1>1, ValidatorInvariant, PTL

(***************************************************************************)
(* TypesAreAcceptedAsGiven: every token type that the last of the options  *)
(* to list any lists is accepted in the spelling it is listed in.          *)
(***************************************************************************)
THEOREM ListedTypesAreAccepted == Spec => []TypesAreAcceptedAsGiven
<1>1. ValidatorInv => TypesAreAcceptedAsGiven
  <2> DEFINE listing == {i \in DOMAIN given : given[i] \in DOMAIN TypesListed}
  <2> SUFFICES ASSUME Promised(part, given), listing # {},
                      NEW t \in Range(TypesListed[given[Max(listing)]])
               PROVE  Accepts(t)
    BY Zenon DEF ValidatorInv, TypesAreAcceptedAsGiven
  <2>1. listing = Listing(given)
    BY Zenon DEF Listing
  <2>2. Agrees(part) /\ t # "" /\ Response!LowerCase(t) \in part.allowedTokenTypes
    BY <2>1, Zenon DEF Promised
  <2> QED
    BY <2>2, AgreeingAccepts, Zenon
<1> QED
  BY <1>1, ValidatorInvariant, PTL
=============================================================================
