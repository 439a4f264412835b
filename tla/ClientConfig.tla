---------------------------- MODULE ClientConfig ----------------------------
(***************************************************************************)
(* A program puts the library's components together: it builds one with    *)
(* its New function and some config options, or writes the zero value of   *)
(* its type, hands it over to the next one it builds, and calls what it    *)
(* made.  The answer a call gets here is that of the component it fails    *)
(* in, or succeeds down to, before any of them does its own work.          *)
(***************************************************************************)
EXTENDS Components

Kinds == {"jwt.Decoder", "jwt.Encoder", "jwt.Validator", "jwt.Issuer", "jwt.Reader",
          "jwt.Writer", "jwt.Resolver", "jwt.Authenticator", "clientcredentials.Reader",
          "clientcredentials.Writer", "clientcredentials.Validator",
          "clientcredentials.Resolver", "clientcredentials.Authenticator",
          "tokenrequest.Reader", "tokenrequest.Writer", "tokenrequest.Validator",
          "tokenrequest.Resolver", "tokenrequest.Authenticator", "tokenresponse.Encoder",
          "tokenresponse.Writer", "tokenresponse.Decoder", "tokenresponse.Reader",
          "tokenresponse.Validator"}

CONSTANTS
    Catalogue,    \* the config options of each kind, by name
    MaxOptions,   \* how many of them a component is built with
    MaxBuilt,     \* how many components are built, one into the next
    CallOptions,  \* the runtime options a call is made with
    TypesListed   \* the token types that those of its validator's options list that list any

(* The zero value of a type *)
Zero(kind) == Named(kind)
Zeros == {Zero(kind) : kind \in Kinds}

(* The issued token types a program knows, and what an option says of them and of the rest *)
IssuedTypes == {"urn:a", "urn:b"}
Switches == {"requireAccessToken", "allowIDToken", "requireIDToken", "requireIssuedType"}
Typed(option) ==
    option.does = "set" =>
        /\ "allowedTokenTypes" \notin DOMAIN option.sets
        /\ \A f \in Switches \cap DOMAIN option.sets : option.sets[f] \in BOOLEAN
        /\ "allowedIssuedTypes" \in DOMAIN option.sets =>
              option.sets["allowedIssuedTypes"] \in (SUBSET IssuedTypes) \ {{}}

ASSUME CatalogueAssumption ==
    /\ MaxOptions \in Nat /\ MaxBuilt \in Nat \ {0}
    /\ DOMAIN Catalogue = Kinds
    /\ \A kind \in Kinds : \A name \in DOMAIN Catalogue[kind] :
          Usable(Catalogue[kind][name], kind, Zeros)
    /\ DOMAIN TypesListed \subseteq DOMAIN Catalogue["tokenresponse.Validator"]
    /\ \A name \in DOMAIN Catalogue["tokenresponse.Validator"] :
          LET option == Catalogue["tokenresponse.Validator"][name] IN
          IF name \in DOMAIN TypesListed
          THEN option = Response!WithValidatorAllowedTokenTypes(TypesListed[name])
          ELSE Typed(option)

VARIABLES
    part,     \* the component the program made last
    given,    \* the config options it was built with, by name
    built,    \* how many components have been built
    answer    \* what the last call answered, and the options it was made with

vars == <<part, given, built, answer>>

NoAnswer == [err |-> NoError, options |-> <<>>]

Init ==
    /\ part = Nil /\ given = <<>>
    /\ built = 0 /\ answer = NoAnswer

(* A literal in the program; all the types are exported *)
WriteZero(kind) ==
    /\ part = Nil /\ built = 0
    /\ part' = Zero(kind)
    /\ UNCHANGED <<given, built, answer>>

Construct(kind, options) ==
    CASE kind = "jwt.Decoder" -> Jwt!NewDecoder(options)
      [] kind = "jwt.Encoder" -> Jwt!NewEncoder(options)
      [] kind = "jwt.Validator" -> Jwt!NewValidator(options)
      [] kind = "jwt.Issuer" -> Jwt!NewIssuer(options)
      [] kind = "jwt.Reader" -> Jwt!NewReader(options)
      [] kind = "jwt.Writer" -> Jwt!NewWriter(options)
      [] kind = "jwt.Resolver" -> Jwt!NewResolver(options)
      [] kind = "jwt.Authenticator" -> Jwt!NewAuthenticator(options)
      [] kind = "clientcredentials.Reader" -> Client!NewReader(options)
      [] kind = "clientcredentials.Writer" -> Client!NewWriter(options)
      [] kind = "clientcredentials.Validator" -> Client!NewValidator(options)
      [] kind = "clientcredentials.Resolver" -> Client!NewResolver(options)
      [] kind = "clientcredentials.Authenticator" -> Client!NewAuthenticator(options)
      [] kind = "tokenrequest.Reader" -> Request!NewReader(options)
      [] kind = "tokenrequest.Writer" -> Request!NewWriter(options)
      [] kind = "tokenrequest.Validator" -> Request!NewValidator(options)
      [] kind = "tokenrequest.Resolver" -> Request!NewResolver(options)
      [] kind = "tokenrequest.Authenticator" -> Request!NewAuthenticator(options)
      [] kind = "tokenresponse.Encoder" -> Response!NewEncoder(options)
      [] kind = "tokenresponse.Writer" -> Response!NewWriter(options)
      [] kind = "tokenresponse.Decoder" -> Response!NewDecoder(options)
      [] kind = "tokenresponse.Reader" -> Response!NewReader(options)
      [] kind = "tokenresponse.Validator" -> Response!NewValidator(options)

(* The fields of a kind that take the component at hand *)
Takers(kind) ==
    {f \in DOMAIN PartKinds(kind) : part # Nil /\ PartKinds(kind)[f] = part.is}

Option(kind, name) ==
    IF name \in DOMAIN Catalogue[kind] THEN Catalogue[kind][name] ELSE Dependency(name, part)

(***************************************************************************)
(* A New function: when it fails the program has nothing it could go on    *)
(* with.  The component at hand is either handed over by one of the        *)
(* options or, as long as there is none, the first to be built.            *)
(***************************************************************************)
Build(kind, names) ==
    LET made == Construct(kind, [i \in DOMAIN names |-> Option(kind, names[i])]) IN
    /\ built < MaxBuilt
    /\ part = Nil \/ Range(names) \cap Takers(kind) # {}
    /\ part' = made.value
    /\ given' = names
    /\ built' = IF made.err = NoError THEN built + 1 ELSE MaxBuilt
    /\ answer' = NoAnswer

(* A call of what was made gets as far as component c *)
CallPart(c, options) ==
    /\ part # Nil
    /\ options # <<>> => TakesOptions(part)
    /\ answer' = [err |-> Call(c, IF c = part THEN options ELSE <<>>), options |-> options]
    /\ UNCHANGED <<part, given, built>>

Stop == part = Nil /\ built = MaxBuilt /\ UNCHANGED vars

Next ==
    \/ \E kind \in Kinds :
        \/ WriteZero(kind)
        \/ \E names \in SeqOf(DOMAIN Catalogue[kind] \cup Takers(kind), MaxOptions) :
              Build(kind, names)
    \/ \E c \in Reached(part), options \in CallOptions : CallPart(c, options)
    \/ Stop

Spec == Init /\ [][Next]_vars

-----------------------------------------------------------------------------
(***************************************************************************)
(* Properties.                                                             *)
(***************************************************************************)

(***************************************************************************)
(* A component that came out of New is complete, down to its last part: a  *)
(* call can only be misconfigured, or panic, for a runtime option that is  *)
(* nil or drops the chain, or a zero value the program handed over itself. *)
(* The nil checks of the config options let those pass, the checks at the  *)
(* heads of the methods do not (jwt/reader.go:47).                         *)
(***************************************************************************)
BuiltComponentsWork ==
    answer.err # NoError =>
        \/ Broken(answer.options)
        \/ \E c \in Reached(part) : Broken(RuntimeOptions(c)) \/ c \in Zeros

-----------------------------------------------------------------------------
(***************************************************************************)
(* The client's validator at work, on responses whose tokens are valid.    *)
(***************************************************************************)
Texts == {"", "token"}
NoFaults == [t \in Texts |-> NoError]

Validation == INSTANCE TokenResponse WITH
    Text <- Texts, AllowedMethods <- ClientAuthMethods,
    AllowedGrantTypes <- GrantTypes, AllowedScopes <- {}, IllFormedScopes <- {""},
    ScopesOf <- [t \in {"token"} |-> <<t>>],
    DecodeFault <- NoFaults, ValidateFault <- NoFaults,
    Encoded <- [t \in Texts |-> t], EncodeFault <- NoFaults,
    TokenFault <- [k \in TokenKinds |-> NoFaults],
    Int64Max <- 2, Second <- 1, MaxBodyBytes <- 1, MaxPayloadBytes <- 1,
    AllowedTokenTypes <- part.allowedTokenTypes,
    AllowedIssuedTypes <- IF part.allowedIssuedTypes = Response!AnyIssuedType THEN {}
                          ELSE part.allowedIssuedTypes,
    RequireAccessToken <- part.requireAccessToken, AllowIDToken <- part.allowIDToken,
    RequireIDToken <- part.requireIDToken, RequireIssuedType <- part.requireIssuedType,
    RelativeTypes <- {"token"}

(* A response with all that is asked for and nothing that is not allowed *)
Accepts(tokenType) ==
    \E tokens \in [TokenKinds -> Texts], issued \in {""} \cup IssuedTypes :
        Validation!ValidateResponse(
            [tokens |-> tokens, token_type |-> tokenType, lifetime |-> 1, scope |-> "",
             issued_type |-> issued]) = NoError

BuiltValidator == part.is = "tokenresponse.Validator" /\ built > 0

(***************************************************************************)
(* In whatever order its options came, the validator New returns accepts   *)
(* some response for every token type it allows: what it requires is never *)
(* what it refuses.  The options that require and that forbid ID tokens    *)
(* do not look at each other, New looks at both (tokenresponse/            *)
(* validator.go:49).                                                       *)
(***************************************************************************)
SomeResponseIsAccepted ==
    BuiltValidator => \A t \in part.allowedTokenTypes : Accepts(t)

(***************************************************************************)
(* A token type the program allows is accepted from a server that writes   *)
(* it the way the program does, whether that is "bearer", "Bearer" or      *)
(* "DPoP": the list is kept, and the response compared, in lower case      *)
(* (tokenresponse/validator_config_option.go:93).                          *)
(***************************************************************************)
TypesAreAcceptedAsGiven ==
    LET listing == {i \in DOMAIN given : given[i] \in DOMAIN TypesListed} IN
    BuiltValidator /\ listing # {} =>
        \A t \in Range(TypesListed[given[Max(listing)]]) : Accepts(t)
=============================================================================
